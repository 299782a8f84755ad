-------------------------------- MODULE Sockets --------------------------------
(***************************************************************************)
(* Who closes which descriptor: connect_tcp, listen_tcp and accept_tcp on  *)
(* the threads of one process, the class Socket, and the kernel's table of *)
(* descriptors, which gives a closed one to the next thread that asks.     *)
(***************************************************************************)
EXTENDS Integers

CONSTANTS
  Threads,
  Descriptors,          \* bound: RLIMIT_NOFILE
  Addresses,            \* bound: the addrinfo results of one name
  Nobody                \* the owner of a closed descriptor

None == -1              \* Socket::fd_ of an empty Socket

ASSUME SocketsAssumption ==
  Descriptors \subseteq Nat /\ Addresses \in Nat \ {0} /\ Nobody \notin Threads

VARIABLES
  owner,        \* the kernel's table: the thread for which a descriptor was opened
  pc, call,     \* where each thread is, and in which function
  item,         \* the address it has come to
  fd,           \* its local variable
  socket,       \* fd_ of its Socket object
  unset         \* ghost: set_socket_timeout has thrown in some connect_tcp

vars == <<owner, pc, call, item, fd, socket, unset>>

Steps == {"Idle", "Open", "Setup", "Connect", "Timeout", "Catch", "Use"}

\* Types, and which of its two variables a thread has set at each step.
TypeOK ==
  /\ owner \in [Descriptors -> Threads \cup {Nobody}]
  /\ pc \in [Threads -> Steps]
  /\ call \in [Threads -> {"connect_tcp", "listen_tcp", "accept_tcp"}]
  /\ item \in [Threads -> 1 .. Addresses]
  /\ fd \in [Threads -> Descriptors \cup {None}]
  /\ socket \in [Threads -> Descriptors \cup {None}]
  /\ unset \in BOOLEAN
  /\ \A t \in Threads :
       /\ fd[t] # None <=> pc[t] \in {"Setup", "Connect", "Timeout", "Catch"}
       /\ socket[t] # None <=> pc[t] \in {"Timeout", "Use"}
       /\ pc[t] = "Timeout" => socket[t] = fd[t]

Init ==
  /\ owner = [f \in Descriptors |-> Nobody]
  /\ pc = [t \in Threads |-> "Idle"]
  /\ call = [t \in Threads |-> "connect_tcp"]
  /\ item = [t \in Threads |-> 1]
  /\ fd = [t \in Threads |-> None] /\ socket = [t \in Threads |-> None]
  /\ unset = FALSE

-----------------------------------------------------------------------------
Goto(t, step) == pc' = [pc EXCEPT ![t] = step]

\* close_fd: whoever has the descriptor now loses it.
Close(f) == owner' = [g \in Descriptors |-> IF g = f THEN Nobody ELSE owner[g]]

\* The loop goes on with the next address; or this was the last one, a name may
\* have one or more of them, and the function throws.
NextAddress(t) ==
  /\ fd' = [fd EXCEPT ![t] = None]
  /\ \/ /\ call[t] # "accept_tcp" /\ item[t] < Addresses
        /\ item' = [item EXCEPT ![t] = @ + 1]
        /\ Goto(t, "Open")
     \/ /\ item' = [item EXCEPT ![t] = 1]
        /\ Goto(t, "Idle")

Call(t) ==
  /\ pc[t] = "Idle"
  /\ \E f \in {"connect_tcp", "listen_tcp", "accept_tcp"} : call' = [call EXCEPT ![t] = f]
  /\ Goto(t, "Open")
  /\ UNCHANGED <<owner, item, fd, socket, unset>>

\* socket() or accept() returns the lowest free descriptor, or fails.
Open(t) ==
  /\ pc[t] = "Open"
  /\ \/ \E f \in Descriptors :
          /\ owner[f] = Nobody /\ \A g \in Descriptors : g < f => owner[g] # Nobody
          /\ owner' = [owner EXCEPT ![f] = t]
          /\ fd' = [fd EXCEPT ![t] = f]
          /\ Goto(t, "Setup")
          /\ UNCHANGED item
     \/ NextAddress(t) /\ UNCHANGED owner
  /\ UNCHANGED <<call, socket, unset>>

\* A function returns its Socket: the descriptor is the caller's.
Return(t, f) ==
  /\ socket' = [socket EXCEPT ![t] = f]
  /\ fd' = [fd EXCEPT ![t] = None]
  /\ item' = [item EXCEPT ![t] = 1]
  /\ Goto(t, "Use")

\* set_close_on_exec, then set_non_blocking; or bind and listen; or the address
\* of the remote end.  Any of them may throw.
Setup(t) ==
  /\ pc[t] = "Setup"
  /\ \/ call[t] # "connect_tcp" /\ Return(t, fd[t])
     \/ call[t] = "connect_tcp" /\ Goto(t, "Connect") /\ UNCHANGED <<item, fd, socket>>
     \/ Goto(t, "Catch") /\ UNCHANGED <<item, fd, socket>>
  /\ UNCHANGED <<owner, call, unset>>

\* connect() fails at once.
RefusedTwice(t) ==
  /\ pc[t] = "Connect"
  /\ Close(fd[t])
  /\ Goto(t, "Catch")
  /\ UNCHANGED <<call, item, fd, socket, unset>>
Refused(t) ==
  /\ pc[t] = "Connect"
  /\ Close(fd[t])
  /\ NextAddress(t)
  /\ UNCHANGED <<call, socket, unset>>

\* It succeeds, at once or within wait_for_connect, and a Socket takes the
\* descriptor; or one of the calls on the way throws.
Connect(t) ==
  /\ pc[t] = "Connect"
  /\ \/ Goto(t, "Timeout") /\ socket' = [socket EXCEPT ![t] = fd[t]]
     \/ Goto(t, "Catch") /\ UNCHANGED socket
  /\ UNCHANGED <<owner, call, item, fd, unset>>

SetTimeout(t) ==
  /\ pc[t] = "Timeout"
  /\ Return(t, socket[t])
  /\ UNCHANGED <<owner, call, unset>>

\* It throws: the destructor of the Socket closes the descriptor, and the handler
\* is about to close the same number once more.
SetTimeoutFails(t) ==
  /\ pc[t] = "Timeout"
  /\ Close(socket[t])
  /\ socket' = [socket EXCEPT ![t] = None]
  /\ unset' = TRUE
  /\ Goto(t, "Catch")
  /\ UNCHANGED <<call, item, fd>>

CatchWithoutClose(t) ==
  /\ pc[t] = "Catch"
  /\ NextAddress(t)
  /\ UNCHANGED <<owner, call, socket, unset>>
Catch(t) ==
  /\ pc[t] = "Catch"
  /\ Close(fd[t])
  /\ NextAddress(t)
  /\ UNCHANGED <<call, socket, unset>>

\* The Socket goes out of scope, or is closed.
Destroy(t) ==
  /\ pc[t] = "Use"
  /\ Close(socket[t])
  /\ socket' = [socket EXCEPT ![t] = None]
  /\ Goto(t, "Idle")
  /\ UNCHANGED <<call, item, fd, unset>>

\* A Socket is moved to another thread, by way of the servers' queue_: release()
\* empties the one it is moved from.
ReleaseForgotten(t) == socket[t]
Released(t) == None
Move(t, u) ==
  /\ pc[t] = "Use" /\ pc[u] = "Idle"
  /\ socket' = [socket EXCEPT ![u] = socket[t], ![t] = Released(t)]
  /\ owner' = [f \in Descriptors |-> IF f = socket[t] /\ owner[f] = t THEN u ELSE owner[f]]
  /\ pc' = [pc EXCEPT ![t] = "Idle", ![u] = "Use"]
  /\ UNCHANGED <<call, item, fd, unset>>

Next ==
  \E t \in Threads :
    \/ Call(t) \/ Open(t) \/ Setup(t) \/ Refused(t) \/ Connect(t)
    \/ SetTimeout(t) \/ SetTimeoutFails(t) \/ Catch(t) \/ Destroy(t)
    \/ \E u \in Threads \ {t} : Move(t, u)

Spec == Init /\ [][Next]_vars

-----------------------------------------------------------------------------
(* Properties.                                                             *)

\* No descriptor leaks: one that is open is in a local variable or a Socket of
\* the thread it was opened for, or moved to, on every path out of the functions.
NoLeak == \A f \in Descriptors : owner[f] # Nobody => f \in {fd[owner[f]], socket[owner[f]]}

\* A thread uses and closes its own connections only: the descriptor it is about
\* to use or close has not been closed and handed to another thread.  The one
\* thing that breaks this is the second close after set_socket_timeout has
\* thrown in connect_tcp.
OwnConnections ==
  ~unset => \A t \in Threads :
    /\ socket[t] # None => owner[socket[t]] = t
    /\ fd[t] # None => owner[fd[t]] = t
=============================================================================
