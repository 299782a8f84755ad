----------------------------- MODULE SocketProofs -----------------------------
(***************************************************************************)
(* Proofs about Sockets, for any number of threads, descriptors and        *)
(* addresses.  TypeOK, which ties the variables of a thread to its step,   *)
(* and the two properties are inductive together.                          *)
(***************************************************************************)
EXTENDS Sockets, TLAPS

SocketInv == TypeOK /\ NoLeak /\ OwnConnections

\* The end of a loop iteration keeps types.
LEMMA NextAddressTypes ==
  ASSUME TypeOK, NEW t \in Threads, NextAddress(t)
  PROVE  /\ fd' = [fd EXCEPT ![t] = None]
         /\ item' \in [Threads -> 1 .. Addresses]
         /\ \E step \in {"Open", "Idle"} : pc' = [pc EXCEPT ![t] = step]
<1>1. item[t] \in 1 .. Addresses /\ 1 \in 1 .. Addresses
  BY SocketsAssumption DEF TypeOK
<1>2. item[t] < Addresses => item[t] + 1 \in 1 .. Addresses
  BY <1>1, SocketsAssumption
<1> QED
  BY <1>1, <1>2 DEF NextAddress, TypeOK, Goto

\* Every step keeps the types and ties.
LEMMA TypeStep == TypeOK /\ [Next]_vars => TypeOK'
<1> SUFFICES ASSUME TypeOK, [Next]_vars
             PROVE  TypeOK'
  OBVIOUS
<1>0. Descriptors \subseteq Nat /\ None \notin Descriptors /\ 1 \in 1 .. Addresses
  BY SocketsAssumption DEF None
<1>1. CASE UNCHANGED vars
  BY <1>1 DEF TypeOK, vars
<1> USE DEF Goto, Close, Steps
<1>2. ASSUME NEW t \in Threads, Call(t)
      PROVE  TypeOK'
  BY <1>0, <1>2 DEF TypeOK, Call
<1>3. ASSUME NEW t \in Threads, Open(t)
      PROVE  TypeOK'
  <2>1. CASE NextAddress(t) /\ UNCHANGED owner
    BY <1>0, <1>3, <2>1, NextAddressTypes DEF TypeOK, Open
  <2>2. ASSUME NEW f \in Descriptors, owner' = [owner EXCEPT ![f] = t],
               fd' = [fd EXCEPT ![t] = f], pc' = [pc EXCEPT ![t] = "Setup"], UNCHANGED item
        PROVE  TypeOK'
    BY <1>0, <1>3, <2>2 DEF TypeOK, Open
  <2> QED
    BY <1>3, <2>1, <2>2 DEF Open
<1>4. ASSUME NEW t \in Threads, Setup(t)
      PROVE  TypeOK'
  BY <1>0, <1>4 DEF TypeOK, Setup, Return
<1>5. ASSUME NEW t \in Threads, Refused(t) \/ Catch(t)
      PROVE  TypeOK'
  <2>1. /\ pc[t] \in {"Connect", "Catch"} /\ UNCHANGED <<call, socket, unset>>
        /\ owner' \in [Descriptors -> Threads \cup {Nobody}]
    BY <1>5 DEF TypeOK, Refused, Catch
  <2>2. PICK step \in {"Open", "Idle"} : pc' = [pc EXCEPT ![t] = step]
    BY <1>5, NextAddressTypes DEF Refused, Catch
  <2>3. fd' = [fd EXCEPT ![t] = None] /\ item' \in [Threads -> 1 .. Addresses]
    BY <1>5, NextAddressTypes DEF Refused, Catch
  <2>4. socket[t] = None /\ pc[t] \in Steps
    BY <2>1 DEF TypeOK
  <2>5. /\ pc' \in [Threads -> Steps] /\ fd' \in [Threads -> Descriptors \cup {None}]
        /\ fd'[t] = None /\ pc'[t] \in {"Open", "Idle"} /\ socket'[t] = None
        /\ \A u \in Threads \ {t} : fd'[u] = fd[u] /\ pc'[u] = pc[u]
    BY <2>1, <2>2, <2>3, <2>4 DEF TypeOK
  <2> QED
    BY <2>1, <2>3, <2>5 DEF TypeOK
<1>6. ASSUME NEW t \in Threads, Connect(t) \/ SetTimeout(t) \/ SetTimeoutFails(t)
      PROVE  TypeOK'
  <2>1. CASE Connect(t)
    BY <1>0, <2>1 DEF TypeOK, Connect
  <2>2. CASE SetTimeout(t)
    BY <1>0, <2>2 DEF TypeOK, SetTimeout, Return
  <2>3. CASE SetTimeoutFails(t)
    BY <1>0, <2>3 DEF TypeOK, SetTimeoutFails
  <2> QED
    BY <1>6, <2>1, <2>2, <2>3
<1>7. ASSUME NEW t \in Threads, Destroy(t)
      PROVE  TypeOK'
  BY <1>0, <1>7 DEF TypeOK, Destroy
<1>8. ASSUME NEW t \in Threads, NEW u \in Threads \ {t}, Move(t, u)
      PROVE  TypeOK'
  BY <1>0, <1>8 DEF TypeOK, Move, Released
<1> QED
  BY <1>1, <1>2, <1>3, <1>4, <1>5, <1>6, <1>7, <1>8 DEF Next

\* Every step keeps the two properties.  A step that closes a descriptor leaves
\* the others with their owners, and a thread that forgets one has closed it.
LEMMA OwnerStep == SocketInv /\ [Next]_vars => NoLeak' /\ OwnConnections'
<1> SUFFICES ASSUME TypeOK, NoLeak, OwnConnections, [Next]_vars
             PROVE  NoLeak' /\ OwnConnections'
  BY DEF SocketInv
<1>0. Descriptors \subseteq Nat /\ None \notin Descriptors /\ Nobody \notin Threads
  BY SocketsAssumption DEF None
<1>1. CASE UNCHANGED vars
  BY <1>1 DEF NoLeak, OwnConnections, vars
<1> USE DEF NoLeak, OwnConnections
<1>2. ASSUME NEW t \in Threads, Call(t)
      PROVE  NoLeak' /\ OwnConnections'
  BY <1>2 DEF Call
<1>3. ASSUME NEW t \in Threads, Open(t)
      PROVE  NoLeak' /\ OwnConnections'
  <2>0. fd[t] = None /\ socket[t] = None
    BY <1>3 DEF TypeOK, Open
  <2>1. CASE NextAddress(t) /\ UNCHANGED owner
    <3>1. UNCHANGED <<owner, fd, socket, unset>>
      BY <1>3, <2>0, <2>1, NextAddressTypes DEF Open, TypeOK
    <3> QED
      BY <3>1
  <2>2. ASSUME NEW f \in Descriptors, owner[f] = Nobody, owner' = [owner EXCEPT ![f] = t],
               fd' = [fd EXCEPT ![t] = f]
        PROVE  NoLeak' /\ OwnConnections'
    <3>1. UNCHANGED <<socket, unset>>
      BY <1>3 DEF Open
    <3> QED
      BY <1>0, <2>0, <2>2, <3>1 DEF TypeOK
  <2> QED
    BY <1>3, <2>1, <2>2 DEF Open
<1>4. ASSUME NEW t \in Threads, Setup(t)
      PROVE  NoLeak' /\ OwnConnections'
  <2>1. fd[t] \in Descriptors /\ socket[t] = None
    BY <1>4 DEF TypeOK, Setup
  <2>2. /\ UNCHANGED <<owner, unset>>
        /\ \/ UNCHANGED <<fd, socket>>
           \/ fd' = [fd EXCEPT ![t] = None] /\ socket' = [socket EXCEPT ![t] = fd[t]]
    BY <1>4 DEF Setup, Return
  <2> QED
    BY <1>0, <2>1, <2>2 DEF TypeOK
<1>5. ASSUME NEW t \in Threads, Refused(t) \/ Catch(t)
      PROVE  NoLeak' /\ OwnConnections'
  <2>1. fd[t] \in Descriptors /\ socket[t] = None
    BY <1>5 DEF TypeOK, Refused, Catch
  <2>2. /\ owner' = [g \in Descriptors |-> IF g = fd[t] THEN Nobody ELSE owner[g]]
        /\ fd' = [fd EXCEPT ![t] = None] /\ UNCHANGED <<socket, unset>>
    BY <1>5, NextAddressTypes DEF Refused, Catch, Close
  <2> QED
    BY <1>0, <2>1, <2>2 DEF TypeOK
<1>6. ASSUME NEW t \in Threads, Connect(t)
      PROVE  NoLeak' /\ OwnConnections'
  <2>1. fd[t] \in Descriptors /\ socket[t] = None
    BY <1>6 DEF TypeOK, Connect
  <2> QED
    BY <1>0, <1>6, <2>1 DEF TypeOK, Connect
<1>7. ASSUME NEW t \in Threads, SetTimeout(t) \/ SetTimeoutFails(t)
      PROVE  NoLeak' /\ OwnConnections'
  <2>1. fd[t] \in Descriptors /\ socket[t] = fd[t]
    BY <1>7 DEF TypeOK, SetTimeout, SetTimeoutFails
  <2>2. CASE SetTimeout(t)
    BY <1>0, <2>1, <2>2 DEF TypeOK, SetTimeout, Return
  <2>3. CASE SetTimeoutFails(t)
    BY <1>0, <2>1, <2>3 DEF TypeOK, SetTimeoutFails, Close
  <2> QED
    BY <1>7, <2>2, <2>3
<1>8. ASSUME NEW t \in Threads, Destroy(t)
      PROVE  NoLeak' /\ OwnConnections'
  <2>1. socket[t] \in Descriptors /\ fd[t] = None
    BY <1>8 DEF TypeOK, Destroy
  <2> QED
    BY <1>0, <1>8, <2>1 DEF TypeOK, Destroy, Close
<1>9. ASSUME NEW t \in Threads, NEW u \in Threads \ {t}, Move(t, u)
      PROVE  NoLeak' /\ OwnConnections'
  <2>1. socket[t] \in Descriptors /\ fd[t] = None /\ socket[u] = None /\ fd[u] = None
    BY <1>9 DEF TypeOK, Move
  <2>2. /\ socket' = [socket EXCEPT ![u] = socket[t], ![t] = None] /\ UNCHANGED <<fd, unset>>
        /\ owner' = [f \in Descriptors |->
                       IF f = socket[t] /\ owner[f] = t THEN u ELSE owner[f]]
    BY <1>9 DEF Move, Released
  <2> QED
    BY <1>0, <2>1, <2>2 DEF TypeOK
<1> QED
  BY <1>1, <1>2, <1>3, <1>4, <1>5, <1>6, <1>7, <1>8, <1>9 DEF Next

\* The invariant holds always: variables and steps agree, nothing leaks, and
\* nothing is closed for others but after set_socket_timeout has thrown.
LEMMA SocketInvariance == Spec => []SocketInv
<1>1. Init => SocketInv
  <2> SUFFICES ASSUME Init
               PROVE  SocketInv
    OBVIOUS
  <2>1. 1 \in 1 .. Addresses
    BY SocketsAssumption
  <2>2. TypeOK
    BY <2>1 DEF Init, TypeOK, Steps
  <2> QED
    BY <2>2 DEF Init, SocketInv, NoLeak, OwnConnections
<1>2. SocketInv /\ [Next]_vars => SocketInv'
  BY TypeStep, OwnerStep DEF SocketInv
<1> QED
  BY <1>1, <1>2, PTL DEF Spec

\* On every path through connect_tcp, listen_tcp and accept_tcp, and wherever a
\* Socket is moved or destroyed, no descriptor leaks.
THEOREM LeakFreedom == Spec => []NoLeak
<1>1. SocketInv => NoLeak
  BY DEF SocketInv
<1> QED
  BY <1>1, SocketInvariance, PTL

\* Until set_socket_timeout throws in connect_tcp, no thread uses or closes the
\* descriptor of another.
THEOREM Ownership == Spec => []OwnConnections
<1>1. SocketInv => OwnConnections
  BY DEF SocketInv
<1> QED
  BY <1>1, SocketInvariance, PTL

\* At every step of connect_tcp, listen_tcp and accept_tcp, `fd' and the Socket
\* hold a descriptor exactly where the code there says so, and both hold the
\* same one in connect_tcp after the Socket is made.
THEOREM TypeCorrect == Spec => []TypeOK
<1>1. SocketInv => TypeOK
  BY DEF SocketInv
<1> QED
  BY <1>1, SocketInvariance, PTL
=============================================================================
