---------------------------- MODULE TrackerProofs ----------------------------
(***************************************************************************)
(* Proofs about Tracker: limits, presence and answers of the registry, for *)
(* any swarms, peers, handlers, limits and length of time.                 *)
(***************************************************************************)
EXTENDS Tracker, FiniteSetTheorems, TLAPS

\* The requests in hand are well formed, and their times are past.
HandlerInv ==
  /\ clock \in Nat
  /\ DOMAIN handler = Handlers
  /\ \A h \in Handlers : handler[h].kind \in {"announce", "peers"} =>
       handler[h].now \in 0 .. clock /\ handler[h].swarm \in Swarms
  /\ \A h \in Handlers : handler[h].kind = "announce" => handler[h].peer \in Peers
  /\ written \in [Swarms -> [Peers -> Int]]

\* A registry within its limits: finite, which its cardinalities presuppose.
RegistryOK(reg) ==
  /\ DOMAIN reg \subseteq Swarms /\ IsFiniteSet(DOMAIN reg)
  /\ Cardinality(DOMAIN reg) <= MaxSwarms
  /\ \A s \in DOMAIN reg : /\ IsFiniteSet(DOMAIN reg[s])
                           /\ Cardinality(DOMAIN reg[s]) \in 1 .. MaxPeers
                           /\ \A p \in DOMAIN reg[s] : reg[s][p].last_seen \in Int

\* The record stored last is there, unless it has been there for a full TTL.
Kept(reg, s, p) ==
  s \in DOMAIN reg /\ p \in DOMAIN reg[s] /\ reg[s][p].last_seen = written[s][p]
KeptInv ==
  \A s \in Swarms, p \in Peers :
    written[s][p] # Never => clock - written[s][p] >= TTL \/ Kept(swarms, s, p)

TrackerInv == HandlerInv /\ RegistryOK(swarms) /\ KeptInv

-----------------------------------------------------------------------------
\* Pruning keeps a registry within its limits, and leaves no empty swarm.
LEMMA PruneWithinLimits ==
  ASSUME NEW now, RegistryOK(swarms)
  PROVE  RegistryOK(Prune(now))
<1>1. /\ DOMAIN Prune(now) \in SUBSET DOMAIN swarms
      /\ \A s \in DOMAIN Prune(now) : /\ DOMAIN Prune(now)[s] \in SUBSET DOMAIN swarms[s]
                                      /\ DOMAIN Prune(now)[s] # {}
  <2>1. \A s : Live(now, s) \in SUBSET DOMAIN swarms[s]
    BY DEF Live
  <2> QED
    BY <2>1 DEF Prune, Restrict
<1>2. /\ DOMAIN Prune(now) \subseteq Swarms /\ IsFiniteSet(DOMAIN Prune(now))
      /\ Cardinality(DOMAIN Prune(now)) <= MaxSwarms
  <2>1. /\ IsFiniteSet(DOMAIN Prune(now))
        /\ Cardinality(DOMAIN Prune(now)) <= Cardinality(DOMAIN swarms)
    BY <1>1, FS_Subset DEF RegistryOK
  <2>2. Cardinality(DOMAIN Prune(now)) \in Nat /\ Cardinality(DOMAIN swarms) \in Nat
    BY <2>1, FS_CardinalityType DEF RegistryOK
  <2> QED
    BY <1>1, <2>1, <2>2, TrackerAssumption DEF RegistryOK
<1>3. ASSUME NEW s \in DOMAIN Prune(now)
      PROVE  /\ IsFiniteSet(DOMAIN Prune(now)[s])
             /\ Cardinality(DOMAIN Prune(now)[s]) \in 1 .. MaxPeers
  <2>1. IsFiniteSet(DOMAIN swarms[s]) /\ Cardinality(DOMAIN swarms[s]) \in 1 .. MaxPeers
    BY <1>1 DEF RegistryOK
  <2>2. /\ IsFiniteSet(DOMAIN Prune(now)[s])
        /\ Cardinality(DOMAIN Prune(now)[s]) <= Cardinality(DOMAIN swarms[s])
    BY <1>1, <2>1, FS_Subset
  <2>3. Cardinality(DOMAIN Prune(now)[s]) \in Nat /\ Cardinality(DOMAIN Prune(now)[s]) # 0
    BY <1>1, <2>2, FS_CardinalityType, FS_EmptySet
  <2> QED
    BY <2>1, <2>2, <2>3, TrackerAssumption
<1>4. ASSUME NEW s \in DOMAIN Prune(now), NEW p \in DOMAIN Prune(now)[s]
      PROVE  Prune(now)[s][p].last_seen \in Int
  BY DEF Prune, Restrict, Live, RegistryOK
<1> QED
  BY <1>2, <1>3, <1>4 DEF RegistryOK

\* Storing a record that the limits admit keeps to them.
LEMMA PutWithinLimits ==
  ASSUME NEW reg, NEW s \in Swarms, NEW p, NEW record,
         record.last_seen \in Int, RegistryOK(reg), Accepts(reg, s, p)
  PROVE  RegistryOK(Put(reg, s, Put(PeersOf(reg, s), p, record)))
<1> DEFINE peers == Put(PeersOf(reg, s), p, record)
           after == Put(reg, s, peers)
<1>1. /\ DOMAIN after = DOMAIN reg \cup {s} /\ after[s] = peers
      /\ \A r \in DOMAIN reg \ {s} : after[r] = reg[r]
  BY DEF Put
<1>2. /\ IsFiniteSet(DOMAIN after) /\ Cardinality(DOMAIN after) <= MaxSwarms
      /\ DOMAIN after \subseteq Swarms
  <2>1. Cardinality(DOMAIN reg) \in Nat
    BY FS_CardinalityType DEF RegistryOK
  <2>2. /\ IsFiniteSet(DOMAIN reg \cup {s})
        /\ Cardinality(DOMAIN reg \cup {s}) =
             IF s \in DOMAIN reg THEN Cardinality(DOMAIN reg) ELSE Cardinality(DOMAIN reg) + 1
    BY FS_AddElement DEF RegistryOK
  <2> QED
    BY <1>1, <2>1, <2>2, TrackerAssumption DEF RegistryOK, Accepts
<1>3. IsFiniteSet(DOMAIN peers) /\ Cardinality(DOMAIN peers) \in 1 .. MaxPeers
  <2>1. DOMAIN peers = DOMAIN PeersOf(reg, s) \cup {p}
    BY DEF Put
  <2>2. CASE s \in DOMAIN reg
    <3>1. /\ IsFiniteSet(DOMAIN reg[s]) /\ Cardinality(DOMAIN reg[s]) \in 1 .. MaxPeers
          /\ p \in DOMAIN reg[s] \/ Cardinality(DOMAIN reg[s]) < MaxPeers
      BY <2>2 DEF RegistryOK, Accepts
    <3>2. /\ IsFiniteSet(DOMAIN reg[s] \cup {p})
          /\ Cardinality(DOMAIN reg[s] \cup {p}) =
               IF p \in DOMAIN reg[s] THEN Cardinality(DOMAIN reg[s])
                                      ELSE Cardinality(DOMAIN reg[s]) + 1
      BY <3>1, FS_AddElement
    <3>3. DOMAIN peers = DOMAIN reg[s] \cup {p}
      BY <2>1, <2>2 DEF PeersOf
    <3>4. Cardinality(DOMAIN reg[s] \cup {p}) \in 1 .. MaxPeers
      BY <3>1, <3>2, TrackerAssumption
    <3> QED
      BY <3>2, <3>3, <3>4
  <2>3. CASE s \notin DOMAIN reg
    <3>1. PeersOf(reg, s) = << >>
      BY <2>3 DEF PeersOf
    <3>2. DOMAIN << >> = {}
      OBVIOUS
    <3>3. DOMAIN peers = {p}
      BY <2>1, <3>1, <3>2
    <3>4. IsFiniteSet({p}) /\ Cardinality({p}) = 1
      BY FS_Singleton, Zenon
    <3>5. 1 \in 1 .. MaxPeers
      BY TrackerAssumption
    <3> HIDE DEF peers
    <3> QED
      BY <3>3, <3>4, <3>5
  <2> QED
    BY <2>2, <2>3
<1>4. ASSUME NEW r \in DOMAIN after
      PROVE  /\ IsFiniteSet(DOMAIN after[r]) /\ Cardinality(DOMAIN after[r]) \in 1 .. MaxPeers
             /\ \A q \in DOMAIN after[r] : after[r][q].last_seen \in Int
  <2>1. CASE r = s
    <3>1. \A q \in DOMAIN peers : peers[q].last_seen \in Int
      <4>1. CASE s \in DOMAIN reg
        BY <4>1 DEF Put, PeersOf, RegistryOK
      <4>2. CASE s \notin DOMAIN reg
        BY <4>2 DEF Put, PeersOf
      <4> QED
        BY <4>1, <4>2
    <3> QED
      BY <1>1, <1>3, <2>1, <3>1
  <2>2. CASE r # s
    BY <1>1, <2>2 DEF RegistryOK
  <2> QED
    BY <2>1, <2>2
<1> HIDE DEF after
<1>5. RegistryOK(after)
  BY <1>2, <1>4 DEF RegistryOK
<1> QED
  BY <1>5 DEF after

\* Pruning by a time that is not in the future removes only what has expired.
LEMMA PruneKeeps ==
  ASSUME TrackerInv, NEW now \in 0 .. clock,
         NEW s \in Swarms, NEW p \in Peers, written[s][p] # Never
  PROVE  clock - written[s][p] >= TTL \/ Kept(Prune(now), s, p)
<1>1. CASE Kept(swarms, s, p) /\ now - written[s][p] < TTL
  <2>1. written[s][p] \in Int /\ now \in Int
    BY DEF TrackerInv, HandlerInv
  <2>2. p \in Live(now, s)
    BY <1>1, <2>1, TrackerAssumption DEF Live, Expired, Kept
  <2> QED
    BY <1>1, <2>2 DEF Kept, Prune, Restrict
<1>2. CASE ~(now - written[s][p] < TTL)
  BY <1>2, TrackerAssumption DEF TrackerInv, HandlerInv
<1> QED
  BY <1>1, <1>2 DEF TrackerInv, KeptInv

\* Every step keeps the invariant.
LEMMA TrackerStep == TrackerInv /\ [Next]_vars => TrackerInv'
<1> SUFFICES ASSUME TrackerInv, [Next]_vars
             PROVE  TrackerInv'
  OBVIOUS
<1> USE DEF TrackerInv
<1>1. CASE UNCHANGED vars
  BY <1>1 DEF vars, HandlerInv, RegistryOK, KeptInv, Kept
<1>2. CASE UNCHANGED <<swarms, clock, written>> /\ HandlerInv'
  BY <1>2 DEF RegistryOK, KeptInv, Kept
<1>3. ASSUME NEW h \in Handlers, NEW request \in Request, Receive(h, request)
      PROVE  TrackerInv'
  <2>1. /\ request.kind \in {"announce", "peers"} /\ request.swarm \in Swarms
        /\ request.kind = "announce" => request.peer \in Peers
    BY DEF Request, AnnounceRequest, PeersRequest
  <2>2. UNCHANGED <<swarms, clock, written>> /\ HandlerInv'
    BY <1>3, <2>1 DEF Receive, HandlerInv
  <2> QED
    BY <1>2, <2>2
<1>4. ASSUME NEW h \in Handlers, Finish(h)
      PROVE  TrackerInv'
  BY <1>2, <1>4 DEF Finish, Idle, HandlerInv
<1>5. CASE Tick
  <2>1. HandlerInv' /\ UNCHANGED <<swarms, written>> /\ clock' = clock + 1
    BY <1>5 DEF Tick, HandlerInv
  <2>2. KeptInv'
    <3> SUFFICES ASSUME NEW s \in Swarms, NEW p \in Peers, written[s][p] # Never
                 PROVE  clock' - written[s][p] >= TTL \/ Kept(swarms, s, p)
      BY <2>1 DEF KeptInv, Kept
    <3>1. clock - written[s][p] >= TTL \/ Kept(swarms, s, p)
      BY DEF KeptInv
    <3> QED
      BY <2>1, <3>1, TrackerAssumption DEF HandlerInv
  <2> QED
    BY <2>1, <2>2 DEF RegistryOK
<1>6. ASSUME NEW h \in Handlers, Discover(h)
      PROVE  TrackerInv'
  <2>1. handler[h].now \in 0 .. clock
    BY <1>6 DEF Discover, HandlerInv
  <2>2. swarms' = Prune(handler[h].now) /\ UNCHANGED <<clock, written>> /\ HandlerInv'
    BY <1>6 DEF Discover, HandlerInv
  <2>3. RegistryOK(swarms)'
    BY <2>2, PruneWithinLimits DEF RegistryOK
  <2>4. KeptInv'
    BY <2>1, <2>2, PruneKeeps DEF KeptInv, Kept
  <2> QED
    BY <2>2, <2>3, <2>4
<1>7. ASSUME NEW h \in Handlers, Announce(h)
      PROVE  TrackerInv'
  <2> DEFINE r == handler[h]
             reg == Prune(r.now)
             record == [has |-> r.has, last_seen |-> r.now]
  <2>1. r.now \in 0 .. clock /\ r.swarm \in Swarms /\ r.peer \in Peers
    BY <1>7 DEF Announce, HandlerInv
  <2>2. RegistryOK(reg)
    BY PruneWithinLimits
  <2>3. CASE ~Accepts(reg, r.swarm, r.peer)
    <3>1. swarms' = reg /\ UNCHANGED <<clock, written>> /\ HandlerInv'
      BY <1>7, <2>3 DEF Announce, HandlerInv
    <3>2. RegistryOK(swarms)'
      BY <2>2, <3>1 DEF RegistryOK
    <3>3. KeptInv'
      BY <2>1, <3>1, PruneKeeps DEF KeptInv, Kept
    <3> QED
      BY <3>1, <3>2, <3>3
  <2>4. CASE Accepts(reg, r.swarm, r.peer)
    <3> DEFINE after == Put(reg, r.swarm, Put(PeersOf(reg, r.swarm), r.peer, record))
    <3>1. /\ swarms' = after /\ UNCHANGED clock
          /\ written' = [written EXCEPT ![r.swarm][r.peer] = r.now]
          /\ handler' = [handler EXCEPT ![h] = [kind |-> "ok"]]
      BY <1>7, <2>4 DEF Announce
    <3>2. HandlerInv'
      BY <2>1, <3>1 DEF HandlerInv
    <3>3. RegistryOK(after)
      <4>1. record.last_seen \in Int
        BY <2>1
      <4> QED
        BY <2>1, <2>2, <2>4, <4>1, PutWithinLimits
    <3>4. RegistryOK(swarms)'
      BY <3>1, <3>3 DEF RegistryOK
    <3>5. ASSUME NEW s \in Swarms, NEW p \in Peers, written'[s][p] # Never
          PROVE  \/ clock' - written'[s][p] >= TTL
                 \/ /\ s \in DOMAIN after /\ p \in DOMAIN after[s]
                    /\ after[s][p].last_seen = written'[s][p]
      <4>1. CASE s = r.swarm /\ p = r.peer
        <5>1. s \in DOMAIN after /\ p \in DOMAIN after[s] /\ after[s][p] = record
          BY <4>1 DEF Put
        <5>2. written'[s][p] = r.now
          BY <3>1, <4>1 DEF HandlerInv
        <5> QED
          BY <5>1, <5>2
      <4>2. CASE ~(s = r.swarm /\ p = r.peer)
        <5>1. written'[s][p] = written[s][p]
          BY <3>1, <4>2 DEF HandlerInv
        <5>2. clock - written[s][p] >= TTL \/ Kept(reg, s, p)
          BY <2>1, <3>5, <5>1, PruneKeeps
        <5>3. Kept(reg, s, p) => /\ s \in DOMAIN after /\ p \in DOMAIN after[s]
                                 /\ after[s][p] = reg[s][p]
          BY <4>2 DEF Put, PeersOf, Kept
        <5> QED
          BY <3>1, <5>1, <5>2, <5>3 DEF Kept
      <4> QED
        BY <4>1, <4>2
    <3>6. KeptInv'
      BY <3>1, <3>5 DEF KeptInv, Kept
    <3> QED
      BY <3>2, <3>4, <3>6
  <2> QED
    BY <2>3, <2>4
<1> QED
  BY <1>1, <1>3, <1>4, <1>5, <1>6, <1>7 DEF Next

\* The three parts hold always.
LEMMA TrackerInvariance == Spec => []TrackerInv
<1>1. Init => TrackerInv
  BY FS_EmptySet, TrackerAssumption
  DEF Init, TrackerInv, HandlerInv, RegistryOK, KeptInv, Idle, Never
<1> QED
  BY <1>1, TrackerStep, PTL DEF Spec

-----------------------------------------------------------------------------
\* Which peers are live, as the properties say it and as pruning finds it.
LEMMA LiveIsPruned ==
  ASSUME TrackerInv, NEW now \in Int, NEW s \in Swarms
  PROVE  /\ s \in DOMAIN Prune(now) <=> LiveAt(now, s) # {}
         /\ DOMAIN PeersOf(Prune(now), s) = LiveAt(now, s)
<1>1. CASE s \notin DOMAIN swarms
  <2>1. DOMAIN << >> = {}
    OBVIOUS
  <2>2. LiveAt(now, s) = {}
    BY <1>1, <2>1 DEF LiveAt, PeersOf
  <2> QED
    BY <1>1, <2>1, <2>2 DEF Prune, PeersOf
<1>2. CASE s \in DOMAIN swarms
  <2>1. \A p \in DOMAIN swarms[s] : swarms[s][p].last_seen \in Int
    BY <1>2 DEF TrackerInv, RegistryOK
  <2>2. LiveAt(now, s) = Live(now, s)
    BY <1>2, <2>1, TrackerAssumption DEF LiveAt, Live, Expired, PeersOf
  <2> QED
    BY <1>2, <2>2 DEF Prune, PeersOf, Restrict, Live
<1> QED
  BY <1>1, <1>2

\* A handler changes its own request only, and refuses only in Announce.
LEMMA RefusedByAnnounce ==
  ASSUME TrackerInv, [Next]_vars, NEW h \in Handlers,
         handler[h].kind = "announce", handler'[h].kind = "capacity"
  PROVE  ~Accepts(Prune(handler[h].now), handler[h].swarm, handler[h].peer)
<1>0. DOMAIN handler = Handlers
  BY DEF TrackerInv, HandlerInv
<1>1. handler' # handler
  OBVIOUS
<1>2. PICK g \in Handlers : \/ \E request \in Request : Receive(g, request)
                            \/ Announce(g) \/ Discover(g) \/ Finish(g)
  BY <1>1 DEF Next, vars, Tick
<1>3. g = h
  BY <1>0, <1>2 DEF Receive, Announce, Discover, Finish
<1>4. Announce(h)
  BY <1>2, <1>3 DEF Receive, Discover, Finish, Idle, Reply
<1> QED
  BY <1>0, <1>4 DEF Announce

\* The registry never exceeds max_swarms or max_peers_per_swarm, and never holds
\* a swarm without peers.
THEOREM LimitsSafety == Spec => []WithinLimits
<1>1. TrackerInv => WithinLimits
  BY DEF TrackerInv, RegistryOK, WithinLimits
<1> QED
  BY <1>1, TrackerInvariance, PTL

\* A peer is listed for a full TTL after the announce stored last for it,
\* however late requests come to the registry.
THEOREM PresenceSafety == Spec => []KeptForTTL
<1>1. TrackerInv => KeptForTTL
  <2> SUFFICES ASSUME TrackerInv, NEW s \in Swarms, NEW p \in Peers,
                      written[s][p] # Never, clock - written[s][p] < TTL
               PROVE  p \in DOMAIN PeersOf(swarms, s)
    BY DEF KeptForTTL
  <2>1. Kept(swarms, s, p)
    BY TrackerAssumption DEF TrackerInv, KeptInv, HandlerInv
  <2> QED
    BY <2>1 DEF Kept, PeersOf
<1> QED
  BY <1>1, TrackerInvariance, PTL

\* ERROR capacity is answered only when peers that are live at the time of the
\* request fill the swarm, or their swarms the tracker.
THEOREM RefusalSafety == Spec => RefusedOnlyWhenFull
<1> DEFINE Full(h) ==
      LET live == LiveAt(handler[h].now, handler[h].swarm) IN
      \/ Cardinality(live \ {handler[h].peer}) = MaxPeers
      \/ live = {} /\ Cardinality({s \in Swarms : LiveAt(handler[h].now, s) # {}}) = MaxSwarms
<1>1. ASSUME TrackerInv, [Next]_vars, NEW h \in Handlers,
             handler[h].kind = "announce", handler'[h].kind = "capacity"
      PROVE  Full(h)
  <2> DEFINE r == handler[h]
             reg == Prune(r.now)
             live == LiveAt(r.now, r.swarm)
  <2>1. ~Accepts(reg, r.swarm, r.peer)
    BY <1>1, RefusedByAnnounce
  <2>2. r.now \in Int /\ r.swarm \in Swarms
    BY <1>1 DEF TrackerInv, HandlerInv
  <2>3. RegistryOK(reg)
    BY <1>1, PruneWithinLimits DEF TrackerInv
  <2>4. CASE r.swarm \in DOMAIN reg
    <3>1. /\ Cardinality(DOMAIN reg[r.swarm]) \in 1 .. MaxPeers
          /\ r.peer \notin DOMAIN reg[r.swarm]
          /\ ~(Cardinality(DOMAIN reg[r.swarm]) < MaxPeers)
      BY <2>1, <2>3, <2>4 DEF Accepts, RegistryOK
    <3>2. DOMAIN reg[r.swarm] = live
      BY <1>1, <2>2, <2>4, LiveIsPruned DEF PeersOf
    <3>3. Cardinality(live) = MaxPeers
      BY <3>1, <3>2, TrackerAssumption
    <3>4. live \ {r.peer} = live
      BY <3>1, <3>2
    <3> QED
      BY <3>3, <3>4
  <2>5. CASE r.swarm \notin DOMAIN reg
    <3>1. Cardinality(DOMAIN reg) <= MaxSwarms /\ ~(Cardinality(DOMAIN reg) < MaxSwarms)
      BY <2>1, <2>3, <2>5 DEF Accepts, RegistryOK
    <3>2. Cardinality(DOMAIN reg) \in Nat
      BY <2>3, FS_CardinalityType DEF RegistryOK
    <3>3. live = {}
      BY <1>1, <2>2, <2>5, LiveIsPruned
    <3>4. DOMAIN reg = {s \in Swarms : LiveAt(r.now, s) # {}}
      <4>1. DOMAIN reg \subseteq Swarms
        BY <2>3 DEF RegistryOK
      <4>2. \A s \in Swarms : s \in DOMAIN reg <=> LiveAt(r.now, s) # {}
        BY <1>1, <2>2, LiveIsPruned
      <4> QED
        BY <4>1, <4>2
    <3>5. Cardinality(DOMAIN reg) = MaxSwarms
      BY <3>1, <3>2, TrackerAssumption
    <3> QED
      BY <3>3, <3>4, <3>5
  <2> QED
    BY <2>4, <2>5
<1>2. TrackerInv /\ [Next]_vars =>
        [\A h \in Handlers : handler[h].kind = "announce" /\ handler'[h].kind = "capacity"
           => Full(h)]_vars
  BY <1>1
<1> QED
  BY <1>2, TrackerInvariance, PTL DEF Spec, RefusedOnlyWhenFull

\* An answer to a query is some set that Answers allows.
LEMMA AnsweredByDiscover ==
  ASSUME TrackerInv, [Next]_vars, NEW h \in Handlers,
         handler[h].kind = "peers", handler'[h].kind = "answer"
  PROVE  handler'[h].peers \in Answers(PeersOf(Prune(handler[h].now), handler[h].swarm))
<1>0. DOMAIN handler = Handlers
  BY DEF TrackerInv, HandlerInv
<1>1. handler' # handler
  OBVIOUS
<1>2. PICK g \in Handlers : \/ \E request \in Request : Receive(g, request)
                            \/ Announce(g) \/ Discover(g) \/ Finish(g)
  BY <1>1 DEF Next, vars, Tick
<1>3. g = h
  BY <1>0, <1>2 DEF Receive, Announce, Discover, Finish
<1>4. Discover(h)
  BY <1>2, <1>3 DEF Receive, Announce, Finish, Idle, Reply
<1> QED
  BY <1>0, <1>4 DEF Discover

\* A query is answered with live peers only, and with all of them unless the
\* answer is full.
THEOREM AnswerSafety == Spec => AnswersAreLive
<1> DEFINE Good(h) ==
      LET live == LiveAt(handler[h].now, handler[h].swarm) IN
      /\ handler'[h].peers \subseteq live
      /\ handler'[h].peers = live \/ Cardinality(handler'[h].peers) = MaxResponse
<1>1. ASSUME TrackerInv, [Next]_vars, NEW h \in Handlers,
             handler[h].kind = "peers", handler'[h].kind = "answer"
      PROVE  Good(h)
  <2> DEFINE r == handler[h]
             live == LiveAt(r.now, r.swarm)
             A == handler'[h].peers
  <2>1. r.now \in Int /\ r.swarm \in Swarms
    BY <1>1 DEF TrackerInv, HandlerInv
  <2>2. DOMAIN PeersOf(Prune(r.now), r.swarm) = live
    BY <1>1, <2>1, LiveIsPruned
  <2>3. A \in SUBSET live /\ Cardinality(A) = Min({Cardinality(live), MaxResponse})
    BY <1>1, <2>2, AnsweredByDiscover DEF Answers
  <2>4. IsFiniteSet(live)
    <3>1. CASE r.swarm \in DOMAIN swarms
      <4>1. IsFiniteSet(DOMAIN swarms[r.swarm]) /\ live \in SUBSET DOMAIN swarms[r.swarm]
        BY <1>1, <3>1 DEF TrackerInv, RegistryOK, LiveAt, PeersOf
      <4> QED
        BY <4>1, FS_Subset
    <3>2. CASE r.swarm \notin DOMAIN swarms
      <4>1. live = {}
        BY <3>2 DEF LiveAt, PeersOf
      <4> QED
        BY <4>1, FS_EmptySet
    <3> QED
      BY <3>1, <3>2
  <2>5. Min({Cardinality(live), MaxResponse}) \in {Cardinality(live), MaxResponse}
    <3>1. Cardinality(live) \in Int /\ MaxResponse \in Int
      BY <2>4, FS_CardinalityType, TrackerAssumption
    <3>2. \E x \in {Cardinality(live), MaxResponse} :
            \A y \in {Cardinality(live), MaxResponse} : x <= y
      BY <3>1
    <3> QED
      BY <3>2 DEF Min
  <2>6. Cardinality(A) = Cardinality(live) => A = live
    BY <2>3, <2>4, FS_Subset
  <2> QED
    BY <2>3, <2>5, <2>6
<1>2. TrackerInv /\ [Next]_vars =>
        [\A h \in Handlers : handler[h].kind = "peers" /\ handler'[h].kind = "answer"
           => Good(h)]_vars
  BY <1>1
<1> QED
  BY <1>2, TrackerInvariance, PTL DEF Spec, AnswersAreLive

-----------------------------------------------------------------------------
(* The times in the registry and in the requests.                          *)

\* A registry of records that were made by the time t.
Recorded(reg, t) ==
  /\ DOMAIN reg \subseteq Swarms
  /\ \A s \in DOMAIN reg :
       /\ DOMAIN reg[s] \subseteq Peers
       /\ \A p \in DOMAIN reg[s] : reg[s][p] \in [has : BOOLEAN, last_seen : 0 .. t]

LEMMA PruneRecorded ==
  ASSUME NEW now, NEW t, Recorded(swarms, t)
  PROVE  Recorded(Prune(now), t)
<1>1. /\ DOMAIN Prune(now) \subseteq DOMAIN swarms
      /\ \A s \in DOMAIN Prune(now) :
           /\ DOMAIN Prune(now)[s] \subseteq DOMAIN swarms[s]
           /\ \A p \in DOMAIN Prune(now)[s] : Prune(now)[s][p] = swarms[s][p]
  BY DEF Prune, Restrict, Live
<1> QED
  BY <1>1 DEF Recorded

LEMMA PutRecorded ==
  ASSUME NEW t, NEW reg, Recorded(reg, t), NEW s \in Swarms, NEW p \in Peers,
         NEW record \in [has : BOOLEAN, last_seen : 0 .. t]
  PROVE  Recorded(Put(reg, s, Put(PeersOf(reg, s), p, record)), t)
<1> DEFINE peers == Put(PeersOf(reg, s), p, record)
           after == Put(reg, s, peers)
<1>1. /\ DOMAIN after = DOMAIN reg \cup {s} /\ after[s] = peers
      /\ \A r \in DOMAIN reg \ {s} : after[r] = reg[r]
  BY DEF Put
<1>2. /\ DOMAIN PeersOf(reg, s) \subseteq Peers
      /\ \A q \in DOMAIN PeersOf(reg, s) :
           PeersOf(reg, s)[q] \in [has : BOOLEAN, last_seen : 0 .. t]
  <2>1. CASE s \in DOMAIN reg
    BY <2>1 DEF Recorded, PeersOf
  <2>2. CASE s \notin DOMAIN reg
    <3>1. PeersOf(reg, s) = <<>> /\ DOMAIN <<>> = {}
      BY <2>2 DEF PeersOf
    <3> QED
      BY <3>1
  <2> QED
    BY <2>1, <2>2
<1>3. /\ DOMAIN peers \subseteq Peers
      /\ \A q \in DOMAIN peers : peers[q] \in [has : BOOLEAN, last_seen : 0 .. t]
  BY <1>2 DEF Put
<1> HIDE DEF peers, after
<1>4. Recorded(after, t)
  BY <1>1, <1>3 DEF Recorded
<1> QED
  BY <1>4 DEF after, peers

TimeInv ==
  /\ clock \in 0 .. MaxTime
  /\ Recorded(swarms, clock)
  /\ handler \in [Handlers -> Request \cup Reply \cup {Idle}]
  /\ \A h \in Handlers : handler[h] \in Request => handler[h].now \in 0 .. clock
  /\ written \in [Swarms -> [Peers -> {Never} \cup 0 .. clock]]

\* The kind of a request tells what else it has.
LEMMA KindOf ==
  ASSUME NEW r \in Request \cup Reply \cup {Idle}
  PROVE  /\ r.kind = "announce" => r \in AnnounceRequest /\ r \in Request
         /\ r.kind = "peers" => r \in PeersRequest /\ r \in Request
<1>1. CASE r \in AnnounceRequest
  BY <1>1 DEF AnnounceRequest, Request
<1>2. CASE r \in PeersRequest
  BY <1>2 DEF PeersRequest, Request
<1>3. CASE r \in Reply
  BY <1>3 DEF Reply
<1>4. CASE r = Idle
  BY <1>4 DEF Idle
<1> QED
  BY <1>1, <1>2, <1>3, <1>4 DEF Request

\* A reply is no request.
LEMMA ReplyKind ==
  ASSUME NEW r \in Reply \cup {Idle}
  PROVE  r \notin Request
BY DEF Reply, Idle, Request, AnnounceRequest, PeersRequest

\* A handler that answers, or is done, has no request any more.
LEMMA Answered ==
  ASSUME TimeInv, NEW h \in Handlers, NEW reply \in Reply \cup {Idle},
         handler' = [handler EXCEPT ![h] = reply], UNCHANGED clock
  PROVE  /\ handler' \in [Handlers -> Request \cup Reply \cup {Idle}]
         /\ \A g \in Handlers : handler'[g] \in Request => handler'[g].now \in 0 .. clock'
<1>1. handler'[h] = reply /\ \A g \in Handlers \ {h} : handler'[g] = handler[g]
  BY DEF TimeInv
<1>2. handler' \in [Handlers -> Request \cup Reply \cup {Idle}]
  BY DEF TimeInv
<1> QED
  BY <1>1, <1>2, ReplyKind DEF TimeInv

LEMMA TimeStep == TimeInv /\ [Next]_vars => TimeInv'
<1> SUFFICES ASSUME TimeInv, [Next]_vars
             PROVE  TimeInv'
  OBVIOUS
<1>0. clock \in Nat /\ MaxTime \in Nat /\ clock <= MaxTime
  BY TrackerAssumption DEF TimeInv
<1>1. CASE UNCHANGED vars
  BY <1>1 DEF vars, TimeInv, Recorded
<1>2. ASSUME NEW h \in Handlers, NEW request \in Request, Receive(h, request)
      PROVE  TimeInv'
  <2>1. UNCHANGED <<clock, swarms, written>> /\ handler' = [handler EXCEPT ![h] = request]
    BY <1>2 DEF Receive
  <2>2. handler' \in [Handlers -> Request \cup Reply \cup {Idle}]
    BY <2>1 DEF TimeInv
  <2>3. \A g \in Handlers : handler'[g] \in Request => handler'[g].now \in 0 .. clock
    <3>1. request.now \in 0 .. clock
      BY <1>0, <1>2 DEF Receive
    <3>2. handler'[h] = request /\ \A g \in Handlers \ {h} : handler'[g] = handler[g]
      BY <2>1 DEF TimeInv
    <3> QED
      BY <3>1, <3>2 DEF TimeInv
  <2> QED
    BY <2>1, <2>2, <2>3 DEF TimeInv, Recorded
<1>3. ASSUME NEW h \in Handlers, Finish(h)
      PROVE  TimeInv'
  <2>1. UNCHANGED <<clock, swarms, written>> /\ handler' = [handler EXCEPT ![h] = Idle]
    BY <1>3 DEF Finish
  <2> QED
    BY <2>1, Answered DEF TimeInv, Recorded
<1>4. CASE Tick
  <2>1. clock' = clock + 1 /\ clock' \in 0 .. MaxTime /\ UNCHANGED <<swarms, handler, written>>
    BY <1>0, <1>4 DEF Tick
  <2>2. 0 .. clock \subseteq 0 .. clock'
    BY <1>0, <2>1
  <2>3. Recorded(swarms, clock)'
    <3> SUFFICES ASSUME NEW s \in DOMAIN swarms, NEW p \in DOMAIN swarms[s]
                 PROVE  swarms[s][p] \in [has : BOOLEAN, last_seen : 0 .. clock']
      BY <2>1 DEF Recorded, TimeInv
    <3>1. swarms[s][p] \in [has : BOOLEAN, last_seen : 0 .. clock]
      BY DEF TimeInv, Recorded
    <3> QED
      BY <2>2, <3>1
  <2>4. written' \in [Swarms -> [Peers -> {Never} \cup 0 .. clock']]
    <3>1. \A s \in Swarms : written[s] \in [Peers -> {Never} \cup 0 .. clock']
      BY <2>2 DEF TimeInv
    <3> QED
      BY <2>1, <3>1 DEF TimeInv
  <2>5. \A h \in Handlers : handler'[h] \in Request => handler'[h].now \in 0 .. clock'
    BY <2>1, <2>2 DEF TimeInv
  <2> QED
    BY <2>1, <2>3, <2>4, <2>5 DEF TimeInv
<1>5. ASSUME NEW h \in Handlers, Discover(h)
      PROVE  TimeInv'
  <2> DEFINE reg == Prune(handler[h].now)
  <2>1. swarms' = reg /\ UNCHANGED <<clock, written>>
    BY <1>5 DEF Discover
  <2>2. Recorded(reg, clock)
    BY PruneRecorded DEF TimeInv
  <2>3. PICK A \in Answers(PeersOf(reg, handler[h].swarm)) :
          handler' = [handler EXCEPT ![h] = [kind |-> "answer", peers |-> A]]
    BY <1>5 DEF Discover
  <2>4. A \subseteq Peers
    <3>1. A \subseteq DOMAIN PeersOf(reg, handler[h].swarm)
      BY DEF Answers
    <3>2. DOMAIN <<>> = {}
      OBVIOUS
    <3> HIDE DEF reg
    <3> QED
      BY <2>2, <3>1, <3>2 DEF PeersOf, Recorded
  <2>5. [kind |-> "answer", peers |-> A] \in Reply
    BY <2>4 DEF Reply
  <2>6. Recorded(swarms, clock)'
    BY <2>1, <2>2
  <2> QED
    BY <2>1, <2>3, <2>5, <2>6, Answered DEF TimeInv
<1>6. ASSUME NEW h \in Handlers, Announce(h)
      PROVE  TimeInv'
  <2> DEFINE r == handler[h]
             reg == Prune(r.now)
             record == [has |-> r.has, last_seen |-> r.now]
  <2>1. r \in AnnounceRequest /\ r \in Request
    <3>1. r \in Request \cup Reply \cup {Idle} /\ r.kind = "announce"
      BY <1>6 DEF Announce, TimeInv
    <3> HIDE DEF r
    <3> QED
      BY <3>1, KindOf
  <2>2. r.swarm \in Swarms /\ r.peer \in Peers /\ r.has \in BOOLEAN /\ r.now \in 0 .. clock
    BY <2>1 DEF AnnounceRequest, TimeInv
  <2>3. Recorded(reg, clock)
    BY PruneRecorded DEF TimeInv
  <2>4. record \in [has : BOOLEAN, last_seen : 0 .. clock]
    BY <2>2
  <2>5. [kind |-> "ok"] \in Reply /\ [kind |-> "capacity"] \in Reply
    BY DEF Reply
  <2>6. CASE ~Accepts(reg, r.swarm, r.peer)
    <3>1. /\ swarms' = reg /\ UNCHANGED <<clock, written>>
          /\ handler' = [handler EXCEPT ![h] = [kind |-> "capacity"]]
      BY <1>6, <2>6 DEF Announce
    <3>2. Recorded(swarms, clock)'
      BY <2>3, <3>1
    <3> QED
      BY <2>5, <3>1, <3>2, Answered DEF TimeInv
  <2>7. CASE Accepts(reg, r.swarm, r.peer)
    <3> DEFINE after == Put(reg, r.swarm, Put(PeersOf(reg, r.swarm), r.peer, record))
    <3>1. /\ swarms' = after /\ UNCHANGED clock
          /\ written' = [written EXCEPT ![r.swarm][r.peer] = r.now]
          /\ handler' = [handler EXCEPT ![h] = [kind |-> "ok"]]
      BY <1>6, <2>7 DEF Announce
    <3> HIDE DEF reg, record
    <3>2. Recorded(after, clock)
      BY <2>2, <2>3, <2>4, PutRecorded
    <3> HIDE DEF after
    <3>3. Recorded(swarms, clock)'
      BY <3>1, <3>2
    <3>4. written' \in [Swarms -> [Peers -> {Never} \cup 0 .. clock]]
      BY <2>2, <3>1 DEF TimeInv
    <3> QED
      BY <2>5, <3>1, <3>3, <3>4, Answered DEF TimeInv
  <2> QED
    BY <2>6, <2>7
<1> QED
  BY <1>1, <1>2, <1>3, <1>4, <1>5, <1>6 DEF Next

\* No record and no waiting request is newer than the tracker's clock, in
\* whatever order the requests reach the registry.
THEOREM TypeCorrect == Spec => []TypeOK
<1>1. Init => TimeInv
  <2> SUFFICES ASSUME Init PROVE TimeInv
    OBVIOUS
  <2>1. clock \in 0 .. MaxTime /\ DOMAIN swarms = {}
    BY TrackerAssumption DEF Init
  <2>2. handler \in [Handlers -> Request \cup Reply \cup {Idle}]
    BY DEF Init
  <2>3. \A h \in Handlers : handler[h] \notin Request
    BY ReplyKind DEF Init
  <2>4. written \in [Swarms -> [Peers -> {Never} \cup 0 .. clock]]
    BY DEF Init
  <2> QED
    BY <2>1, <2>2, <2>3, <2>4 DEF TimeInv, Recorded
<1>2. TimeInv => TypeOK
  <2> SUFFICES ASSUME TimeInv PROVE TypeOK
    OBVIOUS
  <2>1. \A s \in DOMAIN swarms : DOMAIN swarms[s] \subseteq Peers /\ Range(swarms[s]) \subseteq PeerRecord
    BY DEF TimeInv, Recorded, Range, PeerRecord, Past
  <2> QED
    BY <2>1 DEF TimeInv, Recorded, TypeOK, Past
<1> QED
  BY <1>1, <1>2, TimeStep, PTL DEF Spec
=============================================================================
