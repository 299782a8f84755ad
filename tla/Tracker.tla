------------------------------- MODULE Tracker -------------------------------
(***************************************************************************)
(* The registry of TrackerServer: handle_connection() on its worker        *)
(* threads, with `now' read before peers_mutex_ is taken, so that requests *)
(* reach the registry in another order than that of their times.           *)
(*                                                                         *)
(* Of what a peer announces, the model keeps one thing: whether it has the *)
(* chunk that the downloaders of its swarm are looking for.  Requests that *)
(* are malformed or carry a wrong token change nothing and are left out.   *)
(***************************************************************************)
EXTENDS Integers, FiniteSetsExt, Functions

CONSTANTS
  Swarms, Peers,
  Handlers,             \* the worker threads
  TTL,                  \* ttl_, in ticks
  MaxSwarms, MaxPeers, MaxResponse,     \* limits_
  MaxTime               \* bound: the last tick

ASSUME TrackerAssumption ==
  /\ TTL \in Nat \ {0} /\ MaxTime \in Nat
  /\ MaxSwarms \in Nat \ {0} /\ MaxPeers \in Nat \ {0} /\ MaxResponse \in 1 .. MaxPeers

VARIABLES
  clock,
  swarms,               \* swarms_: swarm id -> peer id -> record
  handler,              \* the request of each handler, until it is answered
  written               \* ghost: the `now' of the last record stored for each peer

vars == <<clock, swarms, handler, written>>

Never == -1
Past == 0 .. clock
PeerRecord == [has : BOOLEAN, last_seen : Past]

\* A handler has no request, has one to apply to the registry, or has its answer
\* to write: "ok" and "capacity" to an announce, a set of peers to a query.
Idle == [kind |-> "idle"]
AnnounceRequest == [kind : {"announce"}, swarm : Swarms, peer : Peers, has : BOOLEAN,
                    now : 0 .. MaxTime]
PeersRequest == [kind : {"peers"}, swarm : Swarms, now : 0 .. MaxTime]
Request == AnnounceRequest \cup PeersRequest
Reply == [kind : {"ok", "capacity"}] \cup [kind : {"answer"}, peers : SUBSET Peers]

\* Every time in the tracker is past: it is the tracker's own clock.
TypeOK ==
  /\ clock \in 0 .. MaxTime
  /\ DOMAIN swarms \subseteq Swarms
  /\ \A s \in DOMAIN swarms : /\ DOMAIN swarms[s] \subseteq Peers
                              /\ Range(swarms[s]) \subseteq PeerRecord
  /\ handler \in [Handlers -> Request \cup Reply \cup {Idle}]
  /\ \A h \in Handlers : handler[h] \in Request => handler[h].now \in Past
  /\ written \in [Swarms -> [Peers -> {Never} \cup Past]]

Init ==
  /\ clock = 0
  /\ swarms = <<>>
  /\ handler = [h \in Handlers |-> Idle]
  /\ written = [s \in Swarms |-> [p \in Peers |-> Never]]

-----------------------------------------------------------------------------
\* now - last_seen >= ttl_, on signed durations: `now' may be the older one.
ExpiredUnsigned(now, seen) == seen > now \/ now - seen >= TTL
ExpiredLate(now, seen) == now - seen > TTL
Expired(now, seen) == now - seen >= TTL

Live(now, s) == {p \in DOMAIN swarms[s] : ~Expired(now, swarms[s][p].last_seen)}

\* prune_expired_locked: the records, and the swarms that have none left.
PruneRecords(now) == [s \in DOMAIN swarms |-> Restrict(swarms[s], Live(now, s))]
PruneNothing(now) == swarms
Prune(now) ==
  [s \in {s \in DOMAIN swarms : Live(now, s) # {}} |-> Restrict(swarms[s], Live(now, s))]

\* A request has been read, and its time is taken.
ReceiveUntimed(h, request) ==
  /\ handler[h] = Idle
  /\ handler' = [handler EXCEPT ![h] = request]
  /\ UNCHANGED <<clock, swarms, written>>
Receive(h, request) ==
  /\ handler[h] = Idle
  /\ request.now = clock
  /\ handler' = [handler EXCEPT ![h] = request]
  /\ UNCHANGED <<clock, swarms, written>>

Put(f, x, value) == [y \in DOMAIN f \cup {x} |-> IF y = x THEN value ELSE f[y]]

PeersOf(reg, s) == IF s \in DOMAIN reg THEN reg[s] ELSE <<>>

\* The swarm is known or can be added, and so is the peer.
Accepts(reg, s, p) ==
  IF s \in DOMAIN reg
  THEN p \in DOMAIN reg[s] \/ Cardinality(DOMAIN reg[s]) < MaxPeers
  ELSE Cardinality(DOMAIN reg) < MaxSwarms

\* An ANNOUNCE under peers_mutex_.
Announce(h) ==
  LET r == handler[h]
      reg == Prune(r.now)
      record == [has |-> r.has, last_seen |-> r.now]
  IN
  /\ r.kind = "announce"
  /\ \/ /\ Accepts(reg, r.swarm, r.peer)
        /\ swarms' = Put(reg, r.swarm, Put(PeersOf(reg, r.swarm), r.peer, record))
        /\ written' = [written EXCEPT ![r.swarm][r.peer] = r.now]
        /\ handler' = [handler EXCEPT ![h] = [kind |-> "ok"]]
     \/ /\ ~Accepts(reg, r.swarm, r.peer)
        /\ swarms' = reg
        /\ handler' = [handler EXCEPT ![h] = [kind |-> "capacity"]]
        /\ UNCHANGED written
  /\ UNCHANGED clock

\* The first max_response_peers records, in the order of the hash table.
Answers(peers) == {A \in SUBSET DOMAIN peers :
                     Cardinality(A) = Min({Cardinality(DOMAIN peers), MaxResponse})}

\* A PEERS request under peers_mutex_.
Discover(h) ==
  LET r == handler[h]
      reg == Prune(r.now)
  IN
  /\ r.kind = "peers"
  /\ swarms' = reg
  /\ \E A \in Answers(PeersOf(reg, r.swarm)) :
       handler' = [handler EXCEPT ![h] = [kind |-> "answer", peers |-> A]]
  /\ UNCHANGED <<clock, written>>

\* The answer is written to the socket, without the mutex.
Finish(h) ==
  /\ handler[h] \in Reply
  /\ handler' = [handler EXCEPT ![h] = Idle]
  /\ UNCHANGED <<clock, swarms, written>>

Tick ==
  /\ clock < MaxTime
  /\ clock' = clock + 1
  /\ UNCHANGED <<swarms, handler, written>>

Next ==
  \/ \E h \in Handlers :
       \/ \E request \in Request : Receive(h, request)
       \/ Announce(h) \/ Discover(h) \/ Finish(h)
  \/ Tick

Spec == Init /\ [][Next]_vars

-----------------------------------------------------------------------------
(* Properties.                                                             *)

\* The registry stays within its limits and holds no swarm without peers, which
\* would use up max_swarms for ever.
WithinLimits ==
  /\ Cardinality(DOMAIN swarms) <= MaxSwarms
  /\ \A s \in DOMAIN swarms : Cardinality(DOMAIN swarms[s]) \in 1 .. MaxPeers

\* A peer is listed for a full TTL after the announce that was stored last for
\* it, although pruning goes by the `now' of requests that waited for the mutex.
KeptForTTL ==
  \A s \in Swarms, p \in Peers :
    written[s][p] # Never /\ clock - written[s][p] < TTL => p \in DOMAIN PeersOf(swarms, s)

\* ERROR capacity is answered only if, at the time of the request, the limit is
\* reached by peers that are not expired.
LiveAt(now, s) == {p \in DOMAIN PeersOf(swarms, s) : now - swarms[s][p].last_seen < TTL}
RefusedOnlyWhenFull ==
  [][\A h \in Handlers :
       handler[h].kind = "announce" /\ handler'[h].kind = "capacity" =>
         LET live == LiveAt(handler[h].now, handler[h].swarm) IN
         \/ Cardinality(live \ {handler[h].peer}) = MaxPeers
         \/ live = {} /\ Cardinality({s \in Swarms : LiveAt(handler[h].now, s) # {}}) = MaxSwarms]_vars

\* A query is answered with peers that are not expired at its time: with all of
\* them, or with max_response_peers of them.
AnswersAreLive ==
  [][\A h \in Handlers :
       handler[h].kind = "peers" /\ handler'[h].kind = "answer" =>
         LET live == LiveAt(handler[h].now, handler[h].swarm) IN
         /\ handler'[h].peers \subseteq live
         /\ handler'[h].peers = live \/ Cardinality(handler'[h].peers) = MaxResponse]_vars

-----------------------------------------------------------------------------
(* What the documentation says and the code does not do.                   *)

\* peer_has_chunk over the answer, as fetch_with_retry asks it.
Sources(reg, s, answer) == {p \in answer : reg[s][p].has}

\* docs/runbook.md: "Unable to fetch chunk" means that "No active peer advertises
\* a needed chunk, or peer connections failed": an answer without a source for
\* the chunk is given only if no peer of the swarm advertises it.
NoSourceMeansNoneActive ==
  [][\A h \in Handlers :
       handler[h].kind = "peers" /\ handler'[h].kind = "answer" =>
         LET s == handler[h].swarm
             live == LiveAt(handler[h].now, s)
         IN  Sources(swarms, s, handler'[h].peers) = {} => Sources(swarms, s, live) = {}]_vars
=============================================================================
