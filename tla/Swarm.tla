--------------------------------- MODULE Swarm ---------------------------------
(***************************************************************************)
(* A swarm at work: seeders (seed() of swarmsync_main.cpp), downloaders    *)
(* with one worker each, their peer servers and the tracker's list of      *)
(* them.  A downloader asks the tracker, tries the peers it is told about  *)
(* and stores what it gets, while the same peers come, complete and go.    *)
(*                                                                         *)
(* The insides of the parts are elsewhere: run() and its files in Download,*)
(* announces that overtake one another in Presence, expiry and limits in   *)
(* Tracker, the servers' threads in ConnectionPool.                        *)
(***************************************************************************)
EXTENDS ChunkList

CONSTANTS
  Seeders, Downloaders,
  N,                    \* the number of chunks
  MaxRetries,           \* max_retries of DownloadConfig
  Fits,                 \* for each downloader, the sets of chunks whose list fits
                        \* in the header of its announce (kMaxHeaderBytes)
  TrackerLimits,        \* values of max_peers_per_swarm and max_response_peers
  NoRecord,             \* the tracker has no record of a peer
  MaxFaults             \* bound: crashes, stops, lost messages and records

ASSUME SwarmAssumption ==
  /\ Seeders \cap Downloaders = {}
  /\ N \in Nat \ {0} /\ MaxRetries \in Nat \ {0} /\ MaxFaults \in Nat
  /\ Fits \in [Downloaders -> SUBSET SUBSET (0 .. N - 1)]
  /\ \A l \in TrackerLimits : l.peers \in Nat \ {0} /\ l.response \in 1 .. l.peers

Peers == Seeders \cup Downloaders
Chunks == 0 .. N - 1

VARIABLES
  pc,           \* where each peer is
  have,         \* its verified chunks; at rest, what its resume file lists
  partial,      \* the partial file of each downloader: missing, too short, of full size
  listed,       \* the tracker's record of it
  fetch,        \* the locals of each downloader's fetch_with_retry
  limits,       \* the limits that the tracker was started with
  scoped,       \* the peers whose address the tracker sees with a scope ("%eth0")
  verified,     \* ghost: the chunks that each peer has ever had
  faults

vars == <<pc, have, partial, listed, fetch, limits, scoped, verified, faults>>

Fetching == {"Ask", "Next", "Asked", "Checked", "Answered"}
Steps == Fetching \cup {"Down", "Preparing", "Starting", "Serving", "Announce", "Finishing",
                          "Leaving", "Done"}

\* round, the peers still to be tried, the peer being asked and, as a ghost, the
\* peers that were able and willing to serve the chunk all through this round.
Frame == [round : 0 .. MaxRetries - 1, sources : SUBSET Peers,
          target : Peers, sound : SUBSET Peers]
NoFetch(d) == [round |-> 0, sources |-> {}, target |-> d, sound |-> {}]

TypeOK ==
  /\ pc \in [Peers -> Steps]
  /\ have \in [Peers -> SUBSET Chunks] /\ verified \in [Peers -> SUBSET Chunks]
  /\ \A p \in Peers : listed[p] # NoRecord => Ascending(listed[p].chunks)
  /\ partial \in [Downloaders -> {"absent", "short", "sized"}]
  /\ fetch \in [Downloaders -> Frame]
  /\ limits \in TrackerLimits
  /\ scoped \subseteq Peers
  /\ faults \in 0 .. MaxFaults

\* Some downloads may have been interrupted before.
Init ==
  /\ pc = [p \in Peers |-> "Down"]
  /\ have \in {h \in [Peers -> SUBSET Chunks] : \A s \in Seeders : h[s] = Chunks}
  /\ partial = [d \in Downloaders |-> IF have[d] = {} THEN "absent" ELSE "sized"]
  /\ listed = [p \in Peers |-> NoRecord]
  /\ limits \in TrackerLimits
  /\ fetch = [d \in Downloaders |-> NoFetch(d)]
  /\ scoped \in {S \in SUBSET Downloaders : Cardinality(S) <= 1}
  /\ verified = have
  /\ faults = 0

-----------------------------------------------------------------------------
Goto(p, step) == pc' = [pc EXCEPT ![p] = step]

Fault == faults < MaxFaults /\ faults' = faults + 1

\* A started PeerServer, until stop() clears running_.
Serves(p) == pc[p] \notin {"Down", "Preparing", "Finishing", "Leaving", "Done"}

\* The index that the one worker of d claims next.
Wanted(d) == Min(Chunks \ have[d])

\* What a peer announces, as the tracker stores it.
Record(p) == parse_chunk_field(encode_chunk_list(
               IF p \in Seeders THEN <<>> ELSE completed_chunks(have[p]), have[p] = Chunks))

\* The records of the swarm.
Listed == {p \in Peers : listed[p] # NoRecord}

\* announce() does not throw: its header is not too long, and the tracker knows the
\* peer already or has room for it.
HeaderFits(p) == p \in Downloaders /\ have[p] # Chunks => have[p] \in Fits[p]
Accepted(p) == HeaderFits(p) /\ (p \notin Listed => Cardinality(Listed) < limits.peers)

\* p stops fetching, and no round of the others can count on it any more.
Withdraw(p) ==
  fetch' = [d \in Downloaders |-> IF d = p THEN NoFetch(d)
                                  ELSE [fetch[d] EXCEPT !.sound = @ \ {p}]]

-----------------------------------------------------------------------------
(* Starting, announcing and stopping.                                      *)

\* seed() has checked its file; run() has found a partial file of full size, and
\* loaded and revalidated its resume file.
Start(p) ==
  /\ pc[p] = "Down"
  /\ p \in Downloaders => partial[p] = "sized" /\ Loadable(serialize(have[p]), N)
  /\ have' = [have EXCEPT ![p] = IF p \in Seeders THEN @ ELSE load_existing(serialize(@))]
  /\ Goto(p, "Starting")
  /\ UNCHANGED <<partial, listed, fetch, limits, scoped, verified, faults>>

\* prepare_partial_file creates the file, and closing it gives it its size.  A file
\* that is there and short is refused: run() throws and has changed nothing.
PreparePartial(d) ==
  /\ pc[d] = "Down" /\ partial[d] = "absent"
  /\ partial' = [partial EXCEPT ![d] = "short"]
  /\ Goto(d, "Preparing")
  /\ UNCHANGED <<have, listed, fetch, limits, scoped, verified, faults>>
SizePartial(d) ==
  /\ pc[d] = "Preparing"
  /\ partial' = [partial EXCEPT ![d] = "sized"]
  /\ Goto(d, "Starting")
  /\ UNCHANGED <<have, listed, fetch, limits, scoped, verified, faults>>

\* Closing it fails, after the last test of the stream.
SizePartialFails(d) ==
  /\ pc[d] = "Preparing"
  /\ Fault
  /\ Goto(d, "Starting")
  /\ UNCHANGED <<have, partial, listed, fetch, limits, scoped, verified>>

\* The first announce, after which the work or the heartbeat loop begins.
FirstAnnounce(p) ==
  /\ pc[p] = "Starting"
  /\ Accepted(p)
  /\ listed' = [listed EXCEPT ![p] = Record(p)]
  /\ IF p \in Downloaders /\ have[p] = Chunks
     THEN Goto(p, "Finishing") /\ Withdraw(p)
     ELSE Goto(p, IF p \in Seeders THEN "Serving" ELSE "Ask") /\ UNCHANGED fetch
  /\ UNCHANGED <<have, partial, limits, scoped, verified, faults>>

\* It throws, or is lost: run() and seed() end with the exception.
FirstAnnounceRefused(p) ==
  /\ pc[p] = "Starting"
  /\ ~Accepted(p)
  /\ Goto(p, "Leaving") /\ Withdraw(p)
  /\ UNCHANGED <<have, partial, listed, limits, scoped, verified, faults>>
FirstAnnounceFails(p) ==
  /\ pc[p] = "Starting"
  /\ Fault
  /\ Goto(p, "Leaving") /\ Withdraw(p)
  /\ UNCHANGED <<have, partial, listed, limits, scoped, verified>>

\* The heartbeat of a seeder or a downloader; one that throws is only logged.
HeartbeatRefreshes(p) ==
  /\ pc[p] \in Fetching \cup {"Serving", "Announce"}
  /\ Accepted(p)
  /\ listed' = [listed EXCEPT ![p] = IF @ = NoRecord THEN @ ELSE Record(p)]
  /\ UNCHANGED <<pc, have, partial, fetch, limits, scoped, verified, faults>>
Heartbeat(p) ==
  /\ pc[p] \in Fetching \cup {"Serving", "Announce"}
  /\ Accepted(p)
  /\ listed' = [listed EXCEPT ![p] = Record(p)]
  /\ UNCHANGED <<pc, have, partial, fetch, limits, scoped, verified, faults>>

\* p goes to a step, and the connections to it that are at `cut' break.
Disconnect(p, cut, step) ==
  pc' = [q \in Peers |-> IF q = p THEN step
                         ELSE IF pc[q] \in cut /\ fetch[q].target = p THEN "Next" ELSE pc[q]]

\* SIGINT or SIGTERM ends the loop of seed().
StopSeeder(s) ==
  /\ pc[s] = "Serving"
  /\ Fault
  /\ Goto(s, "Leaving") /\ Withdraw(s)
  /\ UNCHANGED <<have, partial, listed, limits, scoped, verified>>

\* The threads of p's server have left serve_connection.
ServerLeftRunning(p) == TRUE
ServerJoined(p) == \A d \in Downloaders : pc[d] = "Checked" => fetch[d].target # p

\* stop() drops the queue and joins the workers; a complete download is then
\* hashed and renamed.
Stop(p) ==
  /\ pc[p] \in {"Finishing", "Leaving"}
  /\ ServerJoined(p)
  /\ Disconnect(p, {"Asked"}, IF pc[p] = "Finishing" THEN "Done" ELSE "Down")
  /\ UNCHANGED <<have, partial, listed, fetch, limits, scoped, verified, faults>>

-----------------------------------------------------------------------------
(* fetch_with_retry and fetch_chunk.                                       *)

\* A record as the tracker encodes it in a PEER line and the client parses it.
Relayed(p) == parse_chunk_field(encode_chunk_list(listed[p].chunks, listed[p].has_all_chunks))

\* parse_peer_response: one address that is not an atom makes an Error of the
\* whole answer.
AnswerParses(answer) == answer \cap scoped = {}

\* The first max_response_peers records, in the order of the hash table.
Answers == {A \in SUBSET Listed : Cardinality(A) = Min({Cardinality(Listed), limits.response})}

\* TrackerClient::peers, and the peers that are left to be tried.
Ask(d) ==
  /\ pc[d] = "Ask"
  /\ \E answer \in Answers :
       fetch' = [fetch EXCEPT
         ![d].sources = {p \in answer \ {d} : /\ AnswerParses(answer)
                                              /\ peer_has_chunk(Relayed(p), Wanted(d))},
         ![d].sound = {p \in answer \ {d} : /\ AnswerParses(answer) /\ Serves(p)
                                            /\ Wanted(d) \in have[p] /\ listed[p] = Record(p)}]
  /\ Goto(d, "Next")
  /\ UNCHANGED <<have, partial, listed, limits, scoped, verified, faults>>

AskFails(d) ==
  /\ pc[d] = "Ask"
  /\ Fault
  /\ fetch' = [fetch EXCEPT ![d].sources = {}, ![d].sound = {}]
  /\ Goto(d, "Next")
  /\ UNCHANGED <<have, partial, listed, limits, scoped, verified>>

\* connect_tcp to the next peer, which may be gone, and the GET line.
Connect(d) ==
  /\ pc[d] = "Next"
  /\ \E p \in fetch[d].sources :
       /\ fetch' = [fetch EXCEPT ![d].sources = @ \ {p}, ![d].target = p]
       /\ Goto(d, IF Serves(p) THEN "Asked" ELSE "Next")
  /\ UNCHANGED <<have, partial, listed, limits, scoped, verified, faults>>

\* What a failed attempt leaves to be tried.
NoFurther(sources) == {}
Remaining(sources) == sources

\* serve_connection: has_chunk, under the store's mutex.
Check(d) ==
  /\ pc[d] = "Asked"
  /\ IF Wanted(d) \in have[fetch[d].target]
     THEN Goto(d, "Checked") /\ UNCHANGED fetch
     ELSE Goto(d, "Next") /\ fetch' = [fetch EXCEPT ![d].sources = Remaining(@)]
  /\ UNCHANGED <<have, partial, listed, limits, scoped, verified, faults>>

\* serve_connection: the file is read, hashed and sent.
Read(d) ==
  /\ pc[d] = "Checked"
  /\ Goto(d, "Answered")
  /\ UNCHANGED <<have, partial, listed, fetch, limits, scoped, verified, faults>>

\* The bytes pass fetch_chunk, and write_verified_chunk stores them.  The last chunk
\* gives the partial file its size.
Store(d) ==
  /\ pc[d] = "Answered"
  /\ have' = [have EXCEPT ![d] = @ \cup {Wanted(d)}]
  /\ verified' = [verified EXCEPT ![d] = @ \cup {Wanted(d)}]
  /\ partial' = [partial EXCEPT ![d] = IF Wanted(d) = N - 1 THEN "sized" ELSE @]
  /\ fetch' = [fetch EXCEPT ![d] = NoFetch(d)]
  /\ Goto(d, "Announce")
  /\ UNCHANGED <<listed, limits, scoped, faults>>

\* A timeout, "busy", damaged bytes here or there: the attempt throws.
FetchFails(d) ==
  /\ pc[d] \in {"Asked", "Checked", "Answered"}
  /\ Fault
  /\ fetch' = [fetch EXCEPT ![d].sources = Remaining(@), ![d].sound = @ \ {fetch[d].target}]
  /\ Goto(d, "Next")
  /\ UNCHANGED <<have, partial, listed, limits, scoped, verified>>

OneRoundMore(round) == round < MaxRetries
AnotherRound(round) == round + 1 < MaxRetries

\* Another round, or the exception that ends run().
EndRound(d) ==
  /\ pc[d] = "Next" /\ fetch[d].sources = {}
  /\ IF AnotherRound(fetch[d].round)
     THEN /\ fetch' = [fetch EXCEPT ![d].round = @ + 1]
          /\ Goto(d, "Ask")
     ELSE Goto(d, "Leaving") /\ Withdraw(d)
  /\ UNCHANGED <<have, partial, listed, limits, scoped, verified, faults>>

\* The worker's announce, which may throw and is then left to the heartbeat.
AnnounceChunk(d) ==
  /\ pc[d] = "Announce"
  /\ \/ Accepted(d) /\ listed' = [listed EXCEPT ![d] = Record(d)] /\ UNCHANGED faults
     \/ Accepted(d) /\ Fault /\ UNCHANGED listed
     \/ ~Accepted(d) /\ UNCHANGED <<listed, faults>>
  /\ IF have[d] = Chunks THEN Goto(d, "Finishing") /\ Withdraw(d)
                         ELSE Goto(d, "Ask") /\ UNCHANGED fetch
  /\ UNCHANGED <<have, partial, limits, scoped, verified>>

-----------------------------------------------------------------------------
(* What goes wrong around them.                                            *)

\* A peer dies.  A power loss may take what a downloader recorded last: marks or,
\* before the first chunk is synced, the size or the name of its partial file.
Crash(p) ==
  /\ pc[p] \notin {"Down", "Done"}
  /\ Fault
  /\ Disconnect(p, {"Asked", "Checked"}, "Down")
  /\ \E S \in SUBSET have[p] :
       (p \in Seeders => S = have[p]) /\ have' = [have EXCEPT ![p] = S]
  /\ \/ UNCHANGED partial
     \/ /\ p \in Downloaders /\ verified[p] = {}
        /\ \E size \in {"absent", "short"} : partial' = [partial EXCEPT ![p] = size]
  /\ Withdraw(p)
  /\ UNCHANGED <<listed, limits, scoped, verified>>

\* The record of a peer that has gone expires.
Expire(p) ==
  /\ pc[p] \in {"Down", "Done"} /\ listed[p] # NoRecord
  /\ listed' = [listed EXCEPT ![p] = NoRecord]
  /\ UNCHANGED <<pc, have, partial, fetch, limits, scoped, verified, faults>>

\* The tracker restarts with no records.
TrackerRestarts ==
  /\ Fault
  /\ listed' = [p \in Peers |-> NoRecord]
  /\ UNCHANGED <<pc, have, partial, fetch, limits, scoped, verified>>

-----------------------------------------------------------------------------
Fetch(d) == Ask(d) \/ Connect(d) \/ Store(d) \/ EndRound(d) \/ AnnounceChunk(d)

Serve(d) == Check(d) \/ Read(d)

Prepare(d) == PreparePartial(d) \/ SizePartial(d)

Next ==
  \/ \E p \in Peers : \/ Start(p) \/ FirstAnnounce(p) \/ FirstAnnounceRefused(p)
                      \/ FirstAnnounceFails(p) \/ Heartbeat(p) \/ Stop(p) \/ Crash(p) \/ Expire(p)
  \/ \E s \in Seeders : StopSeeder(s)
  \/ \E d \in Downloaders : \/ Prepare(d) \/ SizePartialFails(d) \/ Fetch(d) \/ Serve(d)
                           \/ AskFails(d) \/ FetchFails(d)
  \/ TrackerRestarts

Spec == Init /\ [][Next]_vars

\* Programs and their servers run, heartbeats go on, and whoever runs a seeder or
\* a download that has ended without its file starts it again.
FairSpec ==
  /\ Spec
  /\ \A p \in Peers : /\ WF_vars(Start(p)) /\ WF_vars(FirstAnnounce(p) \/ FirstAnnounceRefused(p))
                      /\ WF_vars(Heartbeat(p)) /\ WF_vars(Stop(p))
  /\ \A d \in Downloaders : WF_vars(Prepare(d)) /\ WF_vars(Fetch(d)) /\ WF_vars(Serve(d))

-----------------------------------------------------------------------------
(* Properties.                                                             *)

\* A peer asks others only, and only for chunks that they have verified at some
\* time, through two encodings of the list, stale records and restarts from the
\* resume file (announce, handle_connection, peers, peer_has_chunk).
AskedForVerified ==
  /\ \A p \in Peers : have[p] \subseteq verified[p]
  /\ \A d \in Downloaders : pc[d] \in {"Asked", "Checked", "Answered"} =>
       fetch[d].target # d /\ Wanted(d) \in verified[fetch[d].target]

\* One sound source is enough, and every retry is used: no round ends without the
\* chunk if a peer of the answer has it, says so and goes on serving, whatever the
\* other peers do, and run() gives a chunk up only after max_retries such rounds
\* (fetch_with_retry catches the error of each peer by itself).  The exception is an
\* answer with an address that parse_peer_response rejects.
OneSourceIsEnough ==
  [][\A d \in Downloaders : pc[d] = "Next" /\ pc'[d] \in {"Ask", "Leaving"} =>
       /\ fetch[d].sound = {}
       /\ pc'[d] = "Leaving" => fetch[d].round = MaxRetries - 1]_vars

\* No server reads a partial file that run() has renamed: peer_server.stop()
\* joins its workers first, so a chunk that has_chunk promised can be read.
NoReadAfterRename ==
  \A d \in Downloaders : pc[d] = "Checked" => pc[fetch[d].target] # "Done"

\* What no later run gets past: prepare_partial_file refuses a short file, and the
\* first announce a list that does not fit in its header.
Refused(d) ==
  /\ pc[d] \in {"Down", "Starting", "Leaving"}
  /\ partial[d] = "short" \/ ~HeaderFits(d)

\* However peers crash, stop and fail, every download that is run again completes in
\* the end, if the seeders are run again too, or it is refused in one of these two
\* ways.  That supposes that the tracker has room for all peers and names all of
\* them in an answer, and that no peer has a scoped address.
EveryDownloadCompletes ==
  scoped = {} /\ Cardinality(Peers) <= limits.response
    => \A d \in Downloaders : <>[](pc[d] = "Done" \/ Refused(d))
=============================================================================
