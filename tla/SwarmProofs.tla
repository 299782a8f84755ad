------------------------------ MODULE SwarmProofs ------------------------------
(***************************************************************************)
(* For any number of peers and chunks and any failures: a peer is asked    *)
(* only for chunks it has verified, one sound source is enough for a       *)
(* round, and no server reads a partial file after its rename.             *)
(***************************************************************************)
EXTENDS Swarm, FiniteSetTheorems, WellFoundedInduction, TLAPS

-----------------------------------------------------------------------------
(* The lists of chunks.  What completed_chunks gives is shown by induction *)
(* on a bound of the indices, as the absence of a least counterexample.    *)

\* A nonempty set of natural numbers has a least element.
LEMMA Least ==
  ASSUME NEW T \in SUBSET Nat, T # {}
  PROVE  \E n \in T : \A m \in T : n <= m
<1> DEFINE R == OpToRel(<, Nat)
<1>1. IsWellFoundedOn(R, Nat)
  BY NatLessThanWellFounded
<1>2. \A x, y \in Nat : x < y => <<x, y>> \in R
  BY DEF OpToRel
<1> HIDE DEF R
<1>3. PICK x \in T : \A y \in T : ~ (<<y, x>> \in R)
  BY <1>1, WFMin
<1>4. \A y \in T : ~(y < x)
  BY <1>2, <1>3
<1> QED BY <1>3, <1>4

\* s lists the k elements of S in ascending order.
Listing(s, k, S) ==
  /\ s \in [1 .. k -> S]
  /\ \A i, j \in 1 .. k : i < j => s[i] < s[j]
  /\ \A x \in S : \E i \in 1 .. k : s[i] = x

\* A listing goes on with an index above the others.
LEMMA OneMore ==
  ASSUME NEW n \in Nat, NEW S \in SUBSET (0 .. n - 1), NEW k \in Nat, NEW s, Listing(s, k, S)
  PROVE  \E t : Listing(t, k + 1, S \cup {n})
<1> DEFINE t == [i \in 1 .. k + 1 |-> IF i = k + 1 THEN n ELSE s[i]]
<1>1. t \in [1 .. k + 1 -> S \cup {n}]
  BY DEF Listing
<1>2. ASSUME NEW i \in 1 .. k + 1, NEW j \in 1 .. k + 1, i < j PROVE t[i] < t[j]
  <2>1. \A l \in 1 .. k : s[l] \in 0 .. n - 1
    BY DEF Listing
  <2>2. CASE j = k + 1
    BY <1>2, <2>1, <2>2
  <2>3. CASE j # k + 1
    BY <1>2, <2>3 DEF Listing
  <2> QED  BY <2>2, <2>3
<1>3. ASSUME NEW x \in S \cup {n} PROVE \E i \in 1 .. k + 1 : t[i] = x
  <2>1. CASE x = n
    BY <2>1
  <2>2. CASE x \in S /\ x # n
    <3>1. PICK i \in 1 .. k : s[i] = x
      BY <2>2 DEF Listing
    <3> QED  BY <3>1
  <2> QED  BY <2>1, <2>2
<1> HIDE DEF t
<1> QED  BY <1>1, <1>2, <1>3 DEF Listing

\* Every set of chunk indices has a listing.
LEMMA ListingExists ==
  ASSUME NEW n \in Nat
  PROVE  \A S \in SUBSET (0 .. n - 1) : \E k \in Nat : \E s : Listing(s, k, S)
<1> DEFINE P(m) == \A S \in SUBSET (0 .. m - 1) : \E k \in Nat : \E s : Listing(s, k, S)
           T == {m \in Nat : ~P(m)}
<1>1. SUFFICES ASSUME T # {} PROVE FALSE
  OBVIOUS
<1>2. PICK m \in T : \A l \in T : m <= l
  BY <1>1, Least
<1>3. PICK S \in SUBSET (0 .. m - 1) : ~\E k \in Nat : \E s : Listing(s, k, S)
  BY <1>2
<1>4. CASE m = 0
  <2>1. S = {}
    BY <1>4
  <2>2. Listing(<<>>, 0, S)
    BY <2>1 DEF Listing
  <2> QED  BY <1>3, <2>2
<1>5. CASE m # 0
  <2>1. m - 1 \in Nat /\ m - 1 \notin T
    BY <1>2, <1>5
  <2>2. P(m - 1)
    BY <2>1
  <2>3. S \ {m - 1} \in SUBSET (0 .. (m - 1) - 1)
    BY <2>1
  <2>4. PICK k \in Nat : \E s : Listing(s, k, S \ {m - 1})
    BY <2>2, <2>3
  <2>5. PICK s : Listing(s, k, S \ {m - 1})
    BY <2>4
  <2>6. CASE m - 1 \notin S
    BY <1>3, <2>5, <2>6
  <2>7. CASE m - 1 \in S
    <3>1. PICK t : Listing(t, k + 1, (S \ {m - 1}) \cup {m - 1})
      BY <2>1, <2>3, <2>5, OneMore
    <3>2. (S \ {m - 1}) \cup {m - 1} = S
      BY <2>7
    <3> QED  BY <1>3, <3>1, <3>2, k + 1 \in Nat
  <2> QED  BY <2>6, <2>7
<1> QED  BY <1>4, <1>5

\* completed_chunks lists the chunks of the set, all of them and in ascending order.
LEMMA CompletedChunks ==
  ASSUME NEW n \in Nat, NEW S \in SUBSET (0 .. n - 1)
  PROVE  /\ completed_chunks(S) \in Seq(S)
         /\ Ascending(completed_chunks(S))
         /\ ToSet(completed_chunks(S)) = S
<1>1. PICK k \in Nat : \E s : Listing(s, k, S)
  BY ListingExists
<1>a. PICK s : Listing(s, k, S)
  BY <1>1
<1>b. /\ s \in [1 .. k -> S] /\ \A i \in 1 .. k : s[i] \in 0 .. n - 1
      /\ \A i, j \in 1 .. k : i < j => s[i] < s[j]
      /\ \A x \in S : \E i \in 1 .. k : s[i] = x
  BY <1>a DEF Listing
<1>2. IsFiniteSet(1 .. k) /\ Cardinality(1 .. k) = k
  BY FS_Interval
<1>3. s \in Bijection(1 .. k, S)
  <2>1. \A i, j \in 1 .. k : s[i] = s[j] => i = j
    BY <1>b
  <2> QED  BY <1>b, <2>1 DEF Bijection, Injection, Surjection, IsInjective
<1>4. ExistsBijection(1 .. k, S)
  BY <1>3 DEF ExistsBijection
<1>5. Cardinality(S) = k /\ IsFiniteSet(S)
  BY <1>2, <1>4, FS_Bijection
<1>6. \A f \in [1 .. k -> S] : f \in Seq(S) /\ Len(f) = k
  OBVIOUS
<1>7. s \in SetToSeqs(S)
  <2>1. \A i, j \in 1 .. k : i # j => s[i] # s[j]
    BY <1>b
  <2> QED  BY <1>b, <1>5, <2>1 DEF SetToSeqs
<1>8. Ascending(s)
  BY <1>b, <1>6 DEF Ascending
<1>9. completed_chunks(S) \in SetToSeqs(S) /\ Ascending(completed_chunks(S))
  BY <1>7, <1>8 DEF completed_chunks
<1> DEFINE c == completed_chunks(S)
<1> HIDE DEF c
<1>10. c \in [1 .. k -> S] /\ \A i, j \in 1 .. k : i # j => c[i] # c[j]
  BY <1>9, <1>5 DEF c, SetToSeqs
<1>11. c \in Injection(1 .. k, S)
  BY <1>10 DEF Injection, IsInjective
<1>12. c \in Surjection(1 .. k, S)
  BY <1>2, <1>5, <1>11, FS_Injection
<1>13. \A x \in S : \E i \in 1 .. k : c[i] = x
  BY <1>12 DEF Surjection
<1>14. ToSet(c) = S
  <2>1. DOMAIN c = 1 .. k /\ \A i \in 1 .. k : c[i] \in S
    BY <1>10
  <2> QED  BY <1>13, <2>1 DEF ToSet
<1> QED  BY <1>6, <1>9, <1>10, <1>14 DEF c

\* What a record says, of a peer that has verified the chunks S.
Backed(record, S) ==
  /\ record.chunks \in Seq(Chunks) /\ Ascending(record.chunks)
  /\ ToSet(record.chunks) \subseteq S
  /\ record.has_all_chunks => S = Chunks

\* The stores: nothing is recorded that was not verified, and a seeder has all.
StoreInv ==
  /\ have \in [Peers -> SUBSET Chunks] /\ verified \in [Peers -> SUBSET Chunks]
  /\ \A p \in Peers : have[p] \subseteq verified[p]
  /\ \A s \in Seeders : have[s] = Chunks

LEMMA EmptyList == <<>> \in Seq(Chunks) /\ Ascending(<<>>) /\ ToSet(<<>>) = {}
<1>1. <<>> \in Seq(Chunks) /\ Len(<<>>) = 0
  OBVIOUS
<1>2. \A i \in 2 .. Len(<<>>) : FALSE
  BY <1>1
<1>3. DOMAIN <<>> = {}
  OBVIOUS
<1> QED  BY <1>1, <1>2, <1>3 DEF Ascending, ToSet

\* completed_chunks, for the chunks of this swarm.
LEMMA Completed ==
  ASSUME NEW S \in SUBSET Chunks
  PROVE  /\ completed_chunks(S) \in Seq(Chunks)
         /\ Ascending(completed_chunks(S))
         /\ ToSet(completed_chunks(S)) = S
<1>1. N \in Nat /\ S \in SUBSET (0 .. N - 1)
  BY SwarmAssumption DEF Chunks
<1>2. completed_chunks(S) \in Seq(S) /\ Ascending(completed_chunks(S)) /\ ToSet(completed_chunks(S)) = S
  BY <1>1, CompletedChunks
<1>3. Seq(S) \subseteq Seq(Chunks)
  OBVIOUS
<1> QED  BY <1>2, <1>3

\* The resume file gives back the chunks that were written to it.
LEMMA ResumeFile ==
  ASSUME NEW S \in SUBSET Chunks
  PROVE  Loadable(serialize(S), N) /\ load_existing(serialize(S)) = S
<1>1. \A i \in S : i < N
  BY SwarmAssumption DEF Chunks
<1>2. CASE S = {}
  BY <1>2, EmptyList DEF serialize, Text, Loadable, load_existing
<1>3. CASE S # {}
  BY <1>1, <1>3, Completed DEF serialize, Text, Loadable, load_existing
<1> QED  BY <1>2, <1>3

\* A list that is encoded and parsed names chunks of S only, and every chunk that it
\* named before.
LEMMA EncodeBacked ==
  ASSUME NEW indices \in Seq(Chunks), Ascending(indices), NEW has_all, NEW S, ToSet(indices) \subseteq S,
         has_all => S = Chunks
  PROVE  /\ Backed(parse_chunk_field(encode_chunk_list(indices, has_all)), S)
         /\ \A w : has_all \/ w \in ToSet(indices)
                     => peer_has_chunk(parse_chunk_field(encode_chunk_list(indices, has_all)), w)
<1> DEFINE r == parse_chunk_field(encode_chunk_list(indices, has_all))
<1>1. CASE has_all
  <2>1. r = [has_all_chunks |-> TRUE, chunks |-> <<>>]
    <3>1. r = [has_all_chunks |-> "all" = "all", chunks |-> <<>>]
      BY <1>1 DEF parse_chunk_field, encode_chunk_list, Text
    <3> QED  BY <3>1, ("all" = "all") = TRUE
  <2>2. r.has_all_chunks /\ r.chunks = <<>>
    BY <2>1
  <2> HIDE DEF r
  <2>3. Backed(r, S) /\ \A w : peer_has_chunk(r, w)
    BY <1>1, <2>2, EmptyList DEF Backed, peer_has_chunk
  <2> QED  BY <2>3 DEF r
<1>2. CASE ~has_all
  <2>1. r = [has_all_chunks |-> FALSE, chunks |-> indices]
    <3>1. CASE indices = <<>>
      <4>1. r = [has_all_chunks |-> "none" = "all", chunks |-> <<>>]
        BY <1>2, <3>1 DEF parse_chunk_field, encode_chunk_list, Text
      <4> QED  BY <4>1, <3>1
    <3>2. CASE indices # <<>>
      <4>1. r = [has_all_chunks |-> "list" = "all", chunks |-> indices]
        BY <1>2, <3>2 DEF parse_chunk_field, encode_chunk_list, Text
      <4> QED  BY <4>1
    <3> QED  BY <3>1, <3>2
  <2>2. ~r.has_all_chunks /\ r.chunks = indices
    BY <2>1
  <2> HIDE DEF r
  <2>3. Backed(r, S) /\ \A w \in ToSet(indices) : peer_has_chunk(r, w)
    BY <2>2 DEF Backed, peer_has_chunk
  <2> QED  BY <1>2, <2>3 DEF r
<1> QED  BY <1>1, <1>2

\* A peer announces what it has.
LEMMA RecordBacked ==
  ASSUME StoreInv, NEW p \in Peers
  PROVE  Backed(Record(p), verified[p]) /\ \A w \in have[p] : peer_has_chunk(Record(p), w)
<1> DEFINE indices == IF p \in Seeders THEN <<>> ELSE completed_chunks(have[p])
<1>1. have[p] \in SUBSET Chunks /\ have[p] \subseteq verified[p] /\ verified[p] \subseteq Chunks
  BY DEF StoreInv
<1>2. indices \in Seq(Chunks) /\ Ascending(indices) /\ ToSet(indices) \subseteq verified[p]
  BY <1>1, EmptyList, Completed
<1>3. have[p] = Chunks => verified[p] = Chunks
  BY <1>1
<1>4. \A w \in have[p] : have[p] = Chunks \/ w \in ToSet(indices)
  BY <1>1, Completed DEF StoreInv
<1>5. Record(p) = parse_chunk_field(encode_chunk_list(indices, have[p] = Chunks))
  BY DEF Record
<1> HIDE DEF indices
<1> QED  BY <1>2, <1>3, <1>4, <1>5, EncodeBacked

\* The worker of an incomplete download claims a chunk of the file.
LEMMA WantedIsMissing ==
  ASSUME StoreInv, NEW d \in Downloaders, have[d] # Chunks
  PROVE  Wanted(d) \in Chunks
<1>1. have[d] \in SUBSET Chunks
  BY DEF StoreInv, Peers
<1>2. Chunks \subseteq Nat
  BY SwarmAssumption DEF Chunks
<1>3. (Chunks \ have[d]) \in SUBSET Nat /\ Chunks \ have[d] # {}
  BY <1>1, <1>2
<1>4. \E n \in Chunks \ have[d] : \A m \in Chunks \ have[d] : n <= m
  BY <1>3, Least
<1> QED  BY <1>4 DEF Wanted, Min

-----------------------------------------------------------------------------
(* The servers and their connections.                                      *)

\* A connection waits for has_chunk, or is served, only while the server of the
\* peer runs: the property alone says nothing of one that waits.
Connected == {"Asked", "Checked"}
Gone == {"Down", "Done"}
ServedInv ==
  /\ pc \in [Peers -> Steps] /\ fetch \in [Downloaders -> Frame]
  /\ \A d \in Downloaders : pc[d] \in Connected => pc[fetch[d].target] \notin Gone

LEMMA NoFetchType == \A d \in Downloaders : NoFetch(d) \in Frame
BY SwarmAssumption DEF NoFetch, Frame, Peers

LEMMA InitServed == Init => ServedInv
<1> SUFFICES ASSUME Init PROVE ServedInv
  OBVIOUS
<1>1. pc \in [Peers -> Steps]
  BY DEF Init, Steps
<1>2. fetch \in [Downloaders -> Frame]
  BY NoFetchType DEF Init
<1>3. \A d \in Downloaders : pc[d] \notin Connected
  BY DEF Init, Peers, Connected
<1> QED  BY <1>1, <1>2, <1>3 DEF ServedInv

\* Withdraw(p) keeps the frames, and of those of the others it changes `sound' only.
LEMMA WithdrawFrames ==
  ASSUME ServedInv, NEW p \in Peers, Withdraw(p)
  PROVE  /\ fetch' \in [Downloaders -> Frame]
         /\ \A d \in Downloaders \ {p} : /\ fetch'[d].target = fetch[d].target
                                          /\ fetch'[d].sources = fetch[d].sources
                                          /\ fetch'[d].sound = fetch[d].sound \ {p}
<1>1. \A d \in Downloaders : LET frame == [fetch[d] EXCEPT !.sound = @ \ {p}] IN
        /\ frame \in Frame
        /\ frame.target = fetch[d].target /\ frame.sources = fetch[d].sources
        /\ frame.sound = fetch[d].sound \ {p}
  BY DEF Frame, ServedInv
<1> QED  BY <1>1, NoFetchType DEF Withdraw

\* A peer whose server has ended a step, and to which nobody is connected then.
LEMMA GoneStep ==
  ASSUME ServedInv, NEW p \in Peers, NEW cut, NEW step \in Steps,
         Disconnect(p, cut, step), step \notin Connected,
         \A d \in Downloaders : pc[d] \in Connected \ cut => fetch[d].target # p,
         fetch' \in [Downloaders -> Frame],
         \A d \in Downloaders \ {p} : fetch'[d].target = fetch[d].target
  PROVE  ServedInv'
<1>1. pc' \in [Peers -> Steps]
  BY DEF Disconnect, ServedInv, Steps, Fetching
<1>2. ASSUME NEW d \in Downloaders, pc'[d] \in Connected
      PROVE  pc'[fetch'[d].target] \notin Gone
  <2>1. d # p /\ pc[d] = pc'[d] /\ ~(pc[d] \in cut /\ fetch[d].target = p)
    BY <1>2 DEF Disconnect, Connected, Peers
  <2>2. fetch[d].target # p /\ pc[fetch[d].target] \notin Gone
    BY <2>1, <1>2 DEF ServedInv
  <2>3. fetch'[d].target = fetch[d].target /\ fetch[d].target \in Peers
    BY <2>1 DEF Frame, ServedInv
  <2>4. pc'[fetch[d].target] \in {pc[fetch[d].target], "Next"}
    BY <2>2, <2>3 DEF Disconnect
  <2> QED  BY <2>2, <2>3, <2>4 DEF Gone
<1> QED  BY <1>1, <1>2 DEF ServedInv

\* A peer goes on to a step at which its server runs or is about to stop.
LEMMA GoesOnStep ==
  ASSUME ServedInv, NEW p \in Peers, NEW step \in Steps \ Gone, Goto(p, step),
         fetch' \in [Downloaders -> Frame],
         \A d \in Downloaders \ {p} : fetch'[d].target = fetch[d].target,
         step \in Connected => p \in Downloaders /\ pc[fetch'[p].target] \notin Gone
  PROVE  ServedInv'
<1>1. pc' \in [Peers -> Steps]
  BY DEF Goto, ServedInv
<1>2. ASSUME NEW d \in Downloaders, pc'[d] \in Connected
      PROVE  pc'[fetch'[d].target] \notin Gone
  <2>1. fetch'[d].target \in Peers /\ d \in Peers
    BY DEF Frame, Peers
  <2>2. pc[fetch'[d].target] \notin Gone
    <3>1. CASE d = p
      BY <1>2, <2>1, <3>1 DEF Goto, ServedInv
    <3>2. CASE d # p
      BY <1>2, <2>1, <3>2 DEF Goto, ServedInv
    <3> QED  BY <3>1, <3>2
  <2> QED  BY <2>1, <2>2 DEF Goto, ServedInv
<1> QED  BY <1>1, <1>2 DEF ServedInv

LEMMA ServedStep == ServedInv /\ [Next]_vars => ServedInv'
<1> SUFFICES ASSUME ServedInv, [Next]_vars PROVE ServedInv'
  OBVIOUS
<1>f. fetch \in [Downloaders -> Frame] /\ \A d \in Downloaders : d \in Peers
  BY DEF ServedInv, Peers
<1>u. ASSUME UNCHANGED <<pc, fetch>> PROVE ServedInv'
  BY <1>u DEF ServedInv
<1>1. ASSUME NEW p \in Peers,
             \/ Start(p) \/ FirstAnnounce(p) \/ FirstAnnounceRefused(p) \/ FirstAnnounceFails(p)
             \/ PreparePartial(p) \/ SizePartial(p) \/ SizePartialFails(p)
      PROVE  ServedInv'
  <2>1. PICK step \in {"Preparing", "Starting", "Finishing", "Serving", "Ask", "Leaving"} : Goto(p, step)
    BY <1>1 DEF Start, FirstAnnounce, FirstAnnounceRefused, FirstAnnounceFails,
                PreparePartial, SizePartial, SizePartialFails
  <2>2. fetch' = fetch \/ Withdraw(p)
    BY <1>1 DEF Start, FirstAnnounce, FirstAnnounceRefused, FirstAnnounceFails,
                PreparePartial, SizePartial, SizePartialFails
  <2>3. step \in Steps \ Gone /\ step \notin Connected
    BY DEF Steps, Fetching, Gone, Connected
  <2> QED  BY <1>f, <2>1, <2>2, <2>3, WithdrawFrames, GoesOnStep
<1>2. ASSUME NEW p \in Peers, Heartbeat(p) \/ Expire(p) PROVE ServedInv'
  BY <1>2, <1>u DEF Heartbeat, Expire
<1>3. ASSUME NEW p \in Peers, Stop(p) PROVE ServedInv'
  <2>1. PICK step \in Gone : Disconnect(p, {"Asked"}, step)
    BY <1>3 DEF Stop, Gone
  <2>2. step \in Steps /\ step \notin Connected
    BY DEF Steps, Gone, Connected
  <2>3. \A d \in Downloaders : pc[d] \in Connected \ {"Asked"} => fetch[d].target # p
    BY <1>3 DEF Stop, ServerJoined, Connected
  <2>4. fetch' = fetch
    BY <1>3 DEF Stop
  <2> QED  BY <1>f, <2>1, <2>2, <2>3, <2>4, GoneStep
<1>4. ASSUME NEW p \in Peers, Crash(p) PROVE ServedInv'
  <2>1. Disconnect(p, Connected, "Down") /\ Withdraw(p)
    BY <1>4 DEF Crash, Connected
  <2>2. "Down" \in Steps /\ "Down" \notin Connected
    BY DEF Steps, Connected
  <2>3. \A d \in Downloaders : pc[d] \in Connected \ Connected => fetch[d].target # p
    OBVIOUS
  <2> QED  BY <2>1, <2>2, <2>3, WithdrawFrames, GoneStep
<1>5. ASSUME NEW s \in Seeders, StopSeeder(s) PROVE ServedInv'
  <2>1. Goto(s, "Leaving") /\ Withdraw(s) /\ s \in Peers
    BY <1>5 DEF StopSeeder, Peers
  <2>2. "Leaving" \in Steps \ Gone /\ "Leaving" \notin Connected
    BY DEF Steps, Gone, Connected
  <2> QED  BY <2>1, <2>2, WithdrawFrames, GoesOnStep
<1>6. ASSUME NEW d \in Downloaders, Connect(d) PROVE ServedInv'
  <2>1. PICK p \in fetch[d].sources :
               /\ fetch' = [fetch EXCEPT ![d].sources = @ \ {p}, ![d].target = p]
               /\ Goto(d, IF Serves(p) THEN "Asked" ELSE "Next")
    BY <1>6 DEF Connect
  <2>2. p \in Peers
    BY <1>f DEF Frame
  <2>3. /\ fetch' \in [Downloaders -> Frame] /\ fetch'[d].target = p
        /\ \A e \in Downloaders \ {d} : fetch'[e].target = fetch[e].target
    BY <1>f, <2>1, <2>2 DEF Frame
  <2>4. CASE Serves(p)
    <3>1. "Asked" \in Steps \ Gone /\ pc[fetch'[d].target] \notin Gone
      BY <2>3, <2>4 DEF Serves, Gone, Steps, Fetching
    <3> QED  BY <1>f, <2>1, <2>3, <2>4, <3>1, GoesOnStep
  <2>5. CASE ~Serves(p)
    <3>1. "Next" \in Steps \ Gone /\ "Next" \notin Connected
      BY DEF Gone, Steps, Fetching, Connected
    <3> QED  BY <1>f, <2>1, <2>3, <2>5, <3>1, GoesOnStep
  <2> QED  BY <2>4, <2>5
<1>7. ASSUME NEW d \in Downloaders, Check(d) PROVE ServedInv'
  <2>1. PICK step \in {"Checked", "Next"} : Goto(d, step)
    BY <1>7 DEF Check
  <2>2. /\ fetch' \in [Downloaders -> Frame]
        /\ \A e \in Downloaders : fetch'[e].target = fetch[e].target
    BY <1>7, <1>f DEF Check, Remaining, Frame
  <2>3. pc[fetch'[d].target] \notin Gone /\ step \in Steps \ Gone
    BY <1>7, <2>2 DEF Check, ServedInv, Connected, Steps, Fetching, Gone
  <2> QED  BY <1>f, <2>1, <2>2, <2>3, GoesOnStep
<1>8. ASSUME NEW d \in Downloaders,
             Ask(d) \/ AskFails(d) \/ Read(d) \/ Store(d) \/ FetchFails(d) \/ EndRound(d) \/ AnnounceChunk(d)
      PROVE  ServedInv'
  <2>1. PICK step \in {"Next", "Answered", "Announce", "Ask", "Leaving", "Finishing"} : Goto(d, step)
    BY <1>8 DEF Ask, AskFails, Read, Store, FetchFails, EndRound, AnnounceChunk
  <2>2. step \in Steps \ Gone /\ step \notin Connected
    BY DEF Steps, Fetching, Gone, Connected
  <2>3. /\ fetch' \in [Downloaders -> Frame]
        /\ \A e \in Downloaders \ {d} : fetch'[e].target = fetch[e].target
    <3>1. CASE Withdraw(d) \/ fetch' = fetch
      BY <1>f, <3>1, WithdrawFrames
    <3>2. CASE \E v \in Frame : fetch' = [fetch EXCEPT ![d] = v]
      BY <1>f, <3>2
    <3>3. CASE Ask(d)
      <4>1. PICK A \in SUBSET Peers, B \in SUBSET Peers :
                   fetch' = [fetch EXCEPT ![d].sources = A, ![d].sound = B]
        BY <3>3 DEF Ask, Answers, Listed
      <4> QED  BY <4>1, <1>f DEF Frame
    <3>4. CASE AskFails(d) \/ FetchFails(d)
      BY <3>4, <1>f DEF AskFails, FetchFails, Remaining, Frame
    <3>5. CASE EndRound(d)
      <4>1. CASE Withdraw(d)
        BY <4>1, <3>1
      <4>2. CASE AnotherRound(fetch[d].round) /\ fetch' = [fetch EXCEPT ![d].round = @ + 1]
        BY <4>2, <1>f, SwarmAssumption DEF AnotherRound, Frame
      <4> QED  BY <3>5, <4>1, <4>2 DEF EndRound
    <3> QED  BY <1>8, <3>1, <3>2, <3>3, <3>4, <3>5, NoFetchType DEF Read, Store, AnnounceChunk
  <2> QED  BY <1>f, <2>1, <2>2, <2>3, GoesOnStep
<1>9. CASE TrackerRestarts \/ UNCHANGED vars
  BY <1>9, <1>u DEF TrackerRestarts, vars
<1> QED  BY <1>f, <1>1, <1>2, <1>3, <1>4, <1>5, <1>6, <1>7, <1>8, <1>9 DEF Next, Prepare, Fetch, Serve

\* No server reads a partial file that run() has renamed, in a swarm of any size:
\* stop() has joined the workers of the peer server before the rename.
THEOREM RenameSafety == Spec => []NoReadAfterRename
<1>1. ServedInv => NoReadAfterRename
  BY DEF ServedInv, NoReadAfterRename, Connected, Gone
<1> QED  BY <1>1, InitServed, ServedStep, PTL DEF Spec

-----------------------------------------------------------------------------
(* The fetches.                                                            *)

Attempt == {"Asked", "Checked", "Answered"}
Round == Attempt \cup {"Next"}

\* d fetches a chunk that it misses, from others that have verified it: the peer it
\* asks, and those it may ask next.
Targets(d) ==
  /\ pc[d] \in Fetching => have[d] # Chunks
  /\ pc[d] \in Round => \A p \in fetch[d].sources : p # d /\ Wanted(d) \in verified[p]
  /\ pc[d] \in Attempt => fetch[d].target # d /\ Wanted(d) \in verified[fetch[d].target]

\* A sound source is still to be tried or is being tried.
Sound(d) ==
  pc[d] \in Round => \A p \in fetch[d].sound :
    /\ Serves(p) /\ Wanted(d) \in have[p]
    /\ p \in fetch[d].sources \/ (pc[d] \in Attempt /\ p = fetch[d].target)

\* The tracker's records are of chunks that were verified.
ListedInv ==
  /\ DOMAIN listed = Peers
  /\ \A p \in Peers : listed[p] # NoRecord => Backed(listed[p], verified[p])

\* The inductive invariant.
SwarmInv ==
  /\ ServedInv /\ StoreInv /\ ListedInv
  /\ \A d \in Downloaders : Targets(d) /\ Sound(d)

\* The step of p leaves the fetches of the others as they should be.
LEMMA OthersStep ==
  ASSUME SwarmInv, NEW p \in Peers,
         \A q \in Peers : verified[q] \subseteq verified'[q],
         \A q \in Peers \ {p} : have'[q] = have[q],
         \A q \in Peers \ {p} :
           \/ pc'[q] = pc[q]
           \/ pc[q] \in Connected /\ pc'[q] = "Next" /\ fetch[q].target = p
              /\ (q \in Downloaders => p \notin fetch'[q].sound),
         \A d \in Downloaders \ {p} :
           /\ fetch'[d].sources = fetch[d].sources /\ fetch'[d].target = fetch[d].target
           /\ fetch'[d].sound \subseteq fetch[d].sound
           /\ pc[d] \in Round /\ p \in fetch'[d].sound => Serves(p)' /\ have[p] \subseteq have'[p]
  PROVE  \A d \in Downloaders \ {p} : Targets(d)' /\ Sound(d)'
<1> SUFFICES ASSUME NEW d \in Downloaders \ {p} PROVE Targets(d)' /\ Sound(d)'
  OBVIOUS
<1>1. d \in Peers /\ d # p /\ have'[d] = have[d] /\ Wanted(d)' = Wanted(d)
  BY DEF Peers, Wanted
<1>2. /\ pc'[d] \in Fetching => pc[d] \in Fetching
      /\ pc'[d] \in Round => pc[d] \in Round
      /\ pc'[d] \in Attempt => pc[d] \in Attempt
  BY <1>1 DEF Fetching, Round, Attempt, Connected
<1>3. fetch[d].sources \subseteq Peers /\ fetch[d].target \in Peers /\ fetch[d].sound \subseteq Peers
  BY DEF SwarmInv, ServedInv, Frame
<1>4. Targets(d) /\ Sound(d)
  BY DEF SwarmInv
<1>5. Targets(d)'
  <2>1. pc'[d] \in Fetching => have'[d] # Chunks
    BY <1>1, <1>2, <1>4 DEF Targets
  <2>2. ASSUME pc'[d] \in Round, NEW q \in fetch'[d].sources PROVE q # d /\ Wanted(d)' \in verified'[q]
    BY <1>1, <1>2, <1>3, <1>4, <2>2 DEF Targets
  <2>3. ASSUME pc'[d] \in Attempt PROVE fetch'[d].target # d /\ Wanted(d)' \in verified'[fetch'[d].target]
    BY <1>1, <1>2, <1>3, <1>4, <2>3 DEF Targets
  <2> QED  BY <2>1, <2>2, <2>3 DEF Targets
<1>6. Sound(d)'
  <2> SUFFICES ASSUME pc'[d] \in Round, NEW q \in fetch'[d].sound
               PROVE  /\ Serves(q)' /\ Wanted(d)' \in have'[q]
                      /\ q \in fetch'[d].sources \/ (pc'[d] \in Attempt /\ q = fetch'[d].target)
    BY DEF Sound
  <2>1. /\ q \in fetch[d].sound /\ q \in Peers /\ pc[d] \in Round
        /\ Serves(q) /\ Wanted(d) \in have[q]
        /\ q \in fetch[d].sources \/ (pc[d] \in Attempt /\ q = fetch[d].target)
    BY <1>2, <1>3, <1>4 DEF Sound
  <2>2. Serves(q)' /\ Wanted(d)' \in have'[q]
    <3>1. CASE q = p
      BY <1>1, <2>1, <3>1
    <3>2. CASE q # p
      BY <1>1, <2>1, <3>2 DEF Serves, Connected
    <3> QED  BY <3>1, <3>2
  <2>3. q \in fetch'[d].sources \/ (pc'[d] \in Attempt /\ q = fetch'[d].target)
    BY <1>1, <2>1 DEF Attempt
  <2> QED  BY <2>2, <2>3
<1> QED  BY <1>5, <1>6

\* The step of a downloader that is not in a round afterwards.
LEMMA OutOfRound ==
  ASSUME NEW d, pc'[d] \notin Round, pc'[d] \in Fetching => have'[d] # Chunks
  PROVE  Targets(d)' /\ Sound(d)'
BY DEF Targets, Sound, Round, Attempt

\* p goes to a step at which it serves, or withdraws from the rounds of the others.
LEMMA GoesOnOthers ==
  ASSUME SwarmInv, NEW p \in Peers, NEW step, Goto(p, step),
         \A q \in Peers : verified[q] \subseteq verified'[q] /\ have[q] \subseteq have'[q],
         \A q \in Peers \ {p} : have'[q] = have[q],
         \/ Withdraw(p)
         \/ /\ \A d \in Downloaders \ {p} : fetch'[d] = fetch[d]
            /\ Serves(p) => step \notin {"Down", "Preparing", "Finishing", "Leaving", "Done"}
  PROVE  \A d \in Downloaders \ {p} : Targets(d)' /\ Sound(d)'
<1>1. pc'[p] = step /\ \A q \in Peers \ {p} : pc'[q] = pc[q]
  BY DEF Goto, SwarmInv, ServedInv
<1>2. ASSUME NEW d \in Downloaders \ {p}
      PROVE  /\ fetch'[d].sources = fetch[d].sources /\ fetch'[d].target = fetch[d].target
             /\ fetch'[d].sound \subseteq fetch[d].sound
             /\ pc[d] \in Round /\ p \in fetch'[d].sound => Serves(p)' /\ have[p] \subseteq have'[p]
  <2>1. CASE Withdraw(p)
    BY <2>1, WithdrawFrames DEF SwarmInv
  <2>2. CASE fetch'[d] = fetch[d] /\ (Serves(p) => step \notin {"Down", "Preparing", "Finishing", "Leaving", "Done"})
    <3>1. pc[d] \in Round /\ p \in fetch[d].sound => Serves(p)
      BY DEF SwarmInv, Sound
    <3> QED  BY <1>1, <2>2, <3>1 DEF Serves
  <2> QED  BY <2>1, <2>2
<1> QED  BY <1>1, <1>2, OthersStep

\* p is gone, and the connections to it break.
LEMMA GoneOthers ==
  ASSUME SwarmInv, NEW p \in Peers, NEW cut \in SUBSET Connected, NEW step, Disconnect(p, cut, step),
         \A q \in Peers : verified[q] \subseteq verified'[q],
         \A q \in Peers \ {p} : have'[q] = have[q],
         \/ Withdraw(p)
         \/ fetch' = fetch /\ ~Serves(p)
  PROVE  \A d \in Downloaders \ {p} : Targets(d)' /\ Sound(d)'
<1>1. ASSUME NEW d \in Downloaders \ {p}
      PROVE  /\ fetch'[d].sources = fetch[d].sources /\ fetch'[d].target = fetch[d].target
             /\ fetch'[d].sound \subseteq fetch[d].sound
             /\ pc[d] \in Round => p \notin fetch'[d].sound
  <2>1. CASE Withdraw(p)
    BY <2>1, WithdrawFrames DEF SwarmInv
  <2>2. CASE fetch'[d] = fetch[d] /\ ~Serves(p)
    BY <2>2 DEF SwarmInv, Sound
  <2> QED  BY <2>1, <2>2
<1>2. ASSUME NEW q \in Peers \ {p}
      PROVE  \/ pc'[q] = pc[q]
             \/ pc[q] \in Connected /\ pc'[q] = "Next" /\ fetch[q].target = p
              /\ (q \in Downloaders => p \notin fetch'[q].sound)
  <2>1. \/ pc'[q] = pc[q]
        \/ pc[q] \in Connected /\ pc'[q] = "Next" /\ fetch[q].target = p
    BY DEF Disconnect
  <2>2. pc[q] \in Connected => pc[q] \in Round
    BY DEF Connected, Round, Attempt
  <2> QED  BY <1>1, <2>1, <2>2
<1> QED  BY <1>1, <1>2, OthersStep

\* Resume files lose nothing, what is stored was verified by another peer, and
\* `verified' only grows.
LEMMA StoreStep == SwarmInv /\ [Next]_vars => StoreInv' /\ \A p \in Peers : verified[p] \subseteq verified'[p]
<1> SUFFICES ASSUME SwarmInv, [Next]_vars
             PROVE  StoreInv' /\ \A p \in Peers : verified[p] \subseteq verified'[p]
  OBVIOUS
<1>s. StoreInv /\ Seeders \subseteq Peers /\ Downloaders \subseteq Peers
  BY DEF SwarmInv, Peers
<1>1. CASE UNCHANGED <<have, verified>>
  BY <1>1, <1>s DEF StoreInv
<1>2. ASSUME NEW p \in Peers, Start(p) PROVE UNCHANGED <<have, verified>>
  <2>1. load_existing(serialize(have[p])) = have[p]
    BY <1>s, ResumeFile DEF StoreInv
  <2> QED  BY <1>2, <1>s, <2>1 DEF Start, StoreInv
<1>3. ASSUME NEW p \in Peers, Crash(p)
      PROVE  StoreInv' /\ \A q \in Peers : verified[q] \subseteq verified'[q]
  <2>1. PICK S \in SUBSET have[p] :
               (p \in Seeders => S = have[p]) /\ have' = [have EXCEPT ![p] = S]
    BY <1>3 DEF Crash
  <2>2. verified' = verified
    BY <1>3 DEF Crash
  <2> QED  BY <1>s, <2>1, <2>2 DEF StoreInv
<1>4. ASSUME NEW d \in Downloaders, Store(d)
      PROVE  StoreInv' /\ \A q \in Peers : verified[q] \subseteq verified'[q]
  <2>1. fetch[d].target \in Peers /\ Wanted(d) \in verified[fetch[d].target]
    BY <1>4 DEF Store, SwarmInv, Targets, Attempt, ServedInv, Frame
  <2>2. Wanted(d) \in Chunks /\ d \in Peers /\ d \notin Seeders
    BY <1>s, <2>1, SwarmAssumption DEF StoreInv
  <2>3. /\ have' = [have EXCEPT ![d] = @ \cup {Wanted(d)}]
        /\ verified' = [verified EXCEPT ![d] = @ \cup {Wanted(d)}]
    BY <1>4 DEF Store
  <2> QED  BY <1>s, <2>2, <2>3 DEF StoreInv
<1> QED
  BY <1>1, <1>2, <1>3, <1>4
  DEF Next, Prepare, Fetch, Serve, PreparePartial, SizePartial, SizePartialFails, FirstAnnounce,
      FirstAnnounceRefused, FirstAnnounceFails, Heartbeat, Stop, Expire, StopSeeder,
      AskFails, FetchFails, TrackerRestarts, Ask, Connect, EndRound, AnnounceChunk, Check, Read, vars

\* A record is dropped, or replaced by what the peer has now.
LEMMA ListedStep == SwarmInv /\ [Next]_vars => ListedInv'
<1> SUFFICES ASSUME SwarmInv, [Next]_vars PROVE ListedInv'
  OBVIOUS
<1>1. DOMAIN listed = Peers
  BY DEF SwarmInv, ListedInv
<1>2. \A p \in Peers : Backed(Record(p), verified[p]) /\ (listed[p] # NoRecord => Backed(listed[p], verified[p]))
  BY RecordBacked DEF SwarmInv, ListedInv
<1>3. ASSUME NEW p \in Peers, NEW record, Backed(record, verified[p]) PROVE Backed(record, verified'[p])
  <2>1. verified[p] \subseteq verified'[p] /\ verified'[p] \subseteq Chunks
    BY StoreStep DEF StoreInv
  <2> QED  BY <1>3, <2>1 DEF Backed
<1>4. \/ listed' = listed
      \/ \E p \in Peers : listed' = [listed EXCEPT ![p] = Record(p)]
      \/ \E p \in Peers : listed' = [listed EXCEPT ![p] = NoRecord]
      \/ listed' = [p \in Peers |-> NoRecord]
  BY DEF Next, Prepare, Fetch, Serve, Start, PreparePartial, SizePartial, SizePartialFails, FirstAnnounce,
      FirstAnnounceRefused, FirstAnnounceFails, Heartbeat, Stop, Crash, Expire, StopSeeder,
      AskFails, FetchFails, TrackerRestarts, Ask, Connect, Store, EndRound, AnnounceChunk, Check, Read, vars, Peers
<1>5. DOMAIN listed' = Peers /\ \A p \in Peers : listed'[p] \in {listed[p], Record(p), NoRecord}
  BY <1>1, <1>4
<1> QED  BY <1>2, <1>3, <1>5 DEF ListedInv

\* A step of d within a round.
LEMMA InRound ==
  ASSUME SwarmInv, NEW d \in Downloaders, NEW step \in Round, Goto(d, step),
         pc[d] \in Fetching, have' = have, verified' = verified,
         \A e \in Downloaders \ {d} : fetch'[e] = fetch[e],
         \A p \in fetch'[d].sources : p \in Peers /\ p # d /\ Wanted(d) \in verified[p],
         step \in Attempt => fetch'[d].target # d /\ Wanted(d) \in verified[fetch'[d].target],
         \A p \in fetch'[d].sound :
           /\ p # d /\ p \in Peers /\ Serves(p) /\ Wanted(d) \in have[p]
           /\ p \in fetch'[d].sources \/ (step \in Attempt /\ p = fetch'[d].target)
  PROVE  \A e \in Downloaders : Targets(e)' /\ Sound(e)'
<1>1. d \in Peers /\ Wanted(d)' = Wanted(d)
  BY DEF Peers, Wanted
<1>2. pc'[d] = step /\ (\A q \in Peers \ {d} : pc'[q] = pc[q])
  BY <1>1 DEF Goto, SwarmInv, ServedInv
<1>3. Targets(d)' /\ Sound(d)'
  <2>1. Targets(d)'
    BY <1>1, <1>2 DEF Targets, SwarmInv
  <2>2. \A p \in fetch'[d].sound : Serves(p)'
    BY <1>2 DEF Serves
  <2>3. Sound(d)'
    BY <1>1, <1>2, <2>2 DEF Sound
  <2> QED  BY <2>1, <2>3
<1>4. \A e \in Downloaders \ {d} : Targets(e)' /\ Sound(e)'
  <2>1. step \notin {"Down", "Preparing", "Finishing", "Leaving", "Done"}
    BY DEF Round, Attempt
  <2> QED  BY <1>1, <2>1, GoesOnOthers
<1> QED  BY <1>3, <1>4

\* Ask: a source has verified the chunk, and a sound one is a source.
LEMMA AskRound == ASSUME SwarmInv, NEW d \in Downloaders, Ask(d)
                  PROVE  \A e \in Downloaders : Targets(e)' /\ Sound(e)'
<1>a. PICK answer \in Answers : fetch' = [fetch EXCEPT
         ![d].sources = {p \in answer \ {d} : /\ AnswerParses(answer)
                                              /\ peer_has_chunk(Relayed(p), Wanted(d))},
         ![d].sound = {p \in answer \ {d} : /\ AnswerParses(answer) /\ Serves(p)
                                            /\ Wanted(d) \in have[p] /\ listed[p] = Record(p)}]
  BY DEF Ask
<1>b. \A p \in answer : p \in Peers /\ listed[p] # NoRecord
  BY DEF Answers, Listed
<1> DEFINE A == {p \in answer \ {d} : AnswerParses(answer) /\ peer_has_chunk(Relayed(p), Wanted(d))}
           B == {p \in answer \ {d} : /\ AnswerParses(answer) /\ Serves(p)
                                      /\ Wanted(d) \in have[p] /\ listed[p] = Record(p)}
<1>1. Wanted(d) \in Chunks
  BY WantedIsMissing DEF Ask, SwarmInv, Targets, Fetching
<1>2. ASSUME NEW p \in Peers, listed[p] # NoRecord
      PROVE  /\ Backed(Relayed(p), verified[p])
             /\ \A w : peer_has_chunk(listed[p], w) => peer_has_chunk(Relayed(p), w)
  <2>1. Backed(listed[p], verified[p])
    BY <1>2 DEF SwarmInv, ListedInv
  <2>2. /\ listed[p].chunks \in Seq(Chunks) /\ Ascending(listed[p].chunks)
        /\ ToSet(listed[p].chunks) \subseteq verified[p]
        /\ listed[p].has_all_chunks => verified[p] = Chunks
    BY <2>1 DEF Backed
  <2> QED  BY <2>2, EncodeBacked DEF Relayed, peer_has_chunk
<1>3. ASSUME NEW p \in A PROVE p \in Peers /\ p # d /\ Wanted(d) \in verified[p]
  <2>1. Backed(Relayed(p), verified[p]) /\ peer_has_chunk(Relayed(p), Wanted(d))
    BY <1>b, <1>2
  <2> QED  BY <1>1, <1>b, <2>1 DEF Backed, peer_has_chunk
<1>4. ASSUME NEW p \in B PROVE p # d /\ p \in Peers /\ Serves(p) /\ Wanted(d) \in have[p] /\ p \in A
  BY <1>b, <1>2, RecordBacked DEF SwarmInv
<1>5. Goto(d, "Next") /\ "Next" \in Round /\ pc[d] \in Fetching /\ have' = have /\ verified' = verified
  BY DEF Ask, Round, Fetching
<1>6. fetch' = [fetch EXCEPT ![d].sources = A, ![d].sound = B]
  BY <1>a
<1> HIDE DEF A, B
<1>7. /\ fetch'[d].sources = A /\ fetch'[d].sound = B
      /\ \A e \in Downloaders \ {d} : fetch'[e] = fetch[e]
  BY <1>6 DEF SwarmInv, ServedInv, Frame
<1>8. "Next" \notin Attempt
  BY DEF Attempt
<1> QED  BY <1>3, <1>4, <1>5, <1>7, <1>8, InRound

\* The other steps within a round.
LEMMA RoundStep ==
  ASSUME SwarmInv, NEW d \in Downloaders,
         AskFails(d) \/ Connect(d) \/ Check(d) \/ Read(d) \/ FetchFails(d)
  PROVE  \A e \in Downloaders : Targets(e)' /\ Sound(e)'
<1>0. /\ have' = have /\ verified' = verified /\ pc[d] \in Fetching
  BY DEF AskFails, Connect, Check, Read, FetchFails, Fetching
<1>f. /\ fetch \in [Downloaders -> Frame] /\ fetch[d] \in Frame
      /\ fetch[d].sources \subseteq Peers /\ fetch[d].sound \subseteq Peers /\ fetch[d].target \in Peers
  BY DEF SwarmInv, ServedInv, Frame
<1>r. "Next" \in Round /\ "Next" \notin Attempt /\ Attempt \subseteq Round
  BY DEF Round, Attempt
<1>t. Targets(d) /\ Sound(d)
  BY DEF SwarmInv
<1>1. CASE AskFails(d)
  <2>1. /\ Goto(d, "Next") /\ fetch'[d].sources = {} /\ fetch'[d].sound = {}
        /\ \A e \in Downloaders \ {d} : fetch'[e] = fetch[e]
    BY <1>1, <1>f DEF AskFails, Frame
  <2> QED  BY <1>0, <1>r, <2>1, InRound
<1>2. CASE Connect(d)
  <2>1. PICK p \in fetch[d].sources :
               /\ fetch' = [fetch EXCEPT ![d].sources = @ \ {p}, ![d].target = p]
               /\ Goto(d, IF Serves(p) THEN "Asked" ELSE "Next")
    BY <1>2 DEF Connect
  <2>2. pc[d] = "Next" /\ "Asked" \in Attempt
    BY <1>2 DEF Connect, Attempt
  <2>3. /\ fetch'[d].sources = fetch[d].sources \ {p} /\ fetch'[d].target = p
        /\ fetch'[d].sound = fetch[d].sound
        /\ \A e \in Downloaders \ {d} : fetch'[e] = fetch[e]
    BY <1>f, <2>1 DEF Frame
  <2>4. \A q \in fetch[d].sources : q \in Peers /\ q # d /\ Wanted(d) \in verified[q]
    BY <1>f, <1>r, <1>t, <2>2 DEF Targets
  <2>5. \A q \in fetch[d].sound : /\ q \in Peers /\ Serves(q) /\ Wanted(d) \in have[q]
                                  /\ q \in fetch[d].sources
    BY <1>f, <1>r, <1>t, <2>2 DEF Sound
  <2>6. CASE Serves(p)
    <3>1. Goto(d, "Asked")
      BY <2>1, <2>6
    <3> QED  BY <1>0, <1>r, <2>2, <2>3, <2>4, <2>5, <3>1, InRound
  <2>7. CASE ~Serves(p)
    <3>1. Goto(d, "Next")
      BY <2>1, <2>7
    <3> QED  BY <1>0, <1>r, <2>3, <2>4, <2>5, <2>7, <3>1, InRound
  <2> QED  BY <2>6, <2>7
<1>3. CASE Check(d) \/ Read(d) \/ FetchFails(d)
  <2>1. pc[d] \in Attempt
    BY <1>3 DEF Check, Read, FetchFails, Attempt
  <2>2. \A q \in fetch[d].sources : q \in Peers /\ q # d /\ Wanted(d) \in verified[q]
    BY <1>f, <1>r, <1>t, <2>1 DEF Targets
  <2>3. fetch[d].target # d /\ Wanted(d) \in verified[fetch[d].target]
    BY <1>t, <2>1 DEF Targets
  <2>4. \A q \in fetch[d].sound : /\ q # d /\ q \in Peers /\ Serves(q) /\ Wanted(d) \in have[q]
                                  /\ q \in fetch[d].sources \/ q = fetch[d].target
    BY <1>f, <1>r, <1>t, <2>1, <2>2, <2>3 DEF Sound
  <2>5. CASE FetchFails(d)
    <3>1. /\ Goto(d, "Next") /\ fetch'[d].sources = fetch[d].sources
          /\ fetch'[d].sound = fetch[d].sound \ {fetch[d].target}
          /\ \A e \in Downloaders \ {d} : fetch'[e] = fetch[e]
      BY <1>f, <2>5 DEF FetchFails, Remaining, Frame
    <3> QED  BY <1>0, <1>r, <2>2, <2>4, <3>1, InRound
  <2>6. CASE Read(d)
    <3>1. Goto(d, "Answered") /\ fetch' = fetch /\ "Answered" \in Attempt
      BY <2>6 DEF Read, Attempt
    <3> QED  BY <1>0, <1>r, <2>2, <2>3, <2>4, <3>1, InRound
  <2>7. CASE Check(d) /\ Wanted(d) \in have[fetch[d].target]
    <3>1. Goto(d, "Checked") /\ fetch' = fetch /\ "Checked" \in Attempt
      BY <2>7 DEF Check, Attempt
    <3> QED  BY <1>0, <1>r, <2>2, <2>3, <2>4, <3>1, InRound
  <2>8. CASE Check(d) /\ Wanted(d) \notin have[fetch[d].target]
    <3>1. /\ Goto(d, "Next") /\ fetch'[d].sources = fetch[d].sources
          /\ fetch'[d].sound = fetch[d].sound
          /\ \A e \in Downloaders \ {d} : fetch'[e] = fetch[e]
      BY <1>f, <2>8 DEF Check, Remaining, Frame
    <3> QED  BY <1>0, <1>r, <2>2, <2>4, <2>8, <3>1, InRound
  <2> QED  BY <1>3, <2>5, <2>6, <2>7, <2>8
<1> QED  BY <1>1, <1>2, <1>3

\* Every step keeps the fetches of all downloaders in order.
LEMMA FetchStep == SwarmInv /\ [Next]_vars => \A d \in Downloaders : Targets(d)' /\ Sound(d)'
<1> SUFFICES ASSUME SwarmInv, [Next]_vars PROVE \A d \in Downloaders : Targets(d)' /\ Sound(d)'
  OBVIOUS
<1>s. /\ \A p \in Peers : verified[p] \subseteq verified'[p]
      /\ Seeders \subseteq Peers /\ Downloaders \subseteq Peers
      /\ pc \in [Peers -> Steps] /\ have \in [Peers -> SUBSET Chunks]
  BY StoreStep DEF SwarmInv, StoreInv, ServedInv, Peers
<1>u. ASSUME UNCHANGED <<pc, have, fetch, verified>> PROVE \A d \in Downloaders : Targets(d)' /\ Sound(d)'
  BY <1>u DEF SwarmInv, Targets, Sound, Serves, Wanted
\* The actor goes to a step outside a round.
<1>o. ASSUME NEW p \in Peers, NEW step \in Steps \ Round, Goto(p, step),
             \A q \in Peers : have[q] \subseteq have'[q],
             \A q \in Peers \ {p} : have'[q] = have[q],
             step \in Fetching => have'[p] # Chunks,
             \/ Withdraw(p)
             \/ /\ \A d \in Downloaders \ {p} : fetch'[d] = fetch[d]
                /\ Serves(p) => step \notin {"Down", "Preparing", "Finishing", "Leaving", "Done"}
      PROVE  \A d \in Downloaders : Targets(d)' /\ Sound(d)'
  <2>1. \A d \in Downloaders \ {p} : Targets(d)' /\ Sound(d)'
    BY <1>o, <1>s, GoesOnOthers
  <2>2. pc'[p] = step
    BY <1>o, <1>s DEF Goto
  <2>3. Targets(p)' /\ Sound(p)'
    BY <1>o, <2>2, OutOfRound
  <2> QED  BY <2>1, <2>3
<1>1. ASSUME NEW p \in Peers, Start(p) PROVE \A d \in Downloaders : Targets(d)' /\ Sound(d)'
  <2>1. load_existing(serialize(have[p])) = have[p]
    BY <1>s, ResumeFile
  <2>2. have' = have
    BY <1>1, <1>s, <2>1 DEF Start
  <2>3. "Starting" \in Steps \ Round /\ "Starting" \notin Fetching
    BY DEF Steps, Fetching, Round, Attempt
  <2>4. Goto(p, "Starting") /\ fetch' = fetch
    BY <1>1 DEF Start
  <2> QED  BY <1>o, <2>2, <2>3, <2>4
<1>p. ASSUME NEW p \in Peers, PreparePartial(p) \/ SizePartial(p) \/ SizePartialFails(p)
      PROVE  \A d \in Downloaders : Targets(d)' /\ Sound(d)'
  <2>1. PICK step \in {"Preparing", "Starting"} : Goto(p, step)
    BY <1>p DEF PreparePartial, SizePartial, SizePartialFails
  <2>2. step \in Steps \ Round /\ step \notin Fetching
    BY DEF Steps, Fetching, Round, Attempt
  <2>3. have' = have /\ fetch' = fetch /\ ~Serves(p)
    BY <1>p DEF PreparePartial, SizePartial, SizePartialFails, Serves
  <2> QED  BY <1>o, <2>1, <2>2, <2>3
<1>2. ASSUME NEW p \in Peers,
             FirstAnnounce(p) \/ (p \in Downloaders /\ AnnounceChunk(p))
      PROVE  \A d \in Downloaders : Targets(d)' /\ Sound(d)'
  <2>1. have' = have
    BY <1>2 DEF FirstAnnounce, AnnounceChunk
  <2>2. {"Finishing", "Serving", "Ask"} \subseteq Steps \ Round
    BY DEF Steps, Fetching, Round, Attempt
  <2>3. "Finishing" \notin Fetching /\ "Serving" \notin Fetching
    BY DEF Fetching
  <2>4. CASE Goto(p, "Finishing") /\ Withdraw(p)
    BY <1>o, <2>1, <2>2, <2>3, <2>4
  <2>5. CASE Goto(p, "Serving") /\ fetch' = fetch
    BY <1>o, <2>1, <2>2, <2>3, <2>5
  <2>6. CASE Goto(p, "Ask") /\ fetch' = fetch /\ have[p] # Chunks
    BY <1>o, <2>1, <2>2, <2>6
  <2> QED  BY <1>2, <2>4, <2>5, <2>6 DEF FirstAnnounce, AnnounceChunk, Peers
<1>3. ASSUME NEW p \in Peers, Goto(p, "Leaving"), Withdraw(p), have' = have
      PROVE  \A d \in Downloaders : Targets(d)' /\ Sound(d)'
  <2>1. "Leaving" \in Steps \ Round /\ "Leaving" \notin Fetching
    BY DEF Steps, Fetching, Round, Attempt
  <2> QED  BY <1>o, <1>3, <2>1
<1>4. ASSUME NEW p \in Peers, Stop(p) \/ Crash(p) PROVE \A d \in Downloaders : Targets(d)' /\ Sound(d)'
  <2>1. PICK cut \in SUBSET Connected, step \in Gone : Disconnect(p, cut, step)
    BY <1>4 DEF Stop, Crash, Connected, Gone
  <2>2. \/ Withdraw(p)
        \/ fetch' = fetch /\ ~Serves(p)
    BY <1>4 DEF Stop, Crash, Serves
  <2>3. \A q \in Peers \ {p} : have'[q] = have[q]
    BY <1>4, <1>s DEF Stop, Crash
  <2>4. \A d \in Downloaders \ {p} : Targets(d)' /\ Sound(d)'
    BY <1>s, <2>1, <2>2, <2>3, GoneOthers
  <2>5. pc'[p] = step /\ step \notin Round /\ step \notin Fetching
    BY <2>1 DEF Disconnect, Gone, Round, Attempt, Fetching
  <2> QED  BY <2>4, <2>5, OutOfRound
<1>5. ASSUME NEW d \in Downloaders, Store(d) PROVE \A e \in Downloaders : Targets(e)' /\ Sound(e)'
  <2>1. d \in Peers /\ "Announce" \in Steps \ Round /\ "Announce" \notin Fetching
    BY <1>s DEF Steps, Fetching, Round, Attempt
  <2>2. /\ \A q \in Peers : have[q] \subseteq have'[q]
        /\ \A q \in Peers \ {d} : have'[q] = have[q]
        /\ \A e \in Downloaders \ {d} : fetch'[e] = fetch[e]
        /\ Goto(d, "Announce")
    BY <1>5, <1>s DEF Store, SwarmInv, ServedInv
  <2> QED  BY <1>o, <2>1, <2>2
<1>6. ASSUME NEW d \in Downloaders, EndRound(d) PROVE \A e \in Downloaders : Targets(e)' /\ Sound(e)'
  <2>1. d \in Peers /\ have' = have
    BY <1>6, <1>s DEF EndRound
  <2>2. CASE Goto(d, "Leaving") /\ Withdraw(d)
    BY <1>3, <2>1, <2>2
  <2>3. CASE fetch' = [fetch EXCEPT ![d].round = @ + 1] /\ Goto(d, "Ask")
    <3>1. have[d] # Chunks
      BY <1>6 DEF EndRound, SwarmInv, Targets, Fetching
    <3>2. "Ask" \in Steps \ Round /\ \A e \in Downloaders \ {d} : fetch'[e] = fetch[e]
      BY <2>3 DEF Steps, Fetching, Round, Attempt, SwarmInv, ServedInv
    <3> QED  BY <1>o, <2>1, <2>3, <3>1, <3>2
  <2> QED  BY <1>6, <2>2, <2>3 DEF EndRound
<1>7. CASE TrackerRestarts \/ UNCHANGED vars
  BY <1>7, <1>u DEF TrackerRestarts, vars
<1>8. ASSUME NEW p \in Peers, Heartbeat(p) \/ Expire(p) PROVE \A e \in Downloaders : Targets(e)' /\ Sound(e)'
  BY <1>8, <1>u DEF Heartbeat, Expire
<1>9. ASSUME NEW p \in Peers,
             FirstAnnounceRefused(p) \/ FirstAnnounceFails(p) \/ (p \in Seeders /\ StopSeeder(p))
      PROVE  \A e \in Downloaders : Targets(e)' /\ Sound(e)'
  BY <1>3, <1>9 DEF FirstAnnounceRefused, FirstAnnounceFails, StopSeeder
<1>10. ASSUME NEW d \in Downloaders, Fetch(d) \/ Serve(d) \/ AskFails(d) \/ FetchFails(d)
       PROVE  \A e \in Downloaders : Targets(e)' /\ Sound(e)'
  BY <1>s, <1>10, <1>2, <1>5, <1>6, AskRound, RoundStep DEF Fetch, Serve
<1> QED  BY <1>s, <1>p, <1>1, <1>2, <1>4, <1>7, <1>8, <1>9, <1>10 DEF Next, Prepare

LEMMA InitSwarm == Init => SwarmInv
<1> SUFFICES ASSUME Init PROVE SwarmInv
  OBVIOUS
<1>1. StoreInv
  BY DEF Init, StoreInv
<1>2. ListedInv
  BY DEF Init, ListedInv
<1>3. ASSUME NEW d \in Downloaders PROVE Targets(d) /\ Sound(d)
  <2>1. pc[d] = "Down"
    BY DEF Init, Peers
  <2> QED  BY <2>1 DEF Targets, Sound, Round, Attempt, Fetching
<1> QED  BY <1>1, <1>2, <1>3, InitServed DEF SwarmInv

LEMMA SwarmStep == SwarmInv /\ [Next]_vars => SwarmInv'
BY ServedStep, StoreStep, ListedStep, FetchStep DEF SwarmInv

\* The inductive invariant holds throughout.
LEMMA SwarmInvariance == Spec => []SwarmInv
BY InitSwarm, SwarmStep, PTL DEF Spec

\* A peer is asked only by others and only for chunks that it has verified, however
\* stale the tracker's records are and however often lists are encoded and parsed,
\* written to a resume file and loaded again.
THEOREM VerifiedSafety == Spec => []AskedForVerified
<1>1. SwarmInv => AskedForVerified
  BY DEF SwarmInv, StoreInv, Targets, Attempt, AskedForVerified
<1> QED  BY <1>1, SwarmInvariance, PTL

\* Only the end of a round takes a worker from "Next" to another round or out of run().
LEMMA OnlyEndRound ==
  ASSUME SwarmInv, [Next]_vars, NEW d \in Downloaders, pc[d] = "Next", pc'[d] \in {"Ask", "Leaving"}
  PROVE  EndRound(d)
<1>s. pc \in [Peers -> Steps] /\ d \in Peers /\ Seeders \subseteq Peers /\ Downloaders \subseteq Peers
  BY DEF SwarmInv, ServedInv, Peers
<1>g. ASSUME NEW p \in Peers, NEW step, Goto(p, step) PROVE p = d /\ step \in {"Ask", "Leaving"}
  BY <1>g, <1>s DEF Goto
<1>1. ASSUME NEW p \in Peers,
             \/ Start(p) \/ FirstAnnounce(p) \/ FirstAnnounceRefused(p) \/ FirstAnnounceFails(p)
             \/ PreparePartial(p) \/ SizePartial(p) \/ SizePartialFails(p) \/ StopSeeder(p)
      PROVE  FALSE
  <2>1. (\E step : Goto(p, step)) /\ pc[p] # "Next"
    BY <1>1 DEF Start, FirstAnnounce, FirstAnnounceRefused, FirstAnnounceFails,
                PreparePartial, SizePartial, SizePartialFails, StopSeeder
  <2> QED  BY <1>g, <2>1
<1>2. ASSUME NEW p \in Peers, Stop(p) \/ Crash(p) PROVE FALSE
  <2>1. PICK cut \in SUBSET Connected, step \in Gone : Disconnect(p, cut, step)
    BY <1>2 DEF Stop, Crash, Connected, Gone
  <2>2. pc'[d] \in {step, "Next", pc[d]}
    BY <1>s, <2>1 DEF Disconnect
  <2> QED  BY <2>2 DEF Gone
<1>3. ASSUME UNCHANGED pc PROVE FALSE
  BY <1>3
<1>4. ASSUME NEW e \in Downloaders,
             Ask(e) \/ AskFails(e) \/ Check(e) \/ Read(e) \/ Store(e) \/ FetchFails(e) \/ AnnounceChunk(e)
      PROVE  FALSE
  <2>1. (\E step : Goto(e, step)) /\ pc[e] # "Next"
    BY <1>4 DEF Ask, AskFails, Check, Read, Store, FetchFails, AnnounceChunk
  <2> QED  BY <1>g, <1>s, <2>1
<1>5. ASSUME NEW e \in Downloaders, Connect(e) PROVE FALSE
  <2>1. \E step \in {"Asked", "Next"} : Goto(e, step)
    BY <1>5 DEF Connect
  <2> QED  BY <1>g, <1>s, <2>1
<1>6. ASSUME NEW e \in Downloaders, EndRound(e) PROVE e = d
  <2>1. \E step : Goto(e, step)
    BY <1>6 DEF EndRound
  <2> QED  BY <1>g, <1>s, <2>1
<1>7. \/ \E e \in Downloaders : EndRound(e)
      \/ \E p \in Peers : Heartbeat(p) \/ Expire(p)
      \/ TrackerRestarts \/ UNCHANGED vars
  BY <1>s, <1>1, <1>2, <1>4, <1>5 DEF Next, Prepare, Fetch, Serve
<1> QED  BY <1>3, <1>6, <1>7 DEF Heartbeat, Expire, TrackerRestarts, vars

\* fetch_with_retry ends no round without the chunk while a peer of the answer has
\* it, says so and goes on serving, and gives up after max_retries rounds only.
THEOREM OneSourceSafety == Spec => OneSourceIsEnough
<1>1. SwarmInv /\ [Next]_vars => [\A d \in Downloaders : pc[d] = "Next" /\ pc'[d] \in {"Ask", "Leaving"} =>
                                   /\ fetch[d].sound = {}
                                   /\ pc'[d] = "Leaving" => fetch[d].round = MaxRetries - 1]_vars
  <2> SUFFICES ASSUME SwarmInv, [Next]_vars, NEW d \in Downloaders,
                      pc[d] = "Next", pc'[d] \in {"Ask", "Leaving"}
               PROVE  fetch[d].sound = {} /\ (pc'[d] = "Leaving" => fetch[d].round = MaxRetries - 1)
    OBVIOUS
  <2>1. pc[d] \in Round /\ pc[d] \notin Attempt /\ Sound(d)
    BY DEF Round, Attempt, SwarmInv
  <2>2. EndRound(d)
    BY OnlyEndRound
  <2>3. fetch[d].sound = {}
    BY <2>1, <2>2 DEF Sound, EndRound
  <2>4. fetch[d].round \in 0 .. MaxRetries - 1 /\ d \in Peers /\ pc \in [Peers -> Steps]
    BY DEF SwarmInv, ServedInv, Frame, Peers
  <2>5. pc'[d] = "Leaving" => ~AnotherRound(fetch[d].round)
    BY <2>2, <2>4 DEF EndRound, Goto
  <2>6. pc'[d] = "Leaving" => fetch[d].round = MaxRetries - 1
    BY <2>4, <2>5, SwarmAssumption DEF AnotherRound
  <2> QED  BY <2>3, <2>6
<1> QED  BY <1>1, SwarmInvariance, PTL DEF Spec, OneSourceIsEnough

\* The rest of the state.
CountsInv ==
  /\ partial \in [Downloaders -> {"absent", "short", "sized"}] /\ limits \in TrackerLimits
  /\ scoped \subseteq Peers /\ faults \in 0 .. MaxFaults

LEMMA CountsStep == CountsInv /\ [Next]_vars => CountsInv'
<1> SUFFICES ASSUME CountsInv, [Next]_vars PROVE CountsInv'
  OBVIOUS
<1>1. scoped' = scoped /\ limits' = limits /\ (faults' = faults \/ Fault)
  BY DEF Next, Prepare, Fetch, Serve, Start, PreparePartial, SizePartial, SizePartialFails, FirstAnnounce,
      FirstAnnounceRefused, FirstAnnounceFails, Heartbeat, Stop, Crash, Expire, StopSeeder,
      AskFails, FetchFails, TrackerRestarts, Ask, Connect, Store, EndRound, AnnounceChunk, Check, Read, vars
<1>2. \/ partial' = partial
      \/ \E d \in Downloaders : \E size \in {"absent", "short", "sized", partial[d]} :
           partial' = [partial EXCEPT ![d] = size]
  BY DEF Next, Prepare, Fetch, Serve, Start, PreparePartial, SizePartial, SizePartialFails, FirstAnnounce,
      FirstAnnounceRefused, FirstAnnounceFails, Heartbeat, Stop, Crash, Expire, StopSeeder,
      AskFails, FetchFails, TrackerRestarts, Ask, Connect, Store, EndRound, AnnounceChunk, Check, Read, vars
<1>3. partial' \in [Downloaders -> {"absent", "short", "sized"}]
  BY <1>2 DEF CountsInv
<1> QED  BY <1>1, <1>3, SwarmAssumption DEF Fault, CountsInv

\* Every variable keeps its type, and every list that the tracker stores is in
\* ascending order: encode_chunk_list never refuses a peer's own list.
THEOREM TypeCorrect == Spec => []TypeOK
<1>1. Init => CountsInv
  BY SwarmAssumption DEF Init, Peers, CountsInv
<1>2. SwarmInv /\ CountsInv => TypeOK
  BY DEF SwarmInv, ServedInv, StoreInv, ListedInv, Backed, TypeOK, CountsInv
<1> QED  BY <1>1, <1>2, CountsStep, SwarmInvariance, PTL DEF Spec
=============================================================================
