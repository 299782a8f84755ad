# SwarmSync in TLA+

Specifications of SwarmSync's downloader, resume store, connection pools, presence
announcements, tracker registry, manifests and sockets, and of a swarm that composes
them, checked with TLC on small instances; and proofs, checked with TLAPS, that
their safety properties hold for instances of every size. File and line references
are to the sources under `src/`.

## The system

| Part | Code | State | Operations |
|---|---|---|---|
| Downloader | `src/src/download.cpp` | output directory, `next_index`, `failed`, `failure`, `write_mutex` | `run()`: prepare, load, revalidate, serve, announce, workers, join, hash, rename, remove; its catch block |
| Resume store | `src/src/resume_store.cpp` | `completed_`, `revision_`, `dirty_`, `<swarm>.resume` | load, mark, `flush()` |
| Presence | `download.cpp:242-302`, `TrackerClient::announce` | `heartbeat_running`, what the tracker lists | announces by main, workers, heartbeat; `stop_heartbeat` |
| Tracker registry | `src/src/tracker.cpp:236-321` | `swarms_` | ANNOUNCE, PEERS, pruning |
| Connection pools | `src/src/peer_server.cpp`, `tracker.cpp:130-234` | `running_`, queue, counter, threads | `start`, `stop`, `accept_loop`, `worker_loop` |
| Peers together | `fetch_with_retry`, `serve_connection`, `TrackerClient::peers`, `seed()` | who has, lists, asks and serves what | ask, connect, check, read, store, announce, stop |
| Manifest | `src/src/manifest.cpp` | the source file, the manifest file | `from_file`, `save`, `load`, layout |
| Sockets | `src/src/protocol.cpp:28-366` | the descriptors of the process | `connect_tcp`, `listen_tcp`, `accept_tcp`, `Socket` |
| Framing, crypto, options | `protocol.cpp`, `crypto.cpp`, `apps/` | none of their own | see *Not modelled* |

A downloader asks the tracker for the peers of a swarm, fetches chunks from them,
writes each to `<file>.part`, marks it in the resume store, announces it, and
serves it. When all are complete it hashes the whole file and renames it. What
makes this hard: several workers share an index, a store and a file; `flush()`
writes outside the store's mutex; the process or the machine can die between any
two steps; announces overtake one another; `now` is read before the lock; condition
variables are notified without their mutex; peers are asked for what they had when
they last announced. `PROJECT.json` lists each such hazard with the line where it
bites and the properties about it.

## Modules

* **OutputDirectory** – the three files of a download, each as a running process
  sees it (`vol`) and as a power loss would leave it (`dur`). A chunk's bytes are
  abstracted to whether they match the manifest. Directory entries and sizes
  become durable in the order they were made (`JournalCommit`), bytes by `fsync`.
  The file system is external, and this ordering is an assumption about it.
* **ResumeStore** – `completed_`, `revision_`, `dirty_`; `flush()` is three steps:
  snapshot under the mutex, `write_atomic` (visible at its rename), and clearing
  `dirty_` if the revision is still the same.
* **Download** – `run()`, over any number of runs. One action per step of the main
  thread and of a worker; `Failure` adds a failing call at each of them, the death
  of the process or machine, damage to the partial file from outside, and, where
  `Shared` is true, runs in the same directory with another manifest for a file of
  the same name (`OtherManifest`), which shares `<file>.part` but not the resume
  file. `fetch_with_retry` is one step that returns verified bytes or fails.
  `create_directories` and `open` failing before anything is written change
  nothing and are left out.
* **VerifiedDownload**, **DownloadRefinement** – what `run()` promises, without its
  threads, marks and flushes, and the mapping under which Download implements it.
* **Presence** – the announcing threads. An announce reads the store twice, is
  encoded, and is delivered, lost, or delivered after its sender gave up.
* **Tracker** – the registry. A handler takes a request and its time, later applies
  it under `peers_mutex_`, later answers. Of a peer's chunk list the model keeps
  whether it has the chunk that is wanted.
* **ConnectionPool** – accept thread, queue, workers and owner, which `PeerServer`
  and `TrackerServer` share; every lock, wait and notification is a step, and
  spurious wakeups happen. `start()` can fail at any step, and be called again.
* **ChunkList** – lists of chunks as `encode_chunk_list` writes and
  `parse_chunk_list` reads them (`all`, `none`, ascending indices), and as they are
  in a resume file.
* **Swarm** – seeders, downloaders with one worker each, their peer servers and the
  tracker's list. A downloader goes through the rounds of `fetch_with_retry`: it
  asks, connects to the peers of the answer in any order, the peer tests `has_chunk`
  and later reads, the chunk is stored and announced. Peers crash (a power loss may
  take the newest marks, or a partial file that was never synced), stop, restart from
  their resume file; the tracker restarts empty; records of peers that left stay until
  they expire. Refusals that last are modelled too: a partial file left short by a
  death inside `prepare_partial_file`, a chunk list that is too long for the header
  of an announce (`Fits`), a full tracker and an answer cut at `max_response_peers`
  (`limits`). The insides of each part are in its own module: what Download proves of
  `run()`, or Tracker of expiry, is one step here.
* **Manifest** – `manifest create` and `load`. A digest is the byte sequence it is
  of (no collisions); the manifest file is a sequence of lines, and a write that
  stops leaves any prefix, cut inside a number or digest too. A source that cannot be
  opened or read (`manifest.cpp:98`) makes `from_file` throw before anything is
  written; it changes nothing and is left out.
* **Sockets** – threads that call `connect_tcp`, `listen_tcp` and `accept_tcp`, hold,
  move and destroy a `Socket`, over the kernel's table, which gives the lowest free
  descriptor to whoever asks next. Every call on the way may fail.
* **DownloadInvariant** and the **…Proofs** modules – inductive invariants, proofs.

`MC*.tla` and `*.cfg` give the constants values. Definitions named after a bug
(`FsyncSkipped`, `DrainUnlocked`, ...) stand before the definition they corrupt;
substituting one makes TLC report the property listed beside it in `PROJECT.json`.

## Runs

| Run | Instance | Shows |
|---|---|---|
| `download` | 3 chunks, 2 workers, 3 failures, shared directory | `Inv`, the safety properties of `run()`, and that it implements VerifiedDownload |
| `download_live` | 2 chunks, 2 workers, 2 failures, shared directory | every run ends; re-running recovers |
| `pool` | 2 workers, 3 clients, limit 2 | exact, bounded counter; `stop()` returns and leaves nothing; no wakeup is lost, no connection stays queued |
| `presence` | 2 chunks, 2 workers, 2 failures | never over-advertised, eventually listed, `stop_heartbeat` returns, no thread outlives `run()` |
| `tracker` | 2 swarms, 3 peers, 2 handlers, TTL 2, time 3 | limits, a full TTL, live answers |
| `swarm` | 1 seeder, 2 downloaders, 2 chunks, 2 rounds, 1 fault | peers are asked for what they verified, one sound source is enough and every retry is used, no read after the rename, every download completes or is refused for good |
| `manifest` | up to 12 bytes, chunks up to 3, 11 chunks, 1 edit | tiling, digests, torn manifests |
| `sockets` | 3 threads, 3 descriptors, 2 addresses | no descriptor leaks or is used by two |

**Bounds.** Two workers and three chunks let one worker fail or stall while the other
finishes and a third chunk is still to be claimed. Three failures cover a crash,
damage and a failed write in one behaviour. `MaxListed` (indices that fit in a
header of 8192 bytes; really a number of characters) is below the number of chunks
in `download`, so the header error happens there, and equal to it in the liveness
runs: with a lower value `Recovers` and `EventuallyListed` are false, since announces
that do not fit are dropped unsent; `download_header` shows what that does to a
re-run. The pool has more clients than its limit. In `tracker` time runs beyond the
TTL, and swarms, peers and answers exceed their limits. In `swarm` two downloaders
can be each other's only source, any of them may have been interrupted before with
any chunks, and the one fault falls on any step of any peer or on the tracker; a
record is stale after every crash, stop or completion besides. One downloader can
announce any list, the other none that is partial; the tracker has room for all three
peers, or for two, of which it names one in an answer. In `manifest` twelve
bytes reach two-digit counts, whose prefix is a number again, and one chunk too many.
No width matters there: at most 10^6 chunks of at most 2^22 bytes keep every product
below 2^64. In `sockets` a third thread can take the number that one of two others
has closed and is about to close again. Its threads are symmetric.

**Fairness.** Weak fairness of each thread's own steps: the scheduler runs threads.
Download: the program is run again after it stops, and failures are finitely many
(`MaxFaults`). Pool: serving ends, since sockets time out after 3 s; nothing is
assumed of clients or of the owner calling `stop()`. Presence: `wait_for` times
out; workers need not make progress. Swarm: programs and their servers run, heartbeats
go on, and a seeder or download that ended without its file is started again; no
fairness of expiry or of any fault. Deadlock checking is off in `presence` and
`manifest`, where the program ends.

**Exceptions stated in the properties.** `EveryDownloadCompletes` allows a download to
end refused, in the two ways that no re-run gets past: the partial file is short
(`download.cpp:43`, run `download_partial`), or the list of its chunks does not fit in
the first announce (`download.cpp:260`, run `download_header`). It supposes that
`max_response_peers` is at least the number of peers, since a cut answer may leave out
the only source for ever (run `tracker_sources`), and that the tracker sees no peer
with a scoped address (`fe80::1%eth0`): the `PEER` line is written as it is,
`parse_peer_response` rejects it, and with it the whole answer (`tracker.cpp:107`),
which `OneSourceIsEnough` excepts too. `OwnConnections` excepts what
follows a `set_socket_timeout` that throws inside `connect_tcp`: the `Socket` of
`protocol.cpp:256` closes the descriptor and the handler closes the number again
(line 262). `KeptForTTL` counts from the announce stored last, which may be an older
one that was delayed. A resume file that `run()` could not remove
(`download.cpp:337`) stays, since later runs return before any line that would;
`NeverOrphaned` says that it stops none of them.

**Violations** are statements of the documentation or of the program's own messages
that the code does not keep; each has an entry under `findings`.

| Run | Statement | What happens |
|---|---|---|
| `download_partial` | runbook: a size mismatch means outside changes | a death in `prepare_partial_file` causes it |
| `download_header` | README: re-run the same command | a long chunk list makes the first announce throw |
| `tracker_sources` | runbook: no active peer advertises the chunk | the answer is cut before the peer that does |
| `manifest_saved` | `manifest.cpp:168`: unfinished writes throw | the stream is tested before it is written |

## The abstract download

VerifiedDownload has a set of chunks in place (`good`), those of them that the next
run will not fetch again (`saved`), the final file, and whether a run is in progress
or died. Chunks accumulate and are saved, the file appears at once and only when
every chunk is saved, and saved chunks are lost to a crash, damage or other programs,
never to a run. The mapping takes `good` from the bytes of the partial or final file,
`saved` from the marks that revalidation will confirm, `file` from the final name.
All the rest of Download (workers, mutex, snapshots, `dirty_`, what is durable) is
hidden; its steps are stutters, except that a flush is a `Save`, the rename the
`Deliver`, and a write of a chunk an `Obtain`.

## Proofs

All theorems are for every value of the constants: any number of chunks (none included,
except in Swarm), workers, peers, clients, handlers, threads or bytes, any limits and
any number of failures. They rest on the named assumptions of the modules, which TLC
evaluates: numbers are natural, limits positive, a pool has at most `max_connections`
workers and an answer at most `max_peers_per_swarm` peers (the constructors check both;
`Fits` is any choice of lists), threads differ from the values that stand for nobody,
`Bad` is nothing that a whole line holds, and `PowersOfTen` (which a cut number is
divided by; 10 and 100 in the runs) are numbers above 1.

| Module | Theorems | Along which argument |
|---|---|---|
| `DownloadProofs` | `Invariance`, `TypeCorrect`, `ResumeSafety`, `CleanSafety`, `JoinSafety`, `DispatchSafety`, `FinalSafety`, `OrphanSafety` | `Inv`, below |
| `RefinementProofs` | `RefinementInvariance`, `Refinement` | `Inv`, `RefinementInv`, `Alive`, one simulation case per action |
| `PoolProofs` | `AccountingSafety`, `BoundSafety`, `QuiescentSafety`, `WakeupSafety`, `TypeCorrect` | `PoolInv`: which threads exist in each phase of start and stop, who holds the mutex, what the accept thread has counted but not queued; `WakeInv`, below |
| `TrackerProofs` | `LimitsSafety`, `PresenceSafety`, `RefusalSafety`, `AnswerSafety`, `TypeCorrect` | `TrackerInv`: no handler's time is ahead of the clock, what was stored last is what is recorded, until it expires; `TimeInv`: pruning and storing keep every record in the past |
| `PresenceProofs` | `AdvertisedSafety`, `LifetimeSafety`, `TypeCorrect` | announces under way and late ones list verified chunks only, and a flag of completeness is read after the store was complete; `ThreadInv`: which threads exist at each step of the main one |
| `SwarmProofs` | `RenameSafety`, `VerifiedSafety`, `OneSourceSafety`, `TypeCorrect` | `ServedInv`: whoever is connected is connected to a peer whose server runs, also before `has_chunk`; `SwarmInv`, below |
| `SocketProofs` | `LeakFreedom`, `Ownership`, `TypeCorrect` | which of its two variables a thread has set at each step; two threads never have one descriptor |
| `ManifestProofs` | `TilingSafety`, `DigestSafety`, `AgreementSafety`, `LoadSafety`, `TypeCorrect` | a byte is in the chunk that is the quotient of its position; `ReadInv`: the read loop stands at the end of whole chunks; `SavedInv`: the file is a prefix of what is to be written |

None of the properties of Download is inductive. *Durable marks* need to know what a
snapshot taken by a flush in progress will write (`FlushInv`: it is still what is
complete, because only the owner of `write_mutex` marks and flushes), and that a
worker about to mark has synced its chunk (`WorkerInv`). *Join means complete* needs
where every index below `next_index` is: complete, in some worker's hands, or lost to
a recorded failure (`DispatchInv`). Even types need `WorkerInv`, which keeps a claimed
index within the chunks. Each part of `Inv` has a lemma that `Next` preserves it,
split by action; they are joined in `Invariance`. The refinement needs more:
memory knows all that a flush could drop from the file, and the store is clean from
the final flush to the rename (`RefinementInv`).

In `ManifestProofs` the layout (`Tiles`) is arithmetic: `DivBounds`, `DivMono` and
`OneQuotient` say what `\div` gives, `CountOfLast` and `CountOfFull` that
`expected_chunk_count` is the one number of chunks that reaches the end of the file,
at a multiple of the chunk size and between two.

`LoadSafety` rests on three lemmas about files. `ParsedWhole` and `WholeLoads`: what
`serialize()` writes is what `load()` reads. `TornOrWhole`: a cut file does not load.
If whole lines are missing, their number is not `chunk_count`. If `chunk_count` is cut,
it is a shorter number that is not zero, but no chunk line follows (`CutCount`). If the
last chunk line is cut, its digest is (`CutChunk`), and `validate()` refuses it.

In `SwarmProofs` a peer is asked for what it verified because every form of its list
says no more than the peer had: in memory, in the resume file, in the announce, in the
tracker's record, in the answer (`StoreInv`, `ListedInv`, `Targets`). `completed_chunks()`
gives the chunks in ascending order, one list for each set (`ListingExists`,
`CompletedChunks`). That is an induction, carried out as the absence of a least
counterexample (`Least`), since the induction rules of the library take an operator as
parameter. For *one source is enough*, a source that is sound is still to be tried or is
being tried, and has the chunk (`Sound`); `OnlyEndRound` says that nothing but the end
of a round starts another or gives up.

`NoLostWakeup` is the safety half of `StopReturns` and `QueuedIsServed`. `WakeInv` says
that the mutex is held exactly where the code holds it (`LockInv`), that what a worker
has seen of the queue is still so while it holds the mutex (`SeenInv`), and that workers
exist before the accept thread and as long as it (`AliveInv`). After `Drain`, which
takes the mutex, no worker is between its test and its sleep, so that `notify_all`
reaches all that sleep.

Every safety property that a passing run checks is also proved, for every value of the
constants. Only model-checked is liveness (`RunEnds`, `Recovers`, `StopReturns` of the
pool and of the heartbeat, `QueuedIsServed`, `EventuallyListed`,
`EveryDownloadCompletes`): fairness and ENABLED are beyond the prover.

## Not modelled

* Framing (`read_line`, `read_exact`, `write_all`), splitting and character checks of
  headers, and requests that are refused for their form, token or swarm: they change
  no state. A connection that breaks or stalls is a failed call in every module.
* SHA-256 (OpenSSL), hex, the comparison of tokens, logging, option parsing: pure
  computations or output, with nothing to interleave.
* Two programs that run at once in one output directory; several workers per peer in
  Swarm (Download has them); several swarms on one tracker in Swarm (Tracker has them).
* The tracker's main program, which waits for a signal between `start()` and `stop()`.
