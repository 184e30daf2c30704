# A TLA+ verification of speedy

speedy stores docker images. Clients (a docker registry with a driver) talk HTTP
to *image servers*; these store data on groups of *chunk servers*, each server of a
group holding a copy, and metadata in MySQL; a *chunk master* knows the chunk
servers and hands out file ids.

## The parts of the system

| part | code | module | state of the model |
|---|---|---|---|
| chunk server: handlers, callbacks, cron | `chunkserver/spy_server.c` | `SpyServer`, `ChunkIO` | every operation |
| chunk server: chunk files, commit, recovery | `chunkserver/spy_store.c` | `SpyStore`, `SpyServer`, `ChunkFile` | all but fsync |
| chunk server: stream buffers, memory blocks | `chunkserver/spy_rw_buffer.c`, `spy_mem_block.c` | `RwBuffer`, `ChunkIO` | every operation the server uses |
| chunk server: event library | `chunkserver/spy_event.c`, `spy_event_epoll.c` | `SpyEvent`, `ChunkIO` | file events |
| chunk server: byte order, checksum | `chunkserver/spy_utils.c`, `spy_adler32.c` | `Codec` | what the server uses |
| chunk server: work queue | `chunkserver/spy_work.c` | `WorkQueue`, `WorkPool` | every operation |
| chunk server: lists | `chunkserver/spy_list.h` | `SpyList` | what the server uses |
| chunk server: report agent | `chunkserver/spy_agent.c` | `ChunkMaster` | that it reports |
| chunk master: state of the servers | `chunkmaster/api`, `chunkmaster/metadata` | `ChunkMaster` | every operation that changes a status |
| chunk master: fid allocator | `chunkmaster/api/chunkserver.go` | `FidAlloc` | every operation |
| image server: fid channel | `imageserver/chunkserver/fileid.go`, `router.go` | `FidAlloc` | every operation |
| image server: requests that change files | `imageserver/router`, `imageserver/meta` | `ImageServer` | upload, delete, move, one group |
| image server: choice of a group | `router.go`, `minheap.go` | `ChunkMaster`, `ImageServer` | which groups qualify |
| image server: group information, connection pools | `router.go`, `imageserver/chunkserver`, `imageserver/pools` | `ConnPool` | every operation that is called |
| registry driver | `docker_registry_speedy_driver` | – | not modelled |
| logging, tools | | – | not modelled |

`PROJECT.json` has the same list in detail, the lines that each definition models,
and the hazards: the places where the code is hard to test.

How the modules fit together:

- `SpyServer` extends `SpyStore` (what is on disk) and `SpyList` (the lists).
- `ChunkIO` is the same server byte by byte, with one chunk and a disk that does not
  fail. It extends `ChunkFile` (the bytes of a chunk file and the parser), which extends
  `RwBuffer` and `Codec`, and `SpyEvent`. What `SpyServer` takes for granted, that a
  request is read and answered in one step and that a start finds the records
  (`RecordStarts`), is checked here: `RequestIntact`, `ResponseIntact`, `Recovered`.
- `SpyServer` takes for granted that a queued job is executed once and that its
  callback runs once after that. This is module `WorkPool`, which `WorkQueue` is
  shown to implement.
- `SpyServer` and `ImageServer` take for granted that a fid names one content. That
  is `UploadOnce` of `FidAlloc`.
- `ImageServer` makes no assumption on what the image servers have been told of the
  group, so whatever `ChunkMaster` does is covered. A chunk server is to it a set of
  fids that does not shrink, which is `AckedDurable` of `SpyServer`.

## The models

### SpyStore and SpyServer

A chunk file is a row of *cells*. The record of file `f` takes
`FileSize[f] + FILE_META_SIZE` of them, and the k-th holds `<<f, k>>`. So one can tell a
whole record from a torn one without bytes or checksums. `sb[ch]` is the superblock on
disk, `chunk[ch]` the `spy_chunk_t` in memory.

The event loop is one thread: a handler, a done callback and the cron are one action
each, and include all they do (`spy_write_file_done` looks the fid up, updates the
index, serves a pending write or returns the chunk, and replies). A worker is split
where a crash or another thread can tell the difference: metadata, body (with the
update of the chunk in memory), superblock. Each of these writes may fail and may have
written a part. `Crash` loses the memory and keeps what was written; a start creates
the chunk files or recovers from them, and may abort on what the code asserts.

A job is named by the connection that waits for it, as `conn->error` and the buffers
are. The answer and the rest of a request are read and sent in one step.
`acked` and `sb_failed` are histories that only properties, and `Crash` for the
former, look at. A dump is a job whose worker writes the whole chunk to a socket that
`spy_dump_chunk` has made blocking, without a timeout: it ends when its client has read
everything or the connection breaks (`spy_dump_chunkfile`, `Dumping`). Of the cron the
timeouts of pending writes are modelled; the report it also fills in is read by the
agent only.

### ChunkIO

One process with two clients. A client sends its request in segments and takes the
answer in pieces; a socket holds `SNDBUF` cells before a write is cut short. Every handler
of `spy_server.c` is an operator from the process to the process afterwards
(`spy_read_handler`, `spy_write_handler`, the done callbacks), built from the operations of
`RwBuffer` (positions, bases, the list of blocks, the pool of blocks with its limit) and
of `SpyEvent` (the mask the loop believes in, the one epoll has, the events that have
fired and are handled one by one, possibly after an earlier handler has freed the
connection). Files are written, read and checksummed cell by cell through `ChunkFile`, in which
`AsInt` and `AsUint64` keep the width of the parser's integers: `fpos` is an `int`, and the
chunk has 2^31 bytes. The size of the event loop, `DEF_MAX_CLIENTS`, is one of `MAX_CLIENTS`:
with 4 both clients get a slot, with 3 the second one to connect does not, and its
descriptor is accepted, not watched and not closed.

Three things are simpler than in the code. The handlers assert that a request is long
enough for `fid` and `server_id` (`spy_server.c:539`, `543`, `751`); the clients' requests are, and
a process that aborts is a `Crash`. The sum `body_len + FILE_META_SIZE` (`spy_server.c:564`) has 32
bits in the code and wraps for a body of 4 GiB less 30 bytes or more, which the model does
not have and the default limit on memory blocks, 1 GiB, does not let in. A chunk file is
created together with its first superblock (`spy_store.c:685-694`); the crash between the two is
in `SpyServer`.

### WorkQueue

What is done under a lock is one step, every other access to shared data a step of its
own: counting `nr_works` before the lock is taken, signalling after it is released,
counting off and writing the eventfd after the work is on `finished_list`. Threads wait
on the condition variable, are woken, spuriously too, end (`spy_wq_need_shrink`) and are
created (`spy_wq_need_expand`). Time matters only for `SHRINK_PERIOD_PROTECTION` and is a
Boolean.

### FidAlloc

`allocFid` holds a lock throughout, so it is one action with the outcomes of its two
database calls: both succeed, `UpdateFid` fails with or without effect, and, if
`GetFidFails`, `GetFid` fails. The master and the image servers restart at any point and
lose their memory; the answer of the master may be lost. In an image server each
operation on the channel or on `getFidRetryCount` is a step.

### ChunkMaster

The master keeps a row per server in MySQL and a pointer to a struct per server in
`serverInfo`. The lock covers one access to the map, never the database call between
two. The model has pointers where they matter: a report handler that holds a struct
which the map has let go of has its last status (`LetGo`), and the keys registered in
one batch share one struct (`add.shared`), as `batchAddChunkserver` passes the address
of its loop variable (which Go, before 1.22, reuses). `reportChunkserverInfo` reads the
status of the old struct three times, so this is three steps. Ages are counted up to
`Timeout + 1`. At most one load and one batch registration are under way at a time; they may
overlap each other and everything else, but two loads, or two batches, do not overlap.

### ImageServer

A request is a list of SQL statements and, for an upload, the goroutines that post the
data to the servers. Any statement may fail and an image server may crash between any
two (`Abort`). The data may have been stored although the goroutine saw a failure
(`PutData`). The statements of an upload or a delete depend on the header `Registry-Version` as
in the code: only a request that says `v1` writes or removes the directory's row, and only
for a tag (`InDirectory`). `kept`, `loose` and `partial` are histories: acknowledged uploads that
no other request has touched; tags whose requests overlapped or that were uploaded without
the header; whether an upload was made while a server was out of the group.

### ConnPool

A pool is a channel of `Capacity` wrappers, with or without a connection in them, and a
set of pools has a lock. A request reads the set in use and goes on with it; `GetConn`
holds the lock while it waits for a wrapper and while it dials. The ticker computes
which servers were added and deleted (`infoDiff`), builds a new set out of the old one,
replaces it together with the group information under one lock, and then takes each
deleted pool out of the old set and closes it, for which it waits for the connections in
use. Which calls to a server fail is left open. `CheckConnPool` is as in the code: it
returns at the first ping that succeeds and does not release the connection; the
wrappers lost in this way are counted in `lost`.

## What is model-checked

Each run is an MC module with a `.cfg`; a property that TLC is to refute is checked by a
run of its own.

| run | bounds | properties |
|---|---|---|
| `server_safety` | 1 chunk, 3 connections, 2 files, duplicate writes, 2 crashes | `TypeOK`, `ChunkExclusive`, `IndexIntact`, `AckedDurable`, `RestartSucceeds`, `NoStrandedPending`, `CommittedImmutable` |
| `server_live` | 1 chunk, 3 connections, 1 file, duplicate writes, every opcode, 2 io jobs, 1 pending write, no crash | `JobHasConnection`, `Accounting`, `ChunkKept`, `Answered` |
| `chunk_io` | 2 clients, 3 requests, 3 files, 5 blocks of 4 cells, a chunk of 32 cells, an event loop for 2 clients or for 1, 1 crash | `TypeOK`, `RequestIntact`, `ResponseIntact`, `Recovered`, `BlocksAccounted`, `EventsAgree`, `NoRequestStranded` |
| `work_queue` | 2 works, 3 threads of which some end | `TypeOK`, `Counters`, `NoLostCompletion`, `NoLostWakeup`, `ImplementsPool`, `WorksComplete` |
| `fid_alloc` | 1 image server, 2 uploads and the ticker, 2 blocks of 2 ranges of 2 fids | `FidTypeOK`, `UploadOnce`, `OneRefill`, `GetFidReturns` |
| `master_status` | 1 server, 2 report handlers, 1 failed database call, 2 interventions | `TypeOK`, `ErrorStaysOut`, `StoppedDetected`, `ReportingRecovers` |
| `image_upload` | 2 servers, 2 handlers, a tag with and without the header, a blob and where it is moved, 2 uploads | `TypeOK`, `Replicated`, `AckedDownloads`, `TagListed`, `RequestAnswered` |
| `conn_pool` | 2 servers, 2 requests, 2 sets of pools, 1 connection per pool | `ConnsAccounted`, `PoolPerServer`, `NobodyWaits` |

Why the bounds are enough for the cases at issue:

- *server*: a chunk of 7 cells holds the superblock, a small and a large record, and two
  small ones (a duplicate) with room left; a chunk of 5 cells has room for one
  file, so it fills up. Three connections are two writers and a pending write, or
  two pending writes of different size behind a writer. Two crashes are one before and
  one after something was recovered. In `server_live` three connections meet two io jobs
  and one place among the pending writes, so a request may find either exhausted. With one
  chunk `ChunkExclusive` says that two connections do not write to it at a time; for
  several chunks it is proved.
- *bytes*: a read or a write request does not fit a block, so each crosses a border. The
  parser's buffer is 8, 11 or 13 cells, which puts borders inside metadata, inside bodies
  and between records. The widths are scaled together: a chunk of 32 cells meets an
  `int` of 6 bits as one of 2^31 bytes meets an `int` of 32, files 1 and 2 bring the
  offset to the largest `int`, and files 1 and 3 would fill the chunk to the last cell.
  Five blocks are not enough for both clients at once, so `REACH_MEMORY_LIMIT` happens.
- *work queue*: of three threads two may end at the same time. The pool grows
  (`spy_wq_need_expand`) only with four works on one thread, which is not among the
  instances; the proofs cover it.
- *fids*: two blocks are needed to see one end and the next begin, a capacity of 3
  makes the second range overflow the channel, a low mark of 2 lets the ticker refill a
  channel that is not empty.
- *master*: two handlers are two reports of one server that cross; `Timeout = 0` lets a
  struct time out between any two steps.
- *pools*: the answers of the master are one server; two in a group; the second server in
  another group or gone. One connection per pool makes requests wait for each other and the
  ticker for both.

`server_safety` leaves out `conn.error` with a `VIEW`, which nothing reads but the
client, and identifies connections by symmetry; it checks safety only. The `VIEW` of
`chunk_io` leaves out fields between their last read and their next write.

Fairness. In the chunk server, workers take queued jobs, the event loop runs callbacks
of finished ones, the cron runs; nothing is assumed of clients, crashes and restarts. A
dump depends on its client, so nothing is assumed of a worker that sends one, nor of any
other worker meanwhile: the queue has a bounded number of threads, and dumps can hold all
of them. `Answered` therefore says that a request is answered or a dump is under way.
In the work queue, the loop and each thread that is not waiting go on, which presumes
that the function of a work returns. In the image server, handlers go on once they have
what they wait for; nothing is assumed of the goroutines of an upload, because `GetConn` may
wait for ever (see `conn_leak`) and `PutData` reads without a deadline, and `RequestAnswered`
begins when they are through. For the fids, goroutines that have begun go on (the timer of
`GetFidWait` fires). In the
master, goroutines that have begun go on, the ticker of the monitor fires, and a running
chunk server reports again (the loop of `spy_report_routine`); this supposes that a
connection to the master returns or breaks, as the agent reads the answer without a
timeout. Each is weak fairness, which is what the schedulers of Linux and Go give. In
`ConnPool`, goroutines that wait for a lock or a channel get strong fairness: channels
serve waiting receivers first come first served, and a `sync.Mutex` does not let a waiter
starve. There, that a call over a connection returns is an assumption: the code sets no
deadline, so it depends on the chunk server answering or its connection breaking.

`chunk_io` has no fairness: `NoRequestStranded` says of the states in which nothing is
left to do that nobody waits, which is what a lost event would break. It has one exception,
which the run reaches: a client whose descriptor is past `DEF_MAX_CLIENTS`. For it
`spy_create_client_connection` (`spy_server.c:996-1001`) frees the connection and neither closes nor
watches the descriptor; its request is never answered, and the descriptor is gone until the
process ends. The property says that no other descriptor is let go of.

Deadlock is checked in every passing run but two. In `chunk_io` the number of requests is
bounded, so the system comes to rest. In `conn_pool` everyone really can wait for ever,
once `CheckConnPool` has kept connections; `NobodyWaits` says that it is the only reason.

## Where the code disagrees with itself

Four runs end in a counterexample.

- `server_duplicate`: two writes of one fid are in flight on two connections. The check
  "avoid duplicate fid" of `spy_write_file_done` comes after the worker has committed the
  record, so both are on disk, and the next start fails the assertion of
  `spy_add_file_index`. The fid allocator makes this a rare case: it takes a client
  that sends a write again on another connection.
- `fid_readerror`: `allocFid` assigns `fid.Begin` before it looks at the error of
  `GetFid`. With `Begin = 0` and `End` that of the last block, fids from 0 on are handed
  out again. Chunk servers refuse those they have, so uploads fail, and succeed
  under a fid of another file where the group does not have it.
- `master_transfer`: a report has no global status, so the first report after a load
  resets it, and a group that is being transferred is chosen for uploads.

- `conn_leak`: "For every successful Get, a corresponding Put is required"
  (`imageserver/pools/resource_pool.go:127`), but `CheckConnPool` does not release the connection
  whose ping succeeds. It is called after a read from a server met the end of the stream,
  as when the server was restarted. Each call takes a connection out of the pool. When
  the last is gone, `GetConn` waits for ever with the lock of all pools, and so do the
  requests to all servers. And when such a server leaves its group, the ticker waits for
  ever in `RemoveAndClosePool`, so that the image server learns nothing of the groups any
  more. `Starved` names both cases; `ConnsAccounted` and `NobodyWaits` of `conn_pool` say what
  holds apart from this.

Some properties of the passing runs name a case in which the code does not do what one
would expect, and say that there is no other:

- `ChunkKept`: `spy_handle_write` moves the chunk to `writing_chunks` and then finds no io job; or
  `spy_write_file_done` finds that the fid is there already. Neither returns the chunk, which
  takes no write until the server is restarted.
- `AckedDurable`, `RestartSucceeds`: a superblock write fails, and the write is acknowledged all
  the same.
- `NoRequestStranded`: the descriptor past `DEF_MAX_CLIENTS`, see above.
- `Answered`: a client that asks for a dump and does not read it.
- `TagListed`: requests for one tag overlap, or a tag is uploaded without `Registry-Version: v1`.
  The latter writes no directory row. `router_test.go:12-34` uploads the tag
  `repositories/username/ubuntu/tag_v2` in this way, and `router_test.go:87-102` then lists its
  directory; the driver sends the header with every upload and delete
  (`speedy_pyclient.py:173`, `203`).

## What is proved

The proofs are checked by TLAPS, for all values of the constants that meet the named
assumptions (`StoreAssumption`, `ServerAssumption`, `FidAssumption`, `WorkQueueAssumption`,
`ImageAssumption`, `ConnPoolAssumption`, `MasterAssumption`, `NilAssumption`): any number
of connections, chunks, files, threads, servers, requests and crashes, any sizes, any
limits.

| theorem | says |
|---|---|
| `TypeCorrect` (`SpyServerProofs`) | `Spec => []TypeOK`: offsets and free space stay within the chunk although they are added and subtracted unchecked |
| `ChunksExclusive` | `Spec => []ChunkExclusive` |
| `IndexAlwaysIntact` | `Spec => []IndexIntact` |
| `AckedSurvive` | `Spec => []AckedDurable` |
| `JobsHaveConnections` | `Spec => []JobHasConnection` |
| `NoWriteStranded` | `Spec => []NoStrandedPending` |
| `CommittedNeverChanges` | `Spec => CommittedImmutable` |
| `RestartsSucceed` | `Spec => []RestartSucceeds` |
| `CountersAgree` | if there are finitely many connections, `Spec => []Accounting` |
| `ChunksKept` | `Spec => ChunkKept`: a chunk is left without a writer only where the io jobs are out or a fid is written twice |
| `QueueTypes`, `CountersRight` | the work queue: `Spec => []TypeOK`, `Spec => []Counters` |
| `NoCompletionLost`, `NoWakeupLost` | `Spec => []NoLostCompletion`, `Spec => []NoLostWakeup` |
| `QueueImplementsPool` | `Spec => ImplementsPool`: the work queue implements `WorkPool` |
| `FidsUsedOnce`, `FidTypes` | if reads of `gen_fid` do not fail, `FidSpec => []UploadOnce`, `FidSpec => []FidTypeOK` |
| `OneUploadRefills` | `FidSpec => []OneRefill` |
| `TypeCorrect`, `MapBacked` (`MasterProofs`) | the map of the master: `Spec => []TypeOK`; a server in the map has a row |
| `ErrorStaysOutAlways` | `Spec => ErrorStaysOut` |
| `UploadTypes`, `RowsReplicated` | the image server: `Spec => []TypeOK`, `Spec => []Replicated` |
| `AckedFound`, `TagsListed` | `Spec => []AckedDownloads`, `Spec => []TagListed` |
| `ConnsAccountedAlways`, `PoolPerServerAlways` | the connection pools: `Spec => []ConnsAccounted`, `Spec => []PoolPerServer` |
| `NeverPanics` | `Put` finds its pool open and its channel with room, so it never panics |

**The chunk server.** None of the properties is inductive. The invariant `IInv`
(`SpyServerFacts`) says why they hold:

- `Lists`, `Owners`: a chunk is on one list once, and each write in progress owns a
  chunk of `writing_chunks`;
- `JobHasConnection`, `Idle`: which connection waits for which job, and that there is
  none while the process is not up;
- `Layout`: what is below the `current_offset` of the superblock, and below that of the
  chunk in memory, is whole records laid end to end; the superblock is never ahead, and
  offset and free space add up to the size of the chunk;
- `Placement`: a write that has not changed the chunk goes to its `current_offset`,
  where there is room for it; one that has is the last record. This needs `Owners`: no one
  else moves the offset in between;
- `IndexPlaced`, `Promised`: the index points at whole records below the offset, and at
  committed ones unless the superblock write failed; what was acknowledged is in the
  index or, when there is none, committed.

Three further invariants stand on `IInv`. `SuperblocksKnown`: a superblock that does not
parse is one whose write failed; with it a restart fails for no third reason.
`JobBooks` and `ConnBooks`: the free io jobs, those at work and those pending are all
there are, and the gauges count the jobs and the connections; each handler's increments
and decrements are matched with the jobs it starts and ends. `ChunkKept` is an action property
and needs `IInv` before the step: a write that is pending has no chunk (`JobHasConnection`), so
timeouts and kills take none; a write under way keeps its chunk until its callback, which
hands the chunk to a pending write or puts it back on the list.

The step is proved by kinds of action: types (`SpyServerFacts`), event loop, and that it
leaves the disk alone (`SpyServerLoop`), workers, crashes and starts with the theorems on
safety (`SpyServerProofs`), counters
(`SpyServerCounters`). The first lemmas of `SpyServerFacts` say what deleting from, adding
to and searching a list does. `SpyList` defines these itself and does not take them from `SequencesExt`: that
module brings in `Bags`, with which each obligation takes several times as long. For the same
reason the few facts on sequences that the proofs need are lemmas of the proof modules, and
not taken from `SequenceTheorems`.

**The work queue.** The invariant of `WorkQueueProofs` has, beside the properties, that
a thread that runs has a work (`Held`), and why no wakeup is lost (`Signalled`): while a
thread waits, each pending work has a thread that was woken for it, or its signal is still
to come. For the refinement, `Once` says that a work is in
one place, on `pending_list`, with one thread, on `finished_list` or with the loop that
splices it, and there once; `WorkPool`'s state is read off that place, and every step
moves one work along it or none.

**The fids.** The invariant `FInv` (`MasterProofs`) says that a fid is in one place: not
handed out, in one channel, in a range that one goroutine merges, or used; and that what
is left of a block is a whole number of ranges, without which `allocFid` would run past
its end. `OneRefill` has an invariant of its own, `LInv`: `getFidRetryCount` is 1 exactly
while an upload is between its `CompareAndSwap` and the reset, and that upload is the only one.

**The map of the master.** `MInv` (`MasterProofs`) is the types with what the code relies
on between two steps of a call: a report that holds a struct of the map finds its server
there (`Reports`), what the map holds, a load has read or a registration is about to put
there has a row (`Rows`, `Batch`), and keys that share a struct lead to one that is not
`RW` (`Batch`). There are two ways in which a server in error does come back, and `Out`
excludes both: `LoadChunkserverInfo` has read the rows before the server was marked, and
replaces the map with what it has read; and `addChunkserver` has inserted the row, stands
before its access to the map, and puts the struct there whatever has become of the row
meanwhile. Once neither is under way, no report, monitor, load, registration, failure or
restart brings the server back.

**The image server.** The invariant of `ImageServerProofs` has three parts beside the
types. `DataPlaced`: the servers that hold the data of an upload and those whose goroutine
still runs are, together, the group it chose, unless a result was a failure; so when all
results are there the data are where the row says. `Apart` says what the histories mean: a
request that is `alone` has nobody at its paths, and a tag that two requests are at, or an
upload without the header, is `loose`.
`RowsRight` says what the statements executed so far have left: no row of the path after
`delList`, the directory's row after `pushDirectory`. That another request cannot undo this
is `Apart`, and that a request cut short leaves a readable tag listed is the order of the
statements, of which `Todo` has every rest.

**The connection pools.** The invariant is `CInv` (`ConnPoolProofs`). `ConnsAccounted` counts
the wrappers of each pool: those in the channel, those that requests hold, those that
`Close` has taken and those that `CheckConnPool` has kept are `Capacity` together. Each
step of a request moves one wrapper or none (`Accounted`). With `ClosedDrained`, that a
pool is closed only when `Close` has taken all wrappers, nobody is left with a wrapper of a
closed pool and a channel has room for what is put back, which is `NeverPanics`.
`PoolPerServer` needs `Served`, that each server of the groups in use has a pool in the set
in use, `InUse`, that those pools are open, of one server each, and none that the ticker
closes or has yet to close, and `Closing`, that the ticker works on the set before. A pool
is moved from the old set to the new one with its number, so `PoolsMade` (no number is
beyond the pools there are) is what makes a new pool differ from all old ones. Counting the
holders of wrappers supposes finitely many requests, as `ConnPoolAssumption` says.

Only model-checked: liveness (`Answered`, `WorksComplete`, `GetFidReturns`,
`StoppedDetected`, `ReportingRecovers`, `RequestAnswered`, `NobodyWaits`), which is out of
the prover's reach; and the properties of `ChunkIO`, which are about what folds over bytes
compute (buffers, checksums, the parser), for which induction over data would be needed.

## What is not modelled

- Loss of power, and with it `--sync`: a crash is that of the process.
- In `ChunkIO`, failures of the disk, several chunks and pending writes: these are in
  `SpyServer`.
- Time events and resizing of the event library; variable-length integers, atomics and
  daemonizing of the utilities.
- The heap that ranks the groups (`minheap.go`). Which of the groups that qualify is
  chosen matters to the balance of the load only.
- The text of reports and of the answers of the master, and the timeouts of sockets.
- Fragment ranges, directory listings and everything that only reads.
- The registry driver, the tools, logging.

## Plan

Done: chunk server with its store, buffers, events and work queue, fids, status of the
servers, uploads, connection pools; the proofs listed above. Next, in this order:

1. `ChunkMaster` with two servers that share a struct after a batch.
2. `FileStore`, an abstract specification (a map of fids to contents with acknowledged
   writes and crashes) that `SpyServer` implements; by TLC, then by proof.
3. `MinHeap` and the choice of a group against a reference definition; fragments and
   listings of the metadata; the upload and download contexts of the registry driver
   with `_check_fragments`.
