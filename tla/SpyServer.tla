------------------------------ MODULE SpyServer -----------------------------
(***************************************************************************)
(* The chunk server (chunkserver/spy_server.c): one event-loop thread that *)
(* runs the handlers, the "done" callbacks and the cron, worker threads    *)
(* that do the disk I/O, crashes of the process and restarts.              *)
(*                                                                         *)
(* A handler, a callback and the cron each run to completion on the event  *)
(* loop, so each is one action.  A worker runs beside them: what it does   *)
(* is split where a crash or another thread can tell the difference.  The  *)
(* work queue hands a queued job to some worker and its callback to the    *)
(* event loop in no fixed order; module WorkQueue is about that part.      *)
(***************************************************************************)
EXTENDS SpyStore, SpyList

CONSTANTS
  Conns,                  \* client connections
  NoFid,                  \* the fid of a job that has none
  MAX_IO_JOBS,            \* DEF_MAX_IO_JOBS
  MAX_PENDING_WRITES,     \* DEF_MAX_PENDING_WRITES
  PENDING_WRITE_TIMEOUT,  \* DEF_PENDING_WRITE_TIMEOUT, in runs of the cron
  Opcodes,                \* the requests clients send
  DuplicateFids,          \* may a fid be written on two connections at once?
  MaxCrashes              \* bound on the crashes of the process

ASSUME ServerAssumption ==
  /\ NoFid \notin Fids
  /\ MAX_IO_JOBS \in Nat
  /\ MAX_PENDING_WRITES \in Nat
  /\ PENDING_WRITE_TIMEOUT \in Nat
  /\ DuplicateFids \in BOOLEAN
  /\ MaxCrashes \in Nat

VARIABLES
  mode,                 \* what the process is doing
  conn,                 \* conn[c]: the spy_connection_t
  job,                  \* job[c]: the spy_io_job_t or spy_dump_job_t c waits for
  chunks,               \* server.chunks, the allocation list
  writing_chunks,       \* server.writing_chunks
  pending_writes,       \* server.pending_writes, each job named by its connection
  pending_writes_size,  \* server.pending_writes_size
  free_io_jobs,         \* length of server.free_io_jobs
  index,                \* server.file_index
  statistic,            \* the gauges of the global statistic
  acked,                \* history: the files whose write was answered SUCCESS
  sb_failed,            \* history: chunks whose last superblock write did not succeed
  crashes               \* number of crashes so far

loopVars == <<conn, job, chunks, writing_chunks, pending_writes,
              pending_writes_size, free_io_jobs, index, statistic>>
vars == <<storeVars, mode, loopVars, acked, sb_failed, crashes>>

-----------------------------------------------------------------------------
(* Values.                                                                 *)

Errors == {"SUCCESS", "SERVER_ID_MISMATCH", "CHUNK_UNAVAILABLE",
           "FILE_NOT_FOUND", "FILE_EXISTS", "WRITE_ERROR", "READ_ERROR",
           "INTERNAL_ERROR", "IO_JOB_UNAVAILABLE", "REACH_MEMORY_LIMIT",
           "KILLED", "CHUNK_CHECK_ERROR"}

\* readable: the event loop watches the socket for AE_READABLE.  AE_WRITABLE
\* is watched in state SEND_RSP and in no other.
Connection == [state    : {"CLOSED", "RECEIVE_HDR", "PROCESS_REQUEST", "SEND_RSP"},
               readable : BOOLEAN,
               error    : Errors]

Closed == [state |-> "CLOSED", readable |-> FALSE, error |-> "SUCCESS"]
Receiving == [state |-> "RECEIVE_HDR", readable |-> TRUE, error |-> "SUCCESS"]

\* phase: "pending" in pending_writes; "queued" on the work queue; "meta" and
\* "body" when the worker has written that much; "done" on finished_list.
Job == [kind    : {"none", "write", "read", "check", "dump"},
        fid     : Fids \cup {NoFid},
        chunk   : 0..NChunks,
        offset  : 0..CHUNK_SIZE,
        phase   : {"none", "pending", "queued", "meta", "body", "done"},
        retcode : {0, -1},
        age     : Nat]

JobOf(kind, f, ch, off, phase) ==
  [kind |-> kind, fid |-> f, chunk |-> ch, offset |-> off, phase |-> phase,
   retcode |-> 0, age |-> 0]

NoJob == JobOf("none", NoFid, 0, 0, "none")
WriteJob(f, ch, off) == JobOf("write", f, ch, off, "queued")
PendingJob(f) == JobOf("write", f, 0, 0, "pending")
OtherJob(kind, ch) == JobOf(kind, NoFid, ch, 0, "queued")

\* An entry of file_index; its size is RecordSize(f).
Entry == [chunk : 0..NChunks, offset : 0..CHUNK_SIZE]
NoEntry == [chunk |-> 0, offset |-> 0]

Indexed == {f \in Fids : index[f] # NoEntry}

NoStatistic == [conn_count |-> 0, reading_count |-> 0, writing_count |-> 0]

ReadJob(f) == JobOf("read", f, index[f].chunk, index[f].offset, "queued")

-----------------------------------------------------------------------------
(* Connections.                                                            *)

\* spy_accept_handler, spy_create_client_connection.
spy_accept_handler(c) ==
  /\ mode = "up"
  /\ conn[c].state = "CLOSED"
  /\ conn' = [conn EXCEPT ![c] = Receiving]
  /\ statistic' = [statistic EXCEPT !.conn_count = @ + 1]
  /\ UNCHANGED <<storeVars, mode, job, chunks, writing_chunks, pending_writes,
                 pending_writes_size, free_io_jobs, index, acked, sb_failed, crashes>>

\* spy_free_client_connection.
spy_free_client_connection(c) ==
  /\ conn' = [conn EXCEPT ![c] = Closed]
  /\ statistic' = [statistic EXCEPT !.conn_count = @ - 1]

\* spy_read_handler when the read fails or meets the end of the stream, when no
\* memory block is left for the request, or when the opcode is unknown.
spy_read_handler_closes(c) ==
  /\ mode = "up"
  /\ conn[c].readable
  /\ spy_free_client_connection(c)
  /\ UNCHANGED <<storeVars, mode, job, chunks, writing_chunks, pending_writes,
                 pending_writes_size, free_io_jobs, index, acked, sb_failed, crashes>>

\* spy_write_handler: the whole response is sent, and the connection waits for
\* the next request (spy_reset_client_connection), or the write fails.
spy_write_handler(c) ==
  /\ mode = "up"
  /\ conn[c].state = "SEND_RSP"
  /\ \/ /\ conn' = [conn EXCEPT ![c] = Receiving]
        /\ UNCHANGED statistic
     \/ spy_free_client_connection(c)
  /\ UNCHANGED <<storeVars, mode, job, chunks, writing_chunks, pending_writes,
                 pending_writes_size, free_io_jobs, index, acked, sb_failed, crashes>>

-----------------------------------------------------------------------------
(* Requests.  spy_process_receive_buffer dispatches a complete request to  *)
(* its handler; the handler replies at once, or leaves the connection in   *)
(* PROCESS_REQUEST, not watched, with a job that will reply.               *)

Requested(c, opcode) ==
  /\ mode = "up"
  /\ opcode \in Opcodes
  /\ conn[c].state = "RECEIVE_HDR"

\* spy_reply_header with conn->state = SEND_RSP.
Reply(c, error) == [conn EXCEPT ![c] = [@ EXCEPT !.state = "SEND_RSP", !.error = error]]

\* Mutant of Await: the socket is still watched while the job runs.
Await_StaysReadable(c) == [conn EXCEPT ![c] = [@ EXCEPT !.state = "PROCESS_REQUEST"]]

\* spy_remove_file_event(AE_READABLE) and a job given to the connection.
Await(c) == [conn EXCEPT ![c] = [@ EXCEPT !.state = "PROCESS_REQUEST", !.readable = FALSE]]

\* A reply that changes nothing but the connection.
ErrorReply(c, error) ==
  /\ conn' = Reply(c, error)
  /\ UNCHANGED <<job, chunks, writing_chunks, pending_writes,
                 pending_writes_size, free_io_jobs, index, statistic>>

\* The first chunk of server.chunks with room for f, as a position in the list.
ChunkFor(f) == list_find({i \in 1..Len(chunks) : Fits(chunks[i], f)})

\* Mutant of TakeChunk: the chunk stays on the allocation list.
TakeChunk_Keep(i) ==
  /\ writing_chunks' = writing_chunks \cup {chunks[i]}
  /\ UNCHANGED chunks

\* The chunk at position i is taken off the allocation list.
TakeChunk(i) ==
  /\ chunks' = list_del(chunks, i)
  /\ writing_chunks' = writing_chunks \cup {chunks[i]}

\* A chunk has room: the write is queued on it.  The chunk is taken before the
\* io job is asked for.
WriteToChunk(c, f, i) ==
  /\ TakeChunk(i)
  /\ \/ /\ free_io_jobs = 0
        /\ conn' = Reply(c, "IO_JOB_UNAVAILABLE")
        /\ UNCHANGED <<job, free_io_jobs, statistic>>
     \/ /\ free_io_jobs > 0
        /\ free_io_jobs' = free_io_jobs - 1
        /\ conn' = Await(c)
        /\ job' = [job EXCEPT ![c] =
                     WriteJob(f, chunks[i], chunk[chunks[i]].current_offset)]
        /\ statistic' = [statistic EXCEPT !.writing_count = @ + 1]
  /\ UNCHANGED <<pending_writes, pending_writes_size, index>>

\* Mutant of WriteLater: one more write than MAX_PENDING_WRITES may wait.
WriteLater_OffByOne(c, f) ==
  \/ /\ pending_writes_size > MAX_PENDING_WRITES
     /\ ErrorReply(c, "CHUNK_UNAVAILABLE")
  \/ /\ pending_writes_size <= MAX_PENDING_WRITES
     /\ free_io_jobs > 0
     /\ free_io_jobs' = free_io_jobs - 1
     /\ conn' = Await(c)
     /\ job' = [job EXCEPT ![c] = PendingJob(f)]
     /\ pending_writes' = Append(pending_writes, c)
     /\ pending_writes_size' = pending_writes_size + 1
     /\ UNCHANGED <<chunks, writing_chunks, index, statistic>>

\* No chunk has room: the write waits in pending_writes for one to come back.
WriteLater(c, f) ==
  \/ /\ pending_writes_size >= MAX_PENDING_WRITES
     /\ ErrorReply(c, "CHUNK_UNAVAILABLE")
  \/ /\ pending_writes_size < MAX_PENDING_WRITES
     /\ free_io_jobs = 0
     /\ ErrorReply(c, "IO_JOB_UNAVAILABLE")
  \/ /\ pending_writes_size < MAX_PENDING_WRITES
     /\ free_io_jobs > 0
     /\ free_io_jobs' = free_io_jobs - 1
     /\ conn' = Await(c)
     /\ job' = [job EXCEPT ![c] = PendingJob(f)]
     /\ pending_writes' = Append(pending_writes, c)
     /\ pending_writes_size' = pending_writes_size + 1
     /\ UNCHANGED <<chunks, writing_chunks, index, statistic>>

\* spy_handle_write.  The first conjunct after Requested is about the clients,
\* not the server: with DuplicateFids = FALSE no fid is in flight twice.
spy_handle_write(c, f) ==
  /\ Requested(c, "WRITE")
  /\ DuplicateFids \/ \A d \in Conns : job[d].kind = "write" => job[d].fid # f
  /\ \/ ErrorReply(c, "SERVER_ID_MISMATCH")
     \/ f \in Indexed /\ ErrorReply(c, "FILE_EXISTS")
     \/ /\ f \notin Indexed
        /\ IF ChunkFor(f) # 0 THEN WriteToChunk(c, f, ChunkFor(f))
                              ELSE WriteLater(c, f)
  /\ UNCHANGED <<storeVars, mode, acked, sb_failed, crashes>>

\* spy_handle_read.
spy_handle_read(c, f) ==
  /\ Requested(c, "READ")
  /\ \/ ErrorReply(c, "SERVER_ID_MISMATCH")
     \/ f \notin Indexed /\ ErrorReply(c, "FILE_NOT_FOUND")
     \/ f \in Indexed /\ ErrorReply(c, "REACH_MEMORY_LIMIT")
     \/ f \in Indexed /\ free_io_jobs = 0 /\ ErrorReply(c, "IO_JOB_UNAVAILABLE")
     \/ /\ f \in Indexed
        /\ free_io_jobs > 0
        /\ free_io_jobs' = free_io_jobs - 1
        /\ conn' = Await(c)
        /\ job' = [job EXCEPT ![c] = ReadJob(f)]
        /\ statistic' = [statistic EXCEPT !.reading_count = @ + 1]
        /\ UNCHANGED <<chunks, writing_chunks, pending_writes,
                       pending_writes_size, index>>
  /\ UNCHANGED <<storeVars, mode, acked, sb_failed, crashes>>

\* spy_handle_check_disk: the chunk is drawn from the ones there are.
spy_handle_check_disk(c) ==
  /\ Requested(c, "CHECK_DISK")
  /\ \/ free_io_jobs = 0 /\ ErrorReply(c, "IO_JOB_UNAVAILABLE")
     \/ /\ free_io_jobs > 0
        /\ free_io_jobs' = free_io_jobs - 1
        /\ conn' = Await(c)
        /\ \E ch \in files : job' = [job EXCEPT ![c] = OtherJob("check", ch)]
        /\ UNCHANGED <<chunks, writing_chunks, pending_writes,
                       pending_writes_size, index, statistic>>
  /\ UNCHANGED <<storeVars, mode, acked, sb_failed, crashes>>

\* spy_dump_chunk: only a chunk of the allocation list can be dumped; the dump
\* job is not one of the io jobs, and the chunk stays where it is.
spy_dump_chunk(c, ch) ==
  /\ Requested(c, "DUMP_CHUNK")
  /\ \/ ErrorReply(c, "INTERNAL_ERROR")
     \/ ch \notin Range(chunks) /\ ErrorReply(c, "FILE_NOT_FOUND")
     \/ /\ ch \in Range(chunks)
        /\ conn' = Await(c)
        /\ job' = [job EXCEPT ![c] = OtherJob("dump", ch)]
        /\ UNCHANGED <<chunks, writing_chunks, pending_writes,
                       pending_writes_size, free_io_jobs, index, statistic>>
  /\ UNCHANGED <<storeVars, mode, acked, sb_failed, crashes>>

\* spy_handle_ping.
spy_handle_ping(c) ==
  /\ Requested(c, "PING")
  /\ conn' = [conn EXCEPT ![c] = [state |-> "SEND_RSP", readable |-> FALSE,
                                  error |-> "SUCCESS"]]
  /\ UNCHANGED <<storeVars, mode, job, chunks, writing_chunks, pending_writes,
                 pending_writes_size, free_io_jobs, index, statistic, acked,
                 sb_failed, crashes>>

\* spy_query_io_status, spy_query_detail_infos.
spy_query_infos(c) ==
  /\ Requested(c, "QUERY")
  /\ \E error \in {"SUCCESS", "REACH_MEMORY_LIMIT"} : ErrorReply(c, error)
  /\ UNCHANGED <<storeVars, mode, acked, sb_failed, crashes>>

\* The first n pending writes.
Oldest(n) == {pending_writes[i] : i \in 1..n}

\* Mutant of Abandon: the io jobs are not freed.
Abandon_NoFree(n, cs, error) ==
  /\ conn' = [d \in Conns |->
                IF d \in Oldest(n) THEN [cs[d] EXCEPT !.state = "SEND_RSP", !.error = error]
                                   ELSE cs[d]]
  /\ pending_writes' = SubSeq(pending_writes, n + 1, Len(pending_writes))
  /\ pending_writes_size' = pending_writes_size - n
  /\ UNCHANGED free_io_jobs

\* The first n pending writes are taken off the list, their connections answered
\* with error and their io jobs freed; cs is conn but for what the handler has
\* already changed.
Abandon(n, cs, error) ==
  /\ conn' = [d \in Conns |->
                IF d \in Oldest(n) THEN [cs[d] EXCEPT !.state = "SEND_RSP", !.error = error]
                                   ELSE cs[d]]
  /\ pending_writes' = SubSeq(pending_writes, n + 1, Len(pending_writes))
  /\ pending_writes_size' = pending_writes_size - n
  /\ free_io_jobs' = free_io_jobs + n

\* spy_kill_pending_writes.
spy_kill_pending_writes(c) ==
  /\ Requested(c, "KILL_PD_WR")
  /\ Abandon(Len(pending_writes), Reply(c, "SUCCESS"), "KILLED")
  /\ job' = [d \in Conns |-> IF d \in Oldest(Len(pending_writes)) THEN NoJob ELSE job[d]]
  /\ UNCHANGED <<storeVars, mode, chunks, writing_chunks, index, statistic,
                 acked, sb_failed, crashes>>

-----------------------------------------------------------------------------
(* The worker threads.                                                     *)

Working(c, kind, phase) ==
  /\ mode = "up"
  /\ job[c].kind = kind
  /\ job[c].phase = phase

\* The worker is through with its job.
Finish(c, ret) == [job EXCEPT ![c] = [@ EXCEPT !.phase = "done", !.retcode = ret]]

\* A worker step changes its own job and what it writes.
WorkerFrame == UNCHANGED <<files, mode, conn, chunks, writing_chunks,
                           pending_writes, pending_writes_size, free_io_jobs,
                           index, statistic, acked, crashes>>

\* spy_write_file, "write header": a failed pwrite leaves some of it written.
spy_write_file_meta(c) ==
  /\ Working(c, "write", "queued")
  /\ \/ /\ Pwrite(job[c].chunk, job[c].offset, job[c].fid, 0, FILE_META_SIZE)
        /\ job' = [job EXCEPT ![c].phase = "meta"]
     \/ /\ \E n \in 0..(FILE_META_SIZE - 1) :
             Pwrite(job[c].chunk, job[c].offset, job[c].fid, 0, n)
        /\ job' = Finish(c, -1)
  /\ UNCHANGED <<sb, chunk, sb_failed>>
  /\ WorkerFrame

\* Mutant of spy_write_file_body: the superblock is written before the body.
spy_write_file_body_SuperblockFirst(c) ==
  /\ Working(c, "write", "meta")
  /\ chunk' = [chunk EXCEPT ![job[c].chunk] = Advanced(job[c].chunk, job[c].fid)]
  /\ sb' = [sb EXCEPT ![job[c].chunk] = Advanced(job[c].chunk, job[c].fid)]
  /\ job' = [job EXCEPT ![c].phase = "body"]
  /\ UNCHANGED <<cells, sb_failed>>
  /\ WorkerFrame

\* spy_write_file, "write body", and the update of the chunk in memory.
spy_write_file_body(c) ==
  /\ Working(c, "write", "meta")
  /\ LET ch == job[c].chunk
         f  == job[c].fid
     IN \/ /\ Pwrite(ch, job[c].offset, f, FILE_META_SIZE, RecordSize(f))
           /\ chunk' = [chunk EXCEPT ![ch] = Advanced(ch, f)]
           /\ job' = [job EXCEPT ![c].phase = "body"]
        \/ /\ \E n \in FILE_META_SIZE..(RecordSize(f) - 1) :
                Pwrite(ch, job[c].offset, f, FILE_META_SIZE, n)
           /\ job' = Finish(c, -1)
           /\ UNCHANGED chunk
  /\ UNCHANGED <<sb, sb_failed>>
  /\ WorkerFrame

\* spy_write_file, spy_write_chunk_superblock: when it fails the superblock is
\* the old one or is torn, and the write of the file succeeds all the same.
spy_write_file_superblock(c) ==
  /\ Working(c, "write", "body")
  /\ LET ch == job[c].chunk
     IN \/ /\ sb' = [sb EXCEPT ![ch] = chunk[ch]]
           /\ sb_failed' = sb_failed \ {ch}
        \/ /\ \E s \in {sb[ch], NoSuperblock} : sb' = [sb EXCEPT ![ch] = s]
           /\ sb_failed' = sb_failed \cup {ch}
  /\ job' = [job EXCEPT ![c].phase = "done"]
  /\ UNCHANGED <<cells, chunk>>
  /\ WorkerFrame

\* spy_read_file: retcode is 0 when the record read back is the one that was
\* asked for, unless the read itself fails.
spy_read_file(c) ==
  /\ Working(c, "read", "queued")
  /\ \E ret \in {-1, IF Intact(job[c].chunk, job[c].offset, job[c].fid) THEN 0 ELSE -1} :
       job' = Finish(c, ret)
  /\ UNCHANGED <<sb, cells, chunk, sb_failed>>
  /\ WorkerFrame

\* spy_check_chunk reads a block.
spy_check_chunk(c) ==
  /\ Working(c, "check", "queued")
  /\ \E ret \in {0, -1} : job' = Finish(c, ret)
  /\ UNCHANGED <<sb, cells, chunk, sb_failed>>
  /\ WorkerFrame

\* spy_dump_chunkfile sends the whole file.  spy_dump_chunk has made the socket blocking
\* and no timeout is set: the worker returns when the client has taken all of it, or
\* when a write fails.
spy_dump_chunkfile(c) ==
  /\ Working(c, "dump", "queued")
  /\ \E ret \in {0, -1} : job' = Finish(c, ret)
  /\ UNCHANGED <<sb, cells, chunk, sb_failed>>
  /\ WorkerFrame

-----------------------------------------------------------------------------
(* The done callbacks, run by spy_wq_thread_done on the event loop.        *)

\* Mutant of PendingFor: only the write at the head of the list is considered.
PendingFor_OnlyHead(ch) ==
  IF pending_writes # <<>> /\ Fits(ch, job[Head(pending_writes)].fid) THEN 1 ELSE 0

\* The first pending write that a chunk has room for.
PendingFor(ch) ==
  list_find({i \in 1..Len(pending_writes) : Fits(ch, job[pending_writes[i]].fid)})

\* Mutant of ServePending: the chunk is returned to the allocation list as well.
ServePending_AlsoReturns(c, ch, i) ==
  LET d == pending_writes[i]
  IN /\ job' = [job EXCEPT ![c] = NoJob,
                           ![d] = WriteJob(job[d].fid, ch, chunk[ch].current_offset)]
     /\ pending_writes' = list_del(pending_writes, i)
     /\ pending_writes_size' = pending_writes_size - 1
     /\ chunks' = Append(chunks, ch)
     /\ UNCHANGED <<writing_chunks, statistic>>

\* Mutant of ServePending: the write is taken off the list and never queued.
ServePending_NotQueued(c, ch, i) ==
  LET d == pending_writes[i]
  IN /\ job' = [job EXCEPT ![c] = NoJob,
                           ![d] = [WriteJob(job[d].fid, ch, chunk[ch].current_offset)
                                     EXCEPT !.phase = "none"]]
     /\ pending_writes' = list_del(pending_writes, i)
     /\ pending_writes_size' = pending_writes_size - 1
     /\ UNCHANGED <<chunks, writing_chunks, statistic>>

\* The chunk goes to the first pending write it has room for.
ServePending(c, ch, i) ==
  LET d == pending_writes[i]
  IN /\ job' = [job EXCEPT ![c] = NoJob,
                           ![d] = WriteJob(job[d].fid, ch, chunk[ch].current_offset)]
     /\ pending_writes' = list_del(pending_writes, i)
     /\ pending_writes_size' = pending_writes_size - 1
     /\ UNCHANGED <<chunks, writing_chunks, statistic>>

\* No pending write has use for the chunk: it returns to the allocation list.
ReturnChunk(c, ch) ==
  /\ job' = [job EXCEPT ![c] = NoJob]
  /\ chunks' = Append(chunks, ch)
  /\ writing_chunks' = writing_chunks \ {ch}
  /\ statistic' = [statistic EXCEPT !.writing_count = @ - 1]
  /\ UNCHANGED <<pending_writes, pending_writes_size>>

\* A second write of a fid finished after the first: the chunk is neither given
\* to a pending write nor returned.
DuplicateDone(c) ==
  /\ conn' = Reply(c, "INTERNAL_ERROR")
  /\ job' = [job EXCEPT ![c] = NoJob]
  /\ statistic' = [statistic EXCEPT !.writing_count = @ - 1]
  /\ UNCHANGED <<chunks, writing_chunks, pending_writes, pending_writes_size,
                 index, acked>>

\* Mutant of Answer: the retcode of the worker is not looked at.
Answer_IgnoresRetcode(c, f) ==
  /\ conn' = Reply(c, "SUCCESS")
  /\ index' = [index EXCEPT ![f] = [chunk |-> job[c].chunk, offset |-> job[c].offset]]
  /\ acked' = acked \cup {f}

\* The file is entered in the index and the client told, or told of the error.
Answer(c, f) ==
  \/ /\ job[c].retcode # 0
     /\ conn' = Reply(c, "WRITE_ERROR")
     /\ UNCHANGED <<index, acked>>
  \/ /\ job[c].retcode = 0
     /\ conn' = Reply(c, "SUCCESS")
     /\ index' = [index EXCEPT ![f] = [chunk |-> job[c].chunk, offset |-> job[c].offset]]
     /\ acked' = acked \cup {f}

\* Mutant of spy_write_file_done: a failed write is answered before the chunk is
\* passed on.
spy_write_file_done_EarlyError(c) ==
  /\ Working(c, "write", "done")
  /\ LET f  == job[c].fid
         ch == job[c].chunk
     IN \/ (f \in Indexed \/ job[c].retcode # 0) /\ DuplicateDone(c)
        \/ /\ f \notin Indexed
           /\ job[c].retcode = 0
           /\ IF PendingFor(ch) # 0 THEN ServePending(c, ch, PendingFor(ch))
                                    ELSE ReturnChunk(c, ch)
           /\ Answer(c, f)
  /\ free_io_jobs' = free_io_jobs + 1
  /\ UNCHANGED <<storeVars, mode, sb_failed, crashes>>

\* spy_write_file_done.
spy_write_file_done(c) ==
  /\ Working(c, "write", "done")
  /\ LET f  == job[c].fid
         ch == job[c].chunk
     IN \/ f \in Indexed /\ DuplicateDone(c)
        \/ /\ f \notin Indexed
           /\ IF PendingFor(ch) # 0 THEN ServePending(c, ch, PendingFor(ch))
                                    ELSE ReturnChunk(c, ch)
           /\ Answer(c, f)
  /\ free_io_jobs' = free_io_jobs + 1
  /\ UNCHANGED <<storeVars, mode, sb_failed, crashes>>

\* spy_read_file_done.
spy_read_file_done(c) ==
  /\ Working(c, "read", "done")
  /\ conn' = Reply(c, IF job[c].retcode # 0 THEN "READ_ERROR" ELSE "SUCCESS")
  /\ job' = [job EXCEPT ![c] = NoJob]
  /\ free_io_jobs' = free_io_jobs + 1
  /\ statistic' = [statistic EXCEPT !.reading_count = @ - 1]
  /\ UNCHANGED <<storeVars, mode, chunks, writing_chunks, pending_writes,
                 pending_writes_size, index, acked, sb_failed, crashes>>

\* spy_check_chunk_done.
spy_check_chunk_done(c) ==
  /\ Working(c, "check", "done")
  /\ conn' = Reply(c, IF job[c].retcode # 0 THEN "CHUNK_CHECK_ERROR" ELSE "SUCCESS")
  /\ job' = [job EXCEPT ![c] = NoJob]
  /\ free_io_jobs' = free_io_jobs + 1
  /\ UNCHANGED <<storeVars, mode, chunks, writing_chunks, pending_writes,
                 pending_writes_size, index, statistic, acked, sb_failed, crashes>>

\* spy_dump_chunkfile_done: the worker has sent the response itself.
spy_dump_chunkfile_done(c) ==
  /\ Working(c, "dump", "done")
  /\ \/ spy_free_client_connection(c)
     \/ /\ job[c].retcode = 0
        /\ conn' = [conn EXCEPT ![c] = Receiving]
        /\ UNCHANGED statistic
  /\ job' = [job EXCEPT ![c] = NoJob]
  /\ UNCHANGED <<storeVars, mode, chunks, writing_chunks, pending_writes,
                 pending_writes_size, free_io_jobs, index, acked, sb_failed, crashes>>

-----------------------------------------------------------------------------
(* The cron.                                                               *)

\* How many writes at the head of pending_writes have timed out when every one
\* of them is a second older.
TimedOut ==
  LET young == {i \in 1..Len(pending_writes) :
                  job[pending_writes[i]].age + 1 < PENDING_WRITE_TIMEOUT}
  IN IF young = {} THEN Len(pending_writes) ELSE Min(young) - 1

\* spy_server_cron, spy_remove_timeout_pending_writes: a second has passed.
spy_server_cron ==
  /\ mode = "up"
  /\ pending_writes_size > 0
  /\ Abandon(TimedOut, conn, "CHUNK_UNAVAILABLE")
  /\ job' = [d \in Conns |->
               IF d \in Oldest(TimedOut) THEN NoJob
               ELSE IF job[d].phase = "pending" THEN [job[d] EXCEPT !.age = @ + 1]
               ELSE job[d]]
  /\ UNCHANGED <<storeVars, mode, chunks, writing_chunks, index, statistic,
                 acked, sb_failed, crashes>>

-----------------------------------------------------------------------------
(* Start, crash and restart.                                               *)

\* The process ends and with it all it held in memory.
Reset ==
  /\ conn' = [c \in Conns |-> Closed]
  /\ job' = [c \in Conns |-> NoJob]
  /\ chunks' = <<>>
  /\ writing_chunks' = {}
  /\ pending_writes' = <<>>
  /\ pending_writes_size' = 0
  /\ free_io_jobs' = MAX_IO_JOBS
  /\ index' = [f \in Fids |-> NoEntry]
  /\ statistic' = NoStatistic
  /\ chunk' = [ch \in Chunks |-> NoSuperblock]

\* The process dies at any point; what it has written with pwrite stays.  A
\* file on a chunk whose superblock write had failed is no longer promised.
Crash ==
  /\ mode \in {"up", "creating"}
  /\ crashes < MaxCrashes
  /\ crashes' = crashes + 1
  /\ mode' = "down"
  /\ Reset
  /\ acked' = {f \in acked : index[f].chunk \notin sb_failed}
  /\ UNCHANGED <<files, sb, cells, sb_failed>>

\* spy_create_or_recover_files on an empty directory, then spy_create_chunk for
\* each chunk: the file is made and enters the allocation list ...
spy_create_chunk ==
  LET ch == Len(chunks) + 1
  IN /\ \/ mode = "down" /\ files = {}
        \/ mode = "creating" /\ ch \in Chunks /\ sb_failed = {}
     /\ mode' = "creating"
     /\ files' = files \cup {ch}
     /\ sb_failed' = sb_failed \cup {ch}
     /\ chunk' = [chunk EXCEPT ![ch] = NewChunk]
     /\ chunks' = <<ch>> \o chunks
     /\ UNCHANGED <<sb, cells, conn, job, writing_chunks, pending_writes,
                    pending_writes_size, free_io_jobs, index, statistic, acked,
                    crashes>>

\* ... and its superblock is written last.  An error ends the process.
spy_create_chunk_superblock ==
  /\ mode = "creating"
  /\ \E ch \in sb_failed :
       \/ /\ sb' = [sb EXCEPT ![ch] = chunk[ch]]
          /\ sb_failed' = sb_failed \ {ch}
          /\ mode' = IF files = Chunks THEN "up" ELSE "creating"
          /\ UNCHANGED <<chunk, loopVars>>
       \/ /\ mode' = "down"
          /\ Reset
          /\ UNCHANGED <<sb, sb_failed>>
  /\ UNCHANGED <<files, cells, acked, crashes>>

\* spy_setup_chunk accepts the chunk: the magic and the checksum of the
\* superblock match, and the records below its current_offset parse.
Parses(ch) ==
  /\ sb[ch] # NoSuperblock
  /\ Tiled(ch, sb[ch].current_offset)

\* The assertion of spy_add_file_index: no fid is found a second time.
FidsUnique ==
  \A f \in Fids : \A ch, dh \in files :
    \A p \in RecordStarts(ch, f), q \in RecordStarts(dh, f) : ch = dh /\ p = q

\* The entry spy_setup_chunk makes for f.
FoundEntry(f) ==
  LET found == {e \in [chunk : files, offset : Offsets] :
                  e.offset \in RecordStarts(e.chunk, f)}
  IN IF found = {} THEN NoEntry ELSE CHOOSE e \in found : TRUE

\* spy_create_or_recover_files on a directory with chunk files.  readdir gives
\* the files in any order.
spy_recover_files ==
  /\ mode \in {"down", "aborted"}
  /\ files # {}
  /\ IF (\A ch \in files : Parses(ch)) /\ FidsUnique
       THEN /\ mode' = "up"
            /\ chunk' = [ch \in Chunks |-> IF ch \in files THEN sb[ch] ELSE NoSuperblock]
            /\ \E n \in 0..NChunks : chunks' \in Bijection(1..n, files)
            /\ index' = [f \in Fids |-> FoundEntry(f)]
            /\ sb_failed' = {}
       ELSE /\ mode' = "aborted"
            /\ UNCHANGED <<chunk, chunks, index, sb_failed>>
  /\ UNCHANGED <<files, sb, cells, conn, job, writing_chunks, pending_writes,
                 pending_writes_size, free_io_jobs, statistic, acked, crashes>>

-----------------------------------------------------------------------------
(* The specification.                                                      *)

Init ==
  /\ files = {}
  /\ sb = [ch \in Chunks |-> NoSuperblock]
  /\ cells = [ch \in Chunks |-> [p \in Offsets |-> Blank]]
  /\ mode = "down"
  /\ conn = [c \in Conns |-> Closed]
  /\ job = [c \in Conns |-> NoJob]
  /\ chunks = <<>>
  /\ writing_chunks = {}
  /\ pending_writes = <<>>
  /\ pending_writes_size = 0
  /\ free_io_jobs = MAX_IO_JOBS
  /\ index = [f \in Fids |-> NoEntry]
  /\ statistic = NoStatistic
  /\ chunk = [ch \in Chunks |-> NoSuperblock]
  /\ acked = {}
  /\ sb_failed = {}
  /\ crashes = 0

Request(c) ==
  \/ \E f \in Fids : spy_handle_write(c, f) \/ spy_handle_read(c, f)
  \/ \E ch \in Chunks : spy_dump_chunk(c, ch)
  \/ spy_handle_check_disk(c)
  \/ spy_handle_ping(c)
  \/ spy_query_infos(c)
  \/ spy_kill_pending_writes(c)

Worker(c) ==
  \/ spy_write_file_meta(c)
  \/ spy_write_file_body(c)
  \/ spy_write_file_superblock(c)
  \/ spy_read_file(c)
  \/ spy_check_chunk(c)
  \/ spy_dump_chunkfile(c)

Done(c) ==
  \/ spy_write_file_done(c)
  \/ spy_read_file_done(c)
  \/ spy_check_chunk_done(c)
  \/ spy_dump_chunkfile_done(c)

Socket(c) ==
  \/ spy_accept_handler(c)
  \/ spy_read_handler_closes(c)
  \/ spy_write_handler(c)

Next ==
  \/ \E c \in Conns : Socket(c) \/ Request(c) \/ Worker(c) \/ Done(c)
  \/ spy_server_cron
  \/ Crash
  \/ spy_create_chunk
  \/ spy_create_chunk_superblock
  \/ spy_recover_files

Spec == Init /\ [][Next]_vars

\* A worker is sending a chunk to a client, or is about to.
Dumping == \E c \in Conns : Working(c, "dump", "queued")

\* The workers take what is queued, the event loop runs the callbacks of what is
\* finished (an eventfd wakes it) and the cron every second.  While a chunk is dumped
\* nothing is assumed of the workers: how long the dump takes is up to its client, and
\* it may have the last worker there is.  Nothing is assumed of clients, crashes or
\* restarts.
FairSpec ==
  /\ Spec
  /\ \A c \in Conns : WF_vars((Worker(c) /\ ~Dumping) \/ Done(c))
  /\ WF_vars(spy_server_cron)

-----------------------------------------------------------------------------
(* Properties.                                                             *)

\* Every variable has its type: no more than MAX_PENDING_WRITES writes wait, the
\* lists hold chunks whose file exists, and current_offset and avail_space stay
\* within the chunk although spy_write_file adds and subtracts unchecked.
TypeOK ==
  /\ files \subseteq Chunks
  /\ sb \in [Chunks -> ChunkInfo]
  /\ cells \in [Chunks -> [Offsets -> (Fids \X Nat) \cup {Blank}]]
  /\ chunk \in [Chunks -> ChunkInfo]
  /\ mode \in {"down", "creating", "up", "aborted"}
  /\ conn \in [Conns -> Connection]
  /\ job \in [Conns -> Job]
  /\ chunks \in Seq(files)
  /\ writing_chunks \subseteq files
  /\ pending_writes \in Seq(Conns)
  /\ pending_writes_size \in 0..MAX_PENDING_WRITES
  /\ free_io_jobs \in Nat
  /\ index \in [Fids -> Entry]
  /\ statistic \in [conn_count : Int, reading_count : Int, writing_count : Int]
  /\ acked \subseteq Fids
  /\ sb_failed \subseteq files
  /\ crashes \in Nat

\* The writes that have a chunk.
Writers == {c \in Conns : job[c].kind = "write" /\ job[c].phase # "pending"}

\* A chunk has one writer at a time.  spy_handle_write takes the chunk off
\* server.chunks and spy_write_file_done passes it on or returns it; the worker
\* changes current_offset and the superblock without a lock, so two writes on
\* one chunk would put two files at one offset.
ChunkExclusive ==
  /\ \A c \in Writers : job[c].chunk \in writing_chunks
  /\ \A c, d \in Writers : c # d => job[c].chunk # job[d].chunk
  /\ writing_chunks \cap Range(chunks) = {}
  /\ IsInjective(chunks)

\* A file in the index can be read back at any moment: whatever the workers are
\* writing, the record the entry points at is whole, so spy_read_file finds the
\* fid and the checksum it compares.
IndexIntact ==
  \A f \in Indexed : Intact(index[f].chunk, index[f].offset, f)

\* A file whose write was answered SUCCESS survives a crash: its record is whole
\* and below the current_offset of the superblock on disk, where spy_setup_chunk
\* will find it, unless the last superblock write of its chunk failed
\* (spy_write_file logs this and still succeeds); and a running server has it in
\* the index.
AckedDurable ==
  \A f \in acked :
    /\ \/ \E ch \in files, p \in Offsets : Committed(ch, p, f)
       \/ mode = "up" /\ index[f].chunk \in sb_failed
    /\ mode = "up" => f \in Indexed

\* What the superblock on disk covers is never written again: every step leaves
\* the cells below its current_offset alone.  A read or a dump that runs beside
\* writes to the same chunk therefore sees whole records.
CommittedImmutable ==
  [][\A ch \in Chunks, p \in Offsets :
       p >= SUPERBLOCK_SIZE /\ p < sb[ch].current_offset
         => cells'[ch][p] = cells[ch][p]]_vars

\* No write waits for a chunk it could have: a pending write has no room on any
\* chunk of the allocation list.  spy_write_file_done serves the pending writes
\* before it returns a chunk, after a failed write too.
NoStrandedPending ==
  \A c \in Range(pending_writes), ch \in Range(chunks) : ~Fits(ch, job[c].fid)

\* A job never outlives its connection: a connection with a job in flight or
\* pending is open and not watched for AE_READABLE, so spy_read_handler cannot
\* free it under the worker or the callback, and exactly the connections whose
\* write is pending are on pending_writes, once each.
JobHasConnection ==
  /\ \A c \in Conns : job[c].kind # "none" <=> conn[c].state = "PROCESS_REQUEST"
  /\ \A c \in Conns : job[c].kind # "none" => ~conn[c].readable
  /\ Range(pending_writes) = {c \in Conns : job[c].phase = "pending"}
  /\ IsInjective(pending_writes)

Count(S) == Cardinality({c \in Conns : job[c].kind \in S /\ job[c].phase # "pending"})

\* The counters agree with what they count on every path: no io job is lost or
\* freed twice, pending_writes_size is the length of the list (the assertion of
\* spy_remove_timeout_pending_writes), and the gauges reported to the master are
\* the reads, writes and connections there are.
Accounting ==
  /\ free_io_jobs + Count({"write", "read", "check"}) + Len(pending_writes) = MAX_IO_JOBS
  /\ pending_writes_size = Len(pending_writes)
  /\ statistic.writing_count = Count({"write"})
  /\ statistic.reading_count = Count({"read"})
  /\ statistic.conn_count = Cardinality({c \in Conns : conn[c].state # "CLOSED"})

\* Chunks off the allocation list that no write will return.
Orphaned == {ch \in writing_chunks : \A c \in Writers : job[c].chunk # ch}

\* spy_write_file_done has found the fid of a second write on ch in the index.
MeetsDuplicate(ch) ==
  \E c \in Conns : Working(c, "write", "done") /\ job[c].chunk = ch /\ job[c].fid \in Indexed

\* A step that takes away the last writer of a chunk meets a duplicate, or has taken the
\* chunk off the allocation list and finds no io job.
LosesNoOther ==
  \A ch \in Orphaned' \ Orphaned :
    (ch \in Range(chunks) /\ free_io_jobs = 0) \/ MeetsDuplicate(ch)

\* A chunk off the allocation list comes back: it loses its last writer only in
\* spy_handle_write when there is no io job for the chunk that it has taken, and in
\* spy_write_file_done when the fid is a duplicate.  No failed write, timeout or kill
\* loses a chunk, in whatever order they come.
ChunkKept == [][LosesNoOther]_vars

\* A restart fails only when some superblock write did not succeed or a fid was
\* written twice: neither the checks of spy_setup_chunk nor the assertions of
\* spy_parse_chunk_superblock meet anything a crash between two writes of a worker
\* leaves behind.
RestartSucceeds == mode = "aborted" => sb_failed # {} \/ ~FidsUnique

\* The assertion of spy_add_file_index, "assert(tmp->fid != fid)": a restart finds
\* no fid twice.  spy_write_file_done looks a fid up a second time to "avoid
\* duplicate fid", after the worker has committed the record.
AddFileIndexAssertion == mode = "aborted" => FidsUnique

\* Every request is answered: a connection does not stay in PROCESS_REQUEST, unless a
\* chunk is being dumped.  A pending write is served by a chunk that comes back, or
\* killed, or times out.
Answered ==
  \A c \in Conns :
    conn[c].state = "PROCESS_REQUEST" ~> conn[c].state # "PROCESS_REQUEST" \/ Dumping
=============================================================================
