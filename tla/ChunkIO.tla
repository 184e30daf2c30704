------------------------------ MODULE ChunkIO ------------------------------
(***************************************************************************)
(* The chunk server at the level of bytes: a request that arrives in       *)
(* pieces through a socket, the buffers it is collected in, the record     *)
(* written to the chunk file and read back, the response that leaves in    *)
(* pieces, and the event loop that drives all of it (chunkserver/          *)
(* spy_server.c over spy_rw_buffer.c, spy_event.c and spy_store.c).        *)
(*                                                                         *)
(* Module SpyServer has the same server with whole requests and records,   *)
(* many chunks, the limits on jobs and the failures of the disk.  This     *)
(* module has one chunk and DEF_MAX_PENDING_WRITES = 0: a write that finds *)
(* no chunk is refused, and the disk does what it is asked.                *)
(*                                                                         *)
(* A handler is an operator from the process, and the connection it was    *)
(* called for, to the process afterwards.                                  *)
(***************************************************************************)
EXTENDS ChunkFile, SpyEvent

CONSTANTS
  Clients,          \* the clients; a client has at most one connection
  Fids,             \* the fids that are written, as numbers
  Body,             \* Body[f]: the contents written under a fid
  Requests,         \* Requests[c]: the requests client c sends
  SERVER_ID,        \* config.server_id
  TIMESTAMP,        \* spy_current_time_sec()
  BUFFER_SIZES,     \* the parser's BUFFER_SIZE, one chosen at every start
  MAX_CLIENTS,      \* what DEF_MAX_CLIENTS may be: one is chosen for the program
  SNDBUF,           \* cells a socket takes before write() returns EAGAIN
  CUTS,             \* CUTS[c]: where the requests of c are cut into segments
  MaxRequests,      \* MaxRequests[c]: bound on the requests of c
  MaxCrashes        \* bound on the crashes of the process

OPCODE_WRITE == 0
OPCODE_READ == 1
OPCODE_DELETE == 2
OPCODE_PING == 10
OPCODE_QUERY_IO_STATUS == 31
Opcodes == {OPCODE_WRITE, OPCODE_READ, OPCODE_DELETE, OPCODE_PING,
            OPCODE_QUERY_IO_STATUS}

SUCCESS == 0
SERVER_ID_MISMATCH == 1
CHUNK_UNAVAILABLE == 2
FILE_NOT_FOUND == 3
FILE_EXISTS == 4
WRITE_ERROR == 5
READ_ERROR == 6
INTERNAL_ERROR == 7
REACH_MEMORY_LIMIT == 9

ASSUME ChunkIOAssumption ==
  /\ Fids \subseteq 1 .. BYTE^N8 - 1
  /\ \A f \in Fids : Body[f] \in Seq(Cell)
  /\ \A c \in Clients : \A r \in Requests[c] :
       r.op \in Opcodes /\ r.fid \in Fids /\ r.server_id \in Cell
  /\ \A n \in BUFFER_SIZES : n >= FILE_META_SIZE
  /\ {SNDBUF, MaxCrashes} \subseteq Nat /\ SNDBUF > 0
  /\ MAX_CLIENTS \subseteq Nat /\ \A n \in MAX_CLIENTS : n >= 2

REQ_HDR_SIZE == N1 + N4
REQ_INNER_HDR_SIZE == N2 + N8
RSP_HDR_SIZE == 2 * N1 + N4

VARIABLES
  mode,             \* "down", "up", or "failed": the process exits at start
  file,             \* the chunk file; <<>> before it is created
  proc,             \* the process: its globals and what the kernel has for it
  fired,            \* the events of the current batch that are still to do
  client,           \* client[c]: the request c waits for, what it still has
                    \*   to send, what it received
  acked,            \* the fids whose write was answered with SUCCESS
  asked,            \* asked[c]: how many requests c has sent
  crashes

vars == <<mode, file, proc, fired, client, acked, asked, crashes>>

NULL == [null |-> TRUE]
NoRequest == [op |-> -1]
Idle == [req |-> NoRequest, acked |-> FALSE, tosend |-> <<>>, got |-> <<>>]
NoSocket == [state |-> "none", in |-> <<>>, out |-> <<>>]
Nothing == [fd \in Fds |-> AE_NONE]

listen_fd == 0
event_fd == 1

-----------------------------------------------------------------------------
(* Replying. *)

\* Mutant of ReturnBlocks: the response's blocks are forgotten.
ReturnBlocks_RequestOnly(p, c) == GiveBlocks(p.pool, p.conn[c].request)

\* Both buffers of a connection give their blocks back.
ReturnBlocks(p, c) ==
  GiveBlocks(GiveBlocks(p.pool, p.conn[c].request), p.conn[c].rsp_body)

spy_free_client_connection(p, c) ==
  LET fd == p.conn[c].fd IN
  [p EXCEPT
     !.pool    = ReturnBlocks(p, c),
     !.sock[c] = NoSocket,
     !.el      = aeDeleteFileEvent(CloseFd(@, fd), fd, {AE_READABLE, AE_WRITABLE}),
     !.conn[c] = NULL]

spy_send_response_if_needed(p, c) ==
  LET fd == p.conn[c].fd IN
  IF p.conn[c].state # "SEND_RSP" THEN p
  ELSE IF CanCreateFileEvent(p.el, fd)
  THEN [p EXCEPT !.el = aeCreateFileEvent(@, fd, AE_WRITABLE, c)]
  ELSE spy_free_client_connection(p, c)

spy_reply_header(p, c) ==
  LET conn == p.conn[c] IN
  spy_send_response_if_needed(
    [p EXCEPT !.conn[c].rsp_header = mach_write_to(N1, conn.opcode)
                                     \o mach_write_to(N1, conn.error)
                                     \o mach_write_to(N4, conn.body_len)], c)

\* The replies without a body: an error, or the SUCCESS of a ping or a write.
Reply(p, c, error) ==
  spy_reply_header([p EXCEPT !.conn[c].error    = error,
                             !.conn[c].body_len = 0,
                             !.conn[c].state    = "SEND_RSP"], c)

\* Mutant of ReplyBody: the body is never announced to the event loop.
ReplyBody_HeaderOnly(p, c, body_len) ==
  [spy_reply_header([p EXCEPT !.conn[c].error    = SUCCESS,
                              !.conn[c].body_len = body_len], c)
   EXCEPT !.conn[c].state = "SEND_RSP"]

\* The replies with a body: the header while the state is still the old one,
\* then the body.
ReplyBody(p, c, body_len) ==
  LET header == spy_reply_header([p EXCEPT !.conn[c].error    = SUCCESS,
                                           !.conn[c].body_len = body_len], c)
  IN spy_send_response_if_needed([header EXCEPT !.conn[c].state = "SEND_RSP"], c)

\* Mutant of StopReading: the socket is still watched.
StopReading_Skip(p, c) == p

StopReading(p, c) ==
  [p EXCEPT !.el = aeDeleteFileEvent(@, p.conn[c].fd, {AE_READABLE})]

\* Expand the response body until it has room for size cells.
RECURSIVE ExpandBody(_, _, _)
ExpandBody(p, c, size) ==
  IF p.conn[c].rsp_body.cap >= size \/ ~CanExpand(p.pool) THEN p
  ELSE ExpandBody([p EXCEPT !.conn[c].rsp_body = spy_rw_buffer_expand(@),
                            !.pool             = TakeBlock(@)], c, size)

-----------------------------------------------------------------------------
(* The requests. *)

spy_lookup_file_index(p, fid) == {e \in p.index : e.fid = fid}

\* The handlers assert that a request is long enough to have these fields;
\* the clients' requests are, and an abort would be a Crash.
InnerHeader(p, c) ==
  LET r == spy_rw_buffer_read_n(p.conn[c].request, REQ_INNER_HDR_SIZE) IN
  [proc      |-> [p EXCEPT !.conn[c].request = r.buffer],
   server_id |-> mach_read_from(SubSeq(r.cells, 1, N2)),
   fid       |-> mach_read_from(SubSeq(r.cells, N2 + 1, N2 + N8))]

\* Is the chunk on the allocation list, with room for the record?  (The code's
\* sum has 32 bits and wraps for a body of 4 GiB less 30 bytes or more.  Such a
\* body does not fit into the memory blocks of the default limit, 1 GiB; the
\* model has none.)
Fits(p, size) == ~p.writing /\ p.chunk.avail_space > size + FILE_META_SIZE

spy_handle_write(p, c) ==
  LET inner == InnerHeader(p, c)
      q     == inner.proc
      size  == p.conn[c].body_len - REQ_INNER_HDR_SIZE
  IN IF inner.server_id # SERVER_ID THEN Reply(q, c, SERVER_ID_MISMATCH)
     ELSE IF spy_lookup_file_index(q, inner.fid) # {} THEN Reply(q, c, FILE_EXISTS)
     ELSE IF ~Fits(p, size) THEN Reply(q, c, CHUNK_UNAVAILABLE)
     ELSE StopReading(
            [q EXCEPT !.writing = TRUE,
                      !.job[c]  = [fn |-> "write", at |-> "queued",
                                   fid |-> inner.fid, size |-> size,
                                   offset |-> p.chunk.current_offset,
                                   retcode |-> 0]], c)

spy_handle_read(p, c) ==
  LET inner == InnerHeader(p, c)
      q     == inner.proc
      found == spy_lookup_file_index(q, inner.fid)
      entry == CHOOSE e \in found : TRUE
      r     == ExpandBody(q, c, entry.size)
  IN IF inner.server_id # SERVER_ID THEN Reply(q, c, SERVER_ID_MISMATCH)
     ELSE IF found = {} THEN Reply(q, c, FILE_NOT_FOUND)
     ELSE IF r.conn[c].rsp_body.cap < entry.size THEN Reply(r, c, REACH_MEMORY_LIMIT)
     ELSE StopReading(
            [r EXCEPT !.job[c] = [fn |-> "read", at |-> "queued", fid |-> inner.fid,
                                  size |-> entry.size, offset |-> entry.offset,
                                  retcode |-> 0]], c)

spy_handle_ping(p, c) == Reply(StopReading(p, c), c, SUCCESS)

Count(p, fn) == Cardinality({c \in Clients : p.job[c] # NULL /\ p.job[c].fn = fn})

\* pending_writes_size, writing_count and reading_count.
IoStatus(p) == mach_write_to(N4, 0) \o mach_write_to(N4, Count(p, "write"))
               \o mach_write_to(N4, Count(p, "read"))

spy_query_io_status(p, c) ==
  LET r    == ExpandBody(p, c, 3 * N4)
      body == spy_rw_buffer_write_n(r.conn[c].rsp_body, IoStatus(p))
  IN IF r.conn[c].rsp_body.cap < 3 * N4 THEN Reply(r, c, REACH_MEMORY_LIMIT)
     ELSE ReplyBody([r EXCEPT !.conn[c].rsp_body = body], c, 3 * N4)

\* OPCODE_DELETE has no handler: it takes the default branch, as any opcode
\* the server does not know.
ProcessRequest(p, c) ==
  CASE p.conn[c].opcode = OPCODE_WRITE -> spy_handle_write(p, c)
    [] p.conn[c].opcode = OPCODE_READ -> spy_handle_read(p, c)
    [] p.conn[c].opcode = OPCODE_PING -> spy_handle_ping(p, c)
    [] p.conn[c].opcode = OPCODE_QUERY_IO_STATUS -> spy_query_io_status(p, c)
    [] OTHER -> spy_free_client_connection(p, c)

\* Mutant of ReceiveHeader: the state is not advanced.
ReceiveHeader_KeepState(p, c) ==
  LET r == spy_rw_buffer_read_n(p.conn[c].request, REQ_HDR_SIZE) IN
  IF p.conn[c].state # "RECEIVE_HDR" \/ Readable(p.conn[c].request) < REQ_HDR_SIZE
  THEN p
  ELSE [p EXCEPT !.conn[c].request  = r.buffer,
                 !.conn[c].opcode   = mach_read_from(SubSeq(r.cells, 1, N1)),
                 !.conn[c].body_len = mach_read_from(SubSeq(r.cells, N1 + 1, N1 + N4))]

ReceiveHeader(p, c) ==
  LET r == spy_rw_buffer_read_n(p.conn[c].request, REQ_HDR_SIZE) IN
  IF p.conn[c].state # "RECEIVE_HDR" \/ Readable(p.conn[c].request) < REQ_HDR_SIZE
  THEN p
  ELSE [p EXCEPT !.conn[c].request  = r.buffer,
                 !.conn[c].opcode   = mach_read_from(SubSeq(r.cells, 1, N1)),
                 !.conn[c].body_len = mach_read_from(SubSeq(r.cells, N1 + 1, N1 + N4)),
                 !.conn[c].state    = "RECEIVE_BODY"]

spy_process_receive_buffer(p, c) ==
  LET q == ReceiveHeader(p, c) IN
  IF q.conn[c].state = "RECEIVE_BODY" /\ Readable(q.conn[c].request) >= q.conn[c].body_len
  THEN ProcessRequest([q EXCEPT !.conn[c].state = "PROCESS_REQUEST"], c)
  ELSE q

-----------------------------------------------------------------------------
(* The handlers of a client's socket. *)

spy_read_handler(p, c) ==
  LET expand == ~HasWriteable(p.conn[c].request)
      q == IF expand
           THEN [p EXCEPT !.conn[c].request = spy_rw_buffer_expand(@),
                          !.pool            = TakeBlock(@)]
           ELSE p
      buffer == NextWriteBlock(q.conn[c].request)
      nread  == Least(WriteableLen(buffer), Len(p.sock[c].in))
  IN IF expand /\ ~CanExpand(p.pool) THEN spy_free_client_connection(p, c)
     ELSE IF nread > 0
     THEN spy_process_receive_buffer(
            [q EXCEPT !.conn[c].request = Store(buffer, SubSeq(p.sock[c].in, 1, nread)),
                      !.sock[c].in      = SubSeq(@, nread + 1, Len(@))], c)
     ELSE IF p.sock[c].state = "closed" THEN spy_free_client_connection(q, c)
     ELSE [q EXCEPT !.conn[c].request = buffer]

spy_reset_client_connection(p, c) ==
  LET conn == p.conn[c] IN
  [p EXCEPT
     !.pool    = ReturnBlocks(p, c),
     !.conn[c] = [conn EXCEPT !.request = spy_rw_buffer_reset,
                              !.rsp_body = spy_rw_buffer_reset,
                              !.sentlen = 0, !.error = 0, !.body_len = 0,
                              !.state = "RECEIVE_HDR"],
     !.el      = aeCreateFileEvent(aeDeleteFileEvent(@, conn.fd, {AE_WRITABLE}),
                                   conn.fd, AE_READABLE, c)]

\* write(): a peer that closed lets the data be taken and dropped, or makes
\* the call fail (resets); else the socket takes what it has room for.
Room(sock) == IF sock.state = "closed" THEN 2 * CHUNK_SIZE ELSE SNDBUF - Len(sock.out)

Sent(p, c, cells) ==
  [p EXCEPT !.conn[c].sentlen = @ + Len(cells),
            !.sock[c].out = IF p.sock[c].state = "closed" THEN <<>> ELSE @ \o cells]

RECURSIVE spy_write_handler(_, _, _)
spy_write_handler(p, c, resets) ==
  LET conn      == p.conn[c]
      room      == Room(p.sock[c])
      remaining == RSP_HDR_SIZE + conn.body_len - conn.sentlen
      header    == SubSeq(conn.rsp_header, conn.sentlen + 1, RSP_HDR_SIZE)
      next      == NextReadBlock(conn.rsp_body)
      inBody    == conn.sentlen >= RSP_HDR_SIZE
      area      == IF inBody THEN ReadableArea(next) ELSE header
      nwritten  == Least(Least(Len(area), remaining), room)
      q         == IF inBody THEN [p EXCEPT !.conn[c].rsp_body = next] ELSE p
      sent      == Sent(q, c, SubSeq(area, 1, nwritten))
  IN IF remaining <= 0 THEN spy_reset_client_connection(p, c)
     ELSE IF resets /\ p.sock[c].state = "closed" THEN spy_free_client_connection(q, c)
     ELSE IF room = 0 THEN q
     ELSE spy_write_handler(
            IF inBody THEN [sent EXCEPT !.conn[c].rsp_body.read_pos = @ + nwritten]
                      ELSE sent, c, resets)

\* accept4 takes the smallest free descriptor.
FreeFds(p) ==
  Fds \ ({listen_fd, event_fd} \union {p.conn[c].fd : c \in {d \in Clients : p.conn[d] # NULL}}
         \union p.leaked)

spy_create_client_connection(p, c, fd) ==
  IF CanCreateFileEvent(p.el, fd)
  THEN [p EXCEPT
          !.sock[c].state = "open",
          !.conn[c] = [fd |-> fd, state |-> "RECEIVE_HDR", opcode |-> 0, error |-> 0,
                       body_len |-> 0, sentlen |-> 0,
                       rsp_header |-> [i \in 1 .. RSP_HDR_SIZE |-> 0],
                       request |-> spy_rw_buffer_init, rsp_body |-> spy_rw_buffer_init],
          !.el = aeCreateFileEvent(@, fd, AE_READABLE, c)]
  ELSE [p EXCEPT !.sock[c].state = "open", !.leaked = @ \union {fd}]

spy_accept_handler(p, c) ==
  LET free == FreeFds(p) IN
  IF free = {} THEN p
  ELSE spy_create_client_connection(p, c, CHOOSE fd \in free : \A x \in free : fd <= x)

-----------------------------------------------------------------------------
(* The callbacks of the workers' jobs. *)

spy_read_file_done(p, c) ==
  LET job == p.job[c]
      q   == [p EXCEPT !.job[c] = NULL]
  IN IF job.retcode # 0 THEN Reply(q, c, READ_ERROR)
     ELSE ReplyBody(q, c, job.size)

spy_write_file_done(p, c) ==
  LET job == p.job[c]
      q   == [p EXCEPT !.job[c] = NULL]
  IN IF spy_lookup_file_index(p, job.fid) # {} THEN Reply(q, c, INTERNAL_ERROR)
     ELSE IF job.retcode # 0 THEN Reply([q EXCEPT !.writing = FALSE], c, WRITE_ERROR)
     ELSE Reply(
            [q EXCEPT !.writing = FALSE,
                      !.index = @ \union {[fid |-> job.fid, offset |-> job.offset,
                                           size |-> job.size + FILE_META_SIZE]}],
            c, SUCCESS)

spy_wq_thread_done(p) ==
  FoldLeft(LAMBDA q, c : IF q.job[c].fn = "write" THEN spy_write_file_done(q, c)
                                                  ELSE spy_read_file_done(q, c),
           [p EXCEPT !.finished = <<>>], p.finished)

-----------------------------------------------------------------------------
(* The workers (spy_store.c). *)

\* Write the next left cells of a request to the file, area by area, as long
\* as there are some.
RECURSIVE WriteAreas(_, _, _, _)
WriteAreas(bytes, buffer, left, offset) ==
  IF left = 0 \/ Readable(buffer) = 0 THEN [file |-> bytes, buffer |-> buffer, left |-> left]
  ELSE LET next  == NextReadBlock(buffer)
           area  == ReadableArea(next)
           cells == SubSeq(area, 1, Least(Len(area), left))
       IN WriteAreas(spy_pwrite(bytes, cells, offset),
                     [next EXCEPT !.read_pos = @ + Len(cells)],
                     left - Len(cells), offset + Len(cells))

\* Read left cells of the file into a buffer with room for them.
RECURSIVE ReadAreas(_, _, _)
ReadAreas(buffer, left, offset) ==
  IF left = 0 THEN buffer
  ELSE LET next == NextWriteBlock(buffer)
           n    == Least(left, WriteableLen(next))
       IN ReadAreas(Store(next, Bytes(file, offset, n)), left - n, offset + n)

\* spy_write_file up to the superblock: the meta with the checksum of the
\* body, then the body.
WriteRecord(c) ==
  LET job  == proc.job[c]
      sum  == spy_buffer_adler32(0, proc.conn[c].request, job.size)
      meta == MetaCells([fid |-> job.fid, ref |-> 1, size |-> job.size,
                         checksum |-> sum.sum, timestamp |-> TIMESTAMP])
      body == WriteAreas(spy_pwrite(file, meta, job.offset), sum.buffer, job.size,
                         job.offset + FILE_META_SIZE)
  IN /\ mode = "up"
     /\ job # NULL
     /\ job.fn = "write" /\ job.at = "queued"
     /\ file' = body.file
     /\ proc' = IF body.left = 0
                THEN [proc EXCEPT !.conn[c].request = body.buffer,
                                  !.job[c].at       = "written"]
                ELSE [proc EXCEPT !.conn[c].request = body.buffer,
                                  !.job[c].at       = "done",
                                  !.job[c].retcode  = -1,
                                  !.finished        = Append(@, c)]
     /\ UNCHANGED <<mode, fired, client, acked, asked, crashes>>

\* The rest of spy_write_file: the chunk's counters and the superblock.
WriteSuperblock(c) ==
  LET job   == proc.job[c]
      n     == job.size + FILE_META_SIZE
      chunk == [proc.chunk EXCEPT !.current_offset = @ + n, !.avail_space = @ - n,
                                  !.files_alloc = @ + 1, !.files_count = @ + 1]
  IN /\ mode = "up"
     /\ job # NULL
     /\ job.fn = "write" /\ job.at = "written"
     /\ file' = spy_pwrite(file, spy_fill_superblock(chunk), 0)
     /\ proc' = [proc EXCEPT !.chunk     = chunk,
                             !.job[c].at = "done",
                             !.finished  = Append(@, c)]
     /\ UNCHANGED <<mode, fired, client, acked, asked, crashes>>

\* spy_read_file: the whole record into the response, its meta taken off and
\* compared.
ReadRecord(c) ==
  LET job  == proc.job[c]
      r    == spy_rw_buffer_read_n(ReadAreas(proc.conn[c].rsp_body, job.size, job.offset),
                                   FILE_META_SIZE)
      meta == ParseMeta(r.cells)
      sum  == spy_buffer_adler32(0, r.buffer, job.size - FILE_META_SIZE)
  IN /\ mode = "up"
     /\ job # NULL
     /\ job.fn = "read" /\ job.at = "queued"
     /\ proc' = [proc EXCEPT
                   !.conn[c].rsp_body = sum.buffer,
                   !.job[c].at        = "done",
                   !.job[c].size      = meta.size,
                   !.job[c].retcode   = IF meta.fid = job.fid /\ meta.checksum = sum.sum
                                        THEN 0 ELSE -1,
                   !.finished         = Append(@, c)]
     /\ UNCHANGED <<mode, file, fired, client, acked, asked, crashes>>

-----------------------------------------------------------------------------
(***************************************************************************)
(* The event loop.  aeProcessEvents polls, then works through what fired,  *)
(* in the order the kernel gave it (any order).  For one descriptor the    *)
(* readable handler runs first; the mask is looked at again before the     *)
(* writable one.                                                           *)
(***************************************************************************)

Ready(p) ==
  [fd \in Fds |->
     IF fd = listen_fd
     THEN IF \E c \in Clients : p.sock[c].state = "connecting" THEN {AE_READABLE} ELSE AE_NONE
     ELSE IF fd = event_fd
     THEN IF p.finished # <<>> THEN {AE_READABLE} ELSE AE_NONE
     ELSE LET c == p.el.owner[fd] IN
          IF c = NoOwner THEN AE_NONE
          ELSE (IF p.sock[c].in # <<>> \/ p.sock[c].state = "closed"
                THEN {AE_READABLE} ELSE {})
               \union (IF Room(p.sock[c]) > 0 THEN {AE_WRITABLE} ELSE {})]

Closed(p) == {fd \in Fds : /\ p.el.owner[fd] # NoOwner
                           /\ p.sock[p.el.owner[fd]].state = "closed"}

Poll ==
  LET batch == aeApiPoll(proc.el, Ready(proc), Closed(proc)) IN
  /\ mode = "up"
  /\ fired = Nothing
  /\ batch # Nothing
  /\ fired' = batch
  /\ UNCHANGED <<mode, file, proc, client, acked, asked, crashes>>

\* A client whose connection the server closed sees it and gives up.
Disconnected(p) ==
  client' = [c \in Clients |-> IF p.conn[c] = NULL /\ proc.conn[c] # NULL
                               THEN Idle ELSE client[c]]

Accept ==
  /\ mode = "up"
  /\ AE_READABLE \in fired[listen_fd] \intersect proc.el.mask[listen_fd]
  /\ \E c \in Clients : /\ proc.sock[c].state = "connecting"
                        /\ proc' = spy_accept_handler(proc, c)
  /\ fired' = [fired EXCEPT ![listen_fd] = AE_NONE]
  /\ UNCHANGED <<mode, file, client, acked, asked, crashes>>

Finish ==
  /\ mode = "up"
  /\ AE_READABLE \in fired[event_fd] \intersect proc.el.mask[event_fd]
  /\ proc' = spy_wq_thread_done(proc)
  /\ fired' = [fired EXCEPT ![event_fd] = AE_NONE]
  /\ Disconnected(proc')
  /\ UNCHANGED <<mode, file, acked, asked, crashes>>

WritableEvent(p, fd, mask, resets) ==
  IF AE_WRITABLE \in p.el.mask[fd] \intersect mask
  THEN spy_write_handler(p, p.el.owner[fd], resets) ELSE p

aeProcessEvents(p, fd, mask, resets) ==
  WritableEvent(IF AE_READABLE \in p.el.mask[fd] \intersect mask
                THEN spy_read_handler(p, p.el.owner[fd]) ELSE p, fd, mask, resets)

Handle(fd) ==
  /\ mode = "up"
  /\ fired[fd] # AE_NONE
  /\ \E resets \in BOOLEAN : proc' = aeProcessEvents(proc, fd, fired[fd], resets)
  /\ fired' = [fired EXCEPT ![fd] = AE_NONE]
  /\ Disconnected(proc')
  /\ UNCHANGED <<mode, file, acked, asked, crashes>>

-----------------------------------------------------------------------------
(***************************************************************************)
(* Start and crash of the process.  main recovers the chunk or creates it, *)
(* then sets up the listening socket, the work queue's eventfd and the     *)
(* memory blocks.  A crash keeps the file as the last pwrite left it.      *)
(***************************************************************************)

Started(setsize, chunk, entries) ==
  LET loop      == aeCreateEventLoop(setsize)
      listening == aeCreateFileEvent(loop, listen_fd, AE_READABLE, NoOwner)
  IN [conn     |-> [c \in Clients |-> NULL],
      job      |-> [c \in Clients |-> NULL],
      index    |-> entries,
      chunk    |-> chunk,
      writing  |-> FALSE,
      finished |-> <<>>,
      pool     |-> init_mem_blocks,
      el       |-> aeCreateFileEvent(listening, event_fd, AE_READABLE, NoOwner),
      sock     |-> [c \in Clients |-> NoSocket],
      leaked   |-> {}]

NoProcess(setsize) == Started(setsize, spy_alloc_chunk(0), {})

\* fallocate and the first superblock are one step (see Recovered).
spy_create_or_recover_files(buffer_size) ==
  LET setup == spy_setup_chunk(file, buffer_size) IN
  IF file = <<>>
  THEN /\ file' = spy_create_chunk(1)
       /\ proc' = Started(proc.el.setsize, spy_alloc_chunk(1), {})
       /\ mode' = "up"
  ELSE /\ UNCHANGED file
       /\ IF setup.ok THEN /\ proc' = Started(proc.el.setsize, setup.chunk, setup.entries)
                           /\ mode' = "up"
                      ELSE UNCHANGED proc /\ mode' = "failed"

Start ==
  /\ mode = "down"
  /\ \E n \in BUFFER_SIZES : spy_create_or_recover_files(n)
  /\ UNCHANGED <<fired, client, acked, asked, crashes>>

Crash ==
  /\ mode = "up"
  /\ crashes < MaxCrashes
  /\ crashes' = crashes + 1
  /\ mode' = "down"
  /\ proc' = NoProcess(proc.el.setsize)
  /\ fired' = Nothing
  /\ client' = [c \in Clients |-> Idle]
  /\ UNCHANGED <<file, acked, asked>>

-----------------------------------------------------------------------------
(***************************************************************************)
(* The clients: one request at a time on a connection, sent in pieces, as  *)
(* imageserver/chunkserver/chunkserver.go does; the answer is read in      *)
(* pieces too.  A client may give up a request and close its connection.   *)
(***************************************************************************)

HasInner(r) == r.op \in {OPCODE_WRITE, OPCODE_READ}

RequestBody(r) ==
  (IF HasInner(r) THEN mach_write_to(N2, r.server_id) \o mach_write_to(N8, r.fid) ELSE <<>>)
  \o (IF r.op = OPCODE_WRITE THEN Body[r.fid] ELSE <<>>)

RequestCells(r) ==
  mach_write_to(N1, r.op) \o mach_write_to(N4, Len(RequestBody(r))) \o RequestBody(r)

\* A client that has no connection connects first.
Ask(c) ==
  /\ mode = "up"
  /\ proc.sock[c].state \in {"none", "open"}
  /\ client[c].req = NoRequest
  /\ asked[c] < MaxRequests[c]
  /\ asked' = [asked EXCEPT ![c] = @ + 1]
  /\ \E r \in Requests[c] :
       client' = [client EXCEPT ![c] = [req |-> r, acked |-> r.fid \in acked,
                                        tosend |-> RequestCells(r), got |-> <<>>]]
  /\ proc' = [proc EXCEPT !.sock[c].state = IF @ = "none" THEN "connecting" ELSE @]
  /\ UNCHANGED <<mode, file, fired, acked, crashes>>

Send(c) ==
  LET size == Len(RequestCells(client[c].req))
      sent == size - Len(client[c].tosend)
      n    == Min({k \in CUTS[c] \union {size} : k > sent}) - sent
  IN /\ proc.sock[c].state = "open"
     /\ client[c].tosend # <<>>
     /\ proc' = [proc EXCEPT !.sock[c].in = @ \o SubSeq(client[c].tosend, 1, n)]
     /\ client' = [client EXCEPT ![c].tosend = SubSeq(@, n + 1, Len(@))]
     /\ UNCHANGED <<mode, file, fired, acked, asked, crashes>>

\* A response is whole when it has as many cells as its header says.
Whole(got) ==
  /\ Len(got) >= RSP_HDR_SIZE
  /\ Len(got) >= RSP_HDR_SIZE + mach_read_from(SubSeq(got, 2 * N1 + 1, RSP_HDR_SIZE))

Success(got) == mach_read_from(SubSeq(got, N1 + 1, 2 * N1)) = SUCCESS

Receive(c) ==
  LET got == client[c].got \o proc.sock[c].out IN
  /\ proc.sock[c].state = "open"
  /\ proc.sock[c].out # <<>>
  /\ proc' = [proc EXCEPT !.sock[c].out = <<>>]
  /\ client' = [client EXCEPT ![c] = IF Whole(got) THEN Idle ELSE [@ EXCEPT !.got = got]]
  /\ acked' = IF client[c].req.op = OPCODE_WRITE /\ Whole(got) /\ Success(got)
              THEN acked \union {client[c].req.fid} ELSE acked
  /\ UNCHANGED <<mode, file, fired, asked, crashes>>

Close(c) ==
  /\ proc.sock[c].state = "open"
  /\ client[c].req # NoRequest
  /\ proc' = [proc EXCEPT !.sock[c].state = "closed", !.sock[c].out = <<>>]
  /\ client' = [client EXCEPT ![c] = Idle]
  /\ UNCHANGED <<mode, file, fired, acked, asked, crashes>>

-----------------------------------------------------------------------------
Init ==
  /\ mode = "down"
  /\ file = <<>>
  /\ \E n \in MAX_CLIENTS : proc = NoProcess(n)
  /\ fired = Nothing
  /\ client = [c \in Clients |-> Idle]
  /\ acked = {}
  /\ asked = [c \in Clients |-> 0]
  /\ crashes = 0

EventLoop == Poll \/ Accept \/ Finish \/ \E fd \in Fds \ {listen_fd, event_fd} : Handle(fd)

Worker(c) == WriteRecord(c) \/ WriteSuperblock(c) \/ ReadRecord(c)

Client(c) == Ask(c) \/ Send(c) \/ Receive(c) \/ Close(c)

Next ==
  \/ Start \/ Crash \/ EventLoop
  \/ \E c \in Clients : Worker(c) \/ Client(c)

Spec == Init /\ [][Next]_vars

-----------------------------------------------------------------------------
(***************************************************************************)
(* Properties.                                                             *)
(***************************************************************************)

BufferOK(b) ==
  /\ b.mem_blocks \in Seq([1 .. BLOCK -> Cell \union {Junk}])
  /\ b.cap = BLOCK * Len(b.mem_blocks)
  /\ 0 <= b.read_pos /\ b.read_pos <= b.write_pos /\ b.write_pos <= b.cap
  /\ b.read_pos - b.read_base \in 0 .. BLOCK
  /\ b.write_pos - b.write_base \in 0 .. BLOCK
  /\ b.mem_blocks # <<>> => /\ b.read_base = BLOCK * (b.read_block - 1)
                            /\ b.write_base = BLOCK * (b.write_block - 1)

\* The type invariant: the shape of the state, and of every buffer that the
\* positions lie in the blocks they are said to lie in.
TypeOK ==
  /\ mode \in {"down", "up", "failed"}
  /\ file = <<>> \/ file \in [1 .. CHUNK_SIZE -> Cell]
  /\ fired \in [Fds -> Masks]
  /\ acked \subseteq Fids
  /\ crashes \in 0 .. MaxCrashes
  /\ \A c \in Clients :
       /\ proc.conn[c] # NULL => /\ proc.conn[c].fd \in Fds
                                 /\ BufferOK(proc.conn[c].request)
                                 /\ BufferOK(proc.conn[c].rsp_body)
       /\ proc.sock[c].state \in {"none", "connecting", "open", "closed"}
       /\ {proc.sock[c].in, proc.sock[c].out, client[c].tosend, client[c].got}
            \subseteq Seq(Cell)

\* A request that arrives in any pieces, across any blocks, is put together
\* as it was sent: what the server has buffered, what the socket holds and
\* what the client still has to send are, in this order, what is left of the
\* request; a job that waits to write has exactly the file's contents before
\* it (spy_read_handler, spy_process_receive_buffer, spy_rw_buffer_read_n).
RequestIntact ==
  \A c \in Clients :
    LET conn == proc.conn[c]
        left == Contents(conn.request) \o proc.sock[c].in \o client[c].tosend
    IN conn # NULL /\ proc.sock[c].state = "open" /\ client[c].req # NoRequest =>
         /\ conn.state = "RECEIVE_HDR" /\ client[c].got = <<>> /\ conn.sentlen = 0
              /\ proc.sock[c].out = <<>> => left = RequestCells(client[c].req)
         /\ conn.state = "RECEIVE_BODY" => left = RequestBody(client[c].req)
         /\ proc.job[c] # NULL /\ proc.job[c].fn = "write" /\ proc.job[c].at = "queued" =>
              Contents(conn.request) = Body[client[c].req.fid]

Response(op, error, body) ==
  mach_write_to(N1, op) \o mach_write_to(N1, error) \o mach_write_to(N4, Len(body)) \o body

Errors(r, errors) == {Response(r.op, e, <<>>) : e \in errors}

Expected(c) ==
  LET r == client[c].req
      counts == 0 .. Cardinality(Clients)
  IN CASE r.op = OPCODE_PING -> Errors(r, {SUCCESS})
       [] r.op = OPCODE_QUERY_IO_STATUS ->
            {Response(r.op, SUCCESS, mach_write_to(N4, 0) \o mach_write_to(N4, w)
                                       \o mach_write_to(N4, n)) : w, n \in counts}
            \union Errors(r, {REACH_MEMORY_LIMIT})
       [] HasInner(r) /\ r.server_id # SERVER_ID -> Errors(r, {SERVER_ID_MISMATCH})
       [] r.op = OPCODE_READ ->
            {Response(r.op, SUCCESS, Body[r.fid])}
            \union Errors(r, {REACH_MEMORY_LIMIT}
                             \union (IF client[c].acked THEN {} ELSE {FILE_NOT_FOUND}))
       [] r.op = OPCODE_WRITE ->
            Errors(r, IF client[c].acked THEN {FILE_EXISTS}
                      ELSE {SUCCESS, FILE_EXISTS, CHUNK_UNAVAILABLE})
       [] OTHER -> {}

\* What a client has received is the beginning of a right answer to its
\* request, byte for byte: a read gives back exactly what was written, also
\* after a restart, and never fails to find or to verify a file whose write
\* was acknowledged before the read was sent (spy_write_handler,
\* spy_read_file, spy_handle_read, spy_buffer_adler32).
ResponseIntact ==
  \A c \in Clients :
    LET got == client[c].got \o proc.sock[c].out IN
    got # <<>> => \E r \in Expected(c) : IsPrefix(got, r)

Record ==
  [fid \in Fids |->
     MetaCells([fid |-> fid, ref |-> 1, size |-> Len(Body[fid]),
                checksum |-> Adler(Body[fid]), timestamp |-> TIMESTAMP]) \o Body[fid]]

\* A start never fails on a chunk the server wrote, whatever the size of the
\* parser's buffer and however full the chunk is; the index finds every
\* acknowledged file, and every entry of it is the place of that file's
\* record (spy_parse_next_file, spy_setup_chunk, spy_write_file).  Here a chunk
\* file is created with its superblock in one step; module SpyServer has the
\* crash between the two, which does make a start fail.
Recovered ==
  /\ mode # "failed"
  /\ mode = "up" =>
       /\ \A e \in proc.index : /\ e.fid \in Fids
                                /\ e.size = Len(Record[e.fid])
                                /\ e.offset + e.size <= CHUNK_SIZE
                                /\ Bytes(file, e.offset, e.size) = Record[e.fid]
       /\ acked \subseteq {e.fid : e \in proc.index}

Held(c) == IF proc.conn[c] = NULL THEN 0
           ELSE Len(proc.conn[c].request.mem_blocks) + Len(proc.conn[c].rsp_body.mem_blocks)

\* No memory block is lost and none is in two places: what the connections
\* hold and what is free is what was allocated, within the limit, and
\* mem_blocks_used counts what they hold (spy_rw_buffer_expand,
\* spy_rw_buffer_reset, spy_free_client_connection).
BlocksAccounted ==
  LET held == FoldSet(LAMBDA c, n : n + Held(c), 0, Clients) IN
  /\ proc.pool.used = held
  /\ proc.pool.free + held = proc.pool.alloc
  /\ proc.pool.alloc <= (IF PREALLOC > LIMIT THEN PREALLOC ELSE LIMIT)

\* The loop watches exactly the connections that wait for their client, and
\* the kernel watches what the loop believes; an event still to be handled
\* belongs to a descriptor that has not been closed since it fired; a
\* connection whose job a worker has is watched for nothing, so that the
\* worker alone touches its buffers (aeCreateFileEvent, aeDeleteFileEvent,
\* spy_free_client_connection, spy_handle_read, spy_handle_write).
EventsAgree ==
  LET el == proc.el
      live == {listen_fd, event_fd}
              \union {proc.conn[c].fd : c \in {d \in Clients : proc.conn[d] # NULL}}
  IN mode = "up" =>
       /\ el.mask = el.epoll
       /\ el.maxfd = MaxFdBelow(el.mask, MAX_FD + 1)
       /\ \A fd \in Fds : fd \notin live => el.mask[fd] = AE_NONE /\ fired[fd] = AE_NONE
       /\ \A c \in Clients :
            /\ proc.job[c] # NULL => /\ proc.conn[c] # NULL
                                     /\ el.mask[proc.conn[c].fd] = AE_NONE
            /\ proc.conn[c] # NULL /\ proc.job[c] = NULL =>
                 /\ el.owner[proc.conn[c].fd] = c
                 /\ (IF proc.conn[c].state = "SEND_RSP" THEN AE_WRITABLE ELSE AE_READABLE)
                      \in el.mask[proc.conn[c].fd]

\* The server has accepted the connection and then let go of it, open.
Forgotten(c) == proc.sock[c].state = "open" /\ proc.conn[c] = NULL

\* Nothing left to do means nobody is waiting: when no event is ready, no
\* worker has a job and the clients have sent and read all they can, every
\* request has been answered or its connection closed.  No event is lost
\* between the sockets, the loop and the workers (spy_send_response_if_needed,
\* spy_reset_client_connection, aeApiPoll, spy_wq_thread_done).  The one
\* exception is a client whose descriptor the loop has no slot for: it is
\* stranded, because spy_create_client_connection neither watches nor closes
\* what was accepted; only a descriptor past DEF_MAX_CLIENTS meets this.
NoRequestStranded ==
  /\ mode = "up"
  /\ fired = Nothing
  /\ \A c \in Clients :
       /\ proc.job[c] # NULL => proc.job[c].at = "done"
       /\ client[c].tosend = <<>> /\ proc.sock[c].out = <<>>
  /\ aeApiPoll(proc.el, Ready(proc), Closed(proc)) = Nothing
  => /\ \A c \in Clients : client[c].req = NoRequest \/ Forgotten(c)
     /\ {c \in Clients : Forgotten(c)} # {} => proc.leaked # {}
     /\ \A fd \in proc.leaked : fd >= proc.el.setsize
=============================================================================
