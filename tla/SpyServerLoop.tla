--------------------------- MODULE SpyServerLoop ----------------------------
(***************************************************************************)
(* What the event loop does to connections, jobs and lists, and that every *)
(* step keeps them consistent: no chunk is on two lists, no job outlives   *)
(* its connection, no write waits for a chunk it could have.  And that the *)
(* handlers, the callbacks and the cron keep the chunk files in order.     *)
(***************************************************************************)
EXTENDS SpyServerFacts

-----------------------------------------------------------------------------
(* What the event loop does, case by case.                                 *)

\* c is answered or closed.
Leaves(c) ==
  /\ \A d \in Conns \ {c} : conn'[d] = conn[d]
  /\ conn'[c].state # "PROCESS_REQUEST"

\* c waits for its job.
Awaits(c) ==
  /\ \A d \in Conns \ {c} : conn'[d] = conn[d]
  /\ conn'[c].state = "PROCESS_REQUEST"
  /\ ~conn'[c].readable

ListsKept == UNCHANGED <<chunks, writing_chunks, pending_writes, pending_writes_size>>

Answers(c) == Leaves(c) /\ ListsKept /\ job' = job

AsksOther(c) ==
  /\ Awaits(c)
  /\ ListsKept
  /\ \E j \in Job : /\ j.kind \in {"read", "check", "dump"}
                    /\ j.phase = "queued"
                    /\ job' = [job EXCEPT ![c] = j]

LosesChunk(c) ==
  /\ Leaves(c)
  /\ \E i \in 1..Len(chunks) : TakeChunk(i)
  /\ UNCHANGED <<job, pending_writes, pending_writes_size>>

StartsWrite(c) ==
  /\ Awaits(c)
  /\ \E f \in Fids, i \in 1..Len(chunks) :
       /\ TakeChunk(i)
       /\ Fits(chunks[i], f)
       /\ job' = [job EXCEPT ![c] =
                    WriteJob(f, chunks[i], chunk[chunks[i]].current_offset)]
  /\ UNCHANGED <<pending_writes, pending_writes_size>>

PostponesWrite(c) ==
  /\ Awaits(c)
  /\ \E f \in Fids :
       /\ \A ch \in Range(chunks) : ~Fits(ch, f)
       /\ job' = [job EXCEPT ![c] = PendingJob(f)]
  /\ pending_writes' = Append(pending_writes, c)
  /\ pending_writes_size' = pending_writes_size + 1
  /\ UNCHANGED <<chunks, writing_chunks>>

\* The oldest n pending writes go; the others get older at most.
Abandons(n) ==
  /\ \A d \in Oldest(n) : job'[d] = NoJob /\ conn'[d].state # "PROCESS_REQUEST"
  /\ \A d \in Conns \ Oldest(n) :
       /\ \/ conn'[d] = conn[d]
          \/ conn[d].state = "RECEIVE_HDR" /\ conn'[d].state # "PROCESS_REQUEST"
       /\ \/ job'[d] = job[d]
          \/ /\ job[d].phase = "pending"
             /\ job'[d].kind = job[d].kind
             /\ job'[d].fid = job[d].fid
             /\ job'[d].phase = job[d].phase
  /\ IsInjective(pending_writes')
  /\ Range(pending_writes') = Range(pending_writes) \ Oldest(n)
  /\ pending_writes_size' = Len(pending_writes')
  /\ UNCHANGED <<chunks, writing_chunks>>

(* spy_reply_header and the reply that follows it, as an effect on the loop. *)
LEMMA ReplyEffect ==
  ASSUME TypeOK, NEW c \in Conns
  PROVE  /\ \A error \in Errors : conn' = Reply(c, error) => Leaves(c)
         /\ conn' = Await(c) => Awaits(c)
<1>1. conn \in [Conns -> Connection] /\ conn[c] \in Connection
  BY DEF TypeOK
<1>2. ASSUME NEW error \in Errors, conn' = Reply(c, error) PROVE Leaves(c)
  BY <1>1, <1>2 DEF Reply, Leaves, Connection
<1>3. ASSUME conn' = Await(c) PROVE Awaits(c)
  BY <1>1, <1>3 DEF Await, Awaits, Connection
<1> QED BY <1>2, <1>3

(* The effects a request handler can have on the lists of the loop.         *)
LEMMA RequestEffect ==
  ASSUME IInv, NEW c \in Conns, Request(c)
  PROVE  \/ Answers(c) \/ AsksOther(c) \/ LosesChunk(c)
         \/ StartsWrite(c) \/ PostponesWrite(c)
         \/ \E n \in 0..Len(pending_writes) : Abandons(n)
<1> USE DEF IInv
<1>0. TypeOK
  OBVIOUS
<1>1. ASSUME NEW error \in Errors, ErrorReply(c, error) PROVE Answers(c)
  BY <1>0, <1>1, ReplyEffect DEF ErrorReply, Answers, ListsKept
<1>2. ASSUME NEW f \in Fids, spy_handle_write(c, f), ChunkFor(f) # 0,
             WriteToChunk(c, f, ChunkFor(f))
      PROVE  LosesChunk(c) \/ StartsWrite(c)
  <2> DEFINE i == ChunkFor(f)
  <2>1. i \in 1..Len(chunks) /\ Fits(chunks[i], f)
    BY <1>0, <1>2, ChunkForFact
  <2> HIDE DEF i
  <2>2. TakeChunk(i) /\ UNCHANGED <<pending_writes, pending_writes_size>>
    BY <1>2 DEF WriteToChunk, i
  <2>3. CASE conn' = Reply(c, "IO_JOB_UNAVAILABLE") /\ job' = job
    BY <1>0, <2>1, <2>2, <2>3, ReplyEffect DEF LosesChunk, Errors
  <2>4. CASE conn' = Await(c) /\ job' = [job EXCEPT ![c] =
                     WriteJob(f, chunks[i], chunk[chunks[i]].current_offset)]
    BY <1>0, <2>1, <2>2, <2>4, ReplyEffect, Zenon DEF StartsWrite
  <2> QED BY <1>2, <2>3, <2>4 DEF WriteToChunk, i
<1>3. ASSUME NEW f \in Fids, spy_handle_write(c, f), ChunkFor(f) = 0, WriteLater(c, f)
      PROVE  Answers(c) \/ PostponesWrite(c)
  <2>1. \A ch \in Range(chunks) : ~Fits(ch, f)
    BY <1>0, <1>3, ChunkForFact
  <2>2. CASE \E error \in Errors : ErrorReply(c, error)
    BY <1>1, <2>2
  <2>3. CASE /\ conn' = Await(c)
             /\ job' = [job EXCEPT ![c] = PendingJob(f)]
             /\ pending_writes' = Append(pending_writes, c)
             /\ pending_writes_size' = pending_writes_size + 1
             /\ UNCHANGED <<chunks, writing_chunks>>
    BY <1>0, <2>1, <2>3, ReplyEffect, Zenon DEF PostponesWrite
  <2> QED BY <1>3, <2>2, <2>3 DEF WriteLater, Errors
<1>4. ASSUME NEW f \in Fids, spy_handle_write(c, f)
      PROVE  Answers(c) \/ LosesChunk(c) \/ StartsWrite(c) \/ PostponesWrite(c)
  BY <1>1, <1>2, <1>3, <1>4 DEF spy_handle_write, Errors
<1>5. ASSUME NEW j \in Job, j.kind \in {"read", "check", "dump"}, j.phase = "queued",
             conn' = Await(c), job' = [job EXCEPT ![c] = j], ListsKept
      PROVE  AsksOther(c)
  BY <1>0, <1>5, ReplyEffect, Zenon DEF AsksOther
<1>6. ASSUME NEW f \in Fids, spy_handle_read(c, f) PROVE Answers(c) \/ AsksOther(c)
  <2>1. ReadJob(f) \in Job /\ ReadJob(f).kind = "read" /\ ReadJob(f).phase = "queued"
    BY <1>0 DEF TypeOK, Entry, ReadJob, JobOf, Job
  <2> QED BY <1>1, <1>5, <1>6, <2>1 DEF spy_handle_read, Errors, ListsKept
<1>7. ASSUME NEW kind \in {"check", "dump"}, NEW ch \in Chunks
      PROVE  /\ OtherJob(kind, ch) \in Job
             /\ OtherJob(kind, ch).kind = kind
             /\ OtherJob(kind, ch).phase = "queued"
  BY JobTypes DEF OtherJob, JobOf
<1>8. ASSUME NEW ch \in Chunks, spy_dump_chunk(c, ch) PROVE Answers(c) \/ AsksOther(c)
  BY <1>1, <1>5, <1>7, <1>8 DEF spy_dump_chunk, Errors, ListsKept
<1>9. ASSUME spy_handle_check_disk(c) PROVE Answers(c) \/ AsksOther(c)
  <2>1. files \subseteq Chunks
    BY <1>0 DEF TypeOK
  <2> QED BY <1>1, <1>5, <1>7, <1>9, <2>1 DEF spy_handle_check_disk, Errors, ListsKept
<1>10. ASSUME spy_handle_ping(c) PROVE Answers(c)
  BY <1>0, <1>10 DEF spy_handle_ping, Answers, ListsKept, Leaves, TypeOK
<1>11. ASSUME spy_query_infos(c) PROVE Answers(c)
  BY <1>1, <1>11 DEF spy_query_infos, Errors
<1>12. ASSUME spy_kill_pending_writes(c)
       PROVE  \E n \in 0..Len(pending_writes) : Abandons(n)
  <2> DEFINE n == Len(pending_writes)
  <2>1. n \in 0..Len(pending_writes) /\ IsInjective(pending_writes) /\ n \in Nat
    BY <1>0, LenProperties DEF TypeOK, JobHasConnection
  <2>2. Abandon(n, Reply(c, "SUCCESS"), "KILLED")
    BY <1>12 DEF spy_kill_pending_writes
  <2>3. /\ Len(pending_writes') = Len(pending_writes) - n
        /\ IsInjective(pending_writes')
        /\ Range(pending_writes') = Range(pending_writes) \ Oldest(n)
        /\ Oldest(n) \subseteq Conns
    BY <1>0, <2>1, <2>2, AbandonFact
  <2>4. pending_writes_size' = Len(pending_writes')
    BY <2>1, <2>2, <2>3, Zenon DEF Abandon, Lists
  <2>5. ASSUME NEW d \in Oldest(n)
        PROVE  job'[d] = NoJob /\ conn'[d].state # "PROCESS_REQUEST"
    <3>1. /\ conn'[d] = [Reply(c, "SUCCESS")[d] EXCEPT !.state = "SEND_RSP",
                                                       !.error = "KILLED"]
          /\ job'[d] = NoJob
      BY <1>12, <2>2, <2>3, Zenon DEF Abandon, spy_kill_pending_writes
    <3>2. Reply(c, "SUCCESS")[d] \in Connection
      BY <1>0, <2>3, ReplyType DEF TypeOK, Errors
    <3> QED BY <3>1, <3>2 DEF Connection
  <2>6. ASSUME NEW d \in Conns \ Oldest(n)
        PROVE  /\ \/ conn'[d] = conn[d]
                  \/ conn[d].state = "RECEIVE_HDR" /\ conn'[d].state # "PROCESS_REQUEST"
               /\ job'[d] = job[d]
    <3>1. conn'[d] = Reply(c, "SUCCESS")[d] /\ job'[d] = job[d]
      BY <1>12, <2>2, Zenon DEF Abandon, spy_kill_pending_writes
    <3>2. conn[c].state = "RECEIVE_HDR"
      BY <1>12 DEF spy_kill_pending_writes, Requested
    <3> QED BY <1>0, <3>1, <3>2 DEF Reply, TypeOK, Connection
  <2>7. UNCHANGED <<chunks, writing_chunks>>
    BY <1>12 DEF spy_kill_pending_writes
  <2> QED BY <2>1, <2>3, <2>4, <2>5, <2>6, <2>7 DEF Abandons
<1> QED BY <1>4, <1>6, <1>8, <1>9, <1>10, <1>11, <1>12 DEF Request

(* The cron ends a prefix of the pending writes.                            *)
LEMMA CronEffect ==
  ASSUME IInv, spy_server_cron
  PROVE  \E n \in 0..Len(pending_writes) : Abandons(n)
<1> USE DEF IInv
<1>0. TypeOK /\ IsInjective(pending_writes) /\ Len(pending_writes) \in Nat
  BY LenProperties DEF TypeOK, JobHasConnection
<1>1. PICK n \in 0..Len(pending_writes) : n = TimedOut
  BY <1>0, TimedOutFact
<1>2. Abandon(n, conn, "CHUNK_UNAVAILABLE")
  BY <1>1 DEF spy_server_cron
<1>3. /\ Len(pending_writes') = Len(pending_writes) - n
      /\ IsInjective(pending_writes')
      /\ Range(pending_writes') = Range(pending_writes) \ Oldest(n)
      /\ Oldest(n) \subseteq Conns
  BY <1>0, <1>2, AbandonFact
<1>4. pending_writes_size' = Len(pending_writes')
  BY <1>2, <1>3, Zenon DEF Abandon, Lists
<1>5. \A d \in Conns :
        job'[d] = IF d \in Oldest(n) THEN NoJob
                  ELSE IF job[d].phase = "pending" THEN [job[d] EXCEPT !.age = @ + 1]
                  ELSE job[d]
  BY <1>1 DEF spy_server_cron
<1>6. ASSUME NEW d \in Oldest(n)
      PROVE  job'[d] = NoJob /\ conn'[d].state # "PROCESS_REQUEST"
  <2>1. conn[d] \in Connection
    BY <1>0, <1>3 DEF TypeOK
  <2>2. conn'[d] = [conn[d] EXCEPT !.state = "SEND_RSP", !.error = "CHUNK_UNAVAILABLE"]
    BY <1>2, <1>3, Zenon DEF Abandon
  <2> QED BY <1>3, <1>5, <2>1, <2>2, Zenon DEF Connection
<1>7. ASSUME NEW d \in Conns \ Oldest(n)
      PROVE  /\ conn'[d] = conn[d]
             /\ \/ job'[d] = job[d]
                \/ /\ job[d].phase = "pending"
                   /\ job'[d].kind = job[d].kind
                   /\ job'[d].fid = job[d].fid
                   /\ job'[d].phase = job[d].phase
  <2>1. conn'[d] = conn[d]
    BY <1>2, Zenon DEF Abandon
  <2>2. job[d] \in Job
    BY <1>0 DEF TypeOK
  <2>3. job'[d] = job[d] \/ (job[d].phase = "pending" /\ job'[d] = [job[d] EXCEPT !.age = @ + 1])
    BY <1>5
  <2> QED BY <2>1, <2>2, <2>3 DEF Job
<1>8. UNCHANGED <<chunks, writing_chunks>>
  BY DEF spy_server_cron
<1> QED BY <1>3, <1>4, <1>6, <1>7, <1>8 DEF Abandons

\* The job of c is over and nothing else changes.
Ends(c) ==
  /\ Leaves(c)
  /\ ListsKept
  /\ job' = [job EXCEPT ![c] = NoJob]
  /\ UNCHANGED <<index, acked>>

\* The write of c is over and its chunk passed on to a pending write.
PassesChunk(c) ==
  /\ Leaves(c)
  /\ \E i \in 1..Len(pending_writes) :
       /\ Fits(job[c].chunk, job[pending_writes[i]].fid)
       /\ ServePending(c, job[c].chunk, i)

\* The write of c is over and nobody waits for the chunk.
GivesChunkBack(c) ==
  /\ Leaves(c)
  /\ \A d \in Range(pending_writes) : ~Fits(job[c].chunk, job[d].fid)
  /\ ReturnChunk(c, job[c].chunk)

(* The effects a done callback can have on the lists of the loop.           *)
LEMMA DoneEffect ==
  ASSUME IInv, NEW c \in Conns, Done(c)
  PROVE  \/ Ends(c)
         \/ /\ c \in Writers
            /\ job[c].phase = "done"
            /\ PassesChunk(c) \/ GivesChunkBack(c)
            /\ Answer(c, job[c].fid)
<1> USE DEF IInv
<1>0. TypeOK
  OBVIOUS
<1>1. CASE spy_write_file_done(c)
  <2> DEFINE f == job[c].fid
             ch == job[c].chunk
  <2>1. c \in Writers /\ job[c].phase = "done"
    BY <1>1 DEF spy_write_file_done, Working, Writers
  <2>2. ch \in Chunks
    BY <2>1, WriterChunk
  <2>3. CASE DuplicateDone(c)
    BY <1>0, <2>3, ReplyEffect DEF DuplicateDone, Ends, ListsKept, Errors
  <2>4. CASE /\ Answer(c, f)
             /\ IF PendingFor(ch) # 0 THEN ServePending(c, ch, PendingFor(ch))
                                      ELSE ReturnChunk(c, ch)
    <3>1. Leaves(c)
      BY <1>0, <2>4, ReplyEffect DEF Answer, Errors
    <3>2. CASE PendingFor(ch) # 0
      BY <1>0, <2>1, <2>2, <2>4, <3>1, <3>2, PendingForFact DEF PassesChunk
    <3>3. CASE PendingFor(ch) = 0
      BY <1>0, <2>1, <2>2, <2>4, <3>1, <3>3, PendingForFact DEF GivesChunkBack
    <3> QED BY <2>1, <3>2, <3>3
  <2> QED BY <1>1, <2>3, <2>4 DEF spy_write_file_done
<1>2. CASE spy_read_file_done(c) \/ spy_check_chunk_done(c)
  <2>1. \E error \in Errors : conn' = Reply(c, error)
    BY <1>2 DEF spy_read_file_done, spy_check_chunk_done, Errors
  <2>2. Leaves(c)
    BY <1>0, <2>1, ReplyEffect
  <2> QED BY <1>2, <2>2 DEF spy_read_file_done, spy_check_chunk_done, Ends, ListsKept
<1>3. CASE spy_dump_chunkfile_done(c)
  <2>1. Leaves(c)
    BY <1>0, <1>3 DEF spy_dump_chunkfile_done, spy_free_client_connection, Leaves,
       Closed, Receiving, TypeOK
  <2> QED BY <1>3, <2>1 DEF spy_dump_chunkfile_done, Ends, ListsKept
<1> QED BY <1>1, <1>2, <1>3 DEF Done

-----------------------------------------------------------------------------
(* The lists, the connections of the jobs and the pending writes.          *)

\* The part of the invariant the event loop keeps by itself.
LoopInv == Lists /\ JobHasConnection /\ NoStrandedPending

\* A job takes part in it through these fields.
SameRole(d) ==
  /\ job'[d].kind = job[d].kind
  /\ job'[d].fid = job[d].fid
  /\ job'[d].phase = "pending" <=> job[d].phase = "pending"

(* A step that changes no list and no role of a job.                        *)
LEMMA LoopKept ==
  ASSUME LoopInv, ListsKept, chunk' = chunk,
         \A d \in Conns : SameRole(d),
         \A d \in Conns : \/ conn'[d] = conn[d]
                          \/ /\ conn[d].state # "PROCESS_REQUEST"
                             /\ conn'[d].state # "PROCESS_REQUEST"
  PROVE  LoopInv'
<1> USE DEF LoopInv, SameRole, ListsKept
<1>1. Lists'
  BY DEF Lists
<1>2. JobHasConnection'
  <2>1. \A d \in Conns : job'[d].kind # "none" <=> conn'[d].state = "PROCESS_REQUEST"
    BY DEF JobHasConnection
  <2>2. \A d \in Conns : job'[d].kind # "none" => ~conn'[d].readable
    BY DEF JobHasConnection
  <2>3. /\ Range(pending_writes') = {d \in Conns : job'[d].phase = "pending"}
        /\ IsInjective(pending_writes')
    BY DEF JobHasConnection
  <2> QED BY <2>1, <2>2, <2>3 DEF JobHasConnection
<1>3. NoStrandedPending'
  <2>1. Range(pending_writes) \subseteq Conns
    BY DEF JobHasConnection
  <2> QED BY <2>1 DEF NoStrandedPending, Fits
<1> QED BY <1>1, <1>2, <1>3

(* The socket handlers keep the lists of the loop.                          *)
LEMMA LoopSocket ==
  ASSUME IInv, NEW c \in Conns, Socket(c)
  PROVE  LoopInv'
<1>1. \A d \in Conns : \/ conn'[d] = conn[d]
                       \/ /\ conn[d].state # "PROCESS_REQUEST"
                          /\ conn'[d].state # "PROCESS_REQUEST"
  <2>1. conn \in [Conns -> Connection]
    BY DEF IInv, TypeOK
  <2>2. conn[c].state # "PROCESS_REQUEST"
    BY DEF IInv, JobHasConnection, Socket, spy_accept_handler, spy_read_handler_closes,
           spy_write_handler
  <2>3. conn' = [conn EXCEPT ![c] = Receiving] \/ conn' = [conn EXCEPT ![c] = Closed]
    BY DEF Socket, spy_accept_handler, spy_read_handler_closes, spy_write_handler,
           spy_free_client_connection
  <2> QED BY <2>1, <2>2, <2>3 DEF Receiving, Closed
<1>2. LoopInv /\ ListsKept /\ chunk' = chunk /\ \A d \in Conns : SameRole(d)
  BY SocketFrame DEF IInv, LoopInv, ListsKept, SameRole
<1> QED BY <1>1, <1>2, LoopKept

(* A chunk leaves the allocation list.                                      *)
LEMMA TakeChunkFact ==
  ASSUME TypeOK, Lists, NEW i \in 1..Len(chunks), TakeChunk(i)
  PROVE  /\ chunks[i] \in files
         /\ chunks[i] \notin writing_chunks
         /\ IsInjective(chunks')
         /\ Range(chunks') = Range(chunks) \ {chunks[i]}
         /\ writing_chunks' = writing_chunks \cup {chunks[i]}
         /\ writing_chunks' \cap Range(chunks') = {}
<1>1. /\ chunks \in Seq(files) /\ IsInjective(chunks)
      /\ chunks[i] \in files /\ chunks[i] \in Range(chunks)
  BY ElementOfSeq, LenProperties DEF TypeOK, Lists, Range
<1>2. chunks' = list_del(chunks, i) /\ writing_chunks' = writing_chunks \cup {chunks[i]}
  BY DEF TakeChunk
<1>3. IsInjective(chunks') /\ Range(chunks') = Range(chunks) \ {chunks[i]}
  BY <1>1, <1>2, RemoveAtInjective
<1> QED BY <1>1, <1>2, <1>3 DEF Lists

(* The oldest pending writes are killed or time out.                        *)
LEMMA LoopAbandons ==
  ASSUME TypeOK, LoopInv, chunk' = chunk,
         NEW n \in 0..Len(pending_writes), Abandons(n)
  PROVE  LoopInv'
<1> USE DEF LoopInv
<1>1. /\ \A d \in Oldest(n) : job'[d] = NoJob /\ conn'[d].state # "PROCESS_REQUEST"
      /\ \A d \in Conns \ Oldest(n) :
           /\ SameRole(d)
           /\ \/ conn'[d] = conn[d]
              \/ conn[d].state = "RECEIVE_HDR" /\ conn'[d].state # "PROCESS_REQUEST"
  BY DEF Abandons, SameRole
<1>2. /\ NoJob.kind = "none" /\ NoJob.phase = "none"
  BY DEF NoJob, JobOf
<1>3. /\ IsInjective(pending_writes')
      /\ Range(pending_writes') = Range(pending_writes) \ Oldest(n)
      /\ pending_writes_size' = Len(pending_writes')
      /\ UNCHANGED <<chunks, writing_chunks>>
  BY DEF Abandons
<1>4. Lists'
  BY <1>1, <1>2, <1>3 DEF Lists, SameRole
<1>5. JobHasConnection'
  BY <1>1, <1>2, <1>3 DEF JobHasConnection, SameRole
<1>6. NoStrandedPending'
  BY <1>1, <1>3 DEF NoStrandedPending, Fits, SameRole, JobHasConnection
<1> QED BY <1>4, <1>5, <1>6

(* One connection changes, and its job with it, without being pending.      *)
LEMMA OneConnection ==
  ASSUME JobHasConnection, NEW c \in Conns,
         \A d \in Conns \ {c} : job'[d] = job[d] /\ conn'[d] = conn[d],
         job'[c].kind # "none" <=> conn'[c].state = "PROCESS_REQUEST",
         job'[c].kind # "none" => ~conn'[c].readable,
         job[c].phase # "pending", job'[c].phase # "pending",
         pending_writes' = pending_writes
  PROVE  JobHasConnection'
<1>1. \A d \in Conns : job'[d].kind # "none" <=> conn'[d].state = "PROCESS_REQUEST"
  BY DEF JobHasConnection
<1>2. \A d \in Conns : job'[d].kind # "none" => ~conn'[d].readable
  BY DEF JobHasConnection
<1>3. \A d \in Conns : job'[d].phase = "pending" <=> job[d].phase = "pending"
  OBVIOUS
<1> QED BY <1>1, <1>2, <1>3 DEF JobHasConnection

(* The request handlers keep the lists of the loop.                         *)
LEMMA LoopRequest ==
  ASSUME IInv, NEW c \in Conns, Request(c)
  PROVE  LoopInv'
<1> USE DEF LoopInv
<1>0. /\ TypeOK /\ Lists /\ JobHasConnection /\ NoStrandedPending
      /\ job \in [Conns -> Job] /\ pending_writes \in Seq(Conns)
      /\ conn[c].state = "RECEIVE_HDR"
      /\ chunk' = chunk
  BY RequestFrame DEF IInv, TypeOK
<1>1. job[c].kind = "none" /\ job[c].phase # "pending" /\ c \notin Range(pending_writes)
  BY <1>0 DEF JobHasConnection, Lists
<1>2. CASE Answers(c)
  BY <1>0, <1>2, LoopKept DEF Answers, Leaves, SameRole
<1>3. CASE AsksOther(c)
  <2>1. PICK j \in Job : /\ j.kind \in {"read", "check", "dump"}
                         /\ j.phase = "queued"
                         /\ job' = [job EXCEPT ![c] = j]
    BY <1>3, Zenon DEF AsksOther
  <2>2. job'[c] = j /\ \A d \in Conns \ {c} : job'[d] = job[d]
    BY <1>0, <2>1
  <2>3. Lists'
    BY <1>0, <1>3, <2>1, <2>2 DEF AsksOther, ListsKept, Lists
  <2>4. JobHasConnection'
    <3>1. Awaits(c) /\ pending_writes' = pending_writes
      BY <1>3 DEF AsksOther, ListsKept
    <3>2. job'[c].kind # "none" /\ job'[c].phase # "pending"
      BY <2>1, <2>2
    <3> QED BY <1>0, <1>1, <2>2, <3>1, <3>2, OneConnection DEF Awaits
  <2>5. NoStrandedPending'
    BY <1>0, <1>1, <1>3, <2>2 DEF AsksOther, ListsKept, NoStrandedPending, Fits,
                                  JobHasConnection
  <2> QED BY <2>3, <2>4, <2>5
<1>4. CASE LosesChunk(c)
  <2>1. PICK i \in 1..Len(chunks) : TakeChunk(i)
    BY <1>4 DEF LosesChunk
  <2>2. Lists' /\ Range(chunks') \subseteq Range(chunks)
    BY <1>0, <1>4, <2>1, TakeChunkFact DEF LosesChunk, Lists
  <2>3. JobHasConnection'
    BY <1>0, <1>1, <1>4 DEF LosesChunk, Leaves, JobHasConnection
  <2>4. NoStrandedPending'
    BY <1>0, <1>4, <2>2 DEF LosesChunk, NoStrandedPending, Fits
  <2> QED BY <2>2, <2>3, <2>4
<1>5. CASE StartsWrite(c)
  <2>1. PICK f \in Fids, i \in 1..Len(chunks) :
          /\ TakeChunk(i)
          /\ job' = [job EXCEPT ![c] =
                       WriteJob(f, chunks[i], chunk[chunks[i]].current_offset)]
    BY <1>5, Zenon DEF StartsWrite
  <2>2. /\ job'[c].kind = "write" /\ job'[c].fid = f /\ job'[c].phase = "queued"
        /\ \A d \in Conns \ {c} : job'[d] = job[d]
    BY <1>0, <2>1 DEF WriteJob, JobOf
  <2>3. /\ IsInjective(chunks')
        /\ Range(chunks') \subseteq Range(chunks)
        /\ writing_chunks' \cap Range(chunks') = {}
    BY <1>0, <2>1, TakeChunkFact
  <2>4. Lists'
    BY <1>0, <1>5, <2>2, <2>3, Zenon DEF StartsWrite, Lists
  <2>5. JobHasConnection'
    <3>1. Awaits(c) /\ pending_writes' = pending_writes
      BY <1>5, Zenon DEF StartsWrite
    <3> QED BY <1>0, <1>1, <2>2, <3>1, OneConnection DEF Awaits
  <2>6. NoStrandedPending'
    BY <1>0, <1>1, <1>5, <2>2, <2>3 DEF StartsWrite, NoStrandedPending, Fits,
                                        JobHasConnection
  <2> QED BY <2>4, <2>5, <2>6
<1>6. CASE PostponesWrite(c)
  <2>1. PICK f \in Fids : /\ \A ch \in Range(chunks) : ~Fits(ch, f)
                          /\ job' = [job EXCEPT ![c] = PendingJob(f)]
    BY <1>6, Zenon DEF PostponesWrite
  <2>2. /\ job'[c].kind = "write" /\ job'[c].fid = f /\ job'[c].phase = "pending"
        /\ \A d \in Conns \ {c} : job'[d] = job[d]
    BY <1>0, <2>1, Zenon DEF PendingJob, JobOf
  <2>3. /\ Range(pending_writes') = Range(pending_writes) \cup {c}
        /\ IsInjective(pending_writes')
        /\ Len(pending_writes') = Len(pending_writes) + 1
    <3>1. pending_writes' = Append(pending_writes, c)
      BY <1>6 DEF PostponesWrite
    <3>2. IsInjective(pending_writes)
      BY <1>0 DEF JobHasConnection
    <3>3. Range(pending_writes') = Range(pending_writes) \cup {c} /\ IsInjective(pending_writes')
      BY <1>0, <1>1, <3>1, <3>2, AppendInjectiveSet
    <3>4. Len(pending_writes') = Len(pending_writes) + 1
      BY <1>0, <3>1, AppendProperties
    <3> QED BY <3>3, <3>4
  <2>4. Lists'
    BY <1>0, <1>6, <2>2, <2>3 DEF PostponesWrite, Lists
  <2>5. JobHasConnection'
    <3>1. Awaits(c)
      BY <1>6 DEF PostponesWrite
    <3>2. \A d \in Conns : job'[d].kind # "none" <=> conn'[d].state = "PROCESS_REQUEST"
      BY <1>0, <2>2, <3>1 DEF Awaits, JobHasConnection
    <3>3. \A d \in Conns : job'[d].kind # "none" => ~conn'[d].readable
      BY <1>0, <2>2, <3>1 DEF Awaits, JobHasConnection
    <3>4. Range(pending_writes') = {d \in Conns : job'[d].phase = "pending"}
      BY <1>0, <2>2, <2>3 DEF JobHasConnection
    <3> QED BY <2>3, <3>2, <3>3, <3>4 DEF JobHasConnection
  <2>6. NoStrandedPending'
    BY <1>0, <1>1, <1>6, <2>1, <2>2, <2>3 DEF PostponesWrite, NoStrandedPending, Fits,
                                              JobHasConnection
  <2> QED BY <2>4, <2>5, <2>6
<1>7. ASSUME NEW n \in 0..Len(pending_writes), Abandons(n) PROVE LoopInv'
  BY <1>0, <1>7, LoopAbandons
<1> QED BY <1>2, <1>3, <1>4, <1>5, <1>6, <1>7, RequestEffect

(* The done callbacks keep the lists of the loop.                           *)
LEMMA LoopDone ==
  ASSUME IInv, NEW c \in Conns, Done(c)
  PROVE  LoopInv'
<1> USE DEF LoopInv
<1>0. /\ TypeOK /\ Lists /\ JobHasConnection /\ NoStrandedPending
      /\ job \in [Conns -> Job] /\ pending_writes \in Seq(Conns)
      /\ chunk' = chunk
      /\ job[c].kind # "none" /\ job[c].phase = "done"
  BY DoneFrame DEF IInv, TypeOK
<1>1. c \notin Range(pending_writes)
  BY <1>0 DEF JobHasConnection
<1>2. NoJob.kind = "none" /\ NoJob.phase = "none"
  BY DEF NoJob, JobOf
<1>3. CASE Ends(c)
  <2>1. job'[c] = NoJob /\ \A d \in Conns \ {c} : job'[d] = job[d]
    BY <1>0, <1>3 DEF Ends
  <2>2. Lists'
    BY <1>0, <1>2, <1>3, <2>1 DEF Ends, ListsKept, Lists
  <2>3. JobHasConnection'
    <3>1. Leaves(c) /\ pending_writes' = pending_writes
      BY <1>3 DEF Ends, ListsKept
    <3> QED BY <1>0, <1>2, <2>1, <3>1, OneConnection DEF Leaves
  <2>4. NoStrandedPending'
    BY <1>0, <1>1, <1>3, <2>1 DEF Ends, ListsKept, NoStrandedPending, Fits,
                                  JobHasConnection
  <2> QED BY <2>2, <2>3, <2>4
<1>4. CASE PassesChunk(c)
  <2>1. PICK i \in 1..Len(pending_writes) : ServePending(c, job[c].chunk, i)
    BY <1>4 DEF PassesChunk
  <2> DEFINE d == pending_writes[i]
  <2>2. d \in Conns /\ d \in Range(pending_writes) /\ d # c
    BY <1>0, <1>1, ElementOfSeq, LenProperties DEF Range
  <2>3. job[d].kind = "write" /\ job[d].phase = "pending" /\ job[d].fid \in Fids
    BY <1>0, <2>2 DEF JobHasConnection, Lists
  <2>4. /\ IsInjective(pending_writes')
        /\ Range(pending_writes') = Range(pending_writes) \ {d}
        /\ Len(pending_writes') = Len(pending_writes) - 1
    BY <1>0, <2>1, RemoveAtInjective, RemoveAtProperties, Zenon DEF ServePending, JobHasConnection
  <2>5. /\ job'[c] = NoJob
        /\ job'[d] = WriteJob(job[d].fid, job[c].chunk, chunk[job[c].chunk].current_offset)
        /\ \A e \in Conns \ {c, d} : job'[e] = job[e]
    BY <1>0, <2>1, <2>2, Zenon DEF ServePending
  <2>6. job'[d].kind = "write" /\ job'[d].phase = "queued" /\ job'[d].fid = job[d].fid
    <3> DEFINE w == WriteJob(job[d].fid, job[c].chunk, chunk[job[c].chunk].current_offset)
    <3>1. w.kind = "write" /\ w.phase = "queued" /\ w.fid = job[d].fid
      BY Zenon DEF WriteJob, JobOf
    <3>2. job'[d] = w
      BY <2>5
    <3> HIDE DEF d, w
    <3> QED BY <3>1, <3>2, Zenon
  <2>7. /\ UNCHANGED <<chunks, writing_chunks>>
        /\ pending_writes_size' = pending_writes_size - 1
    BY <2>1 DEF ServePending
  <2>8. /\ \A e \in Conns \ {c} : conn'[e] = conn[e]
        /\ conn'[c].state # "PROCESS_REQUEST"
    BY <1>4 DEF PassesChunk, Leaves
  <2> HIDE DEF d
  <2>9. Lists'
    BY <1>0, <1>2, <2>2, <2>3, <2>4, <2>5, <2>6, <2>7, Zenon DEF Lists
  <2>10. JobHasConnection'
    <3>1. ASSUME NEW e \in Conns
          PROVE  job'[e].kind # "none" <=> conn'[e].state = "PROCESS_REQUEST"
      <4>1. CASE e = c
        BY <1>2, <2>5, <2>8, <4>1
      <4>2. CASE e = d
        BY <1>0, <2>2, <2>3, <2>6, <2>8, <4>2 DEF JobHasConnection
      <4>3. CASE e # c /\ e # d
        BY <1>0, <2>5, <2>8, <4>3 DEF JobHasConnection
      <4> QED BY <4>1, <4>2, <4>3
    <3>2. \A e \in Conns : job'[e].kind # "none" => ~conn'[e].readable
      BY <1>0, <1>2, <2>2, <2>3, <2>5, <2>6, <2>8, Zenon DEF JobHasConnection
    <3>3. Range(pending_writes') = {e \in Conns : job'[e].phase = "pending"}
      BY <1>0, <1>2, <2>2, <2>3, <2>4, <2>5, <2>6 DEF JobHasConnection
    <3> QED BY <2>4, <3>1, <3>2, <3>3 DEF JobHasConnection
  <2>11. NoStrandedPending'
    BY <1>0, <1>1, <2>4, <2>5, <2>7 DEF NoStrandedPending, Fits, JobHasConnection
  <2> QED BY <2>9, <2>10, <2>11
<1>5. CASE GivesChunkBack(c) /\ c \in Writers
  <2> DEFINE ch == job[c].chunk
  <2>1. ch \in files /\ ch \in writing_chunks
    BY <1>5, WriterChunk DEF IInv, Owners
  <2>2. chunks \in Seq(files) /\ ch \notin Range(chunks)
    BY <1>0, <2>1 DEF TypeOK, Lists
  <2>3. ReturnChunk(c, ch)
    BY <1>5 DEF GivesChunkBack
  <2>4. Range(chunks') = Range(chunks) \cup {ch} /\ IsInjective(chunks')
    BY <1>0, <2>1, <2>2, <2>3, AppendInjectiveSet DEF ReturnChunk, Lists
  <2>5. job'[c] = NoJob /\ \A d \in Conns \ {c} : job'[d] = job[d]
    BY <1>0, <2>3 DEF ReturnChunk
  <2>6. /\ writing_chunks' = writing_chunks \ {ch}
        /\ UNCHANGED <<pending_writes, pending_writes_size>>
    BY <2>3 DEF ReturnChunk
  <2>7. \A d \in Range(pending_writes) : ~Fits(ch, job[d].fid)
    BY <1>5 DEF GivesChunkBack
  <2> HIDE DEF ch
  <2>8. Lists'
    BY <1>0, <1>2, <2>2, <2>4, <2>5, <2>6 DEF Lists
  <2>9. JobHasConnection'
    <3>1. Leaves(c) /\ pending_writes' = pending_writes
      BY <1>5, <2>6 DEF GivesChunkBack
    <3> QED BY <1>0, <1>2, <2>5, <3>1, OneConnection DEF Leaves
  <2>10. NoStrandedPending'
    BY <1>0, <1>1, <2>4, <2>5, <2>6, <2>7 DEF NoStrandedPending, Fits, JobHasConnection
  <2> QED BY <2>8, <2>9, <2>10
<1> QED BY <1>3, <1>4, <1>5, DoneEffect

(* A worker moves its own job and, of the memory of chunks, its own chunk.  *)
LEMMA WorkerEffect ==
  ASSUME IInv, NEW c \in Conns, Worker(c)
  PROVE  /\ \A d \in Conns \ {c} : job'[d] = job[d]
         /\ job'[c].kind = job[c].kind
         /\ job'[c].fid = job[c].fid
         /\ job'[c].chunk = job[c].chunk
         /\ job'[c].offset = job[c].offset
         /\ job[c].phase # "pending" /\ job'[c].phase # "pending"
         /\ c \in Writers \/ UNCHANGED <<sb, cells, chunk, sb_failed>>
<1>1. job \in [Conns -> Job] /\ job[c] \in Job
  BY DEF IInv, TypeOK
<1>2. \/ \E phase \in {"meta", "body", "done"} : job' = [job EXCEPT ![c].phase = phase]
      \/ \E ret \in {0, -1} : job' = Finish(c, ret)
  BY DEF Worker, spy_write_file_meta, spy_write_file_body, spy_write_file_superblock,
         spy_read_file, spy_check_chunk, spy_dump_chunkfile
<1>3. job[c].phase # "pending"
  BY DEF Worker, spy_write_file_meta, spy_write_file_body, spy_write_file_superblock,
         spy_read_file, spy_check_chunk, spy_dump_chunkfile, Working
<1>4. c \in Writers \/ UNCHANGED <<sb, cells, chunk, sb_failed>>
  BY DEF Worker, spy_write_file_meta, spy_write_file_body, spy_write_file_superblock,
         spy_read_file, spy_check_chunk, spy_dump_chunkfile, Working, Writers
<1>5. /\ \A d \in Conns \ {c} : job'[d] = job[d]
      /\ job'[c].kind = job[c].kind
      /\ job'[c].fid = job[c].fid
      /\ job'[c].chunk = job[c].chunk
      /\ job'[c].offset = job[c].offset
      /\ job'[c].phase # "pending"
  <2>1. CASE \E phase \in {"meta", "body", "done"} : job' = [job EXCEPT ![c].phase = phase]
    <3>1. PICK phase \in {"meta", "body", "done"} : job' = [job EXCEPT ![c].phase = phase]
      BY <2>1, Zenon
    <3>2. /\ \A d \in Conns \ {c} : job'[d] = job[d]
          /\ job'[c] = [job[c] EXCEPT !.phase = phase]
      BY <1>1, <3>1
    <3> QED BY <1>1, <3>2 DEF Job
  <2>2. CASE \E ret \in {0, -1} : job' = Finish(c, ret)
    <3>1. PICK ret \in {0, -1} : job' = Finish(c, ret)
      BY <2>2
    <3>2. /\ \A d \in Conns \ {c} : job'[d] = job[d]
          /\ job'[c] = [job[c] EXCEPT !.phase = "done", !.retcode = ret]
      BY <1>1, <3>1 DEF Finish
    <3> QED BY <1>1, <3>2 DEF Job
  <2> QED BY <1>2, <2>1, <2>2
<1> QED BY <1>3, <1>4, <1>5

(* A worker touches no chunk but its own.                                   *)
LEMMA ChunkMemory ==
  ASSUME IInv, NEW c \in Conns, Worker(c), NEW ch \in Chunks,
         c \in Writers => ch # job[c].chunk
  PROVE  chunk'[ch] = chunk[ch] /\ sb'[ch] = sb[ch] /\ cells'[ch] = cells[ch]
         /\ (ch \in sb_failed' <=> ch \in sb_failed)
<1>0. /\ chunk \in [Chunks -> ChunkInfo] /\ sb \in [Chunks -> ChunkInfo]
      /\ cells \in [Chunks -> [Offsets -> (Fids \X Nat) \cup {Blank}]]
  BY DEF IInv, TypeOK
<1>1. CASE c \notin Writers
  BY <1>1, WorkerEffect, Zenon
<1>2. CASE c \in Writers
  <2>1. ch # job[c].chunk
    BY <1>2
  <2>2. CASE spy_write_file_meta(c)
    BY <1>0, <2>1, <2>2, Zenon DEF spy_write_file_meta, Pwrite
  <2>3. CASE spy_write_file_body(c)
    BY <1>0, <2>1, <2>3, Zenon DEF spy_write_file_body, Pwrite
  <2>4. CASE spy_write_file_superblock(c)
    BY <1>0, <2>1, <2>4 DEF spy_write_file_superblock
  <2>5. CASE spy_read_file(c) \/ spy_check_chunk(c) \/ spy_dump_chunkfile(c)
    BY <2>5, Zenon DEF spy_read_file, spy_check_chunk, spy_dump_chunkfile
  <2> QED BY <2>2, <2>3, <2>4, <2>5, Zenon DEF Worker
<1> QED BY <1>1, <1>2

(* The workers keep the lists of the loop.                                  *)
LEMMA LoopWorker ==
  ASSUME IInv, NEW c \in Conns, Worker(c)
  PROVE  LoopInv'
<1> USE DEF LoopInv
<1>0. TypeOK /\ Lists /\ JobHasConnection /\ NoStrandedPending /\ Owners
  BY DEF IInv
<1>1. \A d \in Conns : SameRole(d)
  BY WorkerEffect, Zenon DEF SameRole
<1>2. /\ UNCHANGED <<conn, chunks, writing_chunks, pending_writes, pending_writes_size>>
  BY WorkerFrames
<1>3. Lists'
  BY <1>0, <1>1, <1>2, Zenon DEF Lists, SameRole
<1>4. JobHasConnection'
  BY <1>0, <1>1, <1>2, Zenon DEF JobHasConnection, SameRole
<1>5. NoStrandedPending'
  <2>1. ASSUME NEW ch \in Range(chunks) PROVE chunk'[ch] = chunk[ch]
    <3>1. ch \in Chunks
      BY <1>0, ElementOfSeq, LenProperties DEF TypeOK, Range
    <3>2. c \in Writers => ch # job[c].chunk
      BY <1>0 DEF Owners, Lists
    <3> QED BY <3>1, <3>2, ChunkMemory, Zenon
  <2> QED BY <1>0, <1>1, <1>2, <2>1 DEF NoStrandedPending, Fits, SameRole, JobHasConnection
<1> QED BY <1>3, <1>4, <1>5

-----------------------------------------------------------------------------
(* Start, crash and restart.                                               *)

(* Without work the event loop's part of the invariant holds.               *)
LEMMA AtRestLoop == AtRest => LoopInv /\ Owners /\ Placement
<1> SUFFICES ASSUME AtRest PROVE LoopInv /\ Owners /\ Placement
  OBVIOUS
<1>1. Range(pending_writes) = {} /\ IsInjective(pending_writes) /\ Len(pending_writes) = 0
  BY EmptySeq DEF AtRest, Range, IsInjective
<1>2. \A c \in Conns : job[c].kind = "none" /\ job[c].phase = "none"
  BY DEF AtRest, NoJob, JobOf
<1>3. \A c \in Conns : conn[c].state = "CLOSED"
  BY DEF AtRest, Closed
<1>4. Lists
  BY <1>1, <1>2 DEF Lists, AtRest
<1>5. JobHasConnection
  BY <1>1, <1>2, <1>3 DEF JobHasConnection
<1>6. NoStrandedPending
  BY <1>1 DEF NoStrandedPending
<1>7. Writers = {}
  BY <1>2 DEF Writers
<1> QED BY <1>4, <1>5, <1>6, <1>7, Zenon DEF LoopInv, Owners, Placement

(* And so after a step.                                                     *)
LEMMA AtRestNext ==
  ASSUME AtRest'
  PROVE  LoopInv' /\ Owners' /\ Placement'
BY AtRestLoop, PTL

(* A process that starts has no work.                                       *)
LEMMA ResetFact ==
  ASSUME Reset
  PROVE  AtRest' /\ chunks' = <<>> /\ index' = [f \in Fids |-> NoEntry] /\ Indexed' = {}
<1>1. index' = [f \in Fids |-> NoEntry] /\ Indexed' = {} /\ chunks' = <<>>
  BY DEF Reset, Indexed
<1>2. IsInjective(chunks')
  BY <1>1, EmptySeq DEF IsInjective
<1> QED BY <1>1, <1>2 DEF Reset, AtRest

-----------------------------------------------------------------------------
(* Records and tilings, as facts about the cells of one chunk file.        *)

IntactIn(row, p, f) == \A k \in 0..(RecordSize(f) - 1) : row[p + k] = <<f, k>>

TiledIn(row, lim) ==
  \A p \in SUPERBLOCK_SIZE..(lim - 1) :
    \E f \in Fids : \E k \in 0..(RecordSize(f) - 1) :
      /\ SUPERBLOCK_SIZE + k <= p
      /\ p + RecordSize(f) <= lim + k
      /\ IntactIn(row, p - k, f)

\* Below lim nothing was written.
SameBelow(row, row2, lim) == \A q \in Offsets : q < lim => row2[q] = row[q]

(* A record below lim stays whole when nothing below lim changes.           *)
LEMMA IntactKept ==
  ASSUME NEW row, NEW row2, NEW lim \in 0..CHUNK_SIZE, SameBelow(row, row2, lim),
         NEW f \in Fids, NEW p \in Nat, p + RecordSize(f) <= lim, IntactIn(row, p, f)
  PROVE  IntactIn(row2, p, f)
<1> SUFFICES ASSUME NEW k \in 0..(RecordSize(f) - 1) PROVE row2[p + k] = <<f, k>>
  BY DEF IntactIn
<1>1. p + k \in Offsets /\ p + k < lim
  BY RecordSizeNat, StoreAssumption DEF Offsets
<1>2. row[p + k] = <<f, k>>
  BY DEF IntactIn
<1> QED BY <1>1, <1>2 DEF SameBelow

(* So does a sequence of whole records.                                     *)
LEMMA TiledKept ==
  ASSUME NEW row, NEW row2, NEW lim \in 0..CHUNK_SIZE, SameBelow(row, row2, lim),
         TiledIn(row, lim)
  PROVE  TiledIn(row2, lim)
<1> SUFFICES ASSUME NEW p \in SUPERBLOCK_SIZE..(lim - 1)
             PROVE  \E f \in Fids : \E k \in 0..(RecordSize(f) - 1) :
                      /\ SUPERBLOCK_SIZE + k <= p
                      /\ p + RecordSize(f) <= lim + k
                      /\ IntactIn(row2, p - k, f)
  BY DEF TiledIn
<1>1a. PICK f \in Fids : \E k \in 0..(RecordSize(f) - 1) :
        /\ SUPERBLOCK_SIZE + k <= p
        /\ p + RecordSize(f) <= lim + k
        /\ IntactIn(row, p - k, f)
  BY DEF TiledIn
<1>1. PICK k \in 0..(RecordSize(f) - 1) :
        /\ SUPERBLOCK_SIZE + k <= p
        /\ p + RecordSize(f) <= lim + k
        /\ IntactIn(row, p - k, f)
  BY <1>1a
<1>2. p - k \in Nat /\ (p - k) + RecordSize(f) <= lim
  BY <1>1, RecordSizeNat, StoreAssumption
<1>3. IntactIn(row2, p - k, f)
  BY <1>1, <1>2, IntactKept
<1> QED BY <1>1, <1>3

(* A record behind a tiling makes a longer one.                             *)
LEMMA TiledExtended ==
  ASSUME NEW row, NEW lim \in Nat, TiledIn(row, lim), lim >= SUPERBLOCK_SIZE,
         NEW f \in Fids, IntactIn(row, lim, f), NEW lim2, lim2 = lim + RecordSize(f)
  PROVE  TiledIn(row, lim2)
<1>0. RecordSize(f) \in Nat /\ RecordSize(f) > 0
  BY RecordSizeNat
<1> SUFFICES ASSUME NEW p \in SUPERBLOCK_SIZE..(lim2 - 1)
             PROVE  \E g \in Fids : \E k \in 0..(RecordSize(g) - 1) :
                      /\ SUPERBLOCK_SIZE + k <= p
                      /\ p + RecordSize(g) <= lim2 + k
                      /\ IntactIn(row, p - k, g)
  BY DEF TiledIn
<1>1. CASE p < lim
  <2>1. p \in SUPERBLOCK_SIZE..(lim - 1)
    BY <1>0, <1>1, StoreAssumption
  <2>2a. PICK g \in Fids : \E k \in 0..(RecordSize(g) - 1) :
          /\ SUPERBLOCK_SIZE + k <= p
          /\ p + RecordSize(g) <= lim + k
          /\ IntactIn(row, p - k, g)
    BY <2>1 DEF TiledIn
  <2>2. PICK k \in 0..(RecordSize(g) - 1) :
          /\ SUPERBLOCK_SIZE + k <= p
          /\ p + RecordSize(g) <= lim + k
          /\ IntactIn(row, p - k, g)
    BY <2>2a
  <2>3. p + RecordSize(g) <= lim2 + k
    BY <1>0, <2>2, RecordSizeNat, StoreAssumption
  <2> QED BY <2>2, <2>3
<1>2. CASE p >= lim
  <2> DEFINE k == p - lim
  <2>1. k \in 0..(RecordSize(f) - 1) /\ p - k = lim
    BY <1>0, <1>2, StoreAssumption
  <2>2. SUPERBLOCK_SIZE + k <= p /\ p + RecordSize(f) <= lim2 + k
    BY <1>0, <1>2, StoreAssumption
  <2> HIDE DEF k
  <2> QED BY <2>1, <2>2
<1> QED BY <1>0, <1>1, <1>2, StoreAssumption

(* Where a tiled chunk has the first cell of a record, there is the record. *)
LEMMA RecordStartsWhole ==
  ASSUME NEW row, NEW lim \in Nat, TiledIn(row, lim), NEW f \in Fids,
         NEW p \in SUPERBLOCK_SIZE..(lim - 1), row[p] = <<f, 0>>
  PROVE  IntactIn(row, p, f) /\ p + RecordSize(f) <= lim
<1>1a. PICK g \in Fids : \E k \in 0..(RecordSize(g) - 1) :
        /\ SUPERBLOCK_SIZE + k <= p
        /\ p + RecordSize(g) <= lim + k
        /\ IntactIn(row, p - k, g)
  BY DEF TiledIn
<1>1. PICK k \in 0..(RecordSize(g) - 1) :
        /\ SUPERBLOCK_SIZE + k <= p
        /\ p + RecordSize(g) <= lim + k
        /\ IntactIn(row, p - k, g)
  BY <1>1a
<1>2. (p - k) + k = p
  BY <1>1, RecordSizeNat, StoreAssumption
<1>3. row[p] = <<g, k>>
  BY <1>1, <1>2 DEF IntactIn
<1>4. g = f /\ k = 0
  BY <1>3
<1>5. p - k = p
  BY <1>4, StoreAssumption
<1> QED BY <1>1, <1>4, <1>5, RecordSizeNat, StoreAssumption

-----------------------------------------------------------------------------
(* The event loop leaves the disk alone.                                   *)

\* The chunk files, their memory and the mode are as they were.
DiskKept == UNCHANGED <<files, sb, cells, chunk, mode, sb_failed>>

(* The layout of the files is kept by a step that leaves them alone.        *)
LEMMA LayoutKept ==
  ASSUME IInv, DiskKept
  PROVE  Layout' /\ (mode = "up" => Idle')
<1>1. Loaded' = Loaded
  BY DEF Loaded, DiskKept
<1>2. mode = "up" => Idle'
  BY DEF Idle, DiskKept
<1>3. Layout'
  BY <1>1, Zenon DEF IInv, Layout, DiskKept, Balanced, Tiled, Intact
<1> QED BY <1>2, <1>3

(* So are the places the index points at.                                   *)
LEMMA IndexKept ==
  ASSUME IInv, DiskKept, UNCHANGED <<index, acked>>
  PROVE  IndexPlaced' /\ Promised'
<1>1. IndexPlaced'
  BY Zenon DEF IInv, IndexPlaced, DiskKept, Indexed, Intact
<1>2. Promised'
  BY DEF IInv, Promised, DiskKept, Indexed, Committed, Intact
<1> QED BY <1>1, <1>2

\* What Placement says of one writer.
Placed(c) ==
  /\ job[c].phase \in {"queued", "meta"} =>
       /\ job[c].offset = chunk[job[c].chunk].current_offset
       /\ Fits(job[c].chunk, job[c].fid)
  /\ job[c].phase = "meta" =>
       \A k \in 0..(FILE_META_SIZE - 1) :
         cells[job[c].chunk][job[c].offset + k] = <<job[c].fid, k>>
  /\ job[c].phase = "body" \/ (job[c].phase = "done" /\ job[c].retcode = 0) =>
       /\ job[c].offset >= SUPERBLOCK_SIZE
       /\ job[c].offset + RecordSize(job[c].fid) = chunk[job[c].chunk].current_offset
       /\ Intact(job[c].chunk, job[c].offset, job[c].fid)
  /\ job[c].phase = "done" /\ job[c].retcode = 0 =>
       \/ job[c].chunk \in sb_failed
       \/ job[c].offset + RecordSize(job[c].fid) <= sb[job[c].chunk].current_offset

(* Placement says the same of every writer.                                 *)
LEMMA PlacementIs == Placement <=> \A c \in Writers : Placed(c)
BY Zenon DEF Placement, Placed

(* And so after a step.                                                     *)
LEMMA PlacementNext == Placement' <=> \A c \in Writers' : Placed(c)'
BY Zenon DEF Placement, Placed

(* A writer whose job and chunk are left alone keeps its place.             *)
LEMMA PlacedKept ==
  ASSUME NEW c, Placed(c), job'[c] = job[c],
         LET ch == job[c].chunk
         IN /\ chunk'[ch] = chunk[ch] /\ sb'[ch] = sb[ch] /\ cells'[ch] = cells[ch]
            /\ (ch \in sb_failed' <=> ch \in sb_failed)
  PROVE  Placed(c)'
BY Zenon DEF Placed, Fits, Intact

(* The writers there were go on or stop.                                    *)
LEMMA WritersKept ==
  ASSUME IInv, DiskKept,
         \A w \in Writers' : /\ w \in Writers
                             /\ job'[w] = job[w]
                             /\ job[w].chunk \in writing_chunks'
  PROVE  Owners' /\ Placement'
<1>1. Owners'
  BY DEF IInv, Owners
<1>2. ASSUME NEW w \in Writers' PROVE Placed(w)'
  <2>1. w \in Writers /\ job'[w] = job[w] /\ Placed(w)
    BY PlacementIs DEF IInv
  <2> QED BY <2>1, PlacedKept DEF DiskKept
<1> QED BY <1>1, <1>2, PlacementNext

(* What the job of a write says.                                            *)
LEMMA WriteJobFields ==
  ASSUME NEW f, NEW ch, NEW off
  PROVE  /\ WriteJob(f, ch, off).chunk = ch /\ WriteJob(f, ch, off).fid = f
         /\ WriteJob(f, ch, off).phase = "queued" /\ WriteJob(f, ch, off).offset = off
BY DEF WriteJob, JobOf

(* A write is given a chunk that no other writer has.                       *)
LEMMA WriterJoins ==
  ASSUME IInv, DiskKept, NEW d \in Conns, NEW f \in Fids, NEW ch \in files,
         job'[d] = WriteJob(f, ch, chunk[ch].current_offset),
         Fits(ch, f), ch \in writing_chunks',
         \A w \in Writers' \ {d} : /\ w \in Writers
                                   /\ job'[w] = job[w]
                                   /\ job[w].chunk \in writing_chunks'
                                   /\ job[w].chunk # ch
  PROVE  Owners' /\ Placement'
<1>1. /\ job'[d].chunk = ch /\ job'[d].fid = f /\ job'[d].phase = "queued"
      /\ job'[d].offset = chunk[ch].current_offset
  <2>1. job'[d] = WriteJob(f, ch, chunk[ch].current_offset)
    OBVIOUS
  <2> QED BY <2>1, WriteJobFields
<1>2. Owners'
  BY <1>1 DEF IInv, Owners
<1>3. ASSUME NEW w \in Writers' PROVE Placed(w)'
  <2>1. CASE w = d
    BY <1>1, <2>1, Zenon DEF Placed, Fits, DiskKept
  <2>2. CASE w # d
    <3>1. w \in Writers /\ job'[w] = job[w] /\ Placed(w)
      BY <2>2, PlacementIs, Zenon DEF IInv
    <3> QED BY <3>1, PlacedKept, Zenon DEF DiskKept
  <2> QED BY <2>1, <2>2
<1> QED BY <1>2, <1>3, PlacementNext

(* Accepting, sending and closing do not touch the files.                   *)
LEMMA DiskSocket ==
  ASSUME IInv, NEW c \in Conns, Socket(c)
  PROVE  Idle' /\ Owners' /\ Layout' /\ Placement' /\ IndexPlaced' /\ Promised'
<1>1. DiskKept /\ UNCHANGED <<index, acked, job, writing_chunks>> /\ mode = "up"
  BY SocketFrame DEF DiskKept, Socket, spy_accept_handler, spy_read_handler_closes,
                     spy_write_handler
<1>2. \A w \in Writers' : /\ w \in Writers
                          /\ job'[w] = job[w]
                          /\ job[w].chunk \in writing_chunks'
  BY <1>1, Zenon DEF Writers, IInv, Owners
<1> QED BY <1>1, <1>2, LayoutKept, IndexKept, WritersKept

(* Ending pending writes leaves the writers as they are.                    *)
LEMMA WritersAbandon ==
  ASSUME IInv, DiskKept, NEW n \in 0..Len(pending_writes), Abandons(n)
  PROVE  Owners' /\ Placement'
<1>1. ASSUME NEW w \in Writers'
      PROVE  w \in Writers /\ job'[w] = job[w] /\ job[w].chunk \in writing_chunks'
  <2>1. w \in Conns /\ job'[w].kind = "write" /\ job'[w].phase # "pending"
    BY DEF Writers
  <2>2. w \notin Oldest(n)
    <3>1. NoJob.kind # "write"
      BY DEF NoJob, JobOf
    <3> QED BY <2>1, <3>1, Zenon DEF Abandons
  <2>3. job'[w] = job[w]
    BY <2>1, <2>2, Zenon DEF Abandons
  <2>4. w \in Writers
    BY <2>1, <2>3 DEF Writers
  <2> QED BY <2>3, <2>4 DEF Abandons, IInv, Owners
<1> QED BY <1>1, WritersKept

(* A handler gives a new writer the end of a chunk with room for it.        *)
LEMMA DiskRequest ==
  ASSUME IInv, NEW c \in Conns, Request(c)
  PROVE  Idle' /\ Owners' /\ Layout' /\ Placement' /\ IndexPlaced' /\ Promised'
<1>0. /\ DiskKept /\ UNCHANGED <<index, acked>> /\ mode = "up"
      /\ job \in [Conns -> Job] /\ TypeOK /\ Lists
      /\ conn[c].state = "RECEIVE_HDR"
  BY RequestFrame DEF DiskKept, IInv, TypeOK
<1>1. job[c].kind = "none"
  BY <1>0, Zenon DEF IInv, JobHasConnection
<1>2. Owners' /\ Placement'
  <2>1. CASE Answers(c) \/ LosesChunk(c)
    <3>1. job' = job /\ writing_chunks \subseteq writing_chunks'
      BY <2>1 DEF Answers, LosesChunk, ListsKept, TakeChunk
    <3>2. \A w \in Writers' : /\ w \in Writers
                              /\ job'[w] = job[w]
                              /\ job[w].chunk \in writing_chunks'
      BY <3>1 DEF Writers, IInv, Owners
    <3> QED BY <1>0, <3>2, WritersKept
  <2>2. CASE AsksOther(c) \/ PostponesWrite(c)
    <3>1. /\ \A d \in Conns \ {c} : job'[d] = job[d]
          /\ writing_chunks' = writing_chunks
          /\ job'[c].kind # "write" \/ job'[c].phase = "pending"
      <4>1. job \in [Conns -> Job]
        BY <1>0
      <4>2. PICK j : /\ job' = [job EXCEPT ![c] = j]
                     /\ j.kind # "write" \/ j.phase = "pending"
        <5>1. CASE AsksOther(c)
          BY <5>1, Zenon DEF AsksOther
        <5>2. CASE PostponesWrite(c)
          <6>1. \A f : PendingJob(f).phase = "pending"
            BY DEF PendingJob, JobOf
          <6> QED BY <5>2, <6>1, Zenon DEF PostponesWrite
        <5> QED BY <2>2, <5>1, <5>2
      <4>3. writing_chunks' = writing_chunks
        BY <2>2 DEF AsksOther, PostponesWrite, ListsKept
      <4> QED BY <4>1, <4>2, <4>3
    <3>2. \A w \in Writers' : /\ w \in Writers
                              /\ job'[w] = job[w]
                              /\ job[w].chunk \in writing_chunks'
      BY <3>1, Zenon DEF Writers, IInv, Owners
    <3> QED BY <1>0, <3>2, WritersKept
  <2>3. CASE StartsWrite(c)
    <3>1. PICK f \in Fids, i \in 1..Len(chunks) :
            /\ TakeChunk(i)
            /\ Fits(chunks[i], f)
            /\ job' = [job EXCEPT ![c] =
                         WriteJob(f, chunks[i], chunk[chunks[i]].current_offset)]
      BY <2>3, Zenon DEF StartsWrite
    <3> DEFINE ch == chunks[i]
    <3>2. /\ ch \in files /\ ch \notin writing_chunks
          /\ writing_chunks' = writing_chunks \cup {ch}
      BY <1>0, <3>1, TakeChunkFact, Zenon
    <3>3. /\ job'[c] = WriteJob(f, ch, chunk[ch].current_offset)
          /\ \A d \in Conns \ {c} : job'[d] = job[d]
      BY <1>0, <3>1, Zenon
    <3>4. Fits(ch, f)
      BY <3>1, Zenon
    <3> HIDE DEF ch
    <3>5. \A w \in Writers' \ {c} : /\ w \in Writers
                                    /\ job'[w] = job[w]
                                    /\ job[w].chunk \in writing_chunks'
                                    /\ job[w].chunk # ch
      BY <3>2, <3>3, Zenon DEF Writers, IInv, Owners
    <3> QED BY <1>0, <3>2, <3>3, <3>4, <3>5, WriterJoins, Zenon
  <2>4. CASE \E n \in 0..Len(pending_writes) : Abandons(n)
    BY <1>0, <2>4, WritersAbandon, Zenon
  <2> QED BY <2>1, <2>2, <2>3, <2>4, RequestEffect
<1> QED BY <1>0, <1>2, LayoutKept, IndexKept, Zenon

(* The cron only ends pending writes.                                       *)
LEMMA DiskCron ==
  ASSUME IInv, spy_server_cron
  PROVE  Idle' /\ Owners' /\ Layout' /\ Placement' /\ IndexPlaced' /\ Promised'
<1>1. DiskKept /\ UNCHANGED <<index, acked>> /\ mode = "up"
  BY CronFrame DEF DiskKept
<1> QED BY <1>1, CronEffect, WritersAbandon, LayoutKept, IndexKept

(* The file of a successful write is entered in the index.                  *)
LEMMA IndexAnswer ==
  ASSUME IInv, DiskKept, NEW c \in Writers, job[c].phase = "done", Answer(c, job[c].fid)
  PROVE  IndexPlaced' /\ Promised'
<1>1. CASE UNCHANGED <<index, acked>>
  BY <1>1, IndexKept, Zenon
<1>2. CASE /\ job[c].retcode = 0
           /\ index' = [index EXCEPT ![job[c].fid] =
                          [chunk |-> job[c].chunk, offset |-> job[c].offset]]
           /\ acked' = acked \cup {job[c].fid}
  <2> DEFINE f == job[c].fid
             ch == job[c].chunk
             off == job[c].offset
  <2>1. /\ f \in Fids /\ ch \in files /\ ch \in Chunks /\ mode = "up"
        /\ index \in [Fids -> Entry]
        /\ off \in 0..CHUNK_SIZE /\ chunk[ch].current_offset \in 0..CHUNK_SIZE
    BY WriterChunk, Zenon DEF IInv, TypeOK, ChunkInfo
  <2>2. Placed(c)
    BY PlacementIs, Zenon DEF IInv
  <2>3. /\ off >= SUPERBLOCK_SIZE
        /\ off + RecordSize(f) = chunk[ch].current_offset
        /\ Intact(ch, off, f)
        /\ ch \in sb_failed \/ off + RecordSize(f) <= sb[ch].current_offset
    BY <1>2, <2>2, Zenon DEF Placed
  <2>4. off + RecordSize(f) <= chunk[ch].current_offset
    <3>1. \A x \in 0..CHUNK_SIZE : x <= x
      BY Sizes
    <3>2. chunk[ch].current_offset <= chunk[ch].current_offset
      BY <2>1, <3>1, Zenon
    <3> QED BY <2>3, <3>2, Zenon
  <2>5. /\ index'[f] = [chunk |-> ch, offset |-> off]
        /\ index'[f].chunk = ch /\ index'[f].offset = off
        /\ \A g \in Fids \ {f} : index'[g] = index[g]
    BY <1>2, <2>1, Zenon
  <2>6. index'[f] # NoEntry
    <3>1. ch # 0
      BY <2>1, StoreAssumption DEF Chunks
    <3>2. NoEntry.chunk = 0
      BY DEF NoEntry
    <3> QED BY <2>5, <3>1, <3>2, Zenon
  <2>7. Indexed' = Indexed \cup {f}
    BY <2>1, <2>5, <2>6, Zenon DEF Indexed
  <2> HIDE DEF f, ch, off
  <2>8. IndexPlaced'
    <3>1. ASSUME NEW g \in Indexed'
          PROVE  /\ index'[g].chunk \in files'
                 /\ index'[g].offset >= SUPERBLOCK_SIZE
                 /\ index'[g].offset + RecordSize(g) <= chunk'[index'[g].chunk].current_offset
                 /\ \A k \in 0..(RecordSize(g) - 1) :
                      cells'[index'[g].chunk][index'[g].offset + k] = <<g, k>>
                 /\ \/ index'[g].chunk \in sb_failed'
                    \/ index'[g].offset + RecordSize(g)
                         <= sb'[index'[g].chunk].current_offset
      <4>1. CASE g = f
        BY <2>1, <2>3, <2>4, <2>5, <4>1, Zenon DEF DiskKept, Intact
      <4>2. CASE g # f
        <5>1. g \in Indexed /\ g \in Fids /\ index'[g] = index[g]
          BY <2>5, <2>7, <3>1, <4>2, Zenon DEF Indexed
        <5> QED BY <5>1, Zenon DEF DiskKept, Intact, IInv, IndexPlaced
      <4> QED BY <4>1, <4>2, Zenon
    <3> QED BY <3>1, Zenon DEF IndexPlaced, Intact
  <2>9. Promised'
    BY <1>2, <2>1, <2>7, Zenon DEF Promised, IInv, DiskKept, f
  <2> QED BY <2>8, <2>9, Zenon
<1> QED BY <1>1, <1>2, Zenon DEF Answer

(* A callback indexes the record that its worker wrote.                     *)
LEMMA DiskDone ==
  ASSUME IInv, NEW c \in Conns, Done(c)
  PROVE  Idle' /\ Owners' /\ Layout' /\ Placement' /\ IndexPlaced' /\ Promised'
<1>0. /\ DiskKept /\ mode = "up"
      /\ job \in [Conns -> Job] /\ pending_writes \in Seq(Conns) /\ TypeOK
  BY DoneFrame DEF DiskKept, IInv, TypeOK
<1>1. NoJob.kind = "none"
  BY DEF NoJob, JobOf
<1>2. CASE Ends(c)
  <2>1. job'[c] = NoJob /\ \A d \in Conns \ {c} : job'[d] = job[d]
    BY <1>0, <1>2 DEF Ends
  <2>2. \A w \in Writers' : /\ w \in Writers
                            /\ job'[w] = job[w]
                            /\ job[w].chunk \in writing_chunks'
    BY <1>1, <1>2, <2>1 DEF Writers, IInv, Owners, Ends, ListsKept
  <2>3. UNCHANGED <<index, acked>>
    BY <1>2 DEF Ends
  <2> QED BY <1>0, <2>2, <2>3, LayoutKept, IndexKept, WritersKept
<1>3. CASE /\ c \in Writers
           /\ job[c].phase = "done"
           /\ PassesChunk(c) \/ GivesChunkBack(c)
           /\ Answer(c, job[c].fid)
  <2> DEFINE ch == job[c].chunk
  <2>1. ch \in files
    BY <1>3, WriterChunk, Zenon
  <2>2. \A w \in Writers \ {c} : job[w].chunk \in writing_chunks /\ job[w].chunk # ch
    BY <1>3, Zenon DEF IInv, Owners
  <2>3. ch \in writing_chunks
    BY <1>3, Zenon DEF IInv, Owners
  <2>4. CASE PassesChunk(c)
    <3>1. PICK i \in 1..Len(pending_writes) :
            /\ Fits(ch, job[pending_writes[i]].fid)
            /\ ServePending(c, ch, i)
      BY <2>4 DEF PassesChunk
    <3> DEFINE d == pending_writes[i]
    <3>2. d \in Conns /\ d \in Range(pending_writes)
      BY <1>0, ElementOfSeq, LenProperties, Zenon DEF Range
    <3>3. d # c /\ job[d].fid \in Fids
      BY <1>3, <3>2, Zenon DEF IInv, JobHasConnection, Lists
    <3>4. /\ job'[c] = NoJob
          /\ job'[d] = WriteJob(job[d].fid, ch, chunk[ch].current_offset)
          /\ \A e \in Conns \ {c, d} : job'[e] = job[e]
          /\ writing_chunks' = writing_chunks
      BY <1>0, <1>3, <3>1, <3>2, <3>3, Zenon DEF ServePending
    <3>5. Fits(ch, job[d].fid)
      BY <3>1
    <3> HIDE DEF d, ch
    <3>6. \A w \in Writers' \ {d} : /\ w \in Writers
                                    /\ job'[w] = job[w]
                                    /\ job[w].chunk \in writing_chunks'
                                    /\ job[w].chunk # ch
      BY <1>1, <2>2, <3>4, Zenon DEF Writers
    <3>7. Owners' /\ Placement'
      BY <1>0, <2>1, <2>3, <3>2, <3>3, <3>4, <3>5, <3>6, WriterJoins, Zenon
    <3> QED BY <1>0, <1>3, <3>7, LayoutKept, IndexAnswer
  <2>5. CASE GivesChunkBack(c)
    <3>1. /\ job'[c] = NoJob /\ \A d \in Conns \ {c} : job'[d] = job[d]
          /\ writing_chunks' = writing_chunks \ {ch}
      BY <1>0, <2>5 DEF GivesChunkBack, ReturnChunk
    <3> HIDE DEF ch
    <3>2. \A w \in Writers' : /\ w \in Writers
                              /\ job'[w] = job[w]
                              /\ job[w].chunk \in writing_chunks'
      BY <1>1, <2>2, <3>1 DEF Writers
    <3> QED BY <1>0, <1>3, <3>2, LayoutKept, WritersKept, IndexAnswer, Zenon
  <2> QED BY <1>3, <2>4, <2>5, Zenon
<1> QED BY <1>2, <1>3, DoneEffect, Zenon
=============================================================================
