------------------------- MODULE SpyServerCounters --------------------------
(***************************************************************************)
(* The theorems about what SpyServer counts and hands back: the gauges and *)
(* the free io jobs agree with the jobs and connections there are, and a   *)
(* chunk that was taken for a write is lost in two places only.            *)
(***************************************************************************)
EXTENDS SpyServerProofs, FiniteSetTheorems

-----------------------------------------------------------------------------
(* The counters.  Nothing keeps them but the increments and decrements of  *)
(* the handlers.                                                           *)

\* The connections that Count counts, and those conn_count counts.
On(S) == {c \in Conns : job[c].kind \in S /\ job[c].phase # "pending"}
Open == {c \in Conns : conn[c].state # "CLOSED"}
IoKinds == {"write", "read", "check"}

JobBooks ==
  /\ free_io_jobs + Count(IoKinds) + Len(pending_writes) = MAX_IO_JOBS
  /\ statistic.writing_count = Count({"write"})
  /\ statistic.reading_count = Count({"read"})

\* A closed connection is not watched: spy_read_handler does not close it again.
ConnBooks ==
  /\ statistic.conn_count = Cardinality(Open)
  /\ \A c \in Conns : conn[c].state = "CLOSED" => ~conn[c].readable

(* Counts are numbers, and depend on the jobs counted alone.                *)
LEMMA CountIs ==
  ASSUME IsFiniteSet(Conns), NEW S
  PROVE  /\ IsFiniteSet(On(S)) /\ Count(S) = Cardinality(On(S)) /\ Count(S) \in Nat
         /\ IsFiniteSet(On(S)') /\ Count(S)' = Cardinality(On(S)') /\ Count(S)' \in Nat
<1>1. IsFiniteSet(On(S)) /\ IsFiniteSet(On(S)')
  BY FS_Subset DEF On
<1>2. Count(S) = Cardinality(On(S)) /\ Count(S)' = Cardinality(On(S)')
  BY DEF Count, On
<1> QED BY <1>1, <1>2, FS_CardinalityType

(* A connection is given a job.                                             *)
LEMMA CountJoin ==
  ASSUME IsFiniteSet(Conns), job \in [Conns -> Job], NEW c \in Conns, NEW S,
         job[c].kind = "none", "none" \notin S, NEW j, j.phase # "pending",
         job' = [job EXCEPT ![c] = j]
  PROVE  Count(S)' = IF j.kind \in S THEN Count(S) + 1 ELSE Count(S)
<1>1. c \notin On(S)
  BY DEF On
<1>2. On(S)' = IF j.kind \in S THEN On(S) \cup {c} ELSE On(S)
  BY DEF On
<1> QED BY <1>1, <1>2, CountIs, FS_AddElement

(* The job of a connection ends.                                            *)
LEMMA CountEnd ==
  ASSUME IsFiniteSet(Conns), job \in [Conns -> Job], NEW c \in Conns, NEW S,
         "none" \notin S, job[c].phase # "pending", job' = [job EXCEPT ![c] = NoJob]
  PROVE  Count(S)' = IF job[c].kind \in S THEN Count(S) - 1 ELSE Count(S)
<1>1. job[c].kind \in S <=> c \in On(S)
  BY DEF On
<1>2. On(S)' = On(S) \ {c}
  BY DEF On, NoJob, JobOf
<1> QED BY <1>1, <1>2, CountIs, FS_RemoveElement

(* A job ends and a pending write takes its place.                          *)
LEMMA CountPass ==
  ASSUME IsFiniteSet(Conns), job \in [Conns -> Job], NEW c \in Conns, NEW d \in Conns, NEW S,
         "none" \notin S, job[c].kind = "write", job[c].phase # "pending",
         job[d].phase = "pending", NEW j, j.kind = "write", j.phase # "pending",
         job' = [job EXCEPT ![c] = NoJob, ![d] = j]
  PROVE  Count(S)' = Count(S)
<1>1. c # d /\ d \notin On(S)
  BY DEF On
<1>2. job'[c] = NoJob /\ job'[d] = j /\ \A e \in Conns \ {c, d} : job'[e] = job[e]
  BY <1>1
<1>3. CASE "write" \in S
  <2>1. On(S)' = (On(S) \ {c}) \cup {d} /\ c \in On(S)
    BY <1>1, <1>2, <1>3 DEF On, NoJob, JobOf
  <2>2. /\ IsFiniteSet(On(S) \ {c}) /\ d \notin On(S) \ {c}
        /\ Cardinality(On(S) \ {c}) = Cardinality(On(S)) - 1
    BY <1>1, <2>1, CountIs, FS_RemoveElement
  <2>3. Cardinality(On(S)') = Cardinality(On(S) \ {c}) + 1
    BY <2>1, <2>2, FS_AddElement, Zenon
  <2> QED BY <2>2, <2>3, CountIs
<1>4. CASE "write" \notin S
  <2>1. On(S)' = On(S)
    BY <1>1, <1>2, <1>4 DEF On, NoJob, JobOf
  <2> QED BY <2>1, CountIs
<1> QED BY <1>3, <1>4

(* The jobs that count stay what they are.                                  *)
LEMMA CountKept ==
  ASSUME NEW S,
         \A d \in Conns : job'[d].kind \in S /\ job'[d].phase # "pending"
                           <=> job[d].kind \in S /\ job[d].phase # "pending"
  PROVE  Count(S)' = Count(S)
<1>1. {c \in Conns : job'[c].kind \in S /\ job'[c].phase # "pending"}
        = {c \in Conns : job[c].kind \in S /\ job[c].phase # "pending"}
  OBVIOUS
<1> QED BY <1>1 DEF Count
(* Pending writes that are given up return their io jobs.                   *)
LEMMA BooksAbandon ==
  ASSUME IsFiniteSet(Conns), IInv, JobBooks, NEW n \in 0..Len(pending_writes),
         NEW cs, NEW error, Abandon(n, cs, error), UNCHANGED statistic,
         \A d \in Oldest(n) : job'[d] = NoJob,
         \A d \in Conns \ Oldest(n) :
           job'[d].kind = job[d].kind /\ job'[d].phase = job[d].phase
  PROVE  JobBooks'
<1>1. /\ job \in [Conns -> Job] /\ free_io_jobs \in Nat /\ MAX_IO_JOBS \in Nat
      /\ pending_writes \in Seq(Conns) /\ Len(pending_writes) \in Nat
  BY ServerAssumption, LenProperties DEF IInv, TypeOK
<1>2. Len(pending_writes') = Len(pending_writes) - n /\ free_io_jobs' = free_io_jobs + n
  BY AbandonFact, Zenon DEF IInv, JobHasConnection, Abandon
<1>3. \A d \in Oldest(n) : job[d].phase = "pending"
  BY AbandonFact DEF IInv, JobHasConnection
<1>4. \A S \in {IoKinds, {"write"}, {"read"}} :
        Count(S)' = Count(S) /\ Count(S) \in Nat /\ "none" \notin S
  <2>1. ASSUME NEW S \in {IoKinds, {"write"}, {"read"}} PROVE "none" \notin S
    BY DEF IoKinds
  <2> QED BY <1>3, <2>1, CountIs, CountKept DEF NoJob, JobOf
<1> QED BY <1>1, <1>2, <1>4 DEF JobBooks

(* A request is answered at once, or takes one free io job for the job it   *)
(* leaves behind; a dump takes none, and a killed write gives its job back. *)
LEMMA BooksRequest ==
  ASSUME IsFiniteSet(Conns), IInv, JobBooks, NEW c \in Conns, Request(c)
  PROVE  JobBooks'
<1>0. /\ job \in [Conns -> Job] /\ free_io_jobs \in Nat /\ MAX_IO_JOBS \in Nat
      /\ statistic \in [conn_count : Int, reading_count : Int, writing_count : Int]
      /\ pending_writes \in Seq(Conns) /\ Len(pending_writes) \in Nat
      /\ job[c].kind = "none" /\ IsInjective(pending_writes)
  BY RequestFrame, ServerAssumption, LenProperties DEF IInv, TypeOK, JobHasConnection
<1>1. \A S \in {IoKinds, {"write"}, {"read"}} : "none" \notin S /\ Count(S) \in Nat
  BY CountIs DEF IoKinds
<1>2. ASSUME UNCHANGED <<job, free_io_jobs, pending_writes, statistic>> PROVE JobBooks'
  BY <1>2 DEF JobBooks, Count
<1>3. ASSUME NEW error, ErrorReply(c, error) PROVE JobBooks'
  BY <1>2, <1>3 DEF ErrorReply
<1>4. ASSUME NEW j, j.phase # "pending", job' = [job EXCEPT ![c] = j], UNCHANGED pending_writes,
             j.kind \in {"read", "write", "check", "dump"},
             free_io_jobs > 0 \/ j.kind = "dump",
             free_io_jobs' = IF j.kind = "dump" THEN free_io_jobs ELSE free_io_jobs - 1,
             statistic' = [statistic EXCEPT
               !.writing_count = IF j.kind = "write" THEN @ + 1 ELSE @,
               !.reading_count = IF j.kind = "read" THEN @ + 1 ELSE @]
      PROVE  JobBooks'
  <2>1. /\ Count(IoKinds)' = IF j.kind \in IoKinds THEN Count(IoKinds) + 1 ELSE Count(IoKinds)
        /\ Count({"write"})' = IF j.kind = "write" THEN Count({"write"}) + 1 ELSE Count({"write"})
        /\ Count({"read"})' = IF j.kind = "read" THEN Count({"read"}) + 1 ELSE Count({"read"})
    BY <1>0, <1>1, <1>4, CountJoin, Zenon
  <2>2. j.kind \in IoKinds <=> j.kind # "dump"
    BY <1>4 DEF IoKinds
  <2>3. /\ statistic'.writing_count = IF j.kind = "write" THEN statistic.writing_count + 1
                                                         ELSE statistic.writing_count
        /\ statistic'.reading_count = IF j.kind = "read" THEN statistic.reading_count + 1
                                                        ELSE statistic.reading_count
    BY <1>0, <1>4
  <2>4. statistic'.writing_count = Count({"write"})' /\ statistic'.reading_count = Count({"read"})'
    BY <2>1, <2>3 DEF JobBooks
  <2>5. free_io_jobs' + Count(IoKinds)' + Len(pending_writes') = MAX_IO_JOBS
    BY <1>0, <1>1, <1>4, <2>1, <2>2 DEF JobBooks
  <2> QED BY <2>4, <2>5 DEF JobBooks
<1>5. ASSUME NEW f \in Fids, spy_handle_write(c, f) PROVE JobBooks'
  <2>1. ASSUME NEW i, WriteToChunk(c, f, i) PROVE JobBooks'
    <3>1. CASE UNCHANGED <<job, free_io_jobs, statistic>>
      BY <1>2, <2>1, <3>1 DEF WriteToChunk
    <3>2. CASE /\ free_io_jobs > 0 /\ free_io_jobs' = free_io_jobs - 1
               /\ job' = [job EXCEPT ![c] = WriteJob(f, chunks[i], chunk[chunks[i]].current_offset)]
               /\ statistic' = [statistic EXCEPT !.writing_count = @ + 1]
      <4> DEFINE j == WriteJob(f, chunks[i], chunk[chunks[i]].current_offset)
      <4>1. j.kind = "write" /\ j.phase = "queued"
        BY DEF WriteJob, JobOf
      <4>2. statistic' = [statistic EXCEPT !.writing_count = @ + 1, !.reading_count = @]
        BY <1>0, <3>2, Zenon
      <4>3. job' = [job EXCEPT ![c] = j] /\ UNCHANGED pending_writes
        BY <2>1, <3>2 DEF WriteToChunk
      <4> HIDE DEF j
      <4> QED BY <1>4, <3>2, <4>1, <4>2, <4>3, Zenon
    <3> QED BY <2>1, <3>1, <3>2 DEF WriteToChunk
  <2>2. ASSUME WriteLater(c, f) PROVE JobBooks'
    <3>1. CASE \E error : ErrorReply(c, error)
      BY <1>3, <3>1
    <3>2. CASE /\ free_io_jobs > 0 /\ free_io_jobs' = free_io_jobs - 1
               /\ job' = [job EXCEPT ![c] = PendingJob(f)]
               /\ pending_writes' = Append(pending_writes, c)
               /\ UNCHANGED statistic
      <4>1. \A S \in {IoKinds, {"write"}, {"read"}} : Count(S)' = Count(S)
        BY <1>0, <1>1, <3>2, CountKept DEF PendingJob, JobOf
      <4>2. Len(pending_writes') = Len(pending_writes) + 1
        BY <1>0, <3>2
      <4> QED BY <1>0, <1>1, <3>2, <4>1, <4>2 DEF JobBooks
    <3> QED BY <2>2, <3>1, <3>2 DEF WriteLater
  <2> QED BY <1>3, <1>5, <2>1, <2>2 DEF spy_handle_write
<1>6. ASSUME NEW f \in Fids, spy_handle_read(c, f) PROVE JobBooks'
  <2>1. ReadJob(f).kind = "read" /\ ReadJob(f).phase = "queued"
    BY DEF ReadJob, JobOf
  <2>2. CASE /\ free_io_jobs > 0 /\ free_io_jobs' = free_io_jobs - 1
             /\ job' = [job EXCEPT ![c] = ReadJob(f)]
             /\ statistic' = [statistic EXCEPT !.reading_count = @ + 1]
             /\ UNCHANGED pending_writes
    <3>1. statistic' = [statistic EXCEPT !.writing_count = @, !.reading_count = @ + 1]
      BY <1>0, <2>2, Zenon
    <3> QED BY <1>4, <2>1, <2>2, <3>1, Zenon
  <2> QED BY <1>3, <1>6, <2>2 DEF spy_handle_read
<1>7. ASSUME NEW kind \in {"check", "dump"}, NEW ch, job' = [job EXCEPT ![c] = OtherJob(kind, ch)],
             free_io_jobs > 0 \/ kind = "dump",
             free_io_jobs' = IF kind = "dump" THEN free_io_jobs ELSE free_io_jobs - 1,
             UNCHANGED <<pending_writes, statistic>>
      PROVE  JobBooks'
  <2>1. OtherJob(kind, ch).kind = kind /\ OtherJob(kind, ch).phase = "queued"
    BY DEF OtherJob, JobOf
  <2>2. statistic' = [statistic EXCEPT !.writing_count = @, !.reading_count = @]
    BY <1>0, <1>7, Zenon
  <2> QED BY <1>4, <1>7, <2>1, <2>2, Zenon
<1>8. ASSUME NEW ch \in Chunks, spy_dump_chunk(c, ch) PROVE JobBooks'
  BY <1>3, <1>7, <1>8 DEF spy_dump_chunk
<1>9. ASSUME spy_handle_check_disk(c) PROVE JobBooks'
  BY <1>3, <1>7, <1>9 DEF spy_handle_check_disk
<1>10. ASSUME spy_handle_ping(c) \/ spy_query_infos(c) PROVE JobBooks'
  BY <1>2, <1>3, <1>10 DEF spy_handle_ping, spy_query_infos
<1>11. ASSUME spy_kill_pending_writes(c) PROVE JobBooks'
  <2>1. PICK n \in 0..Len(pending_writes) : n = Len(pending_writes)
    BY <1>0
  <2>2. Abandon(n, Reply(c, "SUCCESS"), "KILLED") /\ UNCHANGED statistic
    BY <1>11, <2>1 DEF spy_kill_pending_writes
  <2>3. Oldest(n) \subseteq Conns
    BY <1>0, <2>2, AbandonFact DEF IInv
  <2>4. \A d \in Conns : job'[d] = IF d \in Oldest(n) THEN NoJob ELSE job[d]
    BY <1>11, <2>1 DEF spy_kill_pending_writes
  <2>5. /\ \A d \in Oldest(n) : job'[d] = NoJob
        /\ \A d \in Conns \ Oldest(n) : job'[d] = job[d]
    BY <2>3, <2>4
  <2> QED BY <2>2, <2>5, BooksAbandon
<1> QED BY <1>5, <1>6, <1>8, <1>9, <1>10, <1>11 DEF Request
(* A done callback frees the job it ran for, unless it was a dump, and      *)
(* passes the chunk of a write on or counts one writer less.                *)
LEMMA BooksDone ==
  ASSUME IsFiniteSet(Conns), IInv, JobBooks, NEW c \in Conns, Done(c)
  PROVE  JobBooks'
<1>0. /\ job \in [Conns -> Job] /\ free_io_jobs \in Nat /\ MAX_IO_JOBS \in Nat
      /\ statistic \in [conn_count : Int, reading_count : Int, writing_count : Int]
      /\ pending_writes \in Seq(Conns) /\ Len(pending_writes) \in Nat
      /\ job[c].phase = "done"
  BY DoneFrame, ServerAssumption, LenProperties DEF IInv, TypeOK
<1>1. \A S \in {IoKinds, {"write"}, {"read"}} : "none" \notin S /\ Count(S) \in Nat
  BY CountIs DEF IoKinds
<1>2. ASSUME NEW kind \in {"read", "write", "check", "dump"}, job[c].kind = kind,
             job' = [job EXCEPT ![c] = NoJob], UNCHANGED pending_writes,
             free_io_jobs' = IF kind = "dump" THEN free_io_jobs ELSE free_io_jobs + 1,
             statistic'.writing_count = IF kind = "write" THEN statistic.writing_count - 1
                                                          ELSE statistic.writing_count,
             statistic'.reading_count = IF kind = "read" THEN statistic.reading_count - 1
                                                         ELSE statistic.reading_count
      PROVE  JobBooks'
  <2>1. /\ Count(IoKinds)' = IF kind \in IoKinds THEN Count(IoKinds) - 1 ELSE Count(IoKinds)
        /\ Count({"write"})' = IF kind = "write" THEN Count({"write"}) - 1 ELSE Count({"write"})
        /\ Count({"read"})' = IF kind = "read" THEN Count({"read"}) - 1 ELSE Count({"read"})
    BY <1>0, <1>1, <1>2, CountEnd, Zenon
  <2>2. kind \in IoKinds <=> kind # "dump"
    BY DEF IoKinds
  <2>3. statistic'.writing_count = Count({"write"})' /\ statistic'.reading_count = Count({"read"})'
    BY <1>2, <2>1 DEF JobBooks
  <2>4. free_io_jobs' + Count(IoKinds)' + Len(pending_writes') = MAX_IO_JOBS
    BY <1>0, <1>1, <1>2, <2>1, <2>2 DEF JobBooks
  <2> QED BY <2>3, <2>4 DEF JobBooks
<1>3. CASE spy_write_file_done(c)
  <2> DEFINE ch == job[c].chunk
  <2>1. c \in Writers /\ job[c].kind = "write" /\ free_io_jobs' = free_io_jobs + 1
    BY <1>3 DEF spy_write_file_done, Working, Writers
  <2>2. ch \in Chunks
    BY <2>1, WriterChunk
  <2>3. CASE DuplicateDone(c) \/ ReturnChunk(c, ch)
    BY <1>0, <1>2, <2>1, <2>3 DEF DuplicateDone, ReturnChunk
  <2>4. CASE PendingFor(ch) # 0 /\ ServePending(c, ch, PendingFor(ch))
    <3>1. PICK i \in 1..Len(pending_writes) : i = PendingFor(ch)
      BY <2>2, <2>4, PendingForFact DEF IInv
    <3>2. PICK d \in Conns : d = pending_writes[i] /\ job[d].phase = "pending"
      <4>1. pending_writes[i] \in Conns /\ pending_writes[i] \in Range(pending_writes)
        BY <1>0, LenProperties, ElementOfSeq DEF Range
      <4> QED BY <4>1 DEF IInv, JobHasConnection
    <3> DEFINE j == WriteJob(job[d].fid, ch, chunk[ch].current_offset)
    <3>3. j.kind = "write" /\ j.phase = "queued"
      BY DEF WriteJob, JobOf
    <3>4. /\ job' = [job EXCEPT ![c] = NoJob, ![d] = j]
          /\ pending_writes' = list_del(pending_writes, i)
          /\ UNCHANGED statistic
      BY <2>4, <3>1, <3>2 DEF ServePending
    <3> HIDE DEF j
    <3>5. \A S \in {IoKinds, {"write"}, {"read"}} : Count(S)' = Count(S)
      BY <1>0, <1>1, <2>1, <3>2, <3>3, <3>4, CountPass, Zenon
    <3>6. Len(pending_writes') = Len(pending_writes) - 1
      BY <1>0, <3>1, <3>4, RemoveAtProperties
    <3> QED BY <1>0, <1>1, <2>1, <3>4, <3>5, <3>6 DEF JobBooks
  <2> QED BY <1>3, <2>3, <2>4 DEF spy_write_file_done
<1>4. CASE spy_read_file_done(c)
  BY <1>0, <1>2, <1>4 DEF spy_read_file_done, Working
<1>5. CASE spy_check_chunk_done(c)
  BY <1>0, <1>2, <1>5 DEF spy_check_chunk_done, Working
<1>6. CASE spy_dump_chunkfile_done(c)
  BY <1>0, <1>2, <1>6 DEF spy_dump_chunkfile_done, Working, spy_free_client_connection
<1> QED BY <1>3, <1>4, <1>5, <1>6 DEF Done

(* Nothing is counted in a process that starts.                             *)
LEMMA BooksReset ==
  ASSUME IsFiniteSet(Conns), Reset
  PROVE  JobBooks' /\ ConnBooks'
<1>1. /\ job' = [c \in Conns |-> NoJob] /\ conn' = [c \in Conns |-> Closed]
      /\ free_io_jobs' = MAX_IO_JOBS /\ pending_writes' = <<>> /\ statistic' = NoStatistic
      /\ MAX_IO_JOBS \in Nat
  BY ServerAssumption DEF Reset
<1>2. \A S \in {IoKinds, {"write"}, {"read"}} : On(S)' = {}
  BY <1>1 DEF On, NoJob, JobOf, IoKinds
<1>3. \A S \in {IoKinds, {"write"}, {"read"}} : Count(S)' = 0
  BY <1>2, CountIs, FS_EmptySet
<1>4. Open' = {} /\ \A c \in Conns : ~conn'[c].readable
  BY <1>1 DEF Open, Closed
<1>5. JobBooks'
  BY <1>1, <1>3 DEF JobBooks, NoStatistic
<1> QED BY <1>1, <1>4, <1>5, FS_EmptySet DEF ConnBooks, NoStatistic

(* Every step keeps the books of the jobs.                                  *)
LEMMA BooksStep ==
  ASSUME IsFiniteSet(Conns), IInv, JobBooks, [Next]_vars
  PROVE  JobBooks'
<1>0. statistic \in [conn_count : Int, reading_count : Int, writing_count : Int]
      /\ job \in [Conns -> Job]
  BY DEF IInv, TypeOK
<1>1. ASSUME UNCHANGED <<job, free_io_jobs, pending_writes>>,
             statistic'.writing_count = statistic.writing_count,
             statistic'.reading_count = statistic.reading_count
      PROVE  JobBooks'
  BY <1>1 DEF JobBooks, Count
<1>2. ASSUME NEW c \in Conns, Socket(c) PROVE JobBooks'
  <2>1. /\ statistic'.writing_count = statistic.writing_count
        /\ statistic'.reading_count = statistic.reading_count
    BY <1>0, <1>2 DEF Socket, spy_accept_handler, spy_read_handler_closes,
                      spy_write_handler, spy_free_client_connection
  <2> QED BY <1>1, <1>2, <2>1, SocketFrame
<1>3. ASSUME NEW c \in Conns, Worker(c) PROVE JobBooks'
  <2>1. \A d \in Conns : job'[d].kind = job[d].kind
                         /\ (job'[d].phase = "pending" <=> job[d].phase = "pending")
    BY <1>3, WorkerEffect
  <2>2. \A S \in {IoKinds, {"write"}, {"read"}} : Count(S)' = Count(S)
    BY <2>1, CountKept
  <2> QED BY <1>3, <2>2, WorkerFrames DEF JobBooks
<1>4. ASSUME spy_server_cron PROVE JobBooks'
  <2>1. PICK n \in 0..Len(pending_writes) : n = TimedOut
    BY TimedOutFact DEF IInv
  <2>2. Abandon(n, conn, "CHUNK_UNAVAILABLE") /\ UNCHANGED statistic
    BY <1>4, <2>1 DEF spy_server_cron
  <2>3. Oldest(n) \subseteq Conns
    BY <2>2, AbandonFact DEF IInv, JobHasConnection
  <2>4. \A d \in Conns :
          job'[d] = IF d \in Oldest(n) THEN NoJob
                    ELSE IF job[d].phase = "pending" THEN [job[d] EXCEPT !.age = @ + 1]
                    ELSE job[d]
    BY <1>4, <2>1 DEF spy_server_cron
  <2>5. \A d \in Oldest(n) : job'[d] = NoJob
    BY <2>3, <2>4, Zenon
  <2>6. ASSUME NEW d \in Conns \ Oldest(n)
        PROVE  job'[d].kind = job[d].kind /\ job'[d].phase = job[d].phase
    BY <1>0, <2>4, Zenon DEF Job
  <2> QED BY <2>2, <2>5, <2>6, BooksAbandon
<1>5. ASSUME Reset PROVE JobBooks'
  BY <1>5, BooksReset
<1>6. ASSUME UNCHANGED <<job, free_io_jobs, pending_writes, statistic>> PROVE JobBooks'
  BY <1>1, <1>6
<1>7. ASSUME Crash \/ spy_create_chunk \/ spy_create_chunk_superblock \/ spy_recover_files
      PROVE  JobBooks'
  BY <1>5, <1>6, <1>7 DEF Crash, spy_create_chunk, spy_create_chunk_superblock,
                          spy_recover_files, loopVars
<1>8. ASSUME UNCHANGED vars PROVE JobBooks'
  BY <1>6, <1>8 DEF vars, loopVars
<1> QED BY <1>2, <1>3, <1>4, <1>7, <1>8, BooksRequest, BooksDone DEF Next
(* A step that opens and closes no connection.                              *)
LEMMA OpenKept ==
  ASSUME ConnBooks, statistic'.conn_count = statistic.conn_count,
         \A d \in Conns : \/ conn'[d] = conn[d]
                          \/ conn[d].state # "CLOSED" /\ conn'[d].state # "CLOSED"
  PROVE  ConnBooks'
<1>1. Open' = Open
  BY DEF Open
<1> QED BY <1>1 DEF ConnBooks

(* spy_free_client_connection on a connection that is open.                 *)
LEMMA OpenCloses ==
  ASSUME IsFiniteSet(Conns), TypeOK, ConnBooks, NEW c \in Conns, conn[c].state # "CLOSED",
         spy_free_client_connection(c)
  PROVE  ConnBooks'
<1>1. /\ conn \in [Conns -> Connection]
      /\ statistic \in [conn_count : Int, reading_count : Int, writing_count : Int]
  BY DEF TypeOK
<1>2. \A d \in Conns : conn'[d] = IF d = c THEN Closed ELSE conn[d]
  BY <1>1 DEF spy_free_client_connection
<1>3. Open' = Open \ {c} /\ c \in Open
  BY <1>2 DEF Open, Closed
<1>4. Cardinality(Open') = Cardinality(Open) - 1
  BY <1>3, FS_Subset, FS_RemoveElement, Zenon DEF Open
<1>5. statistic'.conn_count = statistic.conn_count - 1
  BY <1>1 DEF spy_free_client_connection
<1> QED BY <1>2, <1>4, <1>5 DEF ConnBooks, Closed

(* An answer, a wait or the end of pending writes closes nothing.           *)
LEMMA ConnsRequest ==
  ASSUME IInv, ConnBooks, NEW c \in Conns, Request(c)
  PROVE  ConnBooks'
<1>0. /\ conn \in [Conns -> Connection] /\ conn[c].state = "RECEIVE_HDR"
      /\ statistic \in [conn_count : Int, reading_count : Int, writing_count : Int]
  BY RequestFrame DEF IInv, TypeOK
<1>1. statistic'.conn_count = statistic.conn_count
  BY <1>0, Zenon DEF Request, spy_handle_write, WriteToChunk, WriteLater, spy_handle_read,
     spy_dump_chunk, spy_handle_check_disk, spy_handle_ping, spy_query_infos,
     spy_kill_pending_writes, ErrorReply
<1>2. ASSUME NEW error, NEW cs, cs = Reply(c, error) \/ cs = Await(c)
      PROVE  \A d \in Conns : \/ cs[d] = conn[d]
                              \/ conn[d].state # "CLOSED" /\ cs[d].state # "CLOSED"
  <2>1. conn[c] \in Connection
    BY <1>0
  <2>2. \A d \in Conns \ {c} : cs[d] = conn[d]
    BY <1>0, <1>2 DEF Reply, Await
  <2>3. \/ cs[c] = [conn[c] EXCEPT !.state = "SEND_RSP", !.error = error]
        \/ cs[c] = [conn[c] EXCEPT !.state = "PROCESS_REQUEST", !.readable = FALSE]
    BY <1>0, <1>2 DEF Reply, Await
  <2>4. cs[c].state # "CLOSED"
    BY <2>1, <2>3, Zenon DEF Connection
  <2> QED BY <1>0, <2>2, <2>4
<1>3. CASE spy_kill_pending_writes(c)
  <2> DEFINE cs == Reply(c, "SUCCESS")
             n == Len(pending_writes)
  <2>1. conn' = [d \in Conns |->
                   IF d \in Oldest(n) THEN [cs[d] EXCEPT !.state = "SEND_RSP", !.error = "KILLED"]
                                      ELSE cs[d]]
    BY <1>3, Zenon DEF spy_kill_pending_writes, Abandon
  <2>2. \A d \in Conns : \/ cs[d] = conn[d]
                         \/ conn[d].state # "CLOSED" /\ cs[d].state # "CLOSED"
    BY <1>2
  <2>3. ASSUME NEW d \in Oldest(n)
        PROVE  d \in Conns /\ conn[d].state = "PROCESS_REQUEST" /\ d # c
    <3>1. n \in 0..Len(pending_writes) /\ Abandon(n, cs, "KILLED")
      BY <1>3, LenProperties DEF spy_kill_pending_writes, IInv, TypeOK
    <3>2. d \in Conns /\ job[d].phase = "pending"
      BY <2>3, <3>1, AbandonFact DEF IInv, JobHasConnection
    <3>3. job[d].kind = "write"
      BY <3>2 DEF IInv, Lists
    <3> QED BY <1>0, <3>2, <3>3 DEF IInv, JobHasConnection
  <2>4. ASSUME NEW d \in Conns
        PROVE  \/ conn'[d] = conn[d]
               \/ conn[d].state # "CLOSED" /\ conn'[d].state # "CLOSED"
    <3>1. CASE d \in Oldest(n)
      <4>1. cs[d] = conn[d] /\ conn[d] \in Connection
        BY <1>0, <2>3, <3>1 DEF Reply
      <4>2. conn'[d] = [conn[d] EXCEPT !.state = "SEND_RSP", !.error = "KILLED"]
        BY <2>1, <3>1, <4>1, Zenon
      <4> QED BY <2>3, <3>1, <4>1, <4>2 DEF Connection
    <3>2. CASE d \notin Oldest(n)
      BY <2>1, <2>2, <3>2, Zenon
    <3> QED BY <3>1, <3>2
  <2> QED BY <1>1, <2>4, OpenKept
<1>4. CASE ~spy_kill_pending_writes(c)
  <2> DEFINE Responds == conn' = Await(c) \/ \E error : conn' = Reply(c, error)
  <2>1. ASSUME NEW f \in Fids, spy_handle_write(c, f) PROVE Responds
    BY <2>1 DEF spy_handle_write, WriteToChunk, WriteLater, ErrorReply
  <2>2. ASSUME NEW f \in Fids, spy_handle_read(c, f) PROVE Responds
    BY <2>2 DEF spy_handle_read, ErrorReply
  <2>3. ASSUME NEW ch \in Chunks, spy_dump_chunk(c, ch) PROVE Responds
    BY <2>3 DEF spy_dump_chunk, ErrorReply
  <2>4. ASSUME spy_handle_check_disk(c) \/ spy_query_infos(c) PROVE Responds
    BY <2>4 DEF spy_handle_check_disk, spy_query_infos, ErrorReply
  <2>5. CASE spy_handle_ping(c)
    BY <1>0, <1>1, <2>5, OpenKept DEF spy_handle_ping
  <2>6. CASE ~spy_handle_ping(c)
    <3>1. Responds
      BY <1>4, <2>1, <2>2, <2>3, <2>4, <2>6 DEF Request
    <3> QED BY <1>1, <1>2, <3>1, OpenKept
  <2> QED BY <2>5, <2>6
<1> QED BY <1>3, <1>4

(* A done callback answers, or closes a connection after a dump.            *)
LEMMA ConnsDone ==
  ASSUME IsFiniteSet(Conns), IInv, ConnBooks, NEW c \in Conns, Done(c)
  PROVE  ConnBooks'
<1>0. /\ conn \in [Conns -> Connection] /\ conn[c] \in Connection /\ TypeOK
      /\ statistic \in [conn_count : Int, reading_count : Int, writing_count : Int]
  BY DEF IInv, TypeOK
<1>1. conn[c].state = "PROCESS_REQUEST"
  BY DEF Done, spy_write_file_done, spy_read_file_done, spy_check_chunk_done,
     spy_dump_chunkfile_done, Working, IInv, JobHasConnection
<1>2. CASE spy_dump_chunkfile_done(c)
  <2>1. CASE conn' = [conn EXCEPT ![c] = Receiving] /\ UNCHANGED statistic
    BY <1>0, <1>1, <2>1, OpenKept DEF Receiving
  <2>2. CASE spy_free_client_connection(c)
    BY <1>0, <1>1, <2>2, OpenCloses
  <2> QED BY <1>2, <2>1, <2>2 DEF spy_dump_chunkfile_done
<1>3. CASE ~spy_dump_chunkfile_done(c)
  <2>1. PICK error : conn' = Reply(c, error)
    BY <1>3 DEF Done, spy_write_file_done, DuplicateDone, Answer, spy_read_file_done,
       spy_check_chunk_done
  <2>2. /\ \A d \in Conns \ {c} : conn'[d] = conn[d]
        /\ conn'[c] = [conn[c] EXCEPT !.state = "SEND_RSP", !.error = error]
    BY <1>0, <2>1 DEF Reply
  <2>3. conn'[c].state # "CLOSED"
    BY <1>0, <2>2 DEF Connection
  <2>4. statistic'.conn_count = statistic.conn_count
    BY <1>0, <1>3 DEF Done, spy_write_file_done, DuplicateDone, ServePending, ReturnChunk,
       spy_read_file_done, spy_check_chunk_done
  <2> QED BY <1>1, <2>2, <2>3, <2>4, OpenKept, Zenon
<1> QED BY <1>2, <1>3

(* Every step keeps the count of the connections.                           *)
LEMMA ConnsStep ==
  ASSUME IsFiniteSet(Conns), IInv, ConnBooks, [Next]_vars
  PROVE  ConnBooks'
<1>0. /\ conn \in [Conns -> Connection] /\ TypeOK
      /\ statistic \in [conn_count : Int, reading_count : Int, writing_count : Int]
  BY DEF IInv, TypeOK
<1>1. ASSUME UNCHANGED <<conn, statistic>> PROVE ConnBooks'
  BY <1>1, OpenKept
<1>2. ASSUME NEW c \in Conns, Socket(c) PROVE ConnBooks'
  <2>1. CASE spy_accept_handler(c)
    <3>1. \A d \in Conns : conn'[d] = IF d = c THEN Receiving ELSE conn[d]
      BY <1>0, <2>1 DEF spy_accept_handler
    <3>2. Open' = Open \cup {c} /\ c \notin Open
      BY <2>1, <3>1 DEF Open, Receiving, spy_accept_handler
    <3>3. Cardinality(Open') = Cardinality(Open) + 1
      BY <3>2, FS_Subset, FS_AddElement DEF Open
    <3>4. statistic'.conn_count = statistic.conn_count + 1
      BY <1>0, <2>1 DEF spy_accept_handler
    <3> QED BY <3>1, <3>3, <3>4 DEF ConnBooks, Receiving
  <2>2. CASE spy_read_handler_closes(c)
    BY <1>0, <2>2, OpenCloses DEF spy_read_handler_closes, ConnBooks
  <2>3. CASE spy_write_handler(c)
    <3>1. CASE conn' = [conn EXCEPT ![c] = Receiving] /\ UNCHANGED statistic
      BY <1>0, <2>3, <3>1, OpenKept DEF Receiving, spy_write_handler
    <3>2. CASE spy_free_client_connection(c)
      BY <1>0, <2>3, <3>2, OpenCloses DEF spy_write_handler
    <3> QED BY <2>3, <3>1, <3>2 DEF spy_write_handler
  <2> QED BY <1>2, <2>1, <2>2, <2>3 DEF Socket
<1>3. ASSUME NEW c \in Conns, Worker(c) PROVE ConnBooks'
  BY <1>1, <1>3, WorkerFrames
<1>4. ASSUME spy_server_cron PROVE ConnBooks'
  <2>1. PICK n \in 0..Len(pending_writes) : n = TimedOut
    BY TimedOutFact DEF IInv
  <2>2. Abandon(n, conn, "CHUNK_UNAVAILABLE") /\ UNCHANGED statistic
    BY <1>4, <2>1 DEF spy_server_cron
  <2>3. ASSUME NEW d \in Oldest(n) PROVE d \in Conns /\ conn[d].state = "PROCESS_REQUEST"
    <3>1. d \in Conns /\ job[d].phase = "pending"
      BY <2>2, <2>3, AbandonFact DEF IInv, JobHasConnection
    <3>2. job[d].kind = "write"
      BY <3>1 DEF IInv, Lists
    <3> QED BY <3>1, <3>2 DEF IInv, JobHasConnection
  <2>4. ASSUME NEW d \in Conns
        PROVE  \/ conn'[d] = conn[d]
               \/ conn[d].state # "CLOSED" /\ conn'[d].state # "CLOSED"
    <3>1. conn[d] \in Connection
      BY <1>0
    <3>2. conn'[d] = IF d \in Oldest(n)
                     THEN [conn[d] EXCEPT !.state = "SEND_RSP", !.error = "CHUNK_UNAVAILABLE"]
                     ELSE conn[d]
      BY <2>2, Zenon DEF Abandon
    <3> QED BY <2>3, <3>1, <3>2 DEF Connection
  <2> QED BY <2>2, <2>4, OpenKept
<1>5. ASSUME Crash \/ spy_create_chunk \/ spy_create_chunk_superblock \/ spy_recover_files
      PROVE  ConnBooks'
  BY <1>1, <1>5, BooksReset DEF Crash, spy_create_chunk, spy_create_chunk_superblock,
                          spy_recover_files, loopVars
<1>6. ASSUME UNCHANGED vars PROVE ConnBooks'
  BY <1>1, <1>6 DEF vars, loopVars
<1> QED BY <1>2, <1>3, <1>4, <1>5, <1>6, ConnsRequest, ConnsDone DEF Next

(* Nothing is counted at first.                                             *)
LEMMA BooksInit ==
  ASSUME IsFiniteSet(Conns), Init
  PROVE  JobBooks /\ ConnBooks
<1>1. /\ job = [c \in Conns |-> NoJob] /\ conn = [c \in Conns |-> Closed]
      /\ free_io_jobs = MAX_IO_JOBS /\ pending_writes = <<>> /\ statistic = NoStatistic
      /\ MAX_IO_JOBS \in Nat
  BY ServerAssumption DEF Init
<1>2. \A S \in {IoKinds, {"write"}, {"read"}} : On(S) = {}
  BY <1>1 DEF On, NoJob, JobOf, IoKinds
<1>3. \A S \in {IoKinds, {"write"}, {"read"}} : Count(S) = 0
  BY <1>2, CountIs, FS_EmptySet
<1>4. Open = {} /\ \A c \in Conns : ~conn[c].readable
  BY <1>1 DEF Open, Closed
<1>5. JobBooks
  BY <1>1, <1>3 DEF JobBooks, NoStatistic
<1> QED BY <1>1, <1>4, <1>5, FS_EmptySet DEF ConnBooks, NoStatistic

(* The io jobs, pending_writes_size and the gauges reported to the master   *)
(* agree with what they count, for any number of connections, chunks and io *)
(* jobs: no path of a handler leaks an io job or frees it twice.            *)
THEOREM CountersAgree ==
  ASSUME IsFiniteSet(Conns)
  PROVE  Spec => []Accounting
<1>1. Init => JobBooks /\ ConnBooks
  BY BooksInit
<1>2. IInv /\ JobBooks /\ ConnBooks /\ [Next]_vars => JobBooks' /\ ConnBooks'
  BY BooksStep, ConnsStep
<1>3. IInv /\ JobBooks /\ ConnBooks => Accounting
  BY DEF JobBooks, ConnBooks, Accounting, IInv, Lists, IoKinds, Open
<1> QED BY <1>1, <1>2, <1>3, InvAlways, PTL DEF Spec
-----------------------------------------------------------------------------
(* Chunks come back.  Two branches keep one on writing_chunks with nobody  *)
(* to return it: spy_handle_write without an io job, and a write that      *)
(* finds its fid in the index when it is done.  No other step does.        *)

(* A step that takes no chunk and leaves the writers theirs.                *)
LEMMA WritersStay ==
  ASSUME writing_chunks' \subseteq writing_chunks,
         \A d \in Writers : d \in Writers' /\ job'[d].chunk = job[d].chunk
  PROVE  LosesNoOther
BY DEF LosesNoOther, Orphaned

(* A prefix of the pending writes is some of them.                          *)
LEMMA OldestPending ==
  ASSUME IInv, NEW n \in 0..Len(pending_writes)
  PROVE  Oldest(n) \subseteq Range(pending_writes)
<1>1. DOMAIN pending_writes = 1..Len(pending_writes) /\ Len(pending_writes) \in Nat
  BY LenProperties DEF IInv, TypeOK
<1> QED BY <1>1 DEF Oldest, Range

(* A request that takes a chunk gets a write to go with it, or finds no io  *)
(* job; no other request takes one, and a kill ends pending writes alone.   *)
LEMMA KeptRequest ==
  ASSUME IInv, NEW c \in Conns, Request(c)
  PROVE  LosesNoOther
<1>0. job \in [Conns -> Job] /\ job[c].kind = "none" /\ c \notin Writers
  BY RequestFrame DEF IInv, TypeOK, JobHasConnection, Writers
<1>1. ASSUME NEW j, job' = [job EXCEPT ![c] = j]
      PROVE  \A d \in Writers : d \in Writers' /\ job'[d].chunk = job[d].chunk
  BY <1>0, <1>1 DEF Writers
<1>2. CASE UNCHANGED <<job, writing_chunks>>
  BY <1>2, WritersStay DEF Writers
<1>3. ASSUME NEW j, job' = [job EXCEPT ![c] = j], UNCHANGED writing_chunks
      PROVE  LosesNoOther
  BY <1>1, <1>3, WritersStay
<1>4. CASE spy_kill_pending_writes(c)
  <2> DEFINE n == Len(pending_writes)
  <2>1. n \in 0..Len(pending_writes)
    BY LenProperties DEF IInv, TypeOK
  <2> HIDE DEF n
  <2>2. \A d \in Oldest(n) : job[d].phase = "pending"
    BY <2>1, OldestPending, Zenon DEF IInv, JobHasConnection
  <2>3. \A d \in Conns : job'[d] = IF d \in Oldest(n) THEN NoJob ELSE job[d]
    BY <1>4 DEF spy_kill_pending_writes, n
  <2>4. \A d \in Writers : d \in Writers' /\ job'[d].chunk = job[d].chunk
    BY <2>2, <2>3 DEF Writers
  <2> QED BY <1>4, <2>4, WritersStay DEF spy_kill_pending_writes
<1>5. ASSUME NEW f \in Fids, ChunkFor(f) # 0, WriteToChunk(c, f, ChunkFor(f))
      PROVE  LosesNoOther
  <2> DEFINE ch == chunks[ChunkFor(f)]
             j == WriteJob(f, ch, chunk[ch].current_offset)
  <2>1. ch \in Range(chunks)
    BY <1>5, ChunkForFact DEF IInv
  <2>2. writing_chunks' = writing_chunks \cup {ch}
    BY <1>5 DEF WriteToChunk, TakeChunk
  <2>3. (free_io_jobs = 0 /\ UNCHANGED job) \/ job' = [job EXCEPT ![c] = j]
    BY <1>5 DEF WriteToChunk
  <2>4. j.kind = "write" /\ j.chunk = ch /\ j.phase = "queued"
    BY Zenon DEF WriteJob, JobOf
  <2> HIDE DEF j, ch
  <2>5. CASE free_io_jobs = 0 /\ UNCHANGED job
    <3>1. Orphaned' \subseteq Orphaned \cup {ch}
      BY <2>2, <2>5 DEF Orphaned, Writers
    <3> QED BY <2>1, <2>5, <3>1 DEF LosesNoOther
  <2>6. CASE job' = [job EXCEPT ![c] = j]
    <3>1. c \in Writers' /\ job'[c].chunk = ch
      BY <1>0, <2>4, <2>6 DEF Writers
    <3>2. Orphaned' \subseteq Orphaned
      BY <1>1, <2>2, <2>6, <3>1, Zenon DEF Orphaned
    <3> QED BY <3>2 DEF LosesNoOther
  <2> QED BY <2>3, <2>5, <2>6
<1>6. ASSUME NEW f \in Fids, WriteLater(c, f) PROVE LosesNoOther
  BY <1>2, <1>3, <1>6 DEF WriteLater, ErrorReply
<1>7. ASSUME NEW f \in Fids, spy_handle_write(c, f) PROVE LosesNoOther
  BY <1>2, <1>5, <1>6, <1>7, Zenon DEF spy_handle_write, ErrorReply
<1>8. ASSUME NEW f \in Fids, spy_handle_read(c, f) PROVE LosesNoOther
  BY <1>2, <1>3, <1>8 DEF spy_handle_read, ErrorReply
<1>9. ASSUME NEW ch \in Chunks, spy_dump_chunk(c, ch) PROVE LosesNoOther
  BY <1>2, <1>3, <1>9 DEF spy_dump_chunk, ErrorReply
<1>10. CASE spy_handle_check_disk(c)
  BY <1>2, <1>3, <1>10 DEF spy_handle_check_disk, ErrorReply
<1>11. CASE spy_handle_ping(c) \/ spy_query_infos(c)
  BY <1>2, <1>11 DEF spy_handle_ping, spy_query_infos, ErrorReply
<1> QED BY <1>4, <1>7, <1>8, <1>9, <1>10, <1>11 DEF Request

(* A write that is done passes its chunk on or returns it, unless it meets  *)
(* a duplicate; the other callbacks are about no chunk.                     *)
LEMMA KeptDone ==
  ASSUME IInv, NEW c \in Conns, Done(c)
  PROVE  LosesNoOther
<1>0. job \in [Conns -> Job]
  BY DEF IInv, TypeOK
<1>1. CASE ~spy_write_file_done(c)
  <2>1. job' = [job EXCEPT ![c] = NoJob] /\ UNCHANGED writing_chunks /\ c \notin Writers
    BY <1>1 DEF Done, spy_read_file_done, spy_check_chunk_done, spy_dump_chunkfile_done,
       Working, Writers
  <2>2. \A d \in Writers : d \in Writers' /\ job'[d].chunk = job[d].chunk
    BY <1>0, <2>1 DEF Writers
  <2> QED BY <2>1, <2>2, WritersStay
<1>2. CASE spy_write_file_done(c)
  <2> DEFINE f == job[c].fid
             ch == job[c].chunk
  <2>1. c \in Writers /\ Working(c, "write", "done")
    BY <1>2 DEF spy_write_file_done, Working, Writers
  <2>2. CASE f \in Indexed /\ DuplicateDone(c)
    <3>1. job' = [job EXCEPT ![c] = NoJob] /\ UNCHANGED writing_chunks
      BY <2>2 DEF DuplicateDone
    <3>2. \A d \in Writers \ {c} : d \in Writers' /\ job'[d].chunk = job[d].chunk
      BY <1>0, <3>1 DEF Writers
    <3>3. Orphaned' \subseteq Orphaned \cup {ch}
      BY <3>1, <3>2, Zenon DEF Orphaned
    <3>4. MeetsDuplicate(ch)
      BY <2>1, <2>2 DEF MeetsDuplicate
    <3> QED BY <3>3, <3>4 DEF LosesNoOther
  <2>3. CASE PendingFor(ch) # 0 /\ ServePending(c, ch, PendingFor(ch))
    <3>1. ch \in Chunks
      BY <2>1, WriterChunk
    <3>2. PICK i \in 1..Len(pending_writes) : i = PendingFor(ch)
      BY <2>3, <3>1, PendingForFact DEF IInv
    <3>3. PICK d \in Conns : d = pending_writes[i] /\ job[d].phase = "pending"
      <4>1. pending_writes[i] \in Conns /\ pending_writes[i] \in Range(pending_writes)
        BY LenProperties, ElementOfSeq DEF Range, IInv, TypeOK
      <4> QED BY <4>1 DEF IInv, JobHasConnection
    <3> DEFINE j == WriteJob(job[d].fid, ch, chunk[ch].current_offset)
    <3>4. j.kind = "write" /\ j.phase = "queued" /\ j.chunk = ch
      BY Zenon DEF WriteJob, JobOf
    <3>5. job' = [job EXCEPT ![c] = NoJob, ![d] = j] /\ UNCHANGED writing_chunks
      BY <2>3, <3>2, <3>3, Zenon DEF ServePending
    <3> HIDE DEF j
    <3>6. c # d /\ d \notin Writers
      BY <2>1, <3>3, Zenon DEF Writers
    <3>7. job'[d] = j /\ \A e \in Conns \ {c, d} : job'[e] = job[e]
      BY <1>0, <3>5, <3>6
    <3>8. /\ d \in Writers' /\ job'[d].chunk = ch
          /\ \A w \in Writers \ {c} : w \in Writers' /\ job'[w].chunk = job[w].chunk
      BY <3>4, <3>6, <3>7 DEF Writers
    <3>9. Orphaned' \subseteq Orphaned
      BY <3>5, <3>8, Zenon DEF Orphaned
    <3> QED BY <3>9 DEF LosesNoOther
  <2>4. CASE ReturnChunk(c, ch)
    <3>1. job' = [job EXCEPT ![c] = NoJob] /\ writing_chunks' = writing_chunks \ {ch}
      BY <2>4 DEF ReturnChunk
    <3>2. \A w \in Writers \ {c} : w \in Writers' /\ job'[w].chunk = job[w].chunk
      BY <1>0, <3>1 DEF Writers
    <3>3. Orphaned' \subseteq Orphaned
      BY <3>1, <3>2 DEF Orphaned
    <3> QED BY <3>3 DEF LosesNoOther
  <2> QED BY <1>2, <2>2, <2>3, <2>4, Zenon DEF spy_write_file_done
<1> QED BY <1>1, <1>2

(* Every step.                                                              *)
LEMMA KeptStep ==
  ASSUME IInv, [Next]_vars
  PROVE  LosesNoOther
<1>1. ASSUME UNCHANGED <<job, writing_chunks>> PROVE LosesNoOther
  BY <1>1, WritersStay DEF Writers
<1>2. ASSUME writing_chunks' = {} PROVE LosesNoOther
  BY <1>2 DEF LosesNoOther, Orphaned
<1>3. ASSUME NEW c \in Conns, Socket(c) PROVE LosesNoOther
  BY <1>1, <1>3, SocketFrame
<1>4. ASSUME NEW c \in Conns, Worker(c) PROVE LosesNoOther
  <2>1. \A d \in Conns : /\ job'[d].kind = job[d].kind
                         /\ job'[d].chunk = job[d].chunk
                         /\ (job'[d].phase = "pending" <=> job[d].phase = "pending")
    BY <1>4, WorkerEffect
  <2>2. \A d \in Writers : d \in Writers' /\ job'[d].chunk = job[d].chunk
    BY <2>1 DEF Writers
  <2> QED BY <1>4, <2>2, WorkerFrames, WritersStay
<1>5. ASSUME spy_server_cron PROVE LosesNoOther
  <2>1. PICK n \in 0..Len(pending_writes) : Abandons(n)
    BY <1>5, CronEffect
  <2>2. ASSUME NEW d \in Writers PROVE d \in Writers' /\ job'[d].chunk = job[d].chunk
    <3>1. d \in Conns \ Oldest(n) /\ job[d].phase # "pending"
      BY <2>1, OldestPending DEF Writers, IInv, JobHasConnection
    <3>2. job'[d] = job[d]
      BY <2>1, <3>1 DEF Abandons
    <3> QED BY <3>2 DEF Writers
  <2>3. UNCHANGED writing_chunks
    BY <1>5 DEF spy_server_cron
  <2> QED BY <2>2, <2>3, WritersStay
<1>6. ASSUME Crash PROVE LosesNoOther
  BY <1>2, <1>6 DEF Crash, Reset
<1>7. ASSUME spy_create_chunk \/ spy_create_chunk_superblock \/ spy_recover_files
      PROVE  LosesNoOther
  <2>1. writing_chunks = {}
    BY <1>7 DEF spy_create_chunk, spy_create_chunk_superblock, spy_recover_files,
       IInv, Idle, AtRest
  <2>2. writing_chunks' = writing_chunks \/ writing_chunks' = {}
    BY <1>7 DEF spy_create_chunk, spy_create_chunk_superblock, spy_recover_files,
       Reset, loopVars
  <2> QED BY <1>2, <2>1, <2>2
<1>8. ASSUME UNCHANGED vars PROVE LosesNoOther
  BY <1>1, <1>8 DEF vars, loopVars
<1> QED BY <1>3, <1>4, <1>5, <1>6, <1>7, <1>8, KeptRequest, KeptDone DEF Next

(* A chunk that spy_handle_write takes off the allocation list loses its    *)
(* last writer only where there is no io job for it or the fid turns out to *)
(* be a duplicate, for any number of connections, chunks, files and io      *)
(* jobs, through failed writes, timeouts, kills and crashes.                *)
THEOREM ChunksKept == Spec => ChunkKept
<1>1. IInv /\ [Next]_vars => [LosesNoOther]_vars
  BY KeptStep
<1> QED BY <1>1, InvAlways, PTL DEF Spec, ChunkKept
=============================================================================
