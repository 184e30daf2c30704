-------------------------- MODULE SpyServerProofs ---------------------------
(***************************************************************************)
(* The theorems about SpyServer, for every number of connections, files,   *)
(* chunks, io jobs and crashes: the workers, a crash and a restart keep    *)
(* the chunk files in order too.                                           *)
(***************************************************************************)
EXTENDS SpyServerLoop

-----------------------------------------------------------------------------
(* The steps of the worker threads keep the part of the invariant that     *)
(* ties the index and the jobs to the bytes of the chunk files: a worker   *)
(* writes only behind what its chunk holds, and no other thread writes     *)
(* there.                                                                  *)

(* Below the current_offset of its chunk a worker writes nothing.           *)
LEMMA WorkerWritesAbove ==
  ASSUME IInv, NEW c \in Writers, Worker(c)
  PROVE  SameBelow(cells[job[c].chunk], cells'[job[c].chunk],
                   chunk[job[c].chunk].current_offset)
<1> DEFINE ch == job[c].chunk
           f == job[c].fid
           off == job[c].offset
<1>0. TypeOK /\ ch \in Chunks /\ f \in Fids /\ off \in Nat
  BY WriterChunk, StoreAssumption DEF IInv
<1>1. ASSUME NEW from \in Nat, NEW to \in Nat, Pwrite(ch, off, f, from, to),
             off = chunk[ch].current_offset
      PROVE  SameBelow(cells[ch], cells'[ch], chunk[ch].current_offset)
  <2>1. \A q \in Offsets : q < off + from => cells'[ch][q] = cells[ch][q]
    BY <1>0, <1>1, PwriteFact
  <2> QED BY <1>0, <1>1, <2>1, StoreAssumption DEF SameBelow, Offsets
<1>2. CASE spy_write_file_meta(c)
  <2>1. off = chunk[ch].current_offset
    BY <1>2, RoomForWrite DEF spy_write_file_meta, Working
  <2>2. \E to \in Nat : Pwrite(ch, off, f, 0, to)
    BY <1>2, StoreAssumption DEF spy_write_file_meta
  <2> QED BY <1>1, <2>1, <2>2
<1>3. CASE spy_write_file_body(c)
  <2>1. off = chunk[ch].current_offset
    BY <1>3, RoomForWrite DEF spy_write_file_body, Working
  <2>2. FILE_META_SIZE \in Nat /\ RecordSize(f) \in Nat
    BY <1>0, RecordSizeNat, StoreAssumption
  <2>3. \E to \in Nat : Pwrite(ch, off, f, FILE_META_SIZE, to)
    BY <1>3, <2>2 DEF spy_write_file_body
  <2> QED BY <1>1, <2>1, <2>2, <2>3
<1>4. CASE spy_write_file_superblock(c) \/ spy_read_file(c) \/ spy_check_chunk(c) \/ spy_dump_chunkfile(c)
  BY <1>4 DEF spy_write_file_superblock, spy_read_file, spy_check_chunk, spy_dump_chunkfile, SameBelow
<1> QED BY <1>2, <1>3, <1>4 DEF Worker

(* What a body that was written makes of the chunk.                         *)
LEMMA BodyWritten ==
  ASSUME IInv, NEW c \in Writers, spy_write_file_body(c), chunk' # chunk
  PROVE  LET ch  == job[c].chunk
             f   == job[c].fid
             off == job[c].offset
         IN /\ chunk'[ch] = Advanced(ch, f)
            /\ chunk'[ch].current_offset = off + RecordSize(f)
            /\ Balanced(chunk'[ch])
            /\ off >= SUPERBLOCK_SIZE
            /\ IntactIn(cells'[ch], off, f)
            /\ job' = [job EXCEPT ![c].phase = "body"]
<1> DEFINE ch == job[c].chunk
           f == job[c].fid
           off == job[c].offset
<1>0. /\ TypeOK /\ ch \in Chunks /\ f \in Fids /\ off \in Nat
      /\ RecordSize(f) \in Nat /\ FILE_META_SIZE \in Nat
      /\ chunk \in [Chunks -> ChunkInfo]
  BY WriterChunk, RecordSizeNat, StoreAssumption DEF IInv, TypeOK
<1>1. job[c].phase = "meta"
  BY DEF spy_write_file_body, Working
<1>2. /\ Pwrite(ch, off, f, FILE_META_SIZE, RecordSize(f))
      /\ chunk' = [chunk EXCEPT ![ch] = Advanced(ch, f)]
      /\ job' = [job EXCEPT ![c].phase = "body"]
  BY DEF spy_write_file_body
<1>3. /\ off = chunk[ch].current_offset
      /\ off >= SUPERBLOCK_SIZE
      /\ off + RecordSize(f) < CHUNK_SIZE
      /\ chunk[ch].avail_space = CHUNK_SIZE - off
  BY <1>1, RoomForWrite
<1>4. chunk'[ch] = Advanced(ch, f)
  BY <1>0, <1>2
<1>5. chunk'[ch].current_offset = off + RecordSize(f) /\ Balanced(chunk'[ch])
  <2>1. /\ chunk'[ch].current_offset = off + RecordSize(f)
        /\ chunk'[ch].avail_space = (CHUNK_SIZE - off) - RecordSize(f)
    BY <1>3, <1>4 DEF Advanced
  <2>2. /\ off + RecordSize(f) >= SUPERBLOCK_SIZE
        /\ (off + RecordSize(f)) + ((CHUNK_SIZE - off) - RecordSize(f)) = CHUNK_SIZE
    BY <1>0, <1>3, Sizes
  <2> QED BY <2>1, <2>2 DEF Balanced
<1>6. IntactIn(cells'[ch], off, f)
  <2>1. ASSUME NEW k \in 0..(RecordSize(f) - 1) PROVE cells'[ch][off + k] = <<f, k>>
    <3>1. off + k \in Offsets /\ (off + k) - off = k
      BY <1>0, <1>3, StoreAssumption DEF Offsets
    <3>2. CASE k < FILE_META_SIZE
      <4>1. cells[ch][off + k] = <<f, k>>
        <5>1. k \in 0..(FILE_META_SIZE - 1)
          BY <1>0, <3>2, Sizes
        <5>2. Placed(c)
          BY PlacementIs DEF IInv
        <5> QED BY <1>1, <5>1, <5>2 DEF Placed
      <4>2. cells'[ch][off + k] = cells[ch][off + k]
        <5>1. off + k < off + FILE_META_SIZE
          BY <1>0, <3>2
        <5> QED BY <1>0, <1>2, <3>1, <5>1, PwriteFact
      <4> QED BY <4>1, <4>2
    <3>3. CASE k >= FILE_META_SIZE
      <4>1. off + FILE_META_SIZE <= off + k /\ off + k < off + RecordSize(f)
        BY <1>0, <3>3
      <4> QED BY <1>0, <1>2, <3>1, <4>1, PwriteFact
    <3>4. k < FILE_META_SIZE \/ k >= FILE_META_SIZE
      BY StoreAssumption
    <3> QED BY <3>2, <3>3, <3>4
  <2> QED BY <2>1 DEF IntactIn
<1> QED BY <1>2, <1>3, <1>4, <1>5, <1>6

(* A worker keeps the layout: a record becomes part of it when it is whole. *)
LEMMA LayoutWorker ==
  ASSUME IInv, NEW c \in Conns, Worker(c)
  PROVE  Layout'
<1>0. /\ TypeOK /\ Layout /\ mode = "up" /\ mode' = mode /\ files' = files
      /\ TypeOK' /\ files \subseteq Chunks
  BY WorkerFrames, TypeWorker DEF IInv, TypeOK
<1> SUFFICES ASSUME NEW ch \in Chunks
             PROVE  /\ sb'[ch] # NoSuperblock =>
                         /\ ch \in files
                         /\ Balanced(sb'[ch])
                         /\ TiledIn(cells'[ch], sb'[ch].current_offset)
                    /\ ch \in files =>
                         /\ Balanced(chunk'[ch])
                         /\ TiledIn(cells'[ch], chunk'[ch].current_offset)
                         /\ sb'[ch].current_offset <= chunk'[ch].current_offset
  BY <1>0, Zenon DEF Layout, Loaded, Balanced, Tiled, TiledIn, Intact, IntactIn
<1>1. /\ sb[ch] # NoSuperblock =>
           /\ ch \in files
           /\ Balanced(sb[ch])
           /\ TiledIn(cells[ch], sb[ch].current_offset)
      /\ ch \in files =>
           /\ Balanced(chunk[ch])
           /\ TiledIn(cells[ch], chunk[ch].current_offset)
           /\ sb[ch].current_offset <= chunk[ch].current_offset
  BY <1>0, Zenon DEF Layout, Loaded, Tiled, TiledIn, Intact, IntactIn
<1>2. CASE c \in Writers => ch # job[c].chunk
  <2>1. chunk'[ch] = chunk[ch] /\ sb'[ch] = sb[ch] /\ cells'[ch] = cells[ch]
    BY <1>2, ChunkMemory
  <2> QED BY <1>1, <2>1
<1>3. CASE c \in Writers /\ ch = job[c].chunk
  <2>1. /\ ch \in files
        /\ sb[ch] \in ChunkInfo /\ chunk[ch] \in ChunkInfo
    BY <1>0, <1>3, WriterChunk DEF TypeOK
  <2>2. SameBelow(cells[ch], cells'[ch], chunk[ch].current_offset)
    BY <1>3, WorkerWritesAbove
  <2>3. /\ sb[ch].current_offset \in 0..CHUNK_SIZE /\ chunk[ch].current_offset \in 0..CHUNK_SIZE
        /\ sb[ch].current_offset <= chunk[ch].current_offset
    BY <1>1, <2>1 DEF ChunkInfo
  <2>4. SameBelow(cells[ch], cells'[ch], sb[ch].current_offset)
    BY <2>2, <2>3, StoreAssumption DEF SameBelow, Offsets
  <2>5. TiledIn(cells'[ch], chunk[ch].current_offset)
    BY <1>1, <2>1, <2>2, <2>3, TiledKept
  <2>6. sb[ch] # NoSuperblock => TiledIn(cells'[ch], sb[ch].current_offset)
    BY <1>1, <2>3, <2>4, TiledKept
  <2>7. CASE UNCHANGED <<sb, chunk>>
    BY <1>1, <2>1, <2>5, <2>6, <2>7
  <2>8. CASE spy_write_file_superblock(c)
    <3>1. chunk' = chunk /\ sb'[ch] \in {chunk[ch], sb[ch], NoSuperblock}
      BY <1>0, <1>3, <2>8 DEF spy_write_file_superblock, TypeOK
    <3>2. NoSuperblock.current_offset = 0
      BY DEF NoSuperblock
    <3> QED BY <1>1, <2>1, <2>3, <2>5, <2>6, <3>1, <3>2
  <2>9. CASE spy_write_file_body(c) /\ chunk' # chunk
    <3> DEFINE f == job[c].fid
               off == job[c].offset
    <3>1. /\ chunk'[ch].current_offset = off + RecordSize(f)
          /\ Balanced(chunk'[ch])
          /\ off >= SUPERBLOCK_SIZE
          /\ IntactIn(cells'[ch], off, f)
      BY <1>3, <2>9, BodyWritten
    <3>2. off = chunk[ch].current_offset /\ f \in Fids /\ off \in Nat
      <4>1. job[c].phase = "meta"
        BY <2>9 DEF spy_write_file_body, Working
      <4>2. off = chunk[ch].current_offset /\ f \in Fids
        BY <1>3, <4>1, RoomForWrite, WriterChunk
      <4>3. chunk[ch].current_offset \in Nat
        BY <2>3, Sizes
      <4> QED BY <4>2, <4>3
    <3>3. TiledIn(cells'[ch], off)
      BY <2>5, <3>2
    <3> HIDE DEF off, f
    <3>4. TiledIn(cells'[ch], chunk'[ch].current_offset)
      BY <3>1, <3>2, <3>3, TiledExtended
    <3>5. sb' = sb
      BY <2>9 DEF spy_write_file_body
    <3>6. sb[ch].current_offset <= chunk'[ch].current_offset
      BY <2>3, <3>1, <3>2, RecordSizeNat
    <3> QED BY <1>1, <2>1, <2>6, <3>1, <3>4, <3>5, <3>6
  <2> QED BY <2>7, <2>8, <2>9 DEF Worker, spy_write_file_meta, spy_write_file_body,
                                  spy_read_file, spy_check_chunk, spy_dump_chunkfile
<1> QED BY <1>2, <1>3

(* A worker keeps the place of every write.                                 *)
LEMMA PlacementWorker ==
  ASSUME IInv, NEW c \in Conns, Worker(c)
  PROVE  Owners' /\ Placement'
<1>0. /\ TypeOK /\ Owners /\ writing_chunks' = writing_chunks
      /\ job \in [Conns -> Job]
      /\ \A d \in Conns \ {c} : job'[d] = job[d]
      /\ job'[c].kind = job[c].kind /\ job'[c].fid = job[c].fid
      /\ job'[c].chunk = job[c].chunk /\ job'[c].offset = job[c].offset
      /\ job[c].phase # "pending" /\ job'[c].phase # "pending"
  BY WorkerEffect, WorkerFrames DEF IInv, TypeOK
<1>1. Writers' = Writers /\ Writers \subseteq Conns
  BY <1>0 DEF Writers
<1>2. Owners'
  BY <1>0, <1>1 DEF Owners
<1>3. ASSUME NEW d \in Writers, d # c PROVE Placed(d)'
  <2>1. d \in Conns /\ job'[d] = job[d] /\ Placed(d) /\ job[d].chunk \in Chunks
    BY <1>0, <1>1, <1>3, PlacementIs, WriterChunk DEF IInv
  <2>2. c \in Writers => job[d].chunk # job[c].chunk
    BY <1>0, <1>3 DEF Owners
  <2>3. LET ch == job[d].chunk
        IN /\ chunk'[ch] = chunk[ch] /\ sb'[ch] = sb[ch] /\ cells'[ch] = cells[ch]
           /\ (ch \in sb_failed' <=> ch \in sb_failed)
    BY <2>1, <2>2, ChunkMemory
  <2> QED BY <2>1, <2>3, PlacedKept
<1>4. ASSUME c \in Writers PROVE Placed(c)'
  <2> DEFINE ch == job[c].chunk
             f == job[c].fid
             off == job[c].offset
  <2>0. /\ ch \in Chunks /\ f \in Fids /\ off \in Nat /\ job[c] \in Job
        /\ sb \in [Chunks -> ChunkInfo]
        /\ chunk[ch].current_offset \in 0..CHUNK_SIZE
    <3>1. ch \in Chunks /\ f \in Fids /\ off \in 0..CHUNK_SIZE /\ c \in Conns
      BY <1>4, WriterChunk
    <3>2. job[c] \in Job /\ sb \in [Chunks -> ChunkInfo] /\ chunk[ch] \in ChunkInfo
      BY <1>0, <3>1 DEF TypeOK
    <3>3. chunk[ch].current_offset \in 0..CHUNK_SIZE
      BY <3>2 DEF ChunkInfo
    <3> QED BY <3>1, <3>2, <3>3, Sizes
  <2>1. Placed(c)
    BY <1>4, PlacementIs DEF IInv
  <2>2. CASE job' = Finish(c, -1)
    <3>1. job'[c].phase = "done" /\ job'[c].retcode = -1
      BY <1>0, <2>0, <2>2 DEF Finish, Job
    <3> QED BY <3>1 DEF Placed
  <2>3. CASE spy_write_file_meta(c) /\ job' = [job EXCEPT ![c].phase = "meta"]
    <3>1. /\ job'[c].phase = "meta" /\ job[c].phase = "queued"
          /\ UNCHANGED <<sb, chunk, sb_failed>>
      BY <1>0, <2>3 DEF spy_write_file_meta, Working, Job
    <3>2. Pwrite(ch, off, f, 0, FILE_META_SIZE)
      <4>1. Finish(c, -1)[c].phase = "done"
        BY <1>0, <2>0 DEF Finish, Job
      <4>2. job' # Finish(c, -1)
        BY <3>1, <4>1
      <4> QED BY <2>3, <4>2 DEF spy_write_file_meta
    <3>3. off + RecordSize(f) < CHUNK_SIZE
      BY <1>4, <3>1, RoomForWrite
    <3>4. ASSUME NEW k \in 0..(FILE_META_SIZE - 1)
          PROVE  cells'[ch][off + k] = <<f, k>>
      <4>1. /\ off + k \in Offsets /\ (off + k) - off = k
            /\ off + 0 <= off + k /\ off + k < off + FILE_META_SIZE
            /\ FILE_META_SIZE \in Nat /\ 0 \in Nat
        <5>1. RecordSize(f) \in Nat /\ FILE_META_SIZE <= RecordSize(f)
          BY <2>0, RecordSizeNat
        <5> QED BY <2>0, <3>3, <5>1, Sizes DEF Offsets
      <4>2. \A q \in Offsets : off + 0 <= q /\ q < off + FILE_META_SIZE =>
              cells'[ch][q] = <<f, q - off>>
        <5>1. TypeOK /\ ch \in Chunks /\ off \in Nat /\ f \in Fids
          BY <1>0, <2>0
        <5> QED BY <3>2, <4>1, <5>1, PwriteFact
      <4> QED BY <4>1, <4>2
    <3> QED BY <1>0, <2>1, <3>1, <3>4, Zenon DEF Placed, Fits
  <2>4. CASE spy_write_file_body(c) /\ job' # Finish(c, -1)
    <3>1. chunk' # chunk
      <4>1. /\ chunk' = [chunk EXCEPT ![ch] = Advanced(ch, f)]
        BY <2>4 DEF spy_write_file_body
      <4>2. chunk \in [Chunks -> ChunkInfo]
        BY <1>0 DEF TypeOK
      <4>3. chunk'[ch].current_offset = chunk[ch].current_offset + RecordSize(f)
        BY <2>0, <4>1, <4>2 DEF Advanced
      <4>4. RecordSize(f) \in Nat /\ RecordSize(f) > 0
        BY <2>0, RecordSizeNat
      <4>5. chunk[ch].current_offset \in Int
        BY <2>0, Sizes
      <4>6. chunk'[ch].current_offset # chunk[ch].current_offset
        BY <4>3, <4>4, <4>5
      <4> QED BY <4>6
    <3>2. /\ chunk'[ch].current_offset = off + RecordSize(f)
          /\ off >= SUPERBLOCK_SIZE
          /\ IntactIn(cells'[ch], off, f)
          /\ job' = [job EXCEPT ![c].phase = "body"]
      BY <1>4, <2>4, <3>1, BodyWritten
    <3>3. job'[c].phase = "body"
      BY <1>0, <2>0, <3>2 DEF Job
    <3> QED BY <1>0, <3>2, <3>3 DEF Placed, Intact, IntactIn
  <2>5. CASE spy_write_file_superblock(c)
    <3>1. /\ job'[c].phase = "done" /\ job[c].phase = "body"
          /\ UNCHANGED <<cells, chunk>>
      BY <1>0, <2>5 DEF spy_write_file_superblock, Working, Job
    <3>2. /\ off >= SUPERBLOCK_SIZE
          /\ off + RecordSize(f) = chunk[ch].current_offset
          /\ Intact(ch, off, f)
      BY <2>1, <3>1 DEF Placed
    <3>3. ch \in sb_failed' \/ sb'[ch] = chunk[ch]
      BY <2>0, <2>5 DEF spy_write_file_superblock
    <3>4. ch \in sb_failed' \/ off + RecordSize(f) <= sb'[ch].current_offset
      <4>1. off + RecordSize(f) \in Int
        BY <2>0, RecordSizeNat
      <4>2. CASE sb'[ch] = chunk[ch]
        <5>1. sb'[ch].current_offset = off + RecordSize(f)
          BY <3>2, <4>2
        <5> QED BY <4>1, <5>1
      <4> QED BY <3>3, <4>2
    <3> QED BY <1>0, <3>1, <3>2, <3>4 DEF Placed, Intact
  <2>6. job[c].kind = "write"
    BY <1>4 DEF Writers
  <2> QED BY <2>2, <2>3, <2>4, <2>5, <2>6 DEF Worker, spy_write_file_meta,
             spy_read_file, spy_check_chunk, spy_dump_chunkfile, Working
<1>5. \A d \in Writers' : Placed(d)'
  BY <1>1, <1>3, <1>4
<1> QED BY <1>2, <1>5, PlacementNext

(* A worker keeps what the index points at, and what was promised.          *)
LEMMA IndexWorker ==
  ASSUME IInv, NEW c \in Conns, Worker(c)
  PROVE  IndexPlaced' /\ Promised'
<1>0. /\ TypeOK /\ mode = "up" /\ mode' = mode
      /\ UNCHANGED <<files, index, acked>>
  BY WorkerFrames DEF IInv
<1>1. Promised'
  BY <1>0 DEF IInv, Promised, Indexed
<1>2. ASSUME NEW f \in Indexed
      PROVE  /\ index[f].chunk \in files
             /\ index[f].offset >= SUPERBLOCK_SIZE
             /\ index[f].offset + RecordSize(f) <= chunk'[index[f].chunk].current_offset
             /\ IntactIn(cells'[index[f].chunk], index[f].offset, f)
             /\ \/ index[f].chunk \in sb_failed'
                \/ index[f].offset + RecordSize(f) <= sb'[index[f].chunk].current_offset
  <2> DEFINE ch == index[f].chunk
             off == index[f].offset
  <2>1. /\ ch \in files
        /\ off >= SUPERBLOCK_SIZE
        /\ off + RecordSize(f) <= chunk[ch].current_offset
        /\ IntactIn(cells[ch], off, f)
        /\ ch \in sb_failed \/ off + RecordSize(f) <= sb[ch].current_offset
    BY DEF IInv, IndexPlaced, Intact, IntactIn
  <2>2. /\ f \in Fids /\ ch \in Chunks /\ off \in Nat /\ RecordSize(f) \in Nat
        /\ chunk[ch].current_offset \in 0..CHUNK_SIZE
    <3>1. f \in Fids /\ index[f] \in Entry
      BY <1>0 DEF TypeOK, Indexed
    <3> QED BY <1>0, <2>1, <3>1, RecordSizeNat, StoreAssumption DEF TypeOK, Entry, ChunkInfo
  <2> HIDE DEF ch, off
  <2>3. CASE c \in Writers => ch # job[c].chunk
    <3>1. /\ chunk'[ch] = chunk[ch] /\ sb'[ch] = sb[ch] /\ cells'[ch] = cells[ch]
          /\ (ch \in sb_failed' <=> ch \in sb_failed)
      BY <2>2, <2>3, ChunkMemory
    <3> QED BY <2>1, <3>1 DEF ch, off
  <2>4. CASE c \in Writers /\ ch = job[c].chunk
    <3>1. SameBelow(cells[ch], cells'[ch], chunk[ch].current_offset)
      BY <2>4, WorkerWritesAbove
    <3>2. IntactIn(cells'[ch], off, f)
      BY <2>1, <2>2, <3>1, IntactKept
    <3>3. chunk[ch].current_offset <= chunk'[ch].current_offset
          /\ chunk'[ch].current_offset \in Nat
      <4>1. CASE chunk' = chunk
        BY <2>2, <4>1, StoreAssumption
      <4>2. CASE chunk' # chunk
        <5>1. spy_write_file_body(c)
          BY <4>2 DEF Worker, spy_write_file_meta, spy_write_file_superblock,
                      spy_read_file, spy_check_chunk, spy_dump_chunkfile
        <5>2. chunk'[ch] = Advanced(ch, job[c].fid)
          BY <2>4, <4>2, <5>1, BodyWritten
        <5>3. RecordSize(job[c].fid) \in Nat
          BY <2>4, RecordSizeNat, WriterChunk
        <5> QED BY <2>2, <5>2, <5>3, StoreAssumption DEF Advanced
      <4> QED BY <4>1, <4>2
    <3>4. off + RecordSize(f) <= chunk'[ch].current_offset
      BY <2>1, <2>2, <3>3, StoreAssumption
    <3>5. ch \in sb_failed' \/ off + RecordSize(f) <= sb'[ch].current_offset
      <4>1. CASE spy_write_file_superblock(c)
        <5>1. ch \in sb_failed' \/ sb'[ch] = chunk[ch]
          BY <1>0, <2>2, <2>4, <4>1 DEF spy_write_file_superblock, TypeOK
        <5> QED BY <2>1, <5>1
      <4>2. CASE UNCHANGED <<sb, sb_failed>>
        BY <2>1, <4>2
      <4> QED BY <4>1, <4>2 DEF Worker, spy_write_file_meta, spy_write_file_body,
                                spy_read_file, spy_check_chunk, spy_dump_chunkfile
    <3> QED BY <2>1, <3>2, <3>4, <3>5 DEF ch, off
  <2> QED BY <2>3, <2>4
<1>3. Indexed' = Indexed
  BY <1>0 DEF Indexed
<1>4. IndexPlaced'
  BY <1>0, <1>2, <1>3 DEF IndexPlaced, Intact, IntactIn
<1> QED BY <1>1, <1>4

(* A worker keeps everything that is about the files.                       *)
LEMMA DiskWorker ==
  ASSUME IInv, NEW c \in Conns, Worker(c)
  PROVE  Idle' /\ Owners' /\ Layout' /\ Placement' /\ IndexPlaced' /\ Promised'
<1>1. Idle'
  BY WorkerFrames DEF Idle
<1> QED BY <1>1, LayoutWorker, PlacementWorker, IndexWorker

-----------------------------------------------------------------------------
(* Start, crash and restart.                                               *)

\* What Layout says of the superblocks alone, which is what a crash leaves.
SuperblocksKept == UNCHANGED <<files, sb, cells>>

(* A process that is down has no memory of chunks.                          *)
LEMMA DownInv ==
  ASSUME IInv, Reset, SuperblocksKept, mode' = "down"
  PROVE  LoopInv' /\ Idle' /\ Owners' /\ Layout' /\ Placement' /\ IndexPlaced'
<1>1. AtRest' /\ chunks' = <<>> /\ index' = [f \in Fids |-> NoEntry] /\ Indexed' = {}
  BY ResetFact
<1>2. LoopInv' /\ Owners' /\ Placement'
  BY <1>1, AtRestNext
<1>3. Idle'
  BY <1>1 DEF Idle
<1>4. Layout'
  <2>1. Loaded' = {}
    BY DEF Loaded
  <2> QED BY <2>1, Zenon DEF IInv, Layout, SuperblocksKept, Balanced, Tiled, Intact
<1>5. IndexPlaced'
  BY <1>1 DEF IndexPlaced
<1> QED BY <1>2, <1>3, <1>4, <1>5

(* A crash keeps the invariant.                                             *)
LEMMA CrashInv ==
  ASSUME IInv, Crash
  PROVE  IInv'
<1>1. Reset /\ SuperblocksKept /\ mode' = "down"
      /\ acked' = {f \in acked : index[f].chunk \notin sb_failed}
      /\ UNCHANGED sb_failed
  BY DEF Crash, SuperblocksKept
<1>2. Promised'
  <2>1. AckedDurable
    BY IInvImplies
  <2>2. ASSUME NEW f \in acked' PROVE \E ch \in files, p \in Offsets : Committed(ch, p, f)
    BY <1>1, <2>1 DEF AckedDurable
  <2>3. ASSUME NEW f \in acked' PROVE \E ch \in files', p \in Offsets : Committed(ch, p, f)'
    <3>1. PICK ch \in files, p \in Offsets : Committed(ch, p, f)
      BY <2>2
    <3>2. Committed(ch, p, f)'
      BY <1>1, <3>1 DEF SuperblocksKept, Committed, Intact
    <3> QED BY <1>1, <3>2 DEF SuperblocksKept
  <2> QED BY <1>1, <2>3 DEF Promised
<1> QED BY <1>1, <1>2, DownInv, TypeCrash DEF IInv, LoopInv

(* Creating a chunk file keeps the invariant.                               *)
LEMMA CreateInv ==
  ASSUME IInv, spy_create_chunk
  PROVE  IInv'
<1> DEFINE ch == Len(chunks) + 1
<1>1. /\ mode' = "creating" /\ mode # "up"
      /\ files' = files \cup {ch}
      /\ chunk' = [chunk EXCEPT ![ch] = NewChunk]
      /\ chunks' = <<ch>> \o chunks
      /\ UNCHANGED <<sb, cells, conn, job, writing_chunks, pending_writes>>
      /\ UNCHANGED <<pending_writes_size, index, acked>>
  BY DEF spy_create_chunk
<1>2. TypeOK' /\ ch \in Chunks /\ ch \notin files
  BY TypeCreate
<1>3. /\ TypeOK /\ AtRest /\ index = [f \in Fids |-> NoEntry]
      /\ chunks \in Seq(files) /\ Len(chunks) \in Nat
      /\ chunk \in [Chunks -> ChunkInfo] /\ files \subseteq Chunks
  BY <1>1, LenProperties DEF IInv, Idle, TypeOK
<1>4. files = 1..Len(chunks) /\ acked = {} /\ Loaded \in {{}, files} /\ Loaded' = files'
      /\ (Loaded = {} => files = {})
  <2>1. CASE mode = "down" /\ files = {}
    <3>1. chunks = <<>>
      BY <2>1 DEF IInv, Idle
    <3>2. Len(chunks) = 0
      BY <3>1, EmptySeq
    <3>3. acked = {}
      BY <2>1 DEF IInv, Promised
    <3> QED BY <1>1, <2>1, <3>2, <3>3 DEF Loaded
  <2>2. CASE mode = "creating"
    BY <1>1, <2>2 DEF IInv, Idle, Loaded
  <2> QED BY <2>1, <2>2 DEF spy_create_chunk
<1> HIDE DEF ch
<1>5. AtRest'
  <2>1. ch \notin Range(chunks) /\ chunks \in Seq(files') /\ ch \in files'
    <3>1. \A i \in 1..Len(chunks) : chunks[i] \in files
      BY <1>3, ElementOfSeq
    <3>2. ch \notin Range(chunks)
      BY <1>2, <1>3, <3>1, LenProperties DEF Range
    <3>3. chunks \in [1..Len(chunks) -> files']
      BY <1>1, <1>3, <3>1, LenProperties
    <3> QED BY <1>1, <1>3, <3>2, <3>3, SeqDef
  <2>2. IsInjective(<<ch>> \o chunks)
    BY <1>3, <2>1, PushInjectiveSet DEF AtRest
  <2> QED BY <1>1, <1>3, <2>2 DEF AtRest
<1>6. Idle'
  <2>1. Len(chunks') = Len(chunks) + 1
    BY <1>1, <1>3, PushInjectiveSet, <1>2
  <2>2. files' = 1..Len(chunks')
    BY <1>1, <1>3, <1>4, <2>1 DEF ch
  <2> QED BY <1>1, <1>3, <1>4, <1>5, <2>2 DEF Idle
<1>7. Layout'
  <2>1. sb[ch] = NoSuperblock
    BY <1>2 DEF IInv, Layout
  <2>2. ASSUME NEW dh \in files', dh # ch
        PROVE  /\ Balanced(chunk'[dh])
               /\ TiledIn(cells[dh], chunk'[dh].current_offset)
               /\ sb[dh].current_offset <= chunk'[dh].current_offset
    <3>1. dh \in files /\ dh \in Loaded /\ chunk'[dh] = chunk[dh]
      BY <1>1, <1>3, <1>4, <2>2, Zenon
    <3>2. /\ Balanced(chunk[dh])
          /\ TiledIn(cells[dh], chunk[dh].current_offset)
          /\ sb[dh].current_offset <= chunk[dh].current_offset
      BY <3>1, Zenon DEF IInv, Layout, Tiled, TiledIn, Intact, IntactIn
    <3> QED BY <3>1, <3>2
  <2>3. /\ Balanced(chunk'[ch])
        /\ TiledIn(cells[ch], chunk'[ch].current_offset)
        /\ sb[ch].current_offset <= chunk'[ch].current_offset
    <3>1. chunk'[ch] = NewChunk
      BY <1>1, <1>2, <1>3
    <3>2. NewChunk.current_offset = SUPERBLOCK_SIZE
      BY DEF NewChunk
    <3>3. TiledIn(cells[ch], SUPERBLOCK_SIZE)
      BY StoreAssumption DEF TiledIn
    <3> QED BY <2>1, <3>1, <3>2, <3>3, StoreAssumption DEF NewChunk, Balanced, NoSuperblock
  <2>4. \A dh \in Chunks : sb'[dh] # NoSuperblock =>
          dh \in files' /\ Balanced(sb'[dh]) /\ TiledIn(cells'[dh], sb'[dh].current_offset)
    BY <1>1, Zenon DEF IInv, Layout, Tiled, TiledIn, Intact, IntactIn
  <2>5. \A dh \in Loaded' :
          /\ Balanced(chunk'[dh])
          /\ TiledIn(cells'[dh], chunk'[dh].current_offset)
          /\ sb'[dh].current_offset <= chunk'[dh].current_offset
    BY <1>1, <1>4, <2>2, <2>3
  <2> QED BY <2>4, <2>5, Zenon DEF Layout, Balanced, Tiled, TiledIn, Intact, IntactIn
<1>8. IndexPlaced' /\ Promised'
  BY <1>1, <1>3, <1>4 DEF IndexPlaced, Promised, Indexed
<1> QED BY <1>2, <1>5, <1>6, <1>7, <1>8, AtRestNext DEF IInv, LoopInv

(* Writing the superblock of a new chunk file keeps the invariant.          *)
LEMMA CreateSuperblockInv ==
  ASSUME IInv, spy_create_chunk_superblock
  PROVE  IInv'
<1>0. /\ TypeOK' /\ mode = "creating" /\ UNCHANGED <<files, cells, acked>>
      /\ acked = {} /\ AtRest /\ index = [f \in Fids |-> NoEntry]
      /\ sb \in [Chunks -> ChunkInfo]
      /\ sb_failed \subseteq files /\ files \subseteq Chunks
      /\ files = 1..Len(chunks)
  BY TypeCreateSuperblock, Zenon DEF spy_create_chunk_superblock, IInv, Idle, TypeOK
<1>1. PICK ch \in sb_failed :
        \/ /\ sb' = [sb EXCEPT ![ch] = chunk[ch]]
           /\ mode' = IF files = Chunks THEN "up" ELSE "creating"
           /\ UNCHANGED <<chunk, loopVars>>
        \/ /\ mode' = "down"
           /\ Reset
           /\ UNCHANGED <<sb, sb_failed>>
  BY DEF spy_create_chunk_superblock
<1>2. CASE /\ sb' = [sb EXCEPT ![ch] = chunk[ch]]
           /\ mode' = IF files = Chunks THEN "up" ELSE "creating"
           /\ UNCHANGED <<chunk, loopVars>>
  <2>1. AtRest' /\ index' = index /\ chunks' = chunks
    BY <1>0, <1>2 DEF AtRest, loopVars
  <2>2. Idle'
    BY <1>0, <1>2, <2>1 DEF Idle
  <2>3. Layout'
    <3>1. /\ ch \in files /\ ch \in Chunks /\ sb'[ch] = chunk[ch]
          /\ \A dh \in Chunks \ {ch} : sb'[dh] = sb[dh]
          /\ chunk' = chunk /\ cells' = cells
      BY <1>0, <1>2
    <3>2. Loaded = files /\ Loaded' = files
      BY <1>0, <1>2 DEF Loaded
    <3>3. \A dh \in files : /\ Balanced(chunk[dh])
                            /\ TiledIn(cells[dh], chunk[dh].current_offset)
                            /\ sb[dh].current_offset <= chunk[dh].current_offset
      BY <3>2, Zenon DEF IInv, Layout, Tiled, TiledIn, Intact, IntactIn
    <3>4. \A dh \in Chunks : sb[dh] # NoSuperblock =>
            dh \in files /\ Balanced(sb[dh]) /\ TiledIn(cells[dh], sb[dh].current_offset)
      BY Zenon DEF IInv, Layout, Tiled, TiledIn, Intact, IntactIn
    <3>5. chunk[ch].current_offset <= chunk[ch].current_offset
      <4>1. chunk[ch] \in ChunkInfo
        BY <1>0, <3>1 DEF IInv, TypeOK
      <4>2. chunk[ch].current_offset \in Int
        BY <4>1, StoreAssumption DEF ChunkInfo
      <4> QED BY <4>2
    <3>6. \A dh \in Chunks : sb'[dh] # NoSuperblock =>
            dh \in files /\ Balanced(sb'[dh]) /\ TiledIn(cells[dh], sb'[dh].current_offset)
      BY <3>1, <3>3, <3>4, Zenon
    <3>7. \A dh \in files : sb'[dh].current_offset <= chunk[dh].current_offset
      BY <1>0, <3>1, <3>3, <3>5
    <3>8. \A dh \in Chunks : sb'[dh] # NoSuperblock =>
            dh \in files' /\ Balanced(sb'[dh]) /\ TiledIn(cells'[dh], sb'[dh].current_offset)
      BY <1>0, <3>1, <3>6
    <3>9. \A dh \in Loaded' :
            /\ Balanced(chunk'[dh])
            /\ TiledIn(cells'[dh], chunk'[dh].current_offset)
            /\ sb'[dh].current_offset <= chunk'[dh].current_offset
      BY <1>0, <3>1, <3>2, <3>3, <3>7
    <3> QED BY <3>8, <3>9, Zenon DEF Layout, Balanced, Tiled, TiledIn, Intact, IntactIn
  <2>4. IndexPlaced' /\ Promised'
    BY <1>0, <2>1 DEF IndexPlaced, Promised, Indexed
  <2> QED BY <1>0, <2>1, <2>2, <2>3, <2>4, AtRestNext DEF IInv, LoopInv
<1>3. CASE mode' = "down" /\ Reset /\ UNCHANGED <<sb, sb_failed>>
  <2>1. SuperblocksKept
    BY <1>0, <1>3 DEF SuperblocksKept
  <2>2. Promised'
    BY <1>0 DEF Promised
  <2> QED BY <1>0, <1>3, <2>1, <2>2, DownInv DEF IInv, LoopInv
<1> QED BY <1>1, <1>2, <1>3

(* A restart that succeeds rebuilds the memory of the chunks from the       *)
(* superblocks and finds every promised file.                               *)
LEMMA RecoverInv ==
  ASSUME IInv, spy_recover_files
  PROVE  IInv'
<1>0. /\ TypeOK /\ TypeOK' /\ mode \in {"down", "aborted"}
      /\ UNCHANGED <<files, sb, cells, conn, job, writing_chunks, pending_writes>>
      /\ UNCHANGED <<pending_writes_size, acked>>
      /\ AtRest /\ chunks = <<>> /\ index = [f \in Fids |-> NoEntry]
      /\ files \subseteq Chunks
  BY TypeRecover, Zenon DEF spy_recover_files, IInv, Idle, TypeOK
<1>1. \A ch \in Chunks : sb[ch] # NoSuperblock =>
        ch \in files /\ Balanced(sb[ch]) /\ TiledIn(cells[ch], sb[ch].current_offset)
  BY Zenon DEF IInv, Layout, Tiled, TiledIn, Intact, IntactIn
<1>2. CASE mode' = "aborted" /\ UNCHANGED <<chunk, chunks, index, sb_failed>>
  <2>1. AtRest'
    BY <1>0, <1>2 DEF AtRest
  <2>2. Idle'
    BY <1>0, <1>2, <2>1 DEF Idle
  <2>3. Layout'
    BY <1>0, <1>1, <1>2, Zenon DEF Layout, Loaded, Balanced, Tiled, TiledIn, Intact, IntactIn
  <2>4. IndexPlaced'
    BY <1>0, <1>2, Zenon DEF IndexPlaced, Indexed
  <2>5. Promised'
    BY <1>0, <1>2, Zenon DEF IInv, Promised, Committed, Intact
  <2> QED BY <1>0, <2>1, <2>2, <2>3, <2>4, <2>5, AtRestNext DEF IInv, LoopInv
<1>3. CASE /\ \A ch \in files : Parses(ch)
           /\ mode' = "up"
           /\ chunk' = [ch \in Chunks |-> IF ch \in files THEN sb[ch] ELSE NoSuperblock]
           /\ \E n \in 0..NChunks : chunks' \in Bijection(1..n, files)
           /\ index' = [f \in Fids |-> FoundEntry(f)]
           /\ sb_failed' = {}
  <2>1. AtRest'
    <3>1. IsInjective(chunks')
      BY <1>3, OrderFact, StoreAssumption
    <3> QED BY <1>0, <3>1 DEF AtRest
  <2>2. Idle'
    BY <1>3 DEF Idle
  <2>3. \A ch \in files : /\ ch \in Chunks /\ chunk'[ch] = sb[ch]
                          /\ Balanced(sb[ch])
                          /\ TiledIn(cells[ch], sb[ch].current_offset)
                          /\ sb[ch].current_offset \in 0..CHUNK_SIZE
    BY <1>0, <1>1, <1>3, Zenon DEF Parses, TypeOK, ChunkInfo
  <2>4. Layout'
    <3>1. Loaded' = files
      BY <1>0, <1>3 DEF Loaded
    <3>2. \A ch \in files : sb[ch].current_offset <= sb[ch].current_offset
      BY <2>3, StoreAssumption
    <3>3. \A ch \in files : /\ Balanced(chunk'[ch])
                            /\ TiledIn(cells'[ch], chunk'[ch].current_offset)
                            /\ sb'[ch].current_offset <= chunk'[ch].current_offset
      BY <1>0, <2>3, <3>2
    <3>4. \A ch \in Chunks : sb'[ch] # NoSuperblock =>
            ch \in files' /\ Balanced(sb'[ch]) /\ TiledIn(cells'[ch], sb'[ch].current_offset)
      BY <1>0, <1>1
    <3> QED BY <3>1, <3>3, <3>4, Zenon DEF Layout, Balanced, Tiled, TiledIn, Intact, IntactIn
  <2>5. \A f \in Fids : index'[f] = FoundEntry(f)
    BY <1>3
  <2>6. IndexPlaced'
    <3>1. ASSUME NEW f \in Indexed'
          PROVE  /\ index'[f].chunk \in files
                 /\ index'[f].offset >= SUPERBLOCK_SIZE
                 /\ index'[f].offset + RecordSize(f) <= sb[index'[f].chunk].current_offset
                 /\ IntactIn(cells[index'[f].chunk], index'[f].offset, f)
      <4>1. f \in Fids /\ FoundEntry(f) # NoEntry /\ index'[f] = FoundEntry(f)
        BY <2>5 DEF Indexed
      <4> DEFINE ch == FoundEntry(f).chunk
                 p == FoundEntry(f).offset
      <4>2. ch \in files /\ p \in RecordStarts(ch, f)
        BY <1>0, <4>1, FoundEntryFact
      <4> HIDE DEF ch, p
      <4>3. p \in SUPERBLOCK_SIZE..(sb[ch].current_offset - 1) /\ cells[ch][p] = <<f, 0>>
        BY <4>2 DEF RecordStarts
      <4>4. sb[ch].current_offset \in Nat /\ TiledIn(cells[ch], sb[ch].current_offset)
        BY <2>3, <4>2, StoreAssumption
      <4>5. IntactIn(cells[ch], p, f) /\ p + RecordSize(f) <= sb[ch].current_offset
        BY <4>1, <4>3, <4>4, RecordStartsWhole
      <4>6. p >= SUPERBLOCK_SIZE
        BY <4>3, <4>4, StoreAssumption
      <4> QED BY <4>1, <4>2, <4>5, <4>6 DEF ch, p
    <3>2. ASSUME NEW f \in Indexed'
          PROVE  /\ index'[f].chunk \in files'
                 /\ index'[f].offset >= SUPERBLOCK_SIZE
                 /\ index'[f].offset + RecordSize(f) <= chunk'[index'[f].chunk].current_offset
                 /\ IntactIn(cells'[index'[f].chunk], index'[f].offset, f)
                 /\ index'[f].offset + RecordSize(f) <= sb'[index'[f].chunk].current_offset
      BY <1>0, <2>3, <3>1
    <3> QED BY <3>2, Zenon DEF IndexPlaced, Intact, IntactIn
  <2>7. Promised'
    <3>1. ASSUME NEW f \in acked PROVE f \in Indexed'
      <4>1. f \in Fids
        BY <1>0 DEF TypeOK
      <4>2. PICK ch \in files, p \in Offsets : Committed(ch, p, f)
        BY <1>0 DEF IInv, Promised
      <4>3. p \in RecordStarts(ch, f)
        <5>1. /\ p >= SUPERBLOCK_SIZE /\ p + RecordSize(f) <= sb[ch].current_offset
              /\ \A k \in 0..(RecordSize(f) - 1) : cells[ch][p + k] = <<f, k>>
          BY <4>2 DEF Committed, Intact
        <5>2. /\ RecordSize(f) \in Nat /\ RecordSize(f) > 0 /\ p \in Nat /\ p + 0 = p
              /\ sb[ch].current_offset \in Nat
          BY <2>3, <4>1, RecordSizeNat, StoreAssumption DEF Offsets
        <5>3. 0 \in 0..(RecordSize(f) - 1)
          BY <5>2
        <5>4. cells[ch][p] = <<f, 0>>
          BY <5>1, <5>2, <5>3
        <5> QED BY <5>1, <5>2, <5>4, StoreAssumption DEF RecordStarts
      <4>4. FoundEntry(f) # NoEntry
        BY <1>0, <4>1, <4>2, <4>3, FoundEntryFact
      <4> QED BY <2>5, <4>1, <4>4 DEF Indexed
    <3> QED BY <1>0, <1>3, <3>1 DEF Promised
  <2> QED BY <1>0, <2>1, <2>2, <2>4, <2>6, <2>7, AtRestNext DEF IInv, LoopInv
<1> QED BY <1>2, <1>3 DEF spy_recover_files

-----------------------------------------------------------------------------
(* The theorems.                                                           *)

(* The invariant holds before the first start.                              *)
LEMMA InvInit == Init => IInv
<1> SUFFICES ASSUME Init PROVE IInv
  OBVIOUS
<1>1. AtRest /\ chunks = <<>> /\ index = [f \in Fids |-> NoEntry]
  BY EmptySeq DEF Init, AtRest, IsInjective
<1>2. LoopInv /\ Owners /\ Placement
  BY <1>1, AtRestLoop
<1>3. Idle
  BY <1>1 DEF Idle, Init
<1>4. Layout
  BY DEF Layout, Loaded, Init
<1>5. IndexPlaced /\ Promised
  BY <1>1 DEF IndexPlaced, Promised, Indexed, Init
<1> QED BY <1>2, <1>3, <1>4, <1>5, TypeInit DEF IInv, LoopInv

(* Every step keeps the invariant.                                          *)
LEMMA InvStep == IInv /\ [Next]_vars => IInv'
<1> SUFFICES ASSUME IInv, [Next]_vars PROVE IInv'
  OBVIOUS
<1>1. ASSUME NEW c \in Conns, Socket(c) PROVE IInv'
  BY <1>1, TypeSocket, LoopSocket, DiskSocket DEF IInv, LoopInv
<1>2. ASSUME NEW c \in Conns, Request(c) PROVE IInv'
  BY <1>2, TypeRequest, LoopRequest, DiskRequest DEF IInv, LoopInv
<1>3. ASSUME NEW c \in Conns, Worker(c) PROVE IInv'
  BY <1>3, TypeWorker, LoopWorker, DiskWorker DEF IInv, LoopInv
<1>4. ASSUME NEW c \in Conns, Done(c) PROVE IInv'
  BY <1>4, TypeDone, LoopDone, DiskDone DEF IInv, LoopInv
<1>5. ASSUME spy_server_cron PROVE IInv'
  <2>1. LoopInv'
    BY <1>5, CronEffect, CronFrame, LoopAbandons DEF IInv, LoopInv
  <2> QED BY <1>5, <2>1, TypeCron, DiskCron DEF IInv, LoopInv
<1>6. CASE UNCHANGED vars
  <2> USE <1>6 DEF vars, storeVars, loopVars
  <2>1. TypeOK' /\ Lists' /\ JobHasConnection' /\ NoStrandedPending'
    BY DEF IInv, TypeOK, Lists, JobHasConnection, NoStrandedPending, Fits
  <2>2. Idle'
    BY DEF IInv, Idle, AtRest
  <2>3. DiskKept /\ UNCHANGED <<index, acked>>
    BY DEF DiskKept
  <2>4. ASSUME NEW w \in Writers'
        PROVE  w \in Writers /\ job'[w] = job[w] /\ job[w].chunk \in writing_chunks'
    BY DEF IInv, Owners, Writers
  <2> QED BY <2>1, <2>2, <2>3, <2>4, LayoutKept, IndexKept, WritersKept DEF IInv
<1> QED BY <1>1, <1>2, <1>3, <1>4, <1>5, <1>6, CrashInv, CreateInv,
           CreateSuperblockInv, RecoverInv DEF Next

(* The invariant always holds.                                              *)
LEMMA InvAlways == Spec => []IInv
BY InvInit, InvStep, PTL DEF Spec

(* Every reachable state of the server is of its type.                      *)
THEOREM TypeCorrect == Spec => []TypeOK
<1>1. IInv => TypeOK
  BY DEF IInv
<1> QED BY <1>1, InvAlways, PTL

(* A chunk has one writer at a time, and is on one list: the worker threads *)
(* need no lock on current_offset and the superblock.                       *)
THEOREM ChunksExclusive == Spec => []ChunkExclusive
BY IInvImplies, InvAlways, PTL

(* What the index points at can be read, whatever the workers write.        *)
THEOREM IndexAlwaysIntact == Spec => []IndexIntact
BY IInvImplies, InvAlways, PTL

(* A file whose write was answered SUCCESS survives crashes and restarts,   *)
(* unless the last superblock write of its chunk failed.                    *)
THEOREM AckedSurvive == Spec => []AckedDurable
BY IInvImplies, InvAlways, PTL

(* No job outlives its connection.                                          *)
THEOREM JobsHaveConnections == Spec => []JobHasConnection
<1>1. IInv => JobHasConnection
  BY DEF IInv
<1> QED BY <1>1, InvAlways, PTL

(* No pending write waits for a chunk that is on the allocation list.       *)
THEOREM NoWriteStranded == Spec => []NoStrandedPending
<1>1. IInv => NoStrandedPending
  BY DEF IInv
<1> QED BY <1>1, InvAlways, PTL

(* A worker writes behind what its chunk holds in memory, which is never    *)
(* less than what the superblock says.                                      *)
LEMMA CommittedKept ==
  IInv /\ [Next]_vars =>
    [\A ch \in Chunks, p \in Offsets :
       p >= SUPERBLOCK_SIZE /\ p < sb[ch].current_offset
         => cells'[ch][p] = cells[ch][p]]_vars
<1> SUFFICES ASSUME IInv, [Next]_vars, NEW ch \in Chunks, NEW p \in Offsets,
                    p < sb[ch].current_offset
             PROVE  cells'[ch][p] = cells[ch][p]
  OBVIOUS
<1>1. ASSUME NEW c \in Conns, Worker(c) PROVE cells'[ch][p] = cells[ch][p]
  <2>1. CASE c \in Writers /\ ch = job[c].chunk
    <3>1. ch \in files /\ mode = "up" /\ chunk[ch] \in ChunkInfo /\ sb[ch] \in ChunkInfo
      BY <1>1, <2>1, WriterChunk, WorkerFrames DEF IInv, TypeOK
    <3>2. sb[ch].current_offset <= chunk[ch].current_offset
      BY <3>1, Zenon DEF IInv, Layout, Loaded
    <3>3. p < chunk[ch].current_offset
      BY <3>1, <3>2, StoreAssumption DEF ChunkInfo, Offsets
    <3> QED BY <1>1, <2>1, <3>3, WorkerWritesAbove DEF SameBelow
  <2>2. CASE ~(c \in Writers /\ ch = job[c].chunk)
    BY <1>1, <2>2, ChunkMemory
  <2> QED BY <2>1, <2>2
<1>2. ASSUME NEW c \in Conns, Socket(c) \/ Request(c) \/ Done(c) PROVE cells' = cells
  BY <1>2, SocketFrame, RequestFrame, DoneFrame, Zenon
<1>3. ASSUME spy_server_cron PROVE cells' = cells
  BY <1>3, CronFrame
<1>4. ASSUME Crash \/ spy_create_chunk \/ spy_create_chunk_superblock \/ spy_recover_files
      PROVE  cells' = cells
  BY <1>4 DEF Crash, spy_create_chunk, spy_create_chunk_superblock, spy_recover_files
<1>5. ASSUME UNCHANGED vars PROVE cells' = cells
  BY <1>5 DEF vars, storeVars
<1> QED BY <1>1, <1>2, <1>3, <1>4, <1>5, Zenon DEF Next

(* No step of the server changes what a superblock has committed.           *)
THEOREM CommittedNeverChanges == Spec => CommittedImmutable
BY InvAlways, CommittedKept, PTL DEF Spec, CommittedImmutable
-----------------------------------------------------------------------------
(* Restarts.                                                               *)

\* A chunk file without a superblock, or with a torn one, is known to have had a
\* superblock write that did not succeed.
SuperblocksKnown == \A ch \in files : sb[ch] = NoSuperblock => ch \in sb_failed

(* The chunks in memory are not what a missing superblock looks like.       *)
LEMMA LoadedInfo ==
  ASSUME IInv, NEW ch \in Loaded
  PROVE  chunk[ch] # NoSuperblock
<1>1. chunk[ch].current_offset >= SUPERBLOCK_SIZE
  BY DEF IInv, Layout, Balanced
<1> QED BY <1>1, Sizes DEF NoSuperblock

(* Every step that leaves a file without a superblock knows it.             *)
LEMMA SuperblocksStep ==
  ASSUME IInv, SuperblocksKnown, [Next]_vars
  PROVE  SuperblocksKnown'
<1>0. sb \in [Chunks -> ChunkInfo] /\ files \subseteq Chunks /\ job \in [Conns -> Job]
  BY DEF IInv, TypeOK
<1>1. ASSUME UNCHANGED <<files, sb, sb_failed>> PROVE SuperblocksKnown'
  BY <1>1 DEF SuperblocksKnown
<1>2. ASSUME NEW c \in Conns, Socket(c) \/ Request(c) \/ Done(c) PROVE SuperblocksKnown'
  BY <1>1, <1>2, SocketFrame, RequestFrame, DoneFrame
<1>3. ASSUME spy_server_cron PROVE SuperblocksKnown'
  BY <1>1, <1>3, CronFrame
<1>4. ASSUME NEW c \in Conns, Worker(c) PROVE SuperblocksKnown'
  <2>1. CASE spy_write_file_superblock(c)
    <3>1. c \in Writers /\ mode = "up" /\ files' = files
      BY <2>1 DEF spy_write_file_superblock, Working, Writers, WorkerFrame
    <3>2. job[c].chunk \in Loaded /\ job[c].chunk \in Chunks
      BY <1>0, <3>1, WriterChunk DEF IInv, Loaded
    <3> QED BY <1>0, <2>1, <3>1, <3>2, LoadedInfo DEF spy_write_file_superblock, SuperblocksKnown
  <2> QED BY <1>1, <1>4, <2>1 DEF Worker, spy_write_file_meta, spy_write_file_body,
             spy_read_file, spy_check_chunk, spy_dump_chunkfile, WorkerFrame
<1>5. ASSUME Crash PROVE SuperblocksKnown'
  BY <1>1, <1>5 DEF Crash
<1>6. ASSUME spy_create_chunk PROVE SuperblocksKnown'
  BY <1>6 DEF spy_create_chunk, SuperblocksKnown
<1>7. ASSUME spy_create_chunk_superblock PROVE SuperblocksKnown'
  <2>1. sb_failed \subseteq Loaded
    BY <1>7 DEF spy_create_chunk_superblock, Loaded, IInv, TypeOK
  <2> QED BY <1>0, <1>7, <2>1, LoadedInfo DEF spy_create_chunk_superblock, SuperblocksKnown
<1>8. ASSUME spy_recover_files PROVE SuperblocksKnown'
  BY <1>8 DEF spy_recover_files, Parses, SuperblocksKnown
<1>9. ASSUME UNCHANGED vars PROVE SuperblocksKnown'
  BY <1>1, <1>9 DEF vars, storeVars
<1> QED BY <1>2, <1>3, <1>4, <1>5, <1>6, <1>7, <1>8, <1>9 DEF Next

(* Whether a fid is there twice is a matter of the files alone.             *)
LEMMA FidsUniqueKept ==
  ASSUME UNCHANGED <<files, sb, cells>>
  PROVE  FidsUnique' <=> FidsUnique
<1>1. files' = files /\ sb' = sb /\ cells' = cells
  OBVIOUS
<1>2. \A ch, f : RecordStarts(ch, f)' = RecordStarts(ch, f)
  BY <1>1 DEF RecordStarts
<1> QED BY <1>1, <1>2, Zenon DEF FidsUnique

(* A start that is given up has met a superblock that was not written or a  *)
(* fid that is there twice, and nothing changes until the next start.       *)
LEMMA RestartStep ==
  ASSUME IInv, SuperblocksKnown, RestartSucceeds, [Next]_vars
  PROVE  RestartSucceeds'
<1>1. ASSUME spy_recover_files, mode' = "aborted" PROVE RestartSucceeds'
  <2>1. /\ ~((\A ch \in files : Parses(ch)) /\ FidsUnique)
        /\ UNCHANGED <<files, sb, cells, sb_failed>>
    BY <1>1 DEF spy_recover_files
  <2>2. CASE ~FidsUnique
    BY <2>1, <2>2, FidsUniqueKept, Zenon DEF RestartSucceeds
  <2>3. ASSUME NEW ch \in files, ~Parses(ch) PROVE ch \in sb_failed
    <3>1. ch \in Chunks
      BY DEF IInv, TypeOK
    <3> QED BY <2>3, <3>1 DEF Parses, SuperblocksKnown, IInv, Layout
  <2> QED BY <2>1, <2>2, <2>3 DEF RestartSucceeds
<1>2. ASSUME mode' # "aborted" PROVE RestartSucceeds'
  BY <1>2 DEF RestartSucceeds
<1>3. ASSUME UNCHANGED vars PROVE RestartSucceeds'
  <2>1. UNCHANGED <<files, sb, cells>> /\ mode' = mode /\ sb_failed' = sb_failed
    BY <1>3, Zenon DEF vars, storeVars
  <2> QED BY <2>1, FidsUniqueKept, Zenon DEF RestartSucceeds
<1>4. ASSUME Next, ~spy_recover_files PROVE mode' # "aborted"
  <2>1. ASSUME NEW c \in Conns, Socket(c) \/ Request(c) \/ Done(c) \/ Worker(c)
        PROVE  mode = "up" /\ mode' = mode
    <3>1. CASE Socket(c)
      BY <3>1, SocketFrame DEF Socket, spy_accept_handler, spy_read_handler_closes,
                               spy_write_handler
    <3> QED BY <2>1, <3>1, RequestFrame, DoneFrame, WorkerFrames, Zenon
  <2>2. ASSUME spy_server_cron PROVE mode = "up" /\ mode' = mode
    BY <2>2, CronFrame
  <2> QED BY <1>4, <2>1, <2>2, Zenon DEF Next, Crash, spy_create_chunk, spy_create_chunk_superblock
<1> QED BY <1>1, <1>2, <1>3, <1>4

(* A restart fails for no other reason than a superblock write that did not *)
(* succeed or a fid written twice, however the crash fell.                  *)
THEOREM RestartsSucceed == Spec => []RestartSucceeds
<1>1. Init => SuperblocksKnown /\ RestartSucceeds
  BY DEF Init, SuperblocksKnown, RestartSucceeds
<1>2. IInv /\ SuperblocksKnown /\ RestartSucceeds /\ [Next]_vars
        => SuperblocksKnown' /\ RestartSucceeds'
  BY SuperblocksStep, RestartStep
<1> QED BY <1>1, <1>2, InvAlways, PTL DEF Spec
=============================================================================
