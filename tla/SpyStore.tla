------------------------------ MODULE SpyStore ------------------------------
(***************************************************************************)
(* The chunk files of the chunk server and what is done to them            *)
(* (chunkserver/spy_store.c).                                              *)
(*                                                                         *)
(* A chunk file is a superblock followed by records laid end to end.  A    *)
(* record is FILE_META_SIZE bytes of metadata followed by the file itself. *)
(* The superblock says where the next record goes (current_offset) and     *)
(* how much room is left (avail_space).  A record is part of the store     *)
(* once the superblock's current_offset has moved past it: a restart reads *)
(* the superblock and parses the records below it.                         *)
(*                                                                         *)
(* Bytes are abstracted to cells.  A cell holds <<f, k>>, the k-th cell of *)
(* the record of file f, or Blank.  A fid names one content, which is what *)
(* the fid allocator promises, so a record whose cells are all in place is *)
(* one whose fid and checksum match.                                       *)
(***************************************************************************)
EXTENDS Integers, Sequences, FiniteSets

CONSTANTS
  Fids,             \* the file ids
  FileSize,         \* FileSize[f]: the length of file f, in cells
  NChunks,          \* config.n_chunks
  CHUNK_SIZE,       \* config.chunk_size, in cells
  SUPERBLOCK_SIZE,  \* cells before the first record
  FILE_META_SIZE    \* cells of metadata before the file of a record

\* The sizes are those of a layout: the superblock and the metadata of a record
\* take room, and the superblock fits into a chunk file.
ASSUME StoreAssumption ==
  /\ FileSize \in [Fids -> Nat]
  /\ NChunks \in Nat \ {0}
  /\ SUPERBLOCK_SIZE \in Nat \ {0}
  /\ FILE_META_SIZE \in Nat \ {0}
  /\ CHUNK_SIZE \in Nat
  /\ SUPERBLOCK_SIZE <= CHUNK_SIZE

VARIABLES
  files,      \* chunk files that exist on disk
  sb,         \* sb[ch]: the superblock on disk
  cells,      \* cells[ch]: the content of the chunk file
  chunk       \* chunk[ch]: the spy_chunk_t in memory

storeVars == <<files, sb, cells, chunk>>

Chunks == 1..NChunks
Offsets == 0..(CHUNK_SIZE - 1)
Blank == <<>>

\* The fields of spy_chunk_t that the superblock saves.
ChunkInfo == [current_offset : 0..CHUNK_SIZE, avail_space : 0..CHUNK_SIZE]

\* No valid superblock: the file is freshly fallocated, or a failed write has
\* torn it.  The magic or the checksum does not match.
NoSuperblock == [current_offset |-> 0, avail_space |-> 0]

\* spy_alloc_chunk: a chunk with nothing in it.
NewChunk == [current_offset |-> SUPERBLOCK_SIZE,
             avail_space    |-> CHUNK_SIZE - SUPERBLOCK_SIZE]

RecordSize(f) == FileSize[f] + FILE_META_SIZE

\* The test with which spy_handle_write and spy_write_file_done give a chunk to
\* a write: strictly more room than the record takes.
Fits(ch, f) == chunk[ch].avail_space > RecordSize(f)

-----------------------------------------------------------------------------
(* What is on disk.                                                        *)

\* Every cell of the record of f is in place at offset p: spy_read_file finds
\* the fid and the checksum it expects.
Intact(ch, p, f) ==
  \A k \in 0..(RecordSize(f) - 1) : cells[ch][p + k] = <<f, k>>

\* The cells between the superblock and lim are records laid end to end.
Tiled(ch, lim) ==
  \A p \in SUPERBLOCK_SIZE..(lim - 1) :
    \E f \in Fids : \E k \in 0..(RecordSize(f) - 1) :
      /\ SUPERBLOCK_SIZE + k <= p
      /\ p + RecordSize(f) <= lim + k
      /\ Intact(ch, p - k, f)

\* The record of f at offset p is below the current_offset of the superblock.
Committed(ch, p, f) ==
  /\ p >= SUPERBLOCK_SIZE
  /\ p + RecordSize(f) <= sb[ch].current_offset
  /\ Intact(ch, p, f)

\* Where spy_parse_next_file finds the records of f in a chunk whose committed
\* part is tiled: at the cells that start one.
RecordStarts(ch, f) ==
  {p \in SUPERBLOCK_SIZE..(sb[ch].current_offset - 1) : cells[ch][p] = <<f, 0>>}

-----------------------------------------------------------------------------
(* What the workers do to a chunk file.                                    *)

\* pwrite of the cells from..to-1 of the record of f, the record being at p.
Pwrite(ch, p, f, from, to) ==
  cells' = [cells EXCEPT ![ch] =
              [q \in Offsets |-> IF q \in (p + from)..(p + to - 1)
                                   THEN <<f, q - p>>
                                   ELSE cells[ch][q]]]

\* Mutant of Advanced: the offset moves past the file and not past its metadata.
Advanced_NoMeta(ch, f) ==
  [current_offset |-> chunk[ch].current_offset + FileSize[f],
   avail_space    |-> chunk[ch].avail_space - RecordSize(f)]

\* The memory of the chunk after a record of f was written to it.
Advanced(ch, f) ==
  [current_offset |-> chunk[ch].current_offset + RecordSize(f),
   avail_space    |-> chunk[ch].avail_space - RecordSize(f)]
=============================================================================
