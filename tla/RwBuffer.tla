------------------------------ MODULE RwBuffer ------------------------------
(***************************************************************************)
(* The linked read/write buffer of a connection (chunkserver/              *)
(* spy_rw_buffer.c) and the memory blocks it is made of                    *)
(* (spy_mem_block.c).                                                      *)
(*                                                                         *)
(* A buffer is a list of blocks of one size, a read and a write position   *)
(* counted over the whole list, and for each of them the block it is in    *)
(* and that block's base.  Which block comes from the free list makes no   *)
(* difference to a buffer: the pool is its three counts, and a block that  *)
(* is handed out holds Junk until it is written.                           *)
(***************************************************************************)
EXTENDS Codec

CONSTANTS
  BLOCK,            \* mem_block->size, in cells
  PREALLOC,         \* config.mb_prealloc_count
  LIMIT             \* server.mem_blocks_alloc_limit

ASSUME BufferAssumption ==
  /\ BLOCK \in Nat \ {0}
  /\ {PREALLOC, LIMIT} \subseteq Nat

Junk == -1
Least(a, b) == IF a <= b THEN a ELSE b

-----------------------------------------------------------------------------
(* The pool: server.free_mem_blocks, mem_blocks_alloc, mem_blocks_used. *)

init_mem_blocks == [free |-> PREALLOC, alloc |-> PREALLOC, used |-> 0]

CanExpand(pool) == pool.free > 0 \/ pool.alloc < LIMIT

TakeBlock(pool) ==
  IF pool.free > 0 THEN [pool EXCEPT !.free = @ - 1, !.used = @ + 1]
                   ELSE [pool EXCEPT !.alloc = @ + 1, !.used = @ + 1]

GiveBlocks(pool, buffer) ==
  LET n == Len(buffer.mem_blocks) IN
  [pool EXCEPT !.free = @ + n, !.used = @ - n]

-----------------------------------------------------------------------------
(* The buffer.  Block 0 is NULL. *)

spy_rw_buffer_init ==
  [mem_blocks |-> <<>>, read_pos |-> 0, write_pos |-> 0, cap |-> 0,
   read_block |-> 0, write_block |-> 0, read_base |-> 0, write_base |-> 0]

spy_rw_buffer_reset == spy_rw_buffer_init

spy_rw_buffer_expand(buffer) ==
  LET first == buffer.mem_blocks = <<>> IN
  [buffer EXCEPT
     !.mem_blocks  = Append(@, [i \in 1 .. BLOCK |-> Junk]),
     !.cap         = @ + BLOCK,
     !.read_block  = IF first THEN 1 ELSE @,
     !.write_block = IF first THEN 1 ELSE @]

spy_rw_buffer_reset_read(buffer, pos) ==
  LET skipped == IF pos = 0 THEN 0 ELSE (pos - 1) \div BLOCK IN
  [buffer EXCEPT
     !.read_base  = skipped * BLOCK,
     !.read_block = IF buffer.mem_blocks = <<>> THEN 0 ELSE skipped + 1,
     !.read_pos   = pos]

Readable(buffer) == buffer.write_pos - buffer.read_pos

\* The buffer after spy_rw_buffer_next_readable, and the cells of the area.
NextReadBlock(buffer) ==
  IF buffer.read_base + BLOCK = buffer.read_pos
  THEN [buffer EXCEPT !.read_base = @ + BLOCK, !.read_block = @ + 1]
  ELSE buffer

ReadableArea(buffer) ==
  LET at == buffer.read_pos - buffer.read_base IN
  SubSeq(buffer.mem_blocks[buffer.read_block], at + 1,
         Least(BLOCK, at + Readable(buffer)))

\* The buffer after spy_rw_buffer_next_writeable, and the area's length.
HasWriteable(buffer) == buffer.write_pos # buffer.cap

\* Mutant of NextWriteBlock: the base stays that of the block before.
NextWriteBlock_StaleBase(buffer) ==
  IF buffer.write_base + BLOCK = buffer.write_pos
  THEN [buffer EXCEPT !.write_block = @ + 1] ELSE buffer

NextWriteBlock(buffer) ==
  IF buffer.write_base + BLOCK = buffer.write_pos
  THEN [buffer EXCEPT !.write_base = @ + BLOCK, !.write_block = @ + 1]
  ELSE buffer

WriteableLen(buffer) == buffer.write_base + BLOCK - buffer.write_pos

\* Store cells in the writeable area and advance write_pos.
Store(buffer, cells) ==
  LET at == buffer.write_pos - buffer.write_base IN
  [buffer EXCEPT
     !.write_pos = @ + Len(cells),
     !.mem_blocks[buffer.write_block] =
       [i \in 1 .. BLOCK |-> IF i - at \in 1 .. Len(cells) THEN cells[i - at]
                                                           ELSE @[i]]]

\* Both return the buffer and the cells that were moved.
RECURSIVE spy_rw_buffer_read_n(_, _)
spy_rw_buffer_read_n(buffer, left) ==
  IF left = 0 \/ Readable(buffer) = 0 THEN [buffer |-> buffer, cells |-> <<>>]
  ELSE LET next  == NextReadBlock(buffer)
           area  == ReadableArea(next)
           nread == Least(Len(area), left)
           rest  == spy_rw_buffer_read_n([next EXCEPT !.read_pos = @ + nread],
                                         left - nread)
       IN [rest EXCEPT !.cells = SubSeq(area, 1, nread) \o @]

RECURSIVE spy_rw_buffer_write_n(_, _)
spy_rw_buffer_write_n(buffer, cells) ==
  IF cells = <<>> \/ ~HasWriteable(buffer) THEN buffer
  ELSE LET next   == NextWriteBlock(buffer)
           nwrite == Least(WriteableLen(next), Len(cells))
       IN spy_rw_buffer_write_n(Store(next, SubSeq(cells, 1, nwrite)),
                                SubSeq(cells, nwrite + 1, Len(cells)))

-----------------------------------------------------------------------------
(***************************************************************************)
(* spy_buffer_adler32 (spy_adler32.c): the checksum of the next len cells, *)
(* area by area; the read position goes back to where it was.              *)
(***************************************************************************)

RECURSIVE AddAreas(_, _, _)
AddAreas(s, buffer, left) ==
  IF left = 0 THEN [sums |-> s, buffer |-> buffer]
  ELSE LET next  == NextReadBlock(buffer)
           area  == ReadableArea(next)
           nread == Least(Len(area), left)
       IN AddAreas(AddArea(s, SubSeq(area, 1, nread)),
                   [next EXCEPT !.read_pos = @ + nread], left - nread)

\* Mutant of spy_buffer_adler32: the read position stays behind the data.
spy_buffer_adler32_NoReset(adler, buffer, len) ==
  LET r == AddAreas(SplitSums(adler), buffer, len) IN
  [sum |-> JoinSums(r.sums), buffer |-> r.buffer]

spy_buffer_adler32(adler, buffer, len) ==
  LET r == AddAreas(SplitSums(adler), buffer, len) IN
  [sum    |-> JoinSums(r.sums),
   buffer |-> spy_rw_buffer_reset_read(r.buffer, buffer.read_pos)]

-----------------------------------------------------------------------------
(* What a buffer holds, in one piece: the reference for the operations. *)

Contents(buffer) ==
  LET all == FoldLeft(LAMBDA a, b : a \o b, <<>>, buffer.mem_blocks) IN
  SubSeq(all, buffer.read_pos + 1, buffer.write_pos)
=============================================================================
