----------------------------- MODULE ChunkFile -----------------------------
(***************************************************************************)
(* The bytes of a chunk file (chunkserver/spy_store.c): how the superblock *)
(* and a file's record are laid out, and how a restarted server finds the  *)
(* files again by parsing the chunk through a buffer smaller than it.      *)
(*                                                                         *)
(* Module SpyStore has the same chunk as a list of records; here it is the *)
(* cells themselves, and the integers of the parser have the width the     *)
(* code gives them: fpos is an int, offsets are uint64_t.                  *)
(***************************************************************************)
EXTENDS RwBuffer

CONSTANTS
  CHUNK_SIZE,       \* config.chunk_size
  INT_BITS,         \* width of an int
  MAGIC             \* SUPERBLOCK_MAGIC

ASSUME ChunkFileAssumption ==
  /\ {CHUNK_SIZE, INT_BITS} \subseteq Nat \ {0}
  /\ MAGIC \in Seq(Cell)

SUPERBLOCK_SIZE == Len(MAGIC) + 4 * N8 + 2 * N4
FILE_META_SIZE == 3 * N8 + N2 + N4

\* The bytes from a 0-based offset on, and a pwrite there.
Bytes(file, offset, n) == SubSeq(file, offset + 1, offset + n)

spy_pwrite(file, cells, offset) ==
  [i \in 1 .. Len(file) |-> IF i - offset \in 1 .. Len(cells)
                            THEN cells[i - offset] ELSE file[i]]

\* A value converted to int, and one converted to uint64_t.
AsInt(x) ==
  LET u == x % 2^INT_BITS IN IF u >= 2^(INT_BITS - 1) THEN u - 2^INT_BITS ELSE u
AsUint64(x) == x % 2^(2 * INT_BITS)

-----------------------------------------------------------------------------
(* The superblock. *)

spy_alloc_chunk(chunk_id) ==
  [chunk_id |-> chunk_id, files_alloc |-> 0, files_count |-> 0,
   current_offset |-> SUPERBLOCK_SIZE,
   avail_space |-> CHUNK_SIZE - SUPERBLOCK_SIZE]

spy_fill_superblock(chunk) ==
  LET body == MAGIC \o mach_write_to(N8, chunk.chunk_id)
                    \o mach_write_to(N4, chunk.files_alloc)
                    \o mach_write_to(N4, chunk.files_count)
                    \o mach_write_to(N8, chunk.current_offset)
                    \o mach_write_to(N8, chunk.avail_space)
  IN body \o mach_write_to(N8, spy_adler32(0, body))

\* The two assertions on a superblock that is read back, and its fields.
SuperblockValid(sb) ==
  LET body == SUPERBLOCK_SIZE - N8 IN
  /\ SubSeq(sb, 1, Len(MAGIC)) = MAGIC
  /\ mach_read_from(Bytes(sb, body, N8)) = spy_adler32(0, Bytes(sb, 0, body))

spy_parse_chunk_superblock(sb) ==
  LET p == Len(MAGIC) IN
  [chunk_id       |-> mach_read_from(Bytes(sb, p, N8)),
   files_alloc    |-> mach_read_from(Bytes(sb, p + N8, N4)),
   files_count    |-> mach_read_from(Bytes(sb, p + N8 + N4, N4)),
   current_offset |-> mach_read_from(Bytes(sb, p + N8 + 2 * N4, N8)),
   avail_space    |-> mach_read_from(Bytes(sb, p + 2 * N8 + 2 * N4, N8))]

\* spy_create_chunk: fallocate, then the first superblock.
spy_create_chunk(chunk_id) ==
  spy_pwrite([i \in 1 .. CHUNK_SIZE |-> 0],
             spy_fill_superblock(spy_alloc_chunk(chunk_id)), 0)

-----------------------------------------------------------------------------
(* A file's record: its meta, then its body. *)

MetaCells(f) == mach_write_to(N8, f.fid) \o mach_write_to(N2, f.ref)
                \o mach_write_to(N4, f.size) \o mach_write_to(N8, f.checksum)
                \o mach_write_to(N8, f.timestamp)

ParseMeta(meta) ==
  [fid       |-> mach_read_from(Bytes(meta, 0, N8)),
   ref       |-> mach_read_from(Bytes(meta, N8, N2)),
   size      |-> mach_read_from(Bytes(meta, N8 + N2, N4)),
   checksum  |-> mach_read_from(Bytes(meta, N8 + N2 + N4, N8)),
   timestamp |-> mach_read_from(Bytes(meta, 2 * N8 + N2 + N4, N8))]

-----------------------------------------------------------------------------
(***************************************************************************)
(* spy_parse_next_file.  The parser is its buffer (buf, buf_pos, buf_left) *)
(* and fpos; at is the position the kernel keeps for the file descriptor,  *)
(* which fpos follows in an int.  A read returns all that was asked for,   *)
(* unless the file ends before.                                            *)
(***************************************************************************)

spy_alloc_file_parser(chunk, fpos, buffer_size) ==
  [fpos |-> fpos, at |-> fpos, chunk_offset |-> chunk.current_offset,
   buf |-> [i \in 1 .. buffer_size |-> Junk], buf_pos |-> 0, buf_left |-> 0]

Fleft(parser) == AsInt(parser.chunk_offset - parser.fpos)

\* read(fd, buf + to, rsize): nread cells stored, fpos and at advanced.
ReadInto(parser, file, to, rsize) ==
  LET nread == Least(rsize, Len(file) - parser.at) IN
  [parser |-> [parser EXCEPT
                 !.buf  = spy_pwrite(@, Bytes(file, parser.at, nread), to),
                 !.at   = @ + nread,
                 !.fpos = AsInt(@ + nread)],
   nread |-> nread]

\* Move what is left to the front and read behind it; nread is 0 when the
\* caller returns -1.
FillBuffer(parser, file) ==
  LET left  == parser.buf_left
      moved == [parser EXCEPT
                  !.buf     = spy_pwrite(@, Bytes(@, parser.buf_pos, left), 0),
                  !.buf_pos = 0]
      r     == ReadInto(moved, file, left,
                        Least(Fleft(parser), Len(parser.buf) - left))
  IN IF Fleft(parser) <= 0 THEN [parser |-> moved, nread |-> 0]
     ELSE [r EXCEPT !.parser.buf_left = @ + r.nread]

\* Read past the cur_fleft cells of a body that are not in the buffer yet.
RECURSIVE SkipBody(_, _, _)
SkipBody(parser, file, cur_fleft) ==
  LET r == ReadInto(parser, file, 0, Least(Fleft(parser), Len(parser.buf))) IN
  IF cur_fleft = 0 THEN [parser |-> parser, ok |-> TRUE]
  ELSE IF Fleft(parser) <= 0 \/ r.nread <= 0 THEN [parser |-> parser, ok |-> FALSE]
  ELSE IF cur_fleft > r.nread
  THEN SkipBody([r.parser EXCEPT !.buf_pos = 0, !.buf_left = 0], file,
                cur_fleft - r.nread)
  ELSE [parser |-> [r.parser EXCEPT !.buf_pos  = cur_fleft,
                                    !.buf_left = r.nread - cur_fleft],
        ok |-> TRUE]

\* Mutant of FileOffset: what is still in the buffer is not subtracted.
FileOffset_NoLeft(parser, size) == AsUint64(parser.fpos - size - FILE_META_SIZE)

\* Where the record that was just parsed begins: what is still in the buffer
\* has been read from the file, and not been parsed.
FileOffset(parser, size) ==
  AsUint64(parser.fpos - size - FILE_META_SIZE - parser.buf_left)

\* The return value 1 is "file", 0 is "end" and -1 is "error"; "abort" is the
\* failed assertion that the buffer holds a whole meta.
NoFile(parser, result) ==
  [parser |-> parser, result |-> result, entry |-> [fid |-> 0, offset |-> 0, size |-> 0]]

PassBody(parser, file, size) ==
  IF parser.buf_left < size THEN SkipBody(parser, file, size - parser.buf_left)
  ELSE [parser |-> [parser EXCEPT !.buf_pos = @ + size, !.buf_left = @ - size],
        ok     |-> TRUE]

FileParsed(meta, past) ==
  IF ~past.ok THEN NoFile(past.parser, "error")
  ELSE [parser |-> past.parser, result |-> "file",
        entry  |-> [fid |-> meta.fid, offset |-> FileOffset(past.parser, meta.size),
                    size |-> meta.size + FILE_META_SIZE]]

ParseRecord(full, file) ==
  LET p    == full.parser
      meta == ParseMeta(Bytes(p.buf, p.buf_pos, FILE_META_SIZE))
  IN IF full.nread <= 0 THEN NoFile(p, "error")
     ELSE IF p.buf_left < FILE_META_SIZE THEN NoFile(p, "abort")
     ELSE FileParsed(meta, PassBody([p EXCEPT !.buf_pos  = @ + FILE_META_SIZE,
                                              !.buf_left = @ - FILE_META_SIZE],
                                    file, meta.size))

spy_parse_next_file(parser, file) ==
  IF AsUint64(parser.fpos) >= parser.chunk_offset /\ parser.buf_left = 0
  THEN NoFile(parser, "end")
  ELSE ParseRecord(IF parser.buf_left < FILE_META_SIZE THEN FillBuffer(parser, file)
                   ELSE [parser |-> parser, nread |-> 1], file)

\* The loop of spy_setup_chunk, from what the parser has just returned.
RECURSIVE ParseFiles(_, _, _)
ParseFiles(parsed, file, entries) ==
  IF parsed.result = "file" /\ \A e \in entries : e.fid # parsed.entry.fid
  THEN ParseFiles(spy_parse_next_file(parsed.parser, file), file,
                  entries \union {parsed.entry})
  ELSE [parser |-> parsed.parser, entries |-> entries,
        aborted |-> parsed.result \in {"file", "abort"}]

\* The chunk and its index entries, or ok = FALSE when the process exits.
spy_setup_chunk(file, buffer_size) ==
  LET chunk  == spy_parse_chunk_superblock(file)
      parser == spy_alloc_file_parser(chunk, SUPERBLOCK_SIZE, buffer_size)
      parsed == ParseFiles(spy_parse_next_file(parser, file), file, {})
  IN [chunk   |-> chunk,
      entries |-> parsed.entries,
      ok      |-> /\ SuperblockValid(file)
                  /\ ~parsed.aborted
                  /\ AsUint64(parsed.parser.fpos) >= chunk.current_offset]
=============================================================================
