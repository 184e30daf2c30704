SPECIFICATION FairSpec
CONSTANTS
  f1 = f1
  f2 = f2
  c1 = c1
  c2 = c2
  c3 = c3
  NoFid = NoFid
  FileSize <- FileSizes
  SUPERBLOCK_SIZE = 1
  FILE_META_SIZE = 1
  Fids <- OneFid
  Conns <- ThreeConns
  NChunks = 1
  CHUNK_SIZE = 5
  MAX_IO_JOBS = 2
  MAX_PENDING_WRITES = 1
  PENDING_WRITE_TIMEOUT = 2
  Opcodes = {"WRITE", "READ", "PING", "QUERY", "CHECK_DISK", "DUMP_CHUNK", "KILL_PD_WR"}
  DuplicateFids = TRUE
  MaxCrashes = 0
INVARIANTS
  JobHasConnection
  Accounting
PROPERTIES
  ChunkKept
  Answered
