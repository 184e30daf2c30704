SPECIFICATION Spec
CONSTANTS
  f1 = f1
  f2 = f2
  c1 = c1
  c2 = c2
  c3 = c3
  NoFid = NoFid
  FileSize <- FileSizes
  SUPERBLOCK_SIZE = 1
  FILE_META_SIZE = 1
  Fids <- TwoFids
  Conns <- TwoConns
  NChunks = 2
  CHUNK_SIZE = 5
  MAX_IO_JOBS = 2
  MAX_PENDING_WRITES = 2
  PENDING_WRITE_TIMEOUT = 2
  Opcodes = {"WRITE"}
  DuplicateFids = TRUE
  MaxCrashes = 1
INVARIANT
  AddFileIndexAssertion
