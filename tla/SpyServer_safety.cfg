SPECIFICATION Spec
CONSTANTS
  f1 = f1
  f2 = f2
  c1 = c1
  c2 = c2
  c3 = c3
  NoFid = NoFid
  FileSize <- FileSizes
  SUPERBLOCK_SIZE = 1
  FILE_META_SIZE = 1
  Fids <- TwoFids
  Conns <- ThreeConns
  NChunks = 1
  CHUNK_SIZE = 7
  MAX_IO_JOBS = 3
  MAX_PENDING_WRITES = 2
  PENDING_WRITE_TIMEOUT = 2
  Opcodes = {"WRITE", "READ"}
  DuplicateFids = TRUE
  MaxCrashes = 2
VIEW ErrorsAside
SYMMETRY ConnSymmetry
INVARIANTS
  TypeOK
  ChunkExclusive
  IndexIntact
  AckedDurable
  RestartSucceeds
  NoStrandedPending
PROPERTY
  CommittedImmutable
