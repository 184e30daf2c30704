SPECIFICATION Spec
CONSTANTS
  c1 = c1
  c2 = c2
  NoOwner = NoOwner
  Clients <- MCClients
  Fids <- MCFids
  Body <- MCBody
  Requests <- MCRequests
  MAGIC <- MCMagic
  BYTE = 32
  N1 = 1
  N2 = 1
  N4 = 1
  N8 = 2
  BASE = 13
  HALF = 16
  NMAX = 3
  BLOCK = 4
  PREALLOC = 1
  LIMIT = 5
  CHUNK_SIZE = 32
  INT_BITS = 6
  MAX_FD = 3
  MAX_CLIENTS = {3, 4}
  SERVER_ID = 3
  TIMESTAMP = 12
  BUFFER_SIZES = {8, 11, 13}
  SNDBUF = 4
  CUTS <- MCCuts
  MaxRequests <- MCMaxRequests
  MaxCrashes = 1
INVARIANTS
  TypeOK
  RequestIntact
  ResponseIntact
  Recovered
  BlocksAccounted
  EventsAgree
  NoRequestStranded
VIEW DeadAside
CHECK_DEADLOCK FALSE
