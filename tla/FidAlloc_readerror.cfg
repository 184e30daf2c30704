SPECIFICATION FidSpec
CONSTANTS
  s1 = s1
  u1 = u1
  u2 = u2
  Ticker = Ticker
  ImageServers <- OneServer
  Uploads <- TwoUploads
  MAX_RANGE = 4
  ALLOCATE_RANGE = 2
  CAP = 3
  LOW = 2
  GetFidFails = TRUE
  MaxFid = 9
INVARIANT
  UploadOnce
