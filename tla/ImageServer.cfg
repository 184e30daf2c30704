SPECIFICATION FairSpec
CONSTANTS
  s1 = s1
  s2 = s2
  h1 = h1
  h2 = h2
  tag = tag
  blob = blob
  dest = dest
  None = None
  Servers <- TwoServers
  Handlers <- TwoHandlers
  Paths <- ThreePaths
  Tags <- OneTag
  Requests <- TagAndBlob
  limitNum = 1
  MaxUploads = 2
INVARIANTS
  TypeOK
  Replicated
  AckedDownloads
  TagListed
PROPERTY
  RequestAnswered
