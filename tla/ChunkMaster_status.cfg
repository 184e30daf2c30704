SPECIFICATION FairSpec
CONSTANTS
  s1 = s1
  s2 = s2
  h1 = h1
  h2 = h2
  Nil = Nil
  Servers <- OneServer
  Handlers <- TwoHandlers
  Timeout = 0
  limitNum = 1
  MaxFailures = 1
  MaxOperator = 2
INVARIANTS
  TypeOK
PROPERTIES
  ErrorStaysOut
  StoppedDetected
  ReportingRecovers
