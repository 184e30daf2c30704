SPECIFICATION Spec
CONSTANTS
  s1 = s1
  s2 = s2
  h1 = h1
  h2 = h2
  Nil = Nil
  Servers <- TwoServers
  Handlers <- OneHandler
  Timeout = 0
  limitNum = 2
  MaxFailures = 0
  MaxOperator = 2
PROPERTY
  TransferSkipped
