SPECIFICATION Spec
CONSTANTS
  serve = serve  agent = agent  broken = broken
  api = api  mcp1 = mcp1  mcp2 = mcp2  cli = cli  cli2 = cli2  cli3 = cli3  cli4 = cli4  cli5 = cli5  api2 = api2  mcp3 = mcp3
  NoJob = NoJob
  V4Bits = 3
  Private <- MCPrivate
  Multicast <- MCMulticast
  Processes = {serve, agent, broken}
  Policy <- MCPolicy
  Requests = {api, mcp1, mcp2, cli, cli2, cli3, cli4, cli5, api2, mcp3}
  Request <- MCRequest
  Workloads <- MCWorkloads
INVARIANTS
  TypeOK
  DialsAuthorized
  AnswersHonest
  ExpansionExact
  PrintsOwnOrLater
PROPERTIES
  RefusedNeverStarts
CHECK_DEADLOCK FALSE
