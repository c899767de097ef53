SPECIFICATION Spec
CONSTANTS
  i1 = i1  i2 = i2
  r1 = r1  r2 = r2  r3 = r3
  server = server
  NoToken = NoToken
  Processes = {i1, i2, r1, r2, r3, server}
  Command <- MCCommand
  Latest = 3
  Workloads <- MCWorkloads
INVARIANTS
  TypeOK
  MigratedOnce
PROPERTIES
  AccessKept
  LoneCommandWorks
CHECK_DEADLOCK FALSE
