SPECIFICATION Spec
CONSTANTS
  Ips = {ip1, ip2}
  Limit = 3
  Window = 2
  Ban = 3
  MaxTime = 7
  MaxAttempts = 6
INVARIANTS TypeOK BansRemembered
PROPERTIES KeepsPromise
CHECK_DEADLOCK FALSE
