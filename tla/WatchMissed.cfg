SPECIFICATION Spec
CONSTANTS
  None = None
  Peers = {p}
  Conns = {c, d}
  MaxPending = 2
  MaxWatchers = 1
  Retransmit = 1
  HandshakeTimeout = 2
  LoginTimeout = 2
  IdleTimeout = 3
  MaxLifetime = 3
  ReloadInterval = 5
  CommandTimeout = 1
  AckTimeout = 2
INVARIANTS
  SnapshotsPushed
CHECK_DEADLOCK FALSE
