\* A simple program after a oneshot program starts while the oneshot still runs.
SPECIFICATION Safety
CONSTANTS
  NumProcs = 2
  Names = {"a", "b", "scinit"}
  Configs <- AfterOtherType
  Pids = {p1, p2}
  MaxAdopted = 0
  OperatorSignals = {}
  PidOne = TRUE
  ActiveFds = {}
  MaxUnread = 0
  SignalFd = SignalFd
  Failures = {}
  MaxEvents = 10
  BufSize = 1
  UintRange = 4
  DaemonLogger = "scinit"
SYMMETRY PidSymmetry
PROPERTIES
  StartOrder
