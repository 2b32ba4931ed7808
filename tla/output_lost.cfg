\* The daemon returns with unread output.
SPECIFICATION Safety
CONSTANTS
  NumProcs = 1
  Names = {"a", "b", "scinit"}
  Configs <- Independent
  Pids = {p1}
  MaxAdopted = 0
  OperatorSignals = {"SIGINT"}
  PidOne = TRUE
  ActiveFds <- FirstStreams
  MaxUnread = 1
  SignalFd = SignalFd
  Failures = {}
  MaxEvents = 10
  BufSize = 1
  UintRange = 4
  DaemonLogger = "scinit"
SYMMETRY PidSymmetry
INVARIANTS
  OutputComplete
