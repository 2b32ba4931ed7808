\* SIGTERM is not in the daemon's signal mask.
SPECIFICATION Spec
CONSTANTS
  NumProcs = 2
  Names = {"a", "b", "scinit"}
  Configs <- Independent
  Pids = {p1, p2}
  MaxAdopted = 0
  OperatorSignals = {"SIGTERM"}
  PidOne = TRUE
  ActiveFds = {}
  MaxUnread = 0
  SignalFd = SignalFd
  Failures = {}
  MaxEvents = 10
  BufSize = 1
  UintRange = 4
  DaemonLogger = "scinit"
PROPERTIES
  SigtermForwarded
