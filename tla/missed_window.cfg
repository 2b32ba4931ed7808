\* A dependency that runs between two passes of start_programs is not noticed.
SPECIFICATION Spec
CONSTANTS
  NumProcs = 3
  Names = {"a", "b", "c"}
  Configs <- ChainOfThree
  Pids = {p1, p2, p3}
  MaxAdopted = 0
  OperatorSignals = {}
  PidOne = TRUE
  ActiveFds = {}
  MaxUnread = 0
  SignalFd = SignalFd
  Failures = {}
  MaxEvents = 10
  BufSize = 1
  UintRange = 4
  DaemonLogger = "scinit"
PROPERTIES
  DependentsStart
