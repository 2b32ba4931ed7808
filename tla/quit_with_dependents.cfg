\* A program launched after the quit request never hears of it.
SPECIFICATION Spec
CONSTANTS
  NumProcs = 3
  Names = {"a", "b", "c"}
  Configs <- PairAndBystander
  Pids = {p1, p2, p3}
  MaxAdopted = 0
  OperatorSignals = {"SIGINT"}
  PidOne = TRUE
  ActiveFds = {}
  MaxUnread = 0
  SignalFd = SignalFd
  Failures = {}
  MaxEvents = 10
  BufSize = 1
  UintRange = 4
  DaemonLogger = "scinit"
PROPERTIES
  QuitTerminates
