\* What must happen in the end, under a scheduled daemon.
SPECIFICATION Spec
CONSTANTS
  NumProcs = 2
  Names = {"a", "b"}
  Configs <- HonouredTwo
  Pids = {p1, p2, p3}
  MaxAdopted = 1
  OperatorSignals = {"SIGINT"}
  PidOne = TRUE
  ActiveFds = {}
  MaxUnread = 0
  SignalFd = SignalFd
  Failures = {}
  MaxEvents = 10
  BufSize = 1
  UintRange = 4
  DaemonLogger = "scinit"
PROPERTIES
  ZombiesReaped
  QuitTerminates
  DependentsStart
