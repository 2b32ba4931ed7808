\* Stream traffic, a full event array, every failing call, and a daemon that can be killed.
SPECIFICATION Safety
CONSTANTS
  NumProcs = 2
  Names = {"a", "b", "scinit"}
  Configs <- Independent
  Pids = {p1, p2}
  MaxAdopted = 0
  OperatorSignals = {"SIGTERM"}
  PidOne = FALSE
  ActiveFds <- FirstStreams
  MaxUnread = 2
  SignalFd = SignalFd
  Failures = {"do_fork", "fork", "epoll_ctl", "fatal"}
  MaxEvents = 2
  BufSize = 1
  UintRange = 4
  DaemonLogger = "scinit"
SYMMETRY PidSymmetry
INVARIANTS
  TypeOK
PROPERTIES
  DrainedBeforeDropped
