\* The daemon's books against the kernel's, and the declared order against the abstract supervisor, as PID 1, with adopted orphans and pid reuse.
SPECIFICATION Safety
CONSTANTS
  NumProcs = 3
  Names = {"a", "b", "c", "scinit"}
  Configs <- SupervisedConfigs
  Pids = {p1, p2, p3}
  MaxAdopted = 1
  OperatorSignals = {"SIGINT"}
  PidOne = TRUE
  ActiveFds <- OneStream
  MaxUnread = 0
  SignalFd = SignalFd
  Failures = {"do_fork"}
  MaxEvents = 10
  BufSize = 1
  UintRange = 4
  DaemonLogger = "scinit"
SYMMETRY PidSymmetry
INVARIANTS
  PidTableFaithful
  RunningHasProcess
  CountAgrees
  ExitsLast
  NoStartableLeftBehind
  SignalsReachOnlyChildren
  FdTablesAgree
PROPERTIES
  LifecycleOrder
  StartOrder
  Implements
