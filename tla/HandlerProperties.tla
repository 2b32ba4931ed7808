------------------------- MODULE HandlerProperties -------------------------
(***************************************************************************)
(* What the supervisor must guarantee.  Of the properties at the end some  *)
(* hold only for some configurations and environments: README.md says      *)
(* which, and the runs show both sides.                                    *)
(***************************************************************************)
EXTENDS ProcessHandler

TypeOK ==
  /\ ChildTypeOK /\ KernelTypeOK
  /\ pc \in {"register", "notify", "start", "wait", "reap", "events", "decide"} \cup Down
  /\ site \in {"enter", "top", "bottom"}
  /\ todo \subseteq Procs
  /\ batch \subseteq [fd : Fds, in : BOOLEAN, hup : BOOLEAN]
  /\ DOMAIN id_for_pid \subseteq Pids \cup {NoPid}
  /\ \A pid \in DOMAIN id_for_pid : id_for_pid[pid] \in Procs
  /\ DOMAIN id_for_fd \subseteq ChildFds
  /\ \A fd \in DOMAIN id_for_fd : id_for_fd[fd] \in Procs
  /\ num_fd_for_id \in [Procs -> 0 .. UintRange - 1]
  /\ loggers \subseteq Names \cup {DaemonLogger}
  /\ number_of_running_procs \in Int
  /\ should_quit \in BOOLEAN

\* The processes that execute a program of the configuration, zombies
\* included: what the daemon has to look after.
Supervised == {pid \in Pids : process[pid] # "free" /\ program[pid] # Orphan}

\* id_for_pid and the kernel's process table agree, pid reuse and adopted
\* orphans notwithstanding: what sigchld_received and the forwarding loop
\* look up is exactly the set of supervised processes.
PidTableFaithful ==
  /\ DOMAIN id_for_pid \ {NoPid} = Supervised
  /\ \A pid \in Supervised : id_for_pid[pid] = program[pid]

\* A program is RUNNING exactly while one process, and no second one,
\* executes it or waits to be reaped.
RunningHasProcess ==
  /\ \A p \in Procs :
       state[p] = "RUNNING" <=> \E pid \in Supervised : program[pid] = p
  /\ \A i, j \in Supervised : program[i] = program[j] => i = j

\* number_of_running_procs, kept by hand in start_programs and in
\* sigchld_received, counts the supervised processes.
CountAgrees == number_of_running_procs = Cardinality(Supervised)

\* enter_eventloop returns only when every child was reaped.
ExitsLast == pc = "returned" => Supervised = {}

\* A program is started at most once and its outcome is recorded at most
\* once: an exit status is never credited to a program that did not run.
LifecycleOrder ==
  [][\A p \in Procs : state'[p] # state[p] =>
       <<state[p], state'[p]>> \in
         { <<"BLOCKED", "READY">>, <<"READY", "RUNNING">>,
           <<"RUNNING", "DONE">>, <<"RUNNING", "CRASHED">> }]_vars

\* The daemon does not return for want of work while a program could still
\* be started: whatever the last exit unblocked is started first.
NoStartableLeftBehind ==
  pc = "returned" /\ ~should_quit =>
    \A p \in Procs : /\ state[p] = "READY" => config.name[p] \in loggers
                     /\ state[p] = "BLOCKED" => ~Fulfilled(p)

\* How far every program is, in terms of the kernel's process table and of
\* the outcomes the daemon recorded.
ObservedPhase ==
  [p \in Procs |->
     IF \E pid \in Supervised : program[pid] = p THEN "running"
     ELSE IF state[p] = "DONE" THEN "succeeded"
     ELSE IF state[p] = "CRASHED" THEN "failed" ELSE "waiting"]

Abstract == INSTANCE Supervision WITH phase <- ObservedPhase, open <- Up

\* The event loop implements the abstract supervisor.
Implements == Abstract!Spec

\* The configurations whose declared order the code honours: `before` names
\* programs further down the list, `after` programs of the declaring
\* program's own type.
Honoured(c) ==
  /\ \A p, q \in Procs : c.name[q] \in c.before[p] => p < q
  /\ \A p, q \in Procs : c.name[q] \in c.after[p] => c.type[p] = c.type[q]

\* When do_fork starts p, everything p is declared to come after has started,
\* as far as the daemon knows: the README's reading of before/after.
Started(q) == state[q] = IF config.type[q] = "ONESHOT" THEN "DONE" ELSE "RUNNING"
StartOrder ==
  [][\A p \in Procs : state[p] # "RUNNING" /\ state'[p] = "RUNNING" =>
       \A q \in Abstract!Needs(p) : Started(q)]_vars

\* event_received knows every descriptor epoll can report, so that
\* id_for_fd.at does not throw, and the counts of open streams are exact.
FdTablesAgree ==
  Up => /\ DOMAIN id_for_fd = interest \ {SignalFd}
        /\ \A p \in Procs : num_fd_for_id[p] =
             Cardinality({fd \in DOMAIN id_for_fd : id_for_fd[fd] = p})

\* A stream is dropped from epoll only when it is drained and nobody can
\* write to it any more, although the decision is taken on a snapshot.
DrainedBeforeDropped ==
  [][\A fd \in interest \ interest' : unread[fd] = 0 /\ fd \notin writable]_vars

\* Signals are forwarded to supervised processes only.
SignalsReachOnlyChildren == \A pid \in asked : program[pid] # Orphan

\* Every zombie is reaped, adopted ones included, even if the SIGCHLD that
\* announced it was consumed together with an earlier one.
ZombiesReaped ==
  \A pid \in Pids : IsZombie(pid) ~> ~IsZombie(pid) \/ ~Up

\* An interrupt ends in the daemon's return, after all children were stopped.
QuitTerminates == "SIGINT" \in pending ~> pc = "returned"

\* A program whose requirements are all started is started too, unless the
\* daemon has been told to quit.
DependentsStart ==
  \A p \in Procs :
    (state[p] = "BLOCKED" /\ \A q \in Abstract!Needs(p) : Started(q))
      ~> state[p] # "BLOCKED" \/ should_quit

\* Everything the children wrote has been read when the daemon returns.
OutputComplete == pc = "returned" => \A fd \in ChildFds : unread[fd] = 0

\* A SIGTERM to the daemon that supervises a process reaches this process, if
\* it does not end by itself: scinit "forwards signals" (README.md:7).  A
\* signal from before the process was started is not spoken of.
SigtermForwarded ==
  \A pid \in Pids :
    (pid \in Supervised /\ "SIGTERM" \notin sent /\ <>("SIGTERM" \in sent))
      ~> pid \in asked \/ pid \notin Supervised

=============================================================================
