--------------------------- MODULE ProcessHandler ---------------------------
(***************************************************************************)
(* The supervisor (ProcessHandler.cpp): registration of the programs, the  *)
(* signal set-up, the two-pass start_programs, and the event loop that     *)
(* waits on epoll, reaps with waitpid and then handles the events of its   *)
(* snapshot.  It is single-threaded: pc says where the thread is, and the  *)
(* kernel's actions interleave at every point where an outcome can differ. *)
(***************************************************************************)
EXTENDS ChildProcess, Kernel

CONSTANTS
  Failures,     \* which calls may fail: "do_fork", "fork", "epoll_ctl", or
                \* "fatal", those after which the daemon gives up
  MaxEvents,    \* MAX_EVENTS: the events one epoll_wait returns
  BufSize,      \* BUF_SIZE: the characters one read returns
  UintRange,    \* unsigned arithmetic of num_fd_for_id is modulo this
  DaemonLogger  \* the logger name main() registers first, "scinit"

ASSUME ProcessHandlerAssumption ==
  /\ Failures \subseteq {"do_fork", "fork", "epoll_ctl", "fatal"}
  /\ MaxEvents \in Nat \ {0}
  /\ BufSize \in Nat \ {0}
  /\ UintRange \in Nat /\ UintRange > 2

VARIABLES
  pc,                       \* where the daemon's thread is
  site,                     \* which call of start_programs is running
  todo,                     \* programs a loop over all_objs has still to visit
  batch,                    \* events of the last epoll_wait not handled yet
  id_for_pid,               \* pid -> program
  id_for_fd,                \* fd -> program; fd_type always has the same keys
  num_fd_for_id,            \* program -> streams still registered
  loggers,                  \* names registered with spdlog
  number_of_running_procs,
  should_quit

fdTables    == <<id_for_fd, num_fd_for_id>>
tables      == <<id_for_pid, fdTables, loggers, number_of_running_procs, should_quit>>
handlerVars == <<pc, site, todo, batch, tables>>
vars        == <<childVars, kernelVars, handlerVars>>

Down == {"returned", "aborted", "killed"}
Up   == pc \notin Down

\* std::map: m[k] = v and m.erase(k).
Insert(m, k, v) == [x \in DOMAIN m \cup {k} |-> IF x = k THEN v ELSE m[x]]
Erase(m, k)     == [x \in DOMAIN m \ {k} |-> m[x]]

\* The loops over all_objs visit the programs in list order.
IsNext(p) == p \in todo /\ \A q \in todo : p <= q

\* The first of the three calls of start_programs in enter_eventloop: once
\* before the loop, once at its top and once at its bottom.
FirstCall_InLoop == "top"  \* fault: no call before the loop
FirstCall == "enter"

Init ==
  /\ ChildInit
  /\ KernelInit
  /\ pc = "register" /\ site = FirstCall /\ todo = Procs
  /\ batch = {}
  /\ id_for_pid = [pid \in {} |-> 0]
  /\ id_for_fd = [fd \in {} |-> 0]
  /\ num_fd_for_id = [p \in Procs |-> 0]
  /\ loggers = {DaemonLogger}
  /\ number_of_running_procs = 0
  /\ should_quit = FALSE

-----------------------------------------------------------------------------
(* register_processes and setup_signal_handlers                             *)

RegisterChild(c) ==
  /\ pc = "register" /\ IsNext(c)
  /\ PropagateDependencies(c)
  /\ todo' = todo \ {c}
  /\ UNCHANGED <<kernelVars, pc, site, batch, tables>>

SetupSignalHandlers ==
  /\ pc = "register" /\ todo = {}
  /\ interest' = {SignalFd}
  /\ pc' = "notify"
  /\ UNCHANGED <<childVars, processVars, adopted, pending, sent, streamVars,
                 site, todo, batch, tables>>

-----------------------------------------------------------------------------
(* start_programs                                                           *)

\* The first pass.  Nothing but this pass makes a program READY, and nothing
\* but its own turn in the second pass takes it out of READY, so the ones
\* the second pass will start are known here.
Notify ==
  /\ pc = "notify"
  /\ NotifyOfState
  /\ todo' = {p \in Procs : CanStartNow(p)'}
  /\ pc' = "start"
  /\ UNCHANGED <<kernelVars, site, batch, tables>>

\* spdlog refuses a name that exists already: another program's, the
\* daemon's, or the program's own after do_fork threw.
SkipDuplicateLogger(p) ==
  /\ pc = "start" /\ IsNext(p)
  /\ config.name[p] \in loggers
  /\ todo' = todo \ {p}
  /\ UNCHANGED <<childVars, kernelVars, pc, site, batch, tables>>

\* do_fork throws before it forks (a pipe or a pty cannot be allocated).
DoForkThrows(p) ==
  /\ pc = "start" /\ IsNext(p)
  /\ config.name[p] \notin loggers
  /\ "do_fork" \in Failures
  /\ loggers' = loggers \cup {config.name[p]}
  /\ todo' = todo \ {p}
  /\ UNCHANGED <<childVars, kernelVars, pc, site, batch, id_for_pid, fdTables,
                 number_of_running_procs, should_quit>>

\* reg[primaryPid] = graph_id
Record_ByValue(pid, p) == UNCHANGED id_for_pid  \* fault: reg is a copy
Record(pid, p) == id_for_pid' = Insert(id_for_pid, pid, p)

\* do_fork: the result of fork() is recorded without being checked.
DoFork(p) ==
  /\ BecomeRunning(p)
  /\ \/ \E pid \in Pids :
          /\ Spawn(pid, p)
          /\ Record(pid, p)
     \/ /\ "fork" \in Failures
        /\ Record(NoPid, p)
        /\ UNCHANGED <<process, program, writable>>

\* register_with_epoll, and the two lines of start_programs an exception of
\* it skips.  The maps are filled only after both descriptors were added.
RegisterWithEpoll(p) ==
  \/ LET out == <<p, "STDOUT">>
         err == <<p, "STDERR">>
     IN /\ interest' = interest \cup {out, err}
        /\ id_for_fd' = Insert(Insert(id_for_fd, out, p), err, p)
        /\ num_fd_for_id' = [num_fd_for_id EXCEPT ![p] = 2]
        /\ number_of_running_procs' = number_of_running_procs + 1
  \/ /\ "epoll_ctl" \in Failures
     /\ \E added \in {{}, {<<p, "STDOUT">>}} : interest' = interest \cup added
     /\ UNCHANGED <<fdTables, number_of_running_procs>>

Launch(p) ==
  /\ pc = "start" /\ IsNext(p)
  /\ config.name[p] \notin loggers
  /\ loggers' = loggers \cup {config.name[p]}
  /\ DoFork(p)
  /\ RegisterWithEpoll(p)
  /\ todo' = todo \ {p}
  /\ UNCHANGED <<asked, adopted, pending, sent, unread,
                 pc, site, batch, should_quit>>

\* start_programs returns to one of its three call sites.
StartProgramsDone ==
  /\ pc = "start" /\ todo = {}
  /\ \/ site = "enter" /\ site' = "top" /\ pc' = "notify"
     \/ site = "top" /\ pc' = "wait" /\ UNCHANGED site
     \/ site = "bottom" /\ number_of_running_procs = 0
        /\ pc' = "returned" /\ UNCHANGED site
     \/ site = "bottom" /\ number_of_running_procs # 0
        /\ site' = "top" /\ pc' = "notify"
  /\ UNCHANGED <<childVars, kernelVars, todo, batch, tables>>

-----------------------------------------------------------------------------
(* The event loop                                                           *)

\* waitpid is called whatever epoll_wait reported.
AfterWait_OnSignal(events) ==  \* fault: only when the signalfd is readable
  IF \E e \in events : e.fd = SignalFd THEN "reap" ELSE "events"
AfterWait(events) == "reap"

\* epoll_wait: as many ready events as fit, or none after the timeout.
EpollWait ==
  /\ pc = "wait"
  /\ \E events \in SUBSET ReadyEvents :
       /\ \/ events = ReadyEvents /\ Cardinality(events) <= MaxEvents
          \/ Cardinality(events) = MaxEvents
       /\ batch' = events
       /\ pc' = AfterWait(events)
  /\ UNCHANGED <<childVars, kernelVars, site, todo, tables>>

\* id_for_pid.erase(pid)
Forget_Never(pid) == UNCHANGED id_for_pid  \* fault: the entry stays
Forget(pid) == id_for_pid' = Erase(id_for_pid, pid)

IsOurs(pid) == pid \in DOMAIN id_for_pid

\* By how much a reaped process lowers number_of_running_procs.
EndedPrograms_Any(pid) == 1  \* fault: adopted orphans count, too
EndedPrograms(pid) == IF IsOurs(pid) THEN 1 ELSE 0

\* waitpid and sigchld_received
Reap(pid) ==
  /\ pc = "reap" /\ IsZombie(pid)
  /\ IF IsOurs(pid)
       THEN /\ HandleExit(id_for_pid[pid], IF process[pid] = "succeeded" THEN 0 ELSE 1)
            /\ Forget(pid)
       ELSE UNCHANGED <<childVars, id_for_pid>>
  /\ number_of_running_procs' = number_of_running_procs - EndedPrograms(pid)
  /\ Release(pid)
  /\ UNCHANGED <<adopted, pending, sent, streamVars, interest,
                 pc, site, todo, batch, fdTables, loggers, should_quit>>

\* waitpid returns 0 or ECHILD.
ReapDone ==
  /\ pc = "reap" /\ Zombies = {}
  /\ pc' = "events"
  /\ UNCHANGED <<childVars, kernelVars, site, todo, batch, tables>>

\* What is forwarded: SIGINT becomes SIGTERM.
Forwarded_Verbatim(s) == s  \* fault: no conversion
Forwarded(s) == IF s = "SIGINT" THEN "SIGTERM" ELSE s

\* signal_received.  SIGCHLD does nothing; of the blocked signals the two
\* others are the ones whose number passes the SIGTERM/SIGQUIT test.
HandleSignal(s) ==
  /\ s \in pending
  /\ pending' = pending \ {s}
  /\ IF s = "SIGCHLD"
       THEN UNCHANGED <<asked, should_quit>>
       ELSE /\ Kill(DOMAIN id_for_pid, Forwarded(s))
            /\ should_quit' = TRUE
  /\ UNCHANGED <<unread, interest, pc, id_for_pid, fdTables>>

\* A read of one buffer.  If it holds more than newlines, handle_child_output
\* looks the descriptor up, and a miss is an exception nobody catches.
HandleInput(fd) ==
  /\ unread' = [unread EXCEPT ![fd] = IF @ > BufSize THEN @ - BufSize ELSE 0]
  /\ \E blank \in BOOLEAN :
       pc' = IF blank \/ fd \in DOMAIN id_for_fd THEN pc ELSE "aborted"
  /\ UNCHANGED <<asked, pending, interest, id_for_pid, fdTables, should_quit>>

\* num_fd_for_id[id] - 1 is unsigned arithmetic.
Decremented_Signed(n) == n - 1  \* fault: the count can go below zero
Decremented(n) == (n + UintRange - 1) % UintRange

\* id_for_fd.erase(fd)
DropStream_Never(fd) == UNCHANGED id_for_fd  \* fault: the entry stays
DropStream(fd) == id_for_fd' = Erase(id_for_fd, fd)

\* The descriptor is dropped from epoll and from the tables.  id_for_fd[fd]
\* of an unknown descriptor is 0.
HandleHangup(fd) ==
  LET id == IF fd \in DOMAIN id_for_fd THEN id_for_fd[fd] ELSE 0
  IN /\ interest' = interest \ {fd}
     /\ DropStream(fd)
     /\ num_fd_for_id' = [num_fd_for_id EXCEPT ![id] = Decremented(@)]
     /\ UNCHANGED <<asked, pending, unread, pc, id_for_pid, should_quit>>

\* EPOLLIN is tested first, EPOLLHUP only without it.
IsInput_NoHangup(e) == e.in /\ ~e.hup  \* fault: EPOLLHUP is tested first
IsInput(e) == e.in

\* event_received for one event of the snapshot; epoll does not order them.
HandleEvent(e) ==
  /\ pc = "events" /\ e \in batch
  /\ batch' = batch \ {e}
  /\ \/ IsInput(e) /\ e.fd = SignalFd /\ \E s \in pending : HandleSignal(s)
     \/ IsInput(e) /\ e.fd # SignalFd /\ HandleInput(e.fd)
     \/ ~IsInput(e) /\ e.hup /\ HandleHangup(e.fd)
  /\ UNCHANGED <<childVars, process, program, adopted, sent, writable,
                 site, todo, loggers, number_of_running_procs>>

\* A call fails and the exception leaves main: one of the four of the signal
\* set-up, and within event_received a short read of the signalfd, a failing
\* EPOLL_CTL_DEL, or an event that is neither input nor a hang-up.
FatalCall ==
  /\ "fatal" \in Failures
  /\ \/ pc = "register" /\ todo = {}
     \/ pc = "events" /\ batch # {}
  /\ pc' = "aborted"
  /\ UNCHANGED <<childVars, kernelVars, site, todo, batch, tables>>

EventsDone ==
  /\ pc = "events" /\ batch = {}
  /\ pc' = "decide"
  /\ UNCHANGED <<childVars, kernelVars, site, todo, batch, tables>>

MayQuit_AtOnce == should_quit                  \* fault: children are not awaited
MayQuit_Unasked == number_of_running_procs = 0  \* fault: not only when told to
MayQuit == should_quit /\ number_of_running_procs = 0

\* The end of the loop body, up to its call of start_programs.
Decide ==
  /\ pc = "decide"
  /\ \/ MayQuit /\ pc' = "returned" /\ UNCHANGED site
     \/ ~MayQuit /\ should_quit /\ pc' = "notify" /\ site' = "top"
     \/ ~MayQuit /\ ~should_quit /\ pc' = "notify" /\ site' = "bottom"
  /\ UNCHANGED <<childVars, kernelVars, todo, batch, tables>>

-----------------------------------------------------------------------------

Daemon ==
  \/ \E p \in Procs : \/ RegisterChild(p)
                      \/ SkipDuplicateLogger(p) \/ DoForkThrows(p) \/ Launch(p)
  \/ SetupSignalHandlers \/ Notify \/ StartProgramsDone
  \/ EpollWait \/ (\E pid \in Pids : Reap(pid)) \/ ReapDone
  \/ (\E e \in batch : HandleEvent(e)) \/ FatalCall \/ EventsDone \/ Decide

\* A process runs on until it exits.
ChildExit(pid) == Up /\ Exit(pid) /\ UNCHANGED <<childVars, handlerVars>>

\* Operators, children and the kernel act while the daemon lives; what
\* happens after its end is not this program's behaviour.
OperatorSignal(s) ==
  /\ Up /\ SendSignal(s)
  /\ pc' = IF Kills(s) THEN "killed" ELSE pc
  /\ UNCHANGED <<childVars, site, todo, batch, tables>>

Environment ==
  \/ \E pid \in Pids : ChildExit(pid)
  \/ \E s \in OperatorSignals : OperatorSignal(s)
  \/ /\ Up
     /\ \/ \E pid \in Pids : Adopt(pid)
        \/ \E fd \in ActiveFds : Write(fd) \/ CloseStream(fd)
     /\ UNCHANGED <<childVars, handlerVars>>

\* The daemon is gone: nothing moves.
Halted == ~Up /\ UNCHANGED vars

Next == Daemon \/ Environment \/ Halted

Safety == Init /\ [][Next]_vars

\* The daemon's thread is scheduled, and its epoll_wait times out.  A child
\* that got SIGTERM eventually exits; no other child has to.
Fairness ==
  /\ WF_vars(Daemon)
  /\ \A pid \in Pids : WF_vars(pid \in asked /\ ChildExit(pid))

Spec == Safety /\ Fairness

=============================================================================
