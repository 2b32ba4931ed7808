------------------------ MODULE HandlerSafety_proofs ------------------------
(***************************************************************************)
(* The daemon's books are right: its pid table is the kernel's, programs   *)
(* run at most once, and the event loop ends only after its last child.    *)
(* The first part holds whatever call fails; the second assumes that       *)
(* fork() and epoll_ctl() do not.                                          *)
(***************************************************************************)
EXTENDS HandlerTypes_proofs, FiniteSetTheorems

-----------------------------------------------------------------------------
(* Part 1: the pid table                                                    *)

\* A slot of the process table that is not in use has no program: what
\* Adopt and fork() rely on when a pid is used again.
FreeSlotsEmpty == \A pid \in Pids : process[pid] = "free" => program[pid] = Orphan

\* The programs in the table are RUNNING, each under one pid.
TableRunning   == \A pid \in DOMAIN id_for_pid : state[id_for_pid[pid]] = "RUNNING"
TableInjective == \A i, j \in DOMAIN id_for_pid : id_for_pid[i] = id_for_pid[j] => i = j

\* Before the event loop nothing was started; within start_programs the
\* programs still to be visited are READY.
NothingStarted == pc = "register" => \A p \in Procs : state[p] \in {"BLOCKED", "READY"}
TodoReady      == pc = "start" => \A p \in todo : state[p] = "READY"

Books ==
  /\ TypeOK
  /\ FreeSlotsEmpty
  /\ PidTableFaithful
  /\ TableRunning /\ TableInjective
  /\ NothingStarted /\ TodoReady

LEMMA InitBooks == Init => Books
PROOF
  <1> SUFFICES ASSUME Init PROVE Books
    OBVIOUS
  <1>1. TypeOK
    BY InitType
  <1>2. Supervised = {} /\ DOMAIN id_for_pid = {}
    BY DEF Init, KernelInit, Supervised
  <1>3. pc = "register" /\ \A p \in Procs : state[p] = "BLOCKED"
    BY DEF Init, ChildInit
  <1>4. FreeSlotsEmpty
    BY DEF FreeSlotsEmpty, Init, KernelInit
  <1> QED
    BY <1>1, <1>2, <1>3, <1>4
    DEF Books, PidTableFaithful, TableRunning, TableInjective, NothingStarted, TodoReady

\* A program is started under a pid that no table knows.
LEMMA LaunchBooks ==
  ASSUME Books, TypeOK', NEW p \in Procs, Launch(p)
  PROVE  Books'
PROOF
  <1>1. /\ state' = [state EXCEPT ![p] = "RUNNING"]
        /\ state[p] = "READY"
        /\ pc' = "start" /\ todo' = todo \ {p}
    BY DEF Launch, DoFork, BecomeRunning, IsNext, Books, TodoReady
  <1>2. \A pid \in DOMAIN id_for_pid : id_for_pid[pid] # p
    BY <1>1 DEF Books, TableRunning
  <1>3. /\ state \in [Procs -> ProcessState]
        /\ process \in [Pids -> ProcessSlot]
        /\ program \in [Pids -> Procs \cup {Orphan}]
        /\ \A i \in DOMAIN id_for_pid : id_for_pid[i] \in Procs
        /\ DOMAIN id_for_pid \subseteq Pids \cup {NoPid}
        /\ todo \subseteq Procs
    BY DEF Books, TypeOK, ChildTypeOK, KernelTypeOK
  <1>4. p # Orphan /\ NoPid \notin Pids
    <2>1. p # Orphan
      BY ProgramsAssumption DEF Procs, Orphan
    <2>2. NoPid \notin Pids
      BY KernelAssumption
    <2> QED
      BY <2>1, <2>2
  <1>5. /\ FreeSlotsEmpty'
        /\ PidTableFaithful'
        /\ \E pid \in Pids \cup {NoPid} : id_for_pid' = Insert(id_for_pid, pid, p)
    <2>1. CASE \E pid \in Pids : Spawn(pid, p) /\ Record(pid, p)
      <3>1. PICK pid \in Pids : Spawn(pid, p) /\ Record(pid, p)
        BY <2>1
      <3>2. /\ process[pid] = "free"
            /\ process' = [process EXCEPT ![pid] = "alive"]
            /\ program' = [program EXCEPT ![pid] = p]
            /\ id_for_pid' = Insert(id_for_pid, pid, p)
        BY <3>1 DEF Spawn, Record
      <3>3. Supervised' = Supervised \cup {pid}
        BY <1>3, <1>4, <3>2 DEF Supervised
      <3>4. pid \notin Supervised
        BY <3>2 DEF Supervised
      <3>5. PidTableFaithful'
        BY <1>3, <1>4, <3>2, <3>3, <3>4 DEF Books, PidTableFaithful, Insert, Supervised
      <3>6. FreeSlotsEmpty'
        BY <1>3, <3>2 DEF Books, FreeSlotsEmpty
      <3> QED
        BY <3>2, <3>5, <3>6
    <2>2. CASE Record(NoPid, p) /\ UNCHANGED <<process, program, writable>>
      BY <1>3, <1>4, <2>2 DEF Books, PidTableFaithful, FreeSlotsEmpty, Supervised, Record, Insert
    <2> QED
      BY <2>1, <2>2 DEF Launch, DoFork
  <1>6. TableRunning' /\ TableInjective'
    BY <1>1, <1>2, <1>3, <1>5 DEF Books, TableRunning, TableInjective, Insert
  <1>7. TodoReady' /\ NothingStarted'
    BY <1>1, <1>3 DEF Launch, Books, TodoReady, NothingStarted
  <1> QED
    BY <1>5, <1>6, <1>7 DEF Books

\* A pid leaves both tables at once, and with it its program.
LEMMA ReapBooks ==
  ASSUME Books, TypeOK', NEW pid \in Pids, Reap(pid)
  PROVE  Books'
PROOF
  <1>1. /\ process \in [Pids -> ProcessSlot]
        /\ program \in [Pids -> Procs \cup {Orphan}]
        /\ state \in [Procs -> ProcessState]
        /\ \A i \in DOMAIN id_for_pid : id_for_pid[i] \in Procs
        /\ NoPid \notin Pids
    BY KernelAssumption DEF Books, TypeOK, ChildTypeOK, KernelTypeOK
  <1>2. /\ process' = [process EXCEPT ![pid] = "free"]
        /\ program' = [program EXCEPT ![pid] = Orphan]
        /\ pc = "reap" /\ pc' = "reap"
        /\ process[pid] # "free"
    BY DEF Reap, Release, IsZombie
  <1>3. Supervised' = Supervised \ {pid}
    BY <1>1, <1>2 DEF Supervised
  <1>4. FreeSlotsEmpty'
    BY <1>1, <1>2 DEF Books, FreeSlotsEmpty
  <1>5. /\ DOMAIN id_for_pid' = DOMAIN id_for_pid \ {pid}
        /\ \A i \in DOMAIN id_for_pid' : id_for_pid'[i] = id_for_pid[i]
    BY DEF Reap, Forget, Erase, IsOurs
  <1>6. PidTableFaithful'
    BY <1>1, <1>2, <1>3, <1>5 DEF Books, PidTableFaithful
  <1>7. \A p \in Procs : state'[p] # state[p] => IsOurs(pid) /\ p = id_for_pid[pid]
    BY <1>1 DEF Reap, HandleExit, childVars
  <1>8. TableRunning' /\ TableInjective'
    BY <1>1, <1>5, <1>7 DEF Books, TableRunning, TableInjective, IsOurs
  <1> QED
    BY <1>2, <1>4, <1>6, <1>8 DEF Books, NothingStarted, TodoReady

\* Everything else leaves the pid table alone, and no program RUNNING or not.
LEMMA StepBooks ==
  ASSUME Books, [Next]_vars
  PROVE  Books'
PROOF
  <1>0. TypeOK'
    BY StepType DEF Books
  <1> DEFINE Same == UNCHANGED <<process, program, id_for_pid>>
  <1> USE DEF Books, FreeSlotsEmpty, PidTableFaithful, TableRunning, TableInjective,
              NothingStarted, TodoReady
  <1>1. ASSUME Same, UNCHANGED state, pc' # "register", pc' # "start" \/ UNCHANGED <<pc, todo>>
        PROVE  Books'
    BY <1>0, <1>1 DEF Supervised
  <1>2. ASSUME Same, UNCHANGED <<state, pc, todo>>
        PROVE  Books'
    BY <1>0, <1>2 DEF Supervised
  <1>3. ASSUME NEW p \in Procs, RegisterChild(p)
        PROVE  Books'
    <2>1. Same /\ pc = "register" /\ pc' = "register"
      BY <1>3 DEF RegisterChild, kernelVars, tables
    <2>2. \A q \in Procs : state'[q] = state[q] \/ state'[q] = "READY"
      BY <1>3 DEF RegisterChild, PropagateDependencies, TypeOK, ChildTypeOK
    <2>3. DOMAIN id_for_pid = {}
      BY <2>1 DEF TypeOK
    <2> QED
      BY <1>0, <2>1, <2>2, <2>3 DEF Supervised
  <1>4. ASSUME NEW p \in Procs, SkipDuplicateLogger(p) \/ DoForkThrows(p)
        PROVE  Books'
    BY <1>0, <1>4 DEF SkipDuplicateLogger, DoForkThrows, childVars, kernelVars, tables, Supervised
  <1>5. ASSUME NEW p \in Procs, Launch(p)
        PROVE  Books'
    BY <1>0, <1>5, LaunchBooks
  <1>6. ASSUME SetupSignalHandlers
        PROVE  Books'
    BY <1>1, <1>6 DEF SetupSignalHandlers, childVars, processVars, tables
  <1>7. ASSUME Notify
        PROVE  Books'
    <2>1. Same /\ pc = "notify" /\ pc' = "start"
      BY <1>7 DEF Notify, kernelVars, tables
    <2>2. \A q \in Procs : state[q] = "RUNNING" => state'[q] = "RUNNING"
      BY <1>7 DEF Notify, NotifyOfState, TypeOK, ChildTypeOK
    <2>3. \A q \in todo' : state'[q] = "READY"
      BY <1>7 DEF Notify, CanStartNow
    <2> QED
      BY <1>0, <2>1, <2>2, <2>3 DEF Supervised, TypeOK
  <1>8. ASSUME StartProgramsDone
        PROVE  Books'
    BY <1>1, <1>8 DEF StartProgramsDone, childVars, kernelVars, tables
  <1>9. ASSUME EpollWait
        PROVE  Books'
    BY <1>1, <1>9 DEF EpollWait, AfterWait, childVars, kernelVars, tables
  <1>10. ASSUME NEW pid \in Pids, Reap(pid)
         PROVE  Books'
    BY <1>0, <1>10, ReapBooks
  <1>11. ASSUME ReapDone \/ FatalCall \/ EventsDone \/ Decide
         PROVE  Books'
    BY <1>1, <1>11 DEF ReapDone, FatalCall, EventsDone, Decide, childVars, kernelVars, tables
  <1>12. ASSUME NEW e \in batch, HandleEvent(e)
         PROVE  Books'
    <2>1. UNCHANGED <<process, program, state, todo>>
      BY <1>12 DEF HandleEvent, childVars
    <2>2. UNCHANGED id_for_pid /\ pc = "events" /\ pc' \in {"events", "aborted"}
      BY <1>12 DEF HandleEvent, HandleSignal, HandleInput, HandleHangup
    <2> QED
      BY <1>1, <2>1, <2>2
  <1>13. ASSUME Environment
         PROVE  Books'
    <2>1. ASSUME NEW pid \in Pids, ChildExit(pid)
          PROVE  Books'
      <3>1. /\ UNCHANGED <<program, id_for_pid, state, pc, todo>>
            /\ \A i \in Pids : process'[i] = "free" <=> process[i] = "free"
        BY <2>1 DEF ChildExit, Exit, childVars, handlerVars, tables, TypeOK, KernelTypeOK
      <3> QED
        BY <1>0, <3>1 DEF Supervised
    <2>2. ASSUME NEW s \in OperatorSignals, OperatorSignal(s)
          PROVE  Books'
      BY <1>1, <1>2, <2>2 DEF OperatorSignal, SendSignal, childVars, tables, processVars
    <2>3. ASSUME NEW pid \in Pids, Adopt(pid), UNCHANGED <<childVars, handlerVars>>
          PROVE  Books'
      <3>1. /\ UNCHANGED <<program, id_for_pid, state, pc, todo>>
            /\ program[pid] = Orphan
            /\ \A i \in Pids \ {pid} : process'[i] = process[i]
            /\ process'[pid] = "alive"
        BY <2>3 DEF Adopt, childVars, handlerVars, tables, TypeOK, KernelTypeOK
      <3> QED
        BY <1>0, <3>1 DEF Supervised
    <2>4. ASSUME NEW fd \in ActiveFds, Write(fd) \/ CloseStream(fd), UNCHANGED <<childVars, handlerVars>>
          PROVE  Books'
      BY <1>2, <2>4 DEF Write, CloseStream, childVars, handlerVars, tables, processVars
    <2> QED
      BY <1>13, <2>1, <2>2, <2>3, <2>4 DEF Environment
  <1>14. ASSUME UNCHANGED vars
         PROVE  Books'
    BY <1>2, <1>14 DEF vars, childVars, kernelVars, handlerVars, tables
  <1> QED
    BY <1>3, <1>4, <1>5, <1>6, <1>7, <1>8, <1>9, <1>10, <1>11, <1>12, <1>13, <1>14
    DEF Next, Daemon, Halted

THEOREM BooksInvariant == Safety => []Books
PROOF
  <1>1. Books /\ [Next]_vars => Books'
    BY StepBooks
  <1> QED
    BY InitBooks, <1>1, PTL DEF Safety

\* id_for_pid is the kernel's table of supervised processes at every moment,
\* however pids are reused, orphans adopted and calls fail.
THEOREM PidTableCorrect == Safety => []PidTableFaithful
PROOF
  <1>1. Books => PidTableFaithful
    BY DEF Books
  <1> QED
    BY BooksInvariant, <1>1, PTL

\* One step moves a program's state along its life cycle or not at all.
LEMMA LifecycleStep ==
  ASSUME Books, Next, NEW p \in Procs, state'[p] # state[p]
  PROVE  <<state[p], state'[p]>> \in
           { <<"BLOCKED", "READY">>, <<"READY", "RUNNING">>,
             <<"RUNNING", "DONE">>, <<"RUNNING", "CRASHED">> }
PROOF
  <1>0. state \in [Procs -> ProcessState]
    BY DEF Books, TypeOK, ChildTypeOK
  <1>1. ASSUME NEW c \in Procs, RegisterChild(c)
        PROVE  state[p] = "BLOCKED" /\ state'[p] = "READY"
    <2>1. state[p] \in {"BLOCKED", "READY"}
      BY <1>1 DEF RegisterChild, Books, NothingStarted
    <2>2. state'[p] = "READY"
      BY <1>0, <1>1 DEF RegisterChild, PropagateDependencies
    <2> QED
      BY <2>1, <2>2
  <1>2. ASSUME Notify
        PROVE  state[p] = "BLOCKED" /\ state'[p] = "READY"
    BY <1>2 DEF Notify, NotifyOfState
  <1>3. ASSUME NEW q \in Procs, Launch(q)
        PROVE  state[p] = "READY" /\ state'[p] = "RUNNING"
    BY <1>0, <1>3 DEF Launch, DoFork, BecomeRunning, IsNext, Books, TodoReady
  <1>4. ASSUME NEW pid \in Pids, Reap(pid)
        PROVE  state[p] = "RUNNING" /\ state'[p] \in {"DONE", "CRASHED"}
    <2>1. IsOurs(pid)
      BY <1>4 DEF Reap, childVars
    <2>2. p = id_for_pid[pid] /\ state'[p] \in {"DONE", "CRASHED"}
      BY <1>0, <1>4, <2>1 DEF Reap, HandleExit, Outcome
    <2> QED
      BY <2>1, <2>2 DEF IsOurs, Books, TableRunning
  <1>5. ASSUME UNCHANGED childVars
        PROVE  FALSE
    BY <1>5 DEF childVars
  <1>6. ASSUME Environment \/ Halted
        PROVE  UNCHANGED childVars
    BY <1>6 DEF Environment, ChildExit, OperatorSignal, Halted, vars
  <1>7. ASSUME \/ \E q \in Procs : SkipDuplicateLogger(q) \/ DoForkThrows(q)
               \/ SetupSignalHandlers \/ StartProgramsDone \/ EpollWait
               \/ ReapDone \/ FatalCall \/ EventsDone \/ Decide \/ \E e \in batch : HandleEvent(e)
        PROVE  UNCHANGED childVars
    BY <1>7 DEF SkipDuplicateLogger, DoForkThrows, SetupSignalHandlers, StartProgramsDone,
                EpollWait, ReapDone, FatalCall, EventsDone, Decide, HandleEvent
  <1> QED
    BY <1>1, <1>2, <1>3, <1>4, <1>5, <1>6, <1>7 DEF Next, Daemon

\* Whatever fails, a program is started at most once and no exit status is
\* credited to a program that is not running.
THEOREM LifecycleCorrect == Safety => LifecycleOrder
PROOF
  <1> DEFINE Ordered == \A p \in Procs : state'[p] # state[p] =>
               <<state[p], state'[p]>> \in
                 { <<"BLOCKED", "READY">>, <<"READY", "RUNNING">>,
                   <<"RUNNING", "DONE">>, <<"RUNNING", "CRASHED">> }
  <1>1. Books /\ [Next]_vars => [Ordered]_vars
    BY LifecycleStep
  <1> QED
    BY BooksInvariant, <1>1, PTL DEF Safety, LifecycleOrder

-----------------------------------------------------------------------------
(* Part 2: counting, when fork() and epoll_ctl() succeed                    *)

Dependable == Failures \cap {"fork", "epoll_ctl"} = {}

RunningRecorded == \A p \in Procs : state[p] = "RUNNING" =>
                     \E pid \in DOMAIN id_for_pid : id_for_pid[pid] = p

Counted ==
  /\ Books
  /\ NoPid \notin DOMAIN id_for_pid
  /\ RunningRecorded
  /\ CountAgrees
  /\ ExitsLast
  /\ asked \subseteq Supervised

LEMMA SupervisedFinite == IsFiniteSet(Supervised) /\ Cardinality(Supervised) \in Nat
BY KernelAssumption, FS_Subset, FS_CardinalityType DEF Supervised

LEMMA InitCounted == Init => Counted
PROOF
  <1> SUFFICES ASSUME Init PROVE Counted
    OBVIOUS
  <1>1. Supervised = {} /\ DOMAIN id_for_pid = {} /\ asked = {}
    BY DEF Init, KernelInit, Supervised
  <1>2. CountAgrees
    BY <1>1, FS_EmptySet DEF CountAgrees, Init
  <1>3. RunningRecorded /\ ExitsLast
    BY DEF RunningRecorded, ExitsLast, Init, ChildInit
  <1> QED
    BY <1>1, <1>2, <1>3, InitBooks DEF Counted

LEMMA LaunchCounted ==
  ASSUME Dependable, Counted, Books', NEW p \in Procs, Launch(p)
  PROVE  Counted'
PROOF
  <1>1. PICK pid \in Pids : Spawn(pid, p) /\ Record(pid, p)
    BY DEF Launch, DoFork, Dependable
  <1>2. number_of_running_procs' = number_of_running_procs + 1
    BY DEF Launch, RegisterWithEpoll, Dependable
  <1>3. /\ process \in [Pids -> ProcessSlot]
        /\ program \in [Pids -> Procs \cup {Orphan}]
        /\ state \in [Procs -> ProcessState]
    BY DEF Counted, Books, TypeOK, ChildTypeOK, KernelTypeOK
  <1>4. /\ process[pid] = "free"
        /\ process' = [process EXCEPT ![pid] = "alive"]
        /\ program' = [program EXCEPT ![pid] = p]
        /\ id_for_pid' = Insert(id_for_pid, pid, p)
    BY <1>1 DEF Spawn, Record
  <1>5. Supervised' = Supervised \cup {pid} /\ pid \notin Supervised
    <2>1. p # Orphan
      BY ProgramsAssumption DEF Procs, Orphan
    <2> QED
      BY <1>3, <1>4, <2>1 DEF Supervised
  <1>6. CountAgrees'
    BY <1>2, <1>5, SupervisedFinite, FS_AddElement DEF Counted, CountAgrees
  <1>7. NoPid \notin DOMAIN id_for_pid'
    BY <1>4, KernelAssumption DEF Counted, Insert
  <1>8. RunningRecorded'
    <2>1. state' = [state EXCEPT ![p] = "RUNNING"]
      BY DEF Launch, DoFork, BecomeRunning
    <2>2. pid \notin DOMAIN id_for_pid
      BY <1>5, KernelAssumption DEF Counted, Books, PidTableFaithful
    <2>3. /\ pid \in DOMAIN id_for_pid' /\ id_for_pid'[pid] = p
          /\ \A i \in DOMAIN id_for_pid : i \in DOMAIN id_for_pid' /\ id_for_pid'[i] = id_for_pid[i]
      BY <1>4, <2>2 DEF Insert
    <2>4. \A q \in Procs : q # p /\ state'[q] = "RUNNING" => state[q] = "RUNNING"
      BY <1>3, <2>1
    <2> QED
      BY <2>3, <2>4 DEF Counted, RunningRecorded
  <1>9. ExitsLast' /\ UNCHANGED asked
    BY DEF Launch, ExitsLast
  <1> QED
    BY <1>5, <1>6, <1>7, <1>8, <1>9 DEF Counted

LEMMA ReapCounted ==
  ASSUME Counted, Books', NEW pid \in Pids, Reap(pid)
  PROVE  Counted'
PROOF
  <1>1. /\ process \in [Pids -> ProcessSlot]
        /\ program \in [Pids -> Procs \cup {Orphan}]
        /\ state \in [Procs -> ProcessState]
    BY DEF Counted, Books, TypeOK, ChildTypeOK, KernelTypeOK
  <1>2. /\ process' = [process EXCEPT ![pid] = "free"]
        /\ program' = [program EXCEPT ![pid] = Orphan]
        /\ asked' = asked \ {pid}
        /\ pc' = "reap"
    BY DEF Reap, Release
  <1>3. Supervised' = Supervised \ {pid}
    BY <1>1, <1>2 DEF Supervised
  <1>4. IsOurs(pid) <=> pid \in Supervised
    BY KernelAssumption DEF IsOurs, Counted, Books, PidTableFaithful
  <1>5. CountAgrees'
    <2>1. CASE pid \in Supervised
      <3>1. number_of_running_procs' = number_of_running_procs - 1
        BY <1>4, <2>1 DEF Reap, EndedPrograms
      <3> QED
        BY <1>3, <2>1, <3>1, SupervisedFinite, FS_RemoveElement DEF Counted, CountAgrees
    <2>2. CASE pid \notin Supervised
      <3>1. number_of_running_procs' = number_of_running_procs
        BY <1>4, <2>2 DEF Reap, EndedPrograms, Counted, Books, TypeOK
      <3> QED
        BY <1>3, <2>2, <3>1 DEF Counted, CountAgrees
    <2> QED
      BY <2>1, <2>2
  <1>6. /\ DOMAIN id_for_pid' = DOMAIN id_for_pid \ {pid}
        /\ \A i \in DOMAIN id_for_pid' : id_for_pid'[i] = id_for_pid[i]
    BY DEF Reap, Forget, Erase, IsOurs
  <1>7. RunningRecorded'
    <2>1. ASSUME NEW p \in Procs, state'[p] = "RUNNING"
          PROVE  state[p] = "RUNNING" /\ (IsOurs(pid) => p # id_for_pid[pid])
      BY <1>1, <2>1 DEF Reap, HandleExit, Outcome, childVars
    <2> QED
      BY <1>6, <2>1 DEF Counted, RunningRecorded, IsOurs
  <1> QED
    BY <1>2, <1>3, <1>5, <1>6, <1>7 DEF Counted, ExitsLast

LEMMA StepCounted ==
  ASSUME Dependable, Counted, [Next]_vars
  PROVE  Counted'
PROOF
  <1>0. Books'
    BY StepBooks DEF Counted
  <1> DEFINE Same == UNCHANGED <<process, program, id_for_pid, number_of_running_procs>>
  <1> USE DEF Counted, RunningRecorded, CountAgrees, ExitsLast
  <1>1. ASSUME Same, UNCHANGED <<asked, state>>, pc' = "returned" => Supervised = {}
        PROVE  Counted'
    BY <1>0, <1>1 DEF Supervised
  <1>2. number_of_running_procs = 0 => Supervised = {}
    BY SupervisedFinite, FS_EmptySet
  <1>3. ASSUME NEW p \in Procs, RegisterChild(p)
        PROVE  Counted'
    <2>1. Same /\ UNCHANGED asked /\ pc' = "register"
      BY <1>3 DEF RegisterChild, kernelVars, tables
    <2>2. \A q \in Procs : state'[q] = state[q] \/ state'[q] = "READY"
      BY <1>3 DEF RegisterChild, PropagateDependencies, Books, TypeOK, ChildTypeOK
    <2> QED
      BY <1>0, <2>1, <2>2 DEF Supervised
  <1>4. ASSUME NEW p \in Procs, SkipDuplicateLogger(p) \/ DoForkThrows(p)
        PROVE  Counted'
    BY <1>1, <1>4 DEF SkipDuplicateLogger, DoForkThrows, childVars, kernelVars, tables
  <1>5. ASSUME NEW p \in Procs, Launch(p)
        PROVE  Counted'
    BY <1>0, <1>5, LaunchCounted
  <1>6. ASSUME SetupSignalHandlers
        PROVE  Counted'
    BY <1>1, <1>6 DEF SetupSignalHandlers, childVars, processVars, tables
  <1>7. ASSUME Notify
        PROVE  Counted'
    <2>1. Same /\ UNCHANGED asked /\ pc' = "start"
      BY <1>7 DEF Notify, kernelVars, tables
    <2>2. \A q \in Procs : state'[q] = state[q] \/ state'[q] = "READY"
      BY <1>7 DEF Notify, NotifyOfState
    <2> QED
      BY <1>0, <2>1, <2>2 DEF Supervised
  <1>8. ASSUME StartProgramsDone
        PROVE  Counted'
    BY <1>1, <1>2, <1>8 DEF StartProgramsDone, childVars, kernelVars, tables
  <1>9. ASSUME EpollWait
        PROVE  Counted'
    BY <1>1, <1>9 DEF EpollWait, AfterWait, childVars, kernelVars, tables
  <1>10. ASSUME NEW pid \in Pids, Reap(pid)
         PROVE  Counted'
    BY <1>0, <1>10, ReapCounted
  <1>11. ASSUME ReapDone \/ FatalCall \/ EventsDone
         PROVE  Counted'
    BY <1>1, <1>11 DEF ReapDone, FatalCall, EventsDone, childVars, kernelVars, tables
  <1>12. ASSUME Decide
         PROVE  Counted'
    BY <1>1, <1>2, <1>12 DEF Decide, MayQuit, childVars, kernelVars, tables
  <1>13. ASSUME NEW e \in batch, HandleEvent(e)
         PROVE  Counted'
    <2>1. UNCHANGED <<process, program, state, number_of_running_procs>>
      BY <1>13 DEF HandleEvent, childVars
    <2>2. UNCHANGED id_for_pid /\ pc' # "returned"
      BY <1>13 DEF HandleEvent, HandleSignal, HandleInput, HandleHangup
    <2>3. asked' \subseteq Supervised
      <3>1. DOMAIN id_for_pid = Supervised
        BY DEF Books, PidTableFaithful
      <3>2. CASE UNCHANGED asked
        BY <3>2
      <3>3. CASE \E s \in pending : HandleSignal(s)
        BY <3>1, <3>3 DEF HandleSignal, Kill
      <3> QED
        BY <1>13, <3>2, <3>3 DEF HandleEvent, HandleInput, HandleHangup
    <2> QED
      BY <1>0, <2>1, <2>2, <2>3 DEF Supervised
  <1>14. ASSUME Environment
         PROVE  Counted'
    <2>1. ASSUME NEW pid \in Pids, ChildExit(pid)
          PROVE  Counted'
      <3>1. /\ UNCHANGED <<program, id_for_pid, number_of_running_procs, state, pc, asked>>
            /\ \A i \in Pids : process'[i] = "free" <=> process[i] = "free"
        BY <2>1 DEF ChildExit, Exit, childVars, handlerVars, tables, Books, TypeOK, KernelTypeOK
      <3>2. Supervised' = Supervised
        BY <3>1 DEF Supervised
      <3> QED
        BY <1>0, <3>1, <3>2
    <2>2. ASSUME NEW s \in OperatorSignals, OperatorSignal(s)
          PROVE  Counted'
      BY <1>1, <2>2 DEF OperatorSignal, SendSignal, childVars, tables, processVars
    <2>3. ASSUME NEW pid \in Pids, Adopt(pid), UNCHANGED <<childVars, handlerVars>>
          PROVE  Counted'
      <3>1. /\ UNCHANGED <<program, id_for_pid, number_of_running_procs, state, pc, asked>>
            /\ program[pid] = Orphan
            /\ \A i \in Pids \ {pid} : process'[i] = process[i]
        BY <2>3 DEF Adopt, childVars, handlerVars, tables, Books, FreeSlotsEmpty, TypeOK, KernelTypeOK
      <3>2. Supervised' = Supervised
        BY <3>1 DEF Supervised
      <3> QED
        BY <1>0, <3>1, <3>2
    <2>4. ASSUME NEW fd \in ActiveFds, Write(fd) \/ CloseStream(fd), UNCHANGED <<childVars, handlerVars>>
          PROVE  Counted'
      BY <1>1, <2>4 DEF Write, CloseStream, childVars, handlerVars, tables, processVars
    <2> QED
      BY <1>14, <2>1, <2>2, <2>3, <2>4 DEF Environment
  <1>15. ASSUME UNCHANGED vars
         PROVE  Counted'
    BY <1>1, <1>15 DEF vars, childVars, kernelVars, handlerVars, tables
  <1> QED
    BY <1>3, <1>4, <1>5, <1>6, <1>7, <1>8, <1>9, <1>10, <1>11, <1>12, <1>13, <1>14, <1>15
    DEF Next, Daemon, Halted

THEOREM CountedInvariant == ASSUME Dependable PROVE Safety => []Counted
PROOF
  <1>1. Counted /\ [Next]_vars => Counted'
    BY StepCounted
  <1> QED
    BY InitCounted, <1>1, PTL DEF Safety

\* number_of_running_procs, raised in start_programs and lowered in
\* sigchld_received, is the number of children not yet reaped.
THEOREM CountCorrect == ASSUME Dependable PROVE Safety => []CountAgrees
PROOF
  <1>1. Counted => CountAgrees
    BY DEF Counted
  <1> QED
    BY CountedInvariant, <1>1, PTL

\* The event loop's two exits are taken only when no child is left.
THEOREM ExitsLastCorrect == ASSUME Dependable PROVE Safety => []ExitsLast
PROOF
  <1>1. Counted => ExitsLast
    BY DEF Counted
  <1> QED
    BY CountedInvariant, <1>1, PTL

\* A RUNNING program is executed by one process, and every process of a
\* program belongs to a RUNNING one.
THEOREM RunningCorrect == ASSUME Dependable PROVE Safety => []RunningHasProcess
PROOF
  <1>1. Counted => RunningHasProcess
    BY DEF Counted, Books, PidTableFaithful, TableRunning, TableInjective,
           RunningRecorded, RunningHasProcess
  <1> QED
    BY CountedInvariant, <1>1, PTL

\* Forwarded signals reach no process but the daemon's own children.
THEOREM SignalsCorrect == ASSUME Dependable PROVE Safety => []SignalsReachOnlyChildren
PROOF
  <1>1. Counted => SignalsReachOnlyChildren
    BY DEF Counted, Supervised, SignalsReachOnlyChildren
  <1> QED
    BY CountedInvariant, <1>1, PTL

=============================================================================
