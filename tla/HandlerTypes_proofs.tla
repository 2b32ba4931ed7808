------------------------ MODULE HandlerTypes_proofs ------------------------
(***************************************************************************)
(* Type correctness of the supervisor, for every configuration, every set  *)
(* of failing calls and every value of the bounds.                         *)
(***************************************************************************)
EXTENDS HandlerProperties, TLAPS

USE DEF ProcessSlot, ProcessState, ProcessType, Orphan, NoPid, Streams, ChildFds, Fds, Down

-----------------------------------------------------------------------------
(* Helpers                                                                  *)

\* Unsigned decrement stays in the range of the counter.
LEMMA DecrementType ==
  ASSUME NEW n \in 0 .. UintRange - 1
  PROVE  Decremented(n) \in 0 .. UintRange - 1
BY ProcessHandlerAssumption DEF Decremented

\* The queued conditions are conditions.
LEMMA ConditionsType ==
  ASSUME NEW known \in SUBSET Condition, NEW new \in SUBSET Condition
  PROVE  AddConditions(known, new) \in SUBSET Condition
BY DEF AddConditions

-----------------------------------------------------------------------------
(* The methods of ChildProcess                                              *)

\* propagate_dependencies keeps the child objects well formed.
LEMMA PropagateType ==
  ASSUME ChildTypeOK, NEW c \in Procs, PropagateDependencies(c)
  PROVE  ChildTypeOK'
PROOF
  <1> DEFINE wait(q) == [id |-> q, state |-> TargetState(c)]
             pushed  == [p \in Procs |->
                           IF config.name[p] \in config.before[c]
                             THEN AddConditions(conditions[p], {wait(c)})
                             ELSE conditions[p]]
             named   == {q \in Procs : config.name[q] \in config.after[c]}
             own     == AddConditions(pushed[c], {wait(q) : q \in named})
  <1>1. \A q \in Procs : wait(q) \in Condition
    BY DEF Condition, TargetState
  <1>2. pushed \in [Procs -> SUBSET Condition]
    <2>1. \A p \in Procs : conditions[p] \in SUBSET Condition
      BY DEF ChildTypeOK
    <2>2. {wait(c)} \in SUBSET Condition
      BY <1>1
    <2> QED
      BY <2>1, <2>2, ConditionsType
  <1>3. own \in SUBSET Condition
    <2>1. {wait(q) : q \in named} \in SUBSET Condition
      BY <1>1
    <2>2. pushed[c] \in SUBSET Condition
      BY <1>2
    <2> HIDE DEF pushed, named, wait
    <2> QED
      BY <2>1, <2>2, ConditionsType
  <1>4. /\ conditions' = [pushed EXCEPT ![c] = own]
        /\ state' = [state EXCEPT ![c] = IF own = {} THEN "READY" ELSE @]
        /\ UNCHANGED config
    BY DEF PropagateDependencies
  <1> HIDE DEF pushed, own, named, wait
  <1> QED
    BY <1>2, <1>3, <1>4 DEF ChildTypeOK

\* So do notify_of_state, do_fork's assignment and handle_process_event.
LEMMA NotifyType ==
  ASSUME ChildTypeOK, NotifyOfState
  PROVE  ChildTypeOK'
BY DEF ChildTypeOK, NotifyOfState

LEMMA BecomeRunningType ==
  ASSUME ChildTypeOK, NEW p \in Procs, BecomeRunning(p)
  PROVE  ChildTypeOK'
BY DEF ChildTypeOK, BecomeRunning

LEMMA HandleExitType ==
  ASSUME ChildTypeOK, NEW p \in Procs, NEW data, HandleExit(p, data)
  PROVE  ChildTypeOK'
BY DEF ChildTypeOK, HandleExit, Outcome

-----------------------------------------------------------------------------
(* Type correctness                                                         *)

LEMMA InitType == Init => TypeOK
PROOF
  <1> SUFFICES ASSUME Init PROVE TypeOK
    OBVIOUS
  <1>1. ChildTypeOK
    BY DEF Init, ChildInit, ChildTypeOK
  <1>2. KernelTypeOK
    BY KernelAssumption DEF Init, KernelInit, KernelTypeOK
  <1>3. num_fd_for_id \in [Procs -> 0 .. UintRange - 1]
    BY ProcessHandlerAssumption DEF Init
  <1>4. DOMAIN id_for_pid = {} /\ DOMAIN id_for_fd = {}
    BY DEF Init
  <1>5. should_quit \in BOOLEAN
    BY DEF Init
  <1> QED
    BY <1>1, <1>2, <1>3, <1>4, <1>5 DEF Init, TypeOK, FirstCall

LEMMA StepType ==
  ASSUME TypeOK, [Next]_vars
  PROVE  TypeOK'
PROOF
  <1> USE KernelAssumption, ProcessHandlerAssumption
  <1>1. ASSUME NEW p \in Procs, RegisterChild(p)
        PROVE  TypeOK'
    BY <1>1, PropagateType DEF TypeOK, KernelTypeOK, RegisterChild, kernelVars, streamVars, tables, fdTables
  <1>2. ASSUME NEW p \in Procs, SkipDuplicateLogger(p)
        PROVE  TypeOK'
    BY <1>2 DEF TypeOK, ChildTypeOK, KernelTypeOK, SkipDuplicateLogger, childVars, kernelVars, tables, fdTables
  <1>3. ASSUME NEW p \in Procs, DoForkThrows(p)
        PROVE  TypeOK'
    <2>1. config.name[p] \in Names
      BY ProgramsAssumption DEF TypeOK, ChildTypeOK, Configuration
    <2> QED
      BY <1>3, <2>1 DEF TypeOK, ChildTypeOK, KernelTypeOK, DoForkThrows, childVars, kernelVars, tables, fdTables
  <1>4. ASSUME NEW p \in Procs, Launch(p)
        PROVE  TypeOK'
    <2>1. ChildTypeOK'
      BY <1>4, BecomeRunningType DEF TypeOK, Launch, DoFork
    <2>2. KernelTypeOK'
      BY <1>4 DEF TypeOK, KernelTypeOK, Launch, DoFork, RegisterWithEpoll, Spawn, StreamsOf
    <2>3. /\ DOMAIN id_for_pid' \subseteq Pids \cup {NoPid}
          /\ \A pid \in DOMAIN id_for_pid' : id_for_pid'[pid] \in Procs
      <3>1. PICK pid \in Pids \cup {NoPid} : id_for_pid' = Insert(id_for_pid, pid, p)
        BY <1>4 DEF Launch, DoFork, Record
      <3> QED
        BY <3>1 DEF TypeOK, Insert
    <2>4. /\ DOMAIN id_for_fd' \subseteq ChildFds
          /\ \A fd \in DOMAIN id_for_fd' : id_for_fd'[fd] \in Procs
      <3>1. CASE UNCHANGED id_for_fd
        BY <3>1 DEF TypeOK
      <3>2. CASE id_for_fd' = Insert(Insert(id_for_fd, <<p, "STDOUT">>, p), <<p, "STDERR">>, p)
        <4> DEFINE one == Insert(id_for_fd, <<p, "STDOUT">>, p)
        <4>1. /\ DOMAIN one \subseteq ChildFds
              /\ \A fd \in DOMAIN one : one[fd] \in Procs
          BY DEF TypeOK, Insert
        <4> HIDE DEF one
        <4>2. id_for_fd' = Insert(one, <<p, "STDERR">>, p)
          BY <3>2 DEF one
        <4> QED
          BY <4>1, <4>2 DEF Insert
      <3> QED
        BY <1>4, <3>1, <3>2 DEF Launch, RegisterWithEpoll, fdTables
    <2>5. num_fd_for_id' \in [Procs -> 0 .. UintRange - 1]
      BY <1>4 DEF TypeOK, Launch, RegisterWithEpoll, fdTables
    <2>6. number_of_running_procs' \in Int
      BY <1>4 DEF TypeOK, Launch, RegisterWithEpoll
    <2>7. loggers' \subseteq Names \cup {DaemonLogger}
      BY <1>4, ProgramsAssumption DEF TypeOK, ChildTypeOK, Launch, Configuration
    <2> QED
      BY <1>4, <2>1, <2>2, <2>3, <2>4, <2>5, <2>6, <2>7 DEF TypeOK, Launch
  <1>5. ASSUME SetupSignalHandlers
        PROVE  TypeOK'
    BY <1>5 DEF TypeOK, ChildTypeOK, KernelTypeOK, SetupSignalHandlers, childVars, processVars, streamVars, tables, fdTables
  <1>6. ASSUME Notify
        PROVE  TypeOK'
    BY <1>6, NotifyType DEF TypeOK, KernelTypeOK, Notify, kernelVars, tables, fdTables
  <1>7. ASSUME StartProgramsDone
        PROVE  TypeOK'
    BY <1>7 DEF TypeOK, ChildTypeOK, KernelTypeOK, StartProgramsDone, childVars, kernelVars, tables, fdTables
  <1>8. ASSUME EpollWait
        PROVE  TypeOK'
    <2>1. ReadyEvents \subseteq [fd : Fds, in : BOOLEAN, hup : BOOLEAN]
      <3>1. \A fd \in interest : fd \in Fds
        BY DEF TypeOK, KernelTypeOK
      <3>2. \A fd : Readable(fd) \in BOOLEAN
        BY DEF Readable
      <3>3. \A fd : HungUp(fd) \in BOOLEAN
        BY DEF HungUp
      <3> QED
        BY <3>1, <3>2, <3>3 DEF ReadyEvents
    <2>2. batch' \subseteq ReadyEvents /\ pc' = "reap"
      BY <1>8 DEF EpollWait, AfterWait
    <2> QED
      BY <1>8, <2>1, <2>2 DEF TypeOK, ChildTypeOK, KernelTypeOK, EpollWait, childVars, kernelVars, tables, fdTables
  <1>9. ASSUME NEW pid \in Pids, Reap(pid)
        PROVE  TypeOK'
    <2>1. ChildTypeOK'
      <3>1. CASE IsOurs(pid)
        BY <1>9, <3>1, HandleExitType DEF TypeOK, Reap, IsOurs
      <3>2. CASE ~IsOurs(pid)
        BY <1>9, <3>2 DEF TypeOK, ChildTypeOK, Reap, childVars
      <3> QED
        BY <3>1, <3>2
    <2>2. KernelTypeOK'
      BY <1>9 DEF TypeOK, KernelTypeOK, Reap, Release, streamVars
    <2>3. /\ DOMAIN id_for_pid' \subseteq Pids \cup {NoPid}
          /\ \A q \in DOMAIN id_for_pid' : id_for_pid'[q] \in Procs
      BY <1>9 DEF TypeOK, Reap, Forget, Erase
    <2>4. number_of_running_procs' \in Int
      BY <1>9 DEF TypeOK, Reap, EndedPrograms
    <2> QED
      BY <1>9, <2>1, <2>2, <2>3, <2>4 DEF TypeOK, Reap, fdTables
  <1>10. ASSUME ReapDone
         PROVE  TypeOK'
    BY <1>10 DEF TypeOK, ChildTypeOK, KernelTypeOK, ReapDone, childVars, kernelVars, tables, fdTables
  <1>11. ASSUME NEW e \in batch, HandleEvent(e)
         PROVE  TypeOK'
    <2> DEFINE Same == UNCHANGED <<childVars, process, program, adopted, sent, writable,
                                   site, todo, loggers, number_of_running_procs>>
    <2>0. Same /\ batch' \subseteq batch /\ e \in [fd : Fds, in : BOOLEAN, hup : BOOLEAN]
      BY <1>11 DEF HandleEvent, TypeOK
    <2>1. CASE \E s \in pending : HandleSignal(s)
      <3>1. asked' \subseteq Pids
        BY <2>1 DEF TypeOK, KernelTypeOK, HandleSignal, Kill
      <3>2. pending' \subseteq pending
        BY <2>1 DEF HandleSignal
      <3>3. should_quit' \in BOOLEAN
        BY <2>1, Zenon DEF TypeOK, HandleSignal
      <3>4. UNCHANGED <<unread, interest, pc, id_for_pid, fdTables>>
        BY <2>1 DEF HandleSignal
      <3> QED
        BY <2>0, <3>1, <3>2, <3>3, <3>4 DEF TypeOK, ChildTypeOK, KernelTypeOK, childVars, fdTables
    <2>2. CASE e.fd # SignalFd /\ HandleInput(e.fd)
      <3>1. unread' \in [ChildFds -> 0 .. MaxUnread]
        BY <2>0, <2>2 DEF TypeOK, KernelTypeOK, HandleInput
      <3> QED
        BY <2>0, <2>2, <3>1 DEF TypeOK, ChildTypeOK, KernelTypeOK, HandleInput, childVars, fdTables
    <2>3. CASE HandleHangup(e.fd)
      <3>1. num_fd_for_id' \in [Procs -> 0 .. UintRange - 1]
        BY <2>3, DecrementType DEF TypeOK, HandleHangup
      <3>2. /\ DOMAIN id_for_fd' \subseteq ChildFds
            /\ \A fd \in DOMAIN id_for_fd' : id_for_fd'[fd] \in Procs
        BY <2>3 DEF TypeOK, HandleHangup, DropStream, Erase
      <3>3. interest' \subseteq Fds
        BY <2>3 DEF TypeOK, KernelTypeOK, HandleHangup
      <3>4. UNCHANGED <<asked, pending, unread, pc, id_for_pid, should_quit>>
        BY <2>3 DEF HandleHangup
      <3> QED
        BY <2>0, <3>1, <3>2, <3>3, <3>4 DEF TypeOK, ChildTypeOK, KernelTypeOK, childVars
    <2> QED
      BY <1>11, <2>1, <2>2, <2>3 DEF HandleEvent
  <1>12. ASSUME FatalCall \/ EventsDone
         PROVE  TypeOK'
    <2>1. UNCHANGED <<childVars, kernelVars, todo, batch, tables>>
      BY <1>12 DEF FatalCall, EventsDone
    <2>2. pc' \in {"decide"} \cup Down /\ UNCHANGED site
      BY <1>12 DEF FatalCall, EventsDone
    <2> QED
      BY <2>1, <2>2 DEF TypeOK, ChildTypeOK, KernelTypeOK, childVars, kernelVars, tables, fdTables
  <1>13. ASSUME Decide
         PROVE  TypeOK'
    BY <1>13 DEF TypeOK, ChildTypeOK, KernelTypeOK, Decide, childVars, kernelVars, tables, fdTables
  <1>14. ASSUME Environment
         PROVE  TypeOK'
    <2>1. ASSUME NEW pid \in Pids, ChildExit(pid)
          PROVE  TypeOK'
      BY <2>1 DEF TypeOK, ChildTypeOK, KernelTypeOK, ChildExit, Exit, Blocked, childVars, handlerVars, tables, fdTables, streamVars
    <2>2. ASSUME NEW s \in OperatorSignals, OperatorSignal(s)
          PROVE  TypeOK'
      BY <2>2 DEF TypeOK, ChildTypeOK, KernelTypeOK, OperatorSignal, SendSignal, Blocked, childVars, tables, fdTables, processVars, streamVars
    <2>3. ASSUME NEW pid \in Pids, Adopt(pid), UNCHANGED <<childVars, handlerVars>>
          PROVE  TypeOK'
      BY <2>3 DEF TypeOK, ChildTypeOK, KernelTypeOK, Adopt, childVars, handlerVars, tables, fdTables, streamVars
    <2>4. ASSUME NEW fd \in ActiveFds, Write(fd) \/ CloseStream(fd), UNCHANGED <<childVars, handlerVars>>
          PROVE  TypeOK'
      <3>1. unread' \in [ChildFds -> 0 .. MaxUnread] /\ writable' \subseteq ChildFds
        <4>1. /\ MaxUnread \in Nat
              /\ unread \in [ChildFds -> 0 .. MaxUnread] /\ writable \subseteq ChildFds
          BY KernelAssumption DEF TypeOK, KernelTypeOK
        <4>2. CASE Write(fd)
          <5>1. /\ unread[fd] < MaxUnread /\ fd \in ChildFds
                /\ unread' = [unread EXCEPT ![fd] = unread[fd] + 1]
            BY <4>1, <4>2 DEF Write
          <5>2. unread[fd] + 1 \in 0 .. MaxUnread
            BY <4>1, <5>1
          <5> QED
            BY <4>1, <4>2, <5>1, <5>2 DEF Write
        <4>3. CASE CloseStream(fd)
          BY <4>1, <4>3 DEF CloseStream
        <4> QED
          BY <2>4, <4>2, <4>3
      <3>2. UNCHANGED <<processVars, adopted, pending, sent, interest>>
        BY <2>4 DEF Write, CloseStream
      <3> QED
        BY <2>4, <3>1, <3>2 DEF TypeOK, ChildTypeOK, KernelTypeOK, childVars, handlerVars, tables, fdTables, processVars
    <2> QED
      BY <1>14, <2>1, <2>2, <2>3, <2>4 DEF Environment
  <1>15. ASSUME UNCHANGED vars
         PROVE  TypeOK'
    BY <1>15 DEF TypeOK, ChildTypeOK, KernelTypeOK, vars, childVars, kernelVars, handlerVars, tables, fdTables
  <1> QED
    BY <1>1, <1>2, <1>3, <1>4, <1>5, <1>6, <1>7, <1>8, <1>9, <1>10, <1>11, <1>12, <1>13,
       <1>14, <1>15 DEF Next, Daemon, Halted

\* Whatever the configuration, the environment and the failing calls are,
\* every variable of the supervisor and the kernel keeps its type; unsigned
\* counters wrap instead of going below zero.
THEOREM TypeCorrect == Safety => []TypeOK
PROOF
  <1>1. TypeOK /\ [Next]_vars => TypeOK'
    BY StepType
  <1> QED
    BY InitType, <1>1, PTL DEF Safety

=============================================================================
