------------------------ MODULE HandlerOrder_proofs ------------------------
(***************************************************************************)
(* When programs are started: nothing that can start is left behind when   *)
(* the daemon returns, and for the configurations the code honours the     *)
(* declared order is kept and the event loop implements the abstract       *)
(* supervisor.                                                             *)
(***************************************************************************)
EXTENDS HandlerSafety_proofs, HandlerStreams_proofs

USE DEF ProcessSlot, ProcessState, ProcessType, Orphan, NoPid, Down

-----------------------------------------------------------------------------
(* Part 1: nothing that can start is left behind                            *)

\* Within start_programs a READY program is still to be visited, or was and
\* its logger's name is taken; while nothing runs, no BLOCKED one could have
\* been made READY.
ReadyVisited == pc = "start" => \A p \in Procs : state[p] = "READY" =>
                                  p \in todo \/ config.name[p] \in loggers
BlockedWaits == pc = "start" /\ number_of_running_procs = 0 =>
                  \A p \in Procs : state[p] = "BLOCKED" => ~Fulfilled(p)

Startable == Counted /\ ReadyVisited /\ BlockedWaits /\ NoStartableLeftBehind

LEMMA InitStartable == Init => Startable
BY InitCounted DEF Init, Startable, ReadyVisited, BlockedWaits, NoStartableLeftBehind

\* A condition waits for RUNNING or DONE, which notify_of_state never assigns:
\* it changes no condition's truth.
LEMMA NotifyFulfilled ==
  ASSUME TypeOK, NotifyOfState, NEW p \in Procs
  PROVE  /\ Fulfilled(p)' <=> Fulfilled(p)
         /\ \A q \in Procs : state[q] \in {"RUNNING", "DONE"} => state'[q] = state[q]
PROOF
  <1>1. \A k \in conditions[p] : k.id \in Procs /\ k.state \in {"RUNNING", "DONE"}
    BY DEF TypeOK, ChildTypeOK, Condition
  <1>2. \A q \in Procs : state'[q] # state[q] => state[q] = "BLOCKED" /\ state'[q] = "READY"
    BY DEF NotifyOfState
  <1>3. conditions' = conditions
    BY DEF NotifyOfState
  <1> QED
    BY <1>1, <1>2, <1>3 DEF Fulfilled

\* The steps that change no program and no name, and do not enter
\* start_programs: they may leave it only for good reasons.
LEMMA QuietStartable ==
  ASSUME Startable, Counted', UNCHANGED childVars, UNCHANGED loggers,
         should_quit => should_quit',
         \/ pc' \notin {"start", "returned"}
         \/ pc' = pc /\ UNCHANGED <<todo, number_of_running_procs>>
         \/ pc' = "returned" /\ should_quit'
  PROVE  Startable'
PROOF
  <1>1. UNCHANGED <<config, state, conditions>>
    BY DEF childVars
  <1>2. \A p \in Procs : Fulfilled(p)' <=> Fulfilled(p)
    BY <1>1 DEF Fulfilled
  <1> QED
    BY <1>1, <1>2 DEF Startable, ReadyVisited, BlockedWaits, NoStartableLeftBehind

LEMMA StepStartable ==
  ASSUME Dependable, Startable, [Next]_vars
  PROVE  Startable'
PROOF
  <1>0. Counted' /\ TypeOK
    BY StepCounted DEF Startable, Counted, Books
  <1> USE <1>0
  <1>1. ASSUME NEW p \in Procs, RegisterChild(p)
        PROVE  Startable'
    BY <1>1 DEF RegisterChild, Startable, ReadyVisited, BlockedWaits, NoStartableLeftBehind
  <1>2. ASSUME NEW p \in Procs, SkipDuplicateLogger(p) \/ DoForkThrows(p)
        PROVE  Startable'
    <2>1. /\ pc = "start" /\ pc' = "start" /\ todo' = todo \ {p}
          /\ config.name[p] \in loggers' /\ loggers \subseteq loggers'
          /\ UNCHANGED <<config, state, conditions, number_of_running_procs>>
      BY <1>2 DEF SkipDuplicateLogger, DoForkThrows, childVars, tables
    <2>2. \A q \in Procs : Fulfilled(q)' <=> Fulfilled(q)
      BY <2>1 DEF Fulfilled
    <2> QED
      BY <2>1, <2>2 DEF Startable, ReadyVisited, BlockedWaits, NoStartableLeftBehind
  <1>3. ASSUME NEW p \in Procs, Launch(p)
        PROVE  Startable'
    <2>1. /\ pc = "start" /\ pc' = "start" /\ todo' = todo \ {p}
          /\ config.name[p] \in loggers' /\ loggers \subseteq loggers'
          /\ UNCHANGED config
          /\ number_of_running_procs' = number_of_running_procs + 1
      BY <1>3 DEF Launch, DoFork, BecomeRunning, RegisterWithEpoll, Dependable
    <2>2. number_of_running_procs' # 0
      BY <2>1, SupervisedFinite DEF Startable, Counted, CountAgrees
    <2>3. \A q \in Procs \ {p} : state'[q] = state[q]
      BY <1>3 DEF Launch, DoFork, BecomeRunning, TypeOK, ChildTypeOK
    <2> QED
      BY <2>1, <2>2, <2>3 DEF Startable, ReadyVisited, BlockedWaits, NoStartableLeftBehind
  <1>4. ASSUME Notify
        PROVE  Startable'
    <2>1. pc' = "start" /\ NotifyOfState /\ todo' = {p \in Procs : CanStartNow(p)'}
      BY <1>4 DEF Notify
    <2>2. ReadyVisited'
      BY <2>1 DEF ReadyVisited, CanStartNow
    <2>3. BlockedWaits'
      <3>1. \A p \in Procs : state'[p] = "BLOCKED" => state[p] = "BLOCKED" /\ ~Fulfilled(p)
        BY <2>1 DEF NotifyOfState
      <3> QED
        BY <2>1, <3>1, NotifyFulfilled DEF BlockedWaits
    <2> QED
      BY <2>1, <2>2, <2>3 DEF Startable, NoStartableLeftBehind
  <1>5. ASSUME StartProgramsDone
        PROVE  Startable'
    <2>1. UNCHANGED <<childVars, loggers, should_quit>>
      BY <1>5 DEF StartProgramsDone, tables
    <2>2. CASE pc' # "returned"
      <3>1. pc' \in {"notify", "wait"}
        BY <1>5, <2>2 DEF StartProgramsDone
      <3> QED
        BY <2>1, <3>1, QuietStartable
    <2>3. CASE pc' = "returned"
      <3>1. pc = "start" /\ todo = {} /\ number_of_running_procs = 0
        BY <1>5, <2>3 DEF StartProgramsDone
      <3>2. UNCHANGED <<config, state, conditions, loggers>>
        BY <2>1 DEF childVars
      <3>3. NoStartableLeftBehind'
        BY <3>1, <3>2 DEF Startable, ReadyVisited, BlockedWaits, NoStartableLeftBehind, Fulfilled
      <3> QED
        BY <2>3, <3>3 DEF Startable, ReadyVisited, BlockedWaits
    <2> QED
      BY <2>2, <2>3
  <1>6. ASSUME \/ SetupSignalHandlers \/ EpollWait \/ ReapDone \/ FatalCall \/ EventsDone \/ Decide
        PROVE  Startable'
    BY <1>6, QuietStartable DEF SetupSignalHandlers, EpollWait, AfterWait, ReapDone, FatalCall, EventsDone,
                                Decide, MayQuit, tables
  <1>7. ASSUME NEW pid \in Pids, Reap(pid)
        PROVE  Startable'
    BY <1>7 DEF Reap, Startable, ReadyVisited, BlockedWaits, NoStartableLeftBehind
  <1>8. ASSUME NEW e \in batch, HandleEvent(e)
        PROVE  Startable'
    <2>1. UNCHANGED <<childVars, loggers>> /\ pc' \in {"events", "aborted"}
      BY <1>8 DEF HandleEvent, HandleSignal, HandleInput, HandleHangup
    <2>2. should_quit => should_quit'
      BY <1>8 DEF HandleEvent, HandleSignal, HandleInput, HandleHangup
    <2> QED
      BY <2>1, <2>2, QuietStartable
  <1>9. ASSUME Environment
        PROVE  Startable'
    BY <1>9, QuietStartable DEF Environment, ChildExit, OperatorSignal, handlerVars, tables
  <1>10. ASSUME UNCHANGED vars
         PROVE  Startable'
    BY <1>10, QuietStartable DEF vars, handlerVars, tables
  <1> QED
    BY <1>1, <1>2, <1>3, <1>4, <1>5, <1>6, <1>7, <1>8, <1>9, <1>10 DEF Next, Daemon, Halted

THEOREM StartableInvariant == ASSUME Dependable PROVE Safety => []Startable
PROOF
  <1>1. Startable /\ [Next]_vars => Startable'
    BY StepStartable
  <1> QED
    BY InitStartable, <1>1, PTL DEF Safety

\* The daemon does not return for want of work before it has tried to start
\* every program that could be started, the ones the last exit unblocked
\* included.
THEOREM NothingLeftBehind == ASSUME Dependable PROVE Safety => []NoStartableLeftBehind
PROOF
  <1>1. Startable => NoStartableLeftBehind
    BY DEF Startable
  <1> QED
    BY StartableInvariant, <1>1, PTL

-----------------------------------------------------------------------------
(* Part 2: the declared order, for the configurations the code honours      *)

HonouredConfigs == \A c \in Configs : Honoured(c)

\* The programs register_processes has still to visit (a daemon that is gone
\* may have left some).
Unregistered == IF pc \in {"register"} \cup Down THEN todo ELSE {}

\* The programs p has a condition on.
Awaited(p) == {k.id : k \in conditions[p]}

\* Every condition waits for what makes its program count as started, every
\* declaration of a visited program became a condition, and a program is
\* READY without conditions only if nothing has to come before it.
ConditionsRight == \A p \in Procs : \A k \in conditions[p] : k.state = TargetState(k.id)
Propagated ==
  \A q \in Procs \ Unregistered :
    /\ \A p \in Procs : config.name[p] \in config.before[q] => q \in Awaited(p)
    /\ \A p \in Procs : config.name[p] \in config.after[q] => p \in Awaited(q)
VisitedInOrder == pc = "register" => \A p \in todo, q \in Procs \ todo : q < p

\* A READY program that will be launched has everything it needs.
ReadyInOrder ==
  \A p \in Procs : state[p] = "READY" =>
    \/ Abstract!Needs(p) = {}
    \/ config.name[p] \in loggers
    \/ pc = "start" /\ p \in todo /\ \A q \in Abstract!Needs(p) : Started(q)
    \/ pc \in Down

Ordered == Books /\ ConditionsRight /\ Propagated /\ VisitedInOrder /\ ReadyInOrder

LEMMA InitOrdered == Init => Ordered
PROOF
  <1> SUFFICES ASSUME Init PROVE Ordered
    OBVIOUS
  <1>1. pc = "register" /\ todo = Procs /\ \A p \in Procs : conditions[p] = {} /\ state[p] = "BLOCKED"
    BY DEF Init, ChildInit
  <1> QED
    BY <1>1, InitBooks DEF Ordered, ConditionsRight, Propagated, Unregistered, VisitedInOrder, ReadyInOrder

\* should_wait_for keeps the conditions there are, and one on every program
\* that a new one is on.
LEMMA AddedConditions ==
  ASSUME NEW known \in SUBSET Condition, NEW new \in SUBSET Condition
  PROVE  /\ known \subseteq AddConditions(known, new)
         /\ AddConditions(known, new) \subseteq known \cup new
         /\ \A n \in new : \E k \in AddConditions(known, new) : k.id = n.id
BY DEF AddConditions

\* What propagate_dependencies of c adds to the conditions of every program.
LEMMA PropagateAdds ==
  ASSUME TypeOK, NEW c \in Procs, PropagateDependencies(c)
  PROVE  /\ UNCHANGED config
         /\ \A p \in Procs : conditions[p] \subseteq conditions'[p]
         /\ \A p \in Procs : config.name[p] \in config.before[c] => c \in Awaited(p)'
         /\ \A q \in Procs : config.name[q] \in config.after[c] => q \in Awaited(c)'
         /\ \A p \in Procs : \A k \in conditions'[p] : k \notin conditions[p] =>
              /\ k.state = TargetState(c)
              /\ k.id = c \/ (p = c /\ config.name[k.id] \in config.after[c])
         /\ \A p \in Procs : state'[p] # state[p] =>
              p = c /\ state'[c] = "READY" /\ conditions'[c] = {}
PROOF
  <1> DEFINE wait(q) == [id |-> q, state |-> TargetState(c)]
             pushed  == [p \in Procs |->
                           IF config.name[p] \in config.before[c]
                             THEN AddConditions(conditions[p], {wait(c)})
                             ELSE conditions[p]]
             named   == {q \in Procs : config.name[q] \in config.after[c]}
             waits   == {wait(q) : q \in named}
             own     == AddConditions(pushed[c], waits)
  <1>1. \A q \in Procs : wait(q) \in Condition /\ wait(q).id = q /\ wait(q).state = TargetState(c)
    BY DEF Condition, TargetState
  <1>2. /\ conditions' = [pushed EXCEPT ![c] = own]
        /\ state' = [state EXCEPT ![c] = IF own = {} THEN "READY" ELSE @]
        /\ UNCHANGED config
    BY DEF PropagateDependencies
  <1>3. ASSUME NEW p \in Procs
        PROVE  /\ pushed[p] \in SUBSET Condition
               /\ conditions[p] \subseteq pushed[p]
               /\ config.name[p] \in config.before[c] => \E k \in pushed[p] : k.id = c
               /\ \A k \in pushed[p] : k \notin conditions[p] => k.state = TargetState(c) /\ k.id = c
    <2>1. conditions[p] \in SUBSET Condition /\ {wait(c)} \in SUBSET Condition
      BY <1>1 DEF TypeOK, ChildTypeOK
    <2>2. CASE config.name[p] \in config.before[c]
      <3>1. pushed[p] = AddConditions(conditions[p], {wait(c)})
        BY <2>2
      <3>2. wait(c).id = c /\ wait(c).state = TargetState(c) /\ wait(c) \in {wait(c)}
        BY <1>1
      <3> HIDE DEF pushed, wait
      <3> QED
        BY <2>1, <3>1, <3>2, AddedConditions
    <2>3. CASE config.name[p] \notin config.before[c]
      BY <2>1, <2>3
    <2> QED
      BY <2>2, <2>3
  <1>4. /\ pushed[c] \subseteq own
        /\ \A q \in named : \E k \in own : k.id = q
        /\ \A k \in own : k \notin pushed[c] => k.state = TargetState(c) /\ k.id \in named
    <2>1. waits \in SUBSET Condition /\ pushed[c] \in SUBSET Condition
      <3>1. waits \in SUBSET Condition
        BY <1>1
      <3> QED
        BY <1>3, <3>1
    <2>2. \A q \in named : wait(q) \in waits /\ wait(q).id = q
      BY <1>1
    <2>3. \A k \in waits : k.state = TargetState(c) /\ k.id \in named
      BY <1>1
    <2> HIDE DEF pushed, wait, waits, named
    <2> QED
      BY <2>1, <2>2, <2>3, AddedConditions
  <1>5. /\ pushed \in [Procs -> SUBSET Condition]
        /\ state \in [Procs -> ProcessState]
    <2>1. pushed = [p \in Procs |-> pushed[p]]
      OBVIOUS
    <2> QED
      BY <1>3, <2>1 DEF TypeOK, ChildTypeOK
  <1>6. \A q \in named : q \in Procs /\ config.name[q] \in config.after[c]
    OBVIOUS
  <1>7. \A q \in Procs : config.name[q] \in config.after[c] => q \in named
    OBVIOUS
  <1> HIDE DEF pushed, wait, waits, named, own
  <1>8. \A p \in Procs : conditions'[p] = IF p = c THEN own ELSE pushed[p]
    BY <1>2, <1>5
  <1>9. \A p \in Procs : pushed[p] \subseteq conditions'[p] /\ conditions[p] \subseteq conditions'[p]
    BY <1>3, <1>4, <1>8
  <1>10. \A p \in Procs : config.name[p] \in config.before[c] => c \in Awaited(p)'
    BY <1>3, <1>9 DEF Awaited
  <1>11. \A q \in Procs : config.name[q] \in config.after[c] => q \in Awaited(c)'
    BY <1>4, <1>7, <1>8 DEF Awaited
  <1>12. \A p \in Procs : \A k \in conditions'[p] : k \notin conditions[p] =>
           /\ k.state = TargetState(c)
           /\ k.id = c \/ (p = c /\ config.name[k.id] \in config.after[c])
    BY <1>3, <1>4, <1>6, <1>8
  <1>13. \A p \in Procs : state'[p] # state[p] =>
              p = c /\ state'[c] = "READY" /\ conditions'[c] = {}
    BY <1>2, <1>5, <1>8
  <1> QED
    BY <1>2, <1>9, <1>10, <1>11, <1>12, <1>13

LEMMA RegisterOrdered ==
  ASSUME HonouredConfigs, Ordered, Books', NEW c \in Procs, RegisterChild(c)
  PROVE  Ordered'
PROOF
  <1> DEFINE Before(p, q) == config.name[p] \in config.before[q]
             After(p, q)  == config.name[p] \in config.after[q]
  <1>1. /\ pc = "register" /\ pc' = "register" /\ todo' = todo \ {c}
        /\ c \in todo /\ \A q \in todo : c <= q
        /\ UNCHANGED loggers
    BY DEF RegisterChild, IsNext, tables
  <1>2. Procs \subseteq Int /\ todo \subseteq Procs
    BY ProgramsAssumption DEF Procs, Ordered, Books, TypeOK
  <1>3. /\ UNCHANGED config
        /\ \A p \in Procs : conditions[p] \subseteq conditions'[p]
        /\ \A p \in Procs : Before(p, c) => c \in Awaited(p)'
        /\ \A q \in Procs : After(q, c) => q \in Awaited(c)'
        /\ \A p \in Procs : \A k \in conditions'[p] : k \notin conditions[p] =>
             /\ k.state = TargetState(c)
             /\ k.id = c \/ (p = c /\ After(k.id, c))
        /\ \A p \in Procs : state'[p] # state[p] =>
             p = c /\ state'[c] = "READY" /\ conditions'[c] = {}
    BY PropagateAdds DEF RegisterChild, Ordered, Books
  <1>4. /\ \A p, q \in Procs : Before(p, q) => q < p
        /\ \A p, q \in Procs : After(q, p) => TargetState(p) = TargetState(q)
    BY DEF HonouredConfigs, Honoured, Ordered, Books, TypeOK, ChildTypeOK, TargetState
  <1>5. \A p \in Procs : \A k \in conditions'[p] : k.id \in Procs
    BY DEF Books, TypeOK, ChildTypeOK, Condition
  <1>6. /\ \A p, q \in Procs : q \in Abstract!Needs(p) <=> After(q, p) \/ Before(p, q)
        /\ \A p \in Procs : Abstract!Needs(p) \subseteq Procs
        /\ \A p \in Procs : Abstract!Needs(p)' = Abstract!Needs(p)
    BY <1>3 DEF Abstract!Needs, Abstract!Procs, Procs
  <1>7. Unregistered = todo /\ Unregistered' = todo \ {c}
    BY <1>1 DEF Unregistered
  <1>8. ConditionsRight'
    <2> SUFFICES ASSUME NEW p \in Procs, NEW k \in conditions'[p]
                 PROVE  k.state = TargetState(k.id)
      BY <1>3 DEF ConditionsRight, TargetState
    <2>1. CASE k \in conditions[p]
      BY <2>1 DEF Ordered, ConditionsRight
    <2>2. CASE k \notin conditions[p]
      BY <1>3, <1>4, <1>5, <2>2
    <2> QED
      BY <2>1, <2>2
  <1>9. Propagated'
    <2>1. \A p \in Procs : Awaited(p) \subseteq Awaited(p)'
      BY <1>3 DEF Awaited
    <2> SUFFICES ASSUME NEW q \in Procs, q \notin todo \ {c}
                 PROVE  /\ \A p \in Procs : Before(p, q) => q \in Awaited(p)'
                        /\ \A p \in Procs : After(p, q) => p \in Awaited(q)'
      BY <1>3, <1>7 DEF Propagated
    <2>2. CASE q = c
      BY <1>3, <2>2
    <2>3. CASE q \notin todo
      <3>1. /\ \A p \in Procs : Before(p, q) => q \in Awaited(p)
            /\ \A p \in Procs : After(p, q) => p \in Awaited(q)
        BY <1>7, <2>3 DEF Ordered, Propagated
      <3> QED
        BY <2>1, <3>1
    <2> QED
      BY <2>2, <2>3
  <1>10. VisitedInOrder'
    BY <1>1, <1>2 DEF Ordered, VisitedInOrder
  <1>11. ReadyInOrder'
    <2> SUFFICES ASSUME NEW p \in Procs, state'[p] = "READY"
                 PROVE  Abstract!Needs(p) = {} \/ config.name[p] \in loggers
      BY <1>1, <1>3, <1>6 DEF ReadyInOrder
    <2>1. CASE state[p] = "READY"
      BY <1>1, <2>1 DEF Ordered, ReadyInOrder
    <2>2. CASE state[p] # "READY"
      <3>1. p = c /\ Awaited(c)' = {}
        BY <1>3, <2>2 DEF Awaited
      <3>2. \A q \in Procs : ~After(q, c)
        BY <1>3, <3>1
      <3>3. ASSUME NEW q \in Procs, Before(c, q)
            PROVE  FALSE
        <4>1. q \notin todo
          BY <1>1, <1>2, <1>4, <3>3
        <4>2. q \in Awaited(c)'
          BY <1>3, <1>7, <1>9, <3>3, <4>1 DEF Propagated
        <4> QED
          BY <3>1, <4>2
      <3> QED
        BY <1>6, <3>1, <3>2, <3>3
    <2> QED
      BY <2>1, <2>2
  <1> QED
    BY <1>8, <1>9, <1>10, <1>11 DEF Ordered

\* The steps that leave the programs and the registered names alone.
LEMMA QuietOrdered ==
  ASSUME Ordered, Books', UNCHANGED <<childVars, loggers>>,
         \/ UNCHANGED <<pc, todo>>
         \/ pc' \in Down /\ UNCHANGED todo
         \/ pc = "register" /\ todo = {} /\ pc' = "notify"
         \/ pc = "start" /\ todo = {} /\ UNCHANGED todo /\ pc' # "register"
         \/ pc \notin {"register", "start"} \cup Down /\ UNCHANGED todo /\ pc' \notin {"register", "start"}
  PROVE  Ordered'
PROOF
  <1>1. UNCHANGED <<config, state, conditions, loggers>>
    BY DEF childVars
  <1>2. \A p \in Procs : Abstract!Needs(p)' = Abstract!Needs(p)
    BY <1>1 DEF Abstract!Needs, Abstract!Procs, Procs
  <1>3. \A p \in Procs : Started(p)' <=> Started(p)
    BY <1>1 DEF Started
  <1>4. ConditionsRight'
    BY <1>1 DEF Ordered, ConditionsRight, TargetState
  <1>5. Propagated'
    <2>1. Unregistered \subseteq Unregistered'
      BY DEF Unregistered
    <2> QED
      BY <1>1, <2>1 DEF Ordered, Propagated, Awaited
  <1>6. VisitedInOrder'
    BY DEF Ordered, VisitedInOrder
  <1>7. ReadyInOrder'
    <2>1. \A p \in Procs : Abstract!Needs(p) \subseteq Procs
      BY DEF Abstract!Needs, Abstract!Procs, Procs
    <2> QED
      BY <1>1, <1>2, <1>3, <2>1 DEF Ordered, ReadyInOrder
  <1> QED
    BY <1>4, <1>5, <1>6, <1>7 DEF Ordered

\* What is started stays started while start_programs runs.
LEMMA LaunchOrdered ==
  ASSUME Ordered, Books', NEW c \in Procs,
         SkipDuplicateLogger(c) \/ DoForkThrows(c) \/ Launch(c)
  PROVE  Ordered'
PROOF
  <1>1. /\ pc = "start" /\ pc' = "start" /\ todo' = todo \ {c} /\ c \in todo
        /\ UNCHANGED <<config, conditions>>
        /\ loggers \subseteq loggers' /\ config.name[c] \in loggers'
    BY DEF SkipDuplicateLogger, DoForkThrows, Launch, IsNext, DoFork, BecomeRunning, childVars, tables
  <1>2. state[c] = "READY"
    BY <1>1 DEF Ordered, Books, TodoReady
  <1>3. \A p \in Procs \ {c} : state'[p] = state[p]
    BY DEF SkipDuplicateLogger, DoForkThrows, Launch, DoFork, BecomeRunning, childVars,
           Ordered, Books, TypeOK, ChildTypeOK
  <1>4. \A q \in Procs : Started(q) => Started(q)'
    BY <1>1, <1>2, <1>3 DEF Started
  <1>5. \A p \in Procs : Abstract!Needs(p)' = Abstract!Needs(p) /\ Abstract!Needs(p) \subseteq Procs
    BY <1>1 DEF Abstract!Needs, Abstract!Procs, Procs
  <1>6. ConditionsRight' /\ Propagated' /\ VisitedInOrder'
    BY <1>1 DEF Ordered, ConditionsRight, TargetState, Propagated, Unregistered, Awaited, VisitedInOrder
  <1>7. ReadyInOrder'
    <2> SUFFICES ASSUME NEW p \in Procs, state'[p] = "READY"
                 PROVE  \/ Abstract!Needs(p) = {}
                        \/ config.name[p] \in loggers'
                        \/ p \in todo' /\ \A q \in Abstract!Needs(p) : Started(q)'
      BY <1>1, <1>5 DEF ReadyInOrder
    <2>1. CASE p = c
      BY <1>1, <2>1
    <2>2. CASE p # c
      <3>1. \/ Abstract!Needs(p) = {}
            \/ config.name[p] \in loggers
            \/ p \in todo /\ \A q \in Abstract!Needs(p) : Started(q)
        BY <1>1, <1>3, <2>2 DEF Ordered, ReadyInOrder
      <3> QED
        BY <1>1, <1>4, <1>5, <2>2, <3>1
    <2> QED
      BY <2>1, <2>2
  <1> QED
    BY <1>6, <1>7 DEF Ordered

\* What notify_of_state makes READY has everything it needs: every
\* declaration about it has become a condition, and all conditions hold.
LEMMA NotifyOrdered ==
  ASSUME Ordered, Books', Notify
  PROVE  Ordered'
PROOF
  <1>1. /\ pc = "notify" /\ pc' = "start"
        /\ NotifyOfState /\ todo' = {p \in Procs : state'[p] = "READY"}
        /\ UNCHANGED <<config, conditions, loggers>>
    BY DEF Notify, NotifyOfState, CanStartNow, tables
  <1>2. \A p \in Procs : Abstract!Needs(p)' = Abstract!Needs(p) /\ Abstract!Needs(p) \subseteq Procs
    BY <1>1 DEF Abstract!Needs, Abstract!Procs, Procs
  <1>3. ConditionsRight' /\ Propagated' /\ VisitedInOrder'
    BY <1>1 DEF Ordered, ConditionsRight, TargetState, Propagated, Unregistered, Awaited, VisitedInOrder
  <1>4. ASSUME NEW p \in Procs, state[p] = "BLOCKED", Fulfilled(p), NEW q \in Abstract!Needs(p)
        PROVE  Started(q)'
    <2>1. q \in Procs /\ q \in Awaited(p)
      BY <1>1, <1>2 DEF Ordered, Propagated, Unregistered, Abstract!Needs, Abstract!Procs, Procs
    <2>2. PICK k \in conditions[p] : k.id = q
      BY <2>1 DEF Awaited
    <2>3. state[q] = TargetState(q)
      BY <1>4, <2>2 DEF Ordered, ConditionsRight, Fulfilled
    <2>4. state'[q] = TargetState(q)
      BY <1>1, <2>1, <2>3, NotifyFulfilled DEF Ordered, Books, TargetState
    <2> QED
      BY <1>1, <2>4 DEF Started, TargetState
  <1>5. ReadyInOrder'
    <2> SUFFICES ASSUME NEW p \in Procs, state'[p] = "READY"
                 PROVE  \/ Abstract!Needs(p) = {}
                        \/ config.name[p] \in loggers
                        \/ \A q \in Abstract!Needs(p) : Started(q)'
      BY <1>1, <1>2 DEF ReadyInOrder
    <2>1. CASE state[p] = "READY"
      BY <1>1, <2>1 DEF Ordered, ReadyInOrder
    <2>2. CASE state[p] # "READY"
      BY <1>1, <1>4, <2>2 DEF NotifyOfState
    <2> QED
      BY <2>1, <2>2
  <1> QED
    BY <1>3, <1>5 DEF Ordered

LEMMA StepOrdered ==
  ASSUME HonouredConfigs, Ordered, [Next]_vars
  PROVE  Ordered'
PROOF
  <1>0. Books'
    BY StepBooks DEF Ordered
  <1> USE <1>0
  <1>1. ASSUME NEW p \in Procs, RegisterChild(p)
        PROVE  Ordered'
    BY <1>1, RegisterOrdered
  <1>2. ASSUME NEW p \in Procs, SkipDuplicateLogger(p) \/ DoForkThrows(p) \/ Launch(p)
        PROVE  Ordered'
    BY <1>2, LaunchOrdered
  <1>3. ASSUME Notify
        PROVE  Ordered'
    BY <1>3, NotifyOrdered
  <1>4. ASSUME SetupSignalHandlers
        PROVE  Ordered'
    BY <1>4, QuietOrdered DEF SetupSignalHandlers, tables
  <1>5. ASSUME StartProgramsDone
        PROVE  Ordered'
    BY <1>5, QuietOrdered DEF StartProgramsDone, tables
  <1>6. ASSUME EpollWait \/ ReapDone \/ FatalCall \/ EventsDone \/ Decide
        PROVE  Ordered'
    BY <1>6, QuietOrdered DEF EpollWait, AfterWait, ReapDone, FatalCall, EventsDone, Decide, tables
  <1>7. ASSUME NEW pid \in Pids, Reap(pid)
        PROVE  Ordered'
    <2>1. /\ pc = "reap" /\ pc' = "reap" /\ UNCHANGED <<config, conditions, loggers, todo>>
      BY <1>7 DEF Reap, HandleExit, childVars
    <2>2. \A p \in Procs : state'[p] = "READY" => state[p] = "READY"
      BY <1>7 DEF Reap, HandleExit, Outcome, childVars, Ordered, Books, TypeOK, ChildTypeOK
    <2>3. \A p \in Procs : Abstract!Needs(p)' = Abstract!Needs(p)
      BY <2>1 DEF Abstract!Needs
    <2>4. ReadyInOrder'
      BY <2>1, <2>2, <2>3 DEF Ordered, ReadyInOrder
    <2> QED
      BY <2>1, <2>4 DEF Ordered, ConditionsRight, TargetState, Propagated, Unregistered, Awaited, VisitedInOrder
  <1>8. ASSUME NEW e \in batch, HandleEvent(e)
        PROVE  Ordered'
    <2>1. UNCHANGED <<childVars, loggers, todo>> /\ pc = "events" /\ pc' \in {"events", "aborted"}
      BY <1>8 DEF HandleEvent, HandleSignal, HandleInput, HandleHangup
    <2> QED
      BY <2>1, QuietOrdered
  <1>9. ASSUME Environment
        PROVE  Ordered'
    BY <1>9, QuietOrdered DEF Environment, ChildExit, OperatorSignal, handlerVars, tables
  <1>10. ASSUME UNCHANGED vars
         PROVE  Ordered'
    BY <1>10, QuietOrdered DEF vars, handlerVars, tables
  <1> QED
    BY <1>1, <1>2, <1>3, <1>4, <1>5, <1>6, <1>7, <1>8, <1>9, <1>10 DEF Next, Daemon, Halted

THEOREM OrderedInvariant == ASSUME HonouredConfigs PROVE Safety => []Ordered
PROOF
  <1>1. Ordered /\ [Next]_vars => Ordered'
    BY StepOrdered
  <1> QED
    BY InitOrdered, <1>1, PTL DEF Safety

\* Only Launch makes a program RUNNING.
LEMMA RunningByLaunch ==
  ASSUME Books, Next, NEW p \in Procs, state[p] # "RUNNING", state'[p] = "RUNNING"
  PROVE  Launch(p)
PROOF
  <1>0. state \in [Procs -> ProcessState]
    BY DEF Books, TypeOK, ChildTypeOK
  <1>1. ASSUME NEW q \in Procs, RegisterChild(q)
        PROVE  FALSE
    BY <1>0, <1>1 DEF RegisterChild, PropagateDependencies
  <1>2. ASSUME NEW q \in Procs, Launch(q)
        PROVE  Launch(p)
    BY <1>0, <1>2 DEF Launch, DoFork, BecomeRunning
  <1>3. ASSUME NEW pid \in Pids, Reap(pid)
        PROVE  FALSE
    BY <1>0, <1>3 DEF Reap, HandleExit, Outcome, childVars
  <1>4. ASSUME Notify
        PROVE  FALSE
    BY <1>4 DEF Notify, NotifyOfState
  <1>5. ASSUME \/ \E q \in Procs : SkipDuplicateLogger(q) \/ DoForkThrows(q)
               \/ SetupSignalHandlers \/ StartProgramsDone \/ EpollWait
               \/ ReapDone \/ FatalCall \/ EventsDone \/ Decide \/ \E e \in batch : HandleEvent(e)
               \/ Environment \/ Halted
        PROVE  FALSE
    <2>1. UNCHANGED childVars
      BY <1>5 DEF SkipDuplicateLogger, DoForkThrows, SetupSignalHandlers, StartProgramsDone, EpollWait,
                  ReapDone, FatalCall, EventsDone, Decide, HandleEvent,
                  Environment, ChildExit, OperatorSignal, Halted, vars
    <2> QED
      BY <2>1 DEF childVars
  <1> QED
    BY <1>1, <1>2, <1>3, <1>4, <1>5 DEF Next, Daemon

LEMMA LaunchInOrder ==
  ASSUME Ordered, NEW p \in Procs, Launch(p)
  PROVE  state[p] = "READY" /\ \A q \in Abstract!Needs(p) : Started(q)
PROOF
  <1>1. pc = "start" /\ p \in todo /\ config.name[p] \notin loggers
    BY DEF Launch, IsNext
  <1>2. state[p] = "READY"
    BY <1>1 DEF Ordered, Books, TodoReady
  <1> QED
    BY <1>1, <1>2 DEF Ordered, ReadyInOrder

\* For the configurations whose order the code honours, do_fork starts a
\* program only when everything declared to come before it has started,
\* whichever call fails and however often start_programs runs.
THEOREM StartOrderCorrect == ASSUME HonouredConfigs PROVE Safety => StartOrder
PROOF
  <1> DEFINE InOrder == \A p \in Procs : state[p] # "RUNNING" /\ state'[p] = "RUNNING" =>
                          \A q \in Abstract!Needs(p) : Started(q)
  <1>1. Ordered /\ [Next]_vars => [InOrder]_vars
    BY RunningByLaunch, LaunchInOrder DEF Ordered
  <1> QED
    BY OrderedInvariant, <1>1, PTL DEF Safety, StartOrder

-----------------------------------------------------------------------------
(* Part 3: the event loop implements the abstract supervisor                *)

\* What the implementation needs beyond the declared order: fork(), epoll and
\* the signal set-up work, and a SIGTERM does not end the daemon.
Reliable ==
  /\ Dependable
  /\ "fatal" \notin Failures
  /\ PidOne \/ "SIGTERM" \notin OperatorSignals

Implementing == Counted /\ Ordered /\ Tables

\* The phase of a program, as its recorded state tells it.
PhaseOf(s) == IF s = "RUNNING" THEN "running"
              ELSE IF s = "DONE" THEN "succeeded"
              ELSE IF s = "CRASHED" THEN "failed" ELSE "waiting"

PhaseAgrees == ObservedPhase = [p \in Procs |-> PhaseOf(state[p])]

LEMMA PhaseByState == Counted => PhaseAgrees
PROOF
  <1> SUFFICES ASSUME Counted PROVE PhaseAgrees
    OBVIOUS
  <1>1. \A p \in Procs : state[p] = "RUNNING" <=> \E pid \in Supervised : program[pid] = p
    BY DEF Counted, Books, PidTableFaithful, TableRunning, RunningRecorded
  <1> QED
    BY <1>1 DEF PhaseAgrees, ObservedPhase, PhaseOf

LEMMA PhaseByNextState == Counted' => PhaseAgrees'
BY PhaseByState, PTL

LEMMA InitImplements == Init => Abstract!Init
PROOF
  <1> SUFFICES ASSUME Init PROVE Abstract!Init
    OBVIOUS
  <1>1. ObservedPhase = [p \in Procs |-> PhaseOf(state[p])]
    BY InitCounted, PhaseByState DEF PhaseAgrees
  <1>2. ObservedPhase = [p \in Procs |-> "waiting"]
    BY <1>1 DEF Init, ChildInit, PhaseOf
  <1>3. Up = TRUE
    BY DEF Init, Up
  <1> QED
    BY <1>2, <1>3 DEF Init, ChildInit, Abstract!Init, Abstract!Procs, Procs

\* do_fork is the abstract start.
LEMMA LaunchStarts ==
  ASSUME Implementing, Counted', NEW p \in Procs, Launch(p)
  PROVE  Abstract!Start(p)
PROOF
  <1>1. state' = [state EXCEPT ![p] = "RUNNING"] /\ UNCHANGED config
    BY DEF Launch, DoFork, BecomeRunning
  <1>2. pc = "start" /\ pc' = "start"
    BY DEF Launch
  <1>3. state \in [Procs -> ProcessState]
    BY DEF Implementing, Counted, Books, TypeOK, ChildTypeOK
  <1>4. /\ ObservedPhase = [q \in Procs |-> PhaseOf(state[q])]
        /\ ObservedPhase' = [q \in Procs |-> PhaseOf(state'[q])]
    BY PhaseByState, PhaseByNextState DEF Implementing, PhaseAgrees
  <1>5. state[p] = "READY" /\ \A q \in Abstract!Needs(p) : Started(q)
    BY LaunchInOrder DEF Implementing
  <1>6. ObservedPhase[p] = "waiting"
    BY <1>4, <1>5 DEF PhaseOf
  <1>7. ObservedPhase' = [ObservedPhase EXCEPT ![p] = "running"]
    BY <1>1, <1>3, <1>4 DEF PhaseOf
  <1>8. \A q \in Abstract!Needs(p) : Abstract!Started(q)
    <2>1. Abstract!Needs(p) \subseteq Procs
      BY DEF Abstract!Needs, Abstract!Procs, Procs
    <2> QED
      BY <1>4, <1>5, <2>1 DEF Started, Abstract!Started, PhaseOf
  <1>9. Up /\ Up'
    BY <1>2 DEF Up
  <1> QED
    BY <1>1, <1>6, <1>7, <1>8, <1>9 DEF Abstract!Start

\* sigchld_received is the abstract end of a program, when the process is
\* one of the daemon's.
LEMMA ReapFinishes ==
  ASSUME Implementing, Counted', NEW pid \in Pids, Reap(pid), IsOurs(pid)
  PROVE  Abstract!Finish(id_for_pid[pid]) /\ id_for_pid[pid] \in Procs
PROOF
  <1> DEFINE p == id_for_pid[pid]
  <1>1. p \in Procs /\ state[p] = "RUNNING" /\ state \in [Procs -> ProcessState]
    BY DEF IsOurs, Implementing, Counted, Books, TypeOK, ChildTypeOK, TableRunning
  <1>2. PICK s \in {"DONE", "CRASHED"} : state' = [state EXCEPT ![p] = s]
    BY DEF Reap, HandleExit, Outcome
  <1>3. UNCHANGED config /\ pc = "reap" /\ pc' = "reap"
    BY DEF Reap, HandleExit
  <1>4. /\ ObservedPhase = [q \in Procs |-> PhaseOf(state[q])]
        /\ ObservedPhase' = [q \in Procs |-> PhaseOf(state'[q])]
    BY PhaseByState, PhaseByNextState DEF Implementing, PhaseAgrees
  <1> HIDE DEF p
  <1>5. ObservedPhase[p] = "running"
    BY <1>1, <1>4 DEF PhaseOf
  <1>6. ObservedPhase' = [ObservedPhase EXCEPT ![p] = PhaseOf(s)] /\ PhaseOf(s) \in {"succeeded", "failed"}
    BY <1>1, <1>2, <1>4 DEF PhaseOf
  <1>7. Up /\ Up'
    BY <1>3 DEF Up
  <1>8. Abstract!Finish(p)
    BY <1>3, <1>5, <1>6, <1>7 DEF Abstract!Finish
  <1> QED
    BY <1>1, <1>8 DEF p

\* Steps that change no program: nothing, or the end of a daemon that has
\* nothing RUNNING.
LEMMA QuietImplements ==
  ASSUME Implementing, Counted', UNCHANGED config,
         \A p \in Procs : PhaseOf(state'[p]) = PhaseOf(state[p]),
         \/ Up' = Up
         \/ Up /\ ~Up' /\ \A p \in Procs : state[p] # "RUNNING"
  PROVE  [Abstract!Next]_<<config, ObservedPhase, Up>>
PROOF
  <1>1. /\ ObservedPhase = [q \in Procs |-> PhaseOf(state[q])]
        /\ ObservedPhase' = [q \in Procs |-> PhaseOf(state'[q])]
    BY PhaseByState, PhaseByNextState DEF Implementing, PhaseAgrees
  <1>2. UNCHANGED ObservedPhase
    BY <1>1
  <1>3. CASE Up' = Up
    BY <1>2, <1>3
  <1>4. CASE Up /\ ~Up' /\ \A p \in Procs : state[p] # "RUNNING"
    <2>1. \A p \in Procs : ObservedPhase[p] # "running"
      BY <1>1, <1>4 DEF PhaseOf
    <2>2. Up' = FALSE
      BY <1>4 DEF Up
    <2>3. Abstract!Close
      BY <1>2, <1>4, <2>1, <2>2 DEF Abstract!Close, Abstract!Procs, Procs
    <2> QED
      BY <2>3 DEF Abstract!Next
  <1> QED
    BY <1>3, <1>4

\* No event finds its descriptor unknown, so the event loop is not left by an
\* exception.
LEMMA EventsStay ==
  ASSUME Implementing, NEW e \in batch, HandleEvent(e)
  PROVE  UNCHANGED <<childVars, Up>>
PROOF
  <1>1. pc = "events" /\ UNCHANGED childVars
    BY DEF HandleEvent
  <1>2. CASE e.fd # SignalFd /\ HandleInput(e.fd)
    <2>1. e.fd \in DOMAIN id_for_fd
      BY <1>2 DEF Implementing, Tables, BatchWatched
    <2> QED
      BY <1>1, <1>2, <2>1 DEF HandleInput, Up
  <1>3. CASE HandleHangup(e.fd) \/ \E s \in pending : HandleSignal(s)
    BY <1>1, <1>3 DEF HandleHangup, HandleSignal, Up
  <1> QED
    BY <1>2, <1>3 DEF HandleEvent

\* A signal can end the daemon only before its signal set-up, when nothing
\* was started yet.
LEMMA SignalStays ==
  ASSUME Reliable, Implementing, NEW s \in OperatorSignals, OperatorSignal(s)
  PROVE  /\ UNCHANGED childVars
         /\ \/ UNCHANGED Up
            \/ Up /\ ~Up' /\ \A p \in Procs : state[p] # "RUNNING"
PROOF
  <1>1. UNCHANGED childVars /\ Up
    BY DEF OperatorSignal
  <1>2. CASE ~Kills(s)
    BY <1>1, <1>2 DEF OperatorSignal, Up
  <1>3. CASE Kills(s)
    <2>1. s \in {"SIGINT", "SIGQUIT"} /\ pc' = "killed"
      BY <1>3, KernelAssumption DEF Reliable, Kills, OperatorSignal
    <2>2. SignalFd \notin interest
      BY <1>3, <2>1 DEF Kills, Blocked
    <2>3. pc = "register"
      BY <1>1, <2>2 DEF Up, Implementing, Tables, Snapshot, InterestSetUp
    <2>4. \A p \in Procs : state[p] # "RUNNING"
      BY <2>3 DEF Implementing, Counted, Books, NothingStarted
    <2> QED
      BY <1>1, <2>1, <2>4 DEF Up
  <1> QED
    BY <1>2, <1>3

\* The daemon returns only when no child is left, hence nothing is RUNNING.
LEMMA NothingRunning ==
  ASSUME Implementing, number_of_running_procs = 0
  PROVE  \A p \in Procs : state[p] # "RUNNING"
PROOF
  <1>1. Supervised = {}
    BY SupervisedFinite, FS_EmptySet DEF Implementing, Counted, CountAgrees
  <1> QED
    BY <1>1 DEF Implementing, Counted, Books, PidTableFaithful, RunningRecorded

LEMMA StepImplements ==
  ASSUME Reliable, Implementing, Counted', [Next]_vars
  PROVE  [Abstract!Next]_<<config, ObservedPhase, Up>>
PROOF
  <1> DEFINE Goal == [Abstract!Next]_<<config, ObservedPhase, Up>>
  <1>0. state \in [Procs -> ProcessState]
    BY DEF Implementing, Counted, Books, TypeOK, ChildTypeOK
  <1>1. ASSUME UNCHANGED childVars,
               \/ Up' = Up
               \/ Up /\ ~Up' /\ \A p \in Procs : state[p] # "RUNNING"
        PROVE  Goal
    BY <1>1, QuietImplements DEF childVars
  <1>2. ASSUME NEW p \in Procs, RegisterChild(p)
        PROVE  Goal
    <2>1. UNCHANGED config /\ Up' = Up /\ pc = "register"
      BY <1>2 DEF RegisterChild, PropagateDependencies, Up
    <2>2. \A q \in Procs : /\ state[q] \in {"BLOCKED", "READY"}
                           /\ state'[q] = state[q] \/ state'[q] = "READY"
      BY <1>0, <1>2, <2>1 DEF RegisterChild, PropagateDependencies, Implementing, Counted, Books, NothingStarted
    <2> QED
      BY <2>1, <2>2, QuietImplements DEF PhaseOf
  <1>3. ASSUME Notify
        PROVE  Goal
    <2>1. UNCHANGED config /\ Up' = Up
      BY <1>3 DEF Notify, NotifyOfState, Up
    <2>2. \A q \in Procs : state'[q] = state[q] \/ (state[q] = "BLOCKED" /\ state'[q] = "READY")
      BY <1>3 DEF Notify, NotifyOfState
    <2> QED
      BY <2>1, <2>2, QuietImplements DEF PhaseOf
  <1>4. ASSUME NEW p \in Procs, Launch(p)
        PROVE  Goal
    BY <1>4, LaunchStarts DEF Abstract!Next, Abstract!Procs, Procs
  <1>5. ASSUME NEW p \in Procs, SkipDuplicateLogger(p) \/ DoForkThrows(p)
        PROVE  Goal
    BY <1>1, <1>5 DEF SkipDuplicateLogger, DoForkThrows, Up
  <1>6. ASSUME SetupSignalHandlers \/ EpollWait \/ ReapDone \/ EventsDone
        PROVE  Goal
    BY <1>1, <1>6 DEF SetupSignalHandlers, EpollWait, AfterWait, ReapDone, EventsDone, Up
  <1>7. ASSUME StartProgramsDone
        PROVE  Goal
    BY <1>1, <1>7, NothingRunning DEF StartProgramsDone, Up
  <1>8. ASSUME Decide
        PROVE  Goal
    BY <1>1, <1>8, NothingRunning DEF Decide, MayQuit, Up
  <1>9. ASSUME FatalCall
        PROVE  Goal
    BY <1>9 DEF FatalCall, Reliable
  <1>10. ASSUME NEW pid \in Pids, Reap(pid)
         PROVE  Goal
    <2>1. CASE IsOurs(pid)
      BY <1>10, <2>1, ReapFinishes DEF Abstract!Next, Abstract!Procs, Procs
    <2>2. CASE ~IsOurs(pid)
      BY <1>1, <1>10, <2>2 DEF Reap, Up
    <2> QED
      BY <2>1, <2>2
  <1>11. ASSUME NEW e \in batch, HandleEvent(e)
         PROVE  Goal
    BY <1>1, <1>11, EventsStay
  <1>12. ASSUME Environment
         PROVE  Goal
    <2>1. ASSUME NEW s \in OperatorSignals, OperatorSignal(s)
          PROVE  Goal
      BY <1>1, <2>1, SignalStays
    <2>2. ASSUME UNCHANGED <<childVars, handlerVars>>
          PROVE  Goal
      BY <1>1, <2>2 DEF handlerVars, Up
    <2> QED
      BY <1>12, <2>1, <2>2 DEF Environment, ChildExit
  <1>13. ASSUME UNCHANGED vars
         PROVE  Goal
    BY <1>1, <1>13 DEF vars, handlerVars, Up
  <1> QED
    BY <1>2, <1>3, <1>4, <1>5, <1>6, <1>7, <1>8, <1>9, <1>10, <1>11, <1>12, <1>13
    DEF Next, Daemon, Halted

\* For the configurations whose order the code honours, every step of the
\* supervisor, the kernel and the children is a step of the abstract
\* supervisor or none: a program is started once, after what it needs, its
\* outcome is recorded once, and the daemon goes when nothing runs.
THEOREM SupervisorImplements ==
  ASSUME HonouredConfigs, Reliable PROVE Safety => Implements
PROOF
  <1>1. Dependable /\ EpollWorks
    BY DEF Reliable, Dependable, EpollWorks
  <1>2. Safety => []Counted
    BY <1>1, CountedInvariant
  <1>3. Safety => []Tables
    BY <1>1, TablesInvariant
  <1>4. Implementing /\ Counted' /\ [Next]_vars => [Abstract!Next]_<<config, ObservedPhase, Up>>
    BY StepImplements
  <1>5. Counted /\ Ordered /\ Tables => Implementing
    BY DEF Implementing
  <1> QED
    BY <1>2, <1>3, <1>4, <1>5, OrderedInvariant, InitImplements, PTL
    DEF Safety, Implements, Abstract!Spec

=============================================================================
