------------------------ MODULE HandlerStreams_proofs ------------------------
(***************************************************************************)
(* The output streams: a stale snapshot of epoll never makes the daemon    *)
(* drop a stream too early, whatever fails, and as long as epoll_ctl does  *)
(* not, the tables of descriptors are epoll's interest list.               *)
(***************************************************************************)
EXTENDS HandlerTypes_proofs, FiniteSetTheorems

USE DEF Down

-----------------------------------------------------------------------------
(* Part 1: the snapshot                                                     *)

\* What an event says of a closed stream stays true until it is handled:
\* nobody opens it again, and nobody can write to it.
HangupsHold ==
  \A e \in batch : e.hup => /\ e.fd \in ChildFds \ writable
                            /\ ~e.in => unread[e.fd] = 0

\* epoll has nothing to report before the signal set-up, and from then on it
\* watches the signalfd.
InterestSetUp ==
  /\ pc = "register" => interest = {}
  /\ pc \notin {"register"} \cup Down => SignalFd \in interest

\* Events are left only where they are handled, so no program is launched
\* while there are any.
BatchPlace == batch # {} => pc \in {"reap", "events"} \cup Down

Snapshot == TypeOK /\ HangupsHold /\ InterestSetUp /\ BatchPlace

LEMMA InitSnapshot == Init => Snapshot
BY InitType DEF Init, KernelInit, Snapshot, HangupsHold, InterestSetUp, BatchPlace

\* The steps that touch neither streams nor epoll.
LEMMA QuietSnapshot ==
  ASSUME Snapshot, TypeOK', UNCHANGED <<unread, writable, interest>>,
         batch' = batch \/ batch' = {},
         \/ pc' = pc
         \/ pc' \in Down
         \/ pc # "register" /\ pc \notin Down /\ batch' = {} /\ pc' # "register"
         \/ pc = "reap" /\ pc' = "events"
  PROVE  Snapshot'
BY KernelAssumption DEF Snapshot, HangupsHold, InterestSetUp, BatchPlace

LEMMA EpollWaitSnapshot ==
  ASSUME Snapshot, TypeOK', EpollWait
  PROVE  Snapshot'
PROOF
  <1>1. batch' \subseteq ReadyEvents /\ pc = "wait" /\ pc' = "reap"
    BY DEF EpollWait, AfterWait
  <1>2. UNCHANGED <<unread, writable, interest>>
    BY DEF EpollWait, kernelVars, streamVars
  <1>3. unread \in [ChildFds -> 0 .. MaxUnread] /\ SignalFd \notin ChildFds
    BY KernelAssumption DEF Snapshot, TypeOK, KernelTypeOK
  <1>4. ASSUME NEW e \in ReadyEvents, e.hup
        PROVE  e.fd \in ChildFds \ writable /\ (~e.in => unread[e.fd] = 0)
    <2>1. PICK fd \in interest : e = [fd |-> fd, in |-> Readable(fd), hup |-> HungUp(fd)]
      BY DEF ReadyEvents
    <2>2. HungUp(fd)
      BY <1>4, <2>1
    <2>3. fd \in ChildFds \ writable /\ fd # SignalFd
      BY <1>3, <2>2 DEF HungUp
    <2>4. ~Readable(fd) => unread[fd] = 0
      <3>1. unread[fd] \in 0 .. MaxUnread /\ MaxUnread \in Nat
        BY <1>3, <2>3, KernelAssumption
      <3> QED
        BY <2>3, <3>1 DEF Readable
    <2> QED
      BY <2>1, <2>3, <2>4
  <1> QED
    BY <1>1, <1>2, <1>4 DEF Snapshot, HangupsHold, InterestSetUp, BatchPlace

\* Reading shortens a stream; dropping one touches no signalfd.
LEMMA HandleEventSnapshot ==
  ASSUME Snapshot, TypeOK', NEW e \in batch, HandleEvent(e)
  PROVE  Snapshot'
PROOF
  <1>1. /\ batch' \subseteq batch /\ pc = "events" /\ UNCHANGED writable
        /\ unread \in [ChildFds -> 0 .. MaxUnread]
        /\ MaxUnread \in Nat /\ BufSize \in Nat \ {0} /\ SignalFd \notin ChildFds
    BY KernelAssumption, ProcessHandlerAssumption
    DEF HandleEvent, Snapshot, TypeOK, KernelTypeOK
  <1>2. pc' \in {"events", "aborted"}
    BY <1>1 DEF HandleEvent, HandleSignal, HandleInput, HandleHangup
  <1>3. \A fd \in ChildFds : unread[fd] = 0 => unread'[fd] = 0
    <2>1. CASE UNCHANGED unread
      BY <2>1
    <2>2. CASE HandleInput(e.fd)
      BY <1>1, <2>2 DEF HandleInput
    <2> QED
      BY <2>1, <2>2 DEF HandleEvent, HandleSignal, HandleHangup
  <1>4. interest' = interest \/ (e.hup /\ interest' = interest \ {e.fd})
    BY DEF HandleEvent, HandleSignal, HandleInput, HandleHangup
  <1>5. SignalFd \in interest'
    BY <1>1, <1>4 DEF Snapshot, HangupsHold, InterestSetUp
  <1>6. HangupsHold'
    BY <1>1, <1>3 DEF Snapshot, HangupsHold
  <1> QED
    BY <1>2, <1>5, <1>6 DEF Snapshot, InterestSetUp, BatchPlace

LEMMA StepSnapshot ==
  ASSUME Snapshot, [Next]_vars
  PROVE  Snapshot'
PROOF
  <1>0. TypeOK'
    BY StepType DEF Snapshot
  <1> USE <1>0
  <1>1. ASSUME NEW p \in Procs, RegisterChild(p) \/ SkipDuplicateLogger(p) \/ DoForkThrows(p)
        PROVE  Snapshot'
    BY <1>1, QuietSnapshot DEF RegisterChild, SkipDuplicateLogger, DoForkThrows, kernelVars, streamVars
  <1>2. ASSUME NEW p \in Procs, Launch(p)
        PROVE  Snapshot'
    <2>1. batch' = {} /\ pc = "start" /\ pc' = "start"
      BY <1>2 DEF Launch, Snapshot, BatchPlace
    <2>2. interest \subseteq interest'
      BY <1>2 DEF Launch, RegisterWithEpoll
    <2> QED
      BY <2>1, <2>2 DEF Snapshot, HangupsHold, InterestSetUp, BatchPlace
  <1>3. ASSUME SetupSignalHandlers
        PROVE  Snapshot'
    BY <1>3 DEF SetupSignalHandlers, Snapshot, HangupsHold, InterestSetUp, BatchPlace
  <1>4. ASSUME Notify
        PROVE  Snapshot'
    <2>1. batch = {}
      BY <1>4 DEF Notify, Snapshot, BatchPlace
    <2> QED
      BY <1>4, <2>1, QuietSnapshot DEF Notify, kernelVars, streamVars
  <1>5. ASSUME StartProgramsDone
        PROVE  Snapshot'
    <2>1. batch = {}
      BY <1>5 DEF StartProgramsDone, Snapshot, BatchPlace
    <2> QED
      BY <1>5, <2>1, QuietSnapshot DEF StartProgramsDone, kernelVars, streamVars
  <1>6. ASSUME EpollWait
        PROVE  Snapshot'
    BY <1>6, EpollWaitSnapshot
  <1>7. ASSUME NEW pid \in Pids, Reap(pid)
        PROVE  Snapshot'
    BY <1>7, QuietSnapshot DEF Reap, streamVars
  <1>8. ASSUME ReapDone \/ FatalCall \/ EventsDone
        PROVE  Snapshot'
    BY <1>8, QuietSnapshot DEF ReapDone, FatalCall, EventsDone, kernelVars, streamVars
  <1>9. ASSUME Decide
        PROVE  Snapshot'
    <2>1. batch = {}
      BY <1>9 DEF Decide, Snapshot, BatchPlace
    <2> QED
      BY <1>9, <2>1, QuietSnapshot DEF Decide, kernelVars, streamVars
  <1>10. ASSUME NEW e \in batch, HandleEvent(e)
         PROVE  Snapshot'
    BY <1>10, HandleEventSnapshot
  <1>11. ASSUME Environment
         PROVE  Snapshot'
    <2>1. ASSUME NEW pid \in Pids, ChildExit(pid) \/ (Adopt(pid) /\ UNCHANGED handlerVars)
          PROVE  Snapshot'
      BY <2>1, QuietSnapshot DEF ChildExit, Exit, Adopt, handlerVars, streamVars
    <2>2. ASSUME NEW s \in OperatorSignals, OperatorSignal(s)
          PROVE  Snapshot'
      BY <2>2, QuietSnapshot DEF OperatorSignal, SendSignal, streamVars
    <2>3. ASSUME NEW fd \in ActiveFds, Write(fd) \/ CloseStream(fd), UNCHANGED handlerVars
          PROVE  Snapshot'
      <3>1. /\ writable' \subseteq writable
            /\ \A f \in ChildFds \ writable : unread'[f] = unread[f]
        <4>1. unread \in [ChildFds -> 0 .. MaxUnread]
          BY DEF Snapshot, TypeOK, KernelTypeOK
        <4> QED
          BY <2>3, <4>1 DEF Write, CloseStream
      <3>2. UNCHANGED <<interest, pc, batch>>
        BY <2>3 DEF Write, CloseStream, handlerVars
      <3> QED
        BY <3>1, <3>2 DEF Snapshot, HangupsHold, InterestSetUp, BatchPlace
    <2> QED
      BY <1>11, <2>1, <2>2, <2>3 DEF Environment
  <1>12. ASSUME UNCHANGED vars
         PROVE  Snapshot'
    BY <1>12, QuietSnapshot DEF vars, kernelVars, handlerVars, streamVars
  <1> QED
    BY <1>1, <1>2, <1>3, <1>4, <1>5, <1>6, <1>7, <1>8, <1>9, <1>10, <1>11, <1>12
    DEF Next, Daemon, Halted

THEOREM SnapshotInvariant == Safety => []Snapshot
PROOF
  <1>1. Snapshot /\ [Next]_vars => Snapshot'
    BY StepSnapshot
  <1> QED
    BY InitSnapshot, <1>1, PTL DEF Safety

\* Only the handling of an event takes a descriptor out of epoll's list.
LEMMA DroppedByEvent ==
  ASSUME Snapshot, Next, ~(interest \subseteq interest')
  PROVE  \E e \in batch : HandleEvent(e)
PROOF
  <1>1. ASSUME NEW p \in Procs, Launch(p)
        PROVE  interest \subseteq interest'
    BY <1>1 DEF Launch, RegisterWithEpoll
  <1>2. ASSUME SetupSignalHandlers
        PROVE  interest \subseteq interest'
    BY <1>2 DEF SetupSignalHandlers, Snapshot, InterestSetUp
  <1>3. ASSUME \/ \E p \in Procs : RegisterChild(p) \/ SkipDuplicateLogger(p) \/ DoForkThrows(p)
               \/ Notify \/ StartProgramsDone \/ EpollWait \/ (\E pid \in Pids : Reap(pid))
               \/ ReapDone \/ FatalCall \/ EventsDone \/ Decide \/ Halted
        PROVE  UNCHANGED interest
    BY <1>3 DEF RegisterChild, SkipDuplicateLogger, DoForkThrows, Notify, StartProgramsDone,
                EpollWait, Reap, ReapDone, FatalCall, EventsDone, Decide, Halted, vars, kernelVars
  <1>4. ASSUME Environment
        PROVE  UNCHANGED interest
    BY <1>4 DEF Environment, ChildExit, Exit, OperatorSignal, SendSignal, Adopt, Write, CloseStream
  <1> QED
    BY <1>1, <1>2, <1>3, <1>4 DEF Next, Daemon

LEMMA DrainedStep ==
  ASSUME Snapshot, Next, NEW fd \in interest \ interest'
  PROVE  unread[fd] = 0 /\ fd \notin writable
PROOF
  <1>1. PICK e \in batch : HandleEvent(e)
    BY DroppedByEvent
  <1>2. ~IsInput(e) /\ e.hup /\ HandleHangup(e.fd)
    BY <1>1 DEF HandleEvent, HandleSignal, HandleInput
  <1>3. fd = e.fd /\ ~e.in
    BY <1>2 DEF HandleHangup, IsInput
  <1> QED
    BY <1>2, <1>3 DEF Snapshot, HangupsHold

\* Whatever fails, and however old the snapshot is: a stream that is dropped
\* has been read to its end, and nobody can write to it any more.
THEOREM DrainedCorrect == Safety => DrainedBeforeDropped
PROOF
  <1> DEFINE Drained == \A fd \in interest \ interest' : unread[fd] = 0 /\ fd \notin writable
  <1>1. Snapshot /\ [Next]_vars => [Drained]_vars
    BY DrainedStep
  <1> QED
    BY SnapshotInvariant, <1>1, PTL DEF Safety, DrainedBeforeDropped

-----------------------------------------------------------------------------
(* Part 2: the tables of descriptors, when epoll_ctl() succeeds             *)

EpollWorks == "epoll_ctl" \notin Failures

OpenStreams(p) == {fd \in DOMAIN id_for_fd : id_for_fd[fd] = p}

\* A snapshot holds one event per descriptor, of descriptors that are still
\* watched: each hang-up is the first and only one of its stream.
BatchWatched ==
  /\ \A e \in batch : e.fd \in interest
  /\ \A e, f \in batch : e.fd = f.fd => e = f

Tables ==
  /\ Snapshot
  /\ BatchWatched
  /\ DOMAIN id_for_fd = interest \ {SignalFd}
  /\ \A fd \in DOMAIN id_for_fd : id_for_fd[fd] = fd[1]
  /\ \A p \in Procs : num_fd_for_id[p] = Cardinality(OpenStreams(p))

LEMMA InitTables == Init => Tables
PROOF
  <1> SUFFICES ASSUME Init PROVE Tables
    OBVIOUS
  <1>1. DOMAIN id_for_fd = {} /\ interest = {} /\ batch = {}
    BY DEF Init, KernelInit
  <1>2. \A p \in Procs : OpenStreams(p) = {} /\ num_fd_for_id[p] = 0
    BY <1>1 DEF OpenStreams, Init
  <1> QED
    BY <1>1, <1>2, InitSnapshot, FS_EmptySet DEF Tables, BatchWatched

\* There are no more than two streams of a program, so its streams that are
\* open are a finite set.
LEMMA StreamsFinite ==
  ASSUME NEW p \in Procs
  PROVE  /\ StreamsOf(p) = {<<p, "STDOUT">>, <<p, "STDERR">>}
         /\ IsFiniteSet(StreamsOf(p)) /\ Cardinality(StreamsOf(p)) = 2
PROOF
  <1>1. /\ StreamsOf(p) = {<<p, "STDOUT">>} \cup {<<p, "STDERR">>}
        /\ StreamsOf(p) = {<<p, "STDOUT">>, <<p, "STDERR">>}
    BY DEF StreamsOf, Streams
  <1>2. IsFiniteSet({<<p, "STDOUT">>}) /\ Cardinality({<<p, "STDOUT">>}) = 1
    BY FS_Singleton
  <1>3. <<p, "STDERR">> \notin {<<p, "STDOUT">>}
    OBVIOUS
  <1>4. /\ IsFiniteSet({<<p, "STDOUT">>} \cup {<<p, "STDERR">>})
        /\ Cardinality({<<p, "STDOUT">>} \cup {<<p, "STDERR">>}) = 1 + 1
    <2> DEFINE one == {<<p, "STDOUT">>}
               x   == <<p, "STDERR">>
    <2>1. IsFiniteSet(one) /\ Cardinality(one) = 1 /\ x \notin one
      BY <1>2, <1>3
    <2> HIDE DEF one, x
    <2>2. IsFiniteSet(one \cup {x}) /\ Cardinality(one \cup {x}) = 1 + 1
      BY <2>1, FS_AddElement
    <2> QED
      BY <2>2 DEF one, x
  <1>5. Cardinality(StreamsOf(p)) = 2 /\ IsFiniteSet(StreamsOf(p))
    BY <1>1, <1>4
  <1> QED
    BY <1>1, <1>5

LEMMA OpenFinite ==
  ASSUME Tables, NEW p \in Procs
  PROVE  OpenStreams(p) \subseteq StreamsOf(p) /\ IsFiniteSet(OpenStreams(p))
PROOF
  <1>1. OpenStreams(p) \subseteq StreamsOf(p)
    BY DEF OpenStreams, StreamsOf, Tables, Snapshot, TypeOK, ChildFds
  <1> QED
    BY <1>1, StreamsFinite, FS_Subset

\* The unsigned decrement of a count above zero does not wrap.
LEMMA DecrementPositive ==
  ASSUME NEW n \in 1 .. UintRange - 1
  PROVE  Decremented(n) = n - 1
PROOF
  <1>1. UintRange \in Nat /\ n - 1 \in 0 .. UintRange - 1
    BY ProcessHandlerAssumption
  <1>2. n + UintRange - 1 = (n - 1) + UintRange
    BY <1>1
  <1>3. \A m \in 0 .. UintRange - 1 : (m + UintRange) % UintRange = m
    BY <1>1
  <1> QED
    BY <1>1, <1>2, <1>3 DEF Decremented

\* The steps that leave epoll's list and the tables alone.
LEMMA QuietTables ==
  ASSUME Tables, Snapshot', UNCHANGED <<interest, fdTables>>,
         batch' \subseteq batch
  PROVE  Tables'
BY DEF Tables, BatchWatched, OpenStreams, fdTables

LEMMA LaunchTables ==
  ASSUME EpollWorks, Tables, Snapshot', NEW p \in Procs, Launch(p)
  PROVE  Tables'
PROOF
  <1> DEFINE out == <<p, "STDOUT">>
             err == <<p, "STDERR">>
  <1>1. /\ interest' = interest \cup {out, err}
        /\ id_for_fd' = Insert(Insert(id_for_fd, out, p), err, p)
        /\ num_fd_for_id' = [num_fd_for_id EXCEPT ![p] = 2]
    BY DEF Launch, RegisterWithEpoll, EpollWorks
  <1>2. batch' = {}
    BY DEF Launch, Tables, Snapshot, BatchPlace
  <1>3. /\ DOMAIN id_for_fd' = DOMAIN id_for_fd \cup {out, err}
        /\ \A fd \in DOMAIN id_for_fd' : id_for_fd'[fd] = IF fd \in {out, err} THEN p ELSE id_for_fd[fd]
    BY <1>1 DEF Insert
  <1>4. SignalFd \notin {out, err} /\ {out, err} = StreamsOf(p)
    BY KernelAssumption, StreamsFinite DEF ChildFds, Streams
  <1>5. \A fd \in DOMAIN id_for_fd' : id_for_fd'[fd] = fd[1]
    BY <1>3 DEF Tables
  <1>6. ASSUME NEW q \in Procs
        PROVE  num_fd_for_id'[q] = Cardinality(OpenStreams(q)')
    <2>1. num_fd_for_id \in [Procs -> 0 .. UintRange - 1]
      BY DEF Tables, Snapshot, TypeOK
    <2>2. CASE q = p
      <3>1. OpenStreams(p)' = StreamsOf(p)
        <4>1. DOMAIN id_for_fd \subseteq ChildFds
          BY DEF Tables, Snapshot, TypeOK
        <4>2. \A fd \in ChildFds : fd[1] = p => fd \in {out, err}
          BY DEF ChildFds, Streams
        <4> QED
          BY <1>3, <1>4, <1>5, <4>1, <4>2 DEF OpenStreams
      <3> QED
        BY <1>1, <2>1, <2>2, <3>1, StreamsFinite
    <2>3. CASE q # p
      <3>1. OpenStreams(q)' = OpenStreams(q)
        BY <1>3, <2>3 DEF OpenStreams, Tables
      <3> QED
        BY <1>1, <2>1, <2>3, <3>1 DEF Tables
    <2> QED
      BY <2>2, <2>3
  <1> QED
    BY <1>1, <1>2, <1>3, <1>4, <1>5, <1>6 DEF Tables, BatchWatched

LEMMA EpollWaitTables ==
  ASSUME Tables, Snapshot', EpollWait
  PROVE  Tables'
PROOF
  <1>1. batch' \subseteq ReadyEvents /\ UNCHANGED <<interest, fdTables>>
    BY DEF EpollWait, kernelVars, tables
  <1>2. \A e \in ReadyEvents : /\ e.fd \in interest
                              /\ e = [fd |-> e.fd, in |-> Readable(e.fd), hup |-> HungUp(e.fd)]
    BY DEF ReadyEvents
  <1> QED
    BY <1>1, <1>2 DEF Tables, BatchWatched, OpenStreams, fdTables

\* The count of a program's open streams is not zero when one of them hangs
\* up: the unsigned decrement does not wrap.
LEMMA HangupTables ==
  ASSUME Tables, Snapshot', NEW e \in batch, batch' = batch \ {e},
         e.hup, HandleHangup(e.fd)
  PROVE  Tables'
PROOF
  <1> DEFINE fd == e.fd
             p  == fd[1]
  <1>1. fd \in ChildFds /\ fd # SignalFd /\ fd \in DOMAIN id_for_fd
    BY KernelAssumption DEF Tables, BatchWatched, Snapshot, HangupsHold
  <1>2. p \in Procs /\ id_for_fd[fd] = p
    BY <1>1 DEF Tables, ChildFds
  <1>3. /\ interest' = interest \ {fd}
        /\ id_for_fd' = Erase(id_for_fd, fd)
        /\ num_fd_for_id' = [num_fd_for_id EXCEPT ![p] = Decremented(num_fd_for_id[p])]
    BY <1>1, <1>2 DEF HandleHangup, DropStream
  <1>4. /\ DOMAIN id_for_fd' = DOMAIN id_for_fd \ {fd}
        /\ \A f \in DOMAIN id_for_fd' : id_for_fd'[f] = id_for_fd[f]
    BY <1>3 DEF Erase
  <1>5. num_fd_for_id \in [Procs -> 0 .. UintRange - 1]
    BY DEF Tables, Snapshot, TypeOK
  <1>6. ASSUME NEW q \in Procs
        PROVE  num_fd_for_id'[q] = Cardinality(OpenStreams(q)')
    <2>1. CASE q = p
      <3>1. OpenStreams(p)' = OpenStreams(p) \ {fd} /\ fd \in OpenStreams(p)
        BY <1>1, <1>2, <1>4 DEF OpenStreams
      <3>2. /\ Cardinality(OpenStreams(p)') = Cardinality(OpenStreams(p)) - 1
            /\ Cardinality(OpenStreams(p)) # 0
        <4> DEFINE S == OpenStreams(p)
        <4>1. IsFiniteSet(S) /\ fd \in S
          BY <1>2, <3>1, OpenFinite
        <4> HIDE DEF S, fd
        <4>2. Cardinality(S \ {fd}) = Cardinality(S) - 1 /\ Cardinality(S) # 0
          BY <4>1, FS_RemoveElement, FS_EmptySet
        <4> QED
          BY <3>1, <4>2 DEF S, fd
      <3>3. num_fd_for_id[p] \in 1 .. UintRange - 1 /\ num_fd_for_id[p] = Cardinality(OpenStreams(p))
        BY <1>2, <1>5, <3>2 DEF Tables
      <3>4. Decremented(num_fd_for_id[p]) = num_fd_for_id[p] - 1
        BY <3>3, DecrementPositive
      <3> QED
        BY <1>2, <1>3, <1>5, <2>1, <3>2, <3>3, <3>4
    <2>2. CASE q # p
      <3>1. OpenStreams(q)' = OpenStreams(q)
        BY <1>2, <1>4, <2>2 DEF OpenStreams
      <3> QED
        BY <1>3, <1>5, <2>2, <3>1 DEF Tables
    <2> QED
      BY <2>1, <2>2
  <1>7. BatchWatched'
    BY <1>3 DEF Tables, BatchWatched
  <1> QED
    BY <1>3, <1>4, <1>6, <1>7 DEF Tables

LEMMA StepTables ==
  ASSUME EpollWorks, Tables, [Next]_vars
  PROVE  Tables'
PROOF
  <1>0. Snapshot'
    BY StepSnapshot DEF Tables
  <1> USE <1>0
  <1>1. ASSUME NEW p \in Procs, RegisterChild(p) \/ SkipDuplicateLogger(p) \/ DoForkThrows(p)
        PROVE  Tables'
    BY <1>1, QuietTables DEF RegisterChild, SkipDuplicateLogger, DoForkThrows, kernelVars, tables
  <1>2. ASSUME NEW p \in Procs, Launch(p)
        PROVE  Tables'
    BY <1>2, LaunchTables
  <1>3. ASSUME SetupSignalHandlers
        PROVE  Tables'
    <2>1. interest = {} /\ interest' = {SignalFd} /\ UNCHANGED <<batch, fdTables>>
      BY <1>3 DEF SetupSignalHandlers, Tables, Snapshot, InterestSetUp, tables
    <2>2. batch = {}
      BY <2>1 DEF Tables, BatchWatched
    <2> QED
      BY <2>1, <2>2 DEF Tables, BatchWatched, OpenStreams, fdTables
  <1>4. ASSUME \/ Notify \/ StartProgramsDone \/ ReapDone \/ FatalCall \/ EventsDone \/ Decide
               \/ \E pid \in Pids : Reap(pid)
        PROVE  Tables'
    BY <1>4, QuietTables DEF Notify, StartProgramsDone, ReapDone, FatalCall, EventsDone, Decide,
                             Reap, kernelVars, tables
  <1>5. ASSUME EpollWait
        PROVE  Tables'
    BY <1>5, EpollWaitTables
  <1>6. ASSUME NEW e \in batch, HandleEvent(e)
        PROVE  Tables'
    <2>1. CASE e.hup /\ HandleHangup(e.fd)
      BY <1>6, <2>1, HangupTables DEF HandleEvent
    <2>2. CASE HandleInput(e.fd) \/ \E s \in pending : HandleSignal(s)
      BY <1>6, <2>2, QuietTables DEF HandleEvent, HandleInput, HandleSignal
    <2> QED
      BY <1>6, <2>1, <2>2 DEF HandleEvent
  <1>7. ASSUME Environment
        PROVE  Tables'
    BY <1>7, QuietTables DEF Environment, ChildExit, Exit, OperatorSignal, SendSignal, Adopt, Write,
                             CloseStream, handlerVars, tables
  <1>8. ASSUME UNCHANGED vars
        PROVE  Tables'
    BY <1>8, QuietTables DEF vars, kernelVars, handlerVars, tables
  <1> QED
    BY <1>1, <1>2, <1>3, <1>4, <1>5, <1>6, <1>7, <1>8 DEF Next, Daemon, Halted

THEOREM TablesInvariant == ASSUME EpollWorks PROVE Safety => []Tables
PROOF
  <1>1. Tables /\ [Next]_vars => Tables'
    BY StepTables
  <1> QED
    BY InitTables, <1>1, PTL DEF Safety

\* id_for_fd knows every descriptor that epoll can report, and num_fd_for_id
\* is the number of a program's streams that are open.
THEOREM FdTablesCorrect == ASSUME EpollWorks PROVE Safety => []FdTablesAgree
PROOF
  <1>1. Tables => FdTablesAgree
    BY DEF Tables, FdTablesAgree, OpenStreams
  <1> QED
    BY TablesInvariant, <1>1, PTL

=============================================================================
