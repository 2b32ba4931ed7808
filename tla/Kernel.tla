------------------------------- MODULE Kernel -------------------------------
(***************************************************************************)
(* The operating system as scinit uses it: the process table with zombies, *)
(* exit statuses and pid reuse, orphans adopted by init, the signals       *)
(* blocked into the signalfd, the output streams of the children and the   *)
(* epoll interest list.  None of this is scinit's code; it is modelled     *)
(* from the calls ProcessHandler.cpp and ChildProcess.cpp make.            *)
(***************************************************************************)
EXTENDS Programs

CONSTANTS
  Pids,             \* process ids fork() may return
  MaxAdopted,       \* bound: orphans adopted over the daemon's life
  OperatorSignals,  \* signals sent to the daemon, each at most once (bound)
  PidOne,           \* TRUE: the daemon is PID 1 of a container
  ActiveFds,        \* bound: the streams whose traffic is explored
  MaxUnread,        \* bound: characters buffered in a stream
  SignalFd          \* the signalfd

\* fork() returns -1 on failure; it is never a process id.
NoPid == -1

\* The program of a process that is not a child started by the daemon.
Orphan == -1

\* The read ends of every program's two streams.  The daemon never closes
\* them, so a descriptor belongs to one stream for good.
Streams  == {"STDOUT", "STDERR"}
ChildFds == Procs \X Streams
Fds      == ChildFds \cup {SignalFd}
StreamsOf(p) == {p} \X Streams

ASSUME KernelAssumption ==
  /\ IsFiniteSet(Pids)
  /\ NoPid \notin Pids
  /\ MaxAdopted \in Nat
  /\ OperatorSignals \subseteq {"SIGINT", "SIGQUIT", "SIGTERM"}
  /\ PidOne \in BOOLEAN
  /\ ActiveFds \subseteq ChildFds
  /\ MaxUnread \in Nat
  /\ SignalFd \notin ChildFds

VARIABLES
  process,    \* process[pid]: slot of the process table
  program,    \* program[pid]: the program it executes, or Orphan
  asked,      \* pids that a SIGTERM was delivered to
  adopted,    \* orphans adopted so far
  pending,    \* signals waiting in the signalfd
  sent,       \* operator signals sent so far
  unread,     \* unread[fd]: characters buffered in the stream
  writable,   \* streams some process still holds the write end of
  interest    \* epoll interest list

kernelVars ==
  <<process, program, asked, adopted, pending, sent, unread, writable, interest>>
processVars == <<process, program, asked>>
streamVars  == <<unread, writable>>

\* A process that exited is a zombie, keeping its status, until it is reaped.
ProcessSlot == {"free", "alive", "succeeded", "failed"}
IsZombie(pid) == process[pid] \in {"succeeded", "failed"}
Zombies == {pid \in Pids : IsZombie(pid)}

\* The daemon blocks these once its signalfd exists; SIGTERM is not included.
Blocked == IF SignalFd \in interest THEN {"SIGCHLD", "SIGINT", "SIGQUIT"} ELSE {}

KernelTypeOK ==
  /\ process \in [Pids -> ProcessSlot]
  /\ program \in [Pids -> Procs \cup {Orphan}]
  /\ asked \subseteq Pids
  /\ adopted \in 0 .. MaxAdopted
  /\ pending \subseteq {"SIGCHLD", "SIGINT", "SIGQUIT"}
  /\ sent \subseteq OperatorSignals
  /\ unread \in [ChildFds -> 0 .. MaxUnread]
  /\ writable \subseteq ChildFds
  /\ interest \subseteq Fds

KernelInit ==
  /\ process = [pid \in Pids |-> "free"]
  /\ program = [pid \in Pids |-> Orphan]
  /\ asked = {} /\ adopted = 0
  /\ pending = {} /\ sent = {}
  /\ unread = [fd \in ChildFds |-> 0]
  /\ writable = {}
  /\ interest = {}

-----------------------------------------------------------------------------
(* What processes and operators do on their own.                            *)

\* A process exits.  SIGCHLD is a standard signal: one that is already
\* pending absorbs the next.  Its streams may stay open: a descendant can
\* hold them.
Exit(pid) ==
  /\ process[pid] = "alive"
  /\ \E status \in {"succeeded", "failed"} :
       process' = [process EXCEPT ![pid] = status]
  /\ pending' = pending \cup ({"SIGCHLD"} \cap Blocked)
  /\ UNCHANGED <<program, asked, adopted, sent, streamVars, interest>>

\* An orphaned descendant becomes a child of init.
Adopt(pid) ==
  /\ PidOne /\ adopted < MaxAdopted
  /\ process[pid] = "free"
  /\ process' = [process EXCEPT ![pid] = "alive"]
  /\ adopted' = adopted + 1
  /\ UNCHANGED <<program, asked, pending, sent, streamVars, interest>>

\* A blocked signal becomes pending; any other takes its default action.
SendSignal(s) ==
  /\ s \in OperatorSignals \ sent
  /\ sent' = sent \cup {s}
  /\ pending' = pending \cup ({s} \cap Blocked)
  /\ UNCHANGED <<processVars, adopted, streamVars, interest>>

\* The default action ends the daemon, unless it is PID 1: the kernel
\* discards signals init has no handler for.
Kills(s) == s \notin Blocked /\ ~PidOne

Write(fd) ==
  /\ fd \in writable \cap ActiveFds
  /\ unread[fd] < MaxUnread
  /\ unread' = [unread EXCEPT ![fd] = @ + 1]
  /\ UNCHANGED <<processVars, adopted, pending, sent, writable, interest>>

\* The last holder of the write end closes it.
CloseStream(fd) ==
  /\ fd \in writable \cap ActiveFds
  /\ writable' = writable \ {fd}
  /\ UNCHANGED <<processVars, adopted, pending, sent, unread, interest>>

-----------------------------------------------------------------------------
(* System calls.  Each constrains only the variables it names.              *)

\* fork() and exec in the child; the child holds both write ends.
Spawn(pid, p) ==
  /\ process[pid] = "free"
  /\ process' = [process EXCEPT ![pid] = "alive"]
  /\ program' = [program EXCEPT ![pid] = p]
  /\ writable' = writable \cup StreamsOf(p)

\* waitpid() of a zombie: the slot, and with it the pid, is free again.
Release(pid) ==
  /\ process' = [process EXCEPT ![pid] = "free"]
  /\ program' = [program EXCEPT ![pid] = Orphan]
  /\ asked' = asked \ {pid}

\* kill() of each of a set of pids; pid -1 addresses every process.  SIGQUIT
\* is blocked in the children: the mask set up by the daemon is inherited
\* across fork() and exec.
Kill(pids, s) ==
  asked' = IF s = "SIGTERM"
             THEN asked \cup {pid \in Pids : /\ process[pid] = "alive"
                                             /\ pid \in pids \/ NoPid \in pids}
             ELSE asked

Readable(fd) == \/ fd = SignalFd /\ pending # {}
                \/ fd # SignalFd /\ unread[fd] > 0
HungUp(fd)   == fd \in ChildFds /\ fd \notin writable

\* The events epoll_wait can report now, as a level-triggered snapshot.
ReadyEvents ==
  { [fd |-> fd, in |-> Readable(fd), hup |-> HungUp(fd)] :
      fd \in {f \in interest : Readable(f) \/ HungUp(f)} }

=============================================================================
