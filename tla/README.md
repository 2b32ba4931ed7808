# A TLA+ model of scinit

scinit is a small init daemon for containers: it reads a YAML configuration,
starts the programs in it in a declared order, forwards signals to them, logs
what they print, reaps zombies and returns when nothing is left to do. This
directory holds a model of it that TLC checks on small instances, and theorems
about it that TLAPS proves for every value of the constants.

All line numbers below are those of `src/src/` unless a path is given.

## The system

| part | state it keeps | operations | hard about it |
|---|---|---|---|
| `Config` (Config.h) | `processes`, `child_counter`, two tables of the handler | load files, skip / reject / accept an entry, resolve user and group | four ways to name two ids; ids over several files |
| `ChildProcess` (ChildProcess.cpp), daemon's side | `state`, `conditions` | `propagate_dependencies`, `should_wait_for`, `notify_of_state`, `do_fork`, `register_with_epoll`, `handle_process_event` | registration order; states that are passed through quickly; what an exception skips |
| `ChildProcess`, child's side | credentials of the new process, owners of its terminals | `handle_caps`, exec | the order of a dozen calls, each of which can fail |
| `ChildProcess::handle_env` | environment of the new process | whitelist, defaults, `env` entries | what overrides what; entries that see earlier ones; the exceptions |
| `ProcessHandler` (ProcessHandler.cpp) | `id_for_pid`, `id_for_fd`/`fd_type`, `num_fd_for_id`, `number_of_running_procs`, `should_quit`, the logger registry | `register_processes`, `setup_signal_handlers`, `start_programs`, the event loop, `sigchld_received`, `signal_received`, `event_received` | everything interleaves with the kernel: pid reuse, coalesced SIGCHLD, stale epoll snapshots, orphans |
| `event_received`, `handle_child_output` | the log | read a chunk, strip newlines, log | signed indexes over a chunk that may be empty, all newlines or hold NULs; lines split over reads |
| `main` (main.cpp) | - | find the files, load, register, run | a directory's files come in any order |
| the kernel (external) | processes, signals, pipes, epoll, credentials | fork, exit, waitpid, kill, read, epoll_wait, capset, ... | - |

How they interact. `main` loads the configuration; the constructor of every
child registers an exit callback and an id with the handler.
`register_processes` lets every child, in list order, push its `before` and
pull its `after` conditions. The loop calls `start_programs` (once before it,
once at its top, once at its bottom), which lets every child look at the states
of the others and then forks the READY ones, each under a logger of the
program's name. `do_fork` and `register_with_epoll` write into the handler's
tables. The daemon is one thread; the concurrency is between it, its children,
orphans adopted by PID 1, and whoever sends it signals.

What makes each part correct: a program runs at most once and only after what
it was declared to follow; the tables say what the kernel says although pids
are reused; the daemon neither returns while a child runs nor for want of work
that it still has; no stream is dropped undrained; a signal goes to the
children and to nobody else; a program gets exactly the user, group,
capabilities and environment that its entry names, and fails to start only for
want of something the daemon never had; what it prints is logged completely,
in order and at the right level, and cannot stop the daemon. `PROJECT.json` lists, under "hazards", where
in the code each of these can go wrong.

## The modules

| module | models | notes |
|---|---|---|
| `Programs` | the list of programs the handler gets | program = `graph_id` = position in the list; one run covers a set of configurations, chosen in `Init` |
| `ChildProcess` | life cycle and conditions | the list of conditions is a set: only "mentions this process" and "all hold" are asked of it |
| `Kernel` | process table, zombies, pid reuse, orphans, signal mask and signalfd, streams, epoll | external |
| `ProcessHandler` | registration, `start_programs`, event loop | extends `ChildProcess` and `Kernel`; the specification `Spec` |
| `Supervision` | the promise, without epoll, pids, signals or counters | abstract specification |
| `HandlerProperties` | properties of the supervisor, and the refinement mapping to `Supervision` | |
| `MCProcessHandler` | instances for TLC | |
| `HandlerTypes_proofs` | theorem: types | |
| `HandlerSafety_proofs` | theorems: pid table, life cycle, counting, signals | on the types |
| `HandlerStreams_proofs` | theorems: epoll's snapshot, the tables of descriptors | on the types |
| `HandlerOrder_proofs` | theorems: nothing left behind, starting order, refinement | on the two before |
| `Config` | `--config` and the loader | an entry's fields are `Unset`, `Garbled` (what `as<...>()` cannot convert) or a value; of the lists of strings `capabilities` stands for `args`, `before` and `after` too when one has such an item; a file is `Broken` or a sequence of entries, a directory maps names to files |
| `Environment` | `handle_env` | pure operators, extends `Config`; a value is its first line and the set of its further lines, a template is the one variable it refers to; a child's settings keep their positions in the entry's `env` list, where the code appends them to a list |
| `Credentials` | Linux's rules for setuid, setgid, capset, ambient capabilities, chown, chmod, exec | external, capabilities(7), and libcap's texts as far as one word per capability or `all`; lists with commas and numbers are not modelled |
| `Privileges` | `do_fork` in the parent up to `fork`, and `handle_caps` in the child | one action per call; `Call` is "it succeeds or the child exits" |
| `ChildOutput` | a program's two streams, the reads, the stripping, the log | positions count from 0 as in the code |
| `Startup` | loader, fork, `handle_caps` and output put together | extends `Privileges` and `ChildOutput`; the specification `StartupSpec` |
| `StartupProperties` | its properties | stated over entries of the files, not over the objects made of them |
| `MCStartup` | instances for TLC | |
| `StartupLoader_proofs` | theorems: ids and tables, names before numbers | |
| `StartupOutput_proofs` | theorems: stripping, reader and log | |
| `StartupSafety_proofs` | theorems: `handle_caps`, identity, terminals, types | on the two before |
| `StartupEnvironment_proofs` | theorems: the environment | on the one before |

Definitions keep the names of the source. In `ProcessHandler` the variable `pc`
says where the thread is:

| `pc` | code | actions |
|---|---|---|
| `register` | `register_processes`, `setup_signal_handlers` | `RegisterChild`, `SetupSignalHandlers` |
| `notify` | first loop of `start_programs` | `Notify` |
| `start` | second loop, one program per step | `SkipDuplicateLogger`, `DoForkThrows`, `Launch`, `StartProgramsDone` |
| `wait` | `epoll_wait` | `EpollWait` |
| `reap` | `waitpid` loop | `Reap`, `ReapDone` |
| `events` | loop over the snapshot | `HandleEvent`, `EventsDone` |
| `decide` | lines 226-237 | `Decide` |
| `returned`, `aborted`, `killed` | end of the daemon | `Halted` |

`site` remembers which of the three calls of `start_programs` is running,
`todo` what a loop over the programs has left, `batch` what is left of the
snapshot. Steps that no other actor can tell apart are one action: `Launch` is
`do_fork`, `register_with_epoll` and the two lines after them. The kernel's own
actions may happen between any two steps. A definition called `X_Fault` (for
instance `Forget_Never`) stands before the definition `X` it is a wrong
version of; it is not part of the model. It says which mistake the property
named in `PROJECT.json` "mutants" would notice.

What is abstracted in the supervisor's modules: the text of output (a chunk is
blank or not; `ChildOutput` has the text), log lines, program arguments, what
`do_fork` prepares (`Privileges` has it), and `fd_type`, which has the same keys
as `id_for_fd`. `UintRange` stands for 2^32: all that matters of it is that
0 - 1 wraps. Four kinds of failure are modelled, and a run chooses among them with
`Failures`. Three leave the daemon running: `do_fork` throws before forking,
`fork` returns -1 unnoticed, and `epoll_ctl` fails after the fork. The fourth,
`FatalCall`, stands for every call whose failure is thrown out of `main`:
sigprocmask, signalfd and epoll_create1 before the loop, a short read of the
signalfd and a failing `EPOLL_CTL_DEL` within it.

In `Startup` the variable `loader` says how far the loader is (`Invoke`,
`LoadFile`, `SkipEntry`, `RejectEntry`, `AcceptEntry`, `FileDone`, `Loaded`), and
`step` which call of the child comes next: `parent` is before `fork`
(`OutOfDescriptors`, `BadEnvironment`, `Fork`), `chown_out` to `chmod_err` are
the terminals, `gain` to `drop` the capabilities, `exec` is execvpe. The child
may end as `exited` or `no_program`; a program that runs (`executed`) talks:
`PutChar` is its write, `ReadChunk` and `ReadFails` are the daemon's read. One
child is followed at a time, because children share nothing until they run.

## The runs

| run | question | instance |
|---|---|---|
| `supervision` | do tables, counter and states agree with the kernel, and is the declared order kept? `PidTableFaithful`, `RunningHasProcess`, `CountAgrees`, `ExitsLast`, `NoStartableLeftBehind`, `SignalsReachOnlyChildren`, `FdTablesAgree`, `LifecycleOrder`; `StartOrder`, `Implements` (refinement of `Supervision`) | 3 programs in 89 honoured configurations, see below, 3 pids, 1 orphan, one SIGINT, PID 1, `do_fork` may throw, one stream that a child may close while it runs |
| `streams` | `TypeOK`, `DrainedBeforeDropped` | 2 independent programs, 2 pids, both streams of one program with 2 characters, an event array of 2, a buffer of 1, all four failures, not PID 1, SIGTERM |
| `liveness` | `ZombiesReaped`, `QuitTerminates`, `DependentsStart` | 2 programs, 3 pids, 1 orphan, one SIGINT, fairness, no symmetry |
| `startup` | from `--config` to the log: `StartupTypeOK`, `ListFaithful`, `NamesTakePrecedence`; `ExecAsConfigured`, `FailsOnlyForCause`, `TerminalHandedOver`; `EnvironmentFiltered`, `UserNamed`, `SettingsInOrder`; `OutputFaithful`, `EntriesTrimmed`, `ReaderSurvives` | 240 combinations of uid, gid, user and group; 36 of user, terminal and capabilities, the word `all` included; 8 entries with another field that does not convert; all lists of up to 2 `env` items out of 8 with 3 settings of `default_env`, and all lists of 3; directories of 2 files out of 7 kinds and of 3 files out of 3 kinds, in any order; 10 kinds of daemon credentials and 5 odd environments; one program that writes up to 5 characters out of 4 to its streams, read 3 at a time |

Why the bounds are enough. Two programs and three pids let a pid be freed and
given to the other program or to an orphan while both exist; a third program
is needed only for chains and for a bystander. The configurations of
`supervision` are pairs and triples. A pair is two programs of one type with at
most one `before` and one `after`, on oneself and cycles included, and with
different names or the same one; the third program of the list then carries the
daemon's name, so that it is never started. A triple is three oneshot programs
with any two declarations that name all three of them (a oneshot program waits
for an exit, the longer of the two conditions), a chain of three simple ones, or
a chain of mixed types. In a pair every program can run at once next to the
orphan; the triples are for what passes along a chain or joins in one program.
Stream traffic is left to `streams`. One
orphan is enough to confuse a counter. Signals are sent at most once each,
because after the first `should_quit` is set and a second one repeats the
forwarding. Two unread characters and a one-character buffer make a stream need
two reads; an array of two events is exceeded by the two streams and the
signalfd. In `startup` entries do not influence each other beyond the counter
and the tables, so the combinations of fields are explored one entry at a time
and the sequences of entries and files with a few of them. The ten daemons are
root with everything (inheritable or not), root with one kind of capability
missing, and users with ambient capabilities or without any: each call of
`handle_caps` fails for some of them. Three items are what a setting, a later
one of the same name and a template between or after them need; the eight items
hold a whitelisted name, two values of a name, templates that refer to another
variable, to themselves and to one that may be missing, and a value of two
lines. Five characters over an alphabet of a letter, a newline and a NUL with reads of at most three make every chunk of up to three
characters, a second chunk after each, and both streams in turn; the indexes of
the stripping depend on which of the first, the middle and the last characters
are newlines. Deadlock is checked in every run: a daemon or
child that has ended stutters explicitly (`Halted`, `Ended`).

`supervision` and `liveness` are restricted to configurations the code honours:
`before` names programs further down the list only, and `after` programs of the
same type as the one that declares it. `Honoured` in `HandlerProperties` states
the restriction; the runs `after_type` and `late_before` show what happens
without it. Only `StartOrder` and `Implements` need it: the theorems about the
other properties of `supervision` are for any configuration. `FailsOnlyForCause` speaks of the ids the loader computed;
`numeric_ids` shows that they need not be those of the file. `ExecAsConfigured`
excepts programs that run as root: the kernel gives root the whole bounding set
at exec. An entry that lists `all` gets less than it says, since
`cap_from_text` knows the word and `cap_from_name` does not: the loop at
ChildProcess.cpp:135 warns that it is "not adding to set" and raises
capability 0, which is CAP_CHOWN, so the program can use that one and those
named next to `all`, although all of them are inheritable; `ExecAsConfigured`
states this outcome. `TerminalHandedOver` speaks of the terminal of standard output only,
since the other's owner never changes (ChildProcess.cpp:282, run
`stderr_terminal`).
`EnvironmentFiltered` and `UserNamed` except environments in which a value spans
lines, since the cut into lines then makes variables of the further lines;
`SettingsInOrder` does not. `OutputFaithful` and, for the end of an entry,
`EntriesTrimmed` except streams with a NUL, at which `std::string(buf)` ends the
chunk; `ReaderSurvives` does not.

Runs that show a disagreement between the code and what is said of it; each
finds a counterexample, and "findings" quotes the line:

| run | what it shows |
|---|---|
| `after_type` | the state an `after` dependency waits for is chosen by the wrong program's type (ChildProcess.cpp:402) |
| `late_before` | a `before` that names an earlier program has no effect (ChildProcess.cpp:413) |
| `quit_with_dependents` | programs are launched after the quit request and then awaited for ever (ProcessHandler.cpp:207) |
| `sigterm` | SIGTERM is not in the signal mask: one that is sent to PID 1 while a child runs is dropped, and the child is never asked to stop (ProcessHandler.cpp:246) |
| `output_lost` | the daemon returns with unread output (ProcessHandler.cpp:226) |
| `missed_window` | a dependent two links down a chain never sees its simple dependency RUNNING (ProcessHandler.cpp:232) |
| `numeric_ids` | a numeric gid is stored in uid, and setgid(-1) then fails (Config.h:128) |
| `stderr_terminal` | the name of the second terminal is read from the first one's descriptor, so that a program does not own the terminal of its standard error (ChildProcess.cpp:282) |

## Fairness

`Fairness` has two parts. Weak fairness of `Daemon`: it is one thread that the
operating system schedules, no call it makes blocks for ever (`epoll_wait` has a
timeout of 1000 ms, `waitpid` has WNOHANG, reads are of descriptors that epoll
reported), and `Daemon` is enabled until the daemon has ended. Weak fairness of
the exit of a process that received SIGTERM: this is an assumption about
programs, without which nothing could be said of shutting down; no other
process is assumed to exit ever, and SIGINT, writers and orphans have no
fairness. `ZombiesReaped` and `DependentsStart` use only the first part. That
output is eventually read is not claimed: `epoll_wait` may return the same
events again when more are ready than the array holds, and nothing in the code
makes it fair among descriptors.

## The theorems

Every invariant and every action property that a passing run checks is also a
theorem, for any number of programs, pids, orphans, streams, characters, ids,
capabilities and settings, and for every configuration, the ones with cycles
included. What a theorem assumes beyond the assumptions on the constants is a
hypothesis of its own:

| hypothesis | says | for |
|---|---|---|
| none | all four failures are possible | `TypeOK`, `PidTableFaithful`, `LifecycleOrder`, `DrainedBeforeDropped`; all of `Startup` |
| `EpollWorks` | `epoll_ctl` does not fail after the fork | `FdTablesAgree` |
| `Dependable` | neither does `fork` | `CountAgrees`, `ExitsLast`, `RunningHasProcess`, `SignalsReachOnlyChildren`, `NoStartableLeftBehind` |
| `HonouredConfigs` | every configuration is `Honoured` | `StartOrder`, `Implements` |
| `Reliable` | `Dependable`, no fatal failure, and SIGTERM does not kill the daemon | `Implements` |

Run `supervision` satisfies all of them. Without them the properties need not hold: a child whose streams could not
be registered runs without being counted, and pid -1 in the table addresses
every process; `after_type` and `late_before` break the order for configurations
that are not honoured; and a daemon that is killed leaves its children running,
which the abstract supervisor's `Close` does not allow.

### The supervisor

`HandlerTypes_proofs` proves `Safety => []TypeOK`, one step per action.

`Books` (`HandlerSafety_proofs`): `PidTableFaithful` alone is not inductive.
Reaping a pid preserves it only if no other pid is recorded for the same
program, and launching only if the program has no entry yet. So `Books` adds
that free slots of the process table belong to no program (`FreeSlotsEmpty`),
that recorded programs are RUNNING (`TableRunning`) and recorded once
(`TableInjective`), that nothing runs before the registration is over
(`NothingStarted`), and that what the second pass of `start_programs` has left
to start is READY (`TodoReady`). From it follow `PidTableCorrect` and
`LifecycleCorrect`.

`Counted` adds that every RUNNING program is recorded, that the counter is the
cardinality of the set of supervised processes, and that signalled processes are
supervised.

`Snapshot` (`HandlerStreams_proofs`): a hang-up in `batch` without input is of a
stream that has nothing unread and no writer left, and since nobody can open
such a stream again, that is still so when `event_received` gets to it, however
old the snapshot is. `DrainedCorrect` follows from the step that handles the
event. `Tables` ties `id_for_fd`, `num_fd_for_id`, epoll's interest list and the
snapshot together: descriptors belong to one program each, the snapshot has one
event per descriptor and only of watched ones, so each hang-up is handled once
and the unsigned count is never decremented below zero.

`Startable` (`HandlerOrder_proofs`): the daemon returns for want of work at the
end of a call of `start_programs` (line 233), so the invariant says what a call
has achieved so far. A READY program is still to be visited or its logger's name
is taken (`ReadyVisited`), and while nothing runs no BLOCKED program could have
been made READY (`BlockedWaits`). `notify_of_state` can change no condition's
truth, because conditions wait for RUNNING or DONE and it assigns neither.

`Ordered`: every condition waits for the state in which its program counts as
started (`ConditionsRight`), and every declaration of a program that
`register_processes` has visited became a condition (`Propagated`). A program
can be READY at its own turn of the registration only if nothing has to come
before it (`ReadyInOrder`), which needs that programs are visited in list order
(`VisitedInOrder`) and the configuration is honoured. So when `do_fork` is
called, everything the program needs has started.

`SupervisorImplements` maps the phase of a program to the kernel's process table
and the recorded outcomes (`ObservedPhase`) and `open` to `Up`. `StepImplements`
shows for each action that it is a step of `Supervision` or a stutter: `Launch`
is `Start` (with `Ordered` for its guard), `Reap` of a supervised process is
`Finish`, the return in `Decide` or `StartProgramsDone` is `Close` (with
`Counted`: zero means that none runs), everything else stutters (with `Tables`:
no event throws).

### From the file to the log

`Loading` (`StartupLoader_proofs`): with the reader at an entry of a file, the
list holds one object per complete entry before that place, each made of its
entry, and the counter is their number. `Place` is a cardinality, so the step of
`AcceptEntry` needs that one more place precedes the next entry, and the step
from file to file that nothing lies between them. Names before numbers follows,
since every object is made by `Child` of its entry.

`OnTheWay` (`StartupSafety_proofs`) says what a daemon that has enough
(`Suffices`) has left its child at each call: its own credentials until the
terminals are given away, the terminal of standard output in the child's name
from the first `chown` on, `Transitional` as permitted capabilities from the
first `cap_set_proc` on, effective ones until `setuid`, KEEPCAPS set when
`setuid` comes, and the inheritable ones before the ambient ones are raised.
Each call's condition follows from that, so `exited` is reached only if the
daemon did not suffice (`HandleCapsFailsForCause`). `Identity` adds, whatever
the daemon had, that the child was made from its entry (`Loading`, `Chosen`),
what the calls so far have made of its ids and of the four capability sets
(`Becoming`; `RaisedRemains` relates the set that is raised to the one that
remains, and both to the entry's words), and whose the terminals are (`HandedOver`). `Typed` adds the types
of everything else.

`Surroundings` (`StartupEnvironment_proofs`) says that the environment of a
forked child is that of `HandleEnv` applied to its entry, and that a child which
failed before the fork failed in it. The rest are lemmas about the operators:
which names `Inherited`, `Defaults` and `Forced` can have; that the cut into
lines adds no name when no value spans lines; and that the recursive function of
`handle_env`, which goes down the list, and that of `ValueAfter`, which looks up
from a place, agree at every place.

`NeverThrows` (`StartupOutput_proofs`): the leading newlines that
`event_received` skips end at the first NUL at the latest, because a NUL is no
newline, and otherwise within the chunk; so `begin` is at most the length of the
C string, and after a failed read it is 0. `ReaderNeverAborts` follows.
`StrippedChunk` and `VisiblyStripped` say what the two indexes leave of a chunk:
nothing but newlines is taken away, at the front or at the back, and none is
left there. `Logging` relates what is unread to what was written (a NUL that is
read was written). For `OutputFaithfulCorrect` the invariant is the property
itself; its steps need that taking the newlines out of a text, and putting the
entries of one level in a row, go piece by piece (`VisiblyRow`,
`LoggedOneMore`), which rests on `FlattenOneMore`: the row of pieces with one
more is the row, and that piece.

Recursive functions are reasoned about without the library's induction theorems,
which take an operator as a parameter: `UpTo` states induction for a *set* of
places, and rests on the minimum of a set of naturals (`MinOfNaturals`).

### Assumptions on the constants

`ProgramsAssumption`, `KernelAssumption` (finitely many pids, -1 is none of
them) and `ProcessHandlerAssumption` for the supervisor; `ConfigAssumption` (a
file holds a list of entries, a directory finitely many files),
`StartupAssumption` (the account databases and the entries give ids, flags are
booleans, `env` is a list), `CredentialsAssumption` (ids are naturals, 0 is
one, CAP_CHOWN is a capability and `all` is not the name of one), `PrivilegesAssumption` (the daemon has credentials and a list of
variables) and `ChildOutputAssumption` (a newline is not a NUL, the buffer is
not empty) for `Startup`. TLC evaluates them in every run of `MCProcessHandler`
and of `MCStartup`.

### Only model-checked

Liveness: `ZombiesReaped`, `QuitTerminates` and `DependentsStart` need fairness
and ENABLED, which the prover does not handle. The runs that find a
counterexample have nothing to prove.

## Not modelled, and the plan

What could still be proved: the safety half of `QuitTerminates` (once
`should_quit` is set and no dependent is waiting, nothing is launched any more),
and a variant of `CountAgrees` that says by how much the counter is off after a
failed `fork` or `epoll_ctl`.

Left out for good: the parsing of options by boost with `--help` and
`--verbose`, the syntax of YAML and of Inja beyond references to variables,
program arguments, window sizes and `dup2`, log formats, the exception classes,
build files. None of them keeps a state that another part reads. `BACKOFF` and
restarting are declared in the source but not implemented.
