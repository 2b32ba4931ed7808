----------------------------- MODULE Privileges -----------------------------
(***************************************************************************)
(* How a child becomes its program (ChildProcess.cpp: do_fork and          *)
(* handle_caps): the parent prepares terminals and environment, the forked *)
(* child then makes one action per call that changes its credentials or    *)
(* its terminals, and exit(-1) as soon as one of them fails.               *)
(***************************************************************************)
EXTENDS Environment, Credentials

CONSTANT Hosts  \* what the daemon itself may run with: [creds, environ]

ASSUME PrivilegesAssumption ==
  \A h \in Hosts : h.creds \in Credential /\ IsList(h.environ)

VARIABLES
  host,        \* the daemon's credentials and environment
  step,        \* the next call of the child, or how it ended
  child,       \* the object do_fork was called on
  creds,       \* the child's credentials
  keepcaps,    \* PR_SET_KEEPCAPS
  terminals,   \* the owners of the terminals that openpty made
  environment  \* the lines that execvpe gets

privilegeVars == <<host, step, child, creds, keepcaps, terminals, environment>>

\* Before fork() there is no child.
NoChild == [id |-> NoId]

PrivilegesInit ==
  /\ host \in Hosts
  /\ step = "parent" /\ child = NoChild
  /\ creds = host.creds /\ keepcaps = FALSE
  /\ terminals = [t \in {} |-> 0]
  /\ environment = {}

\* One call: it succeeds and leaves credentials c, or the child exits.
Call(from, succeeds, c, to) ==
  /\ step = from
  /\ IF succeeds THEN creds' = c /\ step' = to
                 ELSE step' = "exited" /\ UNCHANGED creds
  /\ UNCHANGED <<host, child, environment>>

\* The capabilities needed on the way, those raised and those that remain.
Transitional ==
  {"CAP_SETUID", "CAP_SETGID", "CAP_SETPCAP"} \cup CapsFromText(child.capabilities)
Raised == {CapFromName(word) : word \in child.capabilities}
Remaining_Transitional == Transitional  \* fault: the set of step 1 is used again
Remaining == CapsFromText(child.capabilities)

\* Both names are taken from the descriptor of the first terminal.
TtyName_Stderr == [STDOUT |-> "STDERR", STDERR |-> "STDERR"]  \* fault: of the second
TtyName == [STDOUT |-> "STDOUT", STDERR |-> "STDOUT"]

-----------------------------------------------------------------------------
(* In the parent                                                            *)

\* pipe() or openpty() fails and do_fork throws.
OutOfDescriptors(c) ==
  /\ step = "parent"
  /\ step' = "no_descriptors" /\ child' = c
  /\ UNCHANGED <<host, creds, keepcaps, terminals, environment>>

\* handle_env throws.
BadEnvironment(c) ==
  /\ step = "parent" /\ EnvThrows(c, host.environ)
  /\ step' = "no_environment" /\ child' = c
  /\ UNCHANGED <<host, creds, keepcaps, terminals, environment>>

\* fork(); several children run side by side, each on its own.
Fork(c) ==
  /\ step = "parent" /\ ~EnvThrows(c, host.environ)
  /\ child' = c
  /\ step' = IF c.want_tty THEN "chown_out" ELSE "gain"
  /\ terminals' = IF c.want_tty
                    THEN [t \in {"STDOUT", "STDERR"} |-> [uid |-> creds.uid, gid |-> creds.gid]]
                    ELSE terminals
  /\ environment' = HandleEnv(c, host.environ)
  /\ UNCHANGED <<host, creds, keepcaps>>

-----------------------------------------------------------------------------
(* In the child                                                             *)

ChownTerminal(from, stream, to) ==
  LET tty == TtyName[stream]
      may == CanChown(creds, terminals[tty], child.uid, child.gid)
  IN /\ Call(from, may, creds, to)
     /\ terminals' = IF may THEN [terminals EXCEPT ![tty] = Chown(@, child.uid, child.gid)]
                            ELSE terminals
     /\ UNCHANGED keepcaps

ChmodTerminal(from, stream, to) ==
  /\ Call(from, CanChmod(creds, terminals[TtyName[stream]]), creds, to)
  /\ UNCHANGED <<keepcaps, terminals>>

GiveTerminals ==
  \/ ChownTerminal("chown_out", "STDOUT", "chown_err")
  \/ ChownTerminal("chown_err", "STDERR", "chmod_out")
  \/ ChmodTerminal("chmod_out", "STDOUT", "chmod_err")
  \/ ChmodTerminal("chmod_err", "STDERR", "gain")

GainCapabilities ==
  /\ Call("gain", CanCapSet(creds, Transitional), CapSet(creds, Transitional), "setgid")
  /\ UNCHANGED <<keepcaps, terminals>>

\* prctl(PR_SET_KEEPCAPS, 1) precedes setgid.
Keep_Never == FALSE  \* fault: the prctl is missing
Keep == TRUE
SetGroup ==
  /\ Call("setgid", CanSetGid(creds, child.gid), SetGid(creds, child.gid), "setuid")
  /\ keepcaps' = Keep
  /\ UNCHANGED terminals

\* prctl(PR_SET_KEEPCAPS, 0) follows setuid.
SetUser ==
  /\ Call("setuid", CanSetUid(creds, child.uid), SetUid(creds, child.uid, keepcaps), "regain")
  /\ keepcaps' = FALSE
  /\ UNCHANGED terminals

RegainCapabilities ==
  /\ Call("regain", CanCapSet(creds, Transitional), CapSet(creds, Transitional), "ambient")
  /\ UNCHANGED <<keepcaps, terminals>>

\* All ambient capabilities are cleared, the configured ones raised; a word
\* that cap_from_name does not know only earns a warning.
RaiseConfigured ==
  LET cleared == [creds EXCEPT !.ambient = {}]
  IN /\ Call("ambient", CanRaiseAmbient(cleared, Raised), RaiseAmbient(cleared, Raised), "drop")
     /\ UNCHANGED <<keepcaps, terminals>>

DropCapabilities ==
  /\ Call("drop", CanCapSet(creds, Remaining), CapSet(creds, Remaining), "exec")
  /\ UNCHANGED <<keepcaps, terminals>>

\* execvpe, which fails if there is no such program.
Execute ==
  /\ \/ Call("exec", TRUE, AfterExec(creds), "executed")
     \/ Call("exec", TRUE, creds, "no_program")
  /\ UNCHANGED <<keepcaps, terminals>>

HandleCaps ==
  \/ GiveTerminals \/ GainCapabilities \/ SetGroup \/ SetUser
  \/ RegainCapabilities \/ RaiseConfigured \/ DropCapabilities

=============================================================================
