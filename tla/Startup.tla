------------------------------ MODULE Startup ------------------------------
(***************************************************************************)
(* From the configuration files to a running program and its output:       *)
(* main() loads the configuration, a child that is forked takes on the     *)
(* user, the group, the capabilities and the environment its entry asks    *)
(* for, and what the program prints is logged.  The event loop in between  *)
(* is ProcessHandler's subject; here any loaded program may be forked.     *)
(***************************************************************************)
EXTENDS Privileges, ChildOutput

CONSTANT Speakers  \* bound: the names of the programs whose output is followed

\* The numbers that files and account databases give are ids, the flags are
\* booleans, `env` is a list.
IsEntry(e) == /\ {e.uid, e.gid} \subseteq Ids \cup {NoId, Unset, Garbled}
              /\ {e.pty, e.default_env} \subseteq BOOLEAN \cup {Unset, Garbled}
              /\ IsList(ListOf(e.env))
HasEntries(content) == content # Broken => \A i \in DOMAIN content : IsEntry(content[i])
ASSUME StartupAssumption ==
  /\ \A n \in DOMAIN UserId : UserId[n] \in Ids
  /\ \A n \in DOMAIN GroupId : GroupId[n] \in Ids
  /\ Unset \notin BOOLEAN
  /\ \A p \in Paths :
       /\ p.kind = "file" => HasEntries(p.content)
       /\ p.kind = "directory" =>
            \A n \in DOMAIN p.content : p.content[n] # Irregular => HasEntries(p.content[n])

startupVars == <<configVars, privilegeVars, outputVars>>

StartupInit == ConfigInit /\ PrivilegesInit /\ OutputInit

Load == ConfigNext /\ UNCHANGED <<privilegeVars, outputVars>>

Start(k) ==
  /\ loader = "loaded"
  /\ \/ OutOfDescriptors(processes[k])
     \/ BadEnvironment(processes[k])
     \/ Fork(processes[k])
  /\ UNCHANGED <<configVars, outputVars>>

Become == (HandleCaps \/ Execute) /\ UNCHANGED <<configVars, outputVars>>

Talk ==
  /\ step = "executed" /\ child.name \in Speakers
  /\ OutputNext
  /\ UNCHANGED <<configVars, privilegeVars>>

\* The program runs, or do_fork, the child or the loader gave up, or there is
\* nothing to start.
Ended ==
  /\ \/ loader \in {"no_config", "threw", "exited"}
     \/ loader = "loaded" /\ processes = <<>>
     \/ step \in {"no_descriptors", "no_environment", "executed", "no_program", "exited"}
  /\ UNCHANGED startupVars

StartupNext == Load \/ (\E k \in DOMAIN processes : Start(k)) \/ Become \/ Talk \/ Ended

StartupSpec == StartupInit /\ [][StartupNext]_startupVars

=============================================================================
