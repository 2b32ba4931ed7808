------------------------------ MODULE Programs ------------------------------
(***************************************************************************)
(* What the configuration parser (Config.h) hands to the process handler:  *)
(* a list of programs.  Programs are numbered by `child_counter`, in the   *)
(* order of the list, so a program's graph_id is also its position in      *)
(* `all_objs`.  A configuration is an initial-state choice: one run covers *)
(* every configuration in Configs.                                         *)
(***************************************************************************)
EXTENDS Integers, FiniteSets

CONSTANTS
  NumProcs,   \* number of programs in the configuration
  Names,      \* the names programs carry and refer to
  Configs     \* the configurations under study

\* graph_id of every program
Procs == 0 .. NumProcs - 1

ProcessType == {"ONESHOT", "SIMPLE"}

\* The fields of a program entry that the handler and the children read.
Configuration == [ name   : [Procs -> Names],
                   type   : [Procs -> ProcessType],
                   before : [Procs -> SUBSET Names],
                   after  : [Procs -> SUBSET Names] ]

ASSUME ProgramsAssumption ==
  /\ NumProcs \in Nat
  /\ Configs \subseteq Configuration

=============================================================================
