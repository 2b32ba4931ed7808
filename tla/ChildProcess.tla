---------------------------- MODULE ChildProcess ----------------------------
(***************************************************************************)
(* The child process object (ChildProcess.cpp): its life-cycle state and   *)
(* the list of conditions it waits for.  The actions of this module are    *)
(* the methods the process handler calls; each constrains only `state` and *)
(* `conditions`.                                                           *)
(*                                                                         *)
(* `conditions` is a list in the code, read only by "does it mention this  *)
(* process" and "do all entries hold", so a set models it.                 *)
(***************************************************************************)
EXTENDS Programs

VARIABLES
  config,      \* the parsed configuration, never changed
  state,       \* state[p]: ProcessState of child p
  conditions   \* conditions[p]: what child p waits for

childVars == <<config, state, conditions>>

\* BACKOFF is declared in the enum but never assigned.
ProcessState == {"BLOCKED", "READY", "RUNNING", "DONE", "CRASHED"}

Condition == [id : Procs, state : {"RUNNING", "DONE"}]

ChildTypeOK ==
  /\ config \in Configs
  /\ state \in [Procs -> ProcessState]
  /\ conditions \in [Procs -> SUBSET Condition]

\* The constructor leaves every child BLOCKED and without conditions.
ChildInit ==
  /\ config \in Configs
  /\ state = [p \in Procs |-> "BLOCKED"]
  /\ conditions = [p \in Procs |-> {}]

-----------------------------------------------------------------------------

\* The state a dependency declared by c waits for.  It is c's own type that
\* decides, for `before` and for `after` alike.
TargetState(c) == IF config.type[c] = "ONESHOT" THEN "DONE" ELSE "RUNNING"

\* should_wait_for: a second condition on the same process is dropped, even
\* when it asks for another state.
AddConditions(known, new) ==
  known \cup {n \in new : \A k \in known : k.id # n.id}

\* propagate_dependencies, called once per child in list order: first the
\* `before` entries reach into the children they name, then the `after`
\* entries add to c's own conditions; c is READY if it has none by now.
\* The lists are cleared afterwards and never read again.
PropagateDependencies(c) ==
  LET wait(q) == [id |-> q, state |-> TargetState(c)]
      pushed  == [p \in Procs |->
                    IF config.name[p] \in config.before[c]
                      THEN AddConditions(conditions[p], {wait(c)})
                      ELSE conditions[p]]
      named   == {q \in Procs : config.name[q] \in config.after[c]}
      own     == AddConditions(pushed[c], {wait(q) : q \in named})
  IN /\ conditions' = [pushed EXCEPT ![c] = own]
     /\ state' = [state EXCEPT ![c] = IF own = {} THEN "READY" ELSE @]
     /\ UNCHANGED config

\* get_state() of every process in the conditions is the one waited for.
Fulfilled_Any(p) ==  \* fault: one fulfilled condition is enough
  conditions[p] # {} => \E c \in conditions[p] : state[c.id] = c.state
Fulfilled(p) == \A c \in conditions[p] : state[c.id] = c.state

\* notify_of_state for all children.  The calls only turn BLOCKED into READY
\* and no condition waits for either, so their order does not matter.
NotifyOfState ==
  /\ state' = [p \in Procs |-> IF state[p] = "BLOCKED" /\ Fulfilled(p)
                                 THEN "READY" ELSE state[p]]
  /\ UNCHANGED <<config, conditions>>

CanStartNow(p) == state[p] = "READY"

\* The assignment do_fork makes after fork() returned in the parent.
BecomeRunning(p) ==
  /\ state' = [state EXCEPT ![p] = "RUNNING"]
  /\ UNCHANGED <<config, conditions>>

\* handle_process_event(EXIT, data): the current state is not consulted, nor
\* is the program's type.
Outcome_OnlySuccess(p, data) ==  \* fault: a failed exit is not recorded
  IF data = 0 THEN "DONE" ELSE state[p]
Outcome(p, data) == IF data = 0 THEN "DONE" ELSE "CRASHED"
HandleExit(p, data) ==
  /\ state' = [state EXCEPT ![p] = Outcome(p, data)]
  /\ UNCHANGED <<config, conditions>>

=============================================================================
