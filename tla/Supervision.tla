---------------------------- MODULE Supervision ----------------------------
(***************************************************************************)
(* What scinit promises, without saying how (README.md, `before`/`after`,  *)
(* and the logged conditions of enter_eventloop): every program runs at    *)
(* most once, it starts only after the programs it was declared to come    *)
(* after, and the daemon goes away only when nothing runs any more.        *)
(***************************************************************************)
EXTENDS Programs

VARIABLES
  config,  \* the parsed configuration, never changed
  phase,   \* phase[p]: how far program p is
  open     \* the daemon is there and may start programs

Phase == {"waiting", "running", "succeeded", "failed"}

Init ==
  /\ config \in Configs
  /\ phase = [p \in Procs |-> "waiting"]
  /\ open = TRUE

\* What p has to be started after.
Needs(p) == {q \in Procs : \/ config.name[q] \in config.after[p]
                           \/ config.name[p] \in config.before[q]}

\* "A program is considered started if it has exitted successfully (type
\* oneshot) or is running (type simple)."
Started(q) == phase[q] = IF config.type[q] = "ONESHOT" THEN "succeeded" ELSE "running"

Start(p) ==
  /\ open
  /\ phase[p] = "waiting"
  /\ \A q \in Needs(p) : Started(q)
  /\ phase' = [phase EXCEPT ![p] = "running"]
  /\ UNCHANGED <<config, open>>

Finish(p) ==
  /\ open
  /\ phase[p] = "running"
  /\ \E outcome \in {"succeeded", "failed"} : phase' = [phase EXCEPT ![p] = outcome]
  /\ UNCHANGED <<config, open>>

Close ==
  /\ open
  /\ \A p \in Procs : phase[p] # "running"
  /\ open' = FALSE
  /\ UNCHANGED <<config, phase>>

Next == (\E p \in Procs : Start(p) \/ Finish(p)) \/ Close

Spec == Init /\ [][Next]_<<config, phase, open>>

=============================================================================
