------------------------- MODULE StartupProperties -------------------------
(***************************************************************************)
(* What a program can rely on, between its entry in a configuration file   *)
(* and the log: stated over the entries, not over the child objects that   *)
(* the loader makes of them.                                               *)
(***************************************************************************)
EXTENDS Startup, SequencesExt

\* Every variable of the loader, of a child and of the reader has its type
\* (Config.h, ChildProcess.h, ProcessHandler.cpp:104).
StartupTypeOK ==
  /\ loader \in {"invoked", "loading", "loaded", "no_config", "threw", "exited"}
  /\ file \in 1 .. Len(files) + 1 /\ entry \in Nat /\ child_counter \in Nat
  /\ \A k \in DOMAIN processes :
       /\ processes[k].type \in {"SIMPLE", "ONESHOT"}
       /\ {processes[k].uid, processes[k].gid} \subseteq Ids \cup {NoId}
       /\ {processes[k].want_tty, processes[k].want_default_env} \subseteq BOOLEAN
  /\ step \in {"parent", "no_descriptors", "no_environment", "chown_out", "chown_err",
               "chmod_out", "chmod_err", "gain", "setgid", "setuid", "regain", "ambient",
               "drop", "exec", "executed", "no_program", "exited"}
  /\ creds \in Credential /\ keepcaps \in BOOLEAN
  /\ \A t \in DOMAIN terminals : terminals[t] \in [uid : Ids, gid : Ids]
  /\ written \in [FDType -> Seq(Characters)] /\ pipe \in [FDType -> Seq(Characters)]
  /\ log \in Seq([level : {"info", "warn"}, text : Seq(Characters) \ {<<>>}])
  /\ reader \in {"running", "aborted"}

-----------------------------------------------------------------------------
(* The loader                                                               *)

\* The places of the complete entries, a place being a file and a position in
\* it, and how many of them are read before one.
EntryAt(p) == files[p[1]][p[2]]
Complete ==
  {p \in UNION {{f} \X DOMAIN files[f] : f \in {g \in DOMAIN files : files[g] # Broken}} :
     EntryAt(p).name # Unset /\ EntryAt(p).path # Unset}
Precedes(p, q) == p[1] < q[1] \/ (p[1] = q[1] /\ p[2] < q[2])
Place(p) == Cardinality({q \in Complete : Precedes(q, p)})

\* Over several files and skipped entries, in whatever order a directory
\* lists them, a program's id is its place in the list of processes and its
\* key in the process handler's tables, its exit is told to it alone, and the
\* list holds exactly the complete entries: ProcessHandler relies on it
\* (Config.h:196-204, ProcessHandler.cpp:45-57).
ListFaithful ==
  /\ \A k \in DOMAIN processes : processes[k].id = k - 1
  /\ obj_for_id = [id \in 0 .. Len(processes) - 1 |-> processes[id + 1]]
  /\ sig_for_id = [id \in 0 .. Len(processes) - 1 |-> <<processes[id + 1]>>]
  /\ loader = "loaded" =>
       /\ Len(processes) = Cardinality(Complete)
       /\ \A p \in Complete : processes[Place(p) + 1].name = EntryAt(p).name

\* The README's rule for user/group next to uid/gid: the strings win.  An
\* entry that says nothing runs as nobody:nogroup (README.md:55).
NamesTakePrecedence ==
  loader = "loaded" => \A p \in Complete :
    LET e == EntryAt(p)
        c == processes[Place(p) + 1]
        silent == e.uid = Unset /\ e.gid = Unset /\ e.user = Unset /\ e.group = Unset
    IN /\ e.user # Unset => c.uid = UserId[e.user]
       /\ e.group # Unset => c.gid = GroupId[e.group]
       /\ silent => c.uid = UserId["nobody"] /\ c.gid = GroupId["nogroup"]

-----------------------------------------------------------------------------
(* User, group, capabilities and terminals                                  *)

\* The entry of the program that is being started.
Entry == EntryAt(CHOOSE p \in Complete : Place(p) = child.id)

\* A program that does not run as root runs under its user and group, with
\* the capabilities of its entry and with no other, whatever the daemon had
\* and whichever calls of handle_caps on the way failed.  An entry that lists
\* "all" is excepted: the loop at ChildProcess.cpp:135 cannot decode the word
\* and raises CAP_CHOWN for it, so that the program gets this capability and
\* those the entry names besides, and no other one that it could use.
ExecAsConfigured ==
  step = "executed" /\ creds.uid # 0 =>
    LET words == ToSet(ListOf(Entry.capabilities))
    IN /\ creds.uid = child.uid /\ creds.gid = child.gid
       /\ "all" \notin words =>
            {creds.permitted, creds.effective, creds.inheritable, creds.ambient} = {words}
       /\ "all" \in words =>
            {creds.permitted, creds.effective, creds.ambient}
              = {(words \ {"all"}) \cup {"CAP_CHOWN"}}

\* What the daemon must have for a program under user uid and group gid.
Suffices(uid, gid) ==
  LET had == host.creds
  IN /\ {uid, gid} \subseteq Ids
     /\ Transitional \subseteq Caps \cap had.permitted
     /\ child.want_tty =>
          /\ "CAP_CHOWN" \in had.effective \/ (uid = had.uid /\ gid = had.gid)
          /\ "CAP_FOWNER" \in had.effective \/ uid = had.uid

\* The order of the calls never costs the child a right that it needs for a
\* later one: handle_caps fails only for want of something from the start.
FailsOnlyForCause == step = "exited" => ~Suffices(child.uid, child.gid)

\* The README's sample: a program with a numeric uid and gid runs under them.
NumericIdentity ==
  step = "exited" =>
    LET e == Entry
    IN e.user = Unset /\ e.group = Unset => ~Suffices(e.uid, e.gid)

\* A program that asked for terminals owns the one its standard output goes
\* to, under the credentials it ends up with; the one of its standard error
\* is not said to be its own, since line 282 of ChildProcess.cpp names the
\* first one twice.  No terminal ever belongs to a third party.
TerminalHandedOver ==
  /\ step = "executed" /\ Entry.pty = TRUE =>
       terminals["STDOUT"] = [uid |-> creds.uid, gid |-> creds.gid]
  /\ \A t \in DOMAIN terminals :
       /\ terminals[t].uid \in {host.creds.uid, child.uid}
       /\ terminals[t].gid \in {host.creds.gid, child.gid}

\* The messages of handle_caps (ChildProcess.cpp:79, 87) and of do_fork (286)
\* speak of a second terminal, that of the standard error, which is given to
\* the program as the first one is.
StderrTerminalHandedOver ==
  step = "executed" /\ Entry.pty = TRUE =>
    terminals["STDERR"] = [uid |-> creds.uid, gid |-> creds.gid]

-----------------------------------------------------------------------------
(* The environment                                                          *)

Forked == step \notin {"parent", "no_descriptors", "no_environment"}

\* No value spans lines: handle_env cuts the rendered text at every newline.
OneLine ==
  LET values == {host.environ[i].value : i \in DOMAIN host.environ}
                  \cup {setting.value : setting \in ToSet(ListOf(Entry.env))}
  IN \A v \in values \ {Unset} : v.rest = {}

DefaultNames == {"LANG", "LANGUAGE", "LOGNAME", "PATH", "SHELL", "TERM", "HOME", "PWD"}

\* A variable of the daemon reaches a program only if it is one of the usual
\* nine or the entry lists it; everything else in the environment is set by
\* the entry or by default, and no name occurs twice (ChildProcess.cpp:196).
EnvironmentFiltered ==
  Forked /\ OneLine =>
    LET names == {setting.name : setting \in ToSet(ListOf(Entry.env))}
    IN /\ \A line \in environment : line.name \in DefaultNames \cup {"USER"} \cup names
       /\ \A l, m \in environment : l.name = m.name => l = m

\* USER, and LOGNAME unless the defaults are declined, is the account that
\* the program's process belongs to when it runs, whatever the daemon's
\* environment says, unless the entry sets the variable itself
\* (ChildProcess.cpp:201, "Force USER to correct value").
UserNamed ==
  step = "executed" /\ OneLine =>
    \A name \in {"USER"} \cup (IF Entry.default_env = FALSE THEN {} ELSE {"LOGNAME"}) :
      (\A setting \in ToSet(ListOf(Entry.env)) : setting.name = name => Scalar(setting)) =>
        \E line \in environment :
          /\ line.name = name
          /\ IF creds.uid \in {UserId[n] : n \in DOMAIN UserId}
               THEN line.text \in DOMAIN UserId /\ UserId[line.text] = creds.uid
               ELSE line.text = "UNKNOWN"

\* The value of a name after the first i items of the entry's `env` list: the
\* nearest item above that sets it decides, and its template sees what was
\* above it.  Without one, it is what handle_env starts from.
Above(env, i, name) == {j \in 1 .. i : env[j].name = name /\ ~Scalar(env[j])}
Decided(env, start, value, i, name) ==
  LET above == Above(env, i, name)
      item  == env[Max(above)]
  IN IF above = {} THEN IF name \in DOMAIN start THEN start[name] ELSE Unset
     ELSE IF item.ref = Unset THEN item.value ELSE value[Max(above) - 1][item.ref]
ValueAfter ==
  LET env   == ListOf(Entry.env)
      start == Forced(child, host.environ)
      names == DOMAIN start \cup UNION {{item.name, item.ref} : item \in ToSet(env)}
      value[i \in 0 .. Len(env)] == [name \in names |-> Decided(env, start, value, i, name)]
  IN value

\* The settings of an entry take effect from top to bottom: the last one of a
\* name wins, each template refers to those above it, and a program is refused
\* only for a template without a value or a variable without a name
\* (ChildProcess.cpp:213-217).
SettingsInOrder ==
  LET env == ListOf(Entry.env)
  IN /\ Forked => \A i \in DOMAIN env :
          ~Scalar(env[i]) => [name |-> env[i].name,
                              text |-> ValueAfter[Len(env)][env[i].name].text] \in environment
     /\ step = "no_environment" =>
          \/ \E i \in DOMAIN host.environ : host.environ[i].key = ""
          \/ \E i \in DOMAIN env : ~Scalar(env[i]) /\ ValueAfter[i][env[i].name] = Unset

-----------------------------------------------------------------------------
(* The output                                                               *)

\* What was logged of a stream, in a row: standard error is logged as a
\* warning.
LoggedOf(s) ==
  LET level == IF s = "STDOUT" THEN "info" ELSE "warn"
  IN FlattenSeq([i \in DOMAIN log |-> IF log[i].level = level THEN log[i].text ELSE <<>>])

\* A text without its newlines.
Visibly(text) ==
  FlattenSeq([i \in DOMAIN text |-> IF text[i] = Newline THEN <<>> ELSE <<text[i]>>])

\* However the output is cut into reads, no character of it is lost, doubled
\* or logged out of order or at the other stream's level, newlines excepted,
\* as long as no NUL ends a chunk early (ProcessHandler.cpp:119-144).
OutputFaithful ==
  \A s \in FDType : Nul \notin ToSet(written[s]) =>
    Visibly(LoggedOf(s) \o pipe[s]) = Visibly(written[s])

\* An entry neither starts nor, unless a NUL hides its end, ends with a
\* newline (ProcessHandler.cpp:121).
EntriesTrimmed ==
  \A i \in DOMAIN log :
    /\ Head(log[i].text) # Newline
    /\ (\A s \in FDType : Nul \notin ToSet(written[s])) => Last(log[i].text) # Newline

\* Nothing a child can write, NULs at any place included, makes the stripping
\* throw and takes the daemon down: substr is never called with a position
\* behind the end of the C string (ProcessHandler.cpp:135).
ReaderSurvives == reader = "running"

=============================================================================
