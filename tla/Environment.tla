---------------------------- MODULE Environment ----------------------------
(***************************************************************************)
(* The environment of a program (ChildProcess::handle_env): a whitelist of *)
(* the daemon's variables, the account's name, fixed defaults, and the     *)
(* settings of the entry, whose templates see what came before them.       *)
(*                                                                         *)
(* A value is the text of its first line and the set of its further lines; *)
(* a template is abstracted to the one variable it refers to.              *)
(***************************************************************************)
EXTENDS Config, FiniteSetsExt

\* A one-line value.
Text(t) == [text |-> t, rest |-> {}]

\* The daemon's variables that are let through; the last of a name wins.  A
\* string without '=' is taken for a variable with itself as its value.
Allowed_Any(c, key) == TRUE  \* fault: no whitelist
Allowed(c, key) == key \in c.allowed_env_vars
Inherited(c, environ) ==
  [ key \in {k \in {environ[i].key : i \in DOMAIN environ} : Allowed(c, k)} |->
      LET var == environ[Max({i \in DOMAIN environ : environ[i].key = key})]
      IN IF var.value = Unset THEN Text(key) ELSE var.value ]

Defaults(c) ==
  IF c.want_default_env
    THEN [LANG |-> Text("C"), LANGUAGE |-> Text("en"), LOGNAME |-> Text(c.username),
          PATH |-> Text("bin"), SHELL |-> Text("bash"), TERM |-> Text("screen"),
          HOME |-> Text("app"), PWD |-> Text("app")]
    ELSE <<>>

\* One object of variables over another.
Over(f, g) == [n \in DOMAIN f \cup DOMAIN g |-> IF n \in DOMAIN f THEN f[n] ELSE g[n]]

\* The defaults, over USER, over what was inherited.
Forced_Early(c, environ) ==  \* fault: USER is set before the daemon's variables
  Over(Defaults(c), Over(Inherited(c, environ), [USER |-> Text(c.username)]))
Forced(c, environ) ==
  Over(Defaults(c), Over([USER |-> Text(c.username)], Inherited(c, environ)))

\* What inja renders a template against.
Visible_Initial(initial, sofar) == initial  \* fault: not the settings before it
Visible(initial, sofar) == sofar

\* inja throws when a template names a variable that is not there; Unset
\* stands for that.
Rendered(setting, vars) ==
  IF setting.ref = Unset THEN setting.value
  ELSE IF setting.ref \in DOMAIN vars THEN vars[setting.ref] ELSE Unset

\* The variables after the settings up to place i of the entry's list.
LastSetting(c) == Max({0} \cup DOMAIN c.env_extra_vars)
Variables(c, environ) ==
  LET initial == Forced(c, environ)
      after[i \in 0 .. LastSetting(c)] ==
        IF i \notin DOMAIN c.env_extra_vars
          THEN IF i = 0 THEN initial ELSE after[i - 1]
          ELSE LET setting == c.env_extra_vars[i]
               IN Put(after[i - 1], setting.name, Rendered(setting, Visible(initial, after[i - 1])))
  IN after

\* An empty name throws, and so does a template that cannot be rendered.
EnvThrows(c, environ) ==
  \/ \E i \in DOMAIN environ : environ[i].key = ""
  \/ \E i \in DOMAIN c.env_extra_vars :
       Variables(c, environ)[i][c.env_extra_vars[i].name] = Unset

\* The variables are written out one after the other and cut into lines.
HandleEnv(c, environ) ==
  LET vars == Variables(c, environ)[LastSetting(c)]
  IN {[name |-> n, text |-> vars[n].text] : n \in DOMAIN vars}
       \cup UNION {vars[n].rest : n \in DOMAIN vars}

=============================================================================
