--------------------- MODULE StartupEnvironment_proofs ---------------------
(***************************************************************************)
(* The environment that handle_env builds: which variables of the daemon   *)
(* come through, that USER names the account, and that the settings of an  *)
(* entry take effect from top to bottom.                                   *)
(***************************************************************************)
EXTENDS StartupSafety_proofs

-----------------------------------------------------------------------------
(* The recursion of Variables                                               *)

\* The variables after one more place.
OnePlace(settings, i, vars) ==
  IF i \notin DOMAIN settings THEN vars
  ELSE Put(vars, settings[i].name, Rendered(settings[i], vars))

LEMMA VariablesByPlace ==
  ASSUME NEW c, NEW environ, LastSetting(c) \in Nat, 0 \notin DOMAIN c.env_extra_vars
  PROVE  LET v == Variables(c, environ)
         IN /\ DOMAIN v = 0 .. LastSetting(c)
            /\ v[0] = Forced(c, environ)
            /\ \A i \in 1 .. LastSetting(c) : v[i] = OnePlace(c.env_extra_vars, i, v[i - 1])
PROOF
  <1> DEFINE initial == Forced(c, environ)
             settings == c.env_extra_vars
             n == LastSetting(c)
             rhs(g) == [i \in 0 .. n |->
                          IF i \notin DOMAIN settings
                            THEN IF i = 0 THEN initial ELSE g[i - 1]
                            ELSE Put(g[i - 1], settings[i].name, Rendered(settings[i], g[i - 1]))]
             partial(k, g) == /\ DOMAIN g = 0 .. k /\ g[0] = initial
                              /\ \A i \in 1 .. k : g[i] = OnePlace(settings, i, g[i - 1])
             S == {k \in Nat : \E g : partial(k, g)}
  <1>1. Variables(c, environ) = CHOOSE g : g = rhs(g)
    BY DEF Variables, Visible
  <1>2. 0 \in S
    <2>1. partial(0, [i \in 0 .. 0 |-> initial])
      OBVIOUS
    <2> HIDE DEF partial
    <2> QED
      BY <2>1
  <1>3. ASSUME NEW k \in 1 .. n, k - 1 \in S
        PROVE  k \in S
    <2>1. PICK g : partial(k - 1, g)
      BY <1>3
    <2> DEFINE h == [i \in 0 .. k |-> IF i = k THEN OnePlace(settings, k, g[k - 1]) ELSE g[i]]
    <2>2. h[0] = initial
      BY <2>1
    <2>3. \A i \in 1 .. k : h[i] = OnePlace(settings, i, h[i - 1])
      BY <2>1
    <2>4. partial(k, h)
      BY <2>2, <2>3
    <2> HIDE DEF partial
    <2> QED
      BY <2>4
  <1>4. PICK g : partial(n, g)
    <2>1. n \in Nat
      OBVIOUS
    <2> HIDE DEF S, n
    <2>2. n \in S
      BY <1>2, <1>3, <2>1, UpTo
    <2> QED
      BY <2>2 DEF S
  <1> DEFINE f == [i \in 0 .. n |-> g[i]]
  <1>5. f = rhs(f)
    BY <1>4 DEF OnePlace
  <1>6. Variables(c, environ) = rhs(Variables(c, environ))
    <2> HIDE DEF rhs
    <2> QED
      BY <1>1, <1>5
  <1> QED
    BY <1>6 DEF OnePlace

-----------------------------------------------------------------------------
(* The child's settings are those of its entry                              *)

\* A program that is forked gets what handle_env returned; one that is not
\* for its environment's sake had handle_env throw.
Environed ==
  /\ step = "no_environment" => EnvThrows(child, host.environ)
  /\ Forked => ~EnvThrows(child, host.environ) /\ environment = HandleEnv(child, host.environ)

LEMMA StepEnvironed ==
  ASSUME Environed, [StartupNext]_startupVars
  PROVE  Environed'
PROOF
  <1> USE DEF Environed, Forked
  <1>1. CASE UNCHANGED privilegeVars
    BY <1>1 DEF privilegeVars
  <1>2. ASSUME NEW k \in DOMAIN processes, Start(k)
        PROVE  Environed'
    <2>1. CASE OutOfDescriptors(processes[k])
      BY <2>1 DEF OutOfDescriptors
    <2>2. CASE BadEnvironment(processes[k])
      BY <2>2 DEF BadEnvironment
    <2>3. CASE Fork(processes[k])
      BY <2>3 DEF Fork
    <2> QED
      BY <1>2, <2>1, <2>2, <2>3 DEF Start
  <1>3. CASE Become
    <2>1. /\ UNCHANGED <<host, child, environment>> /\ Forked
          /\ step' \notin {"parent", "no_descriptors", "no_environment"}
      BY <1>3 DEF Become, HandleCaps, GiveTerminals, ChownTerminal, ChmodTerminal,
                  GainCapabilities, SetGroup, SetUser, RegainCapabilities, RaiseConfigured,
                  DropCapabilities, Execute, Call
    <2> QED
      BY <2>1
  <1>4. CASE Load \/ Talk \/ Ended \/ UNCHANGED startupVars
    BY <1>1, <1>4 DEF Load, Talk, Ended, startupVars
  <1> QED
    BY <1>2, <1>3, <1>4 DEF StartupNext

Surroundings == Identity /\ Typed /\ Environed

THEOREM SurroundingsInvariant == StartupSpec => []Surroundings
PROOF
  <1>1. StartupInit => Environed
    BY DEF StartupInit, PrivilegesInit, Environed, Forked
  <1>2. Environed /\ [StartupNext]_startupVars => Environed'
    BY StepEnvironed
  <1>3. Identity /\ Typed /\ Environed => Surroundings
    BY DEF Surroundings
  <1> QED
    BY <1>1, <1>2, <1>3, IdentityInvariant, TypedInvariant, PTL DEF StartupSpec

\* What the loader makes of `env` and `default_env`.
LEMMA EnvironmentFields ==
  ASSUME NEW id, NEW e
  PROVE  LET c   == Child(id, e)
             env == ListOf(e.env)
         IN /\ c.username = Username(c.uid)
            /\ c.allowed_env_vars =
                 Whitelist \cup {env[i].name : i \in {j \in DOMAIN env : Scalar(env[j])}}
            /\ c.env_extra_vars = [i \in {j \in DOMAIN env : ~Scalar(env[j])} |-> env[i]]
BY DEF Child

LEMMA ChildSettings ==
  ASSUME Surroundings, step # "parent"
  PROVE  LET env == ListOf(Entry.env)
             set == child.env_extra_vars
         IN /\ Len(env) \in Nat /\ DOMAIN env = 1 .. Len(env)
            /\ DOMAIN set = {i \in DOMAIN env : ~Scalar(env[i])}
            /\ \A i \in DOMAIN set : set[i] = env[i]
            /\ LastSetting(child) \in 0 .. Len(env)
            /\ \A i \in DOMAIN set : i <= LastSetting(child)
            /\ child.username = Username(child.uid)
            /\ child.allowed_env_vars =
                 Whitelist \cup {env[i].name : i \in {j \in DOMAIN env : Scalar(env[j])}}
            /\ IsEntry(Entry) /\ Acceptable(Entry)
            /\ child.want_default_env = FlagOf(Entry.default_env, TRUE)
PROOF
  <1> DEFINE env == ListOf(Entry.env)
             set == child.env_extra_vars
             chosen == Child(child.id, Entry)
  <1>1. child = chosen /\ Acceptable(Entry) /\ IsEntry(Entry)
    BY ChildOfEntry, EntryTyped DEF Surroundings, Identity
  <1>2. Len(env) \in Nat /\ DOMAIN env = 1 .. Len(env)
    BY <1>1 DEF IsEntry, IsList
  <1>3. /\ chosen.username = Username(chosen.uid)
        /\ chosen.allowed_env_vars =
             Whitelist \cup {env[i].name : i \in {j \in DOMAIN env : Scalar(env[j])}}
        /\ chosen.env_extra_vars = [i \in {j \in DOMAIN env : ~Scalar(env[j])} |-> env[i]]
    BY EnvironmentFields
  <1>4. chosen.want_default_env = FlagOf(Entry.default_env, TRUE)
    BY ChildFields
  <1> HIDE DEF chosen
  <1>5. set = [i \in {j \in DOMAIN env : ~Scalar(env[j])} |-> env[i]]
    BY <1>1, <1>3
  <1> HIDE DEF set
  <1>6. DOMAIN set = {i \in DOMAIN env : ~Scalar(env[i])} /\ \A i \in DOMAIN set : set[i] = env[i]
    BY <1>5
  <1>7. LastSetting(child) \in 0 .. Len(env) /\ \A i \in DOMAIN set : i <= LastSetting(child)
    <2> DEFINE places == {0} \cup DOMAIN set
    <2>1. places \in SUBSET (0 .. Len(env)) /\ places # {}
      BY <1>2, <1>6
    <2>2. LastSetting(child) = Max(places)
      BY DEF LastSetting, set
    <2> HIDE DEF places, env
    <2>3. Max(places) \in places /\ \A i \in places : i <= Max(places)
      BY <1>2, <2>1, MaxOfNaturals
    <2> QED
      BY <2>1, <2>2, <2>3 DEF places
  <1> QED
    BY <1>1, <1>2, <1>3, <1>4, <1>6, <1>7 DEF set

LEMMA VariablesOfChild ==
  ASSUME Surroundings, step # "parent"
  PROVE  LET v == Variables(child, host.environ)
             n == LastSetting(child)
         IN /\ n \in Nat /\ DOMAIN v = 0 .. n
            /\ v[0] = Forced(child, host.environ)
            /\ \A i \in 1 .. n : v[i] = OnePlace(child.env_extra_vars, i, v[i - 1])
PROOF
  <1>1. LastSetting(child) \in Nat /\ 0 \notin DOMAIN child.env_extra_vars
    BY ChildSettings
  <1> QED
    BY <1>1, VariablesByPlace

-----------------------------------------------------------------------------
(* What comes through                                                       *)

\* What a program starts from: of the daemon's variables, those allowed.
LEMMA ForcedDomain ==
  ASSUME NEW c, NEW environ
  PROVE  /\ DOMAIN Forced(c, environ) \subseteq DefaultNames \cup {"USER"} \cup c.allowed_env_vars
         /\ Forced(c, environ)["USER"] = Text(c.username)
         /\ "USER" \in DOMAIN Forced(c, environ)
         /\ c.want_default_env = TRUE =>
              /\ "LOGNAME" \in DOMAIN Forced(c, environ)
              /\ Forced(c, environ)["LOGNAME"] = Text(c.username)
PROOF
  <1> DEFINE user == [USER |-> Text(c.username)]
             base == Over(user, Inherited(c, environ))
  <1>1. DOMAIN Inherited(c, environ) \subseteq c.allowed_env_vars
    BY DEF Inherited, Allowed
  <1>2. DOMAIN user = {"USER"} /\ user["USER"] = Text(c.username)
    OBVIOUS
  <1>3. /\ DOMAIN Defaults(c) \subseteq DefaultNames /\ "USER" \notin DOMAIN Defaults(c)
        /\ c.want_default_env = TRUE =>
             "LOGNAME" \in DOMAIN Defaults(c) /\ Defaults(c)["LOGNAME"] = Text(c.username)
    BY DEF Defaults, DefaultNames
  <1>4. /\ DOMAIN base = {"USER"} \cup DOMAIN Inherited(c, environ)
        /\ base["USER"] = Text(c.username)
    BY <1>2 DEF Over
  <1>5. Forced(c, environ) = Over(Defaults(c), base)
    BY DEF Forced
  <1> HIDE DEF base
  <1> QED
    BY <1>1, <1>3, <1>4, <1>5 DEF Over

\* Its values are single lines if the daemon's are.
LEMMA ForcedValues ==
  ASSUME NEW c, NEW h \in Hosts,
         \A i \in DOMAIN h.environ : h.environ[i].value # Unset => h.environ[i].value.rest = {}
  PROVE  \A n \in DOMAIN Forced(c, h.environ) : Forced(c, h.environ)[n].rest = {}
PROOF
  <1> DEFINE environ == h.environ
             user == [USER |-> Text(c.username)]
             base == Over(user, Inherited(c, environ))
  <1>1. \A t : Text(t).rest = {}
    BY DEF Text
  <1>2. \A n \in DOMAIN Defaults(c) : Defaults(c)[n].rest = {}
    BY <1>1 DEF Defaults
  <1>3. \A n \in DOMAIN Inherited(c, environ) : Inherited(c, environ)[n].rest = {}
    <2> TAKE n \in DOMAIN Inherited(c, environ)
    <2> DEFINE places == {i \in DOMAIN environ : environ[i].key = n}
               var == environ[Max(places)]
    <2>1. /\ n \in {environ[i].key : i \in DOMAIN environ}
          /\ Inherited(c, environ)[n] = IF var.value = Unset THEN Text(n) ELSE var.value
      BY DEF Inherited
    <2>2. Len(environ) \in Nat /\ DOMAIN environ = 1 .. Len(environ)
      BY PrivilegesAssumption DEF IsList
    <2>3. Max(places) \in DOMAIN environ
      <3>1. places \in SUBSET (0 .. Len(environ)) /\ places # {}
        BY <2>1, <2>2
      <3> HIDE DEF environ
      <3>2. Max(places) \in places
        <4> HIDE DEF places
        <4> QED
          BY <2>2, <3>1, MaxOfNaturals
      <3> QED
        BY <3>2
    <2> QED
      BY <1>1, <2>1, <2>3
  <1>4. \A n \in DOMAIN base : base[n].rest = {}
    <2>1. DOMAIN user = {"USER"} /\ user["USER"].rest = {}
      BY <1>1
    <2> HIDE DEF user
    <2> QED
      BY <1>3, <2>1 DEF Over
  <1>5. Forced(c, environ) = Over(Defaults(c), base)
    BY DEF Forced
  <1> HIDE DEF base, environ
  <1>6. \A n \in DOMAIN Forced(c, environ) : Forced(c, environ)[n].rest = {}
    BY <1>2, <1>4, <1>5 DEF Over
  <1> QED
    BY <1>6 DEF environ

\* No variable of the daemon comes through that is neither usual nor listed,
\* and no name occurs twice, as long as no value spans lines.
THEOREM EnvironmentFilteredCorrect == StartupSpec => []EnvironmentFiltered
PROOF
  <1>1. Surroundings => EnvironmentFiltered
    <2> DEFINE env   == ListOf(Entry.env)
               names == {setting.name : setting \in ToSet(env)}
               may   == DefaultNames \cup {"USER"} \cup names
    <2> SUFFICES ASSUME Surroundings, Forked, OneLine
                 PROVE  /\ \A line \in environment : line.name \in may
                        /\ \A l, m \in environment : l.name = m.name => l = m
      BY DEF EnvironmentFiltered
    <2> DEFINE v   == Variables(child, host.environ)
               n   == LastSetting(child)
               set == child.env_extra_vars
    <2>1. /\ step # "parent" /\ host \in Hosts
          /\ ~EnvThrows(child, host.environ) /\ environment = HandleEnv(child, host.environ)
      BY DEF Forked, Surroundings, Environed, Identity, OnTheWay
    <2>2. /\ n \in Nat /\ v[0] = Forced(child, host.environ)
          /\ \A i \in 1 .. n : v[i] = OnePlace(set, i, v[i - 1])
      BY <2>1, VariablesOfChild
    <2>3. /\ DOMAIN set \subseteq DOMAIN env /\ \A i \in DOMAIN set : set[i] = env[i]
          /\ child.allowed_env_vars \subseteq may
      <3>1. \A i \in DOMAIN env : env[i].name \in names
        BY DEF ToSet
      <3>2. /\ DOMAIN set = {i \in DOMAIN env : ~Scalar(env[i])}
            /\ \A i \in DOMAIN set : set[i] = env[i]
            /\ child.allowed_env_vars =
                 Whitelist \cup {env[i].name : i \in {j \in DOMAIN env : Scalar(env[j])}}
        BY <2>1, ChildSettings
      <3>3. Whitelist = DefaultNames \cup {"USER"}
        BY DEF Whitelist, DefaultNames
      <3> HIDE DEF env, set, names
      <3> QED
        BY <3>1, <3>2, <3>3
    <2>4. \A i \in DOMAIN set : /\ v[i][set[i].name] # Unset /\ set[i].name \in names
                                /\ set[i].value # Unset => set[i].value.rest = {}
      <3> TAKE i \in DOMAIN set
      <3>1. v[i][set[i].name] # Unset
        BY <2>1 DEF EnvThrows
      <3>2. set[i] \in ToSet(env)
        BY <2>3 DEF ToSet
      <3>3. set[i].value # Unset => set[i].value.rest = {}
        BY <3>2 DEF OneLine
      <3> QED
        BY <3>1, <3>2, <3>3
    <2>5. \A i \in DOMAIN host.environ :
            host.environ[i].value # Unset => host.environ[i].value.rest = {}
      BY DEF OneLine
    <2> DEFINE S == {i \in 0 .. n : /\ DOMAIN (v[i]) \subseteq may
                                    /\ \A x \in DOMAIN (v[i]) : v[i][x].rest = {}}
    <2> HIDE DEF env, names, v, n, set
    <2>6. 0 \in S
      <3>1. \A x \in DOMAIN (v[0]) : v[0][x].rest = {}
        BY <2>1, <2>2, <2>5, ForcedValues
      <3>2. DOMAIN (v[0]) \subseteq DefaultNames \cup {"USER"} \cup child.allowed_env_vars
        BY <2>2, ForcedDomain
      <3>3. DOMAIN (v[0]) \subseteq may
        BY <2>3, <3>2
      <3> HIDE DEF may
      <3> QED
        BY <2>2, <3>1, <3>3
    <2>7. ASSUME NEW i \in 1 .. n, i - 1 \in S
          PROVE  i \in S
      <3>1. v[i] = OnePlace(set, i, v[i - 1])
        BY <2>2
      <3>2. CASE i \notin DOMAIN set
        BY <2>2, <2>7, <3>1, <3>2 DEF OnePlace
      <3>3. CASE i \in DOMAIN set
        <4> DEFINE value == Rendered(set[i], v[i - 1])
        <4>1. v[i] = Put(v[i - 1], set[i].name, value)
          BY <3>1, <3>3 DEF OnePlace
        <4>2. value # Unset
          BY <2>4, <3>3, <4>1 DEF Put
        <4>3. value.rest = {}
          BY <2>4, <2>7, <3>3, <4>2 DEF Rendered
        <4> HIDE DEF value
        <4> QED
          BY <2>4, <2>7, <3>3, <4>1, <4>3 DEF Put
      <3> QED
        BY <3>2, <3>3
    <2>8. n \in S
      <3> HIDE DEF S
      <3> QED
        BY <2>2, <2>6, <2>7, UpTo
    <2> DEFINE vars == v[n]
    <2>9. environment = {[name |-> x, text |-> vars[x].text] : x \in DOMAIN vars}
                          \cup UNION {vars[x].rest : x \in DOMAIN vars}
      BY <2>1 DEF HandleEnv, v, n
    <2>10. DOMAIN vars \subseteq may /\ \A x \in DOMAIN vars : vars[x].rest = {}
      BY <2>8
    <2> HIDE DEF vars, may
    <2>11. \A line \in environment :
             \E x \in DOMAIN vars : line = [name |-> x, text |-> vars[x].text]
      BY <2>9, <2>10
    <2> QED
      BY <2>10, <2>11
  <1> QED
    BY <1>1, SurroundingsInvariant, PTL

\* USER, and LOGNAME among the defaults, name the account a program's process
\* belongs to, whatever the daemon's environment says, unless the entry sets
\* the variable itself.
THEOREM UserNamedCorrect == StartupSpec => []UserNamed
PROOF
  <1>1. Surroundings => UserNamed
    <2> DEFINE env  == ListOf(Entry.env)
               v    == Variables(child, host.environ)
               n    == LastSetting(child)
               set  == child.env_extra_vars
               text == child.username
    <2> SUFFICES ASSUME Surroundings, step = "executed",
                        NEW name \in {"USER"} \cup (IF Entry.default_env = FALSE THEN {} ELSE {"LOGNAME"}),
                        \A setting \in ToSet(env) : setting.name = name => Scalar(setting)
                 PROVE  \E line \in environment :
                          /\ line.name = name
                          /\ IF creds.uid \in {UserId[u] : u \in DOMAIN UserId}
                               THEN line.text \in DOMAIN UserId /\ UserId[line.text] = creds.uid
                               ELSE line.text = "UNKNOWN"
      BY DEF UserNamed
    <2>1. /\ environment = HandleEnv(child, host.environ) /\ creds.uid = child.uid
      BY DEF Forked, Surroundings, Environed, Identity, Becoming
    <2>2. /\ n \in Nat /\ v[0] = Forced(child, host.environ)
          /\ \A i \in 1 .. n : v[i] = OnePlace(set, i, v[i - 1])
      BY VariablesOfChild
    <2>3. \A i \in DOMAIN set : set[i].name # name
      <3> TAKE i \in DOMAIN set
      <3>1. i \in DOMAIN env /\ ~Scalar(env[i]) /\ set[i] = env[i]
        BY ChildSettings
      <3>2. env[i] \in ToSet(env)
        BY <3>1 DEF ToSet
      <3> QED
        BY <3>1, <3>2
    <2>4. name \in DOMAIN (v[0]) /\ v[0][name] = Text(text)
      <3>1. Entry.default_env # FALSE => child.want_default_env = TRUE
        <4>1. IsEntry(Entry) /\ Acceptable(Entry) /\ child.want_default_env = FlagOf(Entry.default_env, TRUE)
          BY ChildSettings
        <4> QED
          BY <4>1 DEF IsEntry, Acceptable, BadTail, BadFlag, FlagOf
      <3> DEFINE forced == Forced(child, host.environ)
      <3>2. "USER" \in DOMAIN forced /\ forced["USER"] = Text(text)
        BY ForcedDomain
      <3>3. child.want_default_env = TRUE =>
              "LOGNAME" \in DOMAIN forced /\ forced["LOGNAME"] = Text(text)
        BY ForcedDomain
      <3> HIDE DEF forced
      <3>4. name \in DOMAIN forced /\ forced[name] = Text(text)
        BY <3>1, <3>2, <3>3
      <3> QED
        BY <2>2, <3>4 DEF forced
    <2> HIDE DEF env, v, n, set
    <2> DEFINE S == {i \in 0 .. n : name \in DOMAIN (v[i]) /\ v[i][name] = Text(text)}
    <2>5. n \in S
      <3>1. 0 \in S
        BY <2>2, <2>4
      <3>2. ASSUME NEW i \in 1 .. n, i - 1 \in S
            PROVE  i \in S
        <4>1. v[i] = OnePlace(set, i, v[i - 1])
          BY <2>2
        <4>2. CASE i \notin DOMAIN set
          BY <3>2, <4>1, <4>2 DEF OnePlace
        <4>3. CASE i \in DOMAIN set
          BY <2>3, <3>2, <4>1, <4>3 DEF OnePlace, Put
        <4> QED
          BY <4>2, <4>3
      <3> HIDE DEF S
      <3> QED
        BY <2>2, <3>1, <3>2, UpTo
    <2>6. [name |-> name, text |-> text] \in environment
      <3>1. Text(text).text = text
        BY DEF Text
      <3> DEFINE vars == v[n]
      <3>2. environment = {[name |-> x, text |-> vars[x].text] : x \in DOMAIN vars}
                            \cup UNION {vars[x].rest : x \in DOMAIN vars}
        BY <2>1 DEF HandleEnv, v, n
      <3>3. name \in DOMAIN vars /\ vars[name].text = text
        BY <2>5, <3>1
      <3> HIDE DEF vars
      <3> QED
        BY <3>2, <3>3
    <2>7. text = Username(creds.uid)
      BY <2>1, ChildSettings
    <2>8. IF creds.uid \in {UserId[u] : u \in DOMAIN UserId}
            THEN text \in DOMAIN UserId /\ UserId[text] = creds.uid
            ELSE text = "UNKNOWN"
      BY <2>7 DEF Username
    <2> QED
      BY <2>6, <2>8
  <1> QED
    BY <1>1, SurroundingsInvariant, PTL

-----------------------------------------------------------------------------
(* The order of the settings                                                *)

\* One item decides the value of its own name and leaves every other one.
Sets(env, i, name) == env[i].name = name /\ ~Scalar(env[i])

LEMMA DecidedAtStart ==
  ASSUME NEW env, NEW start, NEW value, NEW name
  PROVE  Decided(env, start, value, 0, name) = IF name \in DOMAIN start THEN start[name] ELSE Unset
PROOF
  <1>1. Above(env, 0, name) = {}
    BY DEF Above
  <1> QED
    BY <1>1 DEF Decided

LEMMA DecidedByPlace ==
  ASSUME NEW env, NEW start, NEW value, NEW i \in Nat \ {0}, NEW name
  PROVE  Decided(env, start, value, i, name)
           = IF Sets(env, i, name)
               THEN IF env[i].ref = Unset THEN env[i].value ELSE value[i - 1][env[i].ref]
               ELSE Decided(env, start, value, i - 1, name)
PROOF
  <1>1. ASSUME ~Sets(env, i, name)
        PROVE  Above(env, i, name) = Above(env, i - 1, name)
    BY <1>1 DEF Above, Sets
  <1>2. ASSUME Sets(env, i, name)
        PROVE  Above(env, i, name) # {} /\ Max(Above(env, i, name)) = i
    <2> DEFINE above == Above(env, i, name)
    <2>1. above \in SUBSET (0 .. i) /\ i \in above /\ \A j \in above : j <= i
      BY <1>2 DEF Above, Sets
    <2> HIDE DEF above
    <2>2. Max(above) \in above /\ i <= Max(above)
      BY <2>1, MaxOfNaturals
    <2>3. Max(above) <= i /\ Max(above) \in Nat
      <3> DEFINE max == Max(above)
      <3>1. max \in above
        BY <2>2
      <3> HIDE DEF max
      <3>2. max \in 0 .. i
        BY <2>1, <3>1
      <3> QED
        BY <3>2 DEF max
    <2> QED
      BY <2>1, <2>2, <2>3 DEF above
  <1> QED
    BY <1>1, <1>2 DEF Decided

\* handle_env's variables, from top to bottom, are what the list of the entry,
\* read from the bottom up, says.
LEMMA ValuesAreVariables ==
  ASSUME Surroundings, step # "parent"
  PROVE  LET env   == ListOf(Entry.env)
             start == Forced(child, host.environ)
             names == DOMAIN start \cup UNION {{item.name, item.ref} : item \in ToSet(env)}
             n     == LastSetting(child)
             vars(i) == Variables(child, host.environ)[IF i <= n THEN i ELSE n]
         IN \A i \in 0 .. Len(env), x \in names :
              ValueAfter[i][x] = IF x \in DOMAIN vars(i) THEN vars(i)[x] ELSE Unset
PROOF
  <1> DEFINE env   == ListOf(Entry.env)
             start == Forced(child, host.environ)
             names == DOMAIN start \cup UNION {{item.name, item.ref} : item \in ToSet(env)}
             n     == LastSetting(child)
             v     == Variables(child, host.environ)
             set   == child.env_extra_vars
             vars(i) == v[IF i <= n THEN i ELSE n]
             first(x) == IF x \in DOMAIN start THEN start[x] ELSE Unset
             next(g, i, x) == IF Sets(env, i, x)
                                THEN IF env[i].ref = Unset THEN env[i].value
                                     ELSE g[i - 1][env[i].ref]
                                ELSE g[i - 1][x]
             recurs(g) == /\ \A x \in names : g[0][x] = first(x)
                          /\ \A i \in 1 .. Len(env), x \in names : g[i][x] = next(g, i, x)
             rhs(g) == [i \in 0 .. Len(env) |-> [x \in names |-> Decided(env, start, g, i, x)]]
             w == [i \in 0 .. Len(env) |->
                     [x \in names |-> IF x \in DOMAIN vars(i) THEN vars(i)[x] ELSE Unset]]
  <1>1. ValueAfter = CHOOSE g : g = rhs(g)
    BY DEF ValueAfter
  <1>2. /\ Len(env) \in Nat /\ DOMAIN env = 1 .. Len(env) /\ n \in 0 .. Len(env)
        /\ DOMAIN set = {i \in DOMAIN env : ~Scalar(env[i])}
        /\ \A i \in DOMAIN set : set[i] = env[i] /\ i <= n
    BY ChildSettings
  <1>3. v[0] = start /\ \A i \in 1 .. n : v[i] = OnePlace(set, i, v[i - 1])
    BY VariablesOfChild
  <1>4. \A i \in 1 .. Len(env) : env[i].name \in names /\ env[i].ref \in names
    <2> TAKE i \in 1 .. Len(env)
    <2>1. env[i] \in ToSet(env)
      BY <1>2 DEF ToSet
    <2> QED
      BY <2>1
  <1> HIDE DEF env, start, names, n, v, set
  <1>5. vars(0) = start /\ \A i \in 1 .. Len(env) : vars(i) = OnePlace(set, i, vars(i - 1))
    <2>1. vars(0) = start
      BY <1>2, <1>3
    <2>2. ASSUME NEW i \in 1 .. Len(env)
          PROVE  vars(i) = OnePlace(set, i, vars(i - 1))
      <3>1. CASE i <= n
        BY <1>2, <1>3, <3>1
      <3>2. CASE ~(i <= n)
        <4>1. i \notin DOMAIN set
          BY <1>2, <3>2
        <4>2. vars(i) = v[n] /\ vars(i - 1) = v[n]
          BY <1>2, <3>2
        <4> QED
          BY <4>1, <4>2 DEF OnePlace
      <3> QED
        BY <3>1, <3>2
    <2> QED
      BY <2>1, <2>2
  <1>6. \A i \in 0 .. Len(env), x \in names :
          w[i][x] = IF x \in DOMAIN vars(i) THEN vars(i)[x] ELSE Unset
    OBVIOUS
  <1> HIDE DEF vars, w
  <1>7. recurs(w)
    <2>1. \A x \in names : w[0][x] = first(x)
      BY <1>2, <1>5, <1>6
    <2>2. ASSUME NEW i \in 1 .. Len(env), NEW x \in names
          PROVE  w[i][x] = next(w, i, x)
      <3>1. /\ i - 1 \in 0 .. Len(env) /\ i \in 0 .. Len(env) /\ i \in DOMAIN env
            /\ vars(i) = OnePlace(set, i, vars(i - 1))
        BY <1>2, <1>5
      <3>2. CASE Scalar(env[i])
        BY <1>2, <1>6, <3>1, <3>2 DEF OnePlace, Sets
      <3>3. CASE ~Scalar(env[i])
        <4>1. vars(i) = Put(vars(i - 1), env[i].name, Rendered(env[i], vars(i - 1)))
          BY <1>2, <3>1, <3>3 DEF OnePlace
        <4>2. CASE x = env[i].name
          <5>1. w[i][x] = Rendered(env[i], vars(i - 1))
            BY <1>6, <3>1, <4>1, <4>2 DEF Put
          <5>2. w[i - 1][env[i].ref] = IF env[i].ref \in DOMAIN vars(i - 1)
                                         THEN vars(i - 1)[env[i].ref] ELSE Unset
            BY <1>4, <1>6, <3>1
          <5> QED
            BY <3>3, <4>2, <5>1, <5>2 DEF Rendered, Sets
        <4>3. CASE x # env[i].name
          <5>1. /\ x \in DOMAIN vars(i) <=> x \in DOMAIN vars(i - 1)
                /\ x \in DOMAIN vars(i - 1) => vars(i)[x] = vars(i - 1)[x]
            BY <4>1, <4>3 DEF Put
          <5> QED
            BY <1>6, <3>1, <4>3, <5>1 DEF Sets
        <4> QED
          BY <4>2, <4>3
      <3> QED
        BY <3>2, <3>3
    <2> QED
      BY <2>1, <2>2
  <1>8. ASSUME NEW g, recurs(g)
        PROVE  \A i \in 0 .. Len(env), x \in names : g[i][x] = w[i][x]
    <2> DEFINE S == {i \in 0 .. Len(env) : \A x \in names : g[i][x] = w[i][x]}
    <2>1. 0 \in S
      BY <1>2, <1>7, <1>8
    <2>2. ASSUME NEW i \in 1 .. Len(env), i - 1 \in S
          PROVE  i \in S
      <3>1. i \in 0 .. Len(env) /\ i \in DOMAIN env /\ env[i].ref \in names
        BY <1>2, <1>4
      <3>2. \A x \in names : next(g, i, x) = next(w, i, x)
        BY <2>2, <3>1
      <3> QED
        BY <1>7, <1>8, <3>1, <3>2
    <2> HIDE DEF S
    <2>3. \A i \in 0 .. Len(env) : i \in S
      BY <1>2, <2>1, <2>2, UpTo
    <2> QED
      BY <2>3 DEF S
  <1>9. \A i \in 0 .. Len(env), x \in names : Decided(env, start, w, i, x) = w[i][x]
    <2> DEFINE S == {i \in 0 .. Len(env) : \A x \in names : Decided(env, start, w, i, x) = w[i][x]}
    <2>1. 0 \in S
      BY <1>2, <1>7, DecidedAtStart
    <2>2. ASSUME NEW i \in 1 .. Len(env), i - 1 \in S
          PROVE  i \in S
      <3>1. i \in 0 .. Len(env) /\ i \in Nat \ {0}
        BY <1>2
      <3>2. ASSUME NEW x \in names
            PROVE  Decided(env, start, w, i, x) = next(w, i, x)
        <4>1. Decided(env, start, w, i, x)
                = IF Sets(env, i, x)
                    THEN IF env[i].ref = Unset THEN env[i].value ELSE w[i - 1][env[i].ref]
                    ELSE Decided(env, start, w, i - 1, x)
          BY <3>1, DecidedByPlace
        <4>2. Decided(env, start, w, i - 1, x) = w[i - 1][x]
          BY <2>2, <3>2
        <4> QED
          BY <4>1, <4>2
      <3> QED
        BY <1>7, <3>1, <3>2
    <2> HIDE DEF S
    <2>3. \A i \in 0 .. Len(env) : i \in S
      BY <1>2, <2>1, <2>2, UpTo
    <2> QED
      BY <2>3 DEF S
  <1>10. w = rhs(w)
    BY <1>9 DEF w
  <1>11. ValueAfter = rhs(ValueAfter)
    <2> HIDE DEF rhs
    <2> QED
      BY <1>1, <1>10
  <1>12. \A i \in 0 .. Len(env), x \in names :
           ValueAfter[i][x] = Decided(env, start, ValueAfter, i, x)
    BY <1>11
  <1>13. recurs(ValueAfter)
    <2>1. ASSUME NEW x \in names
          PROVE  ValueAfter[0][x] = first(x)
      <3>1. Decided(env, start, ValueAfter, 0, x) = first(x)
        BY DecidedAtStart
      <3>2. 0 \in 0 .. Len(env)
        BY <1>2
      <3> QED
        BY <1>12, <3>1, <3>2
    <2>2. ASSUME NEW i \in 1 .. Len(env), NEW x \in names
          PROVE  ValueAfter[i][x] = next(ValueAfter, i, x)
      <3>1. i \in 0 .. Len(env) /\ i - 1 \in 0 .. Len(env) /\ i \in Nat \ {0}
        BY <1>2
      <3>2. Decided(env, start, ValueAfter, i, x)
              = IF Sets(env, i, x)
                  THEN IF env[i].ref = Unset THEN env[i].value ELSE ValueAfter[i - 1][env[i].ref]
                  ELSE Decided(env, start, ValueAfter, i - 1, x)
        BY <3>1, DecidedByPlace
      <3>3. /\ ValueAfter[i][x] = Decided(env, start, ValueAfter, i, x)
            /\ ValueAfter[i - 1][x] = Decided(env, start, ValueAfter, i - 1, x)
        BY <1>12, <3>1
      <3> QED
        BY <3>2, <3>3
    <2> QED
      BY <2>1, <2>2
  <1>14. \A i \in 0 .. Len(env), x \in names : ValueAfter[i][x] = w[i][x]
    <2> HIDE DEF recurs
    <2> QED
      BY <1>8, <1>13
  <1>15. \A i \in 0 .. Len(env), x \in names :
           ValueAfter[i][x] = IF x \in DOMAIN vars(i) THEN vars(i)[x] ELSE Unset
    BY <1>6, <1>14
  <1> QED
    BY <1>15 DEF vars, env, start, names, n, v

\* The settings of an entry take effect from top to bottom, the last one of a
\* name wins, and a program is refused only for a template without a value or
\* a variable of the daemon without a name, for lists of any length.
THEOREM SettingsInOrderCorrect == StartupSpec => []SettingsInOrder
PROOF
  <1>1. Surroundings => SettingsInOrder
    <2> DEFINE env   == ListOf(Entry.env)
               start == Forced(child, host.environ)
               names == DOMAIN start \cup UNION {{item.name, item.ref} : item \in ToSet(env)}
               n     == LastSetting(child)
               v     == Variables(child, host.environ)
               set   == child.env_extra_vars
               value(i, x) == IF x \in DOMAIN (v[IF i <= n THEN i ELSE n])
                                THEN v[IF i <= n THEN i ELSE n][x] ELSE Unset
    <2> SUFFICES ASSUME Surroundings, step # "parent"
                 PROVE  /\ Forked => \A i \in DOMAIN env :
                             ~Scalar(env[i]) =>
                               [name |-> env[i].name,
                                text |-> ValueAfter[Len(env)][env[i].name].text] \in environment
                        /\ step = "no_environment" =>
                             \/ \E i \in DOMAIN host.environ : host.environ[i].key = ""
                             \/ \E i \in DOMAIN env :
                                  ~Scalar(env[i]) /\ ValueAfter[i][env[i].name] = Unset
      BY DEF SettingsInOrder, Forked
    <2>1. /\ Len(env) \in Nat /\ DOMAIN env = 1 .. Len(env) /\ n \in 0 .. Len(env)
          /\ DOMAIN set = {i \in DOMAIN env : ~Scalar(env[i])}
          /\ \A i \in DOMAIN set : set[i] = env[i] /\ i <= n
      BY ChildSettings
    <2>2. \A i \in 1 .. n : v[i] = OnePlace(set, i, v[i - 1])
      BY VariablesOfChild
    <2>3. \A i \in 0 .. Len(env), x \in names : ValueAfter[i][x] = value(i, x)
      BY ValuesAreVariables
    <2>4. \A i \in DOMAIN env : env[i].name \in names
      <3> TAKE i \in DOMAIN env
      <3>1. env[i] \in ToSet(env)
        BY DEF ToSet
      <3> QED
        BY <3>1
    <2> HIDE DEF env, start, names, n, v, set
    <2>5. \A i \in DOMAIN set : i \in 1 .. n /\ i \in DOMAIN env /\ i \in 0 .. Len(env)
      BY <2>1
    <2>6. ASSUME NEW i \in DOMAIN set
          PROVE  \A j \in 0 .. n : j >= i => env[i].name \in DOMAIN (v[j])
      <3> DEFINE S == {j \in 0 .. n : j >= i => env[i].name \in DOMAIN (v[j])}
      <3>1. 0 \in S
        BY <2>1, <2>5
      <3>2. ASSUME NEW j \in 1 .. n, j - 1 \in S
            PROVE  j \in S
        <4>1. v[j] = OnePlace(set, j, v[j - 1]) /\ j \in 0 .. n
          BY <2>1, <2>2
        <4>2. CASE j = i
          BY <2>1, <2>6, <4>1, <4>2 DEF OnePlace, Put
        <4>3. CASE j # i
          <5>1. j >= i => j - 1 >= i
            BY <2>5, <4>3
          <5> QED
            BY <3>2, <4>1, <5>1 DEF OnePlace, Put
        <4> QED
          BY <4>2, <4>3
      <3>3. n \in Nat
        BY <2>1
      <3> HIDE DEF S
      <3>4. \A j \in 0 .. n : j \in S
        BY <3>1, <3>2, <3>3, UpTo
      <3> QED
        BY <3>4 DEF S
    <2>7. ASSUME Forked, NEW i \in DOMAIN env, ~Scalar(env[i])
          PROVE  [name |-> env[i].name,
                  text |-> ValueAfter[Len(env)][env[i].name].text] \in environment
      <3> DEFINE vars == v[n]
                 x == env[i].name
      <3>1. environment = {[name |-> y, text |-> vars[y].text] : y \in DOMAIN vars}
                            \cup UNION {vars[y].rest : y \in DOMAIN vars}
        BY <2>7 DEF HandleEnv, v, n, Surroundings, Environed
      <3>2. x \in DOMAIN vars
        BY <2>1, <2>6, <2>7
      <3>3. ValueAfter[Len(env)][x] = vars[x]
        <4>1. Len(env) \in 0 .. Len(env) /\ (IF Len(env) <= n THEN Len(env) ELSE n) = n
          <5> DEFINE l == Len(env)
          <5>1. l \in Nat /\ n \in 0 .. l
            BY <2>1
          <5> HIDE DEF l
          <5>2. l \in 0 .. l /\ (l <= n => l = n)
            BY <5>1
          <5> QED
            BY <5>2 DEF l
        <4> QED
          BY <2>3, <2>4, <3>2, <4>1
      <3> HIDE DEF vars, x
      <3> QED
        BY <3>1, <3>2, <3>3 DEF x
    <2>8. ASSUME step = "no_environment"
          PROVE  \/ \E i \in DOMAIN host.environ : host.environ[i].key = ""
                 \/ \E i \in DOMAIN env : ~Scalar(env[i]) /\ ValueAfter[i][env[i].name] = Unset
      <3>1. \/ \E i \in DOMAIN host.environ : host.environ[i].key = ""
            \/ \E i \in DOMAIN set : v[i][set[i].name] = Unset
        BY <2>8 DEF EnvThrows, Surroundings, Environed, v, set
      <3>2. ASSUME NEW i \in DOMAIN set, v[i][set[i].name] = Unset
            PROVE  i \in DOMAIN env /\ ~Scalar(env[i]) /\ ValueAfter[i][env[i].name] = Unset
        <4>1. i \in 0 .. Len(env) /\ i \in DOMAIN env /\ i <= n /\ set[i] = env[i] /\ ~Scalar(env[i])
          BY <2>1, <2>5
        <4>2. ValueAfter[i][env[i].name] = value(i, env[i].name)
          BY <2>3, <2>4, <4>1
        <4> QED
          BY <3>2, <4>1, <4>2
      <3> QED
        BY <3>1, <3>2
    <2> QED
      BY <2>7, <2>8
  <1> QED
    BY <1>1, SurroundingsInvariant, PTL

=============================================================================
