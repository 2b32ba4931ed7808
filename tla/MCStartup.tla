------------------------------ MODULE MCStartup ------------------------------
(***************************************************************************)
(* Instances of Startup for TLC: entries, files and daemons to start from. *)
(***************************************************************************)
EXTENDS StartupProperties

NetRaw     == "CAP_NET_RAW"
ForSetting == {"CAP_SETUID", "CAP_SETGID", "CAP_SETPCAP"}
KnownCaps  == ForSetting \cup {NetRaw, "CAP_CHOWN", "CAP_FOWNER"}

Passwd == [nobody |-> 7, root |-> 0]
Group  == [nogroup |-> 8]

Ping == [ name |-> "ping", path |-> "./ping", type |-> "oneshot", uid |-> Unset, gid |-> Unset,
          user |-> Unset, group |-> Unset, capabilities |-> <<NetRaw>>, pty |-> Unset,
          default_env |-> Unset, env |-> Unset ]

\* One program, every combination of the four ways to name user and group.
Identities ==
  { [Ping EXCEPT !.uid = u, !.gid = g, !.user = n, !.group = m] :
      u \in {Unset, Garbled, 0, 7}, g \in {Unset, Garbled, 8},
      n \in {Unset, Garbled, "nobody", "root", "ghost"}, m \in {Unset, Garbled, "nogroup", "ghost"} }

\* Terminals and capabilities: none, one, one the way needs, an unknown one,
\* and the word for all of them.
Demands ==
  { [Ping EXCEPT !.user = n, !.pty = t, !.capabilities = c] :
      n \in {"nobody", "root"}, t \in {FALSE, TRUE, Garbled},
      c \in {Unset, <<NetRaw>>, <<NetRaw, "CAP_SETUID", NetRaw>>, <<"CAP_BOGUS">>,
             <<"all">>, <<NetRaw, "all">>} }

\* Lists of up to three items of `env`: names to let through, settings and
\* templates, of the same variable or of another, and a value of two lines.
Pass(n)    == [name |-> n, value |-> Unset, ref |-> Unset]
Set(n, v)  == [name |-> n, value |-> v, ref |-> Unset]
Refer(n, r) == [name |-> n, value |-> Unset, ref |-> r]
TwoLines   == [text |-> "one", rest |-> {[name |-> "USER", text |-> "intruder"]}]
EnvItems   == {Pass("SECRET"), Set("A", Text("one")), Set("A", Text("two")), Refer("A", "SECRET"),
               Refer("B", "A"), Refer("USER", "USER"), Refer("LOGNAME", "A"), Set("A", TwoLines)}
Settings   ==
  { [Ping EXCEPT !.env = e, !.default_env = d] :
      e \in UNION {[1 .. n -> EnvItems] : n \in 0 .. 2}, d \in {Unset, FALSE, Garbled} }
  \cup { [Ping EXCEPT !.env = e] : e \in [1 .. 3 -> EnvItems] }

\* Fields that do not convert to strings, the first four before the lookups.
Garbage ==
  { [Ping EXCEPT !.type = Garbled], [Ping EXCEPT !.capabilities = <<NetRaw, Garbled>>],
    [Ping EXCEPT !.type = Garbled, !.user = "ghost"],
    [Ping EXCEPT !.capabilities = <<Garbled>>, !.group = "ghost"],
    [Ping EXCEPT !.name = Garbled], [Ping EXCEPT !.path = Garbled],
    [Ping EXCEPT !.env = <<Pass("SECRET"), Garbled>>],
    [Ping EXCEPT !.env = <<Garbled>>, !.group = "ghost"] }

\* What the daemon finds in its own environment.
Environ(n, v) == [key |-> n, value |-> v]
Usual == <<Environ("USER", Text("root")), Environ("LANG", Text("de")), Environ("SECRET", Text("s"))>>
Odd   == {<<>>, <<Environ("", Text("s"))>>, <<Environ("SECRET", Unset)>>,
          <<Environ("A", Text("s")), Environ("USER", Text("x")), Environ("USER", Text("y"))>>,
          <<Environ("HOME", TwoLines), Environ("SECRET", TwoLines)>>}

\* A program that talks; its capabilities need a daemon that has them all.
Talker == [Ping EXCEPT !.name = "talker", !.capabilities = <<NetRaw, "CAP_CHOWN", "CAP_FOWNER">>]

\* Directories of two and three files with complete, incomplete and rejected
\* entries, and with something that is no file.
Silent  == [Ping EXCEPT !.name = "failping", !.type = Unset]
Files   == {Broken, Irregular, <<>>, <<Ping>>, <<[Ping EXCEPT !.name = Unset], Silent>>,
            <<Silent, [Ping EXCEPT !.path = Unset], Ping>>, <<Ping, [Ping EXCEPT !.group = "ghost"]>>}
Several == [{"x.yml", "y.yml"} -> Files]
             \cup [{"x.yml", "y.yml", "z.yml"} -> {Irregular, <<Ping>>, <<[Ping EXCEPT !.name = Unset], Silent>>}]

AllPaths ==
  {[kind |-> "absent", content |-> Broken]}
  \cup {[kind |-> "file", content |-> <<e>>] :
            e \in Identities \cup Demands \cup Settings \cup Garbage \cup {Talker}}
  \cup {[kind |-> "directory", content |-> d] : d \in Several}

\* The numeric ids of the README's sample.
SamplePath == {[kind |-> "file", content |-> <<[Ping EXCEPT !.uid = 7, !.gid = 8]>>]}

\* A program on terminals.
OnTerminal   == [Ping EXCEPT !.user = "nobody", !.group = "nogroup", !.pty = TRUE]
TerminalPath == {[kind |-> "file", content |-> <<OnTerminal>>]}

\* Root with all capabilities, inheritable or not, or with one kind missing;
\* a user with ambient capabilities, and one without any.
Root(p, i) == [ uid |-> 0, gid |-> 0, permitted |-> p, inheritable |-> i,
                effective |-> p, ambient |-> {} ]
User(a)    == [ uid |-> 7, gid |-> 8, permitted |-> a, inheritable |-> a,
                effective |-> a, ambient |-> a ]
Lacking    == Root(KnownCaps \ {"CAP_FOWNER"}, {})
AnyDaemon  ==
  {Root(KnownCaps, {}), Root(KnownCaps, KnownCaps), Lacking}
  \cup {Root(KnownCaps \ {c}, {}) : c \in {NetRaw, "CAP_SETGID", "CAP_SETPCAP", "CAP_CHOWN"}}
  \cup {User({}), User(ForSetting), User(ForSetting \cup {NetRaw, "CAP_CHOWN"})}

FullRoot == {[creds |-> Root(KnownCaps, {}), environ |-> Usual]}
AnyHost  == {[creds |-> c, environ |-> Usual] : c \in AnyDaemon}
              \cup {[creds |-> Lacking, environ |-> e] : e \in Odd}

=============================================================================
