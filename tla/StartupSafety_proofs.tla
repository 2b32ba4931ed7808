------------------------ MODULE StartupSafety_proofs ------------------------
(***************************************************************************)
(* From the entry to the process: handle_caps fails only for want of       *)
(* something that the daemon lacked before it, and a program that runs has *)
(* the user, the group, the capabilities and the terminal its entry asks   *)
(* for.                                                                    *)
(***************************************************************************)
EXTENDS StartupLoader_proofs, StartupOutput_proofs

-----------------------------------------------------------------------------
(* handle_caps                                                              *)

Before == {"parent", "no_descriptors", "no_environment"}
OnTerminals == {"chown_out", "chown_err", "chmod_out", "chmod_err"}

\* What a daemon that has enough leaves its child with, at each call: first
\* its own credentials, then, from the first cap_set_proc to the last, the
\* capabilities of Transitional, of which setuid keeps the permitted ones.
OnTheWay ==
  /\ host \in Hosts /\ creds \in Credential
  /\ step \in Before \cup OnTerminals \cup {"gain"} => creds = host.creds
  /\ step \in OnTerminals => child.want_tty /\ DOMAIN terminals = {"STDOUT", "STDERR"}
  /\ Suffices(child.uid, child.gid) =>
       /\ step # "exited"
       /\ step = "chown_out" =>
            terminals["STDOUT"] = [uid |-> host.creds.uid, gid |-> host.creds.gid]
       /\ step \in OnTerminals \ {"chown_out"} =>
            terminals["STDOUT"] = [uid |-> child.uid, gid |-> child.gid]
       /\ step \in {"setgid", "setuid", "regain", "ambient", "drop"} =>
            creds.permitted = Transitional
       /\ step \in {"setgid", "setuid"} => creds.effective = Transitional
       /\ step = "setuid" => keepcaps
       /\ step = "ambient" => creds.inheritable = Transitional

\* Before fork() OnTheWay says no more than that the child's credentials are
\* the daemon's.
LEMMA InitOnTheWay == PrivilegesInit => OnTheWay
BY PrivilegesAssumption DEF PrivilegesInit, OnTheWay, Before, OnTerminals

LEMMA ParentOnTheWay ==
  ASSUME OnTheWay, NEW c,
         OutOfDescriptors(c) \/ BadEnvironment(c) \/ Fork(c)
  PROVE  OnTheWay'
PROOF
  <1> USE DEF OnTheWay, Before, OnTerminals
  <1>1. CASE OutOfDescriptors(c) \/ BadEnvironment(c)
    BY <1>1 DEF OutOfDescriptors, BadEnvironment
  <1>2. CASE Fork(c)
    BY <1>2 DEF Fork
  <1> QED
    BY <1>1, <1>2

LEMMA TerminalsOnTheWay ==
  ASSUME OnTheWay, GiveTerminals
  PROVE  OnTheWay'
PROOF
  <1> USE DEF OnTheWay, Before, OnTerminals
  <1>1. step \in OnTerminals /\ step' \in OnTerminals \cup {"gain", "exited"}
    BY DEF GiveTerminals, ChownTerminal, ChmodTerminal, Call
  <1>2. UNCHANGED <<host, child, creds>>
    BY DEF GiveTerminals, ChownTerminal, ChmodTerminal, Call
  <1>3. DOMAIN terminals' = DOMAIN terminals
    BY DEF GiveTerminals, ChownTerminal, ChmodTerminal, Call
  <1>4. ASSUME Suffices(child.uid, child.gid)
        PROVE  /\ step' # "exited"
               /\ step' # "chown_out"
               /\ step' \in OnTerminals =>
                    terminals'["STDOUT"] = [uid |-> child.uid, gid |-> child.gid]
    <2> DEFINE own == [uid |-> child.uid, gid |-> child.gid]
    <2>1. /\ child.uid # -1 /\ child.gid # -1
          /\ \/ "CAP_CHOWN" \in creds.effective
             \/ child.uid = creds.uid /\ child.gid = creds.gid
          /\ "CAP_FOWNER" \in creds.effective \/ child.uid = creds.uid
      BY <1>1, <1>4, CredentialsAssumption DEF Suffices
    <2>2. ASSUME NEW from, NEW stream \in {"STDOUT", "STDERR"}, NEW to,
                 ChownTerminal(from, stream, to), step = from
          PROVE  step' = to /\ terminals'["STDOUT"] = own
      <3>1. \/ terminals["STDOUT"] = [uid |-> creds.uid, gid |-> creds.gid]
            \/ terminals["STDOUT"] = own
        BY <1>1, <1>4
      <3>2. CanChown(creds, terminals["STDOUT"], child.uid, child.gid)
        BY <2>1, <3>1 DEF CanChown
      <3>3. Chown(terminals["STDOUT"], child.uid, child.gid) = own
        BY <2>1 DEF Chown
      <3>4. TtyName[stream] = "STDOUT"
        BY DEF TtyName
      <3>5. "STDOUT" \in DOMAIN terminals
        BY <1>1
      <3> QED
        BY <2>2, <3>2, <3>3, <3>4, <3>5 DEF ChownTerminal, Call
    <2>3. ASSUME NEW from, NEW stream \in {"STDOUT", "STDERR"}, NEW to,
                 ChmodTerminal(from, stream, to), step = from, step # "chown_out"
          PROVE  step' = to /\ UNCHANGED terminals
      <3>1. TtyName[stream] = "STDOUT" /\ terminals["STDOUT"] = own
        BY <1>1, <1>4, <2>3 DEF TtyName
      <3>2. CanChmod(creds, terminals[TtyName[stream]])
        BY <2>1, <3>1 DEF CanChmod
      <3> QED
        BY <2>3, <3>2 DEF ChmodTerminal, Call
    <2>4. CASE ChownTerminal("chown_out", "STDOUT", "chown_err")
      BY <2>2, <2>4 DEF ChownTerminal, Call
    <2>5. CASE ChownTerminal("chown_err", "STDERR", "chmod_out")
      BY <2>2, <2>5 DEF ChownTerminal, Call
    <2>6. CASE ChmodTerminal("chmod_out", "STDOUT", "chmod_err")
      BY <1>4, <2>3, <2>6 DEF ChmodTerminal, Call
    <2>7. CASE ChmodTerminal("chmod_err", "STDERR", "gain")
      BY <1>4, <2>3, <2>7 DEF ChmodTerminal, Call
    <2> QED
      BY <2>4, <2>5, <2>6, <2>7 DEF GiveTerminals
  <1>5. Suffices(child.uid, child.gid)' <=> Suffices(child.uid, child.gid)
    BY <1>2 DEF Suffices, Transitional
  <1> QED
    BY <1>1, <1>2, <1>4, <1>5, <1>3

\* What each call that succeeds leaves of a credential.
LEMMA CallsLeave ==
  ASSUME NEW c \in Credential
  PROVE  /\ \A s : CanCapSet(c, s) =>
              /\ CapSet(c, s) \in Credential
              /\ {CapSet(c, s).permitted, CapSet(c, s).inheritable, CapSet(c, s).effective} = {s}
         /\ \A gid : CanSetGid(c, gid) =>
              /\ SetGid(c, gid) \in Credential
              /\ SetGid(c, gid).permitted = c.permitted /\ SetGid(c, gid).effective = c.effective
         /\ \A uid, keep : CanSetUid(c, uid) =>
              /\ SetUid(c, uid, keep) \in Credential
              /\ keep => SetUid(c, uid, keep).permitted = c.permitted
         /\ AfterExec(c) \in Credential
PROOF
  <1> USE DEF Credential
  <1>1. ASSUME NEW s, CanCapSet(c, s)
        PROVE  /\ CapSet(c, s) \in Credential
               /\ {CapSet(c, s).permitted, CapSet(c, s).inheritable, CapSet(c, s).effective} = {s}
    BY <1>1 DEF CanCapSet, CapSet
  <1>2. ASSUME NEW gid, CanSetGid(c, gid)
        PROVE  /\ SetGid(c, gid) \in Credential
               /\ SetGid(c, gid).permitted = c.permitted /\ SetGid(c, gid).effective = c.effective
    BY <1>2 DEF CanSetGid, SetGid
  <1>3. ASSUME NEW uid, NEW keep, CanSetUid(c, uid)
        PROVE  /\ SetUid(c, uid, keep) \in Credential
               /\ keep => SetUid(c, uid, keep).permitted = c.permitted
    BY <1>3 DEF CanSetUid, SetUid
  <1>4. AfterExec(c) \in Credential
    BY DEF AfterExec
  <1> QED
    BY <1>1, <1>2, <1>3, <1>4

\* What is raised remains, once the kernel knows all that remains.
LEMMA RaisedRemains ==
  ASSUME Remaining \subseteq Caps
  PROVE  /\ Raised \subseteq Remaining
         /\ "all" \notin child.capabilities =>
              Raised = child.capabilities /\ Remaining = child.capabilities
         /\ "all" \in child.capabilities =>
              Raised = (child.capabilities \ {"all"}) \cup {"CAP_CHOWN"}
PROOF
  <1> DEFINE words == child.capabilities
  <1>1. /\ "CAP_CHOWN" \in Caps /\ "all" \notin Caps
        /\ Raised = {CapFromName(word) : word \in words}
    BY CredentialsAssumption DEF Raised
  <1>2. CASE "all" \notin words
    <2>1. Remaining = words
      BY <1>2 DEF Remaining, CapsFromText
    <2>2. \A word \in words : CapFromName(word) = word
      BY <2>1 DEF CapFromName
    <2> QED
      BY <1>1, <1>2, <2>1, <2>2
  <1>3. CASE "all" \in words
    <2>1. Remaining = Caps \cup (words \ {"all"})
      BY <1>3 DEF Remaining, CapsFromText
    <2>2. words \ {"all"} \subseteq Caps
      BY <2>1
    <2>3. \A word \in words \ {"all"} : CapFromName(word) = word
      BY <2>2 DEF CapFromName
    <2>4. CapFromName("all") = "CAP_CHOWN"
      BY <1>1 DEF CapFromName
    <2>5. Raised = (words \ {"all"}) \cup {"CAP_CHOWN"}
      BY <1>1, <1>3, <2>3, <2>4
    <2> QED
      BY <1>1, <1>3, <2>1, <2>5
  <1> QED
    BY <1>2, <1>3

LEMMA CapabilitiesOnTheWay ==
  ASSUME OnTheWay,
         \/ GainCapabilities \/ SetGroup \/ SetUser
         \/ RegainCapabilities \/ RaiseConfigured \/ DropCapabilities \/ Execute
  PROVE  OnTheWay'
PROOF
  <1> USE DEF OnTheWay, Before, OnTerminals
  <1>1. UNCHANGED <<host, child, terminals>>
    BY DEF GainCapabilities, SetGroup, SetUser, RegainCapabilities, RaiseConfigured,
           DropCapabilities, Execute, Call
  <1>2. /\ Suffices(child.uid, child.gid)' <=> Suffices(child.uid, child.gid)
        /\ Transitional' = Transitional
    BY <1>1 DEF Suffices, Transitional
  <1>3. Suffices(child.uid, child.gid) =>
          /\ child.uid \in Ids /\ child.gid \in Ids
          /\ Transitional \subseteq Caps /\ Transitional \subseteq host.creds.permitted
          /\ Raised \subseteq Transitional /\ Remaining \subseteq Transitional
          /\ {"CAP_SETUID", "CAP_SETGID"} \subseteq Transitional
    <2> SUFFICES ASSUME Suffices(child.uid, child.gid)
                 PROVE  /\ child.uid \in Ids /\ child.gid \in Ids
                        /\ Transitional \subseteq Caps /\ Transitional \subseteq host.creds.permitted
                        /\ Raised \subseteq Transitional /\ Remaining \subseteq Transitional
                        /\ {"CAP_SETUID", "CAP_SETGID"} \subseteq Transitional
      OBVIOUS
    <2>1. /\ child.uid \in Ids /\ child.gid \in Ids
          /\ Transitional \subseteq Caps /\ Transitional \subseteq host.creds.permitted
      BY DEF Suffices
    <2>2. Remaining \subseteq Transitional /\ {"CAP_SETUID", "CAP_SETGID"} \subseteq Transitional
      BY DEF Transitional, Remaining
    <2>3. Raised \subseteq Remaining
      BY <2>1, <2>2, RaisedRemains
    <2> QED
      BY <2>1, <2>2, <2>3
  <1> USE <1>1, <1>2, <1>3
  <1>4. CASE GainCapabilities
    <2>1. Suffices(child.uid, child.gid) => CanCapSet(creds, Transitional)
      BY <1>4 DEF GainCapabilities, Call, CanCapSet
    <2>2. CanCapSet(creds, Transitional) =>
            LET c == CapSet(creds, Transitional)
            IN c \in Credential /\ {c.permitted, c.inheritable, c.effective} = {Transitional}
      BY CallsLeave
    <2>3. /\ step = "gain"
          /\ \/ /\ CanCapSet(creds, Transitional)
                /\ creds' = CapSet(creds, Transitional) /\ step' = "setgid"
             \/ /\ ~CanCapSet(creds, Transitional)
                /\ UNCHANGED creds /\ step' = "exited"
      BY <1>4 DEF GainCapabilities, Call
    <2> QED
      BY <2>1, <2>2, <2>3
  <1>5. CASE SetGroup
    <2>1. Suffices(child.uid, child.gid) => CanSetGid(creds, child.gid)
      BY <1>5 DEF SetGroup, Call, CanSetGid
    <2> QED
      BY <1>5, <2>1, CallsLeave DEF SetGroup, Keep, Call
  <1>6. CASE SetUser
    <2>1. Suffices(child.uid, child.gid) => CanSetUid(creds, child.uid)
      BY <1>6 DEF SetUser, Call, CanSetUid
    <2> QED
      BY <1>6, <2>1, CallsLeave DEF SetUser, Call
  <1>7. CASE RegainCapabilities
    <2>1. Suffices(child.uid, child.gid) => CanCapSet(creds, Transitional)
      BY <1>7 DEF RegainCapabilities, Call, CanCapSet
    <2>2. CanCapSet(creds, Transitional) =>
            LET c == CapSet(creds, Transitional)
            IN c \in Credential /\ {c.permitted, c.inheritable, c.effective} = {Transitional}
      BY CallsLeave
    <2>3. /\ step = "regain"
          /\ \/ /\ CanCapSet(creds, Transitional)
                /\ creds' = CapSet(creds, Transitional) /\ step' = "ambient"
             \/ /\ ~CanCapSet(creds, Transitional)
                /\ UNCHANGED creds /\ step' = "exited"
      BY <1>7 DEF RegainCapabilities, Call
    <2> QED
      BY <2>1, <2>2, <2>3
  <1>8. CASE RaiseConfigured
    <2> DEFINE cleared == [creds EXCEPT !.ambient = {}]
    <2>1. /\ RaiseAmbient(cleared, Raised).permitted = creds.permitted
          /\ cleared.permitted = creds.permitted /\ cleared.inheritable = creds.inheritable
      BY DEF RaiseAmbient, Credential
    <2>2. Suffices(child.uid, child.gid) => CanRaiseAmbient(cleared, Raised)
      BY <1>8, <2>1 DEF RaiseConfigured, Call, CanRaiseAmbient
    <2>3. CanRaiseAmbient(cleared, Raised) => RaiseAmbient(cleared, Raised) \in Credential
      BY DEF CanRaiseAmbient, RaiseAmbient, Credential
    <2>4. /\ Call("ambient", CanRaiseAmbient(cleared, Raised), RaiseAmbient(cleared, Raised), "drop")
          /\ UNCHANGED <<keepcaps, terminals>>
      BY <1>8 DEF RaiseConfigured
    <2> HIDE DEF cleared
    <2> QED
      BY <2>1, <2>2, <2>3, <2>4 DEF Call
  <1>9. CASE DropCapabilities
    <2>1. Suffices(child.uid, child.gid) => CanCapSet(creds, Remaining)
      BY <1>9 DEF DropCapabilities, Call, CanCapSet
    <2>2. CanCapSet(creds, Remaining) =>
            LET c == CapSet(creds, Remaining)
            IN c \in Credential /\ {c.permitted, c.inheritable, c.effective} = {Remaining}
      BY CallsLeave
    <2>3. /\ step = "drop"
          /\ \/ /\ CanCapSet(creds, Remaining)
                /\ creds' = CapSet(creds, Remaining) /\ step' = "exec"
             \/ /\ ~CanCapSet(creds, Remaining)
                /\ UNCHANGED creds /\ step' = "exited"
      BY <1>9 DEF DropCapabilities, Call
    <2> QED
      BY <2>1, <2>2, <2>3
  <1>10. CASE Execute
    BY <1>10, CallsLeave DEF Execute, Call
  <1> QED
    BY <1>4, <1>5, <1>6, <1>7, <1>8, <1>9, <1>10

LEMMA StepOnTheWay ==
  ASSUME OnTheWay, [StartupNext]_startupVars
  PROVE  OnTheWay'
PROOF
  <1>1. CASE UNCHANGED privilegeVars
    BY <1>1 DEF privilegeVars, OnTheWay, Suffices, Transitional
  <1>2. ASSUME NEW k \in DOMAIN processes, Start(k)
        PROVE  OnTheWay'
    BY <1>2, ParentOnTheWay DEF Start
  <1>3. CASE Become
    BY <1>3, TerminalsOnTheWay, CapabilitiesOnTheWay DEF Become, HandleCaps
  <1>4. CASE Load \/ Talk \/ Ended \/ UNCHANGED startupVars
    BY <1>1, <1>4 DEF Load, Talk, Ended, startupVars
  <1> QED
    BY <1>2, <1>3, <1>4 DEF StartupNext

\* If a child gives up before exec, some capability that its way needs or that
\* its entry asks for was missing from the start, or its ids are none, or its
\* terminal could not be given away: the order of handle_caps' calls, with
\* KEEPCAPS around setuid, costs it nothing.
THEOREM HandleCapsFailsForCause == StartupSpec => []FailsOnlyForCause
PROOF
  <1>1. StartupInit => OnTheWay
    BY InitOnTheWay DEF StartupInit
  <1>2. OnTheWay /\ [StartupNext]_startupVars => OnTheWay'
    BY StepOnTheWay
  <1>3. OnTheWay => FailsOnlyForCause
    BY DEF OnTheWay, FailsOnlyForCause
  <1> QED
    BY <1>1, <1>2, <1>3, PTL DEF StartupSpec

-----------------------------------------------------------------------------
(* The program under its entry                                              *)

\* do_fork is called on an object of the loaded list.
Chosen ==
  step # "parent" =>
    loader = "loaded" /\ child \in {processes[k] : k \in DOMAIN processes}

\* What the calls that lie behind have left: first the group, then the user,
\* the ambient set, and with the last cap_set_proc the other three.
Becoming ==
  /\ step \in {"setuid", "regain", "ambient", "drop", "exec", "executed"} =>
       creds.gid = child.gid
  /\ step \in {"regain", "ambient", "drop", "exec", "executed"} => creds.uid = child.uid
  /\ step = "drop" => creds.ambient = Raised
  /\ step \in {"exec", "executed"} =>
       /\ Remaining \subseteq Caps /\ creds.ambient = Raised
       /\ creds.inheritable = Remaining
  /\ step = "executed" /\ creds.uid # 0 =>
       creds.permitted = Raised /\ creds.effective = Raised

\* The terminals are the daemon's until they are handed over.
Daemons == [uid |-> host.creds.uid, gid |-> host.creds.gid]
HandedOver ==
  /\ step \in Before => DOMAIN terminals = {}
  /\ step \notin Before /\ child.want_tty => DOMAIN terminals = {"STDOUT", "STDERR"}
  /\ step \notin Before \cup {"chown_out", "exited"} /\ child.want_tty =>
       terminals["STDOUT"] = Chown(Daemons, child.uid, child.gid)
  /\ \A t \in DOMAIN terminals :
       terminals[t] = Daemons \/ terminals[t] = Chown(Daemons, child.uid, child.gid)

LEMMA StepChosen ==
  ASSUME Chosen, [StartupNext]_startupVars
  PROVE  Chosen'
PROOF
  <1> USE DEF Chosen
  <1>1. CASE Load
    <2>1. UNCHANGED <<step, child>>
      BY <1>1 DEF Load, privilegeVars
    <2>2. loader # "loaded"
      BY <1>1 DEF Load, ConfigNext, Invoke, LoadFile, SkipEntry, RejectEntry, AcceptEntry,
                  AtEntry, FileDone, Loaded
    <2> QED
      BY <2>1, <2>2
  <1>2. ASSUME NEW k \in DOMAIN processes, Start(k)
        PROVE  Chosen'
    BY <1>2 DEF Start, OutOfDescriptors, BadEnvironment, Fork, configVars
  <1>3. CASE Become
    <2>1. step # "parent" /\ UNCHANGED child
      BY <1>3 DEF Become, HandleCaps, GiveTerminals, ChownTerminal, ChmodTerminal,
                  GainCapabilities, SetGroup, SetUser, RegainCapabilities, RaiseConfigured,
                  DropCapabilities, Execute, Call
    <2> QED
      BY <1>3, <2>1 DEF Become, configVars
  <1>4. CASE Talk \/ Ended \/ UNCHANGED startupVars
    BY <1>4 DEF Talk, Ended, startupVars, configVars, privilegeVars
  <1> QED
    BY <1>1, <1>2, <1>3, <1>4 DEF StartupNext

\* What the loader makes of an entry.
LEMMA ChildFields ==
  ASSUME NEW id, NEW e
  PROVE  LET c == Child(id, e)
         IN /\ c.id = id
            /\ c.uid = Preferred(NumericUid(e), UserLookup(e), UserId)
            /\ c.gid = Preferred(NumericGid(e), GroupLookup(e), GroupId)
            /\ c.type \in {"SIMPLE", "ONESHOT"}
            /\ c.capabilities = ToSet(ListOf(e.capabilities))
            /\ c.want_tty = FlagOf(e.pty, FALSE)
            /\ c.want_default_env = FlagOf(e.default_env, TRUE)
BY DEF Child, ToSet

\* So it is what the loader makes of the entry that bears its id.
LEMMA ChildOfEntry ==
  ASSUME Loading, Chosen, step # "parent"
  PROVE  /\ child = Child(child.id, Entry) /\ Acceptable(Entry)
         /\ Entry \in {EntryAt(p) : p \in Complete}
PROOF
  <1>1. PICK k \in DOMAIN processes : child = processes[k]
    BY DEF Chosen
  <1>2. DOMAIN processes = 1 .. Len(processes) /\ Len(processes) \in Nat
    BY DEF Loading, Listed
  <1>3. PICK p \in Read : Place(p) = k - 1
    BY <1>1, <1>2 DEF Loading, Listed
  <1>4. p \in Complete /\ processes[Place(p) + 1] = Child(Place(p), EntryAt(p))
    BY AllRead DEF Chosen, Read
  <1>5. child = Child(Place(p), EntryAt(p)) /\ child.id = Place(p)
    <2>1. Place(p) + 1 = k
      BY <1>2, <1>3
    <2>2. child = Child(Place(p), EntryAt(p))
      BY <1>1, <1>4, <2>1
    <2>3. Child(Place(p), EntryAt(p)).id = Place(p)
      BY ChildFields
    <2> QED
      BY <2>2, <2>3
  <1> DEFINE q == CHOOSE q \in Complete : Place(q) = child.id
  <1>6. q \in Complete /\ Place(q) = child.id
    BY <1>4, <1>5
  <1>7. processes[Place(q) + 1] = Child(Place(q), EntryAt(q)) /\ Acceptable(EntryAt(q))
    BY <1>6, AllRead DEF Chosen
  <1>8. processes[Place(q) + 1] = child
    BY <1>4, <1>5, <1>6
  <1> QED
    BY <1>6, <1>7, <1>8 DEF Entry

LEMMA StepBecoming ==
  ASSUME OnTheWay, Becoming, [StartupNext]_startupVars
  PROVE  Becoming'
PROOF
  <1> USE DEF Becoming
  <1>1. creds \in Credential
    BY DEF OnTheWay
  <1>2. CASE UNCHANGED privilegeVars
    BY <1>2 DEF privilegeVars, Raised, Remaining
  <1>3. ASSUME NEW k \in DOMAIN processes, Start(k)
        PROVE  Becoming'
    BY <1>3 DEF Start, OutOfDescriptors, BadEnvironment, Fork
  <1>4. CASE GiveTerminals \/ GainCapabilities
    BY <1>4 DEF GiveTerminals, ChownTerminal, ChmodTerminal, GainCapabilities, Call
  <1>5. CASE SetGroup
    BY <1>1, <1>5 DEF SetGroup, Call, SetGid, Credential
  <1>6. CASE SetUser
    BY <1>1, <1>6 DEF SetUser, Call, SetUid, Credential
  <1>7. CASE RegainCapabilities
    BY <1>1, <1>7 DEF RegainCapabilities, Call, CapSet, Credential
  <1>8. CASE RaiseConfigured
    <2> DEFINE cleared == [creds EXCEPT !.ambient = {}]
    <2>1. /\ RaiseAmbient(cleared, Raised).ambient = Raised
          /\ RaiseAmbient(cleared, Raised).uid = creds.uid
          /\ RaiseAmbient(cleared, Raised).gid = creds.gid
      BY <1>1 DEF RaiseAmbient, Credential
    <2>2. /\ step = "ambient" /\ step' \in {"drop", "exited"} /\ UNCHANGED child
          /\ step' = "drop" => creds' = RaiseAmbient(cleared, Raised)
      BY <1>8 DEF RaiseConfigured, Call
    <2> HIDE DEF cleared
    <2>3. Raised' = Raised
      BY <2>2 DEF Raised
    <2> QED
      BY <2>1, <2>2, <2>3
  <1>9. CASE DropCapabilities
    <2>1. CASE step' = "exited"
      BY <2>1
    <2>2. CASE step' # "exited"
      <3>1. /\ step = "drop" /\ step' = "exec" /\ UNCHANGED child
            /\ CanCapSet(creds, Remaining) /\ creds' = CapSet(creds, Remaining)
        BY <1>9, <2>2 DEF DropCapabilities, Call
      <3>2. /\ Remaining \subseteq Caps /\ creds'.inheritable = Remaining
            /\ creds'.uid = creds.uid /\ creds'.gid = creds.gid
            /\ creds'.ambient = creds.ambient \cap Remaining
        BY <1>1, <3>1 DEF CanCapSet, CapSet, Credential
      <3>3. creds'.ambient = Raised
        BY <3>1, <3>2, RaisedRemains
      <3>4. Raised' = Raised /\ Remaining' = Remaining
        BY <3>1 DEF Raised, Remaining
      <3> QED
        BY <3>1, <3>2, <3>3, <3>4
    <2> QED
      BY <2>1, <2>2
  <1>10. CASE Execute
    <2>1. /\ step = "exec" /\ step' \in {"executed", "no_program"} /\ UNCHANGED child
          /\ step' = "executed" => creds' = AfterExec(creds)
      BY <1>10 DEF Execute, Call
    <2>2. Raised' = Raised /\ Remaining' = Remaining
      BY <2>1 DEF Raised, Remaining
    <2> QED
      BY <1>1, <2>1, <2>2 DEF AfterExec, Credential
  <1>11. CASE Load \/ Talk \/ Ended \/ UNCHANGED startupVars
    BY <1>2, <1>11 DEF Load, Talk, Ended, startupVars
  <1> QED
    BY <1>3, <1>4, <1>5, <1>6, <1>7, <1>8, <1>9, <1>10, <1>11
    DEF StartupNext, Become, HandleCaps

\* Being handed over twice, as line 282 does to the first terminal, is being
\* handed over once.
LEMMA ChownTwice ==
  ASSUME NEW owner, NEW uid, NEW gid
  PROVE  Chown(Chown(owner, uid, gid), uid, gid) = Chown(owner, uid, gid)
BY DEF Chown

LEMMA StepHandedOver ==
  ASSUME OnTheWay, HandedOver, [StartupNext]_startupVars
  PROVE  HandedOver'
PROOF
  <1> USE DEF HandedOver, Before
  <1>1. CASE UNCHANGED privilegeVars
    BY <1>1 DEF privilegeVars, Daemons
  <1>2. ASSUME NEW k \in DOMAIN processes, Start(k)
        PROVE  HandedOver'
    <2>1. CASE OutOfDescriptors(processes[k]) \/ BadEnvironment(processes[k])
      BY <2>1 DEF OutOfDescriptors, BadEnvironment
    <2>2. CASE Fork(processes[k])
      <3>1. /\ step = "parent" /\ step' = (IF child'.want_tty THEN "chown_out" ELSE "gain")
            /\ terminals' = IF child'.want_tty
                              THEN [t \in {"STDOUT", "STDERR"} |-> [uid |-> creds.uid, gid |-> creds.gid]]
                              ELSE terminals
            /\ creds = host.creds /\ UNCHANGED host
        BY <2>2 DEF Fork, OnTheWay, Before
      <3> QED
        BY <3>1 DEF Daemons
    <2> QED
      BY <1>2, <2>1, <2>2 DEF Start
  <1>3. CASE GiveTerminals
    <2> DEFINE given == Chown(Daemons, child.uid, child.gid)
    <2>1. /\ step \in OnTerminals /\ child.want_tty /\ DOMAIN terminals = {"STDOUT", "STDERR"}
          /\ UNCHANGED <<host, child>>
      BY <1>3 DEF GiveTerminals, ChownTerminal, ChmodTerminal, Call, OnTheWay, OnTerminals
    <2>2. Daemons' = Daemons /\ Chown(Daemons, child.uid, child.gid)' = given
      BY <2>1 DEF Daemons, Chown
    <2>3. Chown(Daemons, child.uid, child.gid) = given /\ Chown(given, child.uid, child.gid) = given
      BY ChownTwice
    <2> HIDE DEF given
    <2>4. ASSUME NEW from, NEW stream \in {"STDOUT", "STDERR"}, NEW to,
                 ChownTerminal(from, stream, to), from \in {"chown_out", "chown_err"}
          PROVE  \/ step' = "exited" /\ UNCHANGED terminals
                 \/ step' = to /\ terminals' = [terminals EXCEPT !["STDOUT"] = given]
      <3>1. terminals["STDOUT"] \in {Daemons, given}
        BY <2>1, <2>3
      <3>2. Chown(terminals["STDOUT"], child.uid, child.gid) = given
        BY <2>3, <3>1
      <3>3. TtyName[stream] = "STDOUT"
        BY DEF TtyName
      <3> QED
        BY <2>4, <3>2, <3>3 DEF ChownTerminal, Call
    <2>5. CASE ChownTerminal("chown_out", "STDOUT", "chown_err")
      <3>1. \/ step' = "exited" /\ UNCHANGED terminals
            \/ step' = "chown_err" /\ terminals' = [terminals EXCEPT !["STDOUT"] = given]
        BY <2>4, <2>5
      <3> QED
        BY <2>1, <2>2, <2>3, <3>1
    <2>6. CASE ChownTerminal("chown_err", "STDERR", "chmod_out")
      <3>1. \/ step' = "exited" /\ UNCHANGED terminals
            \/ step' = "chmod_out" /\ terminals' = [terminals EXCEPT !["STDOUT"] = given]
        BY <2>4, <2>6
      <3> QED
        BY <2>1, <2>2, <2>3, <3>1
    <2>7. CASE \/ ChmodTerminal("chmod_out", "STDOUT", "chmod_err")
               \/ ChmodTerminal("chmod_err", "STDERR", "gain")
      <3>1. UNCHANGED terminals /\ step \in {"chmod_out", "chmod_err"}
            /\ step' \in {"chmod_err", "gain", "exited"}
        BY <2>7 DEF ChmodTerminal, Call
      <3> QED
        BY <2>1, <2>2, <2>3, <3>1
    <2> QED
      BY <1>3, <2>5, <2>6, <2>7 DEF GiveTerminals
  <1>4. CASE \/ GainCapabilities \/ SetGroup \/ SetUser
             \/ RegainCapabilities \/ RaiseConfigured \/ DropCapabilities \/ Execute
    <2>1. UNCHANGED <<host, child, terminals>> /\ step \notin Before \cup {"chown_out", "exited"}
          /\ step' \notin Before \cup {"chown_out"}
      BY <1>4 DEF GainCapabilities, SetGroup, SetUser, RegainCapabilities, RaiseConfigured,
                  DropCapabilities, Execute, Call
    <2>2. Daemons' = Daemons
      BY <2>1 DEF Daemons
    <2> QED
      BY <2>1, <2>2
  <1>5. CASE Load \/ Talk \/ Ended \/ UNCHANGED startupVars
    BY <1>1, <1>5 DEF Load, Talk, Ended, startupVars
  <1> QED
    BY <1>2, <1>3, <1>4, <1>5 DEF StartupNext, Become, HandleCaps

Identity == Loading /\ OnTheWay /\ Chosen /\ Becoming /\ HandedOver

THEOREM IdentityInvariant == StartupSpec => []Identity
PROOF
  <1>1. StartupInit => Identity
    <2> SUFFICES ASSUME StartupInit
                 PROVE  Identity
      OBVIOUS
    <2>1. Chosen /\ Becoming /\ HandedOver
      BY DEF StartupInit, PrivilegesInit, Chosen, Becoming, HandedOver, Before
    <2> QED
      BY <2>1, InitLoading, InitOnTheWay DEF StartupInit, Identity
  <1>2. Identity /\ [StartupNext]_startupVars => Identity'
    BY StepLoading, StepOnTheWay, StepChosen, StepBecoming, StepHandedOver DEF Identity
  <1> QED
    BY <1>1, <1>2, PTL DEF StartupSpec

\* A program that runs, and not as root, has the user and the group of its
\* child object and exactly the capabilities of its entry, in all four sets,
\* whatever the daemon had; of an entry that lists "all", the capabilities
\* named next to it, and CAP_CHOWN.
THEOREM ExecAsConfiguredCorrect == StartupSpec => []ExecAsConfigured
PROOF
  <1>1. Identity => ExecAsConfigured
    <2> SUFFICES ASSUME Identity, step = "executed", creds.uid # 0
                 PROVE  ExecAsConfigured
      BY DEF ExecAsConfigured
    <2>1. child = Child(child.id, Entry)
      BY ChildOfEntry DEF Identity
    <2>2. Child(child.id, Entry).capabilities = ToSet(ListOf(Entry.capabilities))
      BY ChildFields
    <2>3. child.capabilities = ToSet(ListOf(Entry.capabilities))
      BY <2>1, <2>2
    <2>4. /\ creds.uid = child.uid /\ creds.gid = child.gid
          /\ Remaining \subseteq Caps /\ creds.inheritable = Remaining
          /\ creds.permitted = Raised /\ creds.effective = Raised /\ creds.ambient = Raised
      BY DEF Identity, Becoming
    <2> QED
      BY <2>3, <2>4, RaisedRemains DEF ExecAsConfigured
  <1> QED
    BY <1>1, IdentityInvariant, PTL

\* The terminal of a program that asked for one belongs to the credentials it
\* ends up with, and no terminal ever belongs to a third party.
THEOREM TerminalHandedOverCorrect == StartupSpec => []TerminalHandedOver
PROOF
  <1>1. Identity => TerminalHandedOver
    <2> SUFFICES ASSUME Identity
                 PROVE  TerminalHandedOver
      OBVIOUS
    <2>1. /\ OnTheWay /\ Chosen /\ Becoming /\ HandedOver /\ Loading
      BY DEF Identity
    <2>2. ASSUME step = "executed", Entry.pty = TRUE
          PROVE  terminals["STDOUT"] = [uid |-> creds.uid, gid |-> creds.gid]
      <3>1. child = Child(child.id, Entry)
        BY <2>1, <2>2, ChildOfEntry
      <3>2. Child(child.id, Entry).want_tty = FlagOf(Entry.pty, FALSE)
        BY ChildFields
      <3>3. child.want_tty
        BY <2>2, <3>1, <3>2, StartupAssumption DEF FlagOf
      <3>4. terminals["STDOUT"] = Chown(Daemons, child.uid, child.gid)
        BY <2>1, <2>2, <3>3 DEF HandedOver, Before
      <3>5. child.uid = creds.uid /\ child.gid = creds.gid /\ creds.uid # -1 /\ creds.gid # -1
        BY <2>1, <2>2, CredentialsAssumption DEF Becoming, OnTheWay, Credential
      <3> QED
        BY <3>4, <3>5 DEF Chown
    <2>3. ASSUME NEW t \in DOMAIN terminals
          PROVE  /\ terminals[t].uid \in {host.creds.uid, child.uid}
                 /\ terminals[t].gid \in {host.creds.gid, child.gid}
      BY <2>1 DEF HandedOver, Chown, Daemons
    <2> QED
      BY <2>2, <2>3 DEF TerminalHandedOver
  <1> QED
    BY <1>1, IdentityInvariant, PTL

-----------------------------------------------------------------------------
(* The type invariant                                                       *)

Typed ==
  /\ \A f \in DOMAIN files : HasEntries(files[f])
  /\ step \in Before \cup OnTerminals
                \cup {"gain", "setgid", "setuid", "regain", "ambient", "drop",
                      "exec", "executed", "no_program", "exited"}
  /\ keepcaps \in BOOLEAN

LEMMA StepTyped ==
  ASSUME Loading, Typed, [StartupNext]_startupVars
  PROVE  Typed'
PROOF
  <1> USE DEF Typed
  <1>1. \A f \in DOMAIN files' : HasEntries(files'[f])
    <2>1. CASE Invoke
      <3>1. path \in Paths
        BY DEF Loading, Position
      <3>2. CASE path.kind = "absent"
        BY <2>1, <3>2 DEF Invoke
      <3>3. CASE path.kind = "file"
        <4>1. files' = <<path.content>> /\ HasEntries(path.content)
          BY <2>1, <3>1, <3>3, StartupAssumption DEF Invoke
        <4> QED
          BY <4>1
      <3>4. CASE path.kind = "directory"
        <4> DEFINE regular == {n \in DOMAIN path.content : path.content[n] # Irregular}
        <4>1. PICK order \in [1 .. Cardinality(regular) -> regular] :
                files' = [i \in DOMAIN order |-> path.content[order[i]]]
          BY <2>1, <3>4 DEF Invoke
        <4>2. \A n \in regular : HasEntries(path.content[n])
          BY <3>1, <3>4, StartupAssumption
        <4> HIDE DEF regular
        <4> QED
          BY <4>1, <4>2
      <3> QED
        BY <3>1, <3>2, <3>3, <3>4, ConfigAssumption
    <2>2. CASE LoadFile \/ SkipEntry \/ RejectEntry \/ AcceptEntry \/ FileDone \/ Loaded
      BY <2>2 DEF LoadFile, SkipEntry, RejectEntry, AcceptEntry, FileDone, Loaded
    <2>3. CASE UNCHANGED configVars
      BY <2>3 DEF configVars
    <2> QED
      BY <2>1, <2>2, <2>3
      DEF StartupNext, Load, ConfigNext, Start, Become, Talk, Ended, startupVars
  <1>2. step' \in Before \cup OnTerminals
                    \cup {"gain", "setgid", "setuid", "regain", "ambient", "drop",
                          "exec", "executed", "no_program", "exited"}
        /\ keepcaps' \in BOOLEAN
    <2>1. CASE UNCHANGED privilegeVars
      BY <2>1 DEF privilegeVars
    <2>2. ASSUME NEW k \in DOMAIN processes, Start(k)
          PROVE  step' \in Before \cup OnTerminals \cup {"gain"} /\ UNCHANGED keepcaps
      BY <2>2 DEF Start, OutOfDescriptors, BadEnvironment, Fork, Before, OnTerminals
    <2>3. CASE Become
      BY <2>3 DEF Become, HandleCaps, GiveTerminals, ChownTerminal, ChmodTerminal,
                  GainCapabilities, SetGroup, Keep, SetUser, RegainCapabilities,
                  RaiseConfigured, DropCapabilities, Execute, Call, OnTerminals
    <2>4. CASE Load \/ Talk \/ Ended \/ UNCHANGED startupVars
      BY <2>1, <2>4 DEF Load, Talk, Ended, startupVars
    <2> QED
      BY <2>2, <2>3, <2>4 DEF StartupNext
  <1> QED
    BY <1>1, <1>2

\* An entry that was accepted has ids and flags.
LEMMA ChildTyped ==
  ASSUME NEW id, NEW e, IsEntry(e), Acceptable(e)
  PROVE  LET c == Child(id, e)
         IN /\ c.type \in {"SIMPLE", "ONESHOT"}
            /\ {c.uid, c.gid} \subseteq Ids \cup {NoId}
            /\ {c.want_tty, c.want_default_env} \subseteq BOOLEAN
PROOF
  <1>1. {NumericUid(e), NumericGid(e)} \subseteq Ids \cup {NoId}
    BY DEF IsEntry, Acceptable, BadHead, BadId, NumericUid, NumericGid
  <1>2. \A name, default : Looked(name, default, e) = {} \/ \E x : Looked(name, default, e) = {x}
    BY DEF Looked
  <1>3. UserLookup(e) \subseteq DOMAIN UserId /\ GroupLookup(e) \subseteq DOMAIN GroupId
    BY DEF Acceptable, BadUser, BadGroup
  <1>4. Preferred(NumericUid(e), UserLookup(e), UserId) \in Ids \cup {NoId}
    <2>1. CASE UserLookup(e) = {}
      BY <1>1, <2>1 DEF Preferred
    <2>2. CASE UserLookup(e) # {}
      BY <1>3, <2>2, StartupAssumption DEF Preferred
    <2> QED
      BY <2>1, <2>2
  <1>5. Preferred(NumericGid(e), GroupLookup(e), GroupId) \in Ids \cup {NoId}
    <2>1. CASE GroupLookup(e) = {}
      BY <1>1, <2>1 DEF Preferred
    <2>2. CASE GroupLookup(e) # {}
      BY <1>3, <2>2, StartupAssumption DEF Preferred
    <2> QED
      BY <2>1, <2>2
  <1>6. {FlagOf(e.pty, FALSE), FlagOf(e.default_env, TRUE)} \subseteq BOOLEAN
    BY DEF IsEntry, Acceptable, BadTail, BadFlag, FlagOf
  <1> DEFINE c == Child(id, e)
  <1>7. /\ c.uid = Preferred(NumericUid(e), UserLookup(e), UserId)
        /\ c.gid = Preferred(NumericGid(e), GroupLookup(e), GroupId)
        /\ c.type \in {"SIMPLE", "ONESHOT"}
        /\ c.want_tty = FlagOf(e.pty, FALSE)
        /\ c.want_default_env = FlagOf(e.default_env, TRUE)
    BY ChildFields
  <1> HIDE DEF c
  <1>8. /\ c.type \in {"SIMPLE", "ONESHOT"}
        /\ {c.uid, c.gid} \subseteq Ids \cup {NoId}
    BY <1>4, <1>5, <1>7
  <1>9. {c.want_tty, c.want_default_env} \subseteq BOOLEAN
    BY <1>6, <1>7, Zenon
  <1> QED
    BY <1>8, <1>9 DEF c

LEMMA EntryTyped ==
  ASSUME Loading, Typed, NEW p \in Complete
  PROVE  IsEntry(EntryAt(p))
PROOF
  <1>1. /\ p[1] \in 1 .. Len(files) /\ files[p[1]] # Broken
        /\ p[2] \in 1 .. Len(files[p[1]])
    BY CompletePlaces DEF Loading
  <1>2. p[1] \in DOMAIN files /\ p[2] \in DOMAIN (files[p[1]])
    BY <1>1, FileIsList DEF Loading, Position
  <1> QED
    BY <1>1, <1>2 DEF Typed, HasEntries, EntryAt

LEMMA ProcessesTyped ==
  ASSUME Loading, Typed
  PROVE  \A k \in DOMAIN processes :
           /\ processes[k].type \in {"SIMPLE", "ONESHOT"}
           /\ {processes[k].uid, processes[k].gid} \subseteq Ids \cup {NoId}
           /\ {processes[k].want_tty, processes[k].want_default_env} \subseteq BOOLEAN
PROOF
  <1> TAKE k \in DOMAIN processes
  <1>1. k \in 1 .. Len(processes) /\ Len(processes) \in Nat
    BY DEF Loading, Listed
  <1>2. PICK p \in Read : Place(p) = k - 1
    BY <1>1 DEF Loading, Listed
  <1>3. Place(p) + 1 = k
    BY <1>1, <1>2
  <1>4. processes[k] = Child(Place(p), EntryAt(p)) /\ Acceptable(EntryAt(p))
    BY <1>2, <1>3 DEF Loading, Listed
  <1>5. IsEntry(EntryAt(p))
    BY EntryTyped DEF Read
  <1> QED
    BY <1>4, <1>5, ChildTyped

THEOREM TypedInvariant == StartupSpec => []Typed
PROOF
  <1>1. StartupInit => Typed
    <2> SUFFICES ASSUME StartupInit
                 PROVE  Typed
      OBVIOUS
    <2>1. files = <<>> /\ step = "parent" /\ keepcaps = FALSE
      BY DEF StartupInit, ConfigInit, PrivilegesInit
    <2>2. DOMAIN files = {}
      BY <2>1
    <2> QED
      BY <2>1, <2>2 DEF Typed, Before
  <1>2. Loading /\ Typed /\ [StartupNext]_startupVars => Typed'
    BY StepTyped
  <1> QED
    BY <1>1, <1>2, LoadingInvariant, PTL DEF StartupSpec

\* The type invariant of the whole way from the files to the log.
THEOREM StartupTypeCorrect == StartupSpec => []StartupTypeOK
PROOF
  <1>1. Identity /\ Typed /\ Logging => StartupTypeOK
    <2> SUFFICES ASSUME Identity, Typed, Logging
                 PROVE  StartupTypeOK
      OBVIOUS
    <2>1. Loading /\ OnTheWay /\ Chosen /\ HandedOver
      BY DEF Identity
    <2>2. /\ loader \in {"invoked", "loading", "loaded", "no_config", "threw", "exited"}
          /\ file \in 1 .. Len(files) + 1 /\ entry \in Nat /\ child_counter \in Nat
      BY <2>1 DEF Loading, Position, Listed
    <2>3. \A t \in DOMAIN terminals : terminals[t] \in [uid : Ids, gid : Ids]
      <3> TAKE t \in DOMAIN terminals
      <3>1. step # "parent"
        BY <2>1 DEF HandedOver, Before
      <3>2. {child.uid, child.gid} \subseteq Ids \cup {NoId}
        BY <2>1, <3>1, ProcessesTyped DEF Chosen
      <3>3. Daemons \in [uid : Ids, gid : Ids]
        BY <2>1, PrivilegesAssumption DEF OnTheWay, Credential, Daemons
      <3> QED
        BY <2>1, <3>2, <3>3 DEF HandedOver, Chown, NoId
    <2>4. creds \in Credential
      BY <2>1 DEF OnTheWay
    <2> QED
      BY <2>1, <2>2, <2>3, <2>4, ProcessesTyped
      DEF StartupTypeOK, Typed, Before, OnTerminals, Logging, LogEntry, Reading, ReaderSurvives
  <1> QED
    BY <1>1, TypedInvariant, IdentityInvariant, LoggingInvariant, PTL

=============================================================================
