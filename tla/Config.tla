------------------------------- MODULE Config -------------------------------
(***************************************************************************)
(* The configuration loader (Config.h, and the constructor of              *)
(* ChildProcess it calls): one or several YAML files are read program by   *)
(* program; every accepted program becomes a child object with the next    *)
(* id, an effective user and group, and an entry in the process handler's  *)
(* table.  YAML itself is not modelled: a file is Broken or a sequence of  *)
(* program entries, a field is Unset, Garbled or a value.                  *)
(***************************************************************************)
EXTENDS Integers, Sequences, FiniteSets, TLC

CONSTANTS
  Paths,    \* what the option --config may name, see Invoke
  UserId,   \* getpwnam: user name -> uid
  GroupId,  \* getgrnam: group name -> gid
  Unset,    \* the value of a field the entry does not have
  Garbled,  \* a value that as<...>() cannot convert, such as a map for a string
  Broken,   \* a file that is no YAML or has no 'programs' node
  Irregular \* an entry of a directory that is no regular file

\* A file has its programs in a list; a directory has finitely many files.
IsList(s) == s \in Seq({s[i] : i \in DOMAIN s})
IsFile(content) == content = Broken \/ IsList(content)
ASSUME ConfigAssumption ==
  \A p \in Paths :
    \/ p.kind = "absent"
    \/ p.kind = "file" /\ IsFile(p.content)
    \/ /\ p.kind = "directory" /\ IsFiniteSet(DOMAIN p.content)
       /\ \A n \in DOMAIN p.content : p.content[n] = Irregular \/ IsFile(p.content[n])

VARIABLES
  path,           \* what --config names
  files,          \* the files to load, in the order they are visited
  file, entry,    \* position: entry 0 is before the file is opened
  loader,         \* "invoked", "loading", "loaded"; "no_config", "threw", "exited"
  child_counter,
  processes,      \* the list of child objects
  obj_for_id,     \* the process handler's table, id -> child object
  sig_for_id      \* its callbacks, id -> the child objects told of an exit

configVars == <<path, files, file, entry, loader, child_counter, processes,
                obj_for_id, sig_for_id>>

\* uid and gid are -1 until something sets them.
NoId == -1

ConfigInit ==
  /\ path \in Paths /\ files = <<>>
  /\ file = 1 /\ entry = 0
  /\ loader = "invoked"
  /\ child_counter = 0
  /\ processes = <<>>
  /\ obj_for_id = [id \in {} |-> 0]
  /\ sig_for_id = [id \in {} |-> <<>>]

\* A table with a new value for key.
Put(table, key, value) ==
  [k \in DOMAIN table \cup {key} |-> IF k = key THEN value ELSE table[k]]

-----------------------------------------------------------------------------
(* One program entry                                                        *)

\* An entry without a name or without a path is skipped.
Skipped(e) == e.name = Unset \/ e.path = Unset

Numeric(e) == e.uid # Unset \/ e.gid # Unset

\* A name is looked up when it is given, and when no number is.
Looked(name, default, e) == IF name # Unset THEN {name}
                            ELSE IF Numeric(e) THEN {} ELSE {default}
UserLookup(e)  == Looked(e.user, "nobody", e)
GroupLookup(e) == Looked(e.group, "nogroup", e)

\* A list that is not there is empty, a flag that is not there has a default.
ListOf(field)          == IF field = Unset THEN <<>> ELSE field
FlagOf(field, default) == IF field = Unset THEN default ELSE field

\* What keeps an entry from being accepted: fields that do not convert, before
\* and after the two lookups, and names that are not found.  Of the lists of
\* strings, `capabilities` stands for the others too.
BadList(field) == Garbled \in {ListOf(field)[i] : i \in DOMAIN ListOf(field)}
BadId_UidOnly(e) == e.uid = Garbled  \* fault: gid is taken as it comes
BadId(e)    == e.uid = Garbled \/ e.gid = Garbled
BadHead(e)  == e.type = Garbled \/ BadList(e.capabilities) \/ BadId(e)
BadUser(e)  == ~(UserLookup(e) \subseteq DOMAIN UserId)
BadGroup(e) == ~(GroupLookup(e) \subseteq DOMAIN GroupId)
BadFlag(e)  == e.pty = Garbled \/ e.default_env = Garbled
BadTail(e)  == BadFlag(e) \/ BadList(e.env) \/ e.name = Garbled \/ e.path = Garbled

\* as<...>() throws, a failed lookup exits.
LookupFailed(name) == IF name = Garbled THEN "threw" ELSE "exited"

\* The entry's gid is assigned to uid.
NumericUid(e) == IF e.gid # Unset THEN e.gid ELSE IF e.uid # Unset THEN e.uid ELSE NoId
NumericGid(e) == NoId

Preferred_Number(number, names, table) ==  \* fault: numbers override names
  IF number # NoId \/ names = {} THEN number ELSE table[CHOOSE n \in names : TRUE]
Preferred(number, names, table) ==
  IF names # {} THEN table[CHOOSE n \in names : TRUE] ELSE number

\* The constructor: only "simple", in any case, is SIMPLE.
Simple == {"simple", "Simple", "SIMPLE", Unset}

\* getpwuid of the uid that was resolved.
Username(uid) == IF \E n \in DOMAIN UserId : UserId[n] = uid
                   THEN CHOOSE n \in DOMAIN UserId : UserId[n] = uid ELSE "UNKNOWN"

\* An item of `env` that is a plain string, not a map.  The others are kept
\* in their order, at the places they have in `env`.
Scalar(item) == item.value = Unset /\ item.ref = Unset
Whitelist == {"HOME", "LANG", "LANGUAGE", "LOGNAME", "PATH", "PWD", "SHELL", "TERM", "USER"}

Child(id, e) ==
  LET uid == Preferred(NumericUid(e), UserLookup(e), UserId)
      env == ListOf(e.env)
  IN [ id               |-> id,
       name             |-> e.name,
       type             |-> IF e.type \in Simple THEN "SIMPLE" ELSE "ONESHOT",
       uid              |-> uid,
       gid              |-> Preferred(NumericGid(e), GroupLookup(e), GroupId),
       username         |-> Username(uid),
       capabilities     |-> {ListOf(e.capabilities)[i] : i \in DOMAIN ListOf(e.capabilities)},
       want_tty         |-> FlagOf(e.pty, FALSE),
       want_default_env |-> FlagOf(e.default_env, TRUE),
       allowed_env_vars |-> Whitelist \cup {env[i].name : i \in {j \in DOMAIN env : Scalar(env[j])}},
       env_extra_vars   |-> [i \in {j \in DOMAIN env : ~Scalar(env[j])} |-> env[i]] ]

-----------------------------------------------------------------------------

\* handle_commandline_invocation: nothing, a file, or a directory, whose
\* regular files come in no particular order.
Invoke ==
  /\ loader = "invoked"
  /\ CASE path.kind = "absent" -> loader' = "no_config" /\ UNCHANGED files
       [] path.kind = "file" -> loader' = "loading" /\ files' = <<path.content>>
       [] path.kind = "directory" ->
            LET regular == {n \in DOMAIN path.content : path.content[n] # Irregular}
            IN /\ loader' = "loading"
               /\ \E order \in [1 .. Cardinality(regular) -> regular] :
                    /\ \A i, j \in DOMAIN order : order[i] = order[j] => i = j
                    /\ files' = [i \in DOMAIN order |-> path.content[order[i]]]
  /\ UNCHANGED <<path, file, entry, child_counter, processes, obj_for_id, sig_for_id>>

Current == files[file][entry]

AtEntry == /\ loader = "loading" /\ file <= Len(files)
           /\ entry > 0 /\ entry <= Len(files[file])

\* load_file: YAML::LoadFile, and the check for 'programs'.
LoadFile ==
  /\ loader = "loading" /\ file <= Len(files) /\ entry = 0
  /\ IF files[file] = Broken
       THEN loader' = "threw" /\ UNCHANGED entry
       ELSE entry' = 1 /\ UNCHANGED loader
  /\ UNCHANGED <<path, files, file, child_counter, processes, obj_for_id, sig_for_id>>

SkipEntry ==
  /\ AtEntry /\ Skipped(Current)
  /\ entry' = entry + 1
  /\ UNCHANGED <<path, files, file, loader, child_counter, processes, obj_for_id, sig_for_id>>

RejectEntry ==
  /\ AtEntry /\ ~Skipped(Current)
  /\ \/ /\ BadHead(Current)
        /\ loader' = "threw"
     \/ /\ ~BadHead(Current) /\ BadUser(Current)
        /\ loader' = LookupFailed(Current.user)
     \/ /\ ~BadHead(Current) /\ ~BadUser(Current) /\ BadGroup(Current)
        /\ loader' = LookupFailed(Current.group)
     \/ /\ ~BadHead(Current) /\ ~BadUser(Current) /\ ~BadGroup(Current) /\ BadTail(Current)
        /\ loader' = "threw"
  /\ UNCHANGED <<path, files, file, entry, child_counter, processes, obj_for_id, sig_for_id>>

\* What the process handler keeps for a child: the constructor connects the
\* object to the signal of its id, next to others of that id; the loader then
\* registers it.
RegisterForProcessState(child) ==
  LET told == IF child.id \in DOMAIN sig_for_id THEN sig_for_id[child.id] ELSE <<>>
  IN sig_for_id' = Put(sig_for_id, child.id, Append(told, child))
RegisterObjId(child) == obj_for_id' = Put(obj_for_id, child.id, child)

AcceptEntry ==
  /\ AtEntry /\ ~Skipped(Current)
  /\ ~BadHead(Current) /\ ~BadUser(Current) /\ ~BadGroup(Current) /\ ~BadTail(Current)
  /\ LET child == Child(child_counter, Current)
     IN /\ processes' = Append(processes, child)
        /\ RegisterForProcessState(child)
        /\ RegisterObjId(child)
  /\ child_counter' = child_counter + 1
  /\ entry' = entry + 1
  /\ UNCHANGED <<path, files, file, loader>>

\* The counter is a member of the configuration, not of a file.
CounterAfterFile_Restarts == 0  \* fault: every file counts from 0
CounterAfterFile == child_counter

FileDone ==
  /\ loader = "loading" /\ file <= Len(files) /\ files[file] # Broken
  /\ entry = Len(files[file]) + 1
  /\ file' = file + 1 /\ entry' = 0
  /\ child_counter' = CounterAfterFile
  /\ UNCHANGED <<path, files, loader, processes, obj_for_id, sig_for_id>>

Loaded ==
  /\ loader = "loading" /\ file > Len(files)
  /\ loader' = "loaded"
  /\ UNCHANGED <<path, files, file, entry, child_counter, processes, obj_for_id, sig_for_id>>

ConfigNext == Invoke \/ LoadFile \/ SkipEntry \/ RejectEntry \/ AcceptEntry \/ FileDone \/ Loaded

=============================================================================
