----------------------------- MODULE Credentials -----------------------------
(***************************************************************************)
(* The credentials of a Linux process and the rules by which the calls     *)
(* ChildProcess::handle_caps makes change them.  None of this is scinit's  *)
(* code.  One id stands for the real, effective and saved one: the program *)
(* only ever sets all three.                                               *)
(***************************************************************************)
EXTENDS Integers

CONSTANTS
  Caps,  \* the capabilities the kernel knows, and the bounding set
  Ids    \* user and group ids; 0 is root, -1 is no id

ASSUME CredentialsAssumption ==
  /\ 0 \in Ids /\ Ids \subseteq Nat
  /\ "CAP_CHOWN" \in Caps /\ "all" \notin Caps

Credential == [ uid : Ids, gid : Ids, permitted : SUBSET Caps, inheritable : SUBSET Caps,
                effective : SUBSET Caps, ambient : SUBSET Caps ]

\* cap_from_text("<word>=eip ..."): a word is a capability's name, or "all".
\* Any other word stays in the set, which CanCapSet then refuses.
CapsFromText(words) == IF "all" \in words THEN Caps \cup (words \ {"all"}) ELSE words

\* cap_from_name(word, &cap), cap being 0 before: it fails on what is no
\* capability's name, "all" included, and leaves 0, which is CAP_CHOWN.
CapFromName(word) == IF word \in Caps THEN word ELSE "CAP_CHOWN"

\* cap_set_proc of such a text: the three sets become s.
CanCapSet(c, s) == s \subseteq Caps /\ s \subseteq c.permitted
CapSet(c, s) == [c EXCEPT !.permitted = s, !.inheritable = s, !.effective = s,
                          !.ambient = @ \cap s]

CanSetGid(c, gid) == gid \in Ids /\ ("CAP_SETGID" \in c.effective \/ gid = c.gid)
SetGid(c, gid) == [c EXCEPT !.gid = gid]

CanSetUid(c, uid) == uid \in Ids /\ ("CAP_SETUID" \in c.effective \/ uid = c.uid)

\* Leaving root costs the ambient and effective capabilities, and without
\* PR_SET_KEEPCAPS the permitted ones; becoming root makes all effective.
SetUid(c, uid, keepcaps) ==
  CASE c.uid = 0 /\ uid # 0 ->
         [c EXCEPT !.uid = uid, !.effective = {}, !.ambient = {},
                   !.permitted = IF keepcaps THEN @ ELSE {}]
    [] c.uid # 0 /\ uid = 0 -> [c EXCEPT !.uid = uid, !.effective = c.permitted]
    [] OTHER -> [c EXCEPT !.uid = uid]

\* PR_CAP_AMBIENT_RAISE, once per capability of s.
CanRaiseAmbient(c, s) == s \subseteq c.permitted \cap c.inheritable
RaiseAmbient(c, s) == [c EXCEPT !.ambient = @ \cup s]

\* chown to a user and a group, -1 leaving either as it is, and chmod.
CanChown(c, owner, uid, gid) ==
  \/ "CAP_CHOWN" \in c.effective
  \/ owner.uid = c.uid /\ uid \in {-1, c.uid} /\ gid \in {-1, owner.gid, c.gid}
Chown(owner, uid, gid) == [ uid |-> IF uid = -1 THEN owner.uid ELSE uid,
                            gid |-> IF gid = -1 THEN owner.gid ELSE gid ]
CanChmod(c, owner) == "CAP_FOWNER" \in c.effective \/ owner.uid = c.uid

\* execve of a file without capabilities of its own.
AfterExec(c) ==
  LET kept == IF c.uid = 0 THEN Caps ELSE c.ambient
  IN [c EXCEPT !.permitted = kept, !.effective = kept]

=============================================================================
