------------------------ MODULE StartupLoader_proofs ------------------------
(***************************************************************************)
(* The configuration loader: whatever the files hold, and in whatever      *)
(* order a directory lists them, the list of processes is the list of the  *)
(* complete entries, and the handler's tables are that list.               *)
(***************************************************************************)
EXTENDS StartupProperties, FiniteSetTheorems, TLAPS

\* The places read so far, and what is known of an entry that was accepted.
Here == <<file, entry>>
Read == {p \in Complete : Precedes(p, Here)}
Acceptable(e) == ~BadHead(e) /\ ~BadUser(e) /\ ~BadGroup(e) /\ ~BadTail(e)

\* The child objects of the entries, whatever their ids.
Children == {Child(k, EntryAt(p)) : k \in Nat, p \in Complete}

\* Where the loader is, and that it has not passed a file it cannot read.
Position ==
  /\ path \in Paths
  /\ Len(files) \in Nat /\ DOMAIN files = 1 .. Len(files)
  /\ \A f \in DOMAIN files : IsFile(files[f])
  /\ file \in 1 .. Len(files) + 1 /\ entry \in Nat
  /\ file > Len(files) => entry = 0
  /\ \A f \in 1 .. file - 1 : files[f] # Broken
  /\ entry > 0 => files[file] # Broken /\ entry <= Len(files[file]) + 1
  /\ loader = "invoked" => files = <<>> /\ processes = <<>> /\ entry = 0
  /\ loader \in {"invoked", "loading", "loaded", "no_config", "threw", "exited"}
  /\ loader = "loaded" => file > Len(files)

\* Every complete entry read so far has its child object where its place says,
\* and no other child was made.
Listed ==
  /\ processes \in Seq(Children)
  /\ IsFiniteSet(Read) /\ Cardinality(Read) = Len(processes)
  /\ child_counter = Len(processes)
  /\ \A p \in Read : /\ Place(p) \in 0 .. Len(processes) - 1
                     /\ processes[Place(p) + 1] = Child(Place(p), EntryAt(p))
                     /\ Acceptable(EntryAt(p))
  /\ \A k \in 1 .. Len(processes) : \E p \in Read : Place(p) = k - 1

\* The process handler's tables hold each child under its id, once.
Registered ==
  /\ obj_for_id = [id \in 0 .. Len(processes) - 1 |-> processes[id + 1]]
  /\ sig_for_id = [id \in 0 .. Len(processes) - 1 |-> <<processes[id + 1]>>]

Loading == Position /\ Listed /\ Registered

\* A file that can be read is a list.
LEMMA FileIsList ==
  ASSUME NEW c, IsFile(c), c # Broken
  PROVE  Len(c) \in Nat /\ DOMAIN c = 1 .. Len(c)
BY DEF IsFile, IsList

LEMMA InitLoading == ConfigInit => Loading
PROOF
  <1> SUFFICES ASSUME ConfigInit PROVE Loading
    OBVIOUS
  <1> USE DEF ConfigInit
  <1>1. Position
    BY DEF Position
  <1>2. Complete = {} /\ Read = {}
    BY DEF Complete, Read
  <1>3. Listed
    BY <1>2, FS_EmptySet DEF Listed
  <1>4. Registered
    BY DEF Registered
  <1> QED
    BY <1>1, <1>3, <1>4 DEF Loading

\* --config names a file or a directory: a list of files, none read yet.
LEMMA InvokeLoading ==
  ASSUME Loading, Invoke
  PROVE  Loading'
PROOF
  <1>1. /\ path \in Paths /\ loader = "invoked" /\ files = <<>> /\ processes = <<>>
        /\ file = 1 /\ entry = 0 /\ child_counter = 0
    BY DEF Loading, Position, Listed, Invoke
  <1>2. UNCHANGED <<path, file, entry, child_counter, processes, obj_for_id, sig_for_id>>
    BY DEF Invoke
  <1>3. /\ loader' \in {"no_config", "loading"}
        /\ Len(files') \in Nat /\ DOMAIN files' = 1 .. Len(files')
        /\ \A f \in DOMAIN files' : IsFile(files'[f])
    <2>1. CASE path.kind = "absent"
      BY <1>1, <2>1 DEF Invoke
    <2>2. CASE path.kind = "file"
      <3>1. loader' = "loading" /\ files' = <<path.content>>
        BY <2>2 DEF Invoke
      <3>2. IsFile(path.content)
        BY <1>1, <2>2, ConfigAssumption
      <3>3. Len(files') = 1 /\ DOMAIN files' = 1 .. 1 /\ files'[1] = path.content
        BY <3>1
      <3> QED
        BY <3>1, <3>2, <3>3
    <2>3. CASE path.kind = "directory"
      <3> DEFINE regular == {n \in DOMAIN path.content : path.content[n] # Irregular}
      <3>1. IsFiniteSet(regular) /\ Cardinality(regular) \in Nat
        <4>1. IsFiniteSet(DOMAIN path.content)
          BY <1>1, <2>3, ConfigAssumption
        <4> QED
          BY <4>1, FS_Subset, FS_CardinalityType
      <3>2. \A n \in regular : IsFile(path.content[n])
        BY <1>1, <2>3, ConfigAssumption
      <3>3. /\ loader' = "loading"
            /\ \E order \in [1 .. Cardinality(regular) -> regular] :
                 files' = [i \in DOMAIN order |-> path.content[order[i]]]
        BY <2>3 DEF Invoke
      <3> HIDE DEF regular
      <3>4. PICK order \in [1 .. Cardinality(regular) -> regular] :
              files' = [i \in 1 .. Cardinality(regular) |-> path.content[order[i]]]
        BY <3>3
      <3>5. files' \in Seq({path.content[n] : n \in regular})
        BY <3>1, <3>4
      <3>6. DOMAIN files' = 1 .. Len(files') /\ Len(files') \in Nat
        BY <3>5
      <3>7. \A f \in DOMAIN files' : order[f] \in regular /\ files'[f] = path.content[order[f]]
        BY <3>4
      <3> QED
        BY <3>2, <3>3, <3>6, <3>7
    <2> QED
      BY <1>1, <2>1, <2>2, <2>3, ConfigAssumption
  <1>4. Position'
    BY <1>1, <1>2, <1>3 DEF Position
  <1>5. Read' = {}
    <2>1. \A p \in Complete' : p[1] \in Nat /\ p[1] >= 1 /\ p[2] \in DOMAIN (files'[p[1]])
          /\ files'[p[1]] # Broken /\ p[1] \in DOMAIN files'
      BY <1>3 DEF Complete
    <2>2. \A p \in Complete' : p[2] \in Nat /\ p[2] >= 1
      BY <1>3, <2>1, FileIsList
    <2>3. Here' = <<1, 0>>
      BY <1>1, <1>2 DEF Here
    <2> QED
      BY <2>1, <2>2, <2>3 DEF Read, Precedes
  <1>6. Listed'
    BY <1>1, <1>2, <1>5, FS_EmptySet DEF Listed
  <1>7. Registered'
    BY <1>2 DEF Loading, Registered
  <1> QED
    BY <1>4, <1>6, <1>7 DEF Loading

\* The steps that accept no entry: they leave what has been read as it is.
LEMMA PassLoading ==
  ASSUME Loading, Position', Read' = Read,
         UNCHANGED <<files, child_counter, processes, obj_for_id, sig_for_id>>
  PROVE  Loading'
PROOF
  <1>1. Complete' = Complete
    BY DEF Complete, EntryAt
  <1>2. \A p : EntryAt(p)' = EntryAt(p)
    BY DEF EntryAt
  <1>3. \A p : Place(p)' = Place(p)
    BY <1>1 DEF Place, Precedes
  <1>4. \A p : Acceptable(EntryAt(p))' = Acceptable(EntryAt(p))
    BY <1>2 DEF Acceptable
  <1>5. Children' = Children
    BY <1>1 DEF Children, EntryAt
  <1>6. Listed'
    <2>1. /\ processes' \in Seq(Children')
          /\ IsFiniteSet(Read') /\ Cardinality(Read') = Len(processes')
          /\ child_counter' = Len(processes')
      BY <1>5 DEF Loading, Listed
    <2>2. \A p \in Read' : /\ Place(p)' \in 0 .. Len(processes') - 1
                            /\ processes'[Place(p)' + 1] = Child(Place(p)', EntryAt(p)')
                            /\ Acceptable(EntryAt(p)')
      BY <1>2, <1>3 DEF Loading, Listed
    <2>3. \A k \in 1 .. Len(processes') : \E p \in Read' : Place(p)' = k - 1
      BY <1>3 DEF Loading, Listed
    <2> QED
      BY <2>1, <2>2, <2>3 DEF Listed
  <1>7. Registered'
    BY DEF Loading, Registered
  <1> QED
    BY <1>6, <1>7 DEF Loading

\* The places are ordered: what precedes the next place of a file is what
\* preceded this one, and this one.
LEMMA CompletePlaces ==
  ASSUME Position
  PROVE  /\ \A p \in Complete :
              /\ p = <<p[1], p[2]>>
              /\ p[1] \in 1 .. Len(files) /\ files[p[1]] # Broken
              /\ p[2] \in 1 .. Len(files[p[1]]) /\ Len(files[p[1]]) \in Nat
         /\ AtEntry => (Here \in Complete <=> ~Skipped(Current))
PROOF
  <1>1. ASSUME NEW p \in Complete
        PROVE  /\ p = <<p[1], p[2]>>
               /\ p[1] \in 1 .. Len(files) /\ files[p[1]] # Broken
               /\ p[2] \in 1 .. Len(files[p[1]]) /\ Len(files[p[1]]) \in Nat
    <2>1. PICK f \in DOMAIN files : files[f] # Broken /\ p \in {f} \X DOMAIN files[f]
      BY DEF Complete
    <2>2. p[1] = f /\ p[2] \in DOMAIN files[f] /\ p = <<p[1], p[2]>>
      BY <2>1
    <2> QED
      BY <2>1, <2>2, FileIsList DEF Position
  <1>2. ASSUME AtEntry
        PROVE  Here \in Complete <=> ~Skipped(Current)
    <2>1. file \in DOMAIN files /\ files[file] # Broken /\ entry \in DOMAIN files[file]
      BY <1>2, FileIsList DEF AtEntry, Position
    <2>2. Here \in {file} \X DOMAIN files[file] /\ EntryAt(Here) = Current
      BY <2>1 DEF Here, EntryAt, Current
    <2> QED
      BY <2>1, <2>2 DEF Complete, Skipped
  <1> QED
    BY <1>1, <1>2

\* Reading on without accepting an entry: a file is opened, an entry skipped
\* or rejected, a file or all of them done.
LEMMA ReadOnLoading ==
  ASSUME Loading, LoadFile \/ SkipEntry \/ RejectEntry \/ FileDone \/ Loaded
  PROVE  Loading'
PROOF
  <1> USE DEF Loading
  <1>1. UNCHANGED <<path, files, child_counter, processes, obj_for_id, sig_for_id>>
    BY DEF LoadFile, SkipEntry, RejectEntry, FileDone, Loaded, CounterAfterFile
  <1>2. /\ Len(files) \in Nat /\ file \in 1 .. Len(files) + 1 /\ entry \in Nat
        /\ file \in DOMAIN files /\ files[file] # Broken => Len(files[file]) \in Nat
    BY FileIsList DEF Position
  <1>3. Position'
    <2>1. CASE LoadFile
      BY <1>2, <2>1 DEF Position, LoadFile
    <2>2. CASE SkipEntry
      BY <1>2, <2>2 DEF Position, SkipEntry, AtEntry
    <2>3. CASE RejectEntry
      BY <1>2, <2>3 DEF Position, RejectEntry, LookupFailed, AtEntry
    <2>4. CASE FileDone
      <3>1. /\ file <= Len(files) /\ files[file] # Broken
            /\ file' = file + 1 /\ entry' = 0
            /\ UNCHANGED <<path, files, loader, processes>> /\ loader = "loading"
        BY <2>4 DEF FileDone
      <3>2. \A f \in 1 .. file' - 1 : files[f] # Broken
        BY <1>2, <3>1 DEF Position
      <3> QED
        BY <1>2, <3>1, <3>2 DEF Position
    <2>5. CASE Loaded
      BY <1>2, <2>5 DEF Position, Loaded
    <2> QED
      BY <2>1, <2>2, <2>3, <2>4, <2>5
  <1>4. Read' = Read
    <2>1. Complete' = Complete
      BY <1>1 DEF Complete, EntryAt
    <2>2. \A p \in Complete : Precedes(p, Here') <=> Precedes(p, Here)
      <3> TAKE p \in Complete
      <3>1. /\ p = <<p[1], p[2]>>
            /\ p[1] \in 1 .. Len(files) /\ p[2] \in 1 .. Len(files[p[1]])
            /\ Len(files[p[1]]) \in Nat
        BY CompletePlaces
      <3>2. CASE LoadFile
        BY <1>2, <3>1, <3>2 DEF LoadFile, Here, Precedes
      <3>3. CASE SkipEntry
        <4>1. p # Here
          BY <3>3, CompletePlaces DEF SkipEntry
        <4>2. ~(p[1] = file /\ p[2] = entry)
          BY <3>1, <4>1 DEF Here
        <4> QED
          BY <1>2, <3>1, <3>3, <4>2 DEF SkipEntry, Here, Precedes
      <3>4. CASE RejectEntry \/ Loaded
        BY <3>4 DEF RejectEntry, Loaded, Here, Precedes
      <3>5. CASE FileDone
        BY <1>2, <3>1, <3>5 DEF FileDone, Here, Precedes
      <3> QED
        BY <3>2, <3>3, <3>4, <3>5
    <2> QED
      BY <2>1, <2>2 DEF Read
  <1> QED
    BY <1>1, <1>3, <1>4, PassLoading

\* An entry is accepted: it is the next place, its child the next of the list.
LEMMA AcceptLoading ==
  ASSUME Loading, AcceptEntry
  PROVE  Loading'
PROOF
  <1> DEFINE n == Len(processes)
             new == Child(n, Current)
  <1>1. /\ child_counter = n /\ n \in Nat /\ processes \in Seq(Children)
        /\ DOMAIN processes = 1 .. n
    BY DEF Loading, Listed
  <1>2. /\ processes' = Append(processes, new)
        /\ UNCHANGED <<path, files, file, loader>>
        /\ entry' = entry + 1 /\ child_counter' = child_counter + 1
        /\ AtEntry /\ ~Skipped(Current) /\ Acceptable(Current)
    BY <1>1 DEF AcceptEntry, Acceptable
  <1>3. /\ Position /\ Len(files) \in Nat /\ file \in 1 .. Len(files) /\ entry \in Nat \ {0}
        /\ loader = "loading" /\ files[file] # Broken /\ Len(files[file]) \in Nat
        /\ entry <= Len(files[file])
    BY <1>2, FileIsList DEF Loading, Position, AtEntry
  <1>4. Position'
    BY <1>2, <1>3 DEF Position
  <1>5. Here \in Complete /\ EntryAt(Here) = Current
    BY <1>2, <1>3, CompletePlaces DEF Here, EntryAt, Current
  <1>6. /\ Complete' = Complete /\ Children' = Children
        /\ \A p : EntryAt(p)' = EntryAt(p)
    BY <1>2 DEF Complete, Children, EntryAt
  <1>7. \A p : Place(p)' = Place(p)
    BY <1>6 DEF Place, Precedes
  <1>8. Read' = Read \cup {Here} /\ Here \notin Read
    <2>1. \A p \in Complete : Precedes(p, Here') <=> (Precedes(p, Here) \/ p = Here)
      <3> TAKE p \in Complete
      <3>1. /\ p = <<p[1], p[2]>>
            /\ p[1] \in 1 .. Len(files) /\ p[2] \in 1 .. Len(files[p[1]])
            /\ Len(files[p[1]]) \in Nat
        BY <1>3, CompletePlaces
      <3>2. Here = <<file, entry>> /\ Here' = <<file, entry + 1>>
        BY <1>2 DEF Here
      <3>3. p = Here <=> (p[1] = file /\ p[2] = entry)
        BY <3>1, <3>2
      <3> QED
        BY <1>3, <3>1, <3>2, <3>3 DEF Precedes
    <2>2. ~Precedes(Here, Here)
      BY <1>3 DEF Here, Precedes
    <2> QED
      BY <1>5, <1>6, <2>1, <2>2 DEF Read
  <1>9. Place(Here) = n
    BY DEF Loading, Listed, Place, Read
  <1>10. /\ new \in Children /\ processes' \in Seq(Children)
         /\ Len(processes') = n + 1 /\ processes'[n + 1] = new
         /\ \A k \in 1 .. n : processes'[k] = processes[k]
    <2>1. new \in Children
      BY <1>1, <1>5 DEF Children
    <2> HIDE DEF new
    <2> QED
      BY <1>1, <1>2, <2>1
  <1>11. Listed'
    <2>1. IsFiniteSet(Read') /\ Cardinality(Read') = n + 1
      BY <1>8, FS_AddElement DEF Loading, Listed
    <2>2. \A p \in Read' : /\ Place(p) \in 0 .. n
                           /\ processes'[Place(p) + 1] = Child(Place(p), EntryAt(p))
                           /\ Acceptable(EntryAt(p))
      <3> TAKE p \in Read'
      <3>1. CASE p \in Read
        <4>1. /\ Place(p) \in 0 .. n - 1 /\ Acceptable(EntryAt(p))
              /\ processes[Place(p) + 1] = Child(Place(p), EntryAt(p))
          BY <3>1 DEF Loading, Listed
        <4>2. Place(p) + 1 \in 1 .. n /\ Place(p) \in 0 .. n
          BY <1>1, <4>1
        <4> QED
          BY <1>10, <4>1, <4>2
      <3>2. CASE p = Here
        BY <1>1, <1>2, <1>5, <1>9, <1>10, <3>2
      <3> QED
        BY <1>8, <3>1, <3>2
    <2>3. \A k \in 1 .. n + 1 : \E p \in Read' : Place(p) = k - 1
      <3> TAKE k \in 1 .. n + 1
      <3>1. CASE k \in 1 .. n
        BY <1>8, <3>1 DEF Loading, Listed
      <3>2. CASE k = n + 1
        BY <1>1, <1>8, <1>9, <3>2
      <3> QED
        BY <1>1, <3>1, <3>2
    <2> HIDE DEF n, new
    <2>4. child_counter' = n + 1
      BY <1>1, <1>2
    <2> QED
      BY <1>1, <1>6, <1>7, <1>10, <2>1, <2>2, <2>3, <2>4 DEF Listed
  <1>12. Registered'
    <2>1. /\ obj_for_id = [id \in 0 .. n - 1 |-> processes[id + 1]]
          /\ sig_for_id = [id \in 0 .. n - 1 |-> <<processes[id + 1]>>]
      BY DEF Loading, Registered
    <2>2. new.id = n
      BY DEF Child
    <2>3. n \notin DOMAIN sig_for_id /\ DOMAIN sig_for_id = 0 .. n - 1
      BY <1>1, <2>1
    <2>4. /\ sig_for_id' = Put(sig_for_id, n, Append(<<>>, new))
          /\ obj_for_id' = Put(obj_for_id, n, new)
      BY <1>1, <2>2, <2>3 DEF AcceptEntry, RegisterForProcessState, RegisterObjId
    <2> HIDE DEF n, new
    <2>5. (0 .. n - 1) \cup {n} = 0 .. Len(processes') - 1
      BY <1>1, <1>10
    <2>6. obj_for_id' = [id \in 0 .. Len(processes') - 1 |-> processes'[id + 1]]
      BY <1>1, <1>10, <2>1, <2>4, <2>5 DEF Put
    <2>7. sig_for_id' = [id \in 0 .. Len(processes') - 1 |-> <<processes'[id + 1]>>]
      <3>1. Append(<<>>, new) = <<new>>
        OBVIOUS
      <3>2. sig_for_id' = [i \in 0 .. Len(processes') - 1 |-> IF i = n THEN <<new>> ELSE sig_for_id[i]]
        BY <2>3, <2>4, <2>5, <3>1 DEF Put
      <3>3. \A i \in 0 .. Len(processes') - 1 : i # n =>
              sig_for_id[i] = <<processes[i + 1]>> /\ processes'[i + 1] = processes[i + 1]
        BY <1>1, <1>10, <2>1
      <3> DEFINE told(i) == <<processes'[i + 1]>>
                 cell(i) == IF i = n THEN <<new>> ELSE sig_for_id[i]
      <3>4. \A i \in 0 .. Len(processes') - 1 : cell(i) = told(i)
        <4> TAKE i \in 0 .. Len(processes') - 1
        <4>1. CASE i = n
          BY <1>10, <4>1
        <4>2. CASE i # n
          <5>1. sig_for_id[i] = <<processes[i + 1]>> /\ processes'[i + 1] = processes[i + 1]
            BY <3>3, <4>2
          <5> QED
            BY <4>2, <5>1
        <4> QED
          BY <4>1, <4>2
      <3>5. sig_for_id' = [i \in 0 .. Len(processes') - 1 |-> cell(i)]
        BY <3>2
      <3> HIDE DEF told, cell
      <3>6. sig_for_id' = [i \in 0 .. Len(processes') - 1 |-> told(i)]
        BY <3>4, <3>5
      <3> QED
        BY <3>6, Zenon DEF told
    <2> QED
      BY <2>6, <2>7, Zenon DEF Registered
  <1> QED
    BY <1>4, <1>11, <1>12 DEF Loading

LEMMA StepLoading ==
  ASSUME Loading, [StartupNext]_startupVars
  PROVE  Loading'
PROOF
  <1>1. CASE ConfigNext
    BY <1>1, InvokeLoading, ReadOnLoading, AcceptLoading DEF ConfigNext
  <1>2. CASE UNCHANGED configVars
    <2>1. Position' /\ Read' = Read
      BY <1>2 DEF configVars, Loading, Position, Read, Here, Complete, EntryAt
    <2> QED
      BY <1>2, <2>1, PassLoading DEF configVars
  <1> QED
    BY <1>1, <1>2 DEF StartupNext, Load, Start, Become, Talk, Ended, startupVars

THEOREM LoadingInvariant == StartupSpec => []Loading
PROOF
  <1>1. StartupInit => Loading
    BY InitLoading DEF StartupInit
  <1>2. Loading /\ [StartupNext]_startupVars => Loading'
    BY StepLoading
  <1> QED
    BY <1>1, <1>2, PTL DEF StartupSpec

-----------------------------------------------------------------------------
(* What a loaded configuration holds                                        *)

\* After the last file every complete entry has been read.
LEMMA AllRead ==
  ASSUME Loading, loader = "loaded"
  PROVE  /\ Read = Complete /\ Len(processes) = Cardinality(Complete)
         /\ \A p \in Complete :
              /\ Place(p) \in 0 .. Len(processes) - 1 /\ Acceptable(EntryAt(p))
              /\ processes[Place(p) + 1] = Child(Place(p), EntryAt(p))
PROOF
  <1>1. Position /\ Listed
    BY DEF Loading
  <1>2. Read = Complete
    <2>1. file > Len(files) /\ Len(files) \in Nat /\ file \in Nat
      BY <1>1 DEF Position
    <2>2. \A p \in Complete : p[1] < file
      BY <1>1, <2>1, CompletePlaces
    <2> QED
      BY <2>2 DEF Read, Precedes, Here
  <1> QED
    BY <1>1, <1>2 DEF Listed

\* Whatever the files hold and in whatever order they come, ids, places and
\* keys agree, every exit is told to one child object alone, and a loaded list
\* holds the complete entries, in the order in which they are read.
THEOREM ListFaithfulCorrect == StartupSpec => []ListFaithful
PROOF
  <1>1. Loading => ListFaithful
    <2> SUFFICES ASSUME Loading
                 PROVE  ListFaithful
      OBVIOUS
    <2>1. Listed /\ Registered
      BY DEF Loading
    <2>2. DOMAIN processes = 1 .. Len(processes) /\ Len(processes) \in Nat
      BY <2>1 DEF Listed
    <2>3. \A k \in DOMAIN processes : processes[k].id = k - 1
      <3> TAKE k \in DOMAIN processes
      <3>1. PICK p \in Read : Place(p) = k - 1
        BY <2>1, <2>2 DEF Listed
      <3>2. Place(p) + 1 = k
        BY <2>2, <3>1
      <3>3. processes[k] = Child(Place(p), EntryAt(p))
        BY <2>1, <3>1, <3>2 DEF Listed
      <3>4. Child(Place(p), EntryAt(p)).id = Place(p)
        BY DEF Child
      <3> QED
        BY <3>1, <3>3, <3>4
    <2>4. \A p : Child(Place(p), EntryAt(p)).name = EntryAt(p).name
      BY DEF Child
    <2>5. loader = "loaded" =>
            /\ Len(processes) = Cardinality(Complete)
            /\ \A p \in Complete : processes[Place(p) + 1].name = EntryAt(p).name
      BY <2>4, AllRead
    <2> QED
      BY <2>1, <2>3, <2>5 DEF ListFaithful, Registered
  <1> QED
    BY <1>1, LoadingInvariant, PTL

\* The only name that is looked up is the one of a singleton.
LEMMA PreferredName ==
  ASSUME NEW number, NEW name, NEW table
  PROVE  Preferred(number, {name}, table) = table[name]
PROOF
  <1>1. (CHOOSE n \in {name} : TRUE) = name
    OBVIOUS
  <1> QED
    BY <1>1 DEF Preferred

\* A user or group by name decides, whatever numbers stand next to it, and an
\* entry that names nothing becomes nobody:nogroup, in every loaded
\* configuration.
THEOREM NamesCorrect == StartupSpec => []NamesTakePrecedence
PROOF
  <1>1. Loading => NamesTakePrecedence
    <2> SUFFICES ASSUME Loading, loader = "loaded", NEW p \in Complete
                 PROVE  LET e == EntryAt(p)
                            c == processes[Place(p) + 1]
                            silent == /\ e.uid = Unset /\ e.gid = Unset
                                      /\ e.user = Unset /\ e.group = Unset
                        IN /\ e.user # Unset => c.uid = UserId[e.user]
                           /\ e.group # Unset => c.gid = GroupId[e.group]
                           /\ silent => c.uid = UserId["nobody"] /\ c.gid = GroupId["nogroup"]
      BY DEF NamesTakePrecedence
    <2> DEFINE e == EntryAt(p)
               c == Child(Place(p), e)
    <2>1. processes[Place(p) + 1] = c
      BY AllRead
    <2>2. /\ c.uid = Preferred(NumericUid(e), UserLookup(e), UserId)
          /\ c.gid = Preferred(NumericGid(e), GroupLookup(e), GroupId)
      BY DEF Child
    <2> HIDE DEF c, e
    <2>3. ASSUME e.user # Unset
          PROVE  c.uid = UserId[e.user]
      <3>1. UserLookup(e) = {e.user}
        BY <2>3 DEF UserLookup, Looked
      <3>2. c.uid = Preferred(NumericUid(e), {e.user}, UserId)
        BY <2>2, <3>1
      <3> DEFINE number == NumericUid(e)
                 name == e.user
      <3> HIDE DEF number, name
      <3>3. Preferred(number, {name}, UserId) = UserId[name]
        BY PreferredName
      <3> QED
        BY <3>2, <3>3 DEF number, name
    <2>4. ASSUME e.group # Unset
          PROVE  c.gid = GroupId[e.group]
      <3>1. GroupLookup(e) = {e.group}
        BY <2>4 DEF GroupLookup, Looked
      <3>2. c.gid = Preferred(NumericGid(e), {e.group}, GroupId)
        BY <2>2, <3>1
      <3> DEFINE number == NumericGid(e)
                 name == e.group
      <3> HIDE DEF number, name
      <3>3. Preferred(number, {name}, GroupId) = GroupId[name]
        BY PreferredName
      <3> QED
        BY <3>2, <3>3 DEF number, name
    <2>5. ASSUME e.uid = Unset, e.gid = Unset, e.user = Unset, e.group = Unset
          PROVE  c.uid = UserId["nobody"] /\ c.gid = GroupId["nogroup"]
      <3>1. UserLookup(e) = {"nobody"} /\ GroupLookup(e) = {"nogroup"}
        BY <2>5 DEF UserLookup, GroupLookup, Looked, Numeric
      <3>2. /\ c.uid = Preferred(NumericUid(e), {"nobody"}, UserId)
            /\ c.gid = Preferred(NumericGid(e), {"nogroup"}, GroupId)
        BY <2>2, <3>1
      <3> QED
        BY <3>2, PreferredName
    <2> QED
      BY <2>1, <2>3, <2>4, <2>5 DEF e
  <1> QED
    BY <1>1, LoadingInvariant, PTL

=============================================================================
