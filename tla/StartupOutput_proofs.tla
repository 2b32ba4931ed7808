------------------------ MODULE StartupOutput_proofs ------------------------
(***************************************************************************)
(* The output of a program on its way to the log: the stripping of         *)
(* newlines never throws, whatever is read, and no entry begins or ends    *)
(* with a newline.                                                         *)
(***************************************************************************)
EXTENDS StartupProperties, SequenceTheorems, TLAPS, WellFoundedInduction

-----------------------------------------------------------------------------
(* The indexes of event_received                                            *)

\* A set of naturals with an element has its Min, and Min is in it.
LEMMA MinOfNaturals ==
  ASSUME NEW S \in SUBSET Nat, S # {}
  PROVE  Min(S) \in S /\ \A i \in S : Min(S) <= i
PROOF
  <1> DEFINE Less == OpToRel(<, Nat)
  <1>1. \A i, j \in Nat : i < j => <<i, j>> \in Less
    BY DEF OpToRel
  <1>2. IsWellFoundedOn(Less, Nat)
    BY NatLessThanWellFounded
  <1> HIDE DEF Less
  <1>3. PICK m \in S : \A i \in S : <<i, m>> \notin Less
    BY <1>2, WFMin
  <1>4. \A i \in S : m <= i
    <2> TAKE i \in S
    <2>1. <<i, m>> \notin Less
      BY <1>3
    <2>2. i \in Nat /\ m \in Nat
      BY <1>3
    <2>3. ~(i < m)
      BY <1>1, <2>1, <2>2
    <2> QED
      BY <2>2, <2>3
  <1> QED
    BY <1>4 DEF Min

\* What holds at 0, and of each place if it holds of the one before, holds up
\* to n.
LEMMA UpTo ==
  ASSUME NEW n \in Nat, NEW S, 0 \in S, \A i \in 1 .. n : i - 1 \in S => i \in S
  PROVE  \A i \in 0 .. n : i \in S
PROOF
  <1> DEFINE bad == {i \in 0 .. n : i \notin S}
  <1> SUFFICES ASSUME bad # {}
               PROVE  FALSE
    OBVIOUS
  <1>1. bad \in SUBSET Nat
    OBVIOUS
  <1>2. Min(bad) \in bad /\ \A i \in bad : Min(bad) <= i
    <2> HIDE DEF bad
    <2> QED
      BY <1>1, MinOfNaturals
  <1>3. Min(bad) \in 1 .. n
    BY <1>2
  <1>4. Min(bad) - 1 \in 0 .. n /\ ~(Min(bad) <= Min(bad) - 1)
    BY <1>3
  <1> QED
    BY <1>2, <1>3, <1>4

\* The leading newlines end at the first NUL at the latest, so substr(begin)
\* is called with a position inside the C string or at its end.
LEMMA NeverThrows ==
  ASSUME NEW buf \in Seq(Characters)
  PROVE  ~Throws(buf, Len(buf)) /\ ~Throws(<<>>, -1)
PROOF
  <1> DEFINE n    == Len(buf)
             stop(b, k) == {i \in 0 .. k - 1 : At(b, i) \notin SkippedChars}
                             \cup {IF k > 0 THEN k ELSE 0}
             nuls == {i \in DOMAIN buf : buf[i] = Nul}
  <1>1. /\ stop(buf, n) \in SUBSET Nat /\ stop(buf, n) # {} /\ n \in stop(buf, n)
        /\ n \in Nat /\ DOMAIN buf = 1 .. n
    OBVIOUS
  <1>2. \A i \in stop(buf, n) : Min(stop(buf, n)) <= i
    BY <1>1, MinOfNaturals
  <1>3. Min(stop(buf, n)) \in Nat
    BY <1>1, MinOfNaturals
  <1>4. Min(stop(buf, n)) <= Len(CString(buf))
    <2>1. CASE nuls = {}
      BY <1>1, <1>2, <2>1 DEF CString
    <2>2. CASE nuls # {}
      <3> DEFINE first == Min(nuls)
      <3>1. first \in nuls
        <4>1. nuls \in SUBSET Nat
          BY <1>1
        <4> HIDE DEF nuls
        <4> QED
          BY <2>2, <4>1, MinOfNaturals
      <3>2. first - 1 \in stop(buf, n)
        BY <1>1, <3>1, ChildOutputAssumption DEF At, SkippedChars
      <3>3. Len(SubSeq(buf, 1, first - 1)) = first - 1
        BY <1>1, <3>1
      <3>4. CString(buf) = SubSeq(buf, 1, first - 1)
        BY <2>2 DEF CString
      <3> QED
        BY <1>2, <3>2, <3>3, <3>4
    <2> QED
      BY <2>1, <2>2
  <1>5. ~Throws(buf, n)
    BY <1>1, <1>3, <1>4 DEF Throws, Begin
  <1>6. ~Throws(<<>>, -1)
    <2>1. stop(<<>>, -1) = {0}
      OBVIOUS
    <2>2. Min({0}) = 0
      BY DEF Min
    <2>3. CString(<<>>) = <<>>
      BY DEF CString
    <2> QED
      BY <2>1, <2>2, <2>3 DEF Throws, Begin
  <1> QED
    BY <1>5, <1>6

\* The same for the Max of naturals with a bound.
LEMMA MaxOfNaturals ==
  ASSUME NEW n \in Nat, NEW S \in SUBSET (0 .. n), S # {}
  PROVE  Max(S) \in S /\ \A i \in S : i <= Max(S)
PROOF
  <1> DEFINE T == {n - i : i \in S}
  <1>1. T \in SUBSET Nat /\ T # {}
    <2>1. \A i \in S : n - i \in Nat
      OBVIOUS
    <2> QED
      BY <2>1
  <1>2. Min(T) \in T /\ \A j \in T : Min(T) <= j
    <2> HIDE DEF T
    <2> QED
      BY <1>1, MinOfNaturals
  <1>3. PICK m \in S : Min(T) = n - m
    BY <1>2
  <1>4. \A i \in S : m >= i
    <2> TAKE i \in S
    <2>1. n - m <= n - i
      BY <1>2, <1>3
    <2> QED
      BY <2>1
  <1> QED
    BY <1>4 DEF Max

\* A C string is what a chunk has before its first NUL.
LEMMA CStringOfChunk ==
  ASSUME NEW buf \in Seq(Characters)
  PROVE  /\ CString(buf) \in Seq(Characters)
         /\ Len(CString(buf)) \in 0 .. Len(buf)
         /\ \A i \in 1 .. Len(CString(buf)) : CString(buf)[i] = buf[i]
         /\ (\A i \in DOMAIN buf : buf[i] # Nul) => CString(buf) = buf
PROOF
  <1> DEFINE nuls == {i \in DOMAIN buf : buf[i] = Nul}
  <1>1. CASE nuls = {}
    BY <1>1 DEF CString
  <1>2. CASE nuls # {}
    <2> DEFINE first == Min(nuls)
    <2>1. first \in nuls
      <3>1. nuls \in SUBSET Nat
        OBVIOUS
      <3> HIDE DEF nuls
      <3> QED
        BY <1>2, <3>1, MinOfNaturals
    <2>2. first \in 1 .. Len(buf) /\ buf[first] = Nul
      BY <2>1
    <2>3. CString(buf) = SubSeq(buf, 1, first - 1)
      BY <1>2 DEF CString
    <2> HIDE DEF first
    <2> QED
      BY <2>2, <2>3
  <1> QED
    BY <1>1, <1>2

\* The leading newlines end where a character that is none stands, or with
\* the chunk.
LEMMA BeginOfChunk ==
  ASSUME NEW buf \in Seq(Characters), buf # <<>>
  PROVE  LET n == Len(buf)
             b == Begin(buf, n)
         IN /\ b \in 0 .. n /\ (b < n => buf[b + 1] # Newline)
            /\ \A i \in 1 .. b : buf[i] = Newline
PROOF
  <1> DEFINE n == Len(buf)
             stop == {i \in 0 .. n - 1 : At(buf, i) \notin SkippedChars}
                       \cup {IF n > 0 THEN n ELSE 0}
  <1>1. n \in Nat /\ n > 0
    OBVIOUS
  <1>2. stop \in SUBSET Nat /\ stop # {} /\ n \in stop
    BY <1>1
  <1>3. Min(stop) \in stop /\ \A i \in stop : Min(stop) <= i
    <2> HIDE DEF stop
    <2> QED
      BY <1>2, MinOfNaturals
  <1>4. Begin(buf, n) = Min(stop)
    BY DEF Begin
  <1> HIDE DEF n
  <1>5. Min(stop) \in 0 .. n /\ (Min(stop) < n => buf[Min(stop) + 1] # Newline)
    BY <1>1, <1>2, <1>3 DEF At, SkippedChars
  <1>6. ASSUME NEW i \in 1 .. Min(stop)
        PROVE  buf[i] = Newline
    <2>1. i - 1 \in 0 .. n - 1 /\ ~(Min(stop) <= i - 1) /\ i - 1 + 1 = i
      BY <1>1, <1>5
    <2>2. i - 1 \notin stop
      BY <1>3, <2>1
    <2> QED
      BY <2>1, <2>2 DEF At, SkippedChars
  <1> QED
    BY <1>4, <1>5, <1>6 DEF n

\* The trailing newlines begin after a character that is none; the search
\* does not go back beyond the leading ones.
LEMMA EndOfChunk ==
  ASSUME NEW buf \in Seq(Characters), buf # <<>>
  PROVE  LET n == Len(buf)
             b == Begin(buf, n)
             e == End(buf, n)
         IN /\ e \in -1 .. n - 1
            /\ e < b => e = n - 1
            /\ e >= b => buf[e + 1] # Newline
            /\ e >= b => \A i \in e + 2 .. n : buf[i] = Newline
PROOF
  <1> DEFINE n == Len(buf)
             b == Begin(buf, n)
             e == End(buf, n)
             stop == {i \in b + 1 .. n - 1 : At(buf, i) # Newline} \cup {b}
  <1>1. n \in Nat /\ n > 0 /\ b \in 0 .. n /\ (b < n => buf[b + 1] # Newline)
    BY BeginOfChunk
  <1>2. CASE n - 1 <= b
    <2>1. e = n - 1
      BY <1>2 DEF End
    <2> HIDE DEF n, b, e
    <2> QED
      BY <1>1, <1>2, <2>1 DEF n, b, e
  <1>3. CASE ~(n - 1 <= b)
    <2>1. e = Max(stop)
      BY <1>3 DEF End
    <2>2. stop \in SUBSET (0 .. n - 1) /\ stop # {} /\ b \in stop
      BY <1>1, <1>3
    <2>3. Max(stop) \in stop /\ \A i \in stop : i <= Max(stop)
      <3>1. n - 1 \in Nat
        BY <1>1
      <3> HIDE DEF stop, b, n
      <3> QED
        BY <2>2, <3>1, MaxOfNaturals
    <2>4. e \in b .. n - 1 /\ buf[e + 1] # Newline
      <3> HIDE DEF n, b, e
      <3> QED
        BY <1>1, <1>3, <2>1, <2>2, <2>3 DEF At
    <2>5. ASSUME NEW i \in e + 2 .. n
          PROVE  buf[i] = Newline
      <3> HIDE DEF n, b, e
      <3>1. i - 1 \in b + 1 .. n - 1 /\ ~(i - 1 <= Max(stop)) /\ i - 1 + 1 = i
        BY <1>1, <2>1, <2>4
      <3>2. i - 1 \notin stop
        BY <2>3, <3>1
      <3> QED
        BY <3>1, <3>2 DEF At
    <2> HIDE DEF e, b, n
    <2> QED
      BY <1>1, <2>4, <2>5 DEF n, b, e
  <1> QED
    BY <1>2, <1>3

\* What is logged of a chunk: characters of it, without a newline in front,
\* and without one behind unless a NUL hid the end.
LEMMA StrippedChunk ==
  ASSUME NEW buf \in Seq(Characters), buf # <<>>
  PROVE  LET str == Stripped(buf, Len(buf))
         IN /\ str \in Seq(Characters)
            /\ str # <<>> => Head(str) # Newline
            /\ str # <<>> /\ (\A i \in DOMAIN buf : buf[i] # Nul) => Last(str) # Newline
PROOF
  <1> DEFINE n == Len(buf)
             b == Begin(buf, n)
             e == End(buf, n)
             c == CString(buf)
             l == Len(c)
             rest == SubSeq(c, b + 1, l)
             str == Stripped(buf, n)
  <1>1. n \in Nat /\ n > 0 /\ b \in 0 .. n /\ (b < n => buf[b + 1] # Newline)
    BY BeginOfChunk
  <1>2. e \in -1 .. n - 1 /\ (e < b => e = n - 1) /\ (e >= b => buf[e + 1] # Newline)
    BY EndOfChunk
  <1>3. /\ c \in Seq(Characters) /\ l \in 0 .. n
        /\ \A i \in 1 .. l : c[i] = buf[i]
        /\ (\A i \in DOMAIN buf : buf[i] # Nul) => l = n
    BY CStringOfChunk
  <1>4. b <= l
    BY <1>1, <1>3, NeverThrows DEF Throws
  <1>5. \/ ~(e < n - 1 /\ e >= b) /\ str = rest
        \/ /\ e < n - 1 /\ e >= b
           /\ str = SubSeq(rest, 1, Min({Len(rest), e - b + 1}))
    BY DEF Stripped, Kept
  <1> HIDE DEF n, b, e, c, l, str
  <1>6. /\ rest \in Seq(Characters) /\ Len(rest) = l - b
        /\ \A i \in 1 .. l - b : rest[i] = buf[b + i]
    BY <1>1, <1>3, <1>4 DEF l
  <1> HIDE DEF rest
  <1>7. CASE ~(e < n - 1 /\ e >= b) /\ str = rest
    <2>1. str # <<>> => Head(str) # Newline
      BY <1>1, <1>3, <1>4, <1>6, <1>7
    <2>2. ASSUME str # <<>>, \A i \in DOMAIN buf : buf[i] # Nul
          PROVE  Last(str) # Newline
      <3>1. l = n /\ b < n
        BY <1>1, <1>3, <1>4, <1>6, <1>7, <2>2
      <3>2. Last(str) = buf[n]
        BY <1>1, <1>6, <1>7, <3>1 DEF Last
      <3>3. e = n - 1
        BY <1>1, <1>2, <1>7
      <3> QED
        BY <1>1, <1>2, <3>1, <3>2, <3>3
    <2> QED
      BY <1>6, <1>7, <2>1, <2>2 DEF str, n
  <1>8. CASE e < n - 1 /\ e >= b /\ str = SubSeq(rest, 1, Min({Len(rest), e - b + 1}))
    <2> DEFINE m == Min({Len(rest), e - b + 1})
    <2>1. m \in Nat /\ m <= Len(rest) /\ m <= e - b + 1 /\ m \in {Len(rest), e - b + 1}
      <3> DEFINE S == {Len(rest), e - b + 1}
      <3>1. S \in SUBSET Nat /\ S # {} /\ Len(rest) \in S /\ e - b + 1 \in S
        BY <1>1, <1>2, <1>6, <1>8
      <3>2. Min(S) \in S /\ \A i \in S : Min(S) <= i
        <4> HIDE DEF S
        <4> QED
          BY <3>1, MinOfNaturals
      <3> QED
        BY <3>1, <3>2
    <2> HIDE DEF m
    <2>2. /\ str \in Seq(Characters) /\ Len(str) = m
          /\ \A i \in 1 .. m : str[i] = buf[b + i]
      <3>1. str = SubSeq(rest, 1, m)
        BY <1>8 DEF m
      <3>2. /\ SubSeq(rest, 1, m) \in Seq(Characters)
            /\ Len(SubSeq(rest, 1, m)) = m
            /\ \A i \in 1 .. m : SubSeq(rest, 1, m)[i] = rest[i]
        BY <1>6, <2>1
      <3>3. \A i \in 1 .. m : i \in 1 .. l - b
        BY <1>1, <1>3, <1>6, <2>1
      <3> QED
        BY <1>6, <3>1, <3>2, <3>3
    <2>3. str # <<>> => Head(str) # Newline
      BY <1>1, <1>3, <1>4, <1>6, <2>1, <2>2
    <2>4. ASSUME str # <<>>, \A i \in DOMAIN buf : buf[i] # Nul
          PROVE  Last(str) # Newline
      <3>1. l = n
        BY <1>3, <2>4
      <3>2. m = e - b + 1
        BY <1>1, <1>2, <1>6, <1>8, <2>1, <3>1
      <3>3. Last(str) = buf[b + m] /\ b + m = e + 1
        <4>1. m \in 1 .. m
          BY <2>1, <2>2, <2>4
        <4>2. Last(str) = str[m]
          BY <2>2 DEF Last
        <4>3. b + m = e + 1
          BY <1>1, <1>2, <3>2
        <4> QED
          BY <2>2, <4>1, <4>2, <4>3
      <3> QED
        BY <1>2, <1>8, <3>3
    <2> QED
      BY <2>2, <2>3, <2>4 DEF str, n
  <1> QED
    BY <1>5, <1>7, <1>8

\* A read that failed leaves nothing to log.
LEMMA StrippedNothing == Stripped(<<>>, -1) = <<>>
PROOF
  <1>1. CString(<<>>) = <<>>
    BY DEF CString
  <1>2. Begin(<<>>, -1) = 0
    <2>1. {i \in 0 .. -1 - 1 : At(<<>>, i) \notin SkippedChars} \cup {0} = {0}
      OBVIOUS
    <2>2. Min({0}) = 0
      BY DEF Min
    <2> QED
      BY <2>1, <2>2 DEF Begin
  <1>3. End(<<>>, -1) = -2
    BY <1>2 DEF End
  <1> QED
    BY <1>1, <1>2, <1>3 DEF Stripped

-----------------------------------------------------------------------------
(* The reader                                                               *)

Reading ==
  /\ pipe \in [FDType -> Seq(Characters)]
  /\ ReaderSurvives

LEMMA InitReading == OutputInit => Reading
BY DEF OutputInit, Reading, ReaderSurvives

LEMMA StepReading ==
  ASSUME Reading, OutputNext \/ UNCHANGED outputVars
  PROVE  Reading'
PROOF
  <1> USE DEF Reading, ReaderSurvives
  <1>1. ASSUME NEW s \in FDType, PutChar(s)
        PROVE  Reading'
    BY <1>1 DEF PutChar
  <1>2. ASSUME NEW s \in FDType, ReadChunk(s)
        PROVE  Reading'
    <2> DEFINE n == Min({Len(pipe[s]), ReadSize})
    <2>1. pipe[s] \in Seq(Characters) /\ Len(pipe[s]) \in Nat /\ ReadSize \in Nat
      BY ChildOutputAssumption
    <2>2. n \in 0 .. Len(pipe[s])
      <3> DEFINE sizes == {Len(pipe[s]), ReadSize}
      <3>1. sizes \in SUBSET Nat /\ sizes # {} /\ Len(pipe[s]) \in sizes
        BY <2>1
      <3>2. Min(sizes) \in Nat /\ Min(sizes) <= Len(pipe[s])
        <4> HIDE DEF sizes
        <4> QED
          BY <3>1, MinOfNaturals
      <3> QED
        BY <2>1, <3>2
    <2> HIDE DEF n
    <2>3. /\ SubSeq(pipe[s], 1, n) \in Seq(Characters)
          /\ Len(SubSeq(pipe[s], 1, n)) = n
          /\ SubSeq(pipe[s], n + 1, Len(pipe[s])) \in Seq(Characters)
      BY <2>1, <2>2
    <2>4. ~Throws(SubSeq(pipe[s], 1, n), n)
      BY <2>3, NeverThrows
    <2>5. /\ Handle(s, SubSeq(pipe[s], 1, n), n)
          /\ pipe' = [pipe EXCEPT ![s] = SubSeq(pipe[s], n + 1, Len(pipe[s]))]
      BY <1>2 DEF ReadChunk, n
    <2>6. UNCHANGED reader
      BY <2>4, <2>5 DEF Handle
    <2> QED
      BY <2>3, <2>5, <2>6
  <1>3. ASSUME NEW s \in FDType, ReadFails(s)
        PROVE  Reading'
    <2>1. ~Throws(<<>>, -1)
      BY NeverThrows
    <2> QED
      BY <1>3, <2>1 DEF ReadFails, Handle
  <1>4. ASSUME UNCHANGED outputVars
        PROVE  Reading'
    BY <1>4 DEF outputVars
  <1> QED
    BY <1>1, <1>2, <1>3, <1>4 DEF OutputNext

\* Outside of Talk nothing touches the streams or the log.
LEMMA OnlyTalk == [StartupNext]_startupVars => OutputNext \/ UNCHANGED outputVars
BY DEF StartupNext, Load, Start, Become, Talk, Ended, startupVars

\* Whatever a program prints, in whatever pieces it is read, and even if a
\* read fails: event_received's substr does not throw and the daemon reads on.
THEOREM ReaderNeverAborts == StartupSpec => []ReaderSurvives
PROOF
  <1>1. StartupInit => Reading
    BY InitReading DEF StartupInit
  <1>2. Reading /\ [StartupNext]_startupVars => Reading'
    BY OnlyTalk, StepReading
  <1>3. Reading => ReaderSurvives
    BY DEF Reading
  <1> QED
    BY <1>1, <1>2, <1>3, PTL DEF StartupSpec

-----------------------------------------------------------------------------
(* The log                                                                  *)

LogEntry == [level : {"info", "warn"}, text : Seq(Characters) \ {<<>>}]

\* What is still to be read of a stream was written to it; so a NUL that is
\* read was written.
Logging ==
  /\ Reading
  /\ written \in [FDType -> Seq(Characters)]
  /\ log \in Seq(LogEntry)
  /\ \A s \in FDType : ToSet(pipe[s]) \subseteq ToSet(written[s])
  /\ EntriesTrimmed

LEMMA InitLogging == OutputInit => Logging
PROOF
  <1> SUFFICES ASSUME OutputInit
               PROVE  Logging
    OBVIOUS
  <1>1. log = <<>> /\ DOMAIN log = {}
    BY DEF OutputInit
  <1>2. \A s \in FDType : pipe[s] = <<>> /\ ToSet(pipe[s]) = {}
    BY DEF OutputInit, ToSet
  <1>3. written \in [FDType -> Seq(Characters)]
    BY DEF OutputInit
  <1>4. log \in Seq(LogEntry) /\ EntriesTrimmed
    BY <1>1 DEF EntriesTrimmed
  <1> QED
    BY <1>2, <1>3, <1>4, InitReading DEF Logging

\* The log grows by what is left of a chunk; an entry stays.
LEMMA HandleLogging ==
  ASSUME Logging, NEW s \in FDType, NEW buf \in Seq(Characters), buf # <<>>,
         ToSet(buf) \subseteq ToSet(pipe[s]), Handle(s, buf, Len(buf)), UNCHANGED written
  PROVE  log' \in Seq(LogEntry) /\ EntriesTrimmed'
PROOF
  <1> DEFINE str == Stripped(buf, Len(buf))
             entry_ == [level |-> Level(s), text |-> str]
             clean == \A t \in FDType : Nul \notin ToSet(written[t])
  <1>1. /\ str \in Seq(Characters)
        /\ str # <<>> => Head(str) # Newline
        /\ str # <<>> /\ (\A i \in DOMAIN buf : buf[i] # Nul) => Last(str) # Newline
    BY StrippedChunk
  <1>2. log' = IF str = <<>> THEN log ELSE Append(log, entry_)
    BY NeverThrows DEF Handle
  <1> HIDE DEF str
  <1>3. clean => \A i \in DOMAIN buf : buf[i] # Nul
    BY DEF ToSet, Logging
  <1>4. \A i \in DOMAIN log : Head(log[i].text) # Newline /\ (clean => Last(log[i].text) # Newline)
    BY DEF Logging, EntriesTrimmed
  <1>5. CASE str = <<>>
    <2>1. log' = log /\ log \in Seq(LogEntry)
      BY <1>2, <1>5 DEF Logging
    <2> QED
      BY <1>4, <2>1 DEF EntriesTrimmed
  <1>6. CASE str # <<>>
    <2>1. entry_ \in LogEntry /\ entry_.text = str
      BY <1>1, <1>6 DEF LogEntry, Level
    <2> HIDE DEF entry_
    <2>2. log \in Seq(LogEntry) /\ log' = Append(log, entry_)
      BY <1>2, <1>6 DEF Logging
    <2>3. \A i \in DOMAIN log' : log'[i] = entry_ \/ (i \in DOMAIN log /\ log'[i] = log[i])
      BY <2>1, <2>2
    <2>4. log' \in Seq(LogEntry)
      BY <2>1, <2>2
    <2>5. Head(entry_.text) # Newline /\ (clean => Last(entry_.text) # Newline)
      BY <1>1, <1>3, <1>6, <2>1
    <2> HIDE DEF clean
    <2>6. \A i \in DOMAIN log' :
            Head(log'[i].text) # Newline /\ (clean => Last(log'[i].text) # Newline)
      BY <1>4, <2>3, <2>5
    <2> QED
      BY <2>4, <2>6 DEF EntriesTrimmed, clean
  <1> QED
    BY <1>5, <1>6

LEMMA StepLogging ==
  ASSUME Logging, OutputNext \/ UNCHANGED outputVars
  PROVE  Logging'
PROOF
  <1>1. Reading /\ Reading'
    BY StepReading DEF Logging
  <1>2. ASSUME NEW s \in FDType, PutChar(s)
        PROVE  Logging'
    <2>1. PICK c \in Characters :
            /\ written' = [written EXCEPT ![s] = Append(@, c)]
            /\ pipe' = [pipe EXCEPT ![s] = Append(@, c)]
      BY <1>2 DEF PutChar
    <2>2. written \in [FDType -> Seq(Characters)] /\ pipe \in [FDType -> Seq(Characters)]
      BY <1>1 DEF Logging, Reading
    <2>3. \A q \in Seq(Characters) : ToSet(Append(q, c)) = ToSet(q) \cup {c}
      <3> TAKE q \in Seq(Characters)
      <3>1. /\ DOMAIN Append(q, c) = DOMAIN q \cup {Len(q) + 1}
            /\ \A i \in DOMAIN q : Append(q, c)[i] = q[i]
            /\ Append(q, c)[Len(q) + 1] = c
        OBVIOUS
      <3> QED
        BY <3>1 DEF ToSet
    <2>4. \A t \in FDType : /\ ToSet(pipe'[t]) \subseteq ToSet(written'[t])
                            /\ ToSet(written[t]) \subseteq ToSet(written'[t])
      BY <2>1, <2>2, <2>3 DEF Logging
    <2>5. written' \in [FDType -> Seq(Characters)]
      BY <2>1, <2>2
    <2>6. log' = log
      BY <1>2 DEF PutChar
    <2> QED
      BY <1>1, <2>4, <2>5, <2>6 DEF Logging, EntriesTrimmed
  <1>3. ASSUME NEW s \in FDType, ReadChunk(s)
        PROVE  Logging'
    <2> DEFINE n == Min({Len(pipe[s]), ReadSize})
    <2>1. /\ pipe \in [FDType -> Seq(Characters)] /\ pipe[s] \in Seq(Characters)
          /\ pipe[s] # <<>> /\ Len(pipe[s]) \in Nat \ {0} /\ ReadSize \in Nat \ {0}
      BY <1>1, <1>3, ChildOutputAssumption DEF Reading, ReadChunk
    <2>2. n \in 1 .. Len(pipe[s])
      <3> DEFINE sizes == {Len(pipe[s]), ReadSize}
      <3>1. sizes \in SUBSET Nat /\ sizes # {} /\ Len(pipe[s]) \in sizes
        BY <2>1
      <3>2. Min(sizes) \in sizes /\ Min(sizes) <= Len(pipe[s])
        <4> HIDE DEF sizes
        <4> QED
          BY <3>1, MinOfNaturals
      <3> QED
        BY <2>1, <3>2
    <2> DEFINE chunk == SubSeq(pipe[s], 1, n)
               left  == SubSeq(pipe[s], n + 1, Len(pipe[s]))
    <2>3. /\ Handle(s, chunk, n) /\ pipe' = [pipe EXCEPT ![s] = left]
          /\ UNCHANGED written
      BY <1>3 DEF ReadChunk
    <2> HIDE DEF n
    <2>4. /\ chunk \in Seq(Characters) /\ Len(chunk) = n /\ chunk # <<>>
          /\ ToSet(chunk) \subseteq ToSet(pipe[s])
          /\ ToSet(left) \subseteq ToSet(pipe[s])
      BY <2>1, <2>2 DEF ToSet
    <2> HIDE DEF chunk, left
    <2>5. log' \in Seq(LogEntry) /\ EntriesTrimmed'
      BY <2>3, <2>4, HandleLogging
    <2>6. \A t \in FDType : ToSet(pipe'[t]) \subseteq ToSet(written'[t])
      BY <2>1, <2>3, <2>4 DEF Logging
    <2> QED
      BY <1>1, <2>3, <2>5, <2>6 DEF Logging
  <1>4. ASSUME NEW s \in FDType, ReadFails(s)
        PROVE  Logging'
    <2>1. UNCHANGED <<written, pipe>> /\ Handle(s, <<>>, -1)
      BY <1>4 DEF ReadFails
    <2>2. log' = log
      BY <2>1, NeverThrows, StrippedNothing DEF Handle
    <2> QED
      BY <1>1, <2>1, <2>2 DEF Logging, EntriesTrimmed
  <1>5. ASSUME UNCHANGED outputVars
        PROVE  Logging'
    BY <1>1, <1>5 DEF outputVars, Logging, EntriesTrimmed
  <1> QED
    BY <1>2, <1>3, <1>4, <1>5 DEF OutputNext

THEOREM LoggingInvariant == StartupSpec => []Logging
PROOF
  <1>1. StartupInit => Logging
    BY InitLogging DEF StartupInit
  <1>2. Logging /\ [StartupNext]_startupVars => Logging'
    BY OnlyTalk, StepLogging
  <1> QED
    BY <1>1, <1>2, PTL DEF StartupSpec

\* Wherever the reads cut the output, no entry of the log begins with a
\* newline, and none ends with one while no program wrote a NUL.
THEOREM EntriesTrimmedCorrect == StartupSpec => []EntriesTrimmed
PROOF
  <1>1. Logging => EntriesTrimmed
    BY DEF Logging
  <1> QED
    BY <1>1, LoggingInvariant, PTL

-----------------------------------------------------------------------------
(* Pieces in a row                                                          *)

Texts == Seq(Characters)

LEMMA TextsAssociate == \A a, b, c \in Texts : (a \o b) \o c = a \o (b \o c)
PROOF
  <1> TAKE a, b, c \in Texts
  <1>1. a \in Seq(Characters) /\ b \in Seq(Characters) /\ c \in Seq(Characters)
    BY DEF Texts
  <1> QED
    BY <1>1, ConcatAssociative

\* The row of the pieces up to each place.
RowsOf(pieces, rows) ==
  /\ rows \in [0 .. Len(pieces) -> Texts] /\ rows[0] = <<>>
  /\ \A i \in 1 .. Len(pieces) : rows[i] = rows[i - 1] \o pieces[i]

LEMMA RowsExist ==
  ASSUME NEW pieces \in Seq(Texts)
  PROVE  \E rows : RowsOf(pieces, rows)
PROOF
  <1> DEFINE n == Len(pieces)
             upTo(k, rows) == /\ rows \in [0 .. k -> Texts] /\ rows[0] = <<>>
                              /\ \A i \in 1 .. k : rows[i] = rows[i - 1] \o pieces[i]
             S == {k \in 0 .. n : \E rows : upTo(k, rows)}
  <1>1. n \in Nat /\ \A i \in 1 .. n : pieces[i] \in Texts
    OBVIOUS
  <1>2. <<>> \in Texts /\ \A a, b \in Texts : a \o b \in Texts
    BY DEF Texts
  <1> HIDE DEF n
  <1>3. 0 \in S
    <2>1. upTo(0, [i \in 0 .. 0 |-> <<>>])
      BY <1>2
    <2> HIDE DEF upTo
    <2> QED
      BY <1>1, <2>1
  <1>4. ASSUME NEW k \in 1 .. n, k - 1 \in S
        PROVE  k \in S
    <2>1. PICK rows : upTo(k - 1, rows)
      BY <1>4
    <2> DEFINE more == [i \in 0 .. k |-> IF i = k THEN rows[k - 1] \o pieces[k] ELSE rows[i]]
    <2>2. rows[k - 1] \o pieces[k] \in Texts
      BY <1>1, <1>2, <2>1
    <2>3. more \in [0 .. k -> Texts] /\ more[0] = <<>>
      BY <2>1, <2>2
    <2>4. \A i \in 1 .. k : more[i] = more[i - 1] \o pieces[i]
      BY <2>1
    <2>5. upTo(k, more)
      BY <2>3, <2>4
    <2> HIDE DEF upTo
    <2> QED
      BY <1>1, <2>5
  <1>5. \A k \in 0 .. n : k \in S
    <2> HIDE DEF S
    <2> QED
      BY <1>1, <1>3, <1>4, UpTo
  <1>6. n \in S
    <2>1. n \in 0 .. n
      BY <1>1
    <2> QED
      BY <1>5, <2>1
  <1> QED
    BY <1>6 DEF RowsOf, n

\* FlattenSeq is the last of them.
LEMMA FlattenIsRow ==
  ASSUME NEW pieces \in Seq(Texts), NEW rows, RowsOf(pieces, rows)
  PROVE  FlattenSeq(pieces) = rows[Len(pieces)]
PROOF
  <1> DEFINE n == Len(pieces)
             rhs(g) == [i \in 1 .. n |-> IF i = 1 THEN pieces[i] ELSE g[i - 1] \o pieces[i]]
             flat == CHOOSE g : g = rhs(g)
  <1>1. n \in Nat /\ \A i \in 1 .. n : pieces[i] \in Texts /\ <<>> \o pieces[i] = pieces[i]
    BY DEF Texts
  <1>2. rows[0] = <<>> /\ \A i \in 1 .. n : rows[i] = rows[i - 1] \o pieces[i]
    BY DEF RowsOf
  <1>3. CASE n = 0
    <2>1. pieces = <<>>
      BY <1>3
    <2> QED
      BY <1>2, <1>3, <2>1 DEF FlattenSeq
  <1>4. CASE n # 0
    <2>1. FlattenSeq(pieces) = flat[n]
      BY <1>4 DEF FlattenSeq
    <2> HIDE DEF n
    <2> DEFINE f == [i \in 1 .. n |-> rows[i]]
    <2>2. f = rhs(f)
      <3>1. \A i \in 1 .. n : f[i] = rhs(f)[i]
        <4> TAKE i \in 1 .. n
        <4>1. CASE i = 1
          <5>1. rows[1] = rows[1 - 1] \o pieces[1] /\ rows[1 - 1] = <<>>
            <6>1. 1 \in 1 .. n /\ 1 - 1 = 0
              BY <4>1
            <6> QED
              BY <1>2, <6>1
          <5>2. pieces[1] = <<>> \o pieces[1]
            BY <1>1, <4>1
          <5> QED
            BY <4>1, <5>1, <5>2
        <4>2. CASE i # 1
          <5>1. i - 1 \in 1 .. n
            BY <1>1, <4>2
          <5> QED
            BY <1>2, <4>2, <5>1
        <4> QED
          BY <4>1, <4>2
      <3> QED
        BY <3>1
    <2>3. flat = rhs(flat)
      <3> HIDE DEF rhs
      <3> QED
        BY <2>2
    <2> HIDE DEF flat
    <2> DEFINE S == {i \in 0 .. n : i = 0 \/ flat[i] = rows[i]}
    <2>4. 0 \in S
      BY <1>1
    <2>5. ASSUME NEW i \in 1 .. n, i - 1 \in S
          PROVE  i \in S
      <3>1. flat[i] = IF i = 1 THEN pieces[i] ELSE flat[i - 1] \o pieces[i]
        <4>1. rhs(flat)[i] = IF i = 1 THEN pieces[i] ELSE flat[i - 1] \o pieces[i]
          OBVIOUS
        <4> HIDE DEF rhs
        <4> QED
          BY <2>3, <4>1
      <3>2. i \in 0 .. n /\ rows[i] = rows[i - 1] \o pieces[i] /\ <<>> \o pieces[i] = pieces[i]
        <4>1. i \in 0 .. n
          BY <1>1
        <4>2. rows[i] = rows[i - 1] \o pieces[i]
          BY <1>2
        <4>3. <<>> \o pieces[i] = pieces[i]
          BY <1>1
        <4> QED
          BY <4>1, <4>2, <4>3
      <3>3. CASE i = 1
        <4>1. rows[i - 1] = <<>>
          BY <1>2, <3>3
        <4> QED
          BY <3>1, <3>2, <3>3, <4>1
      <3>4. CASE i # 1
        <4>1. flat[i - 1] = rows[i - 1]
          BY <2>5, <3>4
        <4> QED
          BY <3>1, <3>2, <3>4, <4>1
      <3> QED
        BY <3>3, <3>4
    <2>6. \A i \in 0 .. n : i \in S
      <3> HIDE DEF S
      <3> QED
        BY <1>1, <2>4, <2>5, UpTo
    <2>7. flat[n] = rows[n]
      <3>1. n \in 0 .. n
        BY <1>1
      <3> QED
        BY <1>4, <2>6, <3>1
    <2> QED
      BY <2>1, <2>7 DEF n
  <1> QED
    BY <1>3, <1>4

\* So one more piece makes the row longer by that piece.
LEMMA FlattenOneMore ==
  ASSUME NEW pieces \in Seq(Texts), NEW piece \in Texts
  PROVE  /\ FlattenSeq(pieces) \in Texts
         /\ FlattenSeq(Append(pieces, piece)) = FlattenSeq(pieces) \o piece
PROOF
  <1> DEFINE n == Len(pieces)
             all == Append(pieces, piece)
  <1>1. /\ n \in Nat /\ all \in Seq(Texts) /\ Len(all) = n + 1
        /\ all[n + 1] = piece /\ \A i \in 1 .. n : all[i] = pieces[i]
    OBVIOUS
  <1>2. PICK rows : RowsOf(pieces, rows)
    BY RowsExist
  <1>3. PICK more : RowsOf(all, more)
    BY <1>1, RowsExist
  <1>4. FlattenSeq(pieces) = rows[n] /\ FlattenSeq(all) = more[n + 1]
    BY <1>1, <1>2, <1>3, FlattenIsRow
  <1>5. /\ rows \in [0 .. n -> Texts] /\ rows[0] = <<>>
        /\ \A i \in 1 .. n : rows[i] = rows[i - 1] \o pieces[i]
    BY <1>2 DEF RowsOf
  <1>6. more[0] = <<>> /\ \A i \in 1 .. n + 1 : more[i] = more[i - 1] \o all[i]
    BY <1>1, <1>3 DEF RowsOf
  <1> HIDE DEF n, all
  <1> DEFINE S == {i \in 0 .. n : more[i] = rows[i]}
  <1>7. 0 \in S
    BY <1>1, <1>5, <1>6
  <1>8. ASSUME NEW i \in 1 .. n, i - 1 \in S
        PROVE  i \in S
    <2>1. i \in 0 .. n /\ i \in 1 .. n + 1 /\ all[i] = pieces[i]
      BY <1>1
    <2>2. more[i] = more[i - 1] \o all[i] /\ rows[i] = rows[i - 1] \o pieces[i]
      BY <1>5, <1>6, <2>1
    <2> QED
      BY <1>8, <2>1, <2>2
  <1>9. \A i \in 0 .. n : i \in S
    <2> HIDE DEF S
    <2> QED
      BY <1>1, <1>7, <1>8, UpTo
  <1>10. more[n + 1] = rows[n] \o piece
    <2>1. n \in 0 .. n /\ n + 1 \in 1 .. n + 1 /\ n + 1 - 1 = n
      BY <1>1
    <2>2. \A i \in 1 .. n + 1 : i - 1 = n => more[i] = more[n] \o all[i]
      BY <1>6
    <2>3. more[n] = rows[n]
      BY <1>9, <2>1
    <2> QED
      BY <1>1, <2>1, <2>2, <2>3
  <1> QED
    BY <1>1, <1>4, <1>5, <1>10 DEF all

-----------------------------------------------------------------------------
(* A text without its newlines                                              *)

Piece(c) == IF c = Newline THEN <<>> ELSE <<c>>

\* Without its newlines a text grows as the text grows.
LEMMA VisiblyOneMore ==
  ASSUME NEW text \in Texts, NEW c \in Characters
  PROVE  /\ Visibly(text) \in Texts
         /\ Visibly(Append(text, c)) = Visibly(text) \o Piece(c)
PROOF
  <1> DEFINE more == Append(text, c)
             pieces == [i \in DOMAIN text |-> Piece(text[i])]
             all == [i \in DOMAIN more |-> Piece(more[i])]
  <1>1. \A d \in Characters : Piece(d) \in Texts
    BY DEF Piece, Texts
  <1>2. /\ text \in Seq(Characters) /\ Len(text) \in Nat /\ DOMAIN text = 1 .. Len(text)
        /\ DOMAIN more = 1 .. Len(text) + 1 /\ more[Len(text) + 1] = c
        /\ \A i \in 1 .. Len(text) : more[i] = text[i] /\ text[i] \in Characters
    BY DEF Texts
  <1> HIDE DEF more
  <1>3. pieces \in Seq(Texts) /\ Len(pieces) = Len(text)
    BY <1>1, <1>2
  <1>4. all = Append(pieces, Piece(c))
    <2>1. all \in Seq(Texts) /\ Len(all) = Len(text) + 1
      BY <1>1, <1>2
    <2>2. /\ Append(pieces, Piece(c)) \in Seq(Texts)
          /\ Len(Append(pieces, Piece(c))) = Len(text) + 1
      BY <1>1, <1>3
    <2>3. \A i \in 1 .. Len(text) + 1 : all[i] = Append(pieces, Piece(c))[i]
      <3> TAKE i \in 1 .. Len(text) + 1
      <3>1. all[i] = Piece(more[i])
        BY <1>2
      <3>2. CASE i = Len(text) + 1
        <4>1. Append(pieces, Piece(c))[i] = Piece(c)
          BY <1>3, <3>2
        <4> QED
          BY <1>2, <3>1, <3>2, <4>1
      <3>3. CASE i # Len(text) + 1
        <4>1. i \in 1 .. Len(text)
          BY <1>2, <3>3
        <4>2. Append(pieces, Piece(c))[i] = pieces[i]
          <5> HIDE DEF pieces
          <5> QED
            BY <1>3, <4>1
        <4> QED
          BY <1>2, <3>1, <4>1, <4>2
      <3> QED
        BY <3>2, <3>3
    <2> HIDE DEF all, pieces
    <2> QED
      BY <2>1, <2>2, <2>3, SeqEqual
  <1>5. Visibly(text) = FlattenSeq(pieces) /\ Visibly(more) = FlattenSeq(all)
    BY DEF Visibly, Piece
  <1> HIDE DEF pieces, all
  <1> QED
    BY <1>1, <1>3, <1>4, <1>5, FlattenOneMore DEF more

LEMMA VisiblyNothing == Visibly(<<>>) = <<>>
PROOF
  <1>1. [i \in DOMAIN <<>> |-> IF <<>>[i] = Newline THEN <<>> ELSE <<<<>>[i]>>] = <<>>
    OBVIOUS
  <1> QED
    BY <1>1 DEF Visibly, FlattenSeq

\* The prefixes of a text, one character after the other.
LEMMA PrefixOneMore ==
  ASSUME NEW text \in Texts, NEW i \in 1 .. Len(text)
  PROVE  /\ SubSeq(text, 1, i - 1) \in Texts /\ text[i] \in Characters
         /\ SubSeq(text, 1, i) = Append(SubSeq(text, 1, i - 1), text[i])
BY DEF Texts

LEMMA VisiblyRow ==
  ASSUME NEW a \in Texts, NEW b \in Texts
  PROVE  Visibly(a \o b) = Visibly(a) \o Visibly(b)
PROOF
  <1> DEFINE pre(k) == SubSeq(b, 1, k)
             S == {k \in 0 .. Len(b) : Visibly(a \o pre(k)) = Visibly(a) \o Visibly(pre(k))}
  <1>1. Len(b) \in Nat /\ pre(0) = <<>> /\ pre(Len(b)) = b
    BY DEF Texts
  <1>2. a \o <<>> = a /\ Visibly(a) \in Texts /\ Visibly(a) \o <<>> = Visibly(a)
    <2>1. Visibly(a) \in Texts
      BY VisiblyOneMore, ChildOutputAssumption
    <2> QED
      BY <2>1 DEF Texts
  <1>3. 0 \in S
    <2>1. Visibly(a \o pre(0)) = Visibly(a) \o Visibly(pre(0))
      <3> HIDE DEF pre
      <3> QED
        BY <1>1, <1>2, VisiblyNothing
    <2> QED
      BY <1>1, <2>1
  <1>4. ASSUME NEW k \in 1 .. Len(b), k - 1 \in S
        PROVE  k \in S
    <2> DEFINE p == pre(k - 1)
               c == b[k]
    <2>1. p \in Texts /\ c \in Characters /\ pre(k) = Append(p, c)
      BY PrefixOneMore
    <2>2. Visibly(a \o p) = Visibly(a) \o Visibly(p)
      BY <1>4
    <2> HIDE DEF p, c
    <2>3. a \o Append(p, c) = Append(a \o p, c) /\ a \o p \in Texts
      BY <2>1 DEF Texts
    <2>4. /\ Visibly(Append(a \o p, c)) = Visibly(a \o p) \o Piece(c)
          /\ Visibly(Append(p, c)) = Visibly(p) \o Piece(c)
          /\ Visibly(p) \in Texts
      BY <2>1, <2>3, VisiblyOneMore
    <2>5. Piece(c) \in Texts
      BY <2>1 DEF Piece, Texts
    <2>6. (Visibly(a) \o Visibly(p)) \o Piece(c) = Visibly(a) \o (Visibly(p) \o Piece(c))
      BY <1>2, <2>4, <2>5, TextsAssociate, Zenon
    <2>7. Visibly(a \o pre(k)) = Visibly(a) \o Visibly(pre(k))
      <3> HIDE DEF pre
      <3> QED
        BY <2>1, <2>2, <2>3, <2>4, <2>6
    <2>8. k \in 0 .. Len(b)
      BY <1>1
    <2> HIDE DEF pre
    <2> QED
      BY <2>7, <2>8
  <1>5. \A k \in 0 .. Len(b) : k \in S
    <2> HIDE DEF S
    <2> QED
      BY <1>1, <1>3, <1>4, UpTo
  <1>6. Len(b) \in S
    <2>1. Len(b) \in 0 .. Len(b)
      BY <1>1
    <2> QED
      BY <1>5, <2>1
  <1> QED
    BY <1>1, <1>6

LEMMA VisiblyBlank ==
  ASSUME NEW text \in Texts, \A i \in DOMAIN text : text[i] = Newline
  PROVE  Visibly(text) = <<>>
PROOF
  <1> DEFINE pre(k) == SubSeq(text, 1, k)
             S == {k \in 0 .. Len(text) : Visibly(pre(k)) = <<>>}
  <1>1. /\ Len(text) \in Nat /\ DOMAIN text = 1 .. Len(text)
        /\ pre(0) = <<>> /\ pre(Len(text)) = text
    BY DEF Texts
  <1>2. 0 \in S
    <2>1. Visibly(pre(0)) = <<>>
      <3> HIDE DEF pre
      <3> QED
        BY <1>1, VisiblyNothing
    <2> QED
      BY <1>1, <2>1
  <1>3. ASSUME NEW k \in 1 .. Len(text), k - 1 \in S
        PROVE  k \in S
    <2>1. pre(k - 1) \in Texts /\ text[k] \in Characters /\ pre(k) = Append(pre(k - 1), text[k])
      BY PrefixOneMore
    <2>2. text[k] = Newline /\ k \in 0 .. Len(text)
      BY <1>1
    <2>3. Visibly(pre(k - 1)) = <<>>
      BY <1>3
    <2> HIDE DEF pre
    <2>4. Visibly(pre(k)) = <<>> \o <<>>
      BY <2>1, <2>2, <2>3, VisiblyOneMore DEF Piece
    <2> QED
      BY <2>2, <2>4
  <1>4. \A k \in 0 .. Len(text) : k \in S
    <2> HIDE DEF S
    <2> QED
      BY <1>1, <1>2, <1>3, UpTo
  <1>5. Len(text) \in S
    <2>1. Len(text) \in 0 .. Len(text)
      BY <1>1
    <2> QED
      BY <1>4, <2>1
  <1> QED
    BY <1>1, <1>5

\* A chunk without a NUL loses only newlines when it is stripped.
LEMMA VisiblyStripped ==
  ASSUME NEW buf \in Texts, buf # <<>>, \A i \in DOMAIN buf : buf[i] # Nul
  PROVE  /\ Stripped(buf, Len(buf)) \in Texts
         /\ Visibly(Stripped(buf, Len(buf))) = Visibly(buf)
PROOF
  <1> DEFINE n == Len(buf)
             b == Begin(buf, n)
             e == End(buf, n)
             rest == SubSeq(buf, b + 1, n)
             str == Stripped(buf, n)
  <1>1. /\ buf \in Seq(Characters) /\ n \in Nat /\ n > 0
        /\ b \in 0 .. n /\ \A i \in 1 .. b : buf[i] = Newline
    BY BeginOfChunk DEF Texts
  <1>2. /\ e \in -1 .. n - 1 /\ (e < b => e = n - 1)
        /\ e >= b => \A i \in e + 2 .. n : buf[i] = Newline
    BY <1>1, EndOfChunk
  <1>3. CString(buf) = buf
    BY <1>1, CStringOfChunk
  <1> DEFINE q == IF e < n - 1 /\ e >= b THEN e + 1 ELSE n
  <1>4. str = SubSeq(buf, b + 1, q)
    <2>1. CASE e < n - 1 /\ e >= b
      <3>1. str = SubSeq(rest, 1, Min({Len(rest), e - b + 1}))
        BY <1>3, <2>1 DEF Stripped, Kept
      <3> HIDE DEF n, b, e, str
      <3>2. rest \in Seq(Characters) /\ Len(rest) = n - b
        BY <1>1 DEF n
      <3>3. Min({Len(rest), e - b + 1}) = e - b + 1
        <4> DEFINE S == {Len(rest), e - b + 1}
        <4>1. S \in SUBSET Nat /\ S # {} /\ e - b + 1 \in S /\ \A i \in S : i >= e - b + 1
          BY <1>1, <1>2, <2>1, <3>2
        <4>2. Min(S) \in S /\ Min(S) <= e - b + 1
          <5> HIDE DEF S
          <5> QED
            BY <4>1, MinOfNaturals
        <4>3. Min(S) \in Nat /\ Min(S) >= e - b + 1 /\ e - b + 1 \in Nat
          <5> HIDE DEF S
          <5> QED
            BY <4>1, <4>2
        <4> HIDE DEF S
        <4>4. Min(S) = e - b + 1
          BY <4>2, <4>3
        <4> QED
          BY <4>4 DEF S
      <3>4. SubSeq(rest, 1, e - b + 1) = SubSeq(buf, b + 1, e + 1)
        BY <1>1, <1>2, <2>1, <3>2 DEF n
      <3> QED
        BY <2>1, <3>1, <3>3, <3>4
    <2>2. CASE ~(e < n - 1 /\ e >= b)
      BY <1>3, <2>2 DEF Stripped
    <2> QED
      BY <2>1, <2>2
  <1>5. /\ q \in b .. n /\ \A i \in q + 1 .. n : buf[i] = Newline
    <2> HIDE DEF n, b, e
    <2> QED
      BY <1>1, <1>2
  <1> HIDE DEF n, b, e, str, q
  <1> DEFINE front == SubSeq(buf, 1, b)
             back == SubSeq(buf, q + 1, n)
  <1>6. front \in Texts /\ str \in Texts /\ back \in Texts
    BY <1>1, <1>4, <1>5 DEF Texts, n
  <1>7. buf = (front \o str) \o back
    <2>1. b \in 1 - 1 .. n /\ q \in b .. n /\ 1 \in 1 .. n + 1
      BY <1>1, <1>5
    <2>2. front \o str = SubSeq(buf, 1, q)
      BY <1>1, <1>4, <2>1, ConcatAdjacentSubSeq DEF n
    <2>3. q \in 1 - 1 .. n /\ n \in q .. n
      BY <1>1, <2>1
    <2>4. SubSeq(buf, 1, q) \o back = SubSeq(buf, 1, n)
      BY <1>1, <2>1, <2>3, ConcatAdjacentSubSeq DEF n
    <2>5. SubSeq(buf, 1, n) = buf
      BY <1>1 DEF n
    <2> QED
      BY <2>2, <2>4, <2>5
  <1>8. Visibly(front) = <<>> /\ Visibly(back) = <<>>
    <2>1. \A i \in DOMAIN front : front[i] = Newline
      BY <1>1, <1>5 DEF n
    <2>2. \A i \in DOMAIN back : back[i] = Newline
      BY <1>1, <1>5 DEF n
    <2> HIDE DEF front, back
    <2> QED
      BY <1>6, <2>1, <2>2, VisiblyBlank
  <1> HIDE DEF front, back
  <1>9. front \o str \in Texts /\ Visibly(str) \in Texts
    BY <1>6, VisiblyOneMore, ChildOutputAssumption DEF Texts
  <1>10. Visibly(buf) = (<<>> \o Visibly(str)) \o <<>>
    <2>1. Visibly(front \o str) = Visibly(front) \o Visibly(str)
      BY <1>6, VisiblyRow
    <2>2. Visibly((front \o str) \o back) = Visibly(front \o str) \o Visibly(back)
      BY <1>6, <1>9, VisiblyRow
    <2> QED
      BY <1>7, <1>8, <2>1, <2>2, Zenon
  <1> QED
    BY <1>6, <1>9, <1>10 DEF str, n, Texts

-----------------------------------------------------------------------------
(* The row of the entries                                                   *)

LEMMA LoggedNothing ==
  ASSUME log = <<>>, NEW s \in FDType
  PROVE  LoggedOf(s) = <<>>
PROOF
  <1>1. \A l : [i \in DOMAIN log |-> IF log[i].level = l THEN log[i].text ELSE <<>>] = <<>>
    OBVIOUS
  <1> QED
    BY <1>1 DEF LoggedOf, FlattenSeq

\* An entry makes what was logged of its stream longer, and of no other.
LEMMA LoggedOneMore ==
  ASSUME log \in Seq(LogEntry), NEW s \in FDType, NEW str \in Texts, str # <<>>,
         log' = Append(log, [level |-> Level(s), text |-> str]),
         NEW t \in FDType
  PROVE  /\ LoggedOf(t) \in Texts
         /\ LoggedOf(t)' = IF t = s THEN LoggedOf(t) \o str ELSE LoggedOf(t)
PROOF
  <1> DEFINE level == IF t = "STDOUT" THEN "info" ELSE "warn"
             of(en) == IF en.level = level THEN en.text ELSE <<>>
             item == [level |-> Level(s), text |-> str]
             pieces == [i \in DOMAIN log |-> of(log[i])]
             all == [i \in DOMAIN log' |-> of(log'[i])]
             last == IF t = s THEN str ELSE <<>>
  <1>1. of(item) = last
    BY DEF FDType, Level
  <1>2. \A en \in LogEntry : of(en) \in Texts
    BY DEF LogEntry, Texts
  <1>3. last \in Texts /\ item \in LogEntry
    BY DEF Texts, LogEntry, Level
  <1>4. LoggedOf(t) = FlattenSeq(pieces) /\ LoggedOf(t)' = FlattenSeq(all)
    BY DEF LoggedOf
  <1> HIDE DEF of, item, last
  <1>5. /\ Len(log) \in Nat /\ DOMAIN log = 1 .. Len(log)
        /\ DOMAIN log' = 1 .. Len(log) + 1 /\ log'[Len(log) + 1] = item
        /\ \A i \in 1 .. Len(log) : log'[i] = log[i] /\ log[i] \in LogEntry
    BY <1>3 DEF item
  <1>6. pieces \in Seq(Texts) /\ Len(pieces) = Len(log)
    BY <1>2, <1>5
  <1>7. all = Append(pieces, last)
    <2>1. all \in Seq(Texts) /\ Len(all) = Len(log) + 1
      BY <1>2, <1>3, <1>5
    <2>2. Append(pieces, last) \in Seq(Texts) /\ Len(Append(pieces, last)) = Len(log) + 1
      BY <1>3, <1>6
    <2>3. \A i \in 1 .. Len(log) + 1 : all[i] = Append(pieces, last)[i]
      <3> TAKE i \in 1 .. Len(log) + 1
      <3>1. all[i] = of(log'[i])
        BY <1>5
      <3>2. CASE i = Len(log) + 1
        <4>1. Append(pieces, last)[i] = last
          BY <1>6, <3>2
        <4> QED
          BY <1>1, <1>5, <3>1, <3>2, <4>1
      <3>3. CASE i # Len(log) + 1
        <4>1. i \in 1 .. Len(log)
          BY <1>5, <3>3
        <4>2. Append(pieces, last)[i] = pieces[i]
          <5> HIDE DEF pieces
          <5> QED
            BY <1>6, <4>1
        <4> QED
          BY <1>5, <3>1, <4>1, <4>2
      <3> QED
        BY <3>2, <3>3
    <2> HIDE DEF all, pieces
    <2> QED
      BY <2>1, <2>2, <2>3, SeqEqual
  <1> HIDE DEF pieces, all
  <1>8. FlattenSeq(pieces) \in Texts /\ FlattenSeq(all) = FlattenSeq(pieces) \o last
    BY <1>3, <1>6, <1>7, FlattenOneMore
  <1> QED
    BY <1>4, <1>8 DEF last, Texts

LEMMA LoggedIsText ==
  ASSUME log \in Seq(LogEntry), NEW s \in FDType
  PROVE  LoggedOf(s) \in Texts
PROOF
  <1> DEFINE level == IF s = "STDOUT" THEN "info" ELSE "warn"
             pieces == [i \in DOMAIN log |-> IF log[i].level = level THEN log[i].text ELSE <<>>]
  <1>1. pieces \in Seq(Texts)
    <2>1. /\ Len(log) \in Nat /\ DOMAIN log = 1 .. Len(log)
          /\ \A i \in 1 .. Len(log) : log[i] \in LogEntry
      OBVIOUS
    <2>2. \A item \in LogEntry : item.text \in Texts
      BY DEF LogEntry, Texts
    <2>3. <<>> \in Texts
      BY DEF Texts
    <2> HIDE DEF level
    <2> QED
      BY <2>1, <2>2, <2>3
  <1>2. LoggedOf(s) = FlattenSeq(pieces)
    BY DEF LoggedOf
  <1> HIDE DEF pieces
  <1> QED
    BY <1>1, <1>2, FlattenOneMore DEF Texts

\* What was logged of a stream and what is still to be read of it make, but
\* for newlines, what was written to it.
Accounted(s) == Nul \notin ToSet(written[s]) =>
                  Visibly(LoggedOf(s) \o pipe[s]) = Visibly(written[s])

LEMMA InitAccounted ==
  ASSUME OutputInit, NEW s \in FDType
  PROVE  Accounted(s)
PROOF
  <1>1. log = <<>> /\ pipe[s] = <<>> /\ written[s] = <<>>
    BY DEF OutputInit
  <1>2. LoggedOf(s) = <<>>
    BY <1>1, LoggedNothing
  <1>3. LoggedOf(s) \o pipe[s] = written[s]
    BY <1>1, <1>2
  <1> QED
    BY <1>3 DEF Accounted

LEMMA StepAccounted ==
  ASSUME Logging, Logging', OutputNext \/ UNCHANGED outputVars,
         NEW t \in FDType, Accounted(t)
  PROVE  Accounted(t)'
PROOF
  <1>1. /\ pipe \in [FDType -> Texts] /\ written \in [FDType -> Texts]
        /\ log \in Seq(LogEntry) /\ LoggedOf(t) \in Texts
    BY LoggedIsText DEF Logging, Reading, Texts
  <1>2. ASSUME NEW s \in FDType, PutChar(s)
        PROVE  Accounted(t)'
    <2>1. PICK c \in Characters :
            /\ written' = [written EXCEPT ![s] = Append(@, c)]
            /\ pipe' = [pipe EXCEPT ![s] = Append(@, c)]
      BY <1>2 DEF PutChar
    <2>2. log' = log
      BY <1>2 DEF PutChar
    <2>3. LoggedOf(t)' = LoggedOf(t)
      BY <2>2 DEF LoggedOf
    <2>4. CASE t # s
      <3>1. written'[t] = written[t] /\ pipe'[t] = pipe[t]
        BY <1>1, <2>1, <2>4
      <3> QED
        BY <2>3, <3>1 DEF Accounted
    <2>5. CASE t = s
      <3> DEFINE w == written[t]
                 p == pipe[t]
                 l == LoggedOf(t)
      <3>1. w \in Texts /\ p \in Texts /\ l \in Texts
        BY <1>1
      <3>2. written'[t] = Append(w, c) /\ pipe'[t] = Append(p, c)
        BY <1>1, <2>1, <2>5
      <3> SUFFICES ASSUME Nul \notin ToSet(Append(w, c))
                   PROVE  Visibly(l \o Append(p, c)) = Visibly(Append(w, c))
        BY <2>3, <3>2 DEF Accounted
      <3>3. Nul \notin ToSet(w)
        <4> HIDE DEF w
        <4>1. \A i \in DOMAIN w : i \in DOMAIN Append(w, c) /\ Append(w, c)[i] = w[i]
          BY <3>1 DEF Texts
        <4> QED
          BY <4>1 DEF ToSet
      <3>4. Visibly(l \o p) = Visibly(w)
        BY <3>3 DEF Accounted
      <3> HIDE DEF w, p, l
      <3>5. l \o Append(p, c) = Append(l \o p, c) /\ l \o p \in Texts
        BY <3>1 DEF Texts
      <3>6. /\ Visibly(Append(l \o p, c)) = Visibly(l \o p) \o Piece(c)
            /\ Visibly(Append(w, c)) = Visibly(w) \o Piece(c)
        BY <3>1, <3>5, VisiblyOneMore
      <3> QED
        BY <3>4, <3>5, <3>6, Zenon
    <2> QED
      BY <2>4, <2>5
  <1>3. ASSUME NEW s \in FDType, ReadChunk(s)
        PROVE  Accounted(t)'
    <2> DEFINE n == Min({Len(pipe[s]), ReadSize})
               chunk == SubSeq(pipe[s], 1, n)
               left  == SubSeq(pipe[s], n + 1, Len(pipe[s]))
               str   == Stripped(chunk, n)
    <2>1. /\ Handle(s, chunk, n) /\ pipe' = [pipe EXCEPT ![s] = left]
          /\ UNCHANGED written /\ pipe[s] # <<>>
      BY <1>3 DEF ReadChunk
    <2>2. n \in 1 .. Len(pipe[s])
      <3> DEFINE sizes == {Len(pipe[s]), ReadSize}
      <3>1. sizes \in SUBSET (Nat \ {0}) /\ sizes \in SUBSET Nat /\ sizes # {} /\ Len(pipe[s]) \in sizes
        <4>1. Len(pipe[s]) \in Nat \ {0}
          BY <1>1, <2>1 DEF Texts
        <4> QED
          BY <4>1, ChildOutputAssumption
      <3>2. Min(sizes) \in sizes /\ Min(sizes) <= Len(pipe[s])
        <4> HIDE DEF sizes
        <4> QED
          BY <3>1, MinOfNaturals
      <3> QED
        BY <3>1, <3>2
    <2> HIDE DEF n
    <2>3. /\ chunk \in Texts /\ Len(chunk) = n /\ chunk # <<>> /\ left \in Texts
          /\ chunk \o left = pipe[s]
          /\ \A i \in DOMAIN chunk : chunk[i] \in ToSet(pipe[s])
      <3>1. pipe[s] \in Seq(Characters)
        BY <1>1 DEF Texts
      <3>2. /\ chunk \in Seq(Characters) /\ Len(chunk) = n /\ chunk # <<>>
            /\ left \in Seq(Characters)
            /\ \A i \in DOMAIN chunk : i \in DOMAIN pipe[s] /\ chunk[i] = pipe[s][i]
        BY <2>2, <3>1
      <3>3. chunk \o left = pipe[s]
        BY <2>2, <3>1
      <3> QED
        BY <3>2, <3>3 DEF Texts, ToSet
    <2> HIDE DEF chunk, left
    <2>4. /\ str \in Seq(Characters)
          /\ log' = IF str = <<>> THEN log ELSE Append(log, [level |-> Level(s), text |-> str])
      <3>1. str \in Seq(Characters) /\ ~Throws(chunk, n)
        BY <2>3, StrippedChunk, NeverThrows DEF Texts
      <3> QED
        BY <2>1, <3>1 DEF Handle
    <2> HIDE DEF str
    <2>5. LoggedOf(t)' = IF t = s THEN LoggedOf(t) \o str ELSE LoggedOf(t)
      <3>1. CASE str = <<>>
        <4>1. log' = log
          BY <2>4, <3>1
        <4>2. LoggedOf(t)' = LoggedOf(t)
          BY <4>1 DEF LoggedOf
        <4>3. LoggedOf(t) \o <<>> = LoggedOf(t)
          BY <1>1 DEF Texts
        <4> QED
          BY <3>1, <4>2, <4>3
      <3>2. CASE str # <<>>
        BY <1>1, <2>4, <3>2, LoggedOneMore DEF Texts
      <3> QED
        BY <3>1, <3>2
    <2>6. CASE t # s
      <3>1. written'[t] = written[t] /\ pipe'[t] = pipe[t]
        BY <1>1, <2>1, <2>6
      <3>2. LoggedOf(t)' = LoggedOf(t)
        BY <2>5, <2>6
      <3> QED
        BY <3>1, <3>2 DEF Accounted
    <2>7. CASE t = s
      <3> DEFINE l == LoggedOf(t)
      <3>1. written'[t] = written[t] /\ pipe'[t] = left /\ LoggedOf(t)' = l \o str
        BY <1>1, <2>1, <2>5, <2>7
      <3> SUFFICES ASSUME Nul \notin ToSet(written[t])
                   PROVE  Visibly((l \o str) \o left) = Visibly(written[t])
        BY <3>1 DEF Accounted
      <3>2. Visibly(l \o (chunk \o left)) = Visibly(written[t])
        BY <2>3, <2>7 DEF Accounted
      <3>3. \A i \in DOMAIN chunk : chunk[i] # Nul
        BY <2>3, <2>7 DEF Logging
      <3>4. str \in Texts /\ Visibly(str) = Visibly(chunk)
        BY <2>3, <3>3, VisiblyStripped DEF str
      <3>5. l \in Texts
        BY <1>1
      <3> HIDE DEF l
      <3>6. l \o str \in Texts /\ chunk \o left \in Texts
        <4>1. \A a, b \in Texts : a \o b \in Texts
          BY DEF Texts
        <4>2. chunk \in Texts /\ left \in Texts /\ str \in Texts /\ l \in Texts
          BY <2>3, <3>4, <3>5
        <4> QED
          BY <4>1, <4>2, Zenon
      <3>7. /\ Visibly((l \o str) \o left) = Visibly(l \o str) \o Visibly(left)
            /\ Visibly(l \o str) = Visibly(l) \o Visibly(str)
        BY <2>3, <3>4, <3>5, <3>6, VisiblyRow
      <3>8. /\ Visibly(l \o (chunk \o left)) = Visibly(l) \o Visibly(chunk \o left)
            /\ Visibly(chunk \o left) = Visibly(chunk) \o Visibly(left)
        BY <2>3, <3>5, <3>6, VisiblyRow
      <3>9. Visibly(l) \in Texts /\ Visibly(chunk) \in Texts /\ Visibly(left) \in Texts
        BY <2>3, <3>5, VisiblyOneMore, ChildOutputAssumption
      <3>10. (Visibly(l) \o Visibly(chunk)) \o Visibly(left)
               = Visibly(l) \o (Visibly(chunk) \o Visibly(left))
        BY <3>9, TextsAssociate, Zenon
      <3> QED
        BY <3>2, <3>4, <3>7, <3>8, <3>10, Zenon
    <2> QED
      BY <2>6, <2>7
  <1>4. ASSUME NEW s \in FDType, ReadFails(s)
        PROVE  Accounted(t)'
    <2>1. UNCHANGED <<written, pipe>> /\ Handle(s, <<>>, -1)
      BY <1>4 DEF ReadFails
    <2>2. log' = log
      BY <2>1, NeverThrows, StrippedNothing DEF Handle
    <2>3. LoggedOf(t)' = LoggedOf(t)
      BY <2>2 DEF LoggedOf
    <2> QED
      BY <2>1, <2>3 DEF Accounted
  <1>5. ASSUME UNCHANGED outputVars
        PROVE  Accounted(t)'
    BY <1>5 DEF outputVars, Accounted, LoggedOf
  <1> QED
    BY <1>2, <1>3, <1>4, <1>5 DEF OutputNext

\* However the reads cut the output of a program, the log and the unread rest
\* hold every character of a stream that carried no NUL, once and in order.
THEOREM OutputFaithfulCorrect == StartupSpec => []OutputFaithful
PROOF
  <1>1. OutputFaithful <=> \A s \in FDType : Accounted(s)
    BY DEF OutputFaithful, Accounted
  <1>2. StartupInit => Logging /\ OutputFaithful
    BY <1>1, InitLogging, InitAccounted DEF StartupInit
  <1>3. Logging /\ OutputFaithful /\ [StartupNext]_startupVars => Logging' /\ OutputFaithful'
    <2> SUFFICES ASSUME Logging, OutputFaithful, [StartupNext]_startupVars
                 PROVE  Logging' /\ OutputFaithful'
      OBVIOUS
    <2>1. OutputNext \/ UNCHANGED outputVars
      BY OnlyTalk
    <2>2. Logging'
      BY <2>1, StepLogging
    <2>3. \A s \in FDType : Accounted(s)'
      BY <1>1, <2>1, <2>2, StepAccounted
    <2> QED
      BY <2>2, <2>3 DEF OutputFaithful, Accounted
  <1> QED
    BY <1>2, <1>3, PTL DEF StartupSpec

=============================================================================
