---------------------------- MODULE ChildOutput ----------------------------
(***************************************************************************)
(* From the bytes a child writes to the lines in the log (event_received   *)
(* and handle_child_output of ProcessHandler.cpp): a stream is read in     *)
(* chunks of whatever is there, up to a buffer, and a chunk loses its      *)
(* leading and trailing newlines.                                          *)
(***************************************************************************)
EXTENDS Integers, Sequences, FiniteSetsExt

CONSTANTS
  Characters,  \* what children write, Newline and Nul included
  Newline,     \* '\n'
  Nul,         \* '\0'
  ReadSize,    \* BUF_SIZE: the characters one read returns
  MaxWritten   \* bound: characters written to both streams together

ASSUME ChildOutputAssumption ==
  /\ {Newline, Nul} \subseteq Characters /\ Newline # Nul
  /\ ReadSize \in Nat \ {0}
  /\ MaxWritten \in Nat

VARIABLES
  written,  \* all that was written to a stream
  pipe,     \* the part of it that was not read yet
  log,      \* the entries passed to the child's logger
  reader    \* "running", or "aborted" by an exception

outputVars == <<written, pipe, log, reader>>

FDType == {"STDOUT", "STDERR"}

OutputInit ==
  /\ written = [s \in FDType |-> <<>>]
  /\ pipe = [s \in FDType |-> <<>>]
  /\ log = <<>>
  /\ reader = "running"

-----------------------------------------------------------------------------
(* One chunk.  Positions count from 0, as they do in the code; n is what    *)
(* read returned, -1 if it failed.                                          *)

At(buf, i) == buf[i + 1]

\* std::string(buf): a C string ends at the first NUL.
CString(buf) ==
  LET nuls == {i \in DOMAIN buf : buf[i] = Nul}
  IN IF nuls = {} THEN buf ELSE SubSeq(buf, 1, Min(nuls) - 1)

Skipped_Blank == {Newline, Nul}  \* fault: NULs are skipped as well
SkippedChars == {Newline}

\* The first position that is no newline, n if there is none.
Begin(buf, n) ==
  Min({i \in 0 .. n - 1 : At(buf, i) \notin SkippedChars} \cup {IF n > 0 THEN n ELSE 0})

\* The last one, but the search stops at begin.
End(buf, n) ==
  LET begin == Begin(buf, n)
  IN IF n - 1 <= begin THEN n - 1
     ELSE Max({i \in begin + 1 .. n - 1 : At(buf, i) # Newline} \cup {begin})

\* substr(0, end - begin + 1)
Kept_OffByOne(begin, end) == end - begin + 2  \* fault: one character too many
Kept(begin, end) == end - begin + 1

\* substr(begin) throws if begin is past the end of the C string.
Throws(buf, n) == Begin(buf, n) > Len(CString(buf))

Stripped(buf, n) ==
  LET begin == Begin(buf, n)
      end   == End(buf, n)
      str   == SubSeq(CString(buf), begin + 1, Len(CString(buf)))
  IN IF end < n - 1 /\ end >= begin
       THEN SubSeq(str, 1, Min({Len(str), Kept(begin, end)}))
       ELSE str

\* register_with_epoll notes the type of a descriptor; it selects the level.
Level_Swapped(s) == IF s = "STDERR" THEN "info" ELSE "warn"  \* fault: the types are noted the wrong way round
Level(s) == IF s = "STDOUT" THEN "info" ELSE "warn"

-----------------------------------------------------------------------------

\* The child writes, one character at a time: reads may come in between.
PutChar(s) ==
  /\ Len(written["STDOUT"]) + Len(written["STDERR"]) < MaxWritten
  /\ \E c \in Characters :
       /\ written' = [written EXCEPT ![s] = Append(@, c)]
       /\ pipe' = [pipe EXCEPT ![s] = Append(@, c)]
  /\ UNCHANGED <<log, reader>>

\* The effect of a read that returned n and left buf in the buffer.
Handle(s, buf, n) ==
  IF Throws(buf, n)
    THEN reader' = "aborted" /\ UNCHANGED log
    ELSE /\ LET str == Stripped(buf, n)
            IN log' = IF str = <<>> THEN log ELSE Append(log, [level |-> Level(s), text |-> str])
         /\ UNCHANGED reader

ReadChunk(s) ==
  /\ reader = "running" /\ pipe[s] # <<>>
  /\ LET n == Min({Len(pipe[s]), ReadSize})
     IN /\ Handle(s, SubSeq(pipe[s], 1, n), n)
        /\ pipe' = [pipe EXCEPT ![s] = SubSeq(@, n + 1, Len(@))]
  /\ UNCHANGED written

\* EPOLLIN was reported but read fails, which the code does not check.
ReadFails(s) ==
  /\ reader = "running" /\ pipe[s] # <<>>
  /\ Handle(s, <<>>, -1)
  /\ UNCHANGED <<written, pipe>>

OutputNext == \E s \in FDType : PutChar(s) \/ ReadChunk(s) \/ ReadFails(s)

=============================================================================
