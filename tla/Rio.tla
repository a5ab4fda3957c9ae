----------------------------------- MODULE Rio -----------------------------------
(***************************************************************************)
(* rio.c: commands written to several sockets at once.  The rioWriteBulk   *)
(* functions make the bytes of a command, rioWrite hands them to           *)
(* rioFdsetWrite, which collects them and, when there are enough of them   *)
(* or it is told to, writes them out in chunks, each to every socket that  *)
(* has not failed yet.                                                     *)
(***************************************************************************)
EXTENDS RespBytes, Sequences, SequencesExt

CONSTANTS
  NumFds,        \* numfds
  IOBufLen,      \* REDIS_IOBUF_LEN
  Chunk,         \* 1024 in rioFdsetWrite
  Cmds,          \* commands: sequences of strings and numbers to write
  MaxCmds,       \* bound
  LongMax,       \* LLONG_MAX
  LongText(_)    \* what ll2string writes of a number

Longs == -LongMax - 1 .. LongMax
Argument == [int : BOOLEAN, str : Seq(Int), num : Longs]

ASSUME RioAssumption ==
  /\ NumFds \in Nat \ {0} /\ IOBufLen \in Nat /\ Chunk \in Nat \ {0} /\ MaxCmds \in Nat
  /\ LongMax \in Nat /\ \A n \in Longs : LongText(n) \in Seq(Int) /\ Len(LongText(n)) < 32
  /\ 32 <= LongMax
  /\ Cmds \subseteq Seq(Argument)
  /\ \A cmd \in Cmds :
       Len(cmd) <= LongMax /\ \A i \in DOMAIN cmd : Len(cmd[i].str) <= LongMax

VARIABLES
  todo,    \* arguments of the calls of rioWrite that are still to come
  buf,     \* fdset.buf
  p,       \* bytes of it already written out, Idle when none are being
  pos,     \* fdset.pos
  fds,     \* per socket: its state is 0 (ok), what the other end got
  ret,     \* the last call returned 1
  cmds,    \* history: the commands written
  ends     \* history: where each of them ends in the stream

rioVars == <<todo, buf, p, pos, fds, ret, cmds, ends>>

Fds == 1 .. NumFds
Idle == -1

\* Each call makes one argument of rioWrite, or three; a string without bytes has none.
rioWriteBulkCount(prefix, count) == <<<<prefix>> \o LongText(count) \o <<CR, LF>>>>
rioWriteBulkString(str) ==
  rioWriteBulkCount(Dollar, Len(str)) \o (IF str = << >> THEN << >> ELSE <<str>>) \o <<<<CR, LF>>>>
rioWriteBulkLongLong(l) == rioWriteBulkString(LongText(l))

ArgCalls(arg) == IF arg.int THEN rioWriteBulkLongLong(arg.num) ELSE rioWriteBulkString(arg.str)
CmdCalls(cmd) ==
  rioWriteBulkCount(Star, Len(cmd)) \o FlattenSeq([i \in DOMAIN cmd |-> ArgCalls(cmd[i])])

Total(seqs) == Len(FlattenSeq(seqs))

-------------------------------------------------------------------------------
RioInit ==
  /\ todo = << >> /\ buf = << >> /\ p = Idle /\ pos = 0
  /\ fds = [j \in Fds |-> [ok |-> TRUE, got |-> << >>]]
  /\ ret = TRUE /\ cmds = << >> /\ ends = << >>

\* The caller writes a command, unless a call failed.
Command(cmd) ==
  /\ todo = << >> /\ p = Idle /\ ret /\ Len(cmds) < MaxCmds
  /\ todo' = CmdCalls(cmd)
  /\ cmds' = Append(cmds, cmd)
  /\ ends' = Append(ends, Total(CmdCalls(cmd)) + IF ends = << >> THEN 0 ELSE Last(ends))
  /\ UNCHANGED <<buf, p, pos, fds, ret>>

\* rioWrite: the bytes are collected; too many of them start a flush.
RioWrite ==
  /\ todo # << >> /\ p = Idle
  /\ buf' = buf \o Head(todo) /\ todo' = Tail(todo)
  /\ p' = IF Len(buf') > IOBufLen THEN 0 ELSE Idle
  /\ UNCHANGED <<pos, fds, ret, cmds, ends>>

\* rioFlush.
Flush ==
  /\ todo = << >> /\ p = Idle /\ ret /\ buf # << >>
  /\ p' = 0 /\ UNCHANGED <<todo, buf, pos, fds, ret, cmds, ends>>

\* Mutant: a socket is given up only if it takes nothing.
TakesSome(fd, bytes, n) ==
  IF fd.ok THEN [ok |-> n # 0, got |-> fd.got \o SubSeq(bytes, 1, n)] ELSE fd

\* A socket takes n bytes before write(2) fails, all of them if it does not; one that
\* failed before is left alone.
Takes(fd, bytes, n) ==
  IF fd.ok THEN [ok |-> n = Len(bytes), got |-> fd.got \o SubSeq(bytes, 1, n)] ELSE fd

\* Mutant: sockets that have failed are not counted.
AllBrokenNever == FALSE

\* Every socket had failed before this chunk.
AllBroken == \A j \in Fds : ~fds[j].ok

\* One round of the loop.  The call gives up when it finds that all are broken, so not
\* for those that break in this round.
WriteChunk ==
  /\ p # Idle /\ p < Len(buf)
  /\ LET count == IF Len(buf) - p < Chunk THEN Len(buf) - p ELSE Chunk
         bytes == SubSeq(buf, p + 1, p + count)
     IN  \E n \in [Fds -> 0 .. count] :
           /\ \A j \in Fds : ~fds[j].ok => n[j] = 0
           /\ fds' = [j \in Fds |-> Takes(fds[j], bytes, n[j])]
           /\ IF AllBroken
              THEN ret' = FALSE /\ p' = Idle /\ todo' = << >> /\ UNCHANGED pos
              ELSE p' = p + count /\ pos' = pos + count /\ UNCHANGED <<ret, todo>>
  /\ UNCHANGED <<buf, cmds, ends>>

\* Everything is written: sdsclear, and 1 is returned.
FlushDone ==
  /\ p = Len(buf)
  /\ buf' = << >> /\ p' = Idle
  /\ UNCHANGED <<todo, pos, fds, ret, cmds, ends>>

RioNext ==
  \/ \E cmd \in Cmds : Command(cmd)
  \/ RioWrite \/ Flush \/ WriteChunk \/ FlushDone

RioSpec == RioInit /\ [][RioNext]_rioVars

-------------------------------------------------------------------------------
(* Properties                                                              *)

Stream == FlattenSeq([i \in DOMAIN cmds |-> FlattenSeq(CmdCalls(cmds[i]))])

\* What the sockets get: those that work have got everything up to pos, those that
\* failed a beginning of it and nothing after a gap; and behind pos nothing is missing.
Delivered ==
  /\ \A j \in Fds : IsPrefix(fds[j].got, Stream) /\ (fds[j].ok => Len(fds[j].got) = pos)
  /\ ret => pos + Len(buf) - (IF p = Idle THEN 0 ELSE p) + Total(todo) = Len(Stream)

\* What rioFdsetWrite counts as written and nobody has got is at most the chunk in which
\* the last socket failed: the next round of the loop finds that all of them have, within
\* the call or at the next one, however many there are and wherever each of them failed.
LossIsOneChunk == \E j \in Fds : Len(fds[j].got) + Chunk >= pos

\* "The function returns success as long as we are able to correctly write to at least one
\* file descriptor" (rioFdsetWrite): after a call that returned 1 some socket has got all
\* that the calls so far have written.
SuccessIsWritten == ret /\ p = Idle => \E j \in Fds : Len(fds[j].got) = pos
===============================================================================
