--------------------------------- MODULE MCRio ---------------------------------
(***************************************************************************)
(* What rio.c writes, as redis.erl reads it at the other end of each       *)
(* socket, cut where the writing stopped.                                  *)
(***************************************************************************)
EXTENDS Rio, RespParser

Decimal == INSTANCE StringLL WITH Radix <- 10, LLMax <- LongMax
MCLongText(n) == Decimal!ll2string(32, n)

BulkString(str) == [int |-> FALSE, str |-> str, num |-> 0]
BulkLongLong(n) == [int |-> TRUE, str |-> << >>, num |-> n]

\* A name in upper case; alone, with an empty argument and a negative number, with line
\* ends and the protocol's own signs inside and a size of two digits.
MCCmds ==
  LET name == BulkString(<<UpperFrom, LowerFrom>>) IN
  {<<name>>, <<name, BulkString(<< >>), BulkLongLong(-12), BulkString(<<Dollar>>)>>,
   <<name, BulkString(<<CR, LF, Star, 1, CR, LF, Dollar, 0, CR, LF>>)>>}

\* A command as the callback should get it.
Expected(cmd) ==
  LET arg(a) == IF a.int THEN LongText(a.num) ELSE a.str
  IN  [i \in DOMAIN cmd |-> IF i = 1 THEN to_lower(arg(cmd[1])) ELSE arg(cmd[i])]

\* The parser takes what it has got exactly when that ends where a command ends, and
\* gives exactly the commands up to there; what is inside their strings never misleads it.
ParsesWhole ==
  \A j \in Fds :
    LET got == fds[j].got
        read == parse(got)
        whole == {k \in DOMAIN ends : ends[k] = Len(got)}
    IN  /\ read.res = "ok" <=> whole # {}
        /\ \A k \in whole : read.cmds = [i \in 1 .. k |-> Expected(cmds[i])]
===============================================================================
