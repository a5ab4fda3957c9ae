------------------------------- MODULE RespParser -------------------------------
(***************************************************************************)
(* redis.erl: redis:parse/1 on bytes, clause by clause.                    *)
(***************************************************************************)
EXTENDS RespBytes, Sequences, SequencesExt

to_lower(bin) == [i \in DOMAIN bin |-> IF bin[i] >= UpperFrom THEN bin[i] - UpperFrom + LowerFrom ELSE bin[i]]

\* list_to_integer/1, for texts it takes.
IsNumber(bin) ==
  LET digits == IF bin # << >> /\ bin[1] = Hyphen THEN Tail(bin) ELSE bin
  IN  digits # << >> /\ \A i \in DOMAIN digits : digits[i] \in 0 .. 9
b2i(bin) ==
  LET value(digits) == FoldLeft(LAMBDA v, c : v * 10 + c, 0, digits)
  IN  IF bin[1] = Hyphen THEN -value(Tail(bin)) ELSE value(bin)

\* Mutant: the head goes up to the last CRLF.
HeadEndLast(bin) ==
  LET ends == {i \in 1 .. Len(bin) - 1 : bin[i] = CR /\ bin[i + 1] = LF}
  IN  IF ends = {} THEN 0 ELSE CHOOSE i \in ends : \A k \in ends : k <= i

\* parse_head: the place of the first CRLF, 0 for {error, empty_stream}.
HeadEnd(bin) ==
  LET ends == {i \in 1 .. Len(bin) - 1 : bin[i] = CR /\ bin[i + 1] = LF}
  IN  IF ends = {} THEN 0 ELSE CHOOSE i \in ends : \A k \in ends : i <= k

\* What the parser comes back with: "ok", "rest" ({ok, <<>>, Acc}), "error", or "crash",
\* a badmatch or badarg that ends its caller.
Ok(cmds) == [res |-> "ok", cmds |-> cmds]
Rest(acc) == [res |-> "rest", cmds |-> Reverse(acc)]
Error == [res |-> "error", cmds |-> << >>]
Crash == [res |-> "crash", cmds |-> << >>]

\* parse_head and b2i, for a number after "*" or "$": found(n, what follows) when it is there.
Numbered(bin, found(_, _)) ==
  LET end == HeadEnd(bin)
      head == SubSeq(bin, 1, end - 1)
  IN  IF end = 0 THEN Error
      ELSE IF ~IsNumber(head) THEN Crash
      ELSE found(b2i(head), SubSeq(bin, end + 2, Len(bin)))

RECURSIVE parse_multibulk(_, _), parse_bulk(_, _, _, _)

parse_multibulk(bin, acc) ==
  IF bin = << >> THEN Rest(acc)
  ELSE IF bin[1] \in {LF, CR} THEN parse_multibulk(Tail(bin), acc)
  ELSE IF bin[1] # Star THEN Error
  ELSE Numbered(Tail(bin), LAMBDA n, rest : parse_bulk(rest, n, << >>, acc))

\* args: the strings of the command so far; the next one is taken whatever the
\* command's length says.
parse_bulk(bin, cmdLen, args, acc) ==
  IF bin # << >> /\ bin[1] = Dollar
  THEN Numbered(Tail(bin), LAMBDA size, rest :
         IF Len(rest) <= size THEN Error
         ELSE IF size < 0 \/ Len(rest) = size + 1 THEN Crash
         ELSE IF SubSeq(rest, size + 1, size + 2) # <<CR, LF>> THEN Crash
         ELSE parse_bulk(SubSeq(rest, size + 3, Len(rest)), cmdLen - 1,
                         Append(args, SubSeq(rest, 1, size)), acc))
  ELSE IF cmdLen # 0 THEN Error
  ELSE IF args = << >> THEN Crash
  ELSE LET cmds == Append(acc, <<to_lower(args[1])>> \o Tail(args))
       IN  IF bin = << >> THEN Ok(cmds) ELSE parse_multibulk(bin, cmds)

parse(bin) == parse_multibulk(bin, << >>)
===============================================================================
