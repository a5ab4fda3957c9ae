-------------------------------- MODULE SdsText --------------------------------
(***************************************************************************)
(* The functions of sds.c that take texts apart and put them together:     *)
(* quoting, arguments of a line, separators.  A byte is its ASCII code.    *)
(***************************************************************************)
EXTENDS Integers, Sequences, SequencesExt

CONSTANT Slots   \* room of the array sdssplitlen begins with, 5

Quote == 34
Apostrophe == 39
Backslash == 92

\* The byte at place k of a C string.
At(line, k) == IF k <= Len(line) THEN line[k] ELSE 0

isprint(c) == c \in 32 .. 126
isspace(c) == c = 32 \/ c \in 9 .. 13

\* \n \r \t \a \b: the byte, and the letter behind the backslash.
Escapes == {<<10, 110>>, <<13, 114>>, <<9, 116>>, <<7, 97>>, <<8, 98>>}

HexDigit(v) == IF v < 10 THEN 48 + v ELSE 87 + v
is_hex_digit(c) == c \in 48 .. 57 \/ c \in 97 .. 102 \/ c \in 65 .. 70
hex_digit_to_int(c) == IF c <= 57 THEN c - 48 ELSE IF c >= 97 THEN c - 87 ELSE c - 55

-------------------------------------------------------------------------------
\* Mutant: a quote inside is left as it is.
ReprOfPlain(c) ==
  IF \E e \in Escapes : e[1] = c THEN <<Backslash, (CHOOSE e \in Escapes : e[1] = c)[2]>>
  ELSE IF c = Backslash THEN <<Backslash, c>>
  ELSE IF isprint(c) THEN <<c>>
  ELSE <<Backslash, 120, HexDigit(c \div 16), HexDigit(c % 16)>>

\* One byte as sdscatrepr writes it.
ReprOf(c) ==
  IF \E e \in Escapes : e[1] = c THEN <<Backslash, (CHOOSE e \in Escapes : e[1] = c)[2]>>
  ELSE IF c \in {Backslash, Quote} THEN <<Backslash, c>>
  ELSE IF isprint(c) THEN <<c>>
  ELSE <<Backslash, 120, HexDigit(c \div 16), HexDigit(c % 16)>>

sdscatrepr(p) == <<Quote>> \o FlattenSeq([i \in DOMAIN p |-> ReprOf(p[i])]) \o <<Quote>>

Unescape(c) == IF \E e \in Escapes : e[2] = c THEN (CHOOSE e \in Escapes : e[2] = c)[1] ELSE c

Failed == [ok |-> FALSE, args |-> << >>]

\* sdssplitargs from place p of the line; in: "blank" between two arguments, "bare",
\* "inq" and "insq" inside one; current: its bytes so far.
RECURSIVE SplitFrom(_, _, _, _, _)
SplitFrom(line, p, in, current, args) ==
  LET c == At(line, p)
      next == At(line, p + 1)
      on(n, mode, more) == SplitFrom(line, p + n, mode, current \o more, args)
      done(n) == SplitFrom(line, p + n, "blank", << >>, Append(args, current))
      closing == IF next # 0 /\ ~isspace(next) THEN Failed ELSE done(1)
  IN  CASE in = "blank" -> IF c = 0 THEN [ok |-> TRUE, args |-> args]
                           ELSE IF isspace(c) THEN on(1, "blank", << >>)
                           ELSE on(0, "bare", << >>)
        [] in = "inq" ->
             IF c = Backslash /\ next = 120 /\ is_hex_digit(At(line, p + 2)) /\ is_hex_digit(At(line, p + 3))
             THEN on(4, in, <<16 * hex_digit_to_int(line[p + 2]) + hex_digit_to_int(line[p + 3])>>)
             ELSE IF c = Backslash /\ next # 0 THEN on(2, in, <<Unescape(next)>>)
             ELSE IF c = Quote THEN closing
             ELSE IF c = 0 THEN Failed ELSE on(1, in, <<c>>)
        [] in = "insq" ->
             IF c = Backslash /\ next = Apostrophe THEN on(2, in, <<Apostrophe>>)
             ELSE IF c = Apostrophe THEN closing
             ELSE IF c = 0 THEN Failed ELSE on(1, in, <<c>>)
        [] in = "bare" ->
             IF c \in {0, 9, 10, 13, 32} THEN done(IF c = 0 THEN 0 ELSE 1)
             ELSE IF c = Quote THEN on(1, "inq", << >>)
             ELSE IF c = Apostrophe THEN on(1, "insq", << >>)
             ELSE on(1, in, <<c>>)

sdssplitargs(line) == SplitFrom(line, 1, "blank", << >>, << >>)

-------------------------------------------------------------------------------
\* Mutant: the search goes on inside the separator.
StepOverOne(j, sep) == j + 1

\* Where the search goes on behind a separator at j.
StepOver(j, sep) == j + Len(sep)

\* sdssplitlen from place j, the current token beginning at start; slots: the array's size.
RECURSIVE SplitAt(_, _, _, _, _, _)
SplitAt(s, sep, j, start, tokens, slots) ==
  LET room == IF slots < Len(tokens) + 2 THEN 2 * slots ELSE slots
  IN  IF j + Len(sep) - 1 > Len(s)
      THEN [tokens |-> Append(tokens, SubSeq(s, start, Len(s))), slots |-> slots]
      ELSE IF SubSeq(s, j, j + Len(sep) - 1) = sep
      THEN SplitAt(s, sep, StepOver(j, sep), j + Len(sep), Append(tokens, SubSeq(s, start, j - 1)), room)
      ELSE SplitAt(s, sep, j + 1, start, tokens, room)

\* A text without bytes has no tokens.
sdssplitlen(s, sep) ==
  IF s = << >> THEN [tokens |-> << >>, slots |-> Slots] ELSE SplitAt(s, sep, 1, 1, << >>, Slots)

\* Arguments and separator are C strings.
sdsjoin(argv, sep) ==
  FlattenSeq([i \in DOMAIN argv |-> argv[i] \o (IF i = Len(argv) THEN << >> ELSE sep)])
===============================================================================
