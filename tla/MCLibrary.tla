------------------------------ MODULE MCLibrary ------------------------------
(***************************************************************************)
(* The C library under the loader, part by part.  A behaviour compresses   *)
(* one block (Lzf), or writes one number and spoils one character of its   *)
(* text (StringLL), or takes a growing text apart (SdsText), or makes      *)
(* calls on a string (Sds), or on a list (Ziplist), or writes commands to  *)
(* sockets (Rio); the other parts stay idle.                               *)
(***************************************************************************)
EXTENDS MCLzf, StringLL, SdsText, Sds, MCZiplist, MCRio

VARIABLES
  num,    \* the number
  room,   \* bytes of the buffer it is written to
  text,   \* what was written; then any text near it; or any text of Alphabet
  stage   \* "write", "written", "spoilt", "grow"; or the part at work

textVars == <<num, room, text, stage>>
vars == <<lzfVars, textVars, sdsVars, zlVars, rioVars>>

\* All but asked, which nothing but ZiplistSeq looks at.
View == <<lzfVars, textVars, sdsVars, zl, rioVars>>

\* Numbers around every power of the radix and every limit of the two types.
Limits == {0, LLMax, ULLMax, Radix * (ULLMax \div Radix)} \cup {Radix ^ k : k \in 0 .. 14}
Numbers == {n \in {sign * (b + d) : sign \in {1, -1}, b \in Limits, d \in -2 .. 2} : n \in LLMin .. LLMax}
\* Texts of numbers that no long long holds.
TooBig == {b + d : b \in Limits, d \in 0 .. 2} \ (0 .. LLMax)

\* NUL, newline, space, quotes, backslash, a hex digit, x, a byte without a character.
Alphabet == {0, 10, 32, Quote, Apostrophe, Backslash, 97, 120, 200}
MaxText == 4
Seps == {<<32>>, <<32, 32>>, <<97, 32>>}

MCBytes == 0 .. 255
MCTexts == {<< >>, <<0>>, <<65, 32>>, <<32, 0, 97>>}
MCSets == {<< >>, <<32>>, <<97, 32>>, <<32, 97>>}
Char(c) == [arg |-> FALSE, text |-> <<c>>]
Arg(t) == [arg |-> TRUE, text |-> t]
MCFormats == {<<Char(97)>>, <<Arg(<< >>), Char(32)>>, <<Char(97), Arg(<<65, 97>>)>>,
              <<Arg(<<32>>), Arg(<<97, 97, 97>>)>>}

TextInit ==
  \/ num = 0 /\ room = 0 /\ text = << >> /\ stage = "grow"
  \/ num \in Numbers /\ room \in {2, 10, 21} /\ text = << >> /\ stage = "write"
  \/ num \in TooBig /\ room = 0 /\ stage = "spoilt"
     /\ \E sign \in {<< >>, <<Minus>>} : text = sign \o sdsull2str(num)

TextIdle == num = 0 /\ room = 0 /\ text = << >>
LzfIdle == in = << >> /\ outLen = 0 /\ ip = 0 /\ out = << >> /\ run = << >> /\ at = "idle" /\ top = 0
SdsIdle == s = sdsnewlen(<< >>) /\ fmt = << >> /\ busy = FALSE /\ op = "new"

\* A list and a set of sockets begin in the one state they idle in.
Init ==
  /\ ZiplistInit /\ RioInit
  /\ \/ stage = "lzf" /\ LzfInit /\ TextIdle /\ SdsIdle
     \/ LzfIdle /\ TextInit /\ SdsIdle
     \/ stage = "sds" /\ LzfIdle /\ TextIdle /\ SdsInit
     \/ stage \in {"ziplist", "rio"} /\ LzfIdle /\ TextIdle /\ SdsIdle

WriteNumber ==
  /\ stage = "write" /\ stage' = "written" /\ text' = ll2string(room, num)
  /\ UNCHANGED <<num, room>>

\* One character changed, removed or added, or the last digits repeated.
Spoil ==
  /\ stage = "written" /\ stage' = "spoilt" /\ UNCHANGED <<num, room>>
  /\ \E i \in 0 .. Len(text), c \in 0 .. Minus + 1 :
       \/ i > 0 /\ text' = ReplaceAt(text, i, c)
       \/ i > 0 /\ text' = RemoveAt(text, i)
       \/ text' = InsertAt(text, i + 1, c)

Grow ==
  /\ stage = "grow" /\ Len(text) < MaxText
  /\ \E c \in Alphabet : text' = Append(text, c)
  /\ UNCHANGED <<num, room, stage>>

Next ==
  \/ stage = "lzf" /\ LzfNext /\ UNCHANGED <<textVars, sdsVars, zlVars, rioVars>>
  \/ (WriteNumber \/ Spoil \/ Grow) /\ UNCHANGED <<lzfVars, sdsVars, zlVars, rioVars>>
  \/ stage = "sds" /\ SdsNext /\ UNCHANGED <<lzfVars, textVars, zlVars, rioVars>>
  \/ stage = "ziplist" /\ ZiplistNext /\ UNCHANGED <<lzfVars, textVars, sdsVars, rioVars>>
  \/ stage = "rio" /\ RioNext /\ UNCHANGED <<lzfVars, textVars, sdsVars, zlVars>>

Spec == Init /\ [][Next]_vars

\* Every long long is written as its digits without a gap (util.c), exactly when the
\* buffer has room for them and a NUL, and the same as sds.c writes it.
Writes ==
  stage = "written" =>
    /\ IsTextOf(sdsll2str(num), num)
    /\ text = IF Len(sdsll2str(num)) < room THEN sdsll2str(num) ELSE << >>

\* string2ll takes exactly the texts that a long long is written as, and no other way
\* to write it: what the loader stores as an integer is read back as it was.
Parses ==
  LET read == string2ll(text)
      value == IF text # << >> /\ text[1] = Minus THEN -ValueOf(Tail(text)) ELSE ValueOf(text)
  IN  stage \in {"written", "spoilt"} =>
        /\ read.ok <=> value \in LLMin .. LLMax /\ IsTextOf(text, value)
        /\ read.ok => read.val = value

\* sdscatrepr "is able to convert back a string into a quoted string in the same format
\* sdssplitargs() is able to parse" (sds.c): any bytes come back as the one argument; so
\* do the arguments of any line that has some.
Quotes ==
  LET quoted(args) == sdsjoin([i \in DOMAIN args |-> sdscatrepr(args[i])], <<32>>)
      parsed == sdssplitargs(text)
  IN  stage = "grow" =>
        /\ sdssplitargs(sdscatrepr(text)) = [ok |-> TRUE, args |-> <<text>>]
        /\ parsed.ok => sdssplitargs(quoted(parsed.args)) = parsed

\* Splitting loses nothing, leaves no separator inside a token, and the array of tokens
\* always has room for the last one.
Splits ==
  \A sep \in Seps :
    LET split == sdssplitlen(text, sep)
    IN  stage = "grow" =>
          /\ sdsjoin(split.tokens, sep) = text
          /\ Len(split.tokens) <= split.slots
          /\ \A i \in DOMAIN split.tokens, k \in 1 .. MaxText :
               LET t == split.tokens[i] IN k + Len(sep) - 1 <= Len(t) => SubSeq(t, k, k + Len(sep) - 1) # sep
===============================================================================
