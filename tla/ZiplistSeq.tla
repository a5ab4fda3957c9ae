------------------------------ MODULE ZiplistSeq ------------------------------
(***************************************************************************)
(* What a ziplist promises: a sequence of elements, and what each call     *)
(* makes of it.  Ziplist implements it.                                    *)
(***************************************************************************)
EXTENDS Integers, Sequences, SequencesExt

CONSTANTS Elements, MaxEntries, Counts

VARIABLES
  elems,
  asked    \* the call that was made last, with its arguments

SeqInit == elems = << >> /\ asked = [call |-> "new"]

Calls ==
  [call : {"push"}, elem : Elements, where : {"head", "tail"}]
    \cup [call : {"insert"}, elem : Elements, at : DOMAIN elems]
    \cup [call : {"delete"}, at : DOMAIN elems]
    \cup [call : {"range"}, index : -MaxEntries .. MaxEntries, num : Counts]
    \cup [call : {"len"}]

\* s without n elements from the i-th on, as far as there are any.
Without(s, i, n) ==
  IF i \in DOMAIN s THEN SubSeq(s, 1, i - 1) \o SubSeq(s, i + n, Len(s)) ELSE s

\* What call c makes of s.  An index counts from 0, a negative one from the end, where the
\* last element has -1.
After(s, c) ==
  CASE c.call = "push" -> IF c.where = "head" THEN <<c.elem>> \o s ELSE Append(s, c.elem)
    [] c.call = "insert" -> InsertAt(s, c.at, c.elem)
    [] c.call = "delete" -> RemoveAt(s, c.at)
    [] c.call = "range" -> Without(s, (IF c.index >= 0 THEN 0 ELSE Len(s)) + c.index + 1, c.num)
    [] c.call = "len" -> s

SeqNext == asked'.call # "new" /\ asked' \in Calls /\ elems' = After(elems, asked')

SeqSpec == SeqInit /\ [][SeqNext]_<<elems, asked>>
===============================================================================
