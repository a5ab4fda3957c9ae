----------------------------- MODULE LzfDecompress -----------------------------
(***************************************************************************)
(* lzf_d.c, and what the compressor's output is worth: a block is expanded *)
(* in one call, which reads every control byte of it in turn.              *)
(***************************************************************************)
EXTENDS Lzf

\* Back references may overlap what they produce.
RECURSIVE CopyBack(_, _, _)
CopyBack(o, ref, n) == IF n = 0 THEN o ELSE CopyBack(Append(o, o[ref]), ref + 1, n - 1)

BackRef(b, i) ==   \* [len, off, next]
  LET long == b[i] \div MaxLit = LongLen
      next == IF long THEN i + 2 ELSE i + 1
  IN  [len |-> b[i] \div MaxLit + (IF long THEN b[i + 1] ELSE 0) + 2,
       off |-> (b[i] % MaxLit) * Base + b[next] + 1,
       next |-> next + 1]

RECURSIVE Expand(_, _, _, _)
Expand(b, i, o, outMax) ==
  IF i > Len(b) THEN o
  ELSE IF b[i] < MaxLit
  THEN IF Len(o) + b[i] + 1 > outMax \/ i + b[i] + 1 > Len(b) THEN << >>
       ELSE Expand(b, i + b[i] + 2, o \o SubSeq(b, i + 1, i + b[i] + 1), outMax)
  ELSE IF i + 1 > Len(b) \/ (b[i] \div MaxLit = LongLen /\ i + 2 > Len(b)) THEN << >>
  ELSE LET r == BackRef(b, i) IN
       IF Len(o) + r.len > outMax \/ r.off > Len(o) THEN << >>
       ELSE Expand(b, r.next, CopyBack(o, Len(o) + 1 - r.off, r.len), outMax)

\* lzf_decompress: what becomes of a block in a buffer of outMax bytes; << >> when it is
\* refused.
Decompress(b, outMax) == Expand(b, 1, << >>, outMax)

-------------------------------------------------------------------------------
(* Properties                                                              *)

\* Whatever the uncleared table held, what has been written so far expands to what
\* has been read so far, in a buffer of just that size.
Expands == at # "failed" => Decompress(Closed, ip) = SubSeq(in, 1, ip)
===============================================================================
