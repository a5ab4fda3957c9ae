---------------------------------- MODULE Lzf ----------------------------------
(***************************************************************************)
(* lzf_c.c.  The compressor looks for earlier bytes like the next ones in  *)
(* a table indexed by a hash of three bytes, which nobody clears           *)
(* (INIT_HTAB is 0): what a slot holds is any place of the input, or none  *)
(* of it.  One step of the loop is one step here.                          *)
(*                                                                         *)
(* Bytes have Base values (256 in the code); a control byte holds the      *)
(* length of a run of literals, or a length of three bits and the high     *)
(* bits of an offset: Base = (LongLen + 1) * MaxLit.                       *)
(***************************************************************************)
EXTENDS Integers, Sequences

CONSTANTS
  MaxLit,    \* MAX_LIT, 32
  LongLen,   \* a back reference of this length has a byte for more, 7
  Unroll,    \* comparisons of the unrolled loop, 16
  Inputs,    \* blocks to compress
  OutLens    \* sizes of the output buffer

Base == (LongLen + 1) * MaxLit
MAX_OFF == MaxLit * Base
MAX_REF == Base + LongLen + 1

ASSUME LzfAssumption ==
  /\ MaxLit \in Nat \ {0, 1} /\ LongLen \in Nat \ {0} /\ Unroll \in Nat
  /\ Unroll + 2 < Base
  /\ Inputs \subseteq Seq(0 .. Base - 1)
  /\ OutLens \subseteq Nat

VARIABLES
  in,       \* the block
  outLen,   \* out_len
  ip,       \* bytes read
  out,      \* finished part of the output
  run,      \* literals of the run that is open; its control byte is reserved
  at,       \* "compress", "tail" (the last bytes), "done", "failed" (returned 0)
  top       \* history: bytes of the output buffer up to the last one ever written

lzfVars == <<in, outLen, ip, out, run, at, top>>

\* The output with the open run stopped, or undone when it is empty.
Closed == IF run = << >> THEN out ELSE out \o <<Len(run) - 1>> \o run

\* op, as an index behind what is written or reserved.
Op == Len(out) + 1 + Len(run)

\* Up to n bytes of the buffer are written.
Written(n) == top' = IF n > top THEN n ELSE top

-------------------------------------------------------------------------------
(* lzf_compress                                                            *)

LzfInit ==
  /\ in \in Inputs /\ outLen \in OutLens
  /\ ip = 0 /\ out = << >> /\ run = << >> /\ top = 0
  /\ at = IF Len(in) = 0 \/ outLen = 0 THEN "failed" ELSE "compress"

\* Mutant: two equal bytes are a match.
MatchesTwo(ref) ==
  /\ ref \in 2 .. ip /\ ip - ref < MAX_OFF /\ ip + 4 < Len(in)
  /\ \A k \in 0 .. 1 : in[ref + k] = in[ip + 1 + k]

\* What is behind the slot is used only if it is not the first byte, not too far
\* back, and its three bytes are the next three.
Matches(ref) ==
  /\ ref \in 2 .. ip /\ ip - ref < MAX_OFF /\ ip + 4 < Len(in)
  /\ \A k \in 0 .. 2 : in[ref + k] = in[ip + 1 + k]

\* How many bytes are the same: at most maxlen, but one unrolled round is compared to
\* its end.
MatchLen(ref) ==
  LET left == Len(in) - ip - 2
      maxlen == IF left > MAX_REF THEN MAX_REF ELSE left
      stops(len) == \/ len >= maxlen /\ (maxlen <= Unroll \/ len > Unroll + 2)
                    \/ in[ref + len] # in[ip + 1 + len]
  IN  CHOOSE len \in 3 .. Len(in) : stops(len) /\ \A k \in 3 .. len - 1 : ~stops(k)

Reference(ref, len) ==
  LET off == ip - ref IN
  IF len < LongLen THEN <<off \div Base + len * MaxLit, off % Base>>
  ELSE <<off \div Base + LongLen * MaxLit, len - LongLen, off % Base>>

\* The open run is stopped, or undone: its control byte is written before the end of the
\* buffer is looked at.
Refer(ref) ==
  LET len == MatchLen(ref) IN
  /\ at = "compress" /\ ip < Len(in) - 2 /\ Matches(ref)
  /\ UNCHANGED <<in, outLen>>
  /\ IF Len(Closed) + 4 >= outLen
     THEN at' = "failed" /\ Written(Len(out) + 1) /\ UNCHANGED <<ip, out, run>>
     ELSE /\ out' = Closed \o Reference(ref, len - 2)
          /\ Written(Len(out'))
          /\ run' = << >>
          /\ ip' = ip + len
          /\ UNCHANGED at

AddLiteral ==
  /\ ip' = ip + 1
  /\ Written(Op + 1)
  /\ LET longer == Append(run, in[ip + 1]) IN
     IF Len(longer) = MaxLit
     THEN out' = out \o <<MaxLit - 1>> \o longer /\ run' = << >>
     ELSE run' = longer /\ UNCHANGED out

\* Mutant: the output is filled up to one byte more.
LiteralOneMore ==
  /\ at = "compress" /\ ip < Len(in) - 2
  /\ UNCHANGED <<in, outLen>>
  /\ IF Op > outLen THEN at' = "failed" /\ UNCHANGED <<ip, out, run, top>>
     ELSE AddLiteral /\ UNCHANGED at

\* No match: the slot held something else.
Literal ==
  /\ at = "compress" /\ ip < Len(in) - 2
  /\ UNCHANGED <<in, outLen>>
  /\ IF Op >= outLen THEN at' = "failed" /\ UNCHANGED <<ip, out, run, top>>
     ELSE AddLiteral /\ UNCHANGED at

\* The loop ends: at most three bytes are missing.
EndLoop ==
  /\ at = "compress" /\ ip >= Len(in) - 2
  /\ at' = IF Op + 3 > outLen THEN "failed" ELSE "tail"
  /\ UNCHANGED <<in, outLen, ip, out, run, top>>

\* The last bytes are literals.
Finish ==
  /\ at = "tail" /\ UNCHANGED <<in, outLen>>
  /\ IF ip < Len(in) THEN AddLiteral /\ UNCHANGED at
     ELSE /\ out' = Closed /\ run' = << >> /\ at' = "done" /\ UNCHANGED ip
          /\ Written(Len(out) + 1)

LzfNext ==
  \/ \E ref \in 1 .. Len(in) : Refer(ref)
  \/ Literal
  \/ EndLoop
  \/ Finish

LzfSpec == LzfInit /\ [][LzfNext]_lzfVars

-------------------------------------------------------------------------------
(* Properties                                                              *)

\* A compression that succeeds, or still may, has written nothing behind the buffer, at no
\* moment: the last bytes, references and control bytes included, none of which is looked
\* at one by one.
Fits == at # "failed" => top <= outLen

\* lzf_compress writes "to out_data, up to a maximum length of out_len bytes" (lzf.h),
\* also when it is to fail: a control byte reserved behind a run that fills the buffer
\* must not be written.
StaysInBuffer == top <= outLen
===============================================================================
