------------------------------- MODULE LzfProofs -------------------------------
(***************************************************************************)
(* What lzf_compress writes, for every block, every size of the buffer and *)
(* every content of the uncleared table: it stays in the buffer, and every *)
(* number in it is a byte.                                                 *)
(***************************************************************************)
EXTENDS Lzf, WellFoundedInduction, TLAPS

Byte == 0 .. Base - 1

LEMMA Sizes ==
    /\ MaxLit \in Nat /\ MaxLit > 1 /\ LongLen \in Nat /\ LongLen > 0 /\ Unroll \in Nat
    /\ Base \in Nat /\ MAX_OFF \in Nat /\ MAX_REF \in Nat
    /\ MaxLit <= Base /\ Unroll + 2 < Base /\ MAX_REF = Base + LongLen + 1
    /\ Base = LongLen * MaxLit + MaxLit /\ MAX_OFF = MaxLit * Base
    /\ LongLen * MaxLit \in Nat
<1>1. /\ MaxLit \in Nat /\ MaxLit > 1 /\ LongLen \in Nat /\ LongLen > 0 /\ Unroll \in Nat
      /\ Unroll + 2 < Base
  BY LzfAssumption
<1>2. LongLen * MaxLit \in Nat
  BY <1>1
<1>3. Base = LongLen * MaxLit + MaxLit
  BY <1>1 DEF Base
<1>4. Base \in Nat /\ MaxLit <= Base
  BY <1>1, <1>2, <1>3
<1>5. MAX_OFF \in Nat
  BY <1>1, <1>4 DEF MAX_OFF
<1> QED BY <1>1, <1>2, <1>3, <1>4, <1>5 DEF MAX_OFF, MAX_REF

\* What is below MaxLit is a byte.
LEMMA ShortIsByte ==
    /\ MaxLit \in Nat /\ MaxLit > 0 /\ MaxLit - 1 \in Byte
    /\ \A n \in Nat : n < MaxLit => n \in Byte /\ (n > 0 => n - 1 \in Byte)
<1>1. PICK base \in Nat, lit \in Nat : base = Base /\ lit = MaxLit /\ lit > 0 /\ lit <= base
  BY Sizes
<1>2. Byte = 0 .. base - 1
  BY <1>1 DEF Byte
<1> QED BY <1>1, <1>2

LEMMA LeastNumber ==
    ASSUME NEW S, S \subseteq Nat, S # {}
    PROVE  \E i \in S : \A j \in S : i <= j
<1>1. \E i \in S : \A j \in S : ~(<<j, i>> \in OpToRel(<, Nat))
  BY WFMin, NatLessThanWellFounded, Zenon
<1>2. PICK i \in S : \A j \in S : ~(j < i)
  BY <1>1, Zenon DEF OpToRel
<1> QED BY <1>2

-----------------------------------------------------------------------------
(* Back references                                                          *)

\* How long a match is: at least the three bytes compared first, inside the block although
\* a round of comparisons is not cut short at its end, and not longer than a reference can
\* say.
Long(n) == n \in 3 .. MAX_REF /\ ip + n <= Len(in)

LEMMA MatchIsShort ==
    ASSUME NEW ref, in \in Seq(Byte), ip \in Nat, Matches(ref)
    PROVE  Long(MatchLen(ref))
<1> DEFINE left == Len(in) - ip - 2
<1> DEFINE maxlen == IF left > MAX_REF THEN MAX_REF ELSE left
<1> DEFINE stops(len) == \/ len >= maxlen /\ (maxlen <= Unroll \/ len > Unroll + 2)
                         \/ in[ref + len] # in[ip + 1 + len]
<1> DEFINE last == IF maxlen <= Unroll \/ maxlen > Unroll + 2 THEN maxlen ELSE Unroll + 3
<1> DEFINE Stops == {len \in 3 .. Len(in) : stops(len)}
<1> DEFINE First(len) == stops(len) /\ \A k \in 3 .. len - 1 : ~stops(k)
<1>1. Len(in) \in Nat /\ ip + 4 < Len(in)
  BY DEF Matches
<1>2. left \in Int /\ left >= 3 /\ left = Len(in) - (ip + 2)
  BY <1>1
<1>3. maxlen \in Nat /\ maxlen >= 3 /\ maxlen <= left /\ maxlen <= MAX_REF
  BY <1>2, Sizes
<1>4. last \in 3 .. MAX_REF /\ last >= maxlen /\ (maxlen <= Unroll \/ last > Unroll + 2)
  BY <1>3, Sizes
<1>5. ip + last <= Len(in)
  BY <1>1, <1>2, <1>3, <1>4, Sizes
<1>6. last \in 3 .. Len(in)
  BY <1>1, <1>4, <1>5, Sizes
<1>7. stops(last)
  BY <1>4
<1> HIDE DEF stops, last
<1>8. last \in Stops /\ Stops \subseteq Nat /\ Stops # {}
  BY <1>1, <1>6, <1>7
<1>9. PICK least \in Stops : \A j \in Stops : least <= j
  BY <1>8, LeastNumber
<1>10. least \in 3 .. Len(in) /\ First(least)
  BY <1>1, <1>9
<1>11. MatchLen(ref) = CHOOSE len \in 3 .. Len(in) : First(len)
  BY DEF MatchLen, stops
<1> HIDE DEF First
<1>12. MatchLen(ref) \in 3 .. Len(in) /\ First(MatchLen(ref))
  BY <1>10, <1>11, Zenon
<1>13. MatchLen(ref) <= last
  BY <1>1, <1>6, <1>7, <1>12 DEF First
<1> QED BY <1>1, <1>4, <1>5, <1>6, <1>12, <1>13, Sizes DEF Long

\* The high part of an offset has room beside the length in the control byte.
LEMMA OffsetParts ==
    ASSUME NEW off \in Nat, off < MAX_OFF
    PROVE  off \div Base \in 0 .. MaxLit - 1 /\ off % Base \in Byte
<1>1. PICK base \in Nat, lit \in Nat : base = Base /\ lit = MaxLit /\ base > 0 /\ off < lit * base
  BY Sizes
<1>2. PICK q \in Int, m \in Int : q = off \div base /\ m = off % base
  BY <1>1
<1>3. off = base * q + m /\ m >= 0 /\ m < base
  BY <1>1, <1>2
<1>4. q >= 0
  BY <1>1, <1>2
<1>5. q < lit
  <2>1. SUFFICES ASSUME q >= lit PROVE FALSE
    BY <1>1, <1>2
  <2>2. base * q >= base * lit
    BY <1>1, <1>4, <2>1
  <2> QED BY <1>1, <1>2, <1>3, <2>2
<1> QED BY <1>1, <1>2, <1>3, <1>4, <1>5 DEF Byte

LEMMA ReferenceIsBytes ==
    ASSUME NEW ref \in Nat, ip \in Nat, ref <= ip, ip - ref < MAX_OFF,
           NEW len \in 1 .. MAX_REF - 2
    PROVE  Reference(ref, len) \in Seq(Byte) /\ Len(Reference(ref, len)) <= 3
<1>1. PICK off \in Nat : off = ip - ref /\ off < MAX_OFF
  OBVIOUS
<1>2. PICK q \in 0 .. MaxLit - 1, m \in Byte : q = off \div Base /\ m = off % Base
  BY <1>1, OffsetParts
<1>3. CASE len < LongLen
  <2>1. len * MaxLit <= LongLen * MaxLit - MaxLit /\ len * MaxLit \in Nat
    <3>1. PICK d \in Nat : LongLen = len + 1 + d
      <4>1. LongLen - len - 1 \in Nat /\ LongLen = len + 1 + (LongLen - len - 1)
        BY <1>3, Sizes
      <4> QED BY <4>1
    <3>2. LongLen * MaxLit = len * MaxLit + MaxLit + d * MaxLit
      BY <3>1, Sizes
    <3>3. d * MaxLit \in Nat /\ len * MaxLit \in Nat
      BY <3>1, Sizes
    <3> QED BY <3>2, <3>3, Sizes
  <2>2. q + len * MaxLit \in Byte
    BY <1>2, <2>1, Sizes DEF Byte
  <2>3. Reference(ref, len) = <<q + len * MaxLit, m>>
    BY <1>1, <1>2, <1>3 DEF Reference
  <2> QED BY <1>2, <2>2, <2>3
<1>4. CASE ~(len < LongLen)
  <2>1. q + LongLen * MaxLit \in Byte
    BY <1>2, Sizes DEF Byte
  <2>2. len - LongLen \in Byte
    BY <1>4, Sizes DEF Byte
  <2>3. Reference(ref, len) = <<q + LongLen * MaxLit, len - LongLen, m>>
    BY <1>1, <1>2, <1>4 DEF Reference
  <2> QED BY <1>2, <2>1, <2>2, <2>3
<1> QED BY <1>3, <1>4

-----------------------------------------------------------------------------
(* What is written                                                          *)

\* A run that is open never has a full run's length.
Types ==
  /\ in \in Seq(Byte) /\ outLen \in Nat /\ ip \in 0 .. Len(in)
  /\ out \in Seq(Byte) /\ run \in Seq(Byte) /\ Len(run) < MaxLit
  /\ at \in {"compress", "tail", "done", "failed"} /\ top \in Nat

\* Only the control byte that was reserved last may be behind the buffer.
Overrun == top <= outLen + 1
Reserved == at # "failed" => Op <= outLen + 1

\* The last bytes, two at most, are written without a look at the buffer's end: each takes
\* one byte, and one more for the next control byte when it ends a run, which two literals
\* in a row do not both do.
TailFits ==
  at = "tail" =>
    /\ Op <= outLen
    /\ ip < Len(in) => Op + 1 <= outLen /\ (run # << >> => Op + 2 <= outLen)
    /\ ip + 1 < Len(in) => Op + 3 <= outLen
    /\ Len(in) <= ip + 2

LzfInv == Types /\ Fits /\ Overrun /\ Reserved /\ TailFits

\* Every number of the output is a byte: the parts of a control byte never run over, and
\* what a long reference has beyond LongLen fits its byte.
OnlyBytes == Closed \in Seq(Byte)

LEMMA ClosedIs ==
    Types =>
           /\ Closed \in Seq(Byte) /\ Op \in Nat /\ Op = Len(out) + Len(run) + 1
           /\ Len(out) \in Nat /\ Len(run) \in Nat /\ Len(in) \in Nat
           /\ run = << >> => Len(run) = 0 /\ Len(Closed) = Len(out) /\ Len(Closed) + 1 = Op
           /\ run # << >> => Len(run) > 0 /\ Len(Closed) = Op
<1> SUFFICES ASSUME Types
             PROVE  /\ Closed \in Seq(Byte) /\ Op \in Nat /\ Op = Len(out) + Len(run) + 1
                    /\ Len(out) \in Nat /\ Len(run) \in Nat /\ Len(in) \in Nat
                    /\ run = << >> => Len(run) = 0 /\ Len(Closed) = Len(out) /\ Len(Closed) + 1 = Op
                    /\ run # << >> => Len(run) > 0 /\ Len(Closed) = Op
  OBVIOUS
<1>1. out \in Seq(Byte) /\ run \in Seq(Byte) /\ in \in Seq(Byte) /\ Len(run) < MaxLit
  BY DEF Types
<1>2. Len(out) \in Nat /\ Len(run) \in Nat /\ Len(in) \in Nat
  BY <1>1
<1>3. CASE run = << >>
  BY <1>1, <1>2, <1>3 DEF Closed, Op
<1>4. CASE run # << >>
  <2>1. Len(run) > 0
    BY <1>1, <1>4
  <2>2. Len(run) - 1 \in Byte
    BY <1>1, <1>2, <2>1, ShortIsByte
  <2>3. Closed = out \o <<Len(run) - 1>> \o run
    BY <1>4 DEF Closed
  <2> QED BY <1>1, <1>2, <1>4, <2>1, <2>2, <2>3 DEF Op
<1> QED BY <1>3, <1>4

\* One more literal takes a byte, and a second one when the run is full and the next
\* control byte is reserved.
LEMMA Added ==
    ASSUME Types, ip < Len(in), AddLiteral, UNCHANGED <<in, outLen>>, at' \in {"compress", "tail"}
    PROVE  /\ Types' /\ ip' = ip + 1
           /\ run' # << >> => Op' = Op + 1
           /\ run' = << >> => Op' = Op + 2 /\ run # << >>
           /\ top' = IF Op + 1 > top THEN Op + 1 ELSE top
<1>1. PICK longer \in Seq(Byte) : longer = Append(run, in[ip + 1]) /\ Len(longer) = Len(run) + 1
  <2>1. PICK b \in Byte, r \in Seq(Byte) : b = in[ip + 1] /\ r = run
    BY DEF Types
  <2>2. Append(r, b) \in Seq(Byte) /\ Len(Append(r, b)) = Len(r) + 1
    BY <2>1
  <2> QED BY <2>1, <2>2
<1>2. /\ out \in Seq(Byte) /\ run \in Seq(Byte) /\ Len(run) < MaxLit /\ Len(run) \in Nat
      /\ Len(out) \in Nat /\ ip + 1 \in 0 .. Len(in) /\ ip' = ip + 1
  BY DEF Types, AddLiteral
<1>5. Op \in Nat /\ top \in Nat /\ top' = (IF Op + 1 > top THEN Op + 1 ELSE top) /\ top' \in Nat
  <2>1. Op \in Nat /\ top \in Nat
    BY ClosedIs DEF Types
  <2> QED BY <2>1 DEF AddLiteral, Written
<1>3. CASE Len(longer) = MaxLit
  <2>1. out' = out \o <<MaxLit - 1>> \o longer /\ run' = << >>
    BY <1>1, <1>3 DEF AddLiteral
  <2>2. MaxLit - 1 \in Byte
    BY ShortIsByte
  <2>3. out' \in Seq(Byte) /\ Len(out') = Len(out) + 1 + Len(run) + 1
    BY <1>1, <1>2, <2>1, <2>2
  <2>4. run' \in Seq(Byte) /\ Len(run') = 0
    BY <2>1
  <2>5. Types' /\ run # << >>
    BY <1>1, <1>2, <1>3, <1>5, <2>3, <2>4, ShortIsByte, Sizes DEF Types
  <2>6. Op = Len(out) + Len(run) + 1 /\ Op' = Len(out') + Len(run') + 1
    BY <1>2, <2>3, <2>4 DEF Op
  <2> QED BY <1>1, <1>2, <1>5, <2>1, <2>3, <2>4, <2>5, <2>6
<1>4. CASE Len(longer) # MaxLit
  <2>1. run' = longer /\ out' = out
    BY <1>1, <1>4 DEF AddLiteral
  <2>2. run' # << >> /\ Len(run') < MaxLit
    BY <1>1, <1>2, <1>4, <2>1, Sizes
  <2>3. Types'
    BY <1>1, <1>2, <1>5, <2>1, <2>2 DEF Types
  <2> QED BY <1>1, <1>2, <1>5, <2>1, <2>2, <2>3 DEF Op
<1> QED BY <1>3, <1>4

LEMMA InitInv == LzfInit => LzfInv
<1> SUFFICES ASSUME LzfInit PROVE LzfInv
  OBVIOUS
<1>1. in \in Seq(Byte) /\ outLen \in Nat
  BY LzfAssumption DEF LzfInit, Byte
<1>2. Types
  BY <1>1, Sizes DEF LzfInit, Types
<1>3. Len(out) = 0 /\ run = << >> /\ Len(run) = 0 /\ top = 0
  BY DEF LzfInit
<1>4. Fits /\ Overrun /\ Reserved /\ TailFits
  BY <1>1, <1>2, <1>3, ClosedIs DEF LzfInit, Fits, Overrun, Reserved, TailFits
<1> QED BY <1>2, <1>4 DEF LzfInv

LEMMA ReferInv ==
    ASSUME LzfInv, NEW ref \in 1 .. Len(in), Refer(ref)
    PROVE  LzfInv'
<1>1. /\ Types /\ Fits /\ Overrun /\ Reserved /\ at = "compress" /\ Matches(ref)
      /\ UNCHANGED <<in, outLen>>
  BY DEF LzfInv, Refer
<1>2. in \in Seq(Byte) /\ ip \in Nat /\ Len(in) \in Nat /\ ref \in Nat
  BY <1>1 DEF Types
<1>3. PICK len : len = MatchLen(ref) /\ Long(len)
  BY <1>1, <1>2, MatchIsShort
<1>4. CASE Len(Closed) + 4 >= outLen
  <2>1. at' = "failed" /\ Written(Len(out) + 1) /\ UNCHANGED <<ip, out, run>>
    BY <1>4 DEF Refer
  <2>2. /\ Len(out) \in Nat /\ Len(run) \in Nat /\ outLen \in Nat /\ top \in Nat
        /\ Op = Len(out) + Len(run) + 1
    BY <1>1, ClosedIs DEF Types
  <2>3. Len(out) + 1 <= outLen + 1
    BY <1>1, <2>2 DEF Reserved
  <2>4. top' \in Nat /\ top' <= outLen + 1
    BY <1>1, <2>1, <2>2, <2>3 DEF Written, Overrun
  <2>5. Types'
    BY <1>1, <2>1, <2>4 DEF Types
  <2> QED BY <1>1, <2>1, <2>4, <2>5 DEF LzfInv, Fits, Overrun, Reserved, TailFits
<1>5. CASE ~(Len(Closed) + 4 >= outLen)
  <2>1. /\ out' = Closed \o Reference(ref, len - 2) /\ run' = << >> /\ ip' = ip + len /\ at' = at
        /\ Written(Len(out'))
    BY <1>3, <1>5 DEF Refer
  <2>2. len - 2 \in 1 .. MAX_REF - 2
    BY <1>3, Sizes DEF Long
  <2>3. PICK r \in Seq(Byte) : r = Reference(ref, len - 2) /\ Len(r) <= 3
    <3>1. ref <= ip /\ ip - ref < MAX_OFF
      BY <1>1 DEF Matches
    <3> QED BY <1>2, <2>2, <3>1, ReferenceIsBytes
  <2>4. PICK c \in Seq(Byte) : c = Closed /\ Len(c) + 4 < outLen
    <3>1. Closed \in Seq(Byte) /\ outLen \in Nat
      BY <1>1, ClosedIs DEF Types
    <3> QED BY <1>5, <3>1
  <2>5. out' = c \o r
    BY <2>1, <2>3, <2>4
  <2>6. out' \in Seq(Byte) /\ Len(out') = Len(c) + Len(r) /\ Len(c) \in Nat /\ Len(r) \in Nat
    BY <2>5
  <2>7. ip' \in 0 .. Len(in)
    BY <1>2, <1>3, <2>1 DEF Long
  <2>8. outLen \in Nat /\ top \in Nat /\ Len(out') \in Nat /\ Len(out') < outLen
    BY <1>1, <2>3, <2>4, <2>6 DEF Types
  <2>9. top' \in Nat /\ top' <= outLen
    BY <1>1, <2>1, <2>8 DEF Written, Fits
  <2>10. Types'
    BY <1>1, <2>1, <2>6, <2>7, <2>9, Sizes DEF Types
  <2>11. Len(run') = 0
    BY <2>1
  <2>12. Op' <= outLen + 1
    BY <2>8, <2>11 DEF Op
  <2> QED BY <1>1, <2>1, <2>8, <2>9, <2>10, <2>12 DEF LzfInv, Fits, Overrun, Reserved, TailFits
<1> QED BY <1>4, <1>5

LEMMA LiteralInv ==
    ASSUME LzfInv, Literal
    PROVE  LzfInv'
<1>1. /\ Types /\ Fits /\ Overrun /\ at = "compress" /\ ip < Len(in) - 2
      /\ UNCHANGED <<in, outLen>>
  BY DEF LzfInv, Literal
<1>2. ip \in Nat /\ Len(in) \in Nat /\ outLen \in Nat /\ Op \in Nat /\ top \in Nat
  BY <1>1, ClosedIs DEF Types
<1>3. CASE Op >= outLen
  <2>1. at' = "failed" /\ UNCHANGED <<ip, out, run, top>>
    BY <1>3 DEF Literal
  <2> QED BY <1>1, <2>1 DEF LzfInv, Types, Fits, Overrun, Reserved, TailFits
<1>4. CASE ~(Op >= outLen)
  <2>1. AddLiteral /\ at' = at
    BY <1>4 DEF Literal
  <2>2. /\ Types' /\ top' = IF Op + 1 > top THEN Op + 1 ELSE top
        /\ run' # << >> => Op' = Op + 1
        /\ run' = << >> => Op' = Op + 2
    BY <1>1, <1>2, <2>1, Added
  <2>3. top' <= outLen /\ Op' <= outLen + 1
    BY <1>1, <1>2, <1>4, <2>2 DEF Fits
  <2>4. top' \in Nat
    BY <2>2 DEF Types
  <2> QED BY <1>1, <1>2, <2>1, <2>2, <2>3, <2>4 DEF LzfInv, Fits, Overrun, Reserved, TailFits
<1> QED BY <1>3, <1>4

LEMMA EndLoopInv ==
    ASSUME LzfInv, EndLoop
    PROVE  LzfInv'
<1>1. /\ Types /\ Fits /\ Overrun /\ Reserved /\ at = "compress" /\ ip >= Len(in) - 2
      /\ UNCHANGED <<in, outLen, ip, out, run, top>>
  BY DEF LzfInv, EndLoop
<1>2. ip \in 0 .. Len(in) /\ Len(in) \in Nat /\ outLen \in Nat /\ Op \in Nat
  BY <1>1, ClosedIs DEF Types
<1>3. at' = IF Op + 3 > outLen THEN "failed" ELSE "tail"
  BY DEF EndLoop
<1>4. Types' /\ Op' = Op /\ Closed' = Closed
  BY <1>1, <1>3 DEF Types, Op, Closed
<1>5. Fits' /\ Overrun' /\ Reserved'
  BY <1>1, <1>4 DEF Fits, Overrun, Reserved
<1>6. TailFits'
  BY <1>1, <1>2, <1>3, <1>4 DEF TailFits
<1> QED BY <1>4, <1>5, <1>6 DEF LzfInv

LEMMA FinishInv ==
    ASSUME LzfInv, Finish
    PROVE  LzfInv'
<1>1. Types /\ at = "tail" /\ UNCHANGED <<in, outLen>> /\ Fits /\ Overrun /\ TailFits
  BY DEF LzfInv, Finish
<1>2. /\ ip \in Nat /\ Len(in) \in Nat /\ ip <= Len(in) /\ outLen \in Nat /\ Op \in Nat
      /\ top \in Nat /\ top <= outLen
  BY <1>1, ClosedIs DEF Types, Fits
<1>3. CASE ip < Len(in)
  <2>1. AddLiteral /\ at' = at
    BY <1>3 DEF Finish
  <2>2. /\ Types' /\ ip' = ip + 1
        /\ run' # << >> => Op' = Op + 1
        /\ run' = << >> => Op' = Op + 2 /\ run # << >>
        /\ top' = IF Op + 1 > top THEN Op + 1 ELSE top
    BY <1>1, <1>3, <2>1, Added
  <2>3. /\ Op + 1 <= outLen /\ (run # << >> => Op + 2 <= outLen)
        /\ ip + 1 < Len(in) => Op + 3 <= outLen
        /\ Len(in) <= ip + 2
    BY <1>1, <1>3 DEF TailFits
  <2>4. top' \in Nat /\ top' <= outLen
    BY <1>2, <2>2, <2>3
  <2>5. Op' <= outLen /\ Op' \in Nat
    BY <1>2, <2>2, <2>3
  <2>6. PICK n \in Nat, i \in Nat, o \in Nat, m \in Nat :
               n = Len(in) /\ i = ip /\ o = Op /\ m = outLen /\ Len(in') = n /\ outLen' = m
    BY <1>1, <1>2
  <2>7. ip' < Len(in') => Op' + 1 <= outLen' /\ (run' # << >> => Op' + 2 <= outLen')
    <3>1. ip' < Len(in') => o + 3 <= m
      BY <2>2, <2>3, <2>6
    <3> QED BY <2>2, <2>6, <3>1
  <2>8. ~(ip' + 1 < Len(in')) /\ Len(in') <= ip' + 2
    BY <2>2, <2>3, <2>6
  <2>9. TailFits'
    BY <2>5, <2>6, <2>7, <2>8 DEF TailFits
  <2> QED BY <1>1, <1>2, <2>1, <2>2, <2>4, <2>5, <2>9 DEF LzfInv, Fits, Overrun, Reserved
<1>4. CASE ~(ip < Len(in))
  <2>1. out' = Closed /\ run' = << >> /\ at' = "done" /\ ip' = ip /\ Written(Len(out) + 1)
    BY <1>4 DEF Finish
  <2>2. Closed \in Seq(Byte)
    BY <1>1, ClosedIs
  <2>3. Op <= outLen /\ Len(out) \in Nat /\ Len(out) + 1 <= Op
    BY <1>1, ClosedIs DEF TailFits
  <2>4. top' \in Nat /\ top' <= outLen
    BY <1>2, <2>1, <2>3 DEF Written
  <2>5. Types'
    BY <1>1, <2>1, <2>2, <2>4, ShortIsByte DEF Types
  <2>6. Op' = Len(Closed) + 1 /\ Len(Closed) \in Nat
    BY <2>1, <2>2 DEF Op
  <2>7. Op' <= outLen + 1
    BY <1>1, <1>2, <2>3, <2>6, ClosedIs
  <2> QED BY <1>1, <1>2, <2>1, <2>4, <2>5, <2>7 DEF LzfInv, Fits, Overrun, Reserved, TailFits
<1> QED BY <1>3, <1>4

LEMMA StepInv == LzfInv /\ [LzfNext]_lzfVars => LzfInv'
<1> SUFFICES ASSUME LzfInv, [LzfNext]_lzfVars PROVE LzfInv'
  OBVIOUS
<1>1. ASSUME NEW ref \in 1 .. Len(in), Refer(ref) PROVE LzfInv'
  BY <1>1, ReferInv
<1>2. CASE UNCHANGED lzfVars
  BY <1>2 DEF lzfVars, LzfInv, Types, Fits, Overrun, Reserved, TailFits, Closed, Op
<1> QED BY <1>1, <1>2, LiteralInv, EndLoopInv, FinishInv DEF LzfNext

\* The invariant that the two properties follow from, in every state.
THEOREM WithinAlways == LzfSpec => []LzfInv
BY InitInv, StepInv, PTL DEF LzfSpec

\* A call of lzf_compress that does not return 0 has stayed in its buffer all the time: it
\* looks at the buffer's end before it writes a literal, a reference and the last bytes as
\* a whole, never before the last bytes one by one, nor when it reserves a control byte.
THEOREM OutputFits == LzfSpec => []Fits
<1>1. LzfInv => Fits
  BY DEF LzfInv
<1> QED BY <1>1, WithinAlways, PTL

\* A call that returns 0 has written at most one byte behind the buffer: the control byte
\* of a run that was opened there and ends at once.
THEOREM OverrunsOneByte == LzfSpec => []Overrun
<1>1. LzfInv => Overrun
  BY DEF LzfInv
<1> QED BY <1>1, WithinAlways, PTL

\* Everything lzf_compress writes fits an unsigned char: the length of a run, the high
\* part of an offset beside a length of three bits, and the rest of a long length.
THEOREM OutputIsBytes == LzfSpec => []OnlyBytes
<1>1. LzfInv => OnlyBytes
  BY ClosedIs DEF LzfInv, OnlyBytes
<1> QED BY <1>1, WithinAlways, PTL
===============================================================================
