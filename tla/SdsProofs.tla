------------------------------ MODULE SdsProofs ------------------------------
(***************************************************************************)
(* Every function of sds.c keeps header, allocation and closing NUL in     *)
(* step, and does to the string what SdsString says, for every byte        *)
(* string, format, set and size of the constants.                          *)
(***************************************************************************)
EXTENDS Sds, FiniteSetTheorems, WellFoundedInduction, TLAPS

-----------------------------------------------------------------------------
(* Headers.                                                                 *)

Cell == Bytes \cup {Junk}
Cells(h) == 1 .. h.len + h.free + 1

\* What every call keeps, also in the middle of sdscatfmt.
Fitting(h) ==
  /\ h \in [len : Nat, free : Nat, buf : [Cells(h) -> Cell]]
  /\ \A k \in 1 .. h.len : h.buf[k] \in Bytes

Ended(h) == h.buf[h.len + 1] = 0

\* The header h of a call's result, when the string should be t.
Gives(h, t) == Fitting(h) /\ Ended(h) /\ Str(h) = t

\* The characters and arguments of the formats.
Dirs == UNION {{f[i] : i \in DOMAIN f} : f \in Formats}

-----------------------------------------------------------------------------
(* Numbers.                                                                 *)

LEMMA Sizes == MaxPrealloc \in Nat /\ MaxLen \in Nat /\ StaticBuf \in Nat /\ StaticBuf > 2
BY SdsAssumption

LEMMA NulIsByte == 0 \in Bytes /\ Bytes \subseteq Int
BY SdsAssumption

LEMMA LeastNumber ==
    ASSUME NEW S, S \subseteq Nat, S # {}
    PROVE  \E i \in S : \A j \in S : i <= j
<1>1. \E i \in S : \A j \in S : ~(<<j, i>> \in OpToRel(<, Nat))
  BY WFMin, NatLessThanWellFounded, Zenon
<1>2. PICK i \in S : \A j \in S : ~(j < i)
  BY <1>1, Zenon DEF OpToRel
<1> QED BY <1>2

LEMMA LargestNumber ==
    ASSUME NEW m \in Nat, NEW S, S \subseteq 1 .. m, S # {}
    PROVE  \E i \in S : \A j \in S : j <= i
<1> DEFINE T == {m - k : k \in S}
<1>1. T \subseteq Nat /\ T # {}
  <2>1. \A k \in S : m - k \in Nat
    OBVIOUS
  <2>2. T \subseteq Nat
    BY <2>1
  <2>3. PICK k \in S : TRUE
    OBVIOUS
  <2>4. m - k \in T
    OBVIOUS
  <2> QED BY <2>2, <2>4
<1>2. PICK d \in T : \A e \in T : d <= e
  BY <1>1, LeastNumber
<1>3. PICK i \in S : d = m - i
  BY <1>2
<1>4. ASSUME NEW j \in S PROVE j <= i
  <2>1. m - j \in T /\ i \in 1 .. m /\ j \in 1 .. m
    OBVIOUS
  <2>2. m - i <= m - j
    BY <1>2, <1>3, <2>1
  <2> QED BY <2>1, <2>2
<1> QED BY <1>4

\* A power of two counts the subsets of as many numbers: the empty one, those of one number, others.
LEMMA PowerOfTwo ==
    ASSUME NEW k \in Nat
    PROVE  2 ^ k \in Nat /\ k < 2 ^ k
<1> DEFINE some == [i \in 0 .. k |-> IF i = 0 THEN {} ELSE {i}]
<1>1. some \in [0 .. k -> SUBSET (1 .. k)]
  OBVIOUS
<1>2. \A i, j \in 0 .. k : some[i] = some[j] => i = j
  OBVIOUS
<1>3. IsFiniteSet(0 .. k) /\ Cardinality(0 .. k) = k + 1
  BY FS_Interval
<1>4. IsFiniteSet(1 .. k) /\ Cardinality(1 .. k) = k
  BY FS_Interval
<1>5. IsFiniteSet(SUBSET (1 .. k)) /\ Cardinality(SUBSET (1 .. k)) = 2 ^ k
  BY <1>4, FS_SUBSET, Zenon
<1>6. some \in Injection(0 .. k, SUBSET (1 .. k))
  BY <1>1, <1>2 DEF Injection, IsInjective
<1>7. Cardinality(0 .. k) <= Cardinality(SUBSET (1 .. k))
  BY <1>3, <1>5, <1>6, FS_Injection
<1> QED BY <1>3, <1>5, <1>7, FS_CardinalityType

-----------------------------------------------------------------------------
(* Memory.                                                                  *)

\* A sequence of zeros.
LEMMA ZerosAre ==
    ASSUME NEW n \in Nat
    PROVE  /\ Zeros(n) \in Seq(Bytes) /\ Len(Zeros(n)) = n
           /\ \A k \in 1 .. n : Zeros(n)[k] = 0
<1>1. Zeros(n) \in [1 .. n -> Bytes]
  BY NulIsByte DEF Zeros
<1> QED BY <1>1 DEF Zeros

\* One sequence behind another.
LEMMA Joined ==
    ASSUME NEW S, NEW a \in Seq(S), NEW b \in Seq(S)
    PROVE  /\ a \o b \in Seq(S) /\ Len(a \o b) = Len(a) + Len(b)
           /\ \A k \in 1 .. Len(a) : (a \o b)[k] = a[k]
           /\ \A k \in 1 .. Len(b) : (a \o b)[Len(a) + k] = b[k]
BY SMT

\* Bytes laid within the cells: where they are, and that the others stay.
LEMMA Laid ==
    ASSUME NEW m \in Nat, NEW buf \in [1 .. m -> Cell], NEW at \in Nat,
           NEW t \in Seq(Cell), at + Len(t) <= m
    PROVE  /\ Overlay(buf, at, t) \in [1 .. m -> Cell]
           /\ \A k \in 1 .. m : Overlay(buf, at, t)[k] =
                IF k \in at + 1 .. at + Len(t) THEN t[k - at] ELSE buf[k]
<1>1. DOMAIN buf \cup (at + 1 .. at + Len(t)) = 1 .. m
  OBVIOUS
<1>2. \A k \in at + 1 .. at + Len(t) : t[k - at] \in Cell
  OBVIOUS
<1> QED BY <1>1, <1>2 DEF Overlay

\* A NUL laid in the cells.
LEMMA LaidNul ==
    ASSUME NEW m \in Nat, NEW buf \in [1 .. m -> Cell], NEW at \in Nat, at < m
    PROVE  /\ NulAt(buf, at) \in [1 .. m -> Cell]
           /\ NulAt(buf, at)[at + 1] = 0
           /\ \A k \in 1 .. m : k # at + 1 => NulAt(buf, at)[k] = buf[k]
<1>1. <<0>> \in Seq(Cell) /\ Len(<<0>>) = 1 /\ <<0>>[1] = 0
  BY NulIsByte DEF Cell
<1>2. PICK nul \in Seq(Cell) : nul = <<0>> /\ Len(nul) = 1 /\ nul[1] = 0
  BY <1>1
<1>3. at + Len(nul) <= m
  BY <1>2
<1>4. /\ Overlay(buf, at, nul) \in [1 .. m -> Cell]
      /\ \A k \in 1 .. m : Overlay(buf, at, nul)[k] =
           IF k \in at + 1 .. at + Len(nul) THEN nul[k - at] ELSE buf[k]
  BY <1>3, Laid
<1> QED BY <1>2, <1>4 DEF NulAt

\* More or fewer cells.
LEMMA ResizedIs ==
    ASSUME NEW m \in Nat, NEW buf \in [1 .. m -> Cell], NEW n \in Nat
    PROVE  /\ Resized(buf, n) \in [1 .. n -> Cell]
           /\ \A k \in 1 .. n : k <= m => Resized(buf, n)[k] = buf[k]
BY DEF Resized, Cell

\* The parts of a header.
LEMMA HeaderIs ==
    ASSUME NEW h, Fitting(h)
    PROVE  /\ h.len \in Nat /\ h.free \in Nat
           /\ h.buf \in [1 .. h.len + h.free + 1 -> Cell]
           /\ h = [len |-> h.len, free |-> h.free, buf |-> h.buf]
BY DEF Fitting, Cells

\* What the string of a header is.
LEMMA StrIs ==
    ASSUME NEW h, Fitting(h)
    PROVE  /\ Str(h) \in Seq(Bytes)
           /\ Len(Str(h)) = h.len
           /\ \A k \in 1 .. h.len : Str(h)[k] = h.buf[k]
<1>1. h.len \in Nat /\ h.free \in Nat /\ h.buf \in [Cells(h) -> Cell]
  BY DEF Fitting
<1>2. Cells(h) = 1 .. h.len + h.free + 1
  BY DEF Cells
<1>3. Str(h) = [k \in 1 .. h.len |-> h.buf[k]]
  BY <1>1 DEF Str
<1> QED BY <1>3, <1>1 DEF Fitting

\* How a header is shown to hold a string.
LEMMA GivesBy ==
    ASSUME NEW t \in Seq(Bytes), NEW free \in Nat, NEW buf \in [1 .. Len(t) + free + 1 -> Cell],
           \A k \in 1 .. Len(t) : buf[k] = t[k], buf[Len(t) + 1] = 0
    PROVE  Gives([len |-> Len(t), free |-> free, buf |-> buf], t)
<1> DEFINE h == [len |-> Len(t), free |-> free, buf |-> buf]
<1>1. h.len = Len(t) /\ h.free = free /\ h.buf = buf
  OBVIOUS
<1>2. Fitting(h) /\ Ended(h)
  BY <1>1 DEF Fitting, Ended, Cells
<1> HIDE DEF h
<1>3. PICK str \in Seq(Bytes) : str = Str(h) /\ Len(str) = h.len /\ \A k \in 1 .. h.len : str[k] = h.buf[k]
  BY <1>2, StrIs
<1>4. Len(str) = Len(t) /\ \A k \in 1 .. Len(t) : str[k] = t[k]
  BY <1>1, <1>3
<1>5. str = t
  BY <1>4
<1>6. Gives(h, t)
  BY <1>2, <1>3, <1>5 DEF Gives
<1> QED BY <1>6 DEF h

-----------------------------------------------------------------------------
(* Room.                                                                    *)

\* sdsMakeRoomFor gives the free space it is asked for and keeps string and NUL.
LEMMA RoomMade ==
    ASSUME NEW h, Fitting(h), NEW n \in Nat
    PROVE  /\ Fitting(sdsMakeRoomFor(h, n))
           /\ sdsMakeRoomFor(h, n).len = h.len
           /\ sdsMakeRoomFor(h, n).free >= n
           /\ \A k \in 1 .. h.len + 1 : sdsMakeRoomFor(h, n).buf[k] = h.buf[k]
<1> DEFINE need == h.len + n
<1> DEFINE newlen == IF need < MaxPrealloc THEN 2 * need ELSE need + MaxPrealloc
<1> DEFINE r == [len |-> h.len, free |-> newlen - h.len, buf |-> Resized(h.buf, newlen + 1)]
<1>1. h.len \in Nat /\ h.free \in Nat /\ h.buf \in [1 .. h.len + h.free + 1 -> Cell]
  BY DEF Fitting, Cells
<1>2. newlen \in Nat /\ newlen - h.len \in Nat /\ newlen - h.len >= n
  <2>1. PICK len \in Nat : len = h.len
    BY <1>1
  <2>2. need = len + n
    BY <2>1
  <2>3. CASE need < MaxPrealloc
    BY <2>1, <2>2, <2>3
  <2>4. CASE ~(need < MaxPrealloc)
    BY <2>1, <2>2, <2>4, Sizes
  <2> QED BY <2>3, <2>4
<1>3. sdsMakeRoomFor(h, n) = IF h.free >= n THEN h ELSE r
  BY DEF sdsMakeRoomFor
<1>4. CASE h.free >= n
  BY <1>3, <1>4
<1>5. ASSUME ~(h.free >= n)
      PROVE  /\ Fitting(r) /\ r.len = h.len /\ r.free >= n
             /\ \A k \in 1 .. h.len + 1 : r.buf[k] = h.buf[k]
  <2>0. PICK len \in Nat, free \in Nat, new \in Nat : len = h.len /\ free = h.free /\ new = newlen
    BY <1>1, <1>2
  <2>1. PICK buf \in [1 .. len + free + 1 -> Cell] : buf = h.buf
    BY <1>1, <2>0
  <2>2. new - len \in Nat /\ new - len >= n /\ len + 1 <= new + 1 /\ \A k \in 1 .. len : buf[k] \in Bytes
    <3>1. \A k \in 1 .. len : buf[k] \in Bytes
      BY <2>0, <2>1 DEF Fitting
    <3> HIDE DEF newlen, need, r
    <3>2. new - len \in Nat /\ new - len >= n
      BY <1>2, <2>0, Zenon
    <3>3. len + 1 <= new + 1
      BY <3>2
    <3> QED BY <3>1, <3>2, <3>3
  <2>3. PICK more \in [1 .. new + 1 -> Cell] :
          /\ more = Resized(buf, new + 1)
          /\ \A k \in 1 .. new + 1 : k <= len + free + 1 => more[k] = buf[k]
    BY ResizedIs
  <2> HIDE DEF newlen
  <2>4. r = [len |-> len, free |-> new - len, buf |-> more]
    BY <2>0, <2>1, <2>3
  <2> HIDE DEF r
  <2>5. r.len = len /\ r.free = new - len /\ r.buf = more
    BY <2>4
  <2>6. \A k \in 1 .. len + 1 : more[k] = buf[k]
    BY <2>2, <2>3
  <2>7. Cells(r) = 1 .. new + 1
    BY <2>2, <2>5 DEF Cells
  <2>8. \A k \in 1 .. len : more[k] \in Bytes
    BY <2>2, <2>6
  <2>9. Fitting(r)
    BY <2>2, <2>4, <2>5, <2>7, <2>8 DEF Fitting
  <2> QED BY <2>0, <2>1, <2>2, <2>5, <2>6, <2>9
<1> QED BY <1>3, <1>4, <1>5

LEMMA RoomKeeps ==
    ASSUME NEW h, Fitting(h), NEW n \in Nat
    PROVE  Str(sdsMakeRoomFor(h, n)) = Str(h)
<1>1. PICK r : r = sdsMakeRoomFor(h, n) /\ Fitting(r) /\ r.len = h.len /\ \A k \in 1 .. h.len + 1 : r.buf[k] = h.buf[k]
  BY RoomMade
<1>2. PICK a \in Seq(Bytes) : a = Str(r) /\ Len(a) = h.len /\ \A k \in 1 .. h.len : a[k] = r.buf[k]
  BY <1>1, StrIs
<1>3. PICK b \in Seq(Bytes) : b = Str(h) /\ Len(b) = h.len /\ \A k \in 1 .. h.len : b[k] = h.buf[k]
  BY StrIs
<1>4. \A k \in 1 .. Len(a) : a[k] = b[k]
  BY <1>1, <1>2, <1>3
<1> QED BY <1>1, <1>2, <1>3, <1>4

-----------------------------------------------------------------------------
(* What the calls have in common: they cut the string, lay bytes behind it, *)
(* or close it with a NUL.                                                  *)

CutTo(h, n) == [len |-> n, free |-> h.free + (h.len - n), buf |-> h.buf]
Longer(h, t) == [len |-> h.len + Len(t), free |-> h.free - Len(t), buf |-> Overlay(h.buf, h.len, t)]
Closed(h) == [len |-> h.len, free |-> h.free, buf |-> NulAt(h.buf, h.len)]

\* Two headers hold the same string when its bytes are the same.
LEMMA SameStr ==
    ASSUME NEW h, Fitting(h), NEW t \in Seq(Bytes), h.len = Len(t),
           \A k \in 1 .. Len(t) : h.buf[k] = t[k]
    PROVE  Str(h) = t
<1>1. PICK a \in Seq(Bytes) : a = Str(h) /\ Len(a) = Len(t) /\ \A k \in 1 .. Len(t) : a[k] = h.buf[k]
  BY StrIs
<1> QED BY <1>1

LEMMA Cuts ==
    ASSUME NEW h, Fitting(h), NEW n \in 0 .. h.len
    PROVE  Fitting(CutTo(h, n)) /\ Str(CutTo(h, n)) = SubSeq(Str(h), 1, n)
<1>1. PICK len \in Nat, free \in Nat : len = h.len /\ free = h.free
  BY HeaderIs
<1>2. PICK c : c = CutTo(h, n) /\ c = [len |-> n, free |-> free + (len - n), buf |-> h.buf]
  BY <1>1 DEF CutTo
<1>3. n \in Nat /\ n <= len /\ free + (len - n) \in Nat /\ n + (free + (len - n)) + 1 = len + free + 1
  BY <1>1
<1>4. h.buf \in [1 .. len + free + 1 -> Cell] /\ \A k \in 1 .. len : h.buf[k] \in Bytes
  BY <1>1 DEF Fitting, Cells
<1>5. \A k \in 1 .. n : h.buf[k] \in Bytes
  BY <1>3, <1>4
<1>6. Cells(c) = 1 .. len + free + 1
  BY <1>2, <1>3 DEF Cells
<1>7. Fitting(c)
  BY <1>2, <1>3, <1>4, <1>5, <1>6 DEF Fitting
<1>8. PICK a \in Seq(Bytes) : a = Str(h) /\ Len(a) = len /\ \A k \in 1 .. len : a[k] = h.buf[k]
  BY <1>1, StrIs
<1>9. /\ SubSeq(a, 1, n) \in Seq(Bytes) /\ Len(SubSeq(a, 1, n)) = n
      /\ \A k \in 1 .. n : SubSeq(a, 1, n)[k] = a[k]
  BY <1>3, <1>8
<1>10. Str(c) = SubSeq(a, 1, n)
  <2>1. c.len = n /\ c.buf = h.buf
    BY <1>2
  <2>2. \A k \in 1 .. n : c.buf[k] = SubSeq(a, 1, n)[k]
    BY <1>3, <1>8, <1>9, <2>1
  <2> QED BY <1>7, <1>9, <2>1, <2>2, SameStr
<1> QED BY <1>2, <1>7, <1>8, <1>10

LEMMA Lengthens ==
    ASSUME NEW h, Fitting(h), NEW t \in Seq(Bytes), Len(t) <= h.free
    PROVE  Fitting(Longer(h, t)) /\ Str(Longer(h, t)) = Str(h) \o t
<1>1. PICK len \in Nat, free \in Nat : len = h.len /\ free = h.free
  BY HeaderIs
<1>2. PICK m \in Nat, n \in Nat : m = len + free + 1 /\ n = Len(t) /\ len + n <= m /\ n <= free
  BY <1>1
<1>3. PICK buf \in [1 .. m -> Cell] : buf = h.buf
  BY <1>1, <1>2, HeaderIs
<1>4. PICK new \in [1 .. m -> Cell] :
        /\ new = Overlay(buf, len, t)
        /\ \A k \in 1 .. m : new[k] = IF k \in len + 1 .. len + n THEN t[k - len] ELSE buf[k]
  <2>1. t \in Seq(Cell) /\ len + Len(t) <= m
    BY <1>2 DEF Cell
  <2>2. /\ Overlay(buf, len, t) \in [1 .. m -> Cell]
        /\ \A k \in 1 .. m : Overlay(buf, len, t)[k] =
             IF k \in len + 1 .. len + Len(t) THEN t[k - len] ELSE buf[k]
    BY <2>1, Laid
  <2> QED BY <1>2, <2>2
<1>5. PICK str \in Seq(Bytes) : str = Str(h) /\ Len(str) = len /\ \A k \in 1 .. len : str[k] = buf[k]
  BY <1>1, <1>3, StrIs
<1>6. PICK all \in Seq(Bytes) : all = str \o t
  BY Joined
<1>7. /\ Len(all) = len + n
      /\ \A k \in 1 .. len : all[k] = str[k]
      /\ \A k \in 1 .. n : all[len + k] = t[k]
  <2>1. /\ Len(all) = Len(str) + Len(t)
        /\ \A k \in 1 .. Len(str) : all[k] = str[k]
        /\ \A k \in 1 .. Len(t) : all[Len(str) + k] = t[k]
    BY <1>6, Joined
  <2> QED BY <1>2, <1>5, <2>1
<1>8. \A k \in 1 .. Len(all) : new[k] = all[k]
  <2> TAKE k \in 1 .. Len(all)
  <2>0. k \in 1 .. m
    BY <1>2, <1>7
  <2>1. CASE k <= len
    <3>1. k \in 1 .. len /\ k \notin len + 1 .. len + n
      BY <2>1
    <3> QED BY <2>0, <3>1, <1>4, <1>5, <1>7
  <2>2. CASE k > len
    <3>1. PICK j \in 1 .. n : len + j = k
      <4>1. k - len \in 1 .. n /\ len + (k - len) = k
        BY <2>2, <1>7
      <4> QED BY <4>1
    <3>2. k \in len + 1 .. len + n /\ k - len = j
      BY <3>1
    <3>3. new[k] = t[j] /\ all[len + j] = t[j]
      BY <2>0, <3>2, <1>4, <1>7
    <3> QED BY <3>1, <3>3
  <2> QED BY <2>1, <2>2
<1>9. PICK g : g = Longer(h, t) /\ g = [len |-> Len(all), free |-> free - n, buf |-> new]
  <2>1. h.len + Len(t) = Len(all) /\ h.free - Len(t) = free - n /\ Overlay(h.buf, h.len, t) = new
    BY <1>1, <1>2, <1>3, <1>4, <1>7
  <2> QED BY <2>1 DEF Longer
<1>10. Fitting(g)
  <2>1. g.len = Len(all) /\ g.free = free - n /\ g.buf = new
    BY <1>9
  <2>2. Len(all) \in Nat /\ free - n \in Nat /\ Len(all) + (free - n) + 1 = m
    BY <1>2, <1>7
  <2>3. Cells(g) = 1 .. m
    BY <2>1, <2>2 DEF Cells
  <2>4. \A k \in 1 .. g.len : g.buf[k] \in Bytes
    BY <1>8, <2>1
  <2> QED BY <1>9, <2>1, <2>2, <2>3, <2>4 DEF Fitting
<1>11. Str(g) = all
  <2>1. g.len = Len(all) /\ \A k \in 1 .. Len(all) : g.buf[k] = all[k]
    BY <1>8, <1>9
  <2> QED BY <1>10, <2>1, SameStr
<1> QED BY <1>5, <1>6, <1>9, <1>10, <1>11

LEMMA Closes ==
    ASSUME NEW h, Fitting(h)
    PROVE  Gives(Closed(h), Str(h))
<1>1. PICK len \in Nat, free \in Nat : len = h.len /\ free = h.free
  BY HeaderIs
<1>2. PICK m \in Nat : m = len + free + 1 /\ len < m
  BY <1>1
<1>3. PICK buf \in [1 .. m -> Cell] : buf = h.buf
  BY <1>1, <1>2, HeaderIs
<1>4. PICK new \in [1 .. m -> Cell] :
        new = NulAt(buf, len) /\ new[len + 1] = 0 /\ \A k \in 1 .. m : k # len + 1 => new[k] = buf[k]
  BY <1>2, LaidNul
<1>5. PICK str \in Seq(Bytes) : str = Str(h) /\ Len(str) = len /\ \A k \in 1 .. len : str[k] = buf[k]
  BY <1>1, <1>3, StrIs
<1>6. \A k \in 1 .. Len(str) : new[k] = str[k]
  BY <1>2, <1>4, <1>5
<1>7. Gives([len |-> Len(str), free |-> free, buf |-> new], str)
  <2>1. new \in [1 .. Len(str) + free + 1 -> Cell] /\ new[Len(str) + 1] = 0
    BY <1>2, <1>4, <1>5
  <2> QED BY <1>6, <2>1, GivesBy
<1>8. Closed(h) = [len |-> Len(str), free |-> free, buf |-> new]
  BY <1>1, <1>3, <1>4, <1>5 DEF Closed
<1> QED BY <1>5, <1>7, <1>8

-----------------------------------------------------------------------------
(* The calls.                                                               *)

\* sdscatlen appends, also to a string without its NUL.
LEMMA CatAppends ==
    ASSUME NEW h, Fitting(h), NEW t \in Seq(Bytes)
    PROVE  Gives(sdscatlen(h, t), Str(h) \o t)
<1>1. PICK r : /\ r = sdsMakeRoomFor(h, Len(t)) /\ Fitting(r) /\ r.len = h.len /\ Len(t) <= r.free
               /\ Str(r) = Str(h)
  <2>1. Len(t) \in Nat
    OBVIOUS
  <2> QED BY <2>1, RoomMade, RoomKeeps
<1>2. PICK g : g = Longer(r, t) /\ Fitting(g) /\ Str(g) = Str(h) \o t
  BY <1>1, Lengthens
<1>3. Gives(Closed(g), Str(h) \o t)
  BY <1>2, Closes
<1>4. sdscatlen(h, t) = Closed(g)
  BY <1>1, <1>2 DEF sdscatlen, Closed, Longer
<1> QED BY <1>3, <1>4

\* A string cut to nothing.
LEMMA Empties ==
    ASSUME NEW h, Fitting(h)
    PROVE  Fitting(CutTo(h, 0)) /\ Str(CutTo(h, 0)) = << >> /\ << >> \in Seq(Bytes)
<1>1. 0 \in 0 .. h.len
  BY HeaderIs
<1>2. SubSeq(Str(h), 1, 0) = << >>
  BY StrIs
<1> QED BY <1>1, <1>2, Cuts

\* sdscpylen replaces the string.
LEMMA CpyReplaces ==
    ASSUME NEW h, Fitting(h), NEW t \in Seq(Bytes)
    PROVE  Gives(sdscpylen(h, t), t)
<1>1. PICK r : r = IF h.free + h.len < Len(t) THEN sdsMakeRoomFor(h, Len(t) - h.len) ELSE h
  OBVIOUS
<1>2. h.len \in Nat /\ h.free \in Nat /\ Len(t) \in Nat
  BY HeaderIs
<1>3. Fitting(r) /\ r.len + r.free >= Len(t) /\ r.len \in Nat /\ r.free \in Nat
  <2>1. CASE h.free + h.len < Len(t)
    <3>1. Len(t) - h.len \in Nat
      BY <1>2, <2>1
    <3>2. Fitting(r) /\ r.len = h.len /\ r.free >= Len(t) - h.len
      BY <1>1, <2>1, <3>1, RoomMade
    <3>3. r.len \in Nat /\ r.free \in Nat
      BY <3>2, HeaderIs
    <3> QED BY <1>2, <3>2, <3>3
  <2>2. CASE ~(h.free + h.len < Len(t))
    BY <1>1, <1>2, <2>2
  <2> QED BY <2>1, <2>2
<1>4. PICK e : e = CutTo(r, 0) /\ Fitting(e) /\ Str(e) = << >>
  BY <1>3, Empties
<1>5. e.len = 0 /\ e.free = r.free + r.len /\ e.buf = r.buf
  BY <1>3, <1>4 DEF CutTo
<1>6. PICK g : g = Longer(e, t) /\ Fitting(g) /\ Str(g) = << >> \o t
  <2>1. Len(t) <= e.free
    BY <1>2, <1>3, <1>5
  <2> QED BY <1>4, <2>1, Lengthens
<1>7. << >> \o t = t
  OBVIOUS
<1>8. Gives(Closed(g), t)
  BY <1>6, <1>7, Closes
<1>9. Closed(g) = [len |-> Len(t), free |-> r.free + r.len - Len(t),
                   buf |-> NulAt(Overlay(r.buf, 0, t), Len(t))]
  <2>1. Closed(g) = [len |-> g.len, free |-> g.free, buf |-> NulAt(g.buf, g.len)]
    BY DEF Closed
  <2>2. g.len = e.len + Len(t) /\ g.free = e.free - Len(t) /\ g.buf = Overlay(e.buf, e.len, t)
    BY <1>6 DEF Longer
  <2>3. e.len + Len(t) = Len(t)
    BY <1>5
  <2>4. g.len = Len(t)
    BY <2>2, <2>3
  <2>5. g.free = r.free + r.len - Len(t)
    BY <1>2, <1>3, <1>5, <2>2
  <2>6. g.buf = Overlay(r.buf, 0, t)
    BY <1>5, <2>2
  <2> QED BY <2>1, <2>4, <2>5, <2>6
<1>10. sdscpylen(h, t) = Closed(g)
  BY <1>1, <1>9 DEF sdscpylen
<1> QED BY <1>8, <1>10

\* sdsclear leaves nothing.
LEMMA ClearEmpties ==
    ASSUME NEW h, Fitting(h)
    PROVE  Gives(sdsclear(h), << >>)
<1>1. PICK e : e = CutTo(h, 0) /\ Fitting(e) /\ Str(e) = << >>
  BY Empties
<1>2. Gives(Closed(e), << >>)
  BY <1>1, Closes
<1>3. h.free + (h.len - 0) = h.free + h.len
  BY HeaderIs
<1> QED BY <1>1, <1>2, <1>3 DEF sdsclear, Closed, CutTo

\* sdsIncrLen with a negative number cuts the end off.
LEMMA CutShortens ==
    ASSUME NEW h, Fitting(h), NEW n \in 0 .. h.len
    PROVE  Gives(sdsIncrLen(h, -n), SubSeq(Str(h), 1, h.len - n))
<1>1. h.len \in Nat /\ h.free \in Nat
  BY HeaderIs
<1>2. h.len - n \in 0 .. h.len /\ h.len + -n = h.len - n /\ h.free - -n = h.free + (h.len - (h.len - n))
  BY <1>1
<1>3. PICK c : c = CutTo(h, h.len - n) /\ Fitting(c) /\ Str(c) = SubSeq(Str(h), 1, h.len - n)
  BY <1>2, Cuts
<1>4. Gives(Closed(c), SubSeq(Str(h), 1, h.len - n))
  BY <1>3, Closes
<1>5. sdsIncrLen(h, -n) = Closed(c)
  BY <1>2, <1>3 DEF sdsIncrLen, Closed, CutTo
<1> QED BY <1>4, <1>5

\* sdsMakeRoomFor, bytes read into the room, and sdsIncrLen append them.
LEMMA ReadAppends ==
    ASSUME NEW h, Fitting(h), NEW n \in Nat, NEW t \in Seq(Bytes), Len(t) <= n,
           NEW r, r = sdsMakeRoomFor(h, n)
    PROVE  Gives(sdsIncrLen([r EXCEPT !.buf = Overlay(r.buf, r.len, t)], Len(t)), Str(h) \o t)
<1>1. Fitting(r) /\ r.free >= n /\ Str(r) = Str(h)
  BY RoomMade, RoomKeeps
<1>2. r = [len |-> r.len, free |-> r.free, buf |-> r.buf] /\ r.len \in Nat /\ r.free \in Nat
  BY <1>1, HeaderIs
<1>3. Len(t) <= r.free
  BY <1>1, <1>2
<1>4. PICK g : g = Longer(r, t) /\ Fitting(g) /\ Str(g) = Str(h) \o t
  BY <1>1, <1>3, Lengthens
<1>5. Gives(Closed(g), Str(h) \o t)
  BY <1>4, Closes
<1>6. [r EXCEPT !.buf = Overlay(r.buf, r.len, t)] = [len |-> r.len, free |-> r.free, buf |-> Overlay(r.buf, r.len, t)]
  BY <1>2
<1>7. sdsIncrLen([r EXCEPT !.buf = Overlay(r.buf, r.len, t)], Len(t)) = Closed(g)
  BY <1>4, <1>6 DEF sdsIncrLen, Closed, Longer
<1> QED BY <1>5, <1>7

\* sdsRemoveFreeSpace keeps the string and its NUL.
LEMMA ShrinkKeeps ==
    ASSUME NEW h, Fitting(h), Ended(h)
    PROVE  Gives(sdsRemoveFreeSpace(h), Str(h))
<1>1. PICK len \in Nat, free \in Nat : len = h.len /\ free = h.free
  BY HeaderIs
<1>2. PICK m \in Nat : m = len + free + 1 /\ len + 1 \in 1 .. m
  BY <1>1
<1>3. PICK buf \in [1 .. m -> Cell] : buf = h.buf /\ buf[len + 1] = 0
  BY <1>1, <1>2, HeaderIs DEF Ended
<1>4. PICK new : /\ new = Resized(buf, len + 1)
                 /\ new \in [1 .. len + 1 -> Cell]
                 /\ \A k \in 1 .. len + 1 : new[k] = buf[k]
  <2>1. len + 1 \in Nat
    OBVIOUS
  <2>2. /\ Resized(buf, len + 1) \in [1 .. len + 1 -> Cell]
        /\ \A k \in 1 .. len + 1 : k <= m => Resized(buf, len + 1)[k] = buf[k]
    BY <2>1, ResizedIs
  <2> QED BY <1>2, <2>2
<1>5. PICK str \in Seq(Bytes) : str = Str(h) /\ Len(str) = len /\ \A k \in 1 .. len : str[k] = buf[k]
  BY <1>1, <1>3, StrIs
<1>6. \A k \in 1 .. Len(str) : new[k] = str[k]
  BY <1>4, <1>5
<1>7. new \in [1 .. Len(str) + 0 + 1 -> Cell] /\ new[Len(str) + 1] = 0
  BY <1>3, <1>4, <1>5
<1>8. Gives([len |-> Len(str), free |-> 0, buf |-> new], str)
  BY <1>6, <1>7, GivesBy
<1>9. sdsRemoveFreeSpace(h) = [len |-> Len(str), free |-> 0, buf |-> new]
  BY <1>1, <1>3, <1>4, <1>5 DEF sdsRemoveFreeSpace
<1> QED BY <1>5, <1>8, <1>9

\* sdsgrowzero fills up with zeros.
LEMMA GrowsZeros ==
    ASSUME NEW h, Fitting(h), Ended(h), NEW n \in Nat
    PROVE  Gives(sdsgrowzero(h, n), IF n <= h.len THEN Str(h) ELSE Str(h) \o [k \in 1 .. n - h.len |-> 0])
<1>1. h.len \in Nat
  BY HeaderIs
<1>2. CASE n <= h.len
  BY <1>2 DEF sdsgrowzero, Gives
<1>3. CASE ~(n <= h.len)
  <2>1. PICK d \in Nat : d = n - h.len /\ d > 0 /\ h.len + d = n
    BY <1>1, <1>3
  <2>2. PICK r : r = sdsMakeRoomFor(h, d) /\ Fitting(r) /\ r.len = h.len /\ r.free >= d /\ Str(r) = Str(h)
    BY <2>1, RoomMade, RoomKeeps
  <2>3. PICK len \in Nat, free \in Nat : len = r.len /\ free = r.free /\ free >= d
    BY <2>2, HeaderIs
  <2>4. PICK z \in Seq(Bytes) : /\ z = Zeros(d) /\ z = [k \in 1 .. d |-> 0] /\ Len(z) = d
                              /\ \A k \in 1 .. d : z[k] = 0
    BY ZerosAre DEF Zeros
  <2>5. PICK g, w : g = Longer(r, z) /\ Fitting(g) /\ Str(g) = w /\ w = Str(h) \o z
    BY <2>2, <2>3, <2>4, Lengthens
  <2>6. Gives(Closed(g), w)
    <3>1. Gives(Closed(g), Str(g))
      BY <2>5, Closes, Zenon
    <3> QED BY <2>5, <3>1, Zenon
  <2>7. PICK m \in Nat : m = len + free + 1 /\ len + d + 1 <= m
    BY <2>3
  <2>8. PICK buf \in [1 .. m -> Cell] : buf = r.buf
    BY <2>2, <2>3, <2>7, HeaderIs
  <2>9. Overlay(buf, len, Zeros(d + 1)) = NulAt(Overlay(buf, len, z), len + d)
    <3>1. PICK y \in Seq(Bytes) : y = Zeros(d + 1) /\ Len(y) = d + 1 /\ \A k \in 1 .. d + 1 : y[k] = 0
      <4>1. d + 1 \in Nat
        BY <2>1
      <4> QED BY <4>1, ZerosAre
    <3>2. PICK a \in [1 .. m -> Cell] :
            /\ a = Overlay(buf, len, y)
            /\ \A k \in 1 .. m : a[k] = IF k \in len + 1 .. len + Len(y) THEN y[k - len] ELSE buf[k]
      <4>1. len + Len(y) <= m /\ y \in Seq(Cell)
        BY <2>7, <3>1 DEF Cell
      <4>2. /\ Overlay(buf, len, y) \in [1 .. m -> Cell]
            /\ \A k \in 1 .. m : Overlay(buf, len, y)[k] =
                 IF k \in len + 1 .. len + Len(y) THEN y[k - len] ELSE buf[k]
        BY <3>1, <4>1, Laid
      <4> QED BY <4>2
    <3>3. PICK b \in [1 .. m -> Cell] :
            /\ b = Overlay(buf, len, z)
            /\ \A k \in 1 .. m : b[k] = IF k \in len + 1 .. len + Len(z) THEN z[k - len] ELSE buf[k]
      <4>1. z \in Seq(Cell) /\ len + Len(z) <= m
        BY <2>4, <2>7 DEF Cell
      <4>2. /\ Overlay(buf, len, z) \in [1 .. m -> Cell]
            /\ \A k \in 1 .. m : Overlay(buf, len, z)[k] =
                 IF k \in len + 1 .. len + Len(z) THEN z[k - len] ELSE buf[k]
        BY <4>1, Laid
      <4> QED BY <4>2
    <3>4. PICK c \in [1 .. m -> Cell] :
            /\ c = NulAt(b, len + d) /\ c[len + d + 1] = 0
            /\ \A k \in 1 .. m : k # len + d + 1 => c[k] = b[k]
      <4>1. len + d \in Nat /\ len + d < m
        BY <2>7
      <4>2. /\ NulAt(b, len + d) \in [1 .. m -> Cell]
            /\ NulAt(b, len + d)[len + d + 1] = 0
            /\ \A k \in 1 .. m : k # len + d + 1 => NulAt(b, len + d)[k] = b[k]
        BY <4>1, LaidNul
      <4> QED BY <4>2
    <3>5. ASSUME NEW k \in 1 .. m
          PROVE  a[k] = c[k]
      <4>1. CASE k = len + d + 1
        <5>1. k \in len + 1 .. len + Len(y) /\ k - len \in 1 .. d + 1
          BY <3>1, <4>1
        <5> QED BY <3>1, <3>2, <3>4, <4>1, <5>1
      <4>2. CASE k \in len + 1 .. len + d
        <5>1. k \in len + 1 .. len + Len(y) /\ k - len \in 1 .. d + 1 /\ k # len + d + 1
          BY <3>1, <4>2
        <5>2. k \in len + 1 .. len + Len(z) /\ k - len \in 1 .. d
          BY <2>4, <4>2
        <5>3. a[k] = y[k - len] /\ y[k - len] = 0
          BY <3>1, <3>2, <5>1
        <5>4. b[k] = z[k - len] /\ z[k - len] = 0
          BY <2>4, <3>3, <5>2
        <5>5. c[k] = b[k]
          BY <3>4, <5>1
        <5> QED BY <5>3, <5>4, <5>5
      <4>3. CASE k \notin len + 1 .. len + d + 1
        <5>1. k \notin len + 1 .. len + Len(y) /\ k # len + d + 1 /\ k \notin len + 1 .. len + Len(z)
          BY <2>4, <3>1, <4>3
        <5> QED BY <3>2, <3>3, <3>4, <5>1
      <4>4. k = len + d + 1 \/ k \in len + 1 .. len + d \/ k \notin len + 1 .. len + d + 1
        BY ONLY len \in Nat, d \in Nat, k \in 1 .. m, m \in Nat
      <4> QED BY <4>1, <4>2, <4>3, <4>4
    <3>6. a = c
      BY <3>5
    <3> QED BY <3>1, <3>2, <3>3, <3>4, <3>6
  <2>10. sdsgrowzero(h, n) = Closed(g)
    <3>1. sdsgrowzero(h, n) = [len |-> n, free |-> r.len + r.free - n,
                               buf |-> Overlay(r.buf, h.len, Zeros(n - h.len + 1))]
      BY <1>3, <2>1, <2>2 DEF sdsgrowzero
    <3>2. n = len + d /\ r.len + r.free - n = free - d
      <4>1. n = len + d /\ r.len = len /\ r.free = free
        BY <2>1, <2>2, <2>3
      <4>2. len + free - (len + d) = free - d
        OBVIOUS
      <4> QED BY <4>1, <4>2
    <3>3. Overlay(r.buf, h.len, Zeros(n - h.len + 1)) = NulAt(Overlay(buf, len, z), len + d)
      BY <2>1, <2>2, <2>3, <2>8, <2>9
    <3>4. Closed(g) = [len |-> len + d, free |-> free - d, buf |-> NulAt(Overlay(buf, len, z), len + d)]
      BY <2>3, <2>4, <2>5, <2>8 DEF Closed, Longer
    <3> QED BY <3>1, <3>2, <3>3, <3>4
  <2> QED BY <1>3, <2>1, <2>4, <2>5, <2>6, <2>10
<1> QED BY <1>2, <1>3

-----------------------------------------------------------------------------
(* C strings.                                                               *)

LEMMA BytesAre ==
    ASSUME NEW t \in Seq(Bytes)
    PROVE  t \in [1 .. Len(t) -> Cell]
<1>1. DOMAIN t = 1 .. Len(t) /\ \A k \in 1 .. Len(t) : t[k] \in Cell
  BY DEF Cell
<1>2. t = [k \in 1 .. Len(t) |-> t[k]]
  OBVIOUS
<1> QED BY <1>1, <1>2

LEMMA CellsAre ==
    ASSUME NEW m \in Nat, NEW buf \in [1 .. m -> Cell]
    PROVE  buf \in Seq(Cell) /\ Len(buf) = m
OBVIOUS

\* strlen stops at the first NUL.
LEMMA StrLenIs ==
    ASSUME NEW m \in Nat, NEW buf \in [1 .. m -> Cell], NEW n \in 0 .. m - 1, buf[n + 1] = 0
    PROVE  /\ StrLen(buf) \in 0 .. n
           /\ buf[StrLen(buf) + 1] = 0
           /\ \A j \in 1 .. StrLen(buf) : buf[j] # 0
<1> DEFINE First(k) == buf[k + 1] = 0 /\ \A j \in 1 .. k : buf[j] # 0
<1> DEFINE S == {i \in 0 .. m - 1 : buf[i + 1] = 0}
<1>1. PICK k \in S : \A j \in S : k <= j
  <2>1. S \subseteq Nat /\ n \in S
    OBVIOUS
  <2> QED BY <2>1, LeastNumber
<1>2. \A j \in 1 .. k : buf[j] # 0
  <2>1. SUFFICES ASSUME NEW j \in 1 .. k, buf[j] = 0 PROVE FALSE
    OBVIOUS
  <2>2. j - 1 \in 0 .. m - 1 /\ (j - 1) + 1 = j /\ ~(k <= j - 1)
    BY <1>1
  <2> QED BY <1>1, <2>1, <2>2
<1>3. k \in 0 .. m - 1 /\ First(k)
  BY <1>1, <1>2
<1>4. StrLen(buf) = CHOOSE i \in 0 .. m - 1 : First(i)
  BY CellsAre DEF StrLen
<1>5. StrLen(buf) \in 0 .. m - 1 /\ First(StrLen(buf))
  <2> HIDE DEF First
  <2> QED BY <1>3, <1>4
<1>6. PICK l \in 0 .. m - 1 : l = StrLen(buf) /\ First(l)
  BY <1>5
<1>7. l <= n
  <2>1. SUFFICES ASSUME ~(l <= n) PROVE FALSE
    OBVIOUS
  <2>2. n + 1 \in 1 .. l
    BY <2>1
  <2> QED BY <1>6, <2>2
<1>8. l \in 0 .. n
  BY <1>7
<1> QED BY <1>6, <1>8

\* n bytes of t are before its first NUL, or t has none.
NulStops(t, n) ==
  /\ n \in 0 .. Len(t)
  /\ \A j \in 1 .. n : t[j] # 0
  /\ n < Len(t) => t[n + 1] = 0

LEMMA AbstractCString ==
    ASSUME NEW t \in Seq(Bytes), NEW n \in Nat, NulStops(t, n)
    PROVE  Abstract!CString(t) = SubSeq(t, 1, n)
<1> DEFINE nul == {k \in DOMAIN t : t[k] = 0}
<1> DEFINE First(k) == \A j \in nul : k <= j
<1>a. PICK m \in Nat : m = Len(t) /\ n <= m
  <2>1. Len(t) \in Nat /\ n \in 0 .. Len(t)
    BY DEF NulStops
  <2> QED BY <2>1
<1>0. n \in 0 .. Len(t) /\ DOMAIN t = 1 .. Len(t)
  BY DEF NulStops
<1>1. CASE n = Len(t)
  <2>1. nul = {}
    BY <1>0, <1>1 DEF NulStops
  <2>2. SubSeq(t, 1, n) = t
    BY <1>1
  <2> QED BY <2>1, <2>2 DEF Abstract!CString
<1>2. CASE n # Len(t)
  <2>1. n + 1 \in nul
    <3>0. n < m /\ n + 1 \in 1 .. m
      BY <1>a, <1>2
    <3>1. n < Len(t) /\ n + 1 \in DOMAIN t
      BY <3>0, <1>a, <1>0
    <3>2. t[n + 1] = 0
      BY <3>1 DEF NulStops
    <3> QED BY <3>1, <3>2
  <2>2. First(n + 1)
    <3>1. SUFFICES ASSUME NEW j \in nul, ~(n + 1 <= j) PROVE FALSE
      OBVIOUS
    <3>2. j \in 1 .. n /\ t[j] = 0
      BY <1>0, <3>1
    <3> QED BY <3>2 DEF NulStops
  <2>3. \A k \in nul : First(k) => k = n + 1
    <3>1. SUFFICES ASSUME NEW k \in nul, First(k) PROVE k = n + 1
      OBVIOUS
    <3>2. k <= n + 1
      BY <2>1, <3>1
    <3>3. n + 1 <= k
      BY <2>2, <3>1
    <3> QED BY <3>2, <3>3, <1>0
  <2>4. (CHOOSE k \in nul : First(k)) = n + 1
    <3> HIDE DEF First, nul
    <3> QED BY <2>1, <2>2, <2>3
  <2>5. Abstract!CString(t) = SubSeq(t, 1, (CHOOSE k \in nul : First(k)) - 1)
    BY <2>1 DEF Abstract!CString
  <2>6. (n + 1) - 1 = n
    BY <1>0
  <2> QED BY <2>4, <2>5, <2>6
<1> QED BY <1>1, <1>2

\* sds.c and the abstract string agree on what strlen sees of a text.
LEMMA CStringIs ==
    ASSUME NEW t \in Seq(Bytes)
    PROVE  /\ NulStops(t, StrLen(Append(t, 0)))
           /\ CString(t) = Abstract!CString(t)
           /\ CString(t) \in Seq(Bytes)
<1>1. PICK n \in Nat : n = Len(t)
  OBVIOUS
<1>2. PICK a : /\ a = Append(t, 0) /\ a \in [1 .. n + 1 -> Cell] /\ a[n + 1] = 0
               /\ \A k \in 1 .. n : a[k] = t[k]
  <2>1. Append(t, 0) \in Seq(Bytes) /\ Len(Append(t, 0)) = n + 1
    BY <1>1, NulIsByte
  <2>2. Append(t, 0) \in [1 .. n + 1 -> Cell]
    <3>1. PICK a \in Seq(Bytes) : a = Append(t, 0) /\ Len(a) = n + 1
      BY <2>1
    <3>2. a \in [1 .. Len(a) -> Cell]
      BY BytesAre
    <3> QED BY <3>1, <3>2
  <2>3. Append(t, 0)[n + 1] = 0 /\ \A k \in 1 .. n : Append(t, 0)[k] = t[k]
    BY <1>1
  <2> QED BY <2>2, <2>3
<1>3. PICK l \in 0 .. n : l = StrLen(a) /\ a[l + 1] = 0 /\ \A j \in 1 .. l : a[j] # 0
  <2>1. n + 1 \in Nat /\ n \in 0 .. (n + 1) - 1
    OBVIOUS
  <2> QED BY <1>2, <2>1, StrLenIs
<1>4. NulStops(t, l)
  <2>1. \A j \in 1 .. l : t[j] # 0
    BY <1>2, <1>3
  <2>2. l < n => t[l + 1] = 0
    BY <1>2, <1>3
  <2> QED BY <1>1, <2>1, <2>2 DEF NulStops
<1>5. CString(t) = SubSeq(t, 1, l) /\ SubSeq(t, 1, l) \in Seq(Bytes)
  BY <1>1, <1>2, <1>3 DEF CString
<1> QED BY <1>2, <1>3, <1>4, <1>5, AbstractCString

\* sdsupdatelen takes the string up to its first NUL.
LEMMA UpdateCuts ==
    ASSUME NEW h, Fitting(h), Ended(h)
    PROVE  Gives(sdsupdatelen(h), Abstract!CString(Str(h)))
<1>1. PICK len \in Nat, free \in Nat : len = h.len /\ free = h.free
  BY HeaderIs
<1>2. PICK m \in Nat : m = len + free + 1 /\ len \in 0 .. m - 1
  BY <1>1
<1>3. PICK buf \in [1 .. m -> Cell] : buf = h.buf /\ buf[len + 1] = 0
  BY <1>1, <1>2, HeaderIs DEF Ended
<1>4. PICK l \in 0 .. len : l = StrLen(buf) /\ buf[l + 1] = 0 /\ \A j \in 1 .. l : buf[j] # 0
  BY <1>2, <1>3, StrLenIs
<1>5. PICK str \in Seq(Bytes) : str = Str(h) /\ Len(str) = len /\ \A k \in 1 .. len : str[k] = buf[k]
  BY <1>1, <1>3, StrIs
<1>6. NulStops(str, l)
  <2>1. \A j \in 1 .. l : str[j] # 0
    BY <1>4, <1>5
  <2>2. l < len => str[l + 1] = 0
    BY <1>4, <1>5
  <2> QED BY <1>5, <2>1, <2>2 DEF NulStops
<1>7. PICK c : c = CutTo(h, l) /\ Fitting(c) /\ Str(c) = SubSeq(str, 1, l)
  BY <1>1, <1>5, Cuts
<1>8. Ended(c)
  BY <1>3, <1>4, <1>7 DEF Ended, CutTo
<1>9. sdsupdatelen(h) = c
  BY <1>1, <1>3, <1>4, <1>7 DEF sdsupdatelen, CutTo
<1> QED BY <1>5, <1>6, <1>7, <1>8, <1>9, AbstractCString DEF Gives

\* sdscatvprintf: doubling the buffer comes to an end, and what the last one lacks of the
\* text is behind a NUL.
LEMMA PrintfAppends ==
    ASSUME NEW h, Fitting(h), NEW t \in Seq(Bytes), NEW fmtlen \in Nat
    PROVE  Gives(sdscatvprintf(h, t, fmtlen), Str(h) \o Abstract!CString(t))
<1> DEFINE first == IF 2 * fmtlen > StaticBuf THEN 2 * fmtlen ELSE StaticBuf
<1> DEFINE untouched(k) == Len(t) < first * 2 ^ k - 1 \/ t[first * 2 ^ k - 1] = 0
<1> DEFINE Fits(k) == untouched(k) /\ \A j \in 0 .. k - 1 : ~untouched(j)
<1> DEFINE rounds == CHOOSE k \in 0 .. Len(t) : Fits(k)
<1> DEFINE fits == first * 2 ^ rounds - 1
<1> DEFINE u == IF Len(t) <= fits THEN t ELSE SubSeq(t, 1, fits)
<1>1. sdscatvprintf(h, t, fmtlen) = sdscatlen(h, CString(u))
  BY DEF sdscatvprintf
<1>2. first \in Nat /\ first > 2
  BY Sizes
<1>3. PICK n \in Nat : n = Len(t)
  OBVIOUS
<1>4. \A k \in Nat : first * 2 ^ k - 1 \in Nat /\ k < first * 2 ^ k - 1
  <2> HIDE DEF first
  <2> TAKE k \in Nat
  <2>1. PICK c \in Nat : c = 2 ^ k /\ k < c
    BY PowerOfTwo
  <2>2. PICK f \in Nat : f = first /\ f >= 3
    BY <1>2
  <2>3. PICK d \in Nat : f = 3 + d
    <3>1. f - 3 \in Nat /\ f = 3 + (f - 3)
      BY <2>2
    <3> QED BY <3>1
  <2>4. f * c = 3 * c + d * c /\ d * c \in Nat
    BY <2>3
  <2>5. f * c - 1 \in Nat /\ k < f * c - 1
    BY <2>1, <2>4
  <2> QED BY <2>1, <2>2, <2>5
<1>5. untouched(n)
  BY <1>3, <1>4
<1>6. rounds \in 0 .. n /\ untouched(rounds)
  <2> DEFINE S == {k \in 0 .. n : untouched(k)}
  <2> HIDE DEF untouched
  <2>1. S \subseteq Nat /\ S # {}
    BY <1>5
  <2>2. PICK k \in S : \A j \in S : k <= j
    BY <2>1, LeastNumber
  <2>3. \A j \in 0 .. k - 1 : ~untouched(j)
    <3>1. SUFFICES ASSUME NEW j \in 0 .. k - 1, untouched(j) PROVE FALSE
      OBVIOUS
    <3>2. j \in S /\ ~(k <= j)
      BY <2>2, <3>1
    <3> QED BY <2>2, <3>2
  <2>4. k \in 0 .. Len(t) /\ Fits(k)
    BY <1>3, <2>2, <2>3
  <2>5. rounds \in 0 .. Len(t) /\ Fits(rounds)
    <3> HIDE DEF Fits
    <3> QED BY <2>4
  <2> QED BY <1>3, <2>5
<1>7. PICK f \in Nat : f = fits
  <2> HIDE DEF first, rounds
  <2>1. rounds \in Nat
    BY <1>6
  <2>2. first * 2 ^ rounds - 1 \in Nat
    BY <1>4, <2>1
  <2> QED BY <2>2
<1>8. n < f \/ t[f] = 0
  BY <1>3, <1>6, <1>7
<1>9. f > 0
  <2> HIDE DEF first
  <2>1. rounds \in Nat
    BY <1>3, <1>6
  <2>2. rounds < first * 2 ^ rounds - 1
    BY <1>4, <2>1
  <2> QED BY <1>7, <2>1, <2>2
<1>10. u = IF n <= f THEN t ELSE SubSeq(t, 1, f)
  BY <1>3, <1>7
<1> HIDE DEF u, fits, rounds, Fits, untouched, first
<1>11. CString(u) = Abstract!CString(t) /\ CString(u) \in Seq(Bytes)
  <2>1. CASE n <= f
    BY <1>10, <2>1, CStringIs
  <2>2. CASE ~(n <= f)
    <3>1. PICK v \in Seq(Bytes) : v = u /\ Len(v) = f /\ \A k \in 1 .. f : v[k] = t[k]
      <4>1. u = SubSeq(t, 1, f) /\ f <= Len(t)
        BY <1>3, <1>10, <2>2
      <4>2. SubSeq(t, 1, f) \in Seq(Bytes) /\ Len(SubSeq(t, 1, f)) = f
            /\ \A k \in 1 .. f : SubSeq(t, 1, f)[k] = t[k]
        BY <4>1
      <4> QED BY <4>1, <4>2
    <3>2. v[f] = 0
      BY <1>8, <1>9, <2>2, <3>1
    <3>3. PICK l \in 0 .. f : l = StrLen(Append(v, 0)) /\ NulStops(v, l)
      BY <3>1, CStringIs DEF NulStops
    <3>4. l # f
      BY <1>9, <3>2, <3>3 DEF NulStops
    <3>5. l < f /\ l \in Nat /\ l \in 0 .. n /\ l + 1 \in 1 .. f
      BY <2>2, <3>4
    <3>6. NulStops(t, l)
      <4>1. \A j \in 1 .. l : t[j] # 0
        <5> TAKE j \in 1 .. l
        <5>1. j \in 1 .. f /\ v[j] # 0
          BY <3>3, <3>5 DEF NulStops
        <5> QED BY <3>1, <5>1
      <4>2. t[l + 1] = 0
        <5>1. v[l + 1] = 0
          BY <3>1, <3>3, <3>5 DEF NulStops
        <5> QED BY <3>1, <3>5, <5>1
      <4> QED BY <1>3, <3>5, <4>1, <4>2 DEF NulStops
    <3>7. Abstract!CString(t) = SubSeq(t, 1, l) /\ Abstract!CString(v) = SubSeq(v, 1, l)
      BY <3>3, <3>5, <3>6, AbstractCString
    <3>8. SubSeq(t, 1, l) = SubSeq(v, 1, l)
      <4>1. \A k \in 1 .. l : t[k] = v[k]
        BY <3>1, <3>5
      <4> QED BY <4>1, <3>1, <3>5, <1>3, <2>2
    <3> QED BY <3>1, <3>7, <3>8, CStringIs
  <2> QED BY <2>1, <2>2
<1> QED BY <1>1, <1>11, CatAppends

-----------------------------------------------------------------------------
(* Parts of the string.                                                     *)

\* A part that moves to the front.
LEMMA Moves ==
    ASSUME NEW h, Fitting(h), NEW from \in Nat, NEW n \in Nat, from + n <= h.len
    PROVE  Gives(MovedFront(h, from, n), SubSeq(Str(h), from + 1, from + n))
<1>1. PICK len \in Nat, free \in Nat : len = h.len /\ free = h.free
  BY HeaderIs
<1>2. CASE from = 0
  <2>1. n \in 0 .. h.len /\ SubSeq(Str(h), from + 1, from + n) = SubSeq(Str(h), 1, n)
    BY <1>1, <1>2
  <2>2. PICK c : c = CutTo(h, n) /\ Fitting(c) /\ Str(c) = SubSeq(Str(h), 1, n)
    BY <2>1, Cuts
  <2>3. Gives(Closed(c), SubSeq(Str(h), 1, n))
    BY <2>2, Closes
  <2>4. MovedFront(h, from, n) = Closed(c)
    BY <1>2, <2>2 DEF MovedFront, Closed, CutTo
  <2> QED BY <2>1, <2>3, <2>4
<1>3. CASE from # 0
  <2>1. PICK m \in Nat : m = len + free + 1
    BY <1>1
  <2>2. PICK buf \in [1 .. m -> Cell] : buf = h.buf
    BY <1>1, <2>1, HeaderIs
  <2>3. PICK str \in Seq(Bytes) : str = Str(h) /\ Len(str) = len /\ \A k \in 1 .. len : str[k] = buf[k]
    BY <1>1, <2>2, StrIs
  <2>4. PICK part \in Seq(Bytes) : /\ part = SubSeq(str, from + 1, from + n) /\ Len(part) = n
                                 /\ \A k \in 1 .. n : part[k] = str[from + k]
    <3>1. /\ SubSeq(str, from + 1, from + n) \in Seq(Bytes)
          /\ Len(SubSeq(str, from + 1, from + n)) = n
          /\ \A k \in 1 .. n : SubSeq(str, from + 1, from + n)[k] = str[from + k]
      BY <1>1, <2>3
    <3> QED BY <3>1
  <2>5. SubSeq(h.buf, from + 1, from + n) = part
    <3>1. PICK sub : /\ sub = SubSeq(buf, from + 1, from + n) /\ sub \in Seq(Cell) /\ Len(sub) = n
                     /\ \A k \in 1 .. n : sub[k] = buf[from + k]
      <4>0. from + n <= m
        BY <1>1, <2>1
      <4>1. buf \in Seq(Cell) /\ Len(buf) = m /\ from + n <= m
        BY <4>0, CellsAre
      <4>2. /\ SubSeq(buf, from + 1, from + n) \in Seq(Cell)
            /\ Len(SubSeq(buf, from + 1, from + n)) = n
            /\ \A k \in 1 .. n : SubSeq(buf, from + 1, from + n)[k] = buf[from + k]
        BY <4>1
      <4> QED BY <4>2
    <3>2. \A k \in 1 .. n : from + k \in 1 .. len
      BY <1>1
    <3>3. \A k \in 1 .. n : sub[k] = part[k]
      BY <2>3, <2>4, <3>1, <3>2
    <3>4. sub = part
      <4>1. part \in Seq(Cell)
        BY DEF Cell
      <4>2. Len(sub) = Len(part) /\ \A k \in 1 .. Len(part) : sub[k] = part[k]
        BY <2>4, <3>1, <3>3
      <4> QED BY <3>1, <4>1, <4>2
    <3> QED BY <2>2, <3>1, <3>4
  <2>6. PICK e : e = CutTo(h, 0) /\ Fitting(e) /\ Str(e) = << >>
    BY Empties
  <2>7. e.len = 0 /\ e.free = free + len /\ e.buf = h.buf
    BY <1>1, <2>6 DEF CutTo
  <2>8. PICK g : g = Longer(e, part) /\ Fitting(g) /\ Str(g) = << >> \o part
    <3>1. Len(part) <= e.free
      BY <1>1, <2>4, <2>7
    <3> QED BY <2>6, <3>1, Lengthens
  <2>9. << >> \o part = part
    OBVIOUS
  <2>10. Gives(Closed(g), part)
    BY <2>8, <2>9, Closes
  <2>11. g.len = n /\ g.free = free + (len - n) /\ g.buf = Overlay(h.buf, 0, part)
    <3>1. g.len = 0 + n /\ g.free = (free + len) - n /\ g.buf = Overlay(e.buf, e.len, part)
      BY <2>4, <2>7, <2>8 DEF Longer
    <3> QED BY <2>7, <3>1
  <2>12. Closed(g) = [len |-> n, free |-> free + (len - n), buf |-> NulAt(Overlay(h.buf, 0, part), n)]
    BY <2>11 DEF Closed
  <2>13. MovedFront(h, from, n) = Closed(g)
    BY <1>1, <1>3, <2>5, <2>12 DEF MovedFront
  <2> QED BY <2>3, <2>4, <2>10, <2>13
<1> QED BY <1>2, <1>3

\* sdsrange keeps what is between the two places, as far as there is any.
LEMMA RangeIs ==
    ASSUME NEW h, Fitting(h), Ended(h), NEW i \in Int, NEW j \in Int
    PROVE  Gives(sdsrange(h, i, j),
                 Abstract!Between(Abstract!Place(i, Str(h)), Abstract!Place(j, Str(h)), Str(h)))
<1>1. PICK len \in Nat : len = h.len
  BY HeaderIs
<1>2. PICK str \in Seq(Bytes) : str = Str(h) /\ Len(str) = len
  BY <1>1, StrIs
<1>3. PICK a \in Nat : a = (IF i >= 0 THEN i ELSE IF len + i < 0 THEN 0 ELSE len + i) /\ a = Abstract!Place(i, str)
  BY <1>2 DEF Abstract!Place
<1>4. PICK b \in Nat : b = (IF j >= 0 THEN j ELSE IF len + j < 0 THEN 0 ELSE len + j) /\ b = Abstract!Place(j, str)
  BY <1>2 DEF Abstract!Place
<1>5. PICK n : n = IF a > b \/ a >= len THEN 0 ELSE IF b >= len THEN len - a ELSE b - a + 1
  OBVIOUS
<1>6. sdsrange(h, i, j) = IF len = 0 THEN h ELSE MovedFront(h, IF n = 0 THEN 0 ELSE a, n)
  BY <1>1, <1>3, <1>4, <1>5 DEF sdsrange
<1>7. Abstract!Between(a, b, str) = SubSeq(str, a + 1, IF b < len THEN b + 1 ELSE len)
  BY <1>2 DEF Abstract!Between
<1>8. CASE len = 0
  <2>1. str = << >>
    BY <1>2, <1>8
  <2>2. SubSeq(str, a + 1, len) = << >>
    BY <1>2, <1>8
  <2>3. Abstract!Between(a, b, str) = str
    BY <1>7, <1>8, <2>1, <2>2
  <2> QED BY <1>2, <1>3, <1>4, <1>6, <1>8, <2>3 DEF Gives
<1>9. CASE len # 0 /\ (a > b \/ a >= len)
  <2>1. n = 0
    BY <1>5, <1>9
  <2>2. Gives(MovedFront(h, 0, 0), SubSeq(str, 0 + 1, 0 + 0))
    BY <1>1, <1>2, Moves
  <2>3. SubSeq(str, 0 + 1, 0 + 0) = << >>
    BY <1>2
  <2>4. SubSeq(str, a + 1, IF b < len THEN b + 1 ELSE len) = << >>
    <3>1. PICK e \in Nat : e = (IF b < len THEN b + 1 ELSE len) /\ e < a + 1
      BY <1>9
    <3>2. SubSeq(str, a + 1, e) = << >>
      BY <1>2, <3>1
    <3> QED BY <3>1, <3>2
  <2> QED BY <1>2, <1>3, <1>4, <1>6, <1>7, <1>9, <2>1, <2>2, <2>3, <2>4
<1>10. CASE len # 0 /\ ~(a > b \/ a >= len)
  <2>1. n \in Nat /\ n > 0 /\ a + n = (IF b < len THEN b + 1 ELSE len) /\ a + n <= len
    BY <1>5, <1>10
  <2>2. Gives(MovedFront(h, a, n), SubSeq(str, a + 1, a + n))
    BY <1>1, <1>2, <2>1, Moves
  <2>3. sdsrange(h, i, j) = MovedFront(h, a, n)
    BY <1>6, <1>10, <2>1
  <2>4. Abstract!Between(a, b, str) = SubSeq(str, a + 1, a + n)
    BY <1>7, <2>1
  <2> QED BY <1>2, <1>3, <1>4, <2>2, <2>3, <2>4
<1> QED BY <1>8, <1>9, <1>10

\* sdstrim takes the bytes of the set off both ends, and everything when there are no others.
LEMMA TrimIs ==
    ASSUME NEW h, Fitting(h), NEW set \in Seq(Bytes)
    PROVE  Gives(sdstrim(h, set), Abstract!Trimmed(Str(h), set))
<1> DEFINE in(k) == InSet(set, h.buf[k])
<1> DEFINE Front(k) == (\A j \in 1 .. k : in(j)) /\ (k = h.len \/ ~in(k + 1))
<1> DEFINE Back(k) == /\ \A j \in k + 2 .. h.len : in(j)
                      /\ k <= 0 \/ ~in(k + 1)
                      /\ k = -1 => h.len = 0
<1> DEFINE sp == CHOOSE k \in 0 .. h.len : Front(k)
<1> DEFINE ep == CHOOSE k \in -1 .. h.len - 1 : Back(k)
<1> DEFINE kept == {k \in 1 .. h.len : ~in(k)}
<1>1. PICK len \in Nat : len = h.len
  BY HeaderIs
<1>2. sdstrim(h, set) = MovedFront(h, sp, IF sp > ep THEN 0 ELSE ep - sp + 1)
  BY DEF sdstrim
<1>3. PICK str \in Seq(Bytes) : str = Str(h) /\ Len(str) = len /\ \A k \in 1 .. len : str[k] = h.buf[k]
  BY <1>1, StrIs
<1>4. {k \in DOMAIN str : str[k] # 0 /\ ~\E i \in DOMAIN set : set[i] = str[k]} = kept
  <2>1. DOMAIN str = 1 .. len
    BY <1>3
  <2>2. \A k \in 1 .. len : ~in(k) <=> (str[k] # 0 /\ ~\E i \in DOMAIN set : set[i] = str[k])
    BY <1>3 DEF InSet
  <2> HIDE DEF in
  <2> QED BY <1>1, <2>1, <2>2
<1>5. kept = {} => Abstract!Trimmed(str, set) = << >>
  BY <1>4 DEF Abstract!Trimmed
<1>6. kept # {} => Abstract!Trimmed(str, set) = SubSeq(str, CHOOSE k \in kept : \A j \in kept : k <= j,
                                                            CHOOSE k \in kept : \A j \in kept : k >= j)
  BY <1>4 DEF Abstract!Trimmed
<1>7. kept \subseteq 1 .. len /\ \A k \in 1 .. len : k \notin kept <=> in(k)
  BY <1>1
<1> HIDE DEF in
<1>8. CASE kept = {}
  <2>1. \A k \in 1 .. len : in(k)
    BY <1>7, <1>8
  <2>2. len \in 0 .. h.len /\ Front(len)
    BY <1>1, <2>1
  <2>3. sp \in 0 .. h.len /\ Front(sp)
    <3> HIDE DEF Front
    <3> QED BY <2>2
  <2>4. sp = len
    <3>1. PICK k \in 0 .. len : k = sp /\ Front(k)
      BY <1>1, <2>3
    <3>2. k + 1 \in 1 .. len \/ k = len
      OBVIOUS
    <3> QED BY <1>1, <2>1, <3>1, <3>2
  <2>5. \E k \in -1 .. h.len - 1 : Back(k)
    <3>1. CASE len = 0
      <4>1. -1 \in -1 .. h.len - 1 /\ Back(-1)
        BY <1>1, <3>1
      <4> QED BY <4>1
    <3>2. CASE len # 0
      <4>1. 0 \in -1 .. h.len - 1 /\ Back(0)
        BY <1>1, <2>1, <3>2
      <4> QED BY <4>1
    <3> QED BY <3>1, <3>2
  <2>6. ep \in -1 .. h.len - 1
    <3> HIDE DEF Back
    <3> QED BY <2>5
  <2>7. sp > ep
    <3> HIDE DEF sp, ep
    <3> QED BY <1>1, <2>4, <2>6
  <2>8. sdstrim(h, set) = MovedFront(h, len, 0)
    <3> HIDE DEF sp, ep
    <3> QED BY <1>2, <2>4, <2>7
  <2>9. Gives(MovedFront(h, len, 0), SubSeq(str, len + 1, len + 0))
    <3>1. len + 0 <= h.len
      BY <1>1
    <3> QED BY <1>3, <3>1, Moves
  <2>10. SubSeq(str, len + 1, len + 0) = << >>
    BY <1>3
  <2> QED BY <1>3, <1>5, <1>8, <2>8, <2>9, <2>10
<1>9. CASE kept # {}
  <2> HIDE DEF kept
  <2>1. PICK lo \in kept : \A j \in kept : lo <= j
    <3>1. kept \subseteq Nat
      BY <1>7
    <3> QED BY <1>9, <3>1, LeastNumber
  <2>2. PICK hi \in kept : \A j \in kept : j <= hi
    BY <1>7, <1>9, LargestNumber
  <2>3. lo \in 1 .. len /\ hi \in 1 .. len /\ lo <= hi
    BY <1>7, <2>1, <2>2
  <2>4. (CHOOSE k \in kept : \A j \in kept : k <= j) = lo
    <3>1. \A k \in kept : (\A j \in kept : k <= j) => k = lo
      BY <1>7, <2>1
    <3> QED BY <2>1, <3>1
  <2>5. (CHOOSE k \in kept : \A j \in kept : k >= j) = hi
    <3>1. \A k \in kept : (\A j \in kept : k >= j) => k = hi
      BY <1>7, <2>2
    <3>2. \A j \in kept : hi >= j
      BY <1>7, <2>2
    <3> QED BY <3>1, <3>2
  <2>6. sp = lo - 1
    <3>1. Front(lo - 1)
      <4>1. \A j \in 1 .. lo - 1 : in(j)
        BY <1>7, <2>1, <2>3
      <4>2. ~in(lo - 1 + 1)
        BY <1>7, <2>1, <2>3
      <4> QED BY <4>1, <4>2
    <3>2. ASSUME NEW k \in 0 .. h.len, Front(k)
          PROVE  k = lo - 1
      <4>1. ~(k > lo - 1)
        <5>1. SUFFICES ASSUME k > lo - 1 PROVE FALSE
          OBVIOUS
        <5>2. lo \in 1 .. k
          BY <1>1, <2>3, <5>1
        <5> QED BY <1>7, <2>1, <2>3, <3>2, <5>2
      <4>2. ~(k < lo - 1)
        <5>1. SUFFICES ASSUME k < lo - 1 PROVE FALSE
          OBVIOUS
        <5>2. k + 1 \in 1 .. len /\ ~(lo <= k + 1) /\ k # h.len
          BY <1>1, <2>3, <5>1
        <5>3. ~in(k + 1)
          BY <3>2, <5>2
        <5> QED BY <1>7, <2>1, <5>2, <5>3
      <4> QED BY <1>1, <2>3, <4>1, <4>2
    <3>3. lo - 1 \in 0 .. h.len
      BY <1>1, <2>3
    <3> HIDE DEF Front
    <3> QED BY <3>1, <3>2, <3>3
  <2>7. ep = hi - 1
    <3>1. Back(hi - 1)
      <4>1. \A j \in hi - 1 + 2 .. h.len : in(j)
        <5>1. SUFFICES ASSUME NEW j \in hi - 1 + 2 .. h.len PROVE in(j)
          OBVIOUS
        <5>2. j \in 1 .. len /\ ~(j <= hi)
          BY <1>1, <2>3
        <5> QED BY <1>7, <2>2, <5>2
      <4>2. ~in(hi - 1 + 1) /\ hi - 1 # -1
        BY <1>7, <2>2, <2>3
      <4> QED BY <4>1, <4>2
    <3>2. ASSUME NEW k \in -1 .. h.len - 1, Back(k)
          PROVE  k = hi - 1
      <4>1. k >= 0
        BY <1>1, <2>3, <3>2
      <4>2. ~(hi > k + 1)
        <5>1. SUFFICES ASSUME hi > k + 1 PROVE FALSE
          OBVIOUS
        <5>2. hi \in k + 2 .. h.len
          BY <1>1, <2>3, <4>1, <5>1
        <5> QED BY <1>7, <2>2, <2>3, <3>2, <5>2
      <4>3. ~(hi < k + 1)
        <5>1. SUFFICES ASSUME hi < k + 1 PROVE FALSE
          OBVIOUS
        <5>2. k + 1 \in 1 .. len /\ ~(k + 1 <= hi) /\ ~(k <= 0)
          BY <1>1, <2>3, <4>1, <5>1
        <5>3. ~in(k + 1)
          BY <3>2, <5>2
        <5> QED BY <1>7, <2>2, <5>2, <5>3
      <4> QED BY <1>1, <2>3, <4>1, <4>2, <4>3
    <3>3. hi - 1 \in -1 .. h.len - 1
      BY <1>1, <2>3
    <3> HIDE DEF Back
    <3> QED BY <3>1, <3>2, <3>3
  <2>8. PICK n \in Nat, from \in Nat : from = lo - 1 /\ n = hi - lo + 1 /\ from + n <= len
    BY <2>3
  <2>9. sdstrim(h, set) = MovedFront(h, from, n)
    <3> HIDE DEF sp, ep
    <3>1. ~(sp > ep) /\ ep - sp + 1 = n /\ sp = from
      BY <2>3, <2>6, <2>7, <2>8
    <3> QED BY <1>2, <3>1
  <2>10. Gives(MovedFront(h, from, n), SubSeq(str, from + 1, from + n))
    BY <1>1, <1>3, <2>8, Moves
  <2>11. from + 1 = lo /\ from + n = hi
    BY <2>3, <2>8
  <2>12. Abstract!Trimmed(str, set) = SubSeq(str, lo, hi)
    BY <1>6, <1>9, <2>4, <2>5
  <2> QED BY <1>3, <2>9, <2>10, <2>11, <2>12
<1> QED BY <1>8, <1>9

-----------------------------------------------------------------------------
(* Bytes replaced, and formats.                                             *)

\* Bytes laid over those of the string.
LEMMA Replaces ==
    ASSUME NEW h, Fitting(h), Ended(h), NEW t \in Seq(Bytes), Len(t) = h.len
    PROVE  Gives([h EXCEPT !.buf = Overlay(h.buf, 0, t)], t)
<1>1. PICK len \in Nat, free \in Nat : len = h.len /\ free = h.free
  BY HeaderIs
<1>2. PICK m \in Nat : m = len + free + 1
  BY <1>1
<1>3. PICK buf \in [1 .. m -> Cell] : buf = h.buf /\ buf[len + 1] = 0
  BY <1>1, <1>2, HeaderIs DEF Ended
<1>4. PICK new \in [1 .. m -> Cell] :
        /\ new = Overlay(buf, 0, t)
        /\ \A k \in 1 .. m : new[k] = IF k \in 0 + 1 .. 0 + len THEN t[k - 0] ELSE buf[k]
  <2>1. t \in Seq(Cell) /\ 0 + Len(t) <= m /\ 0 \in Nat
    BY <1>1, <1>2 DEF Cell
  <2>2. /\ Overlay(buf, 0, t) \in [1 .. m -> Cell]
        /\ \A k \in 1 .. m : Overlay(buf, 0, t)[k] = IF k \in 0 + 1 .. 0 + Len(t) THEN t[k - 0] ELSE buf[k]
    BY <2>1, Laid
  <2> QED BY <1>1, <2>2
<1>5. \A k \in 1 .. Len(t) : new[k] = t[k]
  <2> TAKE k \in 1 .. Len(t)
  <2>1. k \in 1 .. m /\ k \in 0 + 1 .. 0 + len /\ k - 0 = k
    BY <1>1, <1>2
  <2> QED BY <1>4, <2>1
<1>6. new[Len(t) + 1] = 0
  <2>1. len + 1 \in 1 .. m /\ len + 1 \notin 0 + 1 .. 0 + len /\ Len(t) = len
    BY <1>1, <1>2
  <2> QED BY <1>3, <1>4, <2>1
<1>7. new \in [1 .. Len(t) + free + 1 -> Cell]
  BY <1>1, <1>2
<1>8. Gives([len |-> Len(t), free |-> free, buf |-> new], t)
  BY <1>5, <1>6, <1>7, GivesBy
<1>9. [h EXCEPT !.buf = Overlay(h.buf, 0, t)] = [len |-> Len(t), free |-> free, buf |-> new]
  <2>1. h = [len |-> h.len, free |-> h.free, buf |-> h.buf]
    BY HeaderIs
  <2>2. [h EXCEPT !.buf = Overlay(h.buf, 0, t)] = [len |-> h.len, free |-> h.free, buf |-> Overlay(h.buf, 0, t)]
    <3>1. PICK l, f, b, o : l = h.len /\ f = h.free /\ b = h.buf /\ o = Overlay(h.buf, 0, t)
      OBVIOUS
    <3>2. h = [len |-> l, free |-> f, buf |-> b]
      BY <2>1, <3>1
    <3>3. [h EXCEPT !.buf = o] = [len |-> l, free |-> f, buf |-> o]
      BY <3>2
    <3> QED BY <3>1, <3>3
  <2> QED BY <1>1, <1>3, <1>4, <2>2
<1> QED BY <1>8, <1>9

LEMMA Letters ==
    ASSUME NEW c \in Bytes
    PROVE  tolower(c) \in Bytes /\ toupper(c) \in Bytes
<1>1. c \in Int /\ 65 .. 90 \subseteq Bytes /\ 97 .. 122 \subseteq Bytes
  BY SdsAssumption
<1>2. c \in 65 .. 90 => c + 32 \in 97 .. 122
  OBVIOUS
<1>3. c \in 97 .. 122 => c - 32 \in 65 .. 90
  OBVIOUS
<1> QED BY <1>1, <1>2, <1>3 DEF tolower, toupper

\* sdstolower and sdstoupper change the letters of the string.
LEMMA CaseChanges ==
    ASSUME NEW h, Fitting(h), Ended(h)
    PROVE  /\ Gives(sdstolower(h), Abstract!MapBytes(Abstract!Lower, Str(h)))
           /\ Gives(sdstoupper(h), Abstract!MapBytes(Abstract!Upper, Str(h)))
<1>1. PICK str \in Seq(Bytes) : str = Str(h) /\ Len(str) = h.len /\ \A k \in 1 .. h.len : str[k] = h.buf[k]
  BY StrIs
<1>2. DOMAIN str = 1 .. h.len /\ h.len \in Nat
  BY <1>1
<1>3. PICK low \in Seq(Bytes) : /\ low = [k \in 1 .. h.len |-> tolower(h.buf[k])] /\ Len(low) = h.len
                               /\ low = Abstract!MapBytes(Abstract!Lower, str)
  <2>1. \A k \in 1 .. h.len : tolower(h.buf[k]) \in Bytes
    BY Letters DEF Fitting
  <2>2. [k \in 1 .. h.len |-> tolower(h.buf[k])] \in Seq(Bytes) /\ Len([k \in 1 .. h.len |-> tolower(h.buf[k])]) = h.len
    BY <1>2, <2>1
  <2>3. \A k \in 1 .. h.len : tolower(h.buf[k]) = Abstract!Lower(str[k])
    BY <1>1 DEF tolower, Abstract!Lower
  <2>4. Abstract!MapBytes(Abstract!Lower, str) = [k \in DOMAIN str |-> Abstract!Lower(str[k])]
    BY DEF Abstract!MapBytes
  <2> QED BY <1>2, <2>2, <2>3, <2>4
<1>4. PICK up \in Seq(Bytes) : /\ up = [k \in 1 .. h.len |-> toupper(h.buf[k])] /\ Len(up) = h.len
                              /\ up = Abstract!MapBytes(Abstract!Upper, str)
  <2>1. \A k \in 1 .. h.len : toupper(h.buf[k]) \in Bytes
    BY Letters DEF Fitting
  <2>2. [k \in 1 .. h.len |-> toupper(h.buf[k])] \in Seq(Bytes) /\ Len([k \in 1 .. h.len |-> toupper(h.buf[k])]) = h.len
    BY <1>2, <2>1
  <2>3. \A k \in 1 .. h.len : toupper(h.buf[k]) = Abstract!Upper(str[k])
    BY <1>1 DEF toupper, Abstract!Upper
  <2>4. Abstract!MapBytes(Abstract!Upper, str) = [k \in DOMAIN str |-> Abstract!Upper(str[k])]
    BY DEF Abstract!MapBytes
  <2> QED BY <1>2, <2>2, <2>3, <2>4
<1>5. sdstolower(h) = [h EXCEPT !.buf = Overlay(h.buf, 0, low)]
  BY <1>3 DEF sdstolower, Mapped
<1>6. sdstoupper(h) = [h EXCEPT !.buf = Overlay(h.buf, 0, up)]
  BY <1>4 DEF sdstoupper, Mapped
<1> QED BY <1>1, <1>3, <1>4, <1>5, <1>6, Replaces

\* The byte c may become e: it stays, or the first place where it is found decides.
MapsTo(c, e, from, to) ==
  \/ e = c /\ ~\E i \in DOMAIN from : from[i] = c
  \/ \E i \in DOMAIN from : from[i] = c /\ e = to[i] /\ \A j \in 1 .. i - 1 : from[j] # c

LEMMA MapCharIs ==
    ASSUME NEW c \in Bytes, NEW from \in Seq(Bytes), NEW to \in Seq(Bytes), Len(from) = Len(to)
    PROVE  MapChar(c, from, to) \in Bytes /\ MapsTo(c, MapChar(c, from, to), from, to)
<1> DEFINE found == {i \in DOMAIN from : from[i] = c}
<1> DEFINE First(i) == \A j \in found : i <= j
<1>1. CASE found = {}
  BY <1>1 DEF MapChar, MapsTo
<1>2. CASE found # {}
  <2>1. PICK i \in found : First(i)
    <3>1. found \subseteq Nat
      OBVIOUS
    <3> QED BY <1>2, <3>1, LeastNumber
  <2>2. PICK l \in found : l = (CHOOSE k \in found : First(k)) /\ First(l)
    <3> HIDE DEF First, found
    <3> QED BY <2>1
  <2>3. MapChar(c, from, to) = to[l]
    BY <1>2, <2>2 DEF MapChar
  <2>4. l \in 1 .. Len(from) /\ from[l] = c /\ to[l] \in Bytes
    BY <2>2
  <2>5. \A j \in 1 .. l - 1 : from[j] # c
    <3>1. SUFFICES ASSUME NEW j \in 1 .. l - 1, from[j] = c PROVE FALSE
      OBVIOUS
    <3>2. j \in found /\ ~(l <= j)
      BY <2>4, <3>1
    <3> QED BY <2>2, <3>2
  <2> QED BY <2>3, <2>4, <2>5 DEF MapsTo
<1> QED BY <1>1, <1>2

\* sdsmapchars does that to every byte of the string.
LEMMA MapsChars ==
    ASSUME NEW h, Fitting(h), Ended(h), NEW from \in Seq(Bytes), NEW to \in Seq(Bytes), Len(from) = Len(to)
    PROVE  \E t \in Seq(Bytes) :
             /\ Gives(sdsmapchars(h, from, to), t)
             /\ Len(t) = Len(Str(h))
             /\ \A k \in DOMAIN Str(h) : MapsTo(Str(h)[k], t[k], from, to)
<1>1. PICK str \in Seq(Bytes) : str = Str(h) /\ Len(str) = h.len /\ \A k \in 1 .. h.len : str[k] = h.buf[k]
  BY StrIs
<1>2. DOMAIN str = 1 .. h.len /\ h.len \in Nat
  BY <1>1
<1>3. PICK t \in Seq(Bytes) : /\ t = [k \in 1 .. h.len |-> MapChar(h.buf[k], from, to)] /\ Len(t) = h.len
                             /\ \A k \in 1 .. h.len : t[k] = MapChar(str[k], from, to)
  <2>1. \A k \in 1 .. h.len : MapChar(h.buf[k], from, to) \in Bytes
    BY MapCharIs DEF Fitting
  <2>2. /\ [k \in 1 .. h.len |-> MapChar(h.buf[k], from, to)] \in Seq(Bytes)
        /\ Len([k \in 1 .. h.len |-> MapChar(h.buf[k], from, to)]) = h.len
    BY <1>2, <2>1
  <2> QED BY <1>1, <2>2
<1>4. Gives(sdsmapchars(h, from, to), t)
  <2>1. sdsmapchars(h, from, to) = [h EXCEPT !.buf = Overlay(h.buf, 0, t)]
    BY <1>3 DEF sdsmapchars, Mapped
  <2> QED BY <1>3, <2>1, Replaces
<1>5. \A k \in DOMAIN str : MapsTo(str[k], t[k], from, to)
  <2> TAKE k \in DOMAIN str
  <2>1. k \in 1 .. h.len /\ str[k] \in Bytes
    BY <1>2
  <2>2. MapsTo(str[k], MapChar(str[k], from, to), from, to)
    BY <2>1, MapCharIs
  <2> QED BY <1>3, <2>1, <2>2
<1> QED BY <1>1, <1>3, <1>4, <1>5

\* One round of sdscatfmt makes room for what it puts behind the string.
LEMMA FmtAppends ==
    ASSUME NEW h, Fitting(h), NEW d \in Directive, d.arg \/ Len(d.text) = 1
    PROVE  Fitting(FmtPut(h, d)) /\ Str(FmtPut(h, d)) = Str(h) \o d.text
<1>1. d.text \in Seq(Bytes) /\ Len(d.text) \in Nat
  BY DEF Directive
<1>2. PICK one : /\ one = (IF h.free = 0 THEN sdsMakeRoomFor(h, 1) ELSE h)
                 /\ Fitting(one) /\ one.free \in Nat /\ one.free >= 1 /\ Str(one) = Str(h)
  <2>1. CASE h.free = 0
    <3>1. /\ Fitting(sdsMakeRoomFor(h, 1)) /\ sdsMakeRoomFor(h, 1).free >= 1
          /\ Str(sdsMakeRoomFor(h, 1)) = Str(h)
      BY RoomMade, RoomKeeps
    <3> QED BY <2>1, <3>1, HeaderIs
  <2>2. CASE h.free # 0
    BY <2>2, HeaderIs
  <2> QED BY <2>1, <2>2
<1>3. PICK r : r = FmtRoom(h, d) /\ Fitting(r) /\ r.free >= Len(d.text) /\ Str(r) = Str(h)
  <2>1. FmtRoom(h, d) = IF d.arg /\ one.free < Len(d.text) THEN sdsMakeRoomFor(one, Len(d.text)) ELSE one
    BY <1>2 DEF FmtRoom
  <2>2. CASE d.arg /\ one.free < Len(d.text)
    <3>1. /\ Fitting(sdsMakeRoomFor(one, Len(d.text)))
          /\ sdsMakeRoomFor(one, Len(d.text)).free >= Len(d.text)
          /\ Str(sdsMakeRoomFor(one, Len(d.text))) = Str(one)
      BY <1>1, <1>2, RoomMade, RoomKeeps
    <3> QED BY <1>2, <2>1, <2>2, <3>1
  <2>3. CASE ~(d.arg /\ one.free < Len(d.text))
    <3>1. one.free >= Len(d.text)
      <4>1. CASE one.free < Len(d.text)
        <5>1. Len(d.text) = 1
          BY <2>3, <4>1, Zenon
        <5> QED BY <1>2, <4>1, <5>1
      <4>2. CASE ~(one.free < Len(d.text))
        BY <1>1, <1>2, <4>2
      <4> QED BY <4>1, <4>2
    <3> QED BY <1>2, <2>1, <2>3, <3>1
  <2> QED BY <2>2, <2>3
<1>4. r.free \in Nat /\ Len(d.text) <= r.free
  BY <1>1, <1>3, HeaderIs
<1>5. Fitting(Longer(r, d.text)) /\ Str(Longer(r, d.text)) = Str(h) \o d.text
  BY <1>1, <1>3, <1>4, Lengthens
<1>6. FmtPut(h, d) = Longer(r, d.text)
  BY <1>3 DEF FmtPut, Longer
<1> QED BY <1>5, <1>6

-----------------------------------------------------------------------------
(* The invariant, and the steps.                                            *)

\* Between two calls and between two steps of sdscatfmt; what is left of a format is
\* made of its characters and arguments.
Tidy ==
  /\ Fitting(s)
  /\ busy \in BOOLEAN
  /\ busy \/ Ended(s)
  /\ fmt \in Seq(Dirs)

LEMMA DirsAre ==
    /\ \A d \in Dirs : d \in Directive /\ (d.arg \/ Len(d.text) = 1)
    /\ \A f \in Formats : f \in Seq(Dirs)
<1>1. ASSUME NEW d \in Dirs
      PROVE  d \in Directive /\ (d.arg \/ Len(d.text) = 1)
  <2>1. PICK f \in Formats : \E i \in DOMAIN f : d = f[i]
    BY DEF Dirs
  <2>2. PICK i \in DOMAIN f : d = f[i]
    BY <2>1
  <2>3. f \in Seq(Directive) /\ (f[i].arg \/ Len(f[i].text) = 1)
    BY SdsAssumption, Zenon
  <2>4. f[i] \in Directive
    BY <2>3
  <2> QED BY <2>2, <2>3, <2>4
<1>2. ASSUME NEW f \in Formats
      PROVE  f \in Seq(Dirs)
  <2>1. f \in Seq(Directive)
    BY SdsAssumption, Zenon
  <2>2. \A i \in DOMAIN f : f[i] \in Dirs
    BY DEF Dirs
  <2>3. DOMAIN f = 1 .. Len(f) /\ Len(f) \in Nat /\ f = [i \in 1 .. Len(f) |-> f[i]]
    BY <2>1
  <2> QED BY <2>2, <2>3
<1> QED BY <1>1, <1>2

LEMMA TextsAre == Texts \subseteq Seq(Bytes) /\ Sets \subseteq Seq(Bytes)
BY SdsAssumption

\* A new string is the text it is made of.
LEMMA NewIs ==
    ASSUME NEW t \in Seq(Bytes)
    PROVE  Gives(sdsnewlen(t), t)
<1>1. PICK n \in Nat : n = Len(t)
  OBVIOUS
<1>2. PICK a \in Seq(Bytes) : a = Append(t, 0) /\ Len(a) = n + 1 /\ a[n + 1] = 0 /\ \A k \in 1 .. n : a[k] = t[k]
  <2>1. Append(t, 0) \in Seq(Bytes) /\ Len(Append(t, 0)) = n + 1
    BY <1>1, NulIsByte
  <2>2. Append(t, 0)[n + 1] = 0 /\ \A k \in 1 .. n : Append(t, 0)[k] = t[k]
    BY <1>1
  <2> QED BY <2>1, <2>2
<1>3. a \in [1 .. Len(t) + 0 + 1 -> Cell]
  <2>1. a \in [1 .. Len(a) -> Cell]
    BY BytesAre
  <2>2. Len(a) = Len(t) + 0 + 1
    BY <1>1, <1>2
  <2> QED BY <2>1, <2>2
<1>4. Gives([len |-> Len(t), free |-> 0, buf |-> a], t)
  <2>1. a[Len(t) + 1] = 0 /\ \A k \in 1 .. Len(t) : a[k] = t[k] /\ 0 \in Nat
    BY <1>1, <1>2
  <2> QED BY <1>3, <2>1, GivesBy
<1> QED BY <1>2, <1>4 DEF sdsnewlen

LEMMA TidyInit ==
    ASSUME SdsInit
    PROVE  Tidy /\ Abstract!Init
<1>1. PICK t \in Texts : s = sdsnewlen(t)
  BY DEF SdsInit
<1>2. Gives(s, t)
  BY <1>1, TextsAre, NewIs
<1>3. fmt \in Seq(Dirs) /\ busy \in BOOLEAN /\ op = "new"
  <2>1. fmt = << >> /\ busy = FALSE /\ op = "new"
    BY DEF SdsInit
  <2>2. << >> \in Seq(Dirs)
    OBVIOUS
  <2> QED BY <2>1, <2>2
<1> QED BY <1>2, <1>3 DEF Tidy, Gives, Abstract!Init

\* A call that leaves a header for the string t.
LEMMA CallDoes ==
    ASSUME Tidy, NEW f, NEW h, NEW t, Gives(h, t), Call(f, h)
    PROVE  Tidy' /\ Abstract!Calls(f, t)
<1>1. Fitting(h) /\ Ended(h) /\ Str(h) = t /\ s' = h /\ op' = f /\ h.len <= MaxLen /\ UNCHANGED <<fmt, busy>>
  BY DEF Gives, Call
<1>2. Fitting(s') /\ Ended(s') /\ Str(s') = t
  BY <1>1
<1>3. Tidy'
  BY <1>1, <1>2 DEF Tidy
<1>4. Len(t) <= MaxLen
  BY <1>1, StrIs
<1> QED BY <1>1, <1>2, <1>3, <1>4 DEF Abstract!Calls

\* What the next-state relation does to header and string.
LEMMA Steps ==
    ASSUME Tidy, [SdsNext]_sdsVars
    PROVE  Tidy' /\ [Abstract!Next]_<<Str(s), op>>
<1> USE DEF Abstract!Next
<1>0. Fitting(s) /\ busy \in BOOLEAN /\ (busy \/ Ended(s)) /\ fmt \in Seq(Dirs)
  BY DEF Tidy
<1>a. s.len \in Nat /\ MaxLen \in Nat /\ StaticBuf \in Nat /\ Str(s) \in Seq(Bytes) /\ Len(Str(s)) = s.len
  BY <1>0, HeaderIs, StrIs, Sizes
<1>b. ASSUME NEW f, NEW h, Call(f, h) PROVE Ended(s)
  BY <1>0, <1>b DEF Call
<1>1. ASSUME NEW t \in Texts, Call("cat", sdscatlen(s, t)) PROVE Tidy' /\ Abstract!Next
  <2>1. Gives(sdscatlen(s, t), Str(s) \o t)
    BY <1>0, TextsAre, CatAppends
  <2> QED BY <1>1, <2>1, CallDoes
<1>2. ASSUME NEW t \in Texts, Call("cpy", sdscpylen(s, t)) PROVE Tidy' /\ Abstract!Next
  <2>1. Gives(sdscpylen(s, t), t)
    BY <1>0, TextsAre, CpyReplaces
  <2> QED BY <1>2, <2>1, CallDoes
<1>3. ASSUME NEW t \in Texts, NEW n \in 1 .. StaticBuf, Call("printf", sdscatvprintf(s, t, n))
      PROVE  Tidy' /\ Abstract!Next
  <2>1. n \in Nat
    BY <1>a
  <2>2. Gives(sdscatvprintf(s, t, n), Str(s) \o Abstract!CString(t))
    BY <1>0, <2>1, TextsAre, PrintfAppends
  <2> QED BY <1>3, <2>2, CallDoes
<1>4. ASSUME NEW t \in Texts, NEW n \in 0 .. MaxLen, ReadInto(n, t) PROVE Tidy' /\ Abstract!Next
  <2>1. PICK r : r = sdsMakeRoomFor(s, n)
    OBVIOUS
  <2>2. /\ Len(t) <= n
        /\ Call("read", sdsIncrLen([r EXCEPT !.buf = Overlay(r.buf, r.len, t)], Len(t)))
    BY <1>4, <2>1 DEF ReadInto
  <2>3. Gives(sdsIncrLen([r EXCEPT !.buf = Overlay(r.buf, r.len, t)], Len(t)), Str(s) \o t)
    <3>1. n \in Nat /\ t \in Seq(Bytes)
      BY <1>a, TextsAre
    <3> QED BY <1>0, <2>1, <2>2, <3>1, ReadAppends
  <2>4. Tidy' /\ Abstract!Calls("read", Str(s) \o t)
    BY <2>2, <2>3, CallDoes
  <2> QED BY <2>2, <2>4
<1>5. ASSUME NEW n \in 0 .. MaxLen, Cut(n) PROVE Tidy' /\ Abstract!Next
  <2>1. n \in 0 .. s.len /\ Call("cut", sdsIncrLen(s, -n))
    BY <1>5, <1>a DEF Cut
  <2>2. Gives(sdsIncrLen(s, -n), SubSeq(Str(s), 1, s.len - n))
    BY <1>0, <2>1, CutShortens
  <2>3. Tidy' /\ Abstract!Calls("cut", SubSeq(Str(s), 1, s.len - n))
    BY <2>1, <2>2, CallDoes
  <2>4. s.len - n \in 0 .. Len(Str(s))
    BY <1>a, <2>1
  <2> QED BY <2>3, <2>4
<1>6. ASSUME NEW n \in 0 .. MaxLen, Call("growzero", sdsgrowzero(s, n)) PROVE Tidy' /\ Abstract!Next
  <2>1. n \in Nat
    BY <1>a
  <2>2. Gives(sdsgrowzero(s, n), IF n <= s.len THEN Str(s) ELSE Str(s) \o [k \in 1 .. n - s.len |-> 0])
    BY <1>0, <1>b, <1>6, <2>1, GrowsZeros
  <2>3. Tidy' /\ Abstract!Calls("growzero", IF n <= s.len THEN Str(s) ELSE Str(s) \o [k \in 1 .. n - s.len |-> 0])
    BY <1>6, <2>2, CallDoes
  <2> QED BY <1>a, <2>3
<1>7. ASSUME Call("clear", sdsclear(s)) PROVE Tidy' /\ Abstract!Next
  BY <1>0, <1>7, ClearEmpties, CallDoes
<1>8. ASSUME Call("updatelen", sdsupdatelen(s)) PROVE Tidy' /\ Abstract!Next
  <2>1. Gives(sdsupdatelen(s), Abstract!CString(Str(s)))
    BY <1>0, <1>b, <1>8, UpdateCuts
  <2> QED BY <1>8, <2>1, CallDoes
<1>9. ASSUME Call("shrink", sdsRemoveFreeSpace(s)) PROVE Tidy' /\ Abstract!Next
  <2>1. Gives(sdsRemoveFreeSpace(s), Str(s))
    BY <1>0, <1>b, <1>9, ShrinkKeeps
  <2> QED BY <1>9, <2>1, CallDoes
<1>10. ASSUME NEW set \in Sets, Call("trim", sdstrim(s, set)) PROVE Tidy' /\ Abstract!Next
  <2>1. Gives(sdstrim(s, set), Abstract!Trimmed(Str(s), set))
    BY <1>0, TextsAre, TrimIs
  <2> QED BY <1>10, <2>1, CallDoes
<1>11. ASSUME NEW i \in -MaxLen - 1 .. MaxLen + 1, NEW j \in -MaxLen - 1 .. MaxLen + 1,
              Call("range", sdsrange(s, i, j))
       PROVE  Tidy' /\ Abstract!Next
  <2>1. i \in Int /\ j \in Int
    OBVIOUS
  <2>2. Gives(sdsrange(s, i, j), Abstract!Between(Abstract!Place(i, Str(s)), Abstract!Place(j, Str(s)), Str(s)))
    BY <1>0, <1>b, <1>11, <2>1, RangeIs
  <2> QED BY <1>11, <2>2, CallDoes
<1>12. ASSUME Call("lower", sdstolower(s)) PROVE Tidy' /\ Abstract!Next
  <2>1. Gives(sdstolower(s), Abstract!MapBytes(Abstract!Lower, Str(s)))
    BY <1>0, <1>b, <1>12, CaseChanges
  <2> QED BY <1>12, <2>1, CallDoes
<1>13. ASSUME Call("upper", sdstoupper(s)) PROVE Tidy' /\ Abstract!Next
  <2>1. Gives(sdstoupper(s), Abstract!MapBytes(Abstract!Upper, Str(s)))
    BY <1>0, <1>b, <1>13, CaseChanges
  <2> QED BY <1>13, <2>1, CallDoes
<1>14. ASSUME NEW from \in Sets, NEW to \in Sets, Len(from) = Len(to), Call("map", sdsmapchars(s, from, to))
       PROVE  Tidy' /\ Abstract!Next
  <2>1. PICK t \in Seq(Bytes) :
          /\ Gives(sdsmapchars(s, from, to), t)
          /\ Len(t) = Len(Str(s))
          /\ \A k \in DOMAIN Str(s) : MapsTo(Str(s)[k], t[k], from, to)
    BY <1>0, <1>b, <1>14, TextsAre, MapsChars
  <2>2. Tidy' /\ Abstract!Calls("map", t)
    BY <1>14, <2>1, CallDoes
  <2>3. Str(s') = t /\ op' = "map"
    BY <2>2 DEF Abstract!Calls
  <2>4. \A k \in DOMAIN Str(s) :
          \/ Str(s')[k] = Str(s)[k] /\ ~\E i \in DOMAIN from : from[i] = Str(s)[k]
          \/ \E i \in DOMAIN from :
               from[i] = Str(s)[k] /\ Str(s')[k] = to[i] /\ \A j \in 1 .. i - 1 : from[j] # Str(s)[k]
    BY <2>1, <2>3 DEF MapsTo
  <2>5. Len(Str(s')) = Len(Str(s))
    BY <2>1, <2>3
  <2>6. \E f, e \in Sets :
          /\ Len(f) = Len(e)
          /\ op' = "map" /\ Len(Str(s')) = Len(Str(s))
          /\ \A k \in DOMAIN Str(s) :
               \/ Str(s')[k] = Str(s)[k] /\ ~\E i \in DOMAIN f : f[i] = Str(s)[k]
               \/ \E i \in DOMAIN f :
                    f[i] = Str(s)[k] /\ Str(s')[k] = e[i] /\ \A j \in 1 .. i - 1 : f[j] # Str(s)[k]
    BY <1>14, <2>3, <2>4, <2>5, Zenon
  <2>7. Abstract!Next
    BY <2>6, Zenon
  <2> QED BY <2>2, <2>7
<1>15. ASSUME NEW f \in Formats, FmtStart(f) PROVE Tidy' /\ UNCHANGED <<Str(s), op>>
  BY <1>0, <1>15, DirsAre DEF FmtStart, Tidy
<1>16. ASSUME FmtStep PROVE Tidy' /\ Abstract!Next
  <2>1. PICK d \in Dirs : d = Head(fmt) /\ s' = FmtPut(s, d) /\ s.len + Len(d.text) <= MaxLen
    BY <1>0, <1>16 DEF FmtStep
  <2>2. fmt' \in Seq(Dirs) /\ busy /\ busy' = busy /\ op' = "fmt"
    BY <1>0, <1>16 DEF FmtStep
  <2>3. d \in Directive /\ (d.arg \/ Len(d.text) = 1)
    BY DirsAre
  <2>4. Fitting(s') /\ Str(s') = Str(s) \o d.text
    BY <1>0, <2>1, <2>3, FmtAppends
  <2>5. Tidy'
    BY <2>2, <2>4 DEF Tidy
  <2>6. Len(Str(s')) <= MaxLen
    <3>1. d.text \in Seq(Bytes)
      BY <2>3 DEF Directive
    <3> QED BY <1>a, <2>1, <2>4, <3>1
  <2>7. Abstract!Calls("fmt", Str(s) \o d.text)
    BY <2>2, <2>4, <2>6 DEF Abstract!Calls
  <2>8. d.text \in {c.text : c \in UNION {{f[i] : i \in DOMAIN f} : f \in Formats}}
    BY DEF Dirs
  <2> QED BY <2>5, <2>7, <2>8
<1>17. ASSUME FmtEnd PROVE Tidy' /\ UNCHANGED <<Str(s), op>>
  <2>1. s' = Closed(s) /\ UNCHANGED <<fmt, op>> /\ busy' = FALSE
    <3>1. s = [len |-> s.len, free |-> s.free, buf |-> s.buf]
      BY <1>0, HeaderIs
    <3>2. [s EXCEPT !.buf = NulAt(s.buf, s.len)] = [len |-> s.len, free |-> s.free, buf |-> NulAt(s.buf, s.len)]
      BY <3>1
    <3> QED BY <1>17, <3>2 DEF FmtEnd, Closed
  <2>2. Gives(s', Str(s))
    BY <1>0, <2>1, Closes
  <2> QED BY <1>0, <2>1, <2>2 DEF Tidy, Gives
<1>18. CASE UNCHANGED sdsVars
  BY <1>0, <1>18 DEF sdsVars, Tidy
<1> HIDE DEF Abstract!Next
<1> QED BY <1>1, <1>2, <1>3, <1>4, <1>5, <1>6, <1>7, <1>8, <1>9, <1>10, <1>11, <1>12, <1>13, <1>14,
           <1>15, <1>16, <1>17, <1>18 DEF SdsNext

\* Header, allocation and format fit together at every moment.
THEOREM TidyAlways == SdsSpec => []Tidy
<1>1. Tidy /\ [SdsNext]_sdsVars => Tidy'
  BY Steps
<1> QED BY TidyInit, <1>1, PTL DEF SdsSpec

\* Whatever calls follow each other, and also in the middle of sdscatfmt: the header never
\* says more than the allocation holds, no byte of the string is one nobody has written,
\* and outside sdscatfmt a NUL ends it.
THEOREM HeaderSound == SdsSpec => []Sound
<1>1. Tidy => Sound
  <2>1. SUFFICES ASSUME Tidy PROVE Sound
    OBVIOUS
  <2>2. s.len \in Nat /\ s.free \in Nat /\ s.buf \in [1 .. s.len + s.free + 1 -> Cell]
    BY <2>1, HeaderIs DEF Tidy
  <2>3. \A k \in 1 .. s.len : s.buf[k] # Junk
    BY <2>1, SdsAssumption DEF Tidy, Fitting
  <2> QED BY <2>1, <2>2, <2>3 DEF Tidy, Sound, Ended, Cell
<1> QED BY <1>1, TidyAlways, PTL

\* sds.c implements SdsString: every call makes of the string what its abstract action says,
\* and the steps of sdscatfmt append their pieces one after the other.
THEOREM StringImplemented == SdsSpec => ImplementsString
<1>1. SdsInit => Abstract!Init
  BY TidyInit
<1>2. Tidy /\ [SdsNext]_sdsVars => [Abstract!Next]_<<Str(s), op>>
  BY Steps
<1> QED BY <1>1, <1>2, TidyAlways, PTL DEF SdsSpec, ImplementsString, Abstract!Spec

=============================================================================
