--------------------------- MODULE RdbLoadProofs ---------------------------
(***************************************************************************)
(* The loader stays in step with the records of the dump, for every        *)
(* sequence of records and wherever the file is cut: RdbLoad implements    *)
(* DumpFeed.                                                               *)
(***************************************************************************)
EXTENDS RdbLoad, SequenceTheorems, WellFoundedInduction, TLAPS

-----------------------------------------------------------------------------
(* Sequences of items.                                                      *)

\* Sequences of items, joined.
LEMMA JoinItems ==
    ASSUME NEW a \in Seq(Item), NEW b \in Seq(Item)
    PROVE  /\ a \o b \in Seq(Item)
           /\ Len(a \o b) = Len(a) + Len(b)
           /\ \A i \in 1 .. Len(a) : (a \o b)[i] = a[i]
           /\ \A i \in Len(a) + 1 .. Len(a) + Len(b) : (a \o b)[i] = b[i - Len(a)]
OBVIOUS

LEMMA SameItems ==
    ASSUME NEW s \in Seq(Item), NEW t \in Seq(Item), Len(s) = Len(t),
           \A i \in 1 .. Len(s) : s[i] = t[i]
    PROVE  s = t
OBVIOUS

LEMMA JoinJoin ==
    ASSUME NEW a \in Seq(Item), NEW b \in Seq(Item), NEW c \in Seq(Item)
    PROVE  (a \o b) \o c = a \o (b \o c)
BY ConcatAssociative

LEMMA JoinFour ==
    ASSUME NEW a \in Seq(Item), NEW b \in Seq(Item), NEW c \in Seq(Item), NEW d \in Seq(Item)
    PROVE  ((a \o b) \o c) \o d = a \o (b \o (c \o d))
<1> DEFINE Regroups(x, y, z) == (x \o y) \o z = x \o (y \o z)
<1>1. \A x, y, z \in Seq(Item) : Regroups(x, y, z)
  BY JoinJoin
<1>2. a \o b \in Seq(Item) /\ c \o d \in Seq(Item)
  BY JoinItems
<1> HIDE DEF Regroups
<1>3. Regroups(a \o b, c, d) /\ Regroups(a, b, c \o d)
  BY <1>1, <1>2
<1> QED BY <1>3 DEF Regroups

LEMMA NoItems ==
    ASSUME NEW s \in Seq(Item)
    PROVE  <<>> \in Seq(Item) /\ s \o <<>> = s /\ <<>> \o s = s /\ (Len(s) = 0 => s = <<>>)
BY ConcatEmptySeq, EmptySeq

\* The first item of what is left of a file.
LEMMA TakeItem ==
    ASSUME NEW s \in Seq(Item), NEW p \in Nat, p <= Len(s), NEW x \in Item, NEW r \in Seq(Item),
           SubSeq(s, p + 1, Len(s)) = <<x>> \o r
    PROVE  p < Len(s) /\ s[p + 1] = x /\ SubSeq(s, (p + 1) + 1, Len(s)) = r
<1> DEFINE t == SubSeq(s, p + 1, Len(s))
           u == SubSeq(s, (p + 1) + 1, Len(s))
<1>1. /\ t \in Seq(Item) /\ Len(t) = Len(s) - p
      /\ \A i \in 1 .. Len(s) - p : t[i] = s[p + i]
  OBVIOUS
<1>2. <<x>> \in Seq(Item) /\ Len(<<x>>) = 1 /\ <<x>>[1] = x
  OBVIOUS
<1>3. /\ Len(t) = 1 + Len(r) /\ t[1] = x
      /\ \A i \in 2 .. 1 + Len(r) : t[i] = r[i - 1]
  BY <1>2, JoinItems
<1>4. Len(r) \in Nat /\ Len(s) \in Nat
  OBVIOUS
<1>5. p < Len(s) /\ s[p + 1] = x
  BY <1>1, <1>3, <1>4
<1>6. /\ u \in Seq(Item) /\ Len(u) = Len(s) - p - 1
      /\ \A i \in 1 .. Len(s) - p - 1 : u[i] = s[p + 1 + i]
  BY <1>5
<1> HIDE DEF t, u
<1>7. Len(u) = Len(r)
  BY <1>1, <1>3, <1>4, <1>6
<1>8. ASSUME NEW i \in 1 .. Len(u) PROVE u[i] = r[i]
  <2>1. i + 1 \in 2 .. 1 + Len(r) /\ i + 1 \in 1 .. Len(s) - p /\ (i + 1) - 1 = i /\ p + (i + 1) = p + 1 + i
    BY <1>1, <1>3, <1>4, <1>7
  <2> QED BY <1>1, <1>3, <1>6, <2>1
<1>9. u = r
  BY <1>6, <1>7, <1>8, SameItems
<1> QED BY <1>5, <1>9 DEF u

LEMMA OneItem ==
    ASSUME NEW x \in Item
    PROVE  <<x>> \in Seq(Item) /\ Len(<<x>>) = 1 /\ <<x>>[1] = x
OBVIOUS

\* A sequence of two is one of one, and another.
LEMMA PairIs ==
    ASSUME NEW S, NEW x \in S, NEW y \in S
    PROVE  <<x, y>> = <<x>> \o <<y>>
<1> DEFINE a == <<x>>
           b == <<y>>
           c == <<x, y>>
<1>1. /\ a \in Seq(S) /\ Len(a) = 1 /\ a[1] = x
      /\ b \in Seq(S) /\ Len(b) = 1 /\ b[1] = y
  OBVIOUS
<1>2. c \in Seq(S) /\ Len(c) = 2 /\ c[1] = x /\ c[2] = y
  OBVIOUS
<1> HIDE DEF a, b, c
<1>3. /\ a \o b \in Seq(S)
      /\ Len(a \o b) = Len(a) + Len(b)
      /\ \A i \in 1 .. Len(a) + Len(b) : (a \o b)[i] = IF i <= Len(a) THEN a[i] ELSE b[i - Len(a)]
  BY <1>1, ConcatProperties, Zenon
<1>4. /\ a \o b \in Seq(S)
      /\ Len(a \o b) = 2
      /\ \A i \in 1 .. 2 : (a \o b)[i] = IF i <= 1 THEN a[i] ELSE b[i - 1]
  BY <1>1, <1>3
<1> HIDE DEF c
<1>5. \A i \in 1 .. Len(c) : c[i] = (a \o b)[i]
  <2>1. \A i \in 1 .. 2 : i = 1 \/ i = 2
    OBVIOUS
  <2>2. 1 \in 1 .. 2 /\ 2 \in 1 .. 2 /\ 1 <= 1 /\ ~(2 <= 1) /\ 2 - 1 = 1
    OBVIOUS
  <2>3. (a \o b)[1] = x /\ (a \o b)[2] = y
    BY <1>1, <1>4, <2>2
  <2> QED BY <1>2, <2>1, <2>3
<1>6. c = a \o b
  BY <1>2, <1>4, <1>5, SeqEqual
<1> QED BY <1>6 DEF a, b, c

\* Two items in front of others.
LEMMA TwoItems ==
    ASSUME NEW x \in Item, NEW y \in Item, NEW r \in Seq(Item)
    PROVE  <<x, y>> \in Seq(Item) /\ <<x, y>> \o r = <<x>> \o (<<y>> \o r)
<1>1. <<x, y>> = <<x>> \o <<y>>
  BY PairIs
<1>2. <<x>> \in Seq(Item) /\ <<y>> \in Seq(Item) /\ <<x, y>> \in Seq(Item)
  OBVIOUS
<1> QED BY <1>1, <1>2, JoinJoin

-----------------------------------------------------------------------------
(* The items of a record.                                                   *)

\* What the master writes are items.
LEMMA ItemsAre ==
    /\ Magic \in Item
    /\ \A opcode \in Opcodes : Op(opcode) \in Item
    /\ \A n \in Nat : Length(n) \in Item
    /\ \A text \in Texts : Str(text) \in Item
    /\ \A texts \in Seq(Texts) : Pack(texts) \in Item
    /\ \A time \in {"past", "future"} : [k |-> "time", time |-> time] \in Item
<1>1. /\ Magic \in [k : {"magic"}]
      /\ \A opcode \in Opcodes : Op(opcode) \in [k : {"op"}, op : Opcodes]
      /\ \A n \in Nat : Length(n) \in [k : {"len"}, len : Nat]
      /\ \A text \in Texts : Str(text) \in [k : {"str"}, text : Texts]
      /\ \A texts \in Seq(Texts) : Pack(texts) \in [k : {"pack"}, texts : Seq(Texts)]
      /\ \A time \in {"past", "future"} :
            [k |-> "time", time |-> time] \in [k : {"time"}, time : {"past", "future"}]
  BY DEF Magic, Op, Length, Str, Pack
<1> QED BY <1>1, Zenon DEF Item

\* The strings of a value, one for each text.
LEMMA StrsAre ==
    ASSUME NEW texts \in Seq(Texts)
    PROVE  Strs(texts) \in Seq(Item) /\ Len(Strs(texts)) = Len(texts)
           /\ \A i \in 1 .. Len(texts) : Strs(texts)[i] = Str(texts[i])
<1>1. \A i \in 1 .. Len(texts) : texts[i] \in Texts
  OBVIOUS
<1>2. \A i \in 1 .. Len(texts) : Str(texts[i]) \in Item
  BY <1>1, ItemsAre
<1> QED BY <1>2 DEF Strs

\* The texts from place d on, one taken or none left.
LEMMA StrsFrom ==
    ASSUME NEW texts \in Seq(Texts), NEW d \in Nat, d <= Len(texts), NEW rest \in Seq(Item)
    PROVE  /\ Strs(SubSeq(texts, d + 1, Len(texts))) \in Seq(Item)
           /\ d = Len(texts) => Strs(SubSeq(texts, d + 1, Len(texts))) \o rest = rest
           /\ d < Len(texts) =>
                /\ texts[d + 1] \in Texts
                /\ Strs(SubSeq(texts, d + 1, Len(texts))) \o rest =
                      <<Str(texts[d + 1])>> \o (Strs(SubSeq(texts, (d + 1) + 1, Len(texts))) \o rest)
<1> DEFINE t == SubSeq(texts, d + 1, Len(texts))
           u == SubSeq(texts, (d + 1) + 1, Len(texts))
<1>1. /\ t \in Seq(Texts) /\ Len(t) = Len(texts) - d
      /\ \A i \in 1 .. Len(texts) - d : t[i] = texts[d + i]
  OBVIOUS
<1>2. Strs(t) \in Seq(Item) /\ Len(Strs(t)) = Len(texts) - d
      /\ \A i \in 1 .. Len(texts) - d : Strs(t)[i] = Str(texts[d + i])
  BY <1>1, StrsAre
<1>3. ASSUME d = Len(texts) PROVE Strs(t) \o rest = rest
  <2>1. Len(Strs(t)) = 0
    BY <1>2, <1>3
  <2> QED BY <1>2, <2>1, NoItems
<1>4. ASSUME d < Len(texts)
      PROVE  texts[d + 1] \in Texts /\ Strs(t) \o rest = <<Str(texts[d + 1])>> \o (Strs(u) \o rest)
  <2>1. texts[d + 1] \in Texts
    BY <1>4
  <2>2. PICK x \in Item : x = Str(texts[d + 1])
    BY <2>1, ItemsAre
  <2>3. /\ u \in Seq(Texts) /\ Len(u) = Len(texts) - d - 1
        /\ \A i \in 1 .. Len(texts) - d - 1 : u[i] = texts[d + 1 + i]
    BY <1>4
  <2> HIDE DEF t, u
  <2> DEFINE v == Strs(u)
             s == Strs(t)
             o == <<x>>
             w == o \o v
  <2>4. /\ v \in Seq(Item) /\ Len(v) = Len(texts) - d - 1
        /\ \A i \in 1 .. Len(texts) - d - 1 : v[i] = Str(texts[d + 1 + i])
    BY <2>3, StrsAre
  <2>5. /\ s \in Seq(Item) /\ Len(s) = Len(texts) - d
        /\ \A i \in 1 .. Len(texts) - d : s[i] = Str(texts[d + i])
    BY <1>2
  <2>6. o \in Seq(Item) /\ Len(o) = 1 /\ o[1] = x
    BY OneItem
  <2> HIDE DEF v, s, o
  <2>7. /\ w \in Seq(Item) /\ Len(w) = 1 + Len(v) /\ w[1] = x
        /\ \A i \in 2 .. 1 + Len(v) : w[i] = v[i - 1]
    <3>1. /\ w \in Seq(Item)
          /\ Len(w) = Len(o) + Len(v)
          /\ \A i \in 1 .. Len(o) : w[i] = o[i]
          /\ \A i \in Len(o) + 1 .. Len(o) + Len(v) : w[i] = v[i - Len(o)]
      BY <2>4, <2>6, JoinItems, Zenon
    <3> HIDE DEF w
    <3> QED BY <2>6, <3>1
  <2> HIDE DEF w
  <2>8. Len(texts) \in Nat /\ Len(w) = Len(s)
    BY <2>4, <2>5, <2>7
  <2>9. ASSUME NEW i \in 1 .. Len(s) PROVE s[i] = w[i]
    <3>1. CASE i = 1
      BY <1>4, <2>2, <2>5, <2>7, <3>1
    <3>2. CASE i # 1
      <4>1. i - 1 \in 1 .. Len(texts) - d - 1 /\ i \in 2 .. 1 + Len(v) /\ d + 1 + (i - 1) = d + i
        BY <2>4, <2>5, <2>8, <3>2
      <4> QED BY <2>4, <2>5, <2>7, <4>1
    <3> QED BY <3>1, <3>2
  <2>10. s = w
    BY <2>5, <2>7, <2>8, <2>9, SameItems
  <2>11. s \o rest = o \o (v \o rest)
    BY <2>4, <2>6, <2>10, JoinJoin DEF w
  <2> QED BY <2>1, <2>2, <2>11 DEF s, o, v
<1> QED BY <1>2, <1>3, <1>4

\* What the loader reads of a record, from a place in it on.
Body(rec)  == <<Op(rec.type), Str(rec.key)>> \o ValueItems(rec)
TimeItem(rec) == [k |-> "time", time |-> rec.expire]
TimeOp(rec)   == Op(IF rec.secs THEN "EXPIRETIME" ELSE "EXPIRETIME_MS")
Timed(rec) ==
    (IF rec.expire = "none" THEN <<>> ELSE <<TimeOp(rec), TimeItem(rec)>>) \o Body(rec)

\* The parts of a record.
LEMMA RecordIs ==
    ASSUME NEW rec \in Record
    PROVE  /\ rec.type \in Types /\ rec.type \in Opcodes /\ rec.key \in Texts /\ rec.val \in Seq(Texts)
           /\ rec.expire \in {"none", "past", "future"} /\ rec.select \in BOOLEAN
           /\ Op(rec.type) \in Item /\ Str(rec.key) \in Item /\ Len(rec.val) \in Nat
<1>1. /\ rec.type \in Types /\ rec.key \in Texts /\ rec.val \in Seq(Texts)
      /\ rec.expire \in {"none", "past", "future"} /\ rec.select \in BOOLEAN
  BY DEF Record
<1>2. rec.type \in Opcodes
  BY <1>1 DEF Opcodes
<1> QED BY <1>1, <1>2, ItemsAre

\* A value begins with its only item, or with its length.
LEMMA ValueIs ==
    ASSUME NEW rec \in Record, WellFormed(rec), NEW rest \in Seq(Item)
    PROVE  /\ ValueItems(rec) \in Seq(Item)
           /\ rec.type = "STRING" =>
                 /\ Len(rec.val) = 1 /\ rec.val[1] \in Texts /\ Str(rec.val[1]) \in Item
                 /\ ValueItems(rec) \o rest = <<Str(rec.val[1])>> \o rest
           /\ rec.type \in Packed =>
                 Pack(rec.val) \in Item /\ ValueItems(rec) \o rest = <<Pack(rec.val)>> \o rest
           /\ rec.type = "HASH" =>
                 /\ Length(Len(rec.val) \div 2) \in Item /\ Strs(rec.val) \in Seq(Item)
                 /\ ValueItems(rec) \o rest = <<Length(Len(rec.val) \div 2)>> \o (Strs(rec.val) \o rest)
           /\ rec.type \in {"LIST", "SET", "ZSET"} =>
                 /\ Length(Len(rec.val)) \in Item /\ Strs(rec.val) \in Seq(Item)
                 /\ ValueItems(rec) \o rest = <<Length(Len(rec.val))>> \o (Strs(rec.val) \o rest)
<1>1. rec.type \in Types /\ rec.val \in Seq(Texts) /\ Len(rec.val) \in Nat
  BY RecordIs
<1>2. Strs(rec.val) \in Seq(Item)
  BY <1>1, StrsAre
<1>3. Len(rec.val) \div 2 \in Nat
  <2>1. \A n \in Nat : n \div 2 \in Nat
    OBVIOUS
  <2> QED BY <1>1, <2>1
<1>4. CASE rec.type = "STRING"
  <2>1. Len(rec.val) = 1 /\ rec.val[1] \in Texts
    BY <1>1, <1>4 DEF WellFormed
  <2>2. Str(rec.val[1]) \in Item
    BY <2>1, ItemsAre
  <2>3. ValueItems(rec) = <<Str(rec.val[1])>>
    BY <1>4 DEF ValueItems, Packed
  <2> QED BY <1>4, <2>1, <2>2, <2>3, OneItem DEF Packed
<1>5. CASE rec.type \in Packed
  <2>1. Pack(rec.val) \in Item
    BY <1>1, ItemsAre
  <2>2. ValueItems(rec) = <<Pack(rec.val)>>
    BY <1>5 DEF ValueItems, Packed
  <2> QED BY <1>5, <2>1, <2>2, OneItem DEF Packed
<1>6. CASE rec.type = "HASH"
  <2>1. PICK x \in Item : x = Length(Len(rec.val) \div 2)
    BY <1>3, ItemsAre
  <2>2. ValueItems(rec) = <<x>> \o Strs(rec.val)
    BY <1>6, <2>1 DEF ValueItems, Packed
  <2>3. <<x>> \in Seq(Item)
    BY OneItem
  <2>4. ValueItems(rec) \in Seq(Item) /\ ValueItems(rec) \o rest = <<x>> \o (Strs(rec.val) \o rest)
    BY <1>2, <2>2, <2>3, JoinItems, JoinJoin
  <2> QED BY <1>2, <1>6, <2>1, <2>4 DEF Packed
<1>7. CASE rec.type \in {"LIST", "SET", "ZSET"}
  <2>1. PICK x \in Item : x = Length(Len(rec.val))
    BY <1>1, ItemsAre
  <2>2. ValueItems(rec) = <<x>> \o Strs(rec.val)
    BY <1>7, <2>1 DEF ValueItems, Packed
  <2>3. <<x>> \in Seq(Item)
    BY OneItem
  <2>4. ValueItems(rec) \in Seq(Item) /\ ValueItems(rec) \o rest = <<x>> \o (Strs(rec.val) \o rest)
    BY <1>2, <2>2, <2>3, JoinItems, JoinJoin
  <2> QED BY <1>2, <1>7, <2>1, <2>4 DEF Packed
<1> QED BY <1>1, <1>4, <1>5, <1>6, <1>7 DEF Types, Flat

\* The type and the key, and the value behind them.
LEMMA BodyIs ==
    ASSUME NEW rec \in Record, WellFormed(rec), NEW rest \in Seq(Item)
    PROVE  /\ Body(rec) \in Seq(Item)
           /\ Body(rec) \o rest = <<Op(rec.type)>> \o (<<Str(rec.key)>> \o (ValueItems(rec) \o rest))
<1>1. ValueItems(rec) \in Seq(Item)
  BY ValueIs
<1>2. PICK x \in Item, y \in Item, v \in Seq(Item) :
          x = Op(rec.type) /\ y = Str(rec.key) /\ v = ValueItems(rec)
  BY <1>1, RecordIs
<1>3. <<x, y>> \in Seq(Item) /\ v \o rest \in Seq(Item)
  BY TwoItems, JoinItems
<1>4. (<<x, y>> \o v) \o rest = <<x, y>> \o (v \o rest)
  BY <1>3, JoinJoin
<1>5. <<x, y>> \o (v \o rest) = <<x>> \o (<<y>> \o (v \o rest))
  BY <1>3, TwoItems
<1> QED BY <1>2, <1>3, <1>4, <1>5, JoinItems DEF Body

\* An expiry comes before the type.
LEMMA TimedIs ==
    ASSUME NEW rec \in Record, WellFormed(rec), NEW rest \in Seq(Item)
    PROVE  /\ Timed(rec) \in Seq(Item)
           /\ rec.expire = "none" => Timed(rec) \o rest = Body(rec) \o rest
           /\ rec.expire # "none" =>
                 /\ TimeOp(rec) \in Item /\ TimeItem(rec) \in Item
                 /\ Timed(rec) \o rest = <<TimeOp(rec)>> \o (<<TimeItem(rec)>> \o (Body(rec) \o rest))
<1>1. PICK b \in Seq(Item) : b = Body(rec)
  BY BodyIs
<1>2. CASE rec.expire = "none"
  <2>1. <<>> \o b = b
    OBVIOUS
  <2> QED BY <1>1, <1>2, <2>1 DEF Timed
<1>3. CASE rec.expire # "none"
  <2>1. TimeOp(rec) \in Item
    BY ItemsAre DEF TimeOp, Opcodes
  <2>2. TimeItem(rec) \in Item
    <3>1. rec.expire \in {"past", "future"}
      BY <1>3, RecordIs
    <3> QED BY <3>1, ItemsAre DEF TimeItem
  <2>3. PICK x \in Item, y \in Item : x = TimeOp(rec) /\ y = TimeItem(rec)
    BY <2>1, <2>2
  <2>4. <<x, y>> \in Seq(Item) /\ b \o rest \in Seq(Item)
    BY TwoItems, JoinItems
  <2>5. (<<x, y>> \o b) \o rest = <<x, y>> \o (b \o rest)
    BY <2>4, JoinJoin
  <2>6. <<x, y>> \o (b \o rest) = <<x>> \o (<<y>> \o (b \o rest))
    BY <2>4, TwoItems
  <2> QED BY <1>1, <1>3, <2>1, <2>2, <2>3, <2>4, <2>5, <2>6, JoinItems DEF Timed
<1> QED BY <1>2, <1>3

\* A SELECTDB comes before everything else.
LEMMA RecordItemsAre ==
    ASSUME NEW rec \in Record, WellFormed(rec), NEW rest \in Seq(Item)
    PROVE  /\ RecordItems(rec) \in Seq(Item) /\ Timed(rec) \o rest \in Seq(Item)
           /\ ~rec.select => RecordItems(rec) \o rest = Timed(rec) \o rest
           /\ rec.select => RecordItems(rec) \o rest =
                              <<Op("SELECTDB")>> \o (<<Length(0)>> \o (Timed(rec) \o rest))
<1> DEFINE sel == IF rec.select THEN <<Op("SELECTDB"), Length(0)>> ELSE <<>>
           tim == IF rec.expire = "none" THEN <<>> ELSE <<TimeOp(rec), TimeItem(rec)>>
           typ == <<Op(rec.type), Str(rec.key)>>
           vals == ValueItems(rec)
<1>1. PICK x \in Item, y \in Item : x = Op("SELECTDB") /\ y = Length(0)
  BY ItemsAre DEF Opcodes
<1>2. sel \in Seq(Item)
  BY <1>1, TwoItems
<1>3. tim \in Seq(Item)
  <2>1. CASE rec.expire = "none"
    BY <2>1, NoItems, <1>2
  <2>2. CASE rec.expire # "none"
    <3>1. <<TimeOp(rec), TimeItem(rec)>> \in Seq(Item)
      BY <2>2, TimedIs, TwoItems, <1>2
    <3> QED BY <2>2, <3>1
  <2> QED BY <2>1, <2>2
<1>4. typ \in Seq(Item) /\ vals \in Seq(Item)
  BY ValueIs, RecordIs, TwoItems
<1>5. RecordItems(rec) = ((sel \o tim) \o typ) \o vals
  BY DEF RecordItems, TimeOp, TimeItem
<1>6. Timed(rec) = tim \o (typ \o vals)
  BY DEF Timed, Body
<1> HIDE DEF sel, tim, typ, vals
<1>7. RecordItems(rec) = sel \o Timed(rec)
  <2> DEFINE Regroups(a, b, c, d) == ((a \o b) \o c) \o d = a \o (b \o (c \o d))
  <2>1. \A a, b, c, d \in Seq(Item) : Regroups(a, b, c, d)
    BY JoinFour
  <2> HIDE DEF Regroups
  <2>2. Regroups(sel, tim, typ, vals)
    BY <1>2, <1>3, <1>4, <2>1
  <2> QED BY <1>5, <1>6, <2>2 DEF Regroups
<1>8. PICK t \in Seq(Item) : t = Timed(rec)
  BY TimedIs
<1>9. RecordItems(rec) \in Seq(Item) /\ t \o rest \in Seq(Item)
  BY <1>2, <1>7, <1>8, JoinItems
<1>10. RecordItems(rec) \o rest = sel \o (t \o rest)
  BY <1>2, <1>7, <1>8, JoinJoin
<1>11. ASSUME ~rec.select PROVE RecordItems(rec) \o rest = t \o rest
  <2>1. sel = <<>>
    BY <1>11 DEF sel
  <2>2. <<>> \o (t \o rest) = t \o rest
    BY <1>9
  <2> QED BY <1>10, <2>1, <2>2
<1>12. ASSUME rec.select PROVE RecordItems(rec) \o rest = <<x>> \o (<<y>> \o (t \o rest))
  <2>1. sel = <<x, y>>
    BY <1>1, <1>12 DEF sel
  <2>2. <<x, y>> \o (t \o rest) = <<x>> \o (<<y>> \o (t \o rest))
    BY <1>9, TwoItems
  <2> QED BY <1>10, <2>1, <2>2
<1> QED BY <1>1, <1>8, <1>9, <1>11, <1>12

-----------------------------------------------------------------------------
(* The items that follow a record.                                          *)

LEMMA LeastElement ==
    ASSUME NEW S, S \subseteq Nat, S # {}
    PROVE  \E i \in S : \A j \in S : i <= j
<1>1. \E i \in S : \A j \in S : ~(<<j, i>> \in OpToRel(<, Nat))
  BY WFMin, NatLessThanWellFounded, Zenon
<1>2. PICK i \in S : \A j \in S : ~(j < i)
  BY <1>1, Zenon DEF OpToRel
<1> QED BY <1>2

\* The first m sequences of s, joined one after the other.
Joined(s, G, m) ==
    /\ G \in [1 .. m -> Seq(Item)]
    /\ G[1] = s[1]
    /\ \A i \in 2 .. m : G[i] = G[i - 1] \o s[i]

\* Any number of sequences can be joined: no least one cannot.
LEMMA CanJoin ==
    ASSUME NEW s \in Seq(Seq(Item)), NEW m \in 1 .. Len(s)
    PROVE  \E G : Joined(s, G, m)
<1> DEFINE Bad == {k \in 1 .. Len(s) : ~\E G : Joined(s, G, k)}
<1>1. Bad \subseteq Nat /\ \A k : k \in Bad <=> k \in 1 .. Len(s) /\ ~\E G : Joined(s, G, k)
  OBVIOUS
<1> HIDE DEF Bad
<1> SUFFICES ASSUME Bad # {} PROVE FALSE
  BY <1>1
<1>2. PICK k \in Bad : \A j \in Bad : k <= j
  BY <1>1, LeastElement
<1>3. k \in 1 .. Len(s) /\ ~\E G : Joined(s, G, k)
  BY <1>1
<1>4. s[k] \in Seq(Item) /\ s[1] \in Seq(Item)
  BY <1>3
<1>5. CASE k = 1
  <2>1. Joined(s, [i \in 1 .. 1 |-> s[1]], 1)
    BY <1>4 DEF Joined
  <2> QED BY <1>3, <1>5, <2>1
<1>6. CASE k # 1
  <2>1. k - 1 \in 1 .. Len(s) /\ ~(k <= k - 1)
    BY <1>3, <1>6
  <2>2. k - 1 \notin Bad
    BY <1>2, <2>1
  <2>3. PICK G : Joined(s, G, k - 1)
    BY <1>1, <2>1, <2>2
  <2>4. /\ G \in [1 .. k - 1 -> Seq(Item)] /\ G[1] = s[1]
        /\ \A i \in 2 .. k - 1 : G[i] = G[i - 1] \o s[i]
    BY <2>3, Zenon DEF Joined
  <2> DEFINE last == G[k - 1] \o s[k]
             H == [i \in 1 .. k |-> IF i = k THEN last ELSE G[i]]
  <2>5. last \in Seq(Item)
    BY <1>4, <2>1, <2>4, JoinItems
  <2>6. \A i \in 1 .. k : i # k => i \in 1 .. k - 1
    BY <1>3
  <2> HIDE DEF last
  <2>7. H \in [1 .. k -> Seq(Item)]
    BY <2>4, <2>5, <2>6
  <2>8. H[1] = s[1]
    BY <1>3, <1>6, <2>4
  <2>9. ASSUME NEW i \in 2 .. k PROVE H[i] = H[i - 1] \o s[i]
    <3>1. i \in 1 .. k /\ i - 1 \in 1 .. k /\ i - 1 # k
      BY <1>3
    <3>2. H[i - 1] = G[i - 1]
      BY <3>1
    <3>3. CASE i = k
      BY <3>1, <3>2, <3>3 DEF last
    <3>4. CASE i # k
      <4>1. i \in 2 .. k - 1 /\ H[i] = G[i]
        BY <1>3, <3>1, <3>4
      <4> QED BY <2>4, <3>2, <4>1
    <3> QED BY <3>3, <3>4
  <2>10. Joined(s, H, k)
    BY <2>7, <2>8, <2>9, Zenon DEF Joined
  <2> QED BY <1>3, <2>10
<1> QED BY <1>5, <1>6

\* FlattenSeq has the last of them.
LEMMA FlattenIs ==
    ASSUME NEW s \in Seq(Seq(Item)), s # <<>>
    PROVE  \E F : Joined(s, F, Len(s)) /\ FlattenSeq(s) = F[Len(s)]
<1> DEFINE n == Len(s)
           Rec(f) == [i \in 1 .. Len(s) |-> IF i = 1 THEN s[i] ELSE f[i - 1] \o s[i]]
           F == CHOOSE f : f = Rec(f)
<1>0. n \in Nat /\ n \in 1 .. n /\ n # 0
  OBVIOUS
<1>1. FlattenSeq(s) = F[n]
  BY <1>0 DEF FlattenSeq
<1>2. PICK G : Joined(s, G, n)
  BY <1>0, CanJoin
<1>3. G \in [1 .. n -> Seq(Item)] /\ G[1] = s[1] /\ \A i \in 2 .. n : G[i] = G[i - 1] \o s[i]
  BY <1>2, Zenon DEF Joined
<1>4. G = Rec(G)
  <2>1. \A i \in 1 .. n : i = 1 \/ i \in 2 .. n
    BY <1>0
  <2>2. \A i \in 1 .. n : G[i] = IF i = 1 THEN s[i] ELSE G[i - 1] \o s[i]
    BY <1>3, <2>1
  <2>3. G = [i \in 1 .. n |-> G[i]]
    BY <1>3
  <2>4. [i \in 1 .. n |-> G[i]] = [i \in 1 .. n |-> IF i = 1 THEN s[i] ELSE G[i - 1] \o s[i]]
    BY <2>2, Zenon
  <2> QED BY <2>3, <2>4
<1>5. F = Rec(F)
  BY <1>4
<1>6. DOMAIN F = 1 .. n /\ \A i \in 1 .. n : F[i] = IF i = 1 THEN s[i] ELSE F[i - 1] \o s[i]
  BY <1>5
<1>7. F = [i \in 1 .. n |-> F[i]]
  <2>1. \A f, g : f = Rec(g) => f = [i \in 1 .. n |-> f[i]]
    OBVIOUS
  <2> HIDE DEF Rec, F
  <2> QED BY <1>5, <2>1, Zenon
<1> HIDE DEF F
<1> DEFINE Bad == {k \in 1 .. n : F[k] \notin Seq(Item)}
<1>8. Bad = {}
  <2> SUFFICES ASSUME Bad # {} PROVE FALSE
    OBVIOUS
  <2>1. Bad \subseteq Nat /\ \A k : k \in Bad <=> k \in 1 .. n /\ F[k] \notin Seq(Item)
    OBVIOUS
  <2> HIDE DEF Bad
  <2>2. PICK k \in Bad : \A j \in Bad : k <= j
    BY <2>1, LeastElement
  <2>3. k \in 1 .. n /\ F[k] \notin Seq(Item) /\ s[k] \in Seq(Item)
    BY <2>1
  <2>4. k # 1
    BY <1>6, <2>3
  <2>5. k - 1 \in 1 .. n /\ ~(k <= k - 1)
    BY <1>0, <2>3, <2>4
  <2>6. F[k - 1] \in Seq(Item)
    BY <2>1, <2>2, <2>5
  <2>7. F[k] = F[k - 1] \o s[k]
    BY <1>6, <2>3, <2>4, Zenon
  <2> QED BY <2>3, <2>6, <2>7, JoinItems
<1>9. F \in [1 .. n -> Seq(Item)]
  <2>1. \A k \in 1 .. n : F[k] \in Seq(Item)
    BY <1>8
  <2> QED BY <1>7, <2>1
<1>10. F[1] = s[1]
  <2>1. 1 \in 1 .. n
    BY <1>0
  <2> QED BY <1>6, <2>1, Zenon
<1>11. \A i \in 2 .. n : F[i] = F[i - 1] \o s[i]
  <2>1. \A i \in 2 .. n : i \in 1 .. n /\ i # 1
    BY <1>0
  <2> QED BY <1>6, <2>1, Zenon
<1>12. Joined(s, F, n)
  BY <1>9, <1>10, <1>11, Zenon DEF Joined
<1> QED BY <1>1, <1>12
-----------------------------------------------------------------------------
\* A function that has, for each record from m on, the items from there to the end.
Laid(recs, R, m) ==
    /\ R \in [m .. Len(recs) + 1 -> Seq(Item)]
    /\ R[Len(recs) + 1] = <<Op("EOF")>>
    /\ \A i \in m .. Len(recs) : R[i] = RecordItems(recs[i]) \o R[i + 1]

Layout(recs, R) == Laid(recs, R, 1) /\ Dump(recs) = <<Magic>> \o R[1]

\* The items of a dump from a record on; behind the last one, those of its end.
After == CHOOSE R : Layout(records, R)

\* What SavesAssumption says of one record.
LEMMA SavedRecord ==
    ASSUME NEW recs \in Saves, NEW i \in 1 .. Len(recs)
    PROVE  recs[i] \in Record /\ WellFormed(recs[i]) /\ RecordItems(recs[i]) \in Seq(Item)
<1>1. recs[i] \in Record /\ WellFormed(recs[i])
  BY SavesAssumption
<1>2. <<>> \in Seq(Item)
  BY EmptySeq
<1> QED BY <1>1, <1>2, RecordItemsAre

LEMMA Eof == <<Op("EOF")>> \in Seq(Item) /\ <<Magic>> \in Seq(Item) /\ Op("EOF") \in Item
BY ItemsAre, OneItem DEF Opcodes

\* From the end of a dump to its beginning, one record more at a time.
LEMMA LayoutExists ==
    ASSUME NEW recs \in Saves
    PROVE  \E R : Layout(recs, R)
<1> DEFINE n == Len(recs)
           s == [i \in 1 .. n |-> RecordItems(recs[i])]
           eof == <<Op("EOF")>>
           magic == <<Magic>>
<1>1. n \in Nat
  BY SavesAssumption
<1>2. \A i \in 1 .. n : RecordItems(recs[i]) \in Seq(Item)
  BY SavedRecord
<1>3. s \in Seq(Seq(Item)) /\ Len(s) = n /\ \A i \in 1 .. n : s[i] = RecordItems(recs[i])
  BY <1>1, <1>2
<1>4. eof \in Seq(Item) /\ magic \in Seq(Item)
  BY Eof
<1>5. Dump(recs) = (magic \o FlattenSeq(s)) \o eof
  BY DEF Dump
<1>6. CASE n = 0
  <2>1. s = <<>> /\ FlattenSeq(s) = <<>>
    BY <1>3, <1>6 DEF FlattenSeq
  <2>2. Dump(recs) = magic \o eof
    BY <1>4, <1>5, <2>1, NoItems
  <2> DEFINE R == [i \in 1 .. 1 |-> eof]
  <2>3. R[1] = eof /\ R \in [1 .. 1 -> Seq(Item)]
    BY <1>4
  <2>4. Laid(recs, R, 1)
    BY <1>6, <2>3 DEF Laid
  <2> QED BY <2>2, <2>3, <2>4 DEF Layout
<1>7. CASE n # 0
  <2> HIDE DEF s
  <2>1. s # <<>>
    BY <1>3, <1>7
  <2>2. PICK F : Joined(s, F, n) /\ FlattenSeq(s) = F[n]
    BY <1>3, <2>1, FlattenIs
  <2>3. F \in [1 .. n -> Seq(Item)] /\ F[1] = s[1] /\ \A i \in 2 .. n : F[i] = F[i - 1] \o s[i]
    BY <2>2, Zenon DEF Joined
  <2> DEFINE Split(m, R) == Laid(recs, R, m) /\ Dump(recs) = magic \o (F[m - 1] \o R[m])
             Good == {k \in 0 .. n - 1 : \E R : Split((n + 1) - k, R)}
             Bad  == (0 .. n - 1) \ Good
  <2>4. Bad = {}
    <3> SUFFICES ASSUME Bad # {} PROVE FALSE
      OBVIOUS
    <3> HIDE DEF Split
    <3>1. Bad \subseteq Nat /\ \A k : k \in Bad <=> k \in 0 .. n - 1 /\ ~\E R : Split((n + 1) - k, R)
      BY <1>1
    <3> HIDE DEF Bad, Good
    <3>2. PICK k \in Bad : \A j \in Bad : k <= j
      BY <3>1, LeastElement
    <3>3. k \in 0 .. n - 1 /\ ~\E R : Split((n + 1) - k, R)
      BY <3>1
    <3>4. CASE k = 0
      <4> DEFINE R == [i \in n + 1 .. n + 1 |-> eof]
      <4>1. R[n + 1] = eof /\ R \in [n + 1 .. n + 1 -> Seq(Item)]
        BY <1>1, <1>4
      <4> HIDE DEF R
      <4>2. Laid(recs, R, n + 1)
        <5>1. n + 1 .. n = {}
          BY <1>1
        <5> QED BY <4>1, <5>1 DEF Laid
      <4>3. F[n] \in Seq(Item)
        BY <1>1, <1>7, <2>3
      <4>4. (n + 1) - 1 = n /\ (n + 1) - k = n + 1
        BY <1>1, <3>4
      <4>5. Dump(recs) = magic \o (F[n] \o R[n + 1])
        <5>1. Dump(recs) = (magic \o F[n]) \o eof
          BY <1>5, <2>2
        <5> HIDE DEF magic, eof
        <5>2. (magic \o F[n]) \o eof = magic \o (F[n] \o eof)
          BY <1>4, <4>3, JoinJoin
        <5> QED BY <4>1, <5>1, <5>2
      <4> QED BY <3>3, <4>2, <4>4, <4>5 DEF Split
    <3>5. CASE k # 0
      <4>1. k - 1 \in 0 .. n - 1 /\ ~(k <= k - 1)
        BY <1>1, <3>3, <3>5
      <4>2. k - 1 \notin Bad
        BY <3>2, <4>1
      <4>3. PICK Q : Split((n + 1) - (k - 1), Q)
        BY <3>1, <4>1, <4>2
      <4> DEFINE m == (n + 1) - k
      <4>4. m \in 2 .. n /\ (n + 1) - (k - 1) = m + 1 /\ (m + 1) - 1 = m
        BY <1>1, <3>3, <3>5
      <4> HIDE DEF m
      <4>5. /\ Q \in [m + 1 .. n + 1 -> Seq(Item)] /\ Q[n + 1] = eof
            /\ \A i \in m + 1 .. n : Q[i] = RecordItems(recs[i]) \o Q[i + 1]
            /\ Dump(recs) = magic \o (F[m] \o Q[m + 1])
        BY <4>3, <4>4 DEF Laid, Split
      <4> DEFINE top == s[m] \o Q[m + 1]
                 R == [i \in m .. n + 1 |-> IF i = m THEN top ELSE Q[i]]
      <4>6. s[m] \in Seq(Item) /\ Q[m + 1] \in Seq(Item) /\ F[m - 1] \in Seq(Item)
        <5>1. m \in 1 .. n /\ m + 1 \in m + 1 .. n + 1 /\ m - 1 \in 1 .. n
          BY <1>1, <4>4
        <5>2. s[m] \in Seq(Item)
          BY <1>3, <5>1
        <5>3. Q[m + 1] \in Seq(Item)
          BY <4>5, <5>1
        <5>4. F[m - 1] \in Seq(Item)
          BY <2>3, <5>1
        <5> QED BY <5>2, <5>3, <5>4
      <4>7. top \in Seq(Item)
        BY <4>6, JoinItems
      <4>8. top = RecordItems(recs[m]) \o Q[m + 1]
        <5>1. m \in 1 .. n
          BY <1>1, <4>4
        <5>2. s[m] = RecordItems(recs[m])
          BY <1>3, <5>1
        <5> QED BY <5>2
      <4> HIDE DEF top
      <4>9. R \in [m .. n + 1 -> Seq(Item)]
        BY <1>1, <4>4, <4>5, <4>7
      <4>10. R[m] = top /\ R[m + 1] = Q[m + 1] /\ R[n + 1] = eof
        BY <1>1, <4>4, <4>5
      <4>11. ASSUME NEW i \in m .. n PROVE R[i] = RecordItems(recs[i]) \o R[i + 1]
        <5>1. i \in m .. n + 1 /\ i + 1 \in m .. n + 1 /\ i + 1 # m
          BY <1>1, <4>4
        <5>2. R[i + 1] = Q[i + 1]
          BY <5>1
        <5>3. CASE i = m
          BY <4>8, <4>10, <5>2, <5>3
        <5>4. CASE i # m
          <6>1. i \in m + 1 .. n /\ R[i] = Q[i]
            BY <1>1, <4>4, <5>1, <5>4
          <6> QED BY <4>5, <5>2, <6>1
        <5> QED BY <5>3, <5>4
      <4> HIDE DEF R
      <4>12. Laid(recs, R, m)
        BY <4>9, <4>10, <4>11 DEF Laid
      <4>13. F[m] = F[m - 1] \o s[m]
        BY <2>3, <4>4
      <4>14. F[m] \o Q[m + 1] = F[m - 1] \o R[m]
        <5>1. (F[m - 1] \o s[m]) \o Q[m + 1] = F[m - 1] \o (s[m] \o Q[m + 1])
          BY <4>6, JoinJoin
        <5> QED BY <4>10, <4>13, <5>1 DEF top
      <4>15. Split(m, R)
        BY <4>5, <4>12, <4>14 DEF Split
      <4> QED BY <3>3, <4>15 DEF m
    <3> QED BY <3>4, <3>5
  <2> HIDE DEF Split, Good, Bad
  <2>5. n - 1 \in 0 .. n - 1 /\ (n + 1) - (n - 1) = 2
    BY <1>1, <1>7
  <2>6. PICK Q : Split(2, Q)
    BY <2>4, <2>5 DEF Good, Bad
  <2>7. /\ Q \in [2 .. n + 1 -> Seq(Item)] /\ Q[n + 1] = eof
        /\ \A i \in 2 .. n : Q[i] = RecordItems(recs[i]) \o Q[i + 1]
        /\ Dump(recs) = magic \o (s[1] \o Q[2])
    <3>1. 2 - 1 = 1
      OBVIOUS
    <3> QED BY <2>3, <2>6, <3>1 DEF Laid, Split
  <2> DEFINE top == s[1] \o Q[2]
             R == [i \in 1 .. n + 1 |-> IF i = 1 THEN top ELSE Q[i]]
  <2>8. 1 \in 1 .. n /\ 2 \in 2 .. n + 1
    BY <1>1, <1>7
  <2>9. s[1] \in Seq(Item) /\ Q[2] \in Seq(Item)
    <3>1. s[1] \in Seq(Item)
      BY <1>3, <2>8
    <3>2. Q[2] \in Seq(Item)
      BY <2>7, <2>8
    <3> QED BY <3>1, <3>2
  <2>10. top \in Seq(Item) /\ top = RecordItems(recs[1]) \o Q[2]
    BY <1>3, <2>8, <2>9, JoinItems
  <2> HIDE DEF top
  <2>11. R \in [1 .. n + 1 -> Seq(Item)]
    BY <1>1, <2>7, <2>10
  <2>12. R[1] = top /\ R[2] = Q[2] /\ R[n + 1] = eof
    BY <1>1, <1>7, <2>7
  <2>13. ASSUME NEW i \in 1 .. n PROVE R[i] = RecordItems(recs[i]) \o R[i + 1]
    <3>1. i \in 1 .. n + 1 /\ i + 1 \in 1 .. n + 1 /\ i + 1 # 1
      BY <1>1
    <3>2. R[i + 1] = Q[i + 1]
      BY <3>1
    <3>3. CASE i = 1
      <4>1. R[1] = RecordItems(recs[1]) \o R[2]
        BY <2>10, <2>12
      <4> HIDE DEF R
      <4> QED BY <3>3, <4>1
    <3>4. CASE i # 1
      <4>1. i \in 2 .. n /\ R[i] = Q[i]
        BY <1>1, <3>1, <3>4
      <4> QED BY <2>7, <3>2, <4>1
    <3> QED BY <3>3, <3>4
  <2> HIDE DEF R
  <2>14. Laid(recs, R, 1)
    BY <2>11, <2>12, <2>13 DEF Laid
  <2>15. Dump(recs) = magic \o R[1]
    BY <2>7, <2>12 DEF top
  <2> QED BY <2>14, <2>15 DEF Layout
<1> QED BY <1>6, <1>7

\* What is left of a dump, at its start, at a record and behind the last one.
LEMMA AfterIs ==
    ASSUME records \in Saves
    PROVE  /\ \A i \in 1 .. Len(records) + 1 : After[i] \in Seq(Item)
           /\ Dump(records) = <<Magic>> \o After[1]
           /\ Dump(records) \in Seq(Item)
           /\ After[Len(records) + 1] = <<Op("EOF")>>
           /\ \A i \in 1 .. Len(records) : After[i] = RecordItems(records[i]) \o After[i + 1]
<1>1. Layout(records, After)
  BY LayoutExists, Zenon DEF After
<1>2. /\ \A i \in 1 .. Len(records) + 1 : After[i] \in Seq(Item)
      /\ Dump(records) = <<Magic>> \o After[1]
      /\ After[Len(records) + 1] = <<Op("EOF")>>
      /\ \A i \in 1 .. Len(records) : After[i] = RecordItems(records[i]) \o After[i + 1]
  BY <1>1 DEF Layout, Laid
<1>3. 1 \in 1 .. Len(records) + 1
  BY SavesAssumption
<1>4. Dump(records) \in Seq(Item)
  BY <1>2, <1>3, Eof, JoinItems
<1> QED BY <1>2, <1>4

-----------------------------------------------------------------------------
(* The inductive invariant: the place in the code and the place in the      *)
(* record are the same.                                                     *)

All    == Dump(records)
ToRead == SubSeq(All, pos + 1, Len(All))
Rec    == records[taken + 1]
Rest   == After[taken + 2]

\* The first n texts of a long list, as C strings.
Kept(texts, n) == [i \in 1 .. n |-> Feed!CString(texts[i])]

From(texts, d) == SubSeq(texts, d + 1, Len(texts))

HasString ==
    /\ left = 0 /\ val = Rec.val
    /\ encoding = (IF Rec.val[1] \in Ints THEN "int" ELSE "raw")
    /\ ToRead = Rest

HasPack ==
    /\ left = 0 /\ val = Rec.val
    /\ encoding = (IF type = "SET_INTSET" THEN "intset" ELSE "ziplist")
    /\ ToRead = Rest

HasList(done) ==
    /\ done + left = Len(Rec.val)
    /\ IF Len(Rec.val) > LIST_MAX THEN encoding = "linkedlist" /\ val = Kept(Rec.val, done)
       ELSE encoding = "ziplist" /\ val = <<>>
    /\ ToRead = Strs(From(Rec.val, done)) \o Rest

HasPairs(done) ==
    /\ encoding = "ziplist"
    /\ 2 * (done + left) = Len(Rec.val)
    /\ val = SubSeq(Rec.val, 1, 2 * done)
    /\ ToRead = Strs(From(Rec.val, 2 * done)) \o Rest

Elements ==
    /\ type \notin {"SET", "ZSET"}
    /\ left \in Nat
    /\ type = "STRING" => HasString
    /\ type \in Packed => HasPack
    /\ type = "LIST" => \E done \in Nat : HasList(done)
    /\ type = "HASH" => \E done \in Nat : HasPairs(done)

InRecord ==
    /\ taken < Len(records)
    /\ at = "opcode" => expire = "none" /\ Rec.select /\ ToRead = Timed(Rec) \o Rest
    /\ at = "db" => Rec.select /\ ToRead = <<Length(0)>> \o (Timed(Rec) \o Rest)
    /\ at = "time" => Rec.expire # "none" /\ ToRead = <<TimeItem(Rec)>> \o (Body(Rec) \o Rest)
    /\ at = "type" => expire = Rec.expire /\ ToRead = Body(Rec) \o Rest
    /\ at \in {"key", "value", "elements"} => type = Rec.type /\ expire = Rec.expire
    /\ at = "key" => ToRead = <<Str(Rec.key)>> \o (ValueItems(Rec) \o Rest)
    /\ at \in {"value", "elements"} => key = Rec.key
    /\ at = "value" => ToRead = ValueItems(Rec) \o Rest
    /\ at = "elements" => Elements

\* The next to read is a record, or the end of the dump.
AtRecord == at = "opcode" /\ expire = "none" /\ ToRead = After[taken + 1]

Steady ==
    /\ records \in Saves /\ taken \in 0 .. Len(records)
    /\ dump \in Seq(Item) /\ pos \in 0 .. Len(dump)
    /\ at \in Readers \cup {"elements", "end"}
    /\ at = "end" <=> outcome # "running"

\* What there is of the dump, once its first item has been seen.
Begins == Len(dump) <= Len(All) /\ dump = SubSeq(All, 1, Len(dump))

InStep ==
    /\ Steady
    /\ at = "header" => pos = 0 /\ taken = 0 /\ expire = "none" /\ dump \in Pieces(All)
    /\ at \notin {"header", "end"} => Begins /\ (AtRecord \/ InRecord)

-----------------------------------------------------------------------------
Reading == InStep /\ at \notin {"header", "end"}

\* What InStep says wherever the code is.
LEMMA Facts ==
    ASSUME InStep
    PROVE  /\ records \in Saves /\ Len(records) \in Nat /\ taken \in 0 .. Len(records)
           /\ dump \in Seq(Item) /\ Len(dump) \in Nat /\ pos \in 0 .. Len(dump)
           /\ All \in Seq(Item) /\ Len(All) \in Nat
           /\ at # "end" <=> outcome = "running"
<1>1. /\ records \in Saves /\ taken \in 0 .. Len(records) /\ dump \in Seq(Item) /\ pos \in 0 .. Len(dump)
      /\ at = "end" <=> outcome # "running"
  BY DEF InStep, Steady
<1>2. records \in Seq(Record)
  BY <1>1, SavesAssumption
<1>3. All \in Seq(Item)
  BY <1>1, AfterIs DEF All
<1> QED BY <1>1, <1>2, <1>3

\* The record being read, and the rest of the dump.
LEMMA RecFacts ==
    ASSUME InStep, taken < Len(records)
    PROVE  Rec \in Record /\ WellFormed(Rec) /\ Rest \in Seq(Item)
           /\ After[taken + 1] = RecordItems(Rec) \o Rest
<1>1. taken + 1 \in 1 .. Len(records) /\ taken + 2 \in 1 .. Len(records) + 1 /\ (taken + 1) + 1 = taken + 2
  BY Facts
<1>2. records \in Saves
  BY Facts
<1>3. Rec \in Record /\ WellFormed(Rec)
  BY <1>1, <1>2, SavedRecord DEF Rec
<1>4. Rest \in Seq(Item)
  BY <1>1, <1>2, AfterIs DEF Rest
<1>5. After[taken + 1] = RecordItems(records[taken + 1]) \o After[(taken + 1) + 1]
  BY <1>1, <1>2, AfterIs
<1> QED BY <1>1, <1>3, <1>4, <1>5 DEF Rec, Rest

\* An item that is in the file is the one of the dump, and one that is not shows that the
\* file is not all of it.
LEMMA ItemAt ==
    ASSUME Reading, NEW p \in 0 .. Len(dump), NEW x \in Item, NEW r \in Seq(Item),
           SubSeq(All, p + 1, Len(All)) = <<x>> \o r
    PROVE  /\ p = Len(dump) => dump # All
           /\ p < Len(dump) => dump[p + 1] = x /\ p + 1 \in 0 .. Len(dump)
           /\ SubSeq(All, (p + 1) + 1, Len(All)) = r
<1>1. /\ dump \in Seq(Item) /\ Len(dump) \in Nat
      /\ All \in Seq(Item) /\ Len(All) \in Nat
  BY Facts DEF Reading
<1>2. Len(dump) <= Len(All) /\ dump = SubSeq(All, 1, Len(dump))
  BY DEF Reading, InStep, Begins
<1>3. p \in Nat /\ p <= Len(All)
  BY <1>1, <1>2
<1>4. p < Len(All) /\ All[p + 1] = x /\ SubSeq(All, (p + 1) + 1, Len(All)) = r
  BY <1>1, <1>3, TakeItem
<1>5. p = Len(dump) => dump # All
  BY <1>1, <1>4
<1>6. ASSUME p < Len(dump) PROVE dump[p + 1] = x /\ p + 1 \in 0 .. Len(dump)
  <2>1. p + 1 \in 1 .. Len(dump)
    BY <1>1, <1>6
  <2>2. \A i \in 1 .. Len(dump) : SubSeq(All, 1, Len(dump))[i] = All[i]
    BY <1>1, <1>2
  <2>3. dump[p + 1] = All[p + 1]
    BY <1>2, <2>1, <2>2
  <2> QED BY <1>1, <1>4, <2>1, <2>3
<1> QED BY <1>4, <1>5, <1>6

\* The next item, of which ItemAt tells.
LEMMA NextIs ==
    ASSUME Reading, NEW x \in Item, NEW r \in Seq(Item), ToRead = <<x>> \o r
    PROVE  /\ ~More(1) => dump # All
           /\ More(1) => Next1 = x /\ pos + 1 \in 0 .. Len(dump)
           /\ SubSeq(All, (pos + 1) + 1, Len(All)) = r
<1>1. Len(dump) \in Nat /\ pos \in 0 .. Len(dump)
  BY Facts DEF Reading
<1>2. (More(1) <=> pos < Len(dump)) /\ (~More(1) <=> pos = Len(dump))
  BY <1>1 DEF More
<1> QED BY <1>1, <1>2, ItemAt DEF ToRead, Next1

\* The first item of a record, or the end.
LEMMA AtOpcode ==
    ASSUME InStep, at = "opcode"
    PROVE  /\ expire = "none"
           /\ \/ taken = Len(records) /\ ToRead = <<Op("EOF")>> \o <<>>
              \/ /\ taken < Len(records) /\ Rec.select
                 /\ ToRead = <<Op("SELECTDB")>> \o (<<Length(0)>> \o (Timed(Rec) \o Rest))
              \/ /\ taken < Len(records) /\ Rec.expire # "none"
                 /\ ToRead = <<TimeOp(Rec)>> \o (<<TimeItem(Rec)>> \o (Body(Rec) \o Rest))
              \/ /\ taken < Len(records) /\ Rec.expire = "none"
                 /\ ToRead = <<Op(Rec.type)>> \o (<<Str(Rec.key)>> \o (ValueItems(Rec) \o Rest))
<1>1. AtRecord \/ InRecord
  BY DEF InStep
<1>2. expire = "none"
  BY <1>1 DEF AtRecord, InRecord
<1>3. CASE taken = Len(records)
  <2>1. ToRead = <<Op("EOF")>>
    <3>1. ~InRecord
      BY <1>3, Facts DEF InRecord
    <3>2. ToRead = After[Len(records) + 1]
      BY <1>1, <1>3, <3>1 DEF AtRecord
    <3>3. After[Len(records) + 1] = <<Op("EOF")>>
      BY Facts, AfterIs
    <3> QED BY <3>2, <3>3
  <2> QED BY <1>2, <1>3, <2>1, Eof, NoItems
<1>4. CASE taken # Len(records)
  <2>1. taken < Len(records)
    BY <1>4, Facts
  <2>2. Rec \in Record /\ WellFormed(Rec) /\ Rest \in Seq(Item)
        /\ After[taken + 1] = RecordItems(Rec) \o Rest
    BY <2>1, RecFacts
  <2>3. ToRead = RecordItems(Rec) \o Rest \/ ToRead = Timed(Rec) \o Rest
    BY <1>1, <2>2 DEF AtRecord, InRecord
  <2>4. CASE ToRead = Timed(Rec) \o Rest
    <3>1. CASE Rec.expire = "none"
      <4>1. Timed(Rec) \o Rest = Body(Rec) \o Rest
        BY <2>2, <3>1, TimedIs
      <4>2. Body(Rec) \o Rest = <<Op(Rec.type)>> \o (<<Str(Rec.key)>> \o (ValueItems(Rec) \o Rest))
        BY <2>2, BodyIs
      <4> QED BY <1>2, <2>1, <2>4, <3>1, <4>1, <4>2
    <3>2. CASE Rec.expire # "none"
      BY <1>2, <2>1, <2>2, <2>4, <3>2, TimedIs
    <3> QED BY <3>1, <3>2
  <2>5. CASE ToRead = RecordItems(Rec) \o Rest
    <3>1. CASE Rec.select
      BY <1>2, <2>1, <2>2, <2>5, <3>1, RecordItemsAre
    <3>2. CASE ~Rec.select
      BY <2>2, <2>4, <2>5, <3>2, RecordItemsAre
    <3> QED BY <3>1, <3>2
  <2> QED BY <2>3, <2>4, <2>5
<1> QED BY <1>3, <1>4

-----------------------------------------------------------------------------
(* The steps that read.                                                     *)

LEMMA Stays ==
    ASSUME records' = records, taken' = taken
    PROVE  All' = All /\ Rec' = Rec /\ Rest' = Rest
BY DEF All, Rec, Rest, After

\* The places of the code between two records.
Inner == {"opcode", "db", "time", "type", "key", "value", "elements"}

\* A step within a record, that leaves something to read.
LEMMA WithinRecord ==
    ASSUME Reading, UNCHANGED <<records, dump, taken, outcome>>, pos' \in 0 .. Len(dump),
           at' \in Inner, InRecord'
    PROVE  InStep'
<1>1. All' = All
  BY Stays
<1>2. Steady'
  BY DEF Reading, InStep, Steady, Inner, Readers
<1>3. Begins'
  BY <1>1 DEF Reading, InStep, Begins
<1> QED BY <1>2, <1>3 DEF InStep, Inner

\* A step that ends the load.
LEMMA EndsInStep ==
    ASSUME InStep, UNCHANGED <<records, dump, taken>>, pos' \in 0 .. Len(dump),
           at' = "end", outcome' # "running"
    PROVE  InStep'
BY DEF InStep, Steady

\* One item is read at some place of a record.
LEMMA OneRead ==
    ASSUME Reading, NEW x \in Item, NEW r \in Seq(Item), ToRead = <<x>> \o r, More(1),
           pos' = pos + 1, records' = records
    PROVE  Next1 = x /\ pos' \in 0 .. Len(dump) /\ ToRead' = r
<1>1. Next1 = x /\ pos + 1 \in 0 .. Len(dump) /\ SubSeq(All, (pos + 1) + 1, Len(All)) = r
  BY NextIs
<1>2. All' = All
  BY DEF All
<1> QED BY <1>1, <1>2 DEF ToRead

\* The kinds of items.
LEMMA OpIs ==
    /\ \A o : Op(o).k = "op" /\ Op(o).op = o
    /\ \A n : Length(n).k = "len" /\ Length(n).len = n
    /\ \A t : Str(t).k = "str" /\ Str(t).text = t
    /\ \A ts : Pack(ts).k = "pack" /\ Pack(ts).texts = ts
    /\ \A rec : TimeItem(rec).k = "time" /\ TimeItem(rec).time = rec.expire
    /\ Magic.k = "magic"
BY DEF Op, Length, Str, Pack, TimeItem, Magic

\* What follows each part of a record is a sequence of items.
LEMMA Opening ==
    ASSUME NEW rec \in Record, WellFormed(rec), NEW rest \in Seq(Item)
    PROVE  /\ <<Length(0)>> \o (Timed(rec) \o rest) \in Seq(Item)
           /\ <<TimeItem(rec)>> \o (Body(rec) \o rest) \in Seq(Item) \/ rec.expire = "none"
           /\ <<Str(rec.key)>> \o (ValueItems(rec) \o rest) \in Seq(Item)
           /\ Timed(rec) \o rest \in Seq(Item)
           /\ Body(rec) \o rest \in Seq(Item)
           /\ ValueItems(rec) \o rest \in Seq(Item)
<1>1. Timed(rec) \o rest \in Seq(Item) /\ Body(rec) \o rest \in Seq(Item)
      /\ ValueItems(rec) \o rest \in Seq(Item)
  BY TimedIs, BodyIs, ValueIs, JoinItems
<1>2. Length(0) \in Item /\ Str(rec.key) \in Item /\ (rec.expire # "none" => TimeItem(rec) \in Item)
  BY ItemsAre, RecordIs, TimedIs
<1>3. <<Length(0)>> \in Seq(Item) /\ <<Str(rec.key)>> \in Seq(Item)
      /\ (rec.expire # "none" => <<TimeItem(rec)>> \in Seq(Item))
  BY <1>2, OneItem
<1> QED BY <1>1, <1>3, JoinItems

\* The last opcode ends the dump.
LEMMA AtEof ==
    ASSUME InStep, at = "opcode", ToRead = <<Op("EOF")>> \o <<>>, More(1)
    PROVE  dump = All /\ pos + 1 \in 0 .. Len(dump)
<1>1. /\ dump \in Seq(Item) /\ Len(dump) \in Nat /\ pos \in 0 .. Len(dump)
      /\ All \in Seq(Item) /\ Len(All) \in Nat
  BY Facts
<1>2. Len(dump) <= Len(All) /\ dump = SubSeq(All, 1, Len(dump))
  BY DEF InStep, Begins
<1>3. SubSeq(All, (pos + 1) + 1, Len(All)) = <<>> /\ pos + 1 \in 0 .. Len(dump)
  BY Eof, NoItems, NextIs DEF Reading
<1>4. Len(SubSeq(All, (pos + 1) + 1, Len(All))) = Len(All) - (pos + 1)
  BY <1>1, <1>2, <1>3
<1>5. Len(SubSeq(All, (pos + 1) + 1, Len(All))) = 0
  BY <1>3, EmptySeq
<1>6. Len(All) = Len(dump)
  BY <1>1, <1>2, <1>3, <1>4, <1>5
<1>7. SubSeq(All, 1, Len(All)) = All
  BY <1>1, SubSeqFull
<1> QED BY <1>2, <1>3, <1>6, <1>7

\* What is read at the top of the loop, and what is left then.
LEMMA OpcodeRead ==
    ASSUME InStep, at = "opcode", More(1), pos' = pos + 1, records' = records
    PROVE  /\ Reading /\ expire = "none" /\ pos' \in 0 .. Len(dump)
           /\ \/ Next1 = Op("EOF") /\ taken = Len(records) /\ dump = All
              \/ /\ taken < Len(records)
                 /\ \/ /\ Next1 = Op("SELECTDB") /\ Rec.select
                       /\ ToRead' = <<Length(0)>> \o (Timed(Rec) \o Rest)
                    \/ /\ Next1 = TimeOp(Rec) /\ Rec.expire # "none"
                       /\ ToRead' = <<TimeItem(Rec)>> \o (Body(Rec) \o Rest)
                    \/ /\ Next1 = Op(Rec.type) /\ Rec.expire = "none"
                       /\ ToRead' = <<Str(Rec.key)>> \o (ValueItems(Rec) \o Rest)
<1>1. Reading
  BY DEF Reading
<1>2. expire = "none"
  BY AtOpcode
<1>3. CASE taken = Len(records) /\ ToRead = <<Op("EOF")>> \o <<>>
  <2>1. Next1 = Op("EOF") /\ pos + 1 \in 0 .. Len(dump)
    BY <1>1, <1>3, Eof, NoItems, NextIs
  <2> QED BY <1>1, <1>2, <1>3, <2>1, AtEof
<1>4. ASSUME taken < Len(records)
      PROVE  Rec \in Record /\ WellFormed(Rec) /\ Rest \in Seq(Item)
  BY <1>4, RecFacts
<1>5. CASE /\ taken < Len(records) /\ Rec.select
           /\ ToRead = <<Op("SELECTDB")>> \o (<<Length(0)>> \o (Timed(Rec) \o Rest))
  <2>1. Op("SELECTDB") \in Item /\ <<Length(0)>> \o (Timed(Rec) \o Rest) \in Seq(Item)
    BY <1>4, <1>5, Opening, ItemsAre DEF Opcodes
  <2> QED BY <1>1, <1>2, <1>5, <2>1, OneRead
<1>6. CASE /\ taken < Len(records) /\ Rec.expire # "none"
           /\ ToRead = <<TimeOp(Rec)>> \o (<<TimeItem(Rec)>> \o (Body(Rec) \o Rest))
  <2>1. TimeOp(Rec) \in Item /\ <<TimeItem(Rec)>> \o (Body(Rec) \o Rest) \in Seq(Item)
    BY <1>4, <1>6, Opening, TimedIs
  <2> QED BY <1>1, <1>2, <1>6, <2>1, OneRead
<1>7. CASE /\ taken < Len(records) /\ Rec.expire = "none"
           /\ ToRead = <<Op(Rec.type)>> \o (<<Str(Rec.key)>> \o (ValueItems(Rec) \o Rest))
  <2>1. Op(Rec.type) \in Item /\ <<Str(Rec.key)>> \o (ValueItems(Rec) \o Rest) \in Seq(Item)
    BY <1>4, <1>7, Opening, RecordIs
  <2> QED BY <1>1, <1>2, <1>7, <2>1, OneRead
<1> QED BY <1>3, <1>5, <1>6, <1>7, AtOpcode

\* What is read behind an expiry.
LEMMA TypeRead ==
    ASSUME InStep, at = "type", More(1), pos' = pos + 1, records' = records
    PROVE  /\ Reading /\ taken < Len(records) /\ expire = Rec.expire /\ pos' \in 0 .. Len(dump)
           /\ Next1 = Op(Rec.type)
           /\ ToRead' = <<Str(Rec.key)>> \o (ValueItems(Rec) \o Rest)
<1>1. Reading /\ InRecord
  BY DEF Reading, InStep, AtRecord
<1>2. taken < Len(records) /\ expire = Rec.expire /\ ToRead = Body(Rec) \o Rest
  BY <1>1 DEF InRecord
<1>3. Rec \in Record /\ WellFormed(Rec) /\ Rest \in Seq(Item)
  BY <1>2, RecFacts
<1>4. ToRead = <<Op(Rec.type)>> \o (<<Str(Rec.key)>> \o (ValueItems(Rec) \o Rest))
  BY <1>2, <1>3, BodyIs
<1>5. Op(Rec.type) \in Item /\ <<Str(Rec.key)>> \o (ValueItems(Rec) \o Rest) \in Seq(Item)
  BY <1>3, Opening, RecordIs
<1> QED BY <1>1, <1>2, <1>4, <1>5, OneRead

\* No opcode is of two kinds.
LEMMA OpcodesDiffer ==
    /\ "EOF" \notin Types \cup ExpireOps \cup {"SELECTDB"}
    /\ "SELECTDB" \notin Types \cup ExpireOps
    /\ Types \cap ExpireOps = {}
    /\ \A rec \in Record : rec.type \in Types
    /\ \A rec : TimeOp(rec).op \in ExpireOps
<1>1. \A rec : TimeOp(rec).op \in ExpireOps
  BY OpIs DEF TimeOp, ExpireOps
<1>2. \A rec \in Record : rec.type \in Types
  BY DEF Record
<1> QED BY <1>1, <1>2 DEF ExpireOps, Types, Flat, Packed

\* The steps of the loop, up to the value.
LEMMA ReadExpireOpSteps ==
    ASSUME InStep, ReadExpireOp
    PROVE  InStep'
<1>1. at = "opcode" /\ More(1) /\ pos' = pos + 1 /\ at' = "time" /\ Next1.op \in ExpireOps
      /\ UNCHANGED <<records, dump, taken, outcome>>
  BY DEF ReadExpireOp, Reads, Goes, result
<1>2. Next1 # Op("EOF") /\ Next1 # Op("SELECTDB")
      /\ (taken < Len(records) => Next1 # Op(Rec.type))
  BY <1>1, OpIs, OpcodesDiffer, RecFacts
<1>3. Reading /\ pos' \in 0 .. Len(dump) /\ taken < Len(records) /\ Rec.expire # "none"
      /\ ToRead' = <<TimeItem(Rec)>> \o (Body(Rec) \o Rest)
  BY <1>1, <1>2, OpcodeRead
<1>4. InRecord'
  BY <1>1, <1>3, Stays DEF InRecord
<1> QED BY <1>1, <1>3, <1>4, WithinRecord DEF Inner

LEMMA ReadTimeSteps ==
    ASSUME InStep, ReadTime
    PROVE  InStep'
<1>1. at = "time" /\ More(1) /\ pos' = pos + 1 /\ at' = "type" /\ expire' = Next1.time
      /\ UNCHANGED <<records, dump, taken, outcome>>
  BY DEF ReadTime, Reads, Goes, result
<1>2. Reading /\ InRecord
  BY <1>1 DEF Reading, InStep, AtRecord
<1>3. taken < Len(records) /\ Rec.expire # "none" /\ ToRead = <<TimeItem(Rec)>> \o (Body(Rec) \o Rest)
  BY <1>1, <1>2 DEF InRecord
<1>4. Rec \in Record /\ WellFormed(Rec) /\ Rest \in Seq(Item)
  BY <1>3, RecFacts
<1>5. TimeItem(Rec) \in Item /\ Body(Rec) \o Rest \in Seq(Item)
  BY <1>3, <1>4, Opening, TimedIs
<1>6. Next1 = TimeItem(Rec) /\ pos' \in 0 .. Len(dump) /\ ToRead' = Body(Rec) \o Rest
  BY <1>1, <1>2, <1>3, <1>5, OneRead
<1>7. expire' = Rec.expire
  BY <1>1, <1>6, OpIs
<1>8. InRecord'
  BY <1>1, <1>3, <1>6, <1>7, Stays DEF InRecord
<1> QED BY <1>1, <1>2, <1>6, <1>8, WithinRecord DEF Inner

LEMMA ReadSelectDbSteps ==
    ASSUME InStep, ReadSelectDb
    PROVE  InStep'
<1>1. (at = "opcode" \/ at = "type") /\ More(1) /\ pos' = pos + 1 /\ at' = "db"
      /\ Next1.op = "SELECTDB" /\ UNCHANGED <<records, dump, taken, outcome>>
  BY DEF ReadSelectDb, ReadsType, Reads, Goes, result
<1>2. Next1 # Op("EOF") /\ (\A rec : Next1 # TimeOp(rec))
      /\ (taken < Len(records) => Next1 # Op(Rec.type))
  BY <1>1, OpIs, OpcodesDiffer, RecFacts
<1>3. at = "opcode"
  BY <1>1, <1>2, TypeRead
<1>4. Reading /\ pos' \in 0 .. Len(dump) /\ taken < Len(records) /\ Rec.select
      /\ ToRead' = <<Length(0)>> \o (Timed(Rec) \o Rest)
  BY <1>1, <1>2, <1>3, OpcodeRead
<1>5. InRecord'
  BY <1>1, <1>4, Stays DEF InRecord
<1> QED BY <1>1, <1>4, <1>5, WithinRecord DEF Inner

LEMMA ReadDbSteps ==
    ASSUME InStep, ReadDb
    PROVE  InStep'
<1>1. at = "db" /\ More(1) /\ pos' = pos + 1 /\ at' = "opcode" /\ expire' = "none"
      /\ UNCHANGED <<records, dump, taken, outcome>>
  BY DEF ReadDb, Reads, Goes, result
<1>2. Reading /\ InRecord
  BY <1>1 DEF Reading, InStep, AtRecord
<1>3. taken < Len(records) /\ Rec.select /\ ToRead = <<Length(0)>> \o (Timed(Rec) \o Rest)
  BY <1>1, <1>2 DEF InRecord
<1>4. Rec \in Record /\ WellFormed(Rec) /\ Rest \in Seq(Item)
  BY <1>3, RecFacts
<1>5. Length(0) \in Item /\ Timed(Rec) \o Rest \in Seq(Item)
  BY <1>4, Opening, ItemsAre
<1>6. pos' \in 0 .. Len(dump) /\ ToRead' = Timed(Rec) \o Rest
  BY <1>1, <1>2, <1>3, <1>5, OneRead
<1>7. InRecord'
  BY <1>1, <1>3, <1>6, Stays DEF InRecord
<1> QED BY <1>1, <1>2, <1>6, <1>7, WithinRecord DEF Inner

LEMMA ReadObjectTypeSteps ==
    ASSUME InStep, ReadObjectType
    PROVE  InStep'
<1>1. (at = "opcode" \/ at = "type") /\ More(1) /\ pos' = pos + 1 /\ at' = "key"
      /\ Next1.op \in Types /\ type' = Next1.op
      /\ UNCHANGED <<records, dump, taken, outcome, expire>>
  BY DEF ReadObjectType, ReadsType, Reads, Goes, result
<1>2. Next1 # Op("EOF") /\ Next1 # Op("SELECTDB") /\ (\A rec : Next1 # TimeOp(rec))
  BY <1>1, OpIs, OpcodesDiffer
<1>3. Reading /\ pos' \in 0 .. Len(dump) /\ taken < Len(records) /\ Next1 = Op(Rec.type)
      /\ expire = Rec.expire /\ ToRead' = <<Str(Rec.key)>> \o (ValueItems(Rec) \o Rest)
  BY <1>1, <1>2, OpcodeRead, TypeRead
<1>4. type' = Rec.type
  BY <1>1, <1>3, OpIs
<1>5. InRecord'
  BY <1>1, <1>3, <1>4, Stays DEF InRecord
<1> QED BY <1>1, <1>3, <1>5, WithinRecord DEF Inner

LEMMA ReadKeySteps ==
    ASSUME InStep, ReadKey
    PROVE  InStep'
<1>1. at = "key" /\ More(1) /\ pos' = pos + 1 /\ at' = "value" /\ key' = Next1.text
      /\ UNCHANGED <<records, dump, taken, outcome, type, expire>>
  BY DEF ReadKey, ReadsStr, Reads, Goes, result
<1>2. Reading /\ InRecord
  BY <1>1 DEF Reading, InStep, AtRecord
<1>3. taken < Len(records) /\ type = Rec.type /\ expire = Rec.expire
      /\ ToRead = <<Str(Rec.key)>> \o (ValueItems(Rec) \o Rest)
  BY <1>1, <1>2 DEF InRecord
<1>4. Rec \in Record /\ WellFormed(Rec) /\ Rest \in Seq(Item)
  BY <1>3, RecFacts
<1>5. Str(Rec.key) \in Item /\ ValueItems(Rec) \o Rest \in Seq(Item)
  BY <1>4, Opening, RecordIs
<1>6. Next1 = Str(Rec.key) /\ pos' \in 0 .. Len(dump) /\ ToRead' = ValueItems(Rec) \o Rest
  BY <1>1, <1>2, <1>3, <1>5, OneRead
<1>7. key' = Rec.key
  BY <1>1, <1>6, OpIs
<1>8. InRecord'
  BY <1>1, <1>3, <1>6, <1>7, Stays DEF InRecord
<1> QED BY <1>1, <1>2, <1>6, <1>8, WithinRecord DEF Inner

\* Texts that have been read, and the others.
LEMMA TextsRead ==
    ASSUME NEW texts \in Seq(Texts)
    PROVE  /\ From(texts, 0) = texts
           /\ SubSeq(texts, 1, 0) = <<>>
           /\ SubSeq(texts, 1, Len(texts)) = texts
           /\ Kept(texts, 0) = <<>>
           /\ Len(texts) = 1 => <<texts[1]>> = texts
<1>1. From(texts, 0) = texts
  <2>1. 0 + 1 = 1
    OBVIOUS
  <2> QED BY <2>1, SubSeqFull DEF From
<1>2. SubSeq(texts, 1, 0) = <<>>
  BY SubSeqEmpty
<1>3. SubSeq(texts, 1, Len(texts)) = texts
  BY SubSeqFull
<1>4. Kept(texts, 0) = <<>>
  BY DEF Kept
<1>5. ASSUME Len(texts) = 1 PROVE <<texts[1]>> = texts
  <2>1. texts[1] \in Texts
    BY <1>5
  <2>2. PICK x \in Texts : x = texts[1]
    BY <2>1
  <2>3. <<x>> \in Seq(Texts) /\ Len(<<x>>) = 1 /\ <<x>>[1] = x
    OBVIOUS
  <2> QED BY <1>5, <2>2, <2>3, SeqEqual
<1> QED BY <1>1, <1>2, <1>3, <1>4, <1>5

\* A value is read from its start.
LEMMA AtValue ==
    ASSUME InStep, at = "value"
    PROVE  /\ Reading /\ taken < Len(records) /\ type = Rec.type /\ expire = Rec.expire /\ key = Rec.key
           /\ Rec \in Record /\ WellFormed(Rec) /\ Rest \in Seq(Item)
           /\ ToRead = ValueItems(Rec) \o Rest
<1>1. Reading /\ InRecord
  BY DEF Reading, InStep, AtRecord
<1>2. taken < Len(records) /\ type = Rec.type /\ expire = Rec.expire /\ key = Rec.key
      /\ ToRead = ValueItems(Rec) \o Rest
  BY <1>1 DEF InRecord
<1> QED BY <1>1, <1>2, RecFacts

LEMMA TypesDiffer ==
    /\ Packed \cap {"STRING", "LIST", "HASH", "SET", "ZSET"} = {}
    /\ Types = Packed \cup {"STRING", "LIST", "HASH", "SET", "ZSET"}
BY DEF Packed, Types, Flat

\* The steps that read a value whole, or its length.
LEMMA ReadStringSteps ==
    ASSUME InStep, ReadString
    PROVE  InStep'
<1>1. at = "value" /\ More(1) /\ pos' = pos + 1 /\ at' = "elements" /\ type = "STRING"
      /\ encoding' = (IF Next1.text \in Ints THEN "int" ELSE "raw") /\ val' = <<Next1.text>> /\ left' = 0
      /\ UNCHANGED <<records, dump, taken, outcome, type, expire, key>>
  BY DEF ReadString, ReadsStr, Reads, Goes, result
<1>2. Reading /\ taken < Len(records) /\ type = Rec.type /\ expire = Rec.expire /\ key = Rec.key
      /\ Rec \in Record /\ WellFormed(Rec) /\ Rest \in Seq(Item)
      /\ ToRead = ValueItems(Rec) \o Rest
  BY <1>1, AtValue
<1>3. Len(Rec.val) = 1 /\ Str(Rec.val[1]) \in Item /\ ToRead = <<Str(Rec.val[1])>> \o Rest
  BY <1>1, <1>2, ValueIs
<1>4. Next1 = Str(Rec.val[1]) /\ pos' \in 0 .. Len(dump) /\ ToRead' = Rest
  BY <1>1, <1>2, <1>3, OneRead
<1>5. Next1.text = Rec.val[1] /\ val' = Rec.val
  BY <1>1, <1>2, <1>3, <1>4, OpIs, RecordIs, TextsRead
<1>6. Rec' = Rec /\ Rest' = Rest
  BY <1>1, Stays
<1>7. HasString'
  BY <1>1, <1>4, <1>5, <1>6 DEF HasString
<1>8. Elements'
  BY <1>1, <1>7, TypesDiffer DEF Elements
<1>9. InRecord'
  BY <1>1, <1>2, <1>6, <1>8 DEF InRecord
<1> QED BY <1>1, <1>2, <1>4, <1>9, WithinRecord DEF Inner

LEMMA ReadPackedSteps ==
    ASSUME InStep, ReadPacked
    PROVE  InStep'
<1>1. at = "value" /\ More(1) /\ pos' = pos + 1 /\ at' = "elements" /\ type \in Packed
      /\ encoding' = (IF type = "SET_INTSET" THEN "intset" ELSE "ziplist")
      /\ val' = Next1.texts /\ left' = 0
      /\ UNCHANGED <<records, dump, taken, outcome, type, expire, key>>
  BY DEF ReadPacked, Reads, Goes, result
<1>2. Reading /\ taken < Len(records) /\ type = Rec.type /\ expire = Rec.expire /\ key = Rec.key
      /\ Rec \in Record /\ WellFormed(Rec) /\ Rest \in Seq(Item)
      /\ ToRead = ValueItems(Rec) \o Rest
  BY <1>1, AtValue
<1>3. Pack(Rec.val) \in Item /\ ToRead = <<Pack(Rec.val)>> \o Rest
  BY <1>1, <1>2, ValueIs
<1>4. Next1 = Pack(Rec.val) /\ pos' \in 0 .. Len(dump) /\ ToRead' = Rest
  BY <1>1, <1>2, <1>3, OneRead
<1>5. val' = Rec.val
  BY <1>1, <1>4, OpIs
<1>6. Rec' = Rec /\ Rest' = Rest
  BY <1>1, Stays
<1>7. HasPack'
  BY <1>1, <1>4, <1>5, <1>6 DEF HasPack
<1>8. Elements'
  BY <1>1, <1>7, TypesDiffer DEF Elements
<1>9. InRecord'
  BY <1>1, <1>2, <1>6, <1>8 DEF InRecord
<1> QED BY <1>1, <1>2, <1>4, <1>9, WithinRecord DEF Inner

LEMMA ReadLengthSteps ==
    ASSUME InStep, ReadLength
    PROVE  InStep'
<1>1. at = "value" /\ More(1) /\ pos' = pos + 1 /\ at' = "elements" /\ type \in {"LIST", "HASH"}
      /\ encoding' = (IF type = "LIST" /\ Next1.len > LIST_MAX THEN "linkedlist" ELSE "ziplist")
      /\ val' = <<>> /\ left' = Next1.len
      /\ UNCHANGED <<records, dump, taken, outcome, type, expire, key>>
  BY DEF ReadLength, Reads, Goes, result
<1>2. Reading /\ taken < Len(records) /\ type = Rec.type /\ expire = Rec.expire /\ key = Rec.key
      /\ Rec \in Record /\ WellFormed(Rec) /\ Rest \in Seq(Item)
      /\ ToRead = ValueItems(Rec) \o Rest
  BY <1>1, AtValue
<1>3. Rec' = Rec /\ Rest' = Rest
  BY <1>1, Stays
<1>4. Rec.val \in Seq(Texts) /\ Len(Rec.val) \in Nat
  BY <1>2, RecordIs
<1>5. From(Rec.val, 0) = Rec.val /\ SubSeq(Rec.val, 1, 0) = <<>> /\ Kept(Rec.val, 0) = <<>>
  BY <1>4, TextsRead
<1>6. CASE type = "LIST"
  <2>1. Length(Len(Rec.val)) \in Item /\ Strs(Rec.val) \in Seq(Item)
        /\ ToRead = <<Length(Len(Rec.val))>> \o (Strs(Rec.val) \o Rest)
    BY <1>2, <1>6, ValueIs, ZenonT(30)
  <2>2. Strs(Rec.val) \o Rest \in Seq(Item)
    BY <1>2, <2>1, JoinItems
  <2>3. Next1 = Length(Len(Rec.val)) /\ pos' \in 0 .. Len(dump) /\ ToRead' = Strs(Rec.val) \o Rest
    BY <1>1, <1>2, <2>1, <2>2, OneRead
  <2>4. Next1.len = Len(Rec.val)
    BY <2>3, OpIs
  <2>5. left' \in Nat /\ 0 + left' = Len(Rec.val)
    BY <1>1, <1>4, <2>4
  <2>6. HasList(0)'
    BY <1>1, <1>3, <1>5, <1>6, <2>3, <2>4, <2>5 DEF HasList
  <2>7. Elements'
    BY <1>1, <1>6, <2>5, <2>6, TypesDiffer DEF Elements
  <2>8. InRecord'
    BY <1>1, <1>2, <1>3, <2>7 DEF InRecord
  <2> QED BY <1>1, <1>2, <2>3, <2>8, WithinRecord DEF Inner
<1>7. CASE type = "HASH"
  <2>1. Length(Len(Rec.val) \div 2) \in Item /\ Strs(Rec.val) \in Seq(Item)
        /\ ToRead = <<Length(Len(Rec.val) \div 2)>> \o (Strs(Rec.val) \o Rest)
    BY <1>2, <1>7, ValueIs, ZenonT(30)
  <2>2. Strs(Rec.val) \o Rest \in Seq(Item)
    BY <1>2, <2>1, JoinItems
  <2>3. Next1 = Length(Len(Rec.val) \div 2) /\ pos' \in 0 .. Len(dump) /\ ToRead' = Strs(Rec.val) \o Rest
    BY <1>1, <1>2, <2>1, <2>2, OneRead
  <2>4. Next1.len = Len(Rec.val) \div 2
    BY <2>3, OpIs
  <2>5. Len(Rec.val) % 2 = 0
    BY <1>2, <1>7 DEF WellFormed
  <2>6. \A n \in Nat : n % 2 = 0 => n \div 2 \in Nat /\ 2 * (0 + n \div 2) = n
    OBVIOUS
  <2>7. left' \in Nat /\ 2 * (0 + left') = Len(Rec.val)
    BY <1>1, <1>4, <2>4, <2>5, <2>6
  <2>8. HasPairs(0)'
    <3>1. 2 * 0 = 0
      OBVIOUS
    <3> QED BY <1>1, <1>3, <1>5, <1>7, <2>3, <2>7, <3>1 DEF HasPairs
  <2>9. Elements'
    BY <1>1, <1>7, <2>7, <2>8, TypesDiffer DEF Elements
  <2>10. InRecord'
    BY <1>1, <1>2, <1>3, <2>9 DEF InRecord
  <2> QED BY <1>1, <1>2, <2>3, <2>10, WithinRecord DEF Inner
<1> QED BY <1>1, <1>6, <1>7

\* The elements of a value are being read.
LEMMA AtElements ==
    ASSUME InStep, at = "elements"
    PROVE  /\ Reading /\ taken < Len(records) /\ type = Rec.type /\ expire = Rec.expire /\ key = Rec.key
           /\ Rec \in Record /\ WellFormed(Rec) /\ Rest \in Seq(Item)
           /\ Rec.val \in Seq(Texts) /\ Len(Rec.val) \in Nat
           /\ Elements
<1>1. Reading /\ InRecord
  BY DEF Reading, InStep, AtRecord
<1>2. taken < Len(records) /\ type = Rec.type /\ expire = Rec.expire /\ key = Rec.key /\ Elements
  BY <1>1 DEF InRecord
<1>3. Rec \in Record /\ WellFormed(Rec) /\ Rest \in Seq(Item)
  BY <1>2, RecFacts
<1> QED BY <1>1, <1>2, <1>3, RecordIs

\* The text that follows the first d of a value.
LEMMA TextNext ==
    ASSUME InStep, at = "elements", NEW d \in Nat, d < Len(Rec.val),
           ToRead = Strs(From(Rec.val, d)) \o Rest
    PROVE  /\ Rec.val[d + 1] \in Texts /\ Str(Rec.val[d + 1]) \in Item
           /\ Strs(From(Rec.val, d + 1)) \o Rest \in Seq(Item)
           /\ ToRead = <<Str(Rec.val[d + 1])>> \o (Strs(From(Rec.val, d + 1)) \o Rest)
<1>1. Rec.val \in Seq(Texts) /\ Len(Rec.val) \in Nat /\ Rest \in Seq(Item)
  BY AtElements
<1>2. d <= Len(Rec.val) /\ d + 1 \in Nat /\ d + 1 <= Len(Rec.val)
  BY <1>1
<1>3. Strs(From(Rec.val, d + 1)) \in Seq(Item)
  BY <1>1, <1>2, StrsFrom, Zenon DEF From
<1>4. Rec.val[d + 1] \in Texts
      /\ Strs(From(Rec.val, d)) \o Rest = <<Str(Rec.val[d + 1])>> \o (Strs(From(Rec.val, d + 1)) \o Rest)
  BY <1>1, <1>2, StrsFrom, Zenon DEF From
<1> QED BY <1>1, <1>3, <1>4, JoinItems, ItemsAre

\* The steps that read an element.
LEMMA ReadShortListElementSteps ==
    ASSUME InStep, ReadShortListElement
    PROVE  InStep'
<1>1. at = "elements" /\ More(1) /\ pos' = pos + 1 /\ at' = "elements" /\ type = "LIST"
      /\ encoding = "ziplist" /\ left > 0 /\ left' = left - 1
      /\ UNCHANGED <<records, dump, taken, outcome, type, expire, key, encoding, val>>
  BY DEF ReadShortListElement, ReadsStr, Reads, Goes, result
<1>2. /\ Reading /\ taken < Len(records) /\ type = Rec.type /\ expire = Rec.expire /\ key = Rec.key
      /\ Elements /\ Len(Rec.val) \in Nat
  BY <1>1, AtElements
<1>3. PICK d \in Nat : HasList(d)
  BY <1>1, <1>2 DEF Elements
<1>4. left \in Nat /\ d + left = Len(Rec.val) /\ ToRead = Strs(From(Rec.val, d)) \o Rest
      /\ ~(Len(Rec.val) > LIST_MAX) /\ val = <<>>
  BY <1>1, <1>2, <1>3 DEF HasList, Elements
<1>5. d < Len(Rec.val)
  BY <1>1, <1>2, <1>4
<1>6. pos' \in 0 .. Len(dump) /\ ToRead' = Strs(From(Rec.val, d + 1)) \o Rest
  BY <1>1, <1>2, <1>4, <1>5, TextNext, OneRead
<1>7. Rec' = Rec /\ Rest' = Rest
  BY <1>1, Stays
<1>8. left' \in Nat /\ (d + 1) + left' = Len(Rec.val)
  <2>1. \A a \in Nat, b \in Nat : b > 0 => b - 1 \in Nat /\ (a + 1) + (b - 1) = a + b
    OBVIOUS
  <2> QED BY <1>1, <1>4, <2>1
<1>9. HasList(d + 1)'
  BY <1>1, <1>4, <1>6, <1>7, <1>8 DEF HasList
<1>10. Elements'
  BY <1>1, <1>8, <1>9, TypesDiffer DEF Elements
<1>11. InRecord'
  BY <1>1, <1>2, <1>7, <1>10 DEF InRecord
<1> QED BY <1>1, <1>2, <1>6, <1>11, WithinRecord DEF Inner

\* One text more of a long list, as a C string.
LEMMA KeptNext ==
    ASSUME NEW texts, NEW d \in Nat
    PROVE  Append(Kept(texts, d), Feed!CString(texts[d + 1])) = Kept(texts, d + 1)
<1> DEFINE c == [i \in 1 .. d + 1 |-> Feed!CString(texts[i])]
           S == {c[i] : i \in 1 .. d + 1}
<1>1. c \in Seq(S) /\ Len(c) = d + 1 /\ \A i \in 1 .. d + 1 : c[i] = Feed!CString(texts[i])
  OBVIOUS
<1>3. c[d + 1] \in S /\ c[d + 1] = Feed!CString(texts[d + 1])
  OBVIOUS
<1> HIDE DEF c, S
<1>2. Kept(texts, d) \in Seq(S) /\ Len(Kept(texts, d)) = d
      /\ \A i \in 1 .. d : Kept(texts, d)[i] = c[i]
  <2>1. \A i \in 1 .. d : c[i] \in S /\ c[i] = Feed!CString(texts[i])
    BY <1>1
  <2>2. Kept(texts, d) = [i \in 1 .. d |-> c[i]]
    BY <2>1 DEF Kept
  <2> QED BY <2>1, <2>2
<1> DEFINE k == Kept(texts, d)
           a == Append(k, c[d + 1])
<1>4. a \in Seq(S) /\ Len(a) = d + 1 /\ a[d + 1] = c[d + 1] /\ \A i \in 1 .. d : a[i] = k[i]
  BY <1>2, <1>3, AppendProperties
<1>5. \A i \in 1 .. d + 1 : a[i] = c[i]
  BY <1>2, <1>4
<1>6. a = c
  BY <1>1, <1>4, <1>5, SeqEqual
<1> QED BY <1>3, <1>6 DEF c, Kept

LEMMA ReadLongListElementSteps ==
    ASSUME InStep, ReadLongListElement
    PROVE  InStep' /\ (at' = "end" => Feed!Crash)
<1>1. at = "elements" /\ More(1) /\ pos' = pos + 1 /\ type = "LIST"
      /\ encoding = "linkedlist" /\ left > 0 /\ UNCHANGED <<records, dump>>
  BY DEF ReadLongListElement, ReadsStr, Reads, Goes, Crash, Ends
<1>2. /\ Reading /\ taken < Len(records) /\ type = Rec.type /\ expire = Rec.expire /\ key = Rec.key
      /\ Elements /\ Len(Rec.val) \in Nat
  BY <1>1, AtElements
<1>3. PICK d \in Nat : HasList(d)
  BY <1>1, <1>2 DEF Elements
<1>4. left \in Nat /\ d + left = Len(Rec.val) /\ ToRead = Strs(From(Rec.val, d)) \o Rest
      /\ Len(Rec.val) > LIST_MAX /\ val = Kept(Rec.val, d)
  BY <1>1, <1>2, <1>3 DEF HasList, Elements
<1>5. d < Len(Rec.val) /\ d + 1 \in 1 .. Len(Rec.val)
  BY <1>1, <1>2, <1>4
<1>6. Next1 = Str(Rec.val[d + 1]) /\ pos' \in 0 .. Len(dump) /\ ToRead' = Strs(From(Rec.val, d + 1)) \o Rest
  BY <1>1, <1>2, <1>4, <1>5, TextNext, OneRead
<1>7. Next1.text = Rec.val[d + 1]
  BY <1>6, OpIs
<1>8. CASE /\ val' = Append(val, IF Next1.text \in Words \ Nuls THEN Next1.text ELSE Empty)
           /\ left' = left - 1 /\ at' = "elements"
           /\ UNCHANGED <<type, expire, key, encoding, taken, outcome>>
  <2>1. Rec' = Rec /\ Rest' = Rest
    BY <1>1, <1>8, Stays
  <2>2. left' \in Nat /\ (d + 1) + left' = Len(Rec.val)
    <3>1. \A a \in Nat, b \in Nat : b > 0 => b - 1 \in Nat /\ (a + 1) + (b - 1) = a + b
      OBVIOUS
    <3> QED BY <1>1, <1>4, <1>8, <3>1
  <2>3. val' = Kept(Rec.val, d + 1)
    <3>1. Feed!CString(Rec.val[d + 1]) = IF Next1.text \in Words \ Nuls THEN Next1.text ELSE Empty
      BY <1>7 DEF Feed!CString
    <3> QED BY <1>4, <1>8, <3>1, KeptNext
  <2>4. HasList(d + 1)'
    BY <1>1, <1>4, <1>6, <1>8, <2>1, <2>2, <2>3 DEF HasList
  <2>5. Elements'
    BY <1>1, <1>8, <2>2, <2>4, TypesDiffer DEF Elements
  <2>6. InRecord'
    BY <1>1, <1>2, <1>8, <2>1, <2>5 DEF InRecord
  <2> QED BY <1>1, <1>2, <1>6, <1>8, <2>6, WithinRecord DEF Inner
<1>9. CASE Next1.text \in Ints /\ Crash
  <2>1. outcome' = "crash" /\ at' = "end" /\ UNCHANGED <<taken, sent>>
    BY <1>9 DEF Crash, Ends, Goes
  <2>2. InStep'
    BY <1>1, <1>2, <1>6, <2>1, EndsInStep DEF Reading
  <2>3. Feed!Breaks(Rec)
    <3>1. \E i \in DOMAIN Rec.val : Rec.val[i] \in Ints
      BY <1>1, <1>5, <1>7, <1>9, AtElements
    <3> QED BY <1>1, <1>2, <1>4, <3>1 DEF Feed!Breaks, Feed!Long, Feed!HasInt
  <2>4. outcome = "running"
    BY <1>1, Facts
  <2> QED BY <1>1, <1>2, <2>1, <2>2, <2>3, <2>4 DEF Feed!Crash, Feed!Pending, Feed!Current, Rec
<1> QED BY <1>8, <1>9 DEF ReadLongListElement, Goes, result

LEMMA ReadPairSteps ==
    ASSUME InStep, ReadPair
    PROVE  InStep'
<1>1. at = "elements" /\ More(2) /\ pos' = pos + 2 /\ at' = "elements" /\ type = "HASH"
      /\ left > 0 /\ left' = left - 1 /\ val' = val \o <<Next1.text, Next2.text>>
      /\ UNCHANGED <<records, dump, taken, outcome, type, expire, key, encoding>>
  BY DEF ReadPair, Goes, result
<1>2. /\ Reading /\ taken < Len(records) /\ type = Rec.type /\ expire = Rec.expire /\ key = Rec.key
      /\ Elements /\ Rec.val \in Seq(Texts) /\ Len(Rec.val) \in Nat /\ Rest \in Seq(Item)
  BY <1>1, AtElements
<1>3. PICK d \in Nat : HasPairs(d)
  BY <1>1, <1>2 DEF Elements
<1>4. left \in Nat /\ 2 * (d + left) = Len(Rec.val) /\ val = SubSeq(Rec.val, 1, 2 * d)
      /\ ToRead = Strs(From(Rec.val, 2 * d)) \o Rest /\ encoding = "ziplist"
  BY <1>1, <1>2, <1>3 DEF HasPairs, Elements
<1> DEFINE e == 2 * d
<1>5. e \in Nat /\ e + 2 <= Len(Rec.val) /\ 2 * (d + 1) = (e + 1) + 1
  BY <1>1, <1>2, <1>4
<1>5a. ToRead = Strs(From(Rec.val, e)) \o Rest /\ val = SubSeq(Rec.val, 1, e)
  BY <1>4
<1> HIDE DEF e
<1>6. Len(dump) \in Nat /\ pos \in 0 .. Len(dump) /\ pos < Len(dump)
      /\ pos + 1 \in 0 .. Len(dump) /\ pos + 1 < Len(dump) /\ pos + 2 \in 0 .. Len(dump)
      /\ (pos + 1) + 1 = pos + 2
  BY <1>1, Facts DEF More
<1>7. /\ Rec.val[e + 1] \in Texts /\ Str(Rec.val[e + 1]) \in Item
      /\ Strs(From(Rec.val, e + 1)) \o Rest \in Seq(Item)
      /\ ToRead = <<Str(Rec.val[e + 1])>> \o (Strs(From(Rec.val, e + 1)) \o Rest)
  <2>1. e < Len(Rec.val)
    BY <1>2, <1>5
  <2> QED BY <1>1, <1>5, <1>5a, <2>1, TextNext, Zenon
<1>8. Next1 = Str(Rec.val[e + 1]) /\ SubSeq(All, (pos + 1) + 1, Len(All)) = Strs(From(Rec.val, e + 1)) \o Rest
  <2>1. PICK x \in Item, r \in Seq(Item) :
            x = Str(Rec.val[e + 1]) /\ r = Strs(From(Rec.val, e + 1)) \o Rest
    BY <1>7
  <2>2. SubSeq(All, pos + 1, Len(All)) = <<x>> \o r
    BY <1>7, <2>1 DEF ToRead
  <2>3. dump[pos + 1] = x /\ SubSeq(All, (pos + 1) + 1, Len(All)) = r
    BY <1>2, <1>6, <2>2, ItemAt
  <2> QED BY <2>1, <2>3 DEF Next1
<1>9. /\ Rec.val[(e + 1) + 1] \in Texts /\ Str(Rec.val[(e + 1) + 1]) \in Item
      /\ Strs(From(Rec.val, (e + 1) + 1)) \in Seq(Item)
      /\ Strs(From(Rec.val, e + 1)) \o Rest
            = <<Str(Rec.val[(e + 1) + 1])>> \o (Strs(From(Rec.val, (e + 1) + 1)) \o Rest)
  <2>1. e + 1 \in Nat /\ e + 1 < Len(Rec.val) /\ e + 1 <= Len(Rec.val)
        /\ (e + 1) + 1 \in Nat /\ (e + 1) + 1 <= Len(Rec.val)
    BY <1>2, <1>5
  <2>2. /\ Rec.val[(e + 1) + 1] \in Texts
        /\ Strs(From(Rec.val, e + 1)) \o Rest
            = <<Str(Rec.val[(e + 1) + 1])>> \o (Strs(From(Rec.val, (e + 1) + 1)) \o Rest)
    BY <1>2, <2>1, StrsFrom, Zenon DEF From
  <2>3. Strs(From(Rec.val, (e + 1) + 1)) \in Seq(Item)
    BY <1>2, <2>1, StrsFrom, Zenon DEF From
  <2> QED BY <2>2, <2>3, ItemsAre
<1>10. dump[(pos + 1) + 1] = Str(Rec.val[(e + 1) + 1])
       /\ SubSeq(All, ((pos + 1) + 1) + 1, Len(All)) = Strs(From(Rec.val, (e + 1) + 1)) \o Rest
  <2>1. Strs(From(Rec.val, (e + 1) + 1)) \o Rest \in Seq(Item)
    BY <1>2, <1>9, JoinItems
  <2>2. PICK x \in Item, r \in Seq(Item) :
            x = Str(Rec.val[(e + 1) + 1]) /\ r = Strs(From(Rec.val, (e + 1) + 1)) \o Rest
    BY <1>9, <2>1
  <2>3. SubSeq(All, (pos + 1) + 1, Len(All)) = <<x>> \o r
    BY <1>8, <1>9, <2>2
  <2>4. dump[(pos + 1) + 1] = x /\ SubSeq(All, ((pos + 1) + 1) + 1, Len(All)) = r
    BY <1>2, <1>6, <2>3, ItemAt
  <2> QED BY <2>2, <2>4
<1>11. Next1.text = Rec.val[e + 1] /\ Next2.text = Rec.val[(e + 1) + 1]
  <2>1. Next2 = Str(Rec.val[(e + 1) + 1])
    BY <1>6, <1>10 DEF Next2
  <2> QED BY <1>8, <2>1, OpIs
<1>12. Rec' = Rec /\ Rest' = Rest /\ All' = All
  BY <1>1, Stays
<1>13. ToRead' = Strs(From(Rec.val, 2 * (d + 1))) \o Rest /\ pos' \in 0 .. Len(dump)
  <2>1. pos' + 1 = ((pos + 1) + 1) + 1 /\ pos' \in 0 .. Len(dump)
    BY <1>1, <1>6
  <2> QED BY <1>5, <1>10, <1>12, <2>1 DEF ToRead
<1>14. val' = SubSeq(Rec.val, 1, 2 * (d + 1))
  <2>1. e + 1 \in 1 .. Len(Rec.val) /\ (e + 1) + 1 \in 1 .. Len(Rec.val) /\ e \in 0 .. Len(Rec.val)
        /\ ((e + 1) + 1) - 1 = e + 1 /\ (e + 1) - 1 = e
    BY <1>2, <1>5
  <2>2. SubSeq(Rec.val, 1, (e + 1) + 1) = SubSeq(Rec.val, 1, e + 1) \o <<Rec.val[(e + 1) + 1]>>
    BY <1>2, <2>1, SubSeqRecursiveSecond
  <2>3. SubSeq(Rec.val, 1, e + 1) = SubSeq(Rec.val, 1, e) \o <<Rec.val[e + 1]>>
    BY <1>2, <2>1, SubSeqRecursiveSecond
  <2>4. PICK s \in Seq(Texts), x \in Texts, y \in Texts :
            s = SubSeq(Rec.val, 1, e) /\ x = Rec.val[e + 1] /\ y = Rec.val[(e + 1) + 1]
    <3>1. SubSeq(Rec.val, 1, e) \in Seq(Texts)
      BY <1>2, <2>1
    <3> QED BY <1>7, <1>9, <3>1
  <2>5. (s \o <<x>>) \o <<y>> = s \o <<x, y>>
    <3>1. <<x>> \in Seq(Texts) /\ <<y>> \in Seq(Texts)
      OBVIOUS
    <3>2. (s \o <<x>>) \o <<y>> = s \o (<<x>> \o <<y>>)
      BY <3>1, ConcatAssociative
    <3> QED BY <3>2, PairIs
  <2> QED BY <1>1, <1>5a, <1>5, <1>11, <2>2, <2>3, <2>4, <2>5
<1>15. left' \in Nat /\ 2 * ((d + 1) + left') = Len(Rec.val)
  <2>1. \A a \in Nat, b \in Nat : b > 0 => b - 1 \in Nat /\ (a + 1) + (b - 1) = a + b
    OBVIOUS
  <2> QED BY <1>1, <1>4, <2>1
<1>16. HasPairs(d + 1)'
  BY <1>1, <1>4, <1>12, <1>13, <1>14, <1>15 DEF HasPairs
<1>17. Elements'
  BY <1>1, <1>15, <1>16, TypesDiffer DEF Elements
<1>18. InRecord'
  BY <1>1, <1>2, <1>12, <1>17 DEF InRecord
<1> QED BY <1>1, <1>2, <1>13, <1>18, WithinRecord DEF Inner

\* A dump begins with the signature, and no other item is one.
LEMMA SecondIsOp ==
    ASSUME records \in Saves
    PROVE  \E o : \E r \in Seq(Item) : Op(o) \in Item /\ After[1] = <<Op(o)>> \o r
<1>1. Len(records) \in Nat
  BY SavesAssumption
<1>2. CASE Len(records) = 0
  <2>1. After[1] = <<Op("EOF")>>
    BY <1>2, AfterIs
  <2> QED BY <2>1, Eof, NoItems
<1>3. CASE Len(records) # 0
  <2> DEFINE rec == records[1]
             rest == After[2]
  <2>1. 1 \in 1 .. Len(records) /\ 2 \in 1 .. Len(records) + 1 /\ 1 + 1 = 2
    BY <1>1, <1>3
  <2>2. rec \in Record /\ WellFormed(rec) /\ rest \in Seq(Item)
    BY <2>1, SavedRecord, AfterIs
  <2>3. After[1] = RecordItems(rec) \o rest
    BY <2>1, AfterIs
  <2> HIDE DEF rec, rest
  <2>4. CASE rec.select
    <3>1. RecordItems(rec) \o rest = <<Op("SELECTDB")>> \o (<<Length(0)>> \o (Timed(rec) \o rest))
      BY <2>2, <2>4, RecordItemsAre
    <3>2. Op("SELECTDB") \in Item /\ <<Length(0)>> \o (Timed(rec) \o rest) \in Seq(Item)
      BY <2>2, Opening, ItemsAre DEF Opcodes
    <3> QED BY <2>3, <3>1, <3>2
  <2>5. CASE ~rec.select /\ rec.expire # "none"
    <3>1. RecordItems(rec) \o rest = <<TimeOp(rec)>> \o (<<TimeItem(rec)>> \o (Body(rec) \o rest))
      <4>1. RecordItems(rec) \o rest = Timed(rec) \o rest
        BY <2>2, <2>5, RecordItemsAre, Zenon
      <4>2. Timed(rec) \o rest = <<TimeOp(rec)>> \o (<<TimeItem(rec)>> \o (Body(rec) \o rest))
        BY <2>2, <2>5, TimedIs, Zenon
      <4> QED BY <4>1, <4>2, Zenon
    <3>2. TimeOp(rec) \in Item /\ <<TimeItem(rec)>> \o (Body(rec) \o rest) \in Seq(Item)
      BY <2>2, <2>5, Opening, TimedIs
    <3> QED BY <2>3, <3>1, <3>2 DEF TimeOp
  <2>6. CASE ~rec.select /\ rec.expire = "none"
    <3>1. RecordItems(rec) \o rest = Body(rec) \o rest
      <4>1. RecordItems(rec) \o rest = Timed(rec) \o rest
        BY <2>2, <2>6, RecordItemsAre
      <4>2. Timed(rec) \o rest = Body(rec) \o rest
        BY <2>2, <2>6, TimedIs
      <4> QED BY <4>1, <4>2
    <3>2. Body(rec) \o rest = <<Op(rec.type)>> \o (<<Str(rec.key)>> \o (ValueItems(rec) \o rest))
      BY <2>2, BodyIs
    <3>3. Op(rec.type) \in Item /\ <<Str(rec.key)>> \o (ValueItems(rec) \o rest) \in Seq(Item)
      BY <2>2, Opening, RecordIs
    <3> QED BY <2>3, <3>1, <3>2, <3>3
  <2> QED BY <2>4, <2>5, <2>6
<1> QED BY <1>2, <1>3

\* A file without its first item does not have the signature; one that has it is a beginning of
\* the dump.
LEMMA AtHeader ==
    ASSUME InStep, at = "header"
    PROVE  /\ pos = 0 /\ taken = 0 /\ expire = "none" /\ dump \in Seq(Item)
           /\ ~More(1) => dump # All
           /\ (More(1) /\ Next1.k # "magic") => dump # All
           /\ (More(1) /\ Next1.k = "magic") =>
                 /\ Begins /\ 1 \in 0 .. Len(dump)
                 /\ SubSeq(All, 2, Len(All)) = After[1]
<1>1. pos = 0 /\ taken = 0 /\ expire = "none" /\ dump \in Seq(Item) /\ records \in Saves
      /\ All \in Seq(Item) /\ Len(All) \in Nat /\ Len(dump) \in Nat
  BY Facts DEF InStep
<1>2. PICK from \in {1, 2}, to \in 0 .. Len(All) : dump = SubSeq(All, from, to)
  BY DEF InStep, Pieces
<1>3. After[1] \in Seq(Item) /\ All = <<Magic>> \o After[1]
  <2>1. 1 \in 1 .. Len(records) + 1
    BY <1>1, Facts
  <2> QED BY <1>1, <2>1, AfterIs DEF All
<1>4. Magic \in Item
  BY ItemsAre
<1>5. 0 < Len(All) /\ All[0 + 1] = Magic /\ SubSeq(All, (0 + 1) + 1, Len(All)) = After[1]
  <2>1. SubSeq(All, 0 + 1, Len(All)) = <<Magic>> \o After[1]
    <3>1. 0 + 1 = 1
      OBVIOUS
    <3> QED BY <1>1, <1>3, <3>1, SubSeqFull
  <2> QED BY <1>1, <1>3, <1>4, <2>1, TakeItem
<1>6. 0 < Len(All) /\ All[1] = Magic /\ SubSeq(All, 2, Len(All)) = After[1]
  BY <1>5
<1>7. ~More(1) => dump # All
  BY <1>1, <1>6 DEF More
<1>8. ASSUME More(1), Next1.k # "magic" PROVE dump # All
  BY <1>1, <1>6, <1>8, OpIs DEF Next1
<1>9. ASSUME More(1), Next1.k = "magic"
      PROVE  Begins /\ 1 \in 0 .. Len(dump)
  <2>1. 1 \in 0 .. Len(dump) /\ Len(dump) >= 1
    BY <1>1, <1>9 DEF More
  <2>2. CASE from = 1
    <3>1. Len(SubSeq(All, 1, to)) = to
      BY <1>1
    <3> QED BY <1>1, <1>2, <2>1, <2>2, <3>1 DEF Begins
  <2>3. CASE from = 2
    <3>0. PICK o : \E r \in Seq(Item) : Op(o) \in Item /\ After[1] = <<Op(o)>> \o r
      BY <1>1, SecondIsOp
    <3>1. PICK r \in Seq(Item) : Op(o) \in Item /\ After[1] = <<Op(o)>> \o r
      BY <3>0
    <3>2. <<Magic>> \in Seq(Item)
      BY <1>4, OneItem
    <3>3. SubSeq(All, (0 + 1) + 1, Len(All)) = <<Op(o)>> \o r
      BY <1>5, <3>1
    <3>4. All[(0 + 1) + 1] = Op(o)
      <4>1. 0 + 1 \in Nat /\ 0 + 1 <= Len(All)
        BY <1>1, <1>6
      <4> QED BY <1>1, <3>1, <3>3, <4>1, TakeItem
    <3>5. to >= 2
      <4>1. to < 2 => Len(SubSeq(All, 2, to)) = 0
        BY <1>1, SubSeqEmpty, EmptySeq
      <4> QED BY <1>1, <1>2, <2>1, <2>3, <4>1
    <3>6. SubSeq(All, 2, to)[1] = All[2]
      BY <1>1, <3>5
    <3>7. Next1 = Op(o)
      <4>1. (0 + 1) + 1 = 2 /\ 0 + 1 = 1
        OBVIOUS
      <4> QED BY <1>1, <1>2, <2>3, <3>4, <3>6, <4>1 DEF Next1
    <3> QED BY <1>9, <3>7, OpIs
  <2> QED BY <2>2, <2>3, <2>1
<1> QED BY <1>1, <1>6, <1>7, <1>8, <1>9

LEMMA HeaderSteps ==
    ASSUME InStep, Header
    PROVE  InStep'
<1>1. at = "header" /\ More(1) /\ Next1.k = "magic" /\ pos' = pos + 1 /\ at' = "opcode"
      /\ UNCHANGED <<records, dump, taken, outcome, expire>>
  BY DEF Header, Reads, Goes, result
<1>2. pos = 0 /\ taken = 0 /\ expire = "none" /\ Begins /\ 1 \in 0 .. Len(dump)
      /\ SubSeq(All, 2, Len(All)) = After[1]
  BY <1>1, AtHeader
<1>3. All' = All /\ After' = After
  BY <1>1 DEF All, After
<1>4. pos' = 1 /\ ToRead' = After[1] /\ 0 + 1 = 1
  BY <1>1, <1>2, <1>3 DEF ToRead
<1>5. Steady'
  BY <1>1, <1>2, <1>4 DEF InStep, Steady, Readers
<1>6. Begins'
  BY <1>1, <1>2, <1>3 DEF Begins
<1>7. AtRecord'
  BY <1>1, <1>2, <1>3, <1>4 DEF AtRecord
<1> QED BY <1>1, <1>5, <1>6, <1>7 DEF InStep

-----------------------------------------------------------------------------
(* The steps that end the load.                                             *)

\* A load that ends with an error gives up a file that is not whole, or a record that is refused.
LEMMA FailGivesUp ==
    ASSUME InStep, Fail, pos' = pos, at # "end",
           dump # All \/ (taken < Len(records) /\ Feed!Refused(Rec))
    PROVE  InStep' /\ Feed!GiveUp
<1>1. outcome' = "error" /\ at' = "end" /\ UNCHANGED <<records, dump, taken, sent>>
  BY DEF Fail, Ends, Goes
<1>2. InStep'
  BY <1>1, Facts, EndsInStep
<1>3. outcome = "running"
  BY Facts
<1> QED BY <1>1, <1>2, <1>3 DEF Feed!GiveUp, Feed!Pending, Feed!Current, Rec, All

LEMMA WrongSignatureEnds ==
    ASSUME InStep, WrongSignature
    PROVE  InStep' /\ Feed!GiveUp
<1>1. at = "header" /\ More(1) /\ Next1.k # "magic" /\ pos' = pos /\ Fail
  BY DEF WrongSignature
<1> QED BY <1>1, AtHeader, FailGivesUp

\* There is something to read in the dump, wherever the code reads.
LEMMA SomethingNext ==
    ASSUME InStep, at \in Readers \ {"header"}
    PROVE  Reading /\ \E x \in Item : \E r \in Seq(Item) : ToRead = <<x>> \o r
<1>1. Reading
  BY DEF Reading, Readers
<1>2. ASSUME taken < Len(records)
      PROVE  Rec \in Record /\ WellFormed(Rec) /\ Rest \in Seq(Item)
  BY <1>2, RecFacts
<1>3. at # "opcode" => InRecord /\ taken < Len(records)
  BY DEF InStep, AtRecord, InRecord, Readers
<1>4. CASE at = "opcode"
  <2>1. CASE ToRead = <<Op("EOF")>> \o <<>>
    BY <1>1, <2>1, Eof, NoItems
  <2>2. CASE /\ taken < Len(records)
             /\ ToRead = <<Op("SELECTDB")>> \o (<<Length(0)>> \o (Timed(Rec) \o Rest))
    <3>1. Op("SELECTDB") \in Item /\ <<Length(0)>> \o (Timed(Rec) \o Rest) \in Seq(Item)
      BY <1>2, <2>2, Opening, ItemsAre DEF Opcodes
    <3> QED BY <1>1, <2>2, <3>1
  <2>3. CASE /\ taken < Len(records) /\ Rec.expire # "none"
             /\ ToRead = <<TimeOp(Rec)>> \o (<<TimeItem(Rec)>> \o (Body(Rec) \o Rest))
    <3>1. TimeOp(Rec) \in Item /\ <<TimeItem(Rec)>> \o (Body(Rec) \o Rest) \in Seq(Item)
      BY <1>2, <2>3, Opening, TimedIs
    <3> QED BY <1>1, <2>3, <3>1
  <2>4. CASE /\ taken < Len(records)
             /\ ToRead = <<Op(Rec.type)>> \o (<<Str(Rec.key)>> \o (ValueItems(Rec) \o Rest))
    <3>1. Op(Rec.type) \in Item /\ <<Str(Rec.key)>> \o (ValueItems(Rec) \o Rest) \in Seq(Item)
      BY <1>2, <2>4, Opening, RecordIs
    <3> QED BY <1>1, <2>4, <3>1
  <2> QED BY <1>4, <2>1, <2>2, <2>3, <2>4, AtOpcode
<1>5. CASE at = "type"
  <2>1. ToRead = <<Op(Rec.type)>> \o (<<Str(Rec.key)>> \o (ValueItems(Rec) \o Rest))
    <3>1. ToRead = Body(Rec) \o Rest
      BY <1>3, <1>5 DEF InRecord
    <3> QED BY <1>2, <1>3, <1>5, <3>1, BodyIs
  <2>2. Op(Rec.type) \in Item /\ <<Str(Rec.key)>> \o (ValueItems(Rec) \o Rest) \in Seq(Item)
    BY <1>2, <1>3, <1>5, Opening, RecordIs
  <2> QED BY <1>1, <2>1, <2>2
<1>6. CASE at = "time"
  <2>1. Rec.expire # "none" /\ ToRead = <<TimeItem(Rec)>> \o (Body(Rec) \o Rest)
    BY <1>3, <1>6 DEF InRecord
  <2>2. TimeItem(Rec) \in Item /\ Body(Rec) \o Rest \in Seq(Item)
    BY <1>2, <1>3, <1>6, <2>1, Opening, TimedIs
  <2> QED BY <1>1, <2>1, <2>2
<1>7. CASE at = "db"
  <2>1. ToRead = <<Length(0)>> \o (Timed(Rec) \o Rest)
    BY <1>3, <1>7 DEF InRecord
  <2>2. Length(0) \in Item /\ Timed(Rec) \o Rest \in Seq(Item)
    BY <1>2, <1>3, <1>7, Opening, ItemsAre
  <2> QED BY <1>1, <2>1, <2>2
<1>8. CASE at = "key"
  <2>1. ToRead = <<Str(Rec.key)>> \o (ValueItems(Rec) \o Rest)
    BY <1>3, <1>8 DEF InRecord
  <2>2. Str(Rec.key) \in Item /\ ValueItems(Rec) \o Rest \in Seq(Item)
    BY <1>2, <1>3, <1>8, Opening, RecordIs
  <2> QED BY <1>1, <2>1, <2>2
<1>9. CASE at = "value"
  <2>1. ToRead = ValueItems(Rec) \o Rest
    BY <1>3, <1>9 DEF InRecord
  <2>2. Rec \in Record /\ WellFormed(Rec) /\ Rest \in Seq(Item)
    BY <1>2, <1>3, <1>9
  <2>3. CASE Rec.type = "STRING"
    BY <1>1, <2>1, <2>2, <2>3, ValueIs
  <2>4. CASE Rec.type \in Packed
    BY <1>1, <2>1, <2>2, <2>4, ValueIs
  <2>5. CASE Rec.type = "HASH"
    <3>1. Length(Len(Rec.val) \div 2) \in Item /\ Strs(Rec.val) \o Rest \in Seq(Item)
          /\ ToRead = <<Length(Len(Rec.val) \div 2)>> \o (Strs(Rec.val) \o Rest)
      BY <2>1, <2>2, <2>5, ValueIs, JoinItems
    <3> QED BY <1>1, <3>1
  <2>6. CASE Rec.type \in {"LIST", "SET", "ZSET"}
    <3>1. Length(Len(Rec.val)) \in Item /\ Strs(Rec.val) \o Rest \in Seq(Item)
          /\ ToRead = <<Length(Len(Rec.val))>> \o (Strs(Rec.val) \o Rest)
      BY <2>1, <2>2, <2>6, ValueIs, JoinItems
    <3> QED BY <1>1, <3>1
  <2> QED BY <2>2, <2>3, <2>4, <2>5, <2>6, RecordIs, TypesDiffer
<1> QED BY <1>4, <1>5, <1>6, <1>7, <1>8, <1>9 DEF Readers

\* A read that is cut short shows that the file is not all of the dump.
LEMMA ShortReadEnds ==
    ASSUME InStep, ShortRead
    PROVE  InStep' /\ Feed!GiveUp
<1>1. pos' = pos /\ Fail /\ at # "end"
  BY DEF ShortRead, Readers
<1>2. CASE at = "header" /\ ~More(1)
  BY <1>1, <1>2, AtHeader, FailGivesUp
<1>3. CASE at \in Readers \ {"header"} /\ ~More(1)
  BY <1>1, <1>3, SomethingNext, NextIs, FailGivesUp
<1>4. CASE at = "elements" /\ left > 0 /\ ~More(IF type = "HASH" THEN 2 ELSE 1)
  <2>1. /\ Reading /\ taken < Len(records) /\ type = Rec.type
        /\ Elements /\ Rec.val \in Seq(Texts) /\ Len(Rec.val) \in Nat /\ Rest \in Seq(Item)
        /\ Rec \in Record
    BY <1>4, AtElements
  <2>2. left \in Nat /\ type \in Packed \cup {"STRING", "LIST", "HASH", "SET", "ZSET"}
        /\ type \notin {"SET", "ZSET"} /\ type # "STRING" /\ type \notin Packed
    BY <1>4, <2>1, RecordIs, TypesDiffer DEF Elements, HasString, HasPack
  <2>3. CASE type = "LIST"
    <3>1. PICK d \in Nat : HasList(d)
      BY <2>1, <2>3 DEF Elements
    <3>2. d + left = Len(Rec.val) /\ ToRead = Strs(From(Rec.val, d)) \o Rest
      BY <3>1 DEF HasList
    <3>3. d < Len(Rec.val)
      BY <1>4, <2>1, <2>2, <3>2
    <3>4. Str(Rec.val[d + 1]) \in Item /\ Strs(From(Rec.val, d + 1)) \o Rest \in Seq(Item)
          /\ ToRead = <<Str(Rec.val[d + 1])>> \o (Strs(From(Rec.val, d + 1)) \o Rest)
      BY <1>4, <3>2, <3>3, TextNext
    <3>5. dump # All
      BY <1>4, <2>1, <2>3, <3>4, NextIs
    <3> QED BY <1>1, <3>5, FailGivesUp
  <2>4. CASE type = "HASH"
    <3>1. PICK d \in Nat : HasPairs(d)
      BY <2>1, <2>4 DEF Elements
    <3>2. 2 * (d + left) = Len(Rec.val) /\ ToRead = Strs(From(Rec.val, 2 * d)) \o Rest
      BY <3>1 DEF HasPairs
    <3> DEFINE e == 2 * d
    <3>3. e \in Nat /\ e < Len(Rec.val) /\ e + 1 \in Nat /\ e + 1 <= Len(Rec.val) /\ e + 1 < Len(Rec.val)
      BY <1>4, <2>1, <2>2, <3>2
    <3>4. ToRead = Strs(From(Rec.val, e)) \o Rest
      BY <3>2
    <3> HIDE DEF e
    <3>5. Str(Rec.val[e + 1]) \in Item /\ Strs(From(Rec.val, e + 1)) \o Rest \in Seq(Item)
          /\ ToRead = <<Str(Rec.val[e + 1])>> \o (Strs(From(Rec.val, e + 1)) \o Rest)
      BY <1>4, <3>3, <3>4, TextNext, Zenon
    <3>6. PICK x \in Item, r \in Seq(Item) : ToRead = <<x>> \o r /\ r = Strs(From(Rec.val, e + 1)) \o Rest
      BY <3>5
    <3>7. Rec.val[(e + 1) + 1] \in Texts
          /\ Strs(From(Rec.val, e + 1)) \o Rest
                = <<Str(Rec.val[(e + 1) + 1])>> \o (Strs(From(Rec.val, (e + 1) + 1)) \o Rest)
      BY <2>1, <3>3, StrsFrom, Zenon DEF From
    <3>8. Strs(From(Rec.val, (e + 1) + 1)) \in Seq(Item)
      <4>1. (e + 1) + 1 \in Nat /\ (e + 1) + 1 <= Len(Rec.val)
        BY <2>1, <3>3
      <4> QED BY <2>1, <4>1, StrsFrom, Zenon DEF From
    <3>9. PICK y \in Item, t \in Seq(Item) : r = <<y>> \o t
      BY <2>1, <3>6, <3>7, <3>8, ItemsAre, JoinItems
    <3>10. Len(dump) \in Nat /\ pos \in 0 .. Len(dump) /\ ~(pos + 2 <= Len(dump))
      BY <1>4, <2>4, Facts DEF More
    <3>11. CASE pos = Len(dump)
      <4>1. ~More(1)
        BY <3>10, <3>11 DEF More
      <4>2. dump # All
        BY <2>1, <3>6, <4>1, NextIs
      <4> QED BY <1>1, <4>2, FailGivesUp
    <3>12. CASE pos + 1 = Len(dump)
      <4>1. SubSeq(All, (pos + 1) + 1, Len(All)) = <<y>> \o t
        BY <2>1, <3>6, <3>9, NextIs
      <4>2. pos + 1 \in 0 .. Len(dump)
        BY <3>10, <3>12
      <4>3. dump # All
        BY <2>1, <3>12, <4>1, <4>2, ItemAt
      <4> QED BY <1>1, <4>3, FailGivesUp
    <3>13. pos = Len(dump) \/ pos + 1 = Len(dump)
      BY <3>10
    <3> QED BY <3>11, <3>12, <3>13
  <2> QED BY <2>2, <2>3, <2>4
<1> QED BY <1>2, <1>3, <1>4 DEF ShortRead

LEMMA UnknownTypeEnds ==
    ASSUME InStep, UnknownType
    PROVE  InStep' /\ Feed!GiveUp
<1>1. at = "value" /\ type \in {"SET", "ZSET"} /\ pos' = pos /\ Fail
  BY DEF UnknownType
<1>2. taken < Len(records) /\ type = Rec.type
  BY <1>1, AtValue
<1>3. Feed!Refused(Rec)
  BY <1>1, <1>2 DEF Feed!Refused, Feed!Unknown
<1> QED BY <1>1, <1>2, <1>3, FailGivesUp

\* The end is only reached in a whole file, behind the last record.
LEMMA ReadEofFinishes ==
    ASSUME InStep, ReadEof
    PROVE  InStep' /\ Feed!Finish
<1>1. (at = "opcode" \/ at = "type") /\ More(1) /\ pos' = pos + 1 /\ at' = "end"
      /\ Next1.op = "EOF" /\ UNCHANGED <<records, dump, taken>>
      /\ outcome' = "ok" /\ sent' = Append(sent, LoadingEof)
  BY DEF ReadEof, ReadsType, Reads, Goes, Ends
<1>2. Next1 # Op("SELECTDB") /\ (\A rec : Next1 # TimeOp(rec))
      /\ (taken < Len(records) => Next1 # Op(Rec.type))
  BY <1>1, OpIs, OpcodesDiffer, RecFacts
<1>3. at = "opcode"
  BY <1>1, <1>2, TypeRead
<1>4. pos' \in 0 .. Len(dump) /\ taken = Len(records) /\ dump = All
  BY <1>1, <1>2, <1>3, OpcodeRead
<1>5. InStep'
  BY <1>1, <1>4, EndsInStep
<1>6. outcome = "running"
  BY <1>3, Facts
<1>7. LoadingEof = Feed!LoadingEof
  BY DEF LoadingEof, Loading, Feed!LoadingEof, Feed!Loading
<1> QED BY <1>1, <1>4, <1>5, <1>6, <1>7 DEF Feed!Finish, All

-----------------------------------------------------------------------------
(* The end of a record.                                                     *)

\* What has been read of a value when nothing is left of it.
LEMMA AtLoaded ==
    ASSUME InStep, at = "elements", left = 0
    PROVE  /\ ToRead = Rest
           /\ type \in Packed \cup {"STRING"} => val = Rec.val
           /\ type = "STRING" =>
                 Len(Rec.val) = 1 /\ encoding = (IF Rec.val[1] \in Ints THEN "int" ELSE "raw")
           /\ type \in Packed => encoding = (IF type = "SET_INTSET" THEN "intset" ELSE "ziplist")
           /\ type = "HASH" => val = Rec.val
           /\ type = "LIST" =>
                 IF Len(Rec.val) > LIST_MAX
                 THEN encoding = "linkedlist" /\ val = Kept(Rec.val, Len(Rec.val))
                 ELSE encoding = "ziplist" /\ val = <<>>
<1>1. /\ type = Rec.type /\ Elements /\ Rec.val \in Seq(Texts) /\ Len(Rec.val) \in Nat
      /\ Rest \in Seq(Item) /\ Rec \in Record /\ WellFormed(Rec)
  BY AtElements
<1>2. type \in Packed \cup {"STRING", "LIST", "HASH"}
  BY <1>1, RecordIs, TypesDiffer DEF Elements
<1>3. CASE type = "STRING"
  BY <1>1, <1>3, TypesDiffer DEF Elements, HasString, WellFormed
<1>4. CASE type \in Packed
  BY <1>1, <1>4, TypesDiffer DEF Elements, HasPack
<1>5. CASE type = "LIST"
  <2>1. PICK d \in Nat : HasList(d)
    BY <1>1, <1>5 DEF Elements
  <2>2. d = Len(Rec.val) /\ d <= Len(Rec.val) /\ ToRead = Strs(From(Rec.val, d)) \o Rest
    BY <1>1, <2>1 DEF HasList
  <2>3. ToRead = Rest
    BY <1>1, <2>2, StrsFrom, Zenon DEF From
  <2> QED BY <1>5, <2>1, <2>2, <2>3, TypesDiffer DEF HasList
<1>6. CASE type = "HASH"
  <2>1. PICK d \in Nat : HasPairs(d)
    BY <1>1, <1>6 DEF Elements
  <2> DEFINE e == 2 * d
  <2>2. e \in Nat /\ e = Len(Rec.val) /\ e <= Len(Rec.val) /\ ToRead = Strs(From(Rec.val, e)) \o Rest
        /\ val = SubSeq(Rec.val, 1, e)
    BY <1>1, <2>1 DEF HasPairs
  <2> HIDE DEF e
  <2>3. ToRead = Rest
    BY <1>1, <2>2, StrsFrom, Zenon DEF From
  <2>4. val = Rec.val
    BY <1>1, <2>2, TextsRead
  <2> QED BY <1>6, <2>3, <2>4, TypesDiffer
<1> QED BY <1>2, <1>3, <1>4, <1>5, <1>6

\* Behind a value comes the next record, or the end.
LEMMA NextRecordSteps ==
    ASSUME InStep, at = "elements", left = 0, pos' = pos, NextRecord
    PROVE  InStep'
<1>1. at' = "opcode" /\ expire' = "none" /\ taken' = taken + 1 /\ UNCHANGED <<records, dump, outcome>>
  BY DEF NextRecord, Goes
<1>2. Reading /\ taken < Len(records)
  BY AtElements
<1>3. All' = All /\ After' = After
  BY <1>1 DEF All, After
<1>4. ToRead' = Rest
  BY <1>3, AtLoaded DEF ToRead
<1>5. Len(records) \in Nat /\ taken \in 0 .. Len(records) /\ taken' + 1 = taken + 2
      /\ taken' \in 0 .. Len(records')
  BY <1>1, <1>2, Facts
<1>6. AtRecord'
  BY <1>1, <1>3, <1>4, <1>5 DEF AtRecord, Rest
<1>7. Steady'
  BY <1>1, <1>5 DEF InStep, Steady, Readers
<1>8. Begins'
  BY <1>1, <1>3 DEF InStep, Begins
<1> QED BY <1>1, <1>6, <1>7, <1>8 DEF InStep

\* How the load of a record ends, each the action of DumpFeed that it is.
LEMMA CrashBreaks ==
    ASSUME InStep, Crash, pos' = pos, at # "end", taken < Len(records), Feed!Breaks(Rec)
    PROVE  InStep' /\ Feed!Crash
<1>1. outcome' = "crash" /\ at' = "end" /\ UNCHANGED <<records, dump, taken, sent>>
  BY DEF Crash, Ends, Goes
<1>2. InStep'
  BY <1>1, Facts, EndsInStep
<1>3. outcome = "running"
  BY Facts
<1> QED BY <1>1, <1>2, <1>3 DEF Feed!Crash, Feed!Pending, Feed!Current, Rec

LEMMA PassesRecord ==
    ASSUME InStep, at = "elements", left = 0, pos' = pos, NextRecord, sent' = sent, Feed!Ignored(Rec)
    PROVE  InStep' /\ Feed!Pass
<1>1. InStep'
  BY NextRecordSteps
<1>2. taken < Len(records) /\ type = Rec.type /\ type \notin {"SET", "ZSET"} /\ outcome = "running"
  BY AtElements, Facts DEF Elements
<1>3. taken' = taken + 1 /\ UNCHANGED <<records, dump, outcome>>
  BY DEF NextRecord, Goes
<1> QED BY <1>1, <1>2, <1>3 DEF Feed!Pass, Feed!Pending, Feed!Current, Feed!Unknown, Rec

LEMMA SendsRecord ==
    ASSUME InStep, at = "elements", left = 0, pos' = pos, NEW kind, NEW value, Sends(kind, value),
           ~Feed!Ignored(Rec), kind = Feed!MessageType(Rec), value \in Feed!Values(Rec)
    PROVE  InStep' /\ Feed!Send
<1>1. NextRecord /\ sent' = Append(sent, Loading(kind, key, value))
  BY DEF Sends
<1>2. InStep'
  BY <1>1, NextRecordSteps
<1>3. taken < Len(records) /\ type = Rec.type /\ type \notin {"SET", "ZSET"} /\ key = Rec.key
      /\ outcome = "running"
  BY AtElements, Facts DEF Elements
<1>4. taken' = taken + 1 /\ UNCHANGED <<records, dump, outcome>>
  BY <1>1 DEF NextRecord, Goes
<1>5. Loading(kind, key, value) = Feed!Loading(Feed!MessageType(Rec), Rec.key, value)
  BY <1>3 DEF Loading, Feed!Loading
<1>6. Feed!Pending /\ Feed!Current = Rec /\ Rec.type \notin Feed!Unknown
  BY <1>3 DEF Feed!Pending, Feed!Current, Feed!Unknown, Rec
<1>7. \E v \in Feed!Values(Rec) : sent' = Append(sent, Feed!Loading(Feed!MessageType(Rec), Rec.key, v))
  BY <1>1, <1>5
<1>8. Feed!Send
  BY <1>4, <1>6, <1>7, Zenon DEF Feed!Send
<1> QED BY <1>2, <1>8

\* What a record of each type should be sent as.
LEMMA SentAs ==
    ASSUME NEW rec \in Record
    PROVE  /\ rec.type = "STRING" =>
                 /\ Feed!MessageType(rec) = "string"
                 /\ ~Feed!HasInt(rec) => Feed!Values(rec) = {Bins(rec.val)}
           /\ rec.type \in {"HASH", "HASH_ZIPLIST"} =>
                 Feed!MessageType(rec) = "hash" /\ Feed!Values(rec) = {Bins(rec.val)}
           /\ rec.type = "LIST_ZIPLIST" =>
                 /\ Feed!MessageType(rec) = "list"
                 /\ Feed!Values(rec) =
                       {[i \in 1 .. Len(rec.val) |-> [num |-> rec.val[i] \in Ints, text |-> rec.val[i]]]}
           /\ rec.type = "LIST" =>
                 /\ Feed!MessageType(rec) = "list"
                 /\ Feed!Values(rec) = IF Feed!Long(rec) THEN Feed!LongLists(rec.val) ELSE {<<>>}
           /\ rec.type = "ZSET_ZIPLIST" =>
                 Feed!MessageType(rec) = "zset" /\ Feed!Values(rec) = {<<>>}
           /\ rec.type = "HASH_ZIPMAP" =>
                 Feed!MessageType(rec) = "hash" /\ Feed!Values(rec) = {<<>>}
<1>1. Feed!Bins(rec.val) = Bins(rec.val)
  BY DEF Bins, Bin, Feed!Bins, Feed!Bin
<1>2. CASE rec.type = "STRING"
  BY <1>1, <1>2 DEF Feed!MessageType, Feed!Values, Feed!Hashes
<1>3. CASE rec.type \in {"HASH", "HASH_ZIPLIST"}
  BY <1>1, <1>3 DEF Feed!MessageType, Feed!Values, Feed!Hashes
<1>4. CASE rec.type = "LIST_ZIPLIST"
  BY <1>4 DEF Feed!MessageType, Feed!Values, Feed!Hashes
<1>5. CASE rec.type = "LIST"
  BY <1>5 DEF Feed!MessageType, Feed!Values, Feed!Hashes
<1>6. CASE rec.type = "ZSET_ZIPLIST"
  BY <1>6 DEF Feed!MessageType, Feed!Values, Feed!Hashes
<1>7. CASE rec.type = "HASH_ZIPMAP"
  BY <1>7 DEF Feed!MessageType, Feed!Values, Feed!Hashes
<1> QED BY <1>2, <1>3, <1>4, <1>5, <1>6, <1>7

\* Every way a record ends is one of those of DumpFeed.
LEMMA LoadedSteps ==
    ASSUME InStep, SkipExpired \/ SendString \/ SendZiplist \/ SendLinkedList \/ SendNothing
                     \/ SendZset \/ SendHash \/ SendZipmap
    PROVE  InStep' /\ Feed!Next
<1>1. at = "elements" /\ left = 0 /\ pos' = pos /\ type \in Types
  BY TypesDiffer DEF Loaded, SkipExpired, SendString, SendZiplist, SendLinkedList, SendNothing,
                     SendZset, SendHash, SendZipmap, Packed
<1>2. /\ taken < Len(records) /\ type = Rec.type /\ expire = Rec.expire /\ Rec \in Record
      /\ Rec.val \in Seq(Texts) /\ Len(Rec.val) \in Nat
  BY <1>1, AtElements
<1>3. CASE SkipExpired
  <2>1. NextRecord /\ sent' = sent /\ expire = "past"
    BY <1>3 DEF SkipExpired, Expired
  <2>2. Feed!Ignored(Rec)
    BY <1>2, <2>1 DEF Feed!Ignored
  <2> QED BY <1>1, <2>1, <2>2, PassesRecord DEF Feed!Next
<1>4. CASE SendNothing
  <2>1. NextRecord /\ sent' = sent /\ type = "SET_INTSET"
    BY <1>4 DEF SendNothing, Loaded
  <2>2. Feed!Ignored(Rec)
    BY <1>2, <2>1 DEF Feed!Ignored
  <2> QED BY <1>1, <2>1, <2>2, PassesRecord DEF Feed!Next
<1>5. (~Expired /\ type # "SET_INTSET") => ~Feed!Ignored(Rec)
  BY <1>2 DEF Expired, Feed!Ignored
<1>6. CASE SendString
  <2>1. type = "STRING" /\ ~Expired /\ IF encoding = "int" THEN Crash ELSE Sends("string", Bins(val))
    BY <1>6 DEF SendString, Loaded
  <2>2. val = Rec.val /\ Len(Rec.val) = 1 /\ (encoding = "int" <=> Rec.val[1] \in Ints)
    BY <1>1, <2>1, AtLoaded
  <2>3. Feed!HasInt(Rec) <=> encoding = "int"
    <3>1. DOMAIN Rec.val = 1 .. 1 /\ 1 \in 1 .. 1
      BY <1>2, <2>2
    <3>2. \A i \in 1 .. 1 : i = 1
      OBVIOUS
    <3> QED BY <2>2, <3>1, <3>2 DEF Feed!HasInt
  <2>4. CASE encoding = "int"
    <3>1. Feed!Breaks(Rec)
      BY <1>2, <1>5, <2>1, <2>3, <2>4 DEF Feed!Breaks
    <3> QED BY <1>1, <1>2, <2>1, <2>4, <3>1, CrashBreaks DEF Feed!Next
  <2>5. CASE encoding # "int"
    <3>1. Bins(val) \in Feed!Values(Rec) /\ "string" = Feed!MessageType(Rec)
      BY <1>2, <2>1, <2>2, <2>3, <2>5, SentAs
    <3> QED BY <1>1, <1>5, <2>1, <2>5, <3>1, SendsRecord DEF Feed!Next
  <2> QED BY <2>4, <2>5
<1>7. CASE SendZiplist
  <2> DEFINE value == [i \in 1 .. Len(val) |-> [num |-> val[i] \in Ints, text |-> val[i]]]
  <2>1. type \in {"LIST", "LIST_ZIPLIST"} /\ encoding = "ziplist" /\ ~Expired /\ Sends("list", value)
    BY <1>7 DEF SendZiplist, Loaded
  <2>2. value \in Feed!Values(Rec) /\ "list" = Feed!MessageType(Rec)
    <3>1. CASE type = "LIST"
      <4>1. val = <<>> /\ ~(Len(Rec.val) > LIST_MAX)
        BY <1>1, <2>1, <3>1, AtLoaded
      <4>2. value = <<>>
        <5>1. Len(<<>>) = 0
          OBVIOUS
        <5> QED BY <4>1, <5>1
      <4>3. ~Feed!Long(Rec)
        BY <1>2, <3>1, <4>1 DEF Feed!Long
      <4> QED BY <1>2, <3>1, <4>2, <4>3, SentAs
    <3>2. CASE type = "LIST_ZIPLIST"
      <4>1. val = Rec.val
        BY <1>1, <3>2, AtLoaded DEF Packed
      <4> QED BY <1>2, <3>2, <4>1, SentAs
    <3> QED BY <2>1, <3>1, <3>2
  <2> HIDE DEF value
  <2> QED BY <1>1, <1>5, <2>1, <2>2, SendsRecord DEF Feed!Next
<1>8. CASE SendLinkedList
  <2>1. type = "LIST" /\ encoding = "linkedlist" /\ ~Expired
        /\ \/ \E nums \in [1 .. Len(val) -> BOOLEAN] :
                 Sends("list", [i \in 1 .. Len(val) |-> [num |-> nums[i], text |-> val[i]]])
           \/ Fail
    BY <1>8 DEF SendLinkedList, Loaded
  <2>2. Len(Rec.val) > LIST_MAX /\ val = Kept(Rec.val, Len(Rec.val))
    BY <1>1, <2>1, AtLoaded
  <2>3. Feed!Long(Rec)
    BY <1>2, <2>1, <2>2 DEF Feed!Long
  <2>4. CASE Fail
    <3>1. Feed!Refused(Rec)
      BY <1>5, <2>1, <2>3 DEF Feed!Refused
    <3> QED BY <1>1, <1>2, <2>4, <3>1, FailGivesUp DEF Feed!Next
  <2>5. CASE \E nums \in [1 .. Len(val) -> BOOLEAN] :
                 Sends("list", [i \in 1 .. Len(val) |-> [num |-> nums[i], text |-> val[i]]])
    <3>1. PICK nums \in [1 .. Len(val) -> BOOLEAN] :
                 Sends("list", [i \in 1 .. Len(val) |-> [num |-> nums[i], text |-> val[i]]])
      BY <2>5
    <3>2. Len(val) = Len(Rec.val) /\ \A i \in 1 .. Len(Rec.val) : val[i] = Feed!CString(Rec.val[i])
      BY <1>2, <2>2 DEF Kept
    <3> DEFINE value == [i \in 1 .. Len(val) |-> [num |-> nums[i], text |-> val[i]]]
               given == [i \in 1 .. Len(Rec.val) |->
                            [num |-> nums[i], text |-> Feed!CString(Rec.val[i])]]
    <3>3. value = given
      BY <3>2
    <3>4. given \in Feed!LongLists(Rec.val)
      BY <3>2 DEF Feed!LongLists
    <3>5. value \in Feed!Values(Rec) /\ "list" = Feed!MessageType(Rec)
      BY <1>2, <2>1, <2>3, <3>3, <3>4, SentAs
    <3>6. Sends("list", value)
      BY <3>1
    <3> HIDE DEF value, given
    <3> QED BY <1>1, <1>5, <2>1, <3>5, <3>6, SendsRecord DEF Feed!Next
  <2> QED BY <2>1, <2>4, <2>5
<1>9. CASE SendZset
  <2>1. type = "ZSET_ZIPLIST" /\ ~Expired /\ Sends("zset", <<>>)
    BY <1>9 DEF SendZset, Loaded
  <2>2. <<>> \in Feed!Values(Rec) /\ "zset" = Feed!MessageType(Rec)
    BY <1>2, <2>1, SentAs
  <2> QED BY <1>1, <1>5, <2>1, <2>2, SendsRecord DEF Feed!Next
<1>10. CASE SendHash
  <2>1. type \in {"HASH", "HASH_ZIPLIST"} /\ ~Expired /\ Sends("hash", Bins(val))
    BY <1>10 DEF SendHash, Loaded
  <2>2. val = Rec.val
    BY <1>1, <2>1, AtLoaded DEF Packed
  <2>3. Bins(val) \in Feed!Values(Rec) /\ "hash" = Feed!MessageType(Rec)
    BY <1>2, <2>1, <2>2, SentAs
  <2> QED BY <1>1, <1>5, <2>1, <2>3, SendsRecord DEF Feed!Next
<1>11. CASE SendZipmap
  <2>1. type = "HASH_ZIPMAP" /\ ~Expired /\ (Sends("hash", <<>>) \/ Crash)
    BY <1>11 DEF SendZipmap, Loaded
  <2>2. CASE Crash
    <3>1. Feed!Breaks(Rec)
      BY <1>2, <1>5, <2>1 DEF Feed!Breaks
    <3> QED BY <1>1, <1>2, <2>2, <3>1, CrashBreaks DEF Feed!Next
  <2>3. CASE Sends("hash", <<>>)
    <3>1. <<>> \in Feed!Values(Rec) /\ "hash" = Feed!MessageType(Rec)
      BY <1>2, <2>1, SentAs
    <3> QED BY <1>1, <1>5, <2>1, <2>3, <3>1, SendsRecord DEF Feed!Next
  <2> QED BY <2>1, <2>2, <2>3
<1> QED BY <1>3, <1>4, <1>6, <1>7, <1>8, <1>9, <1>10, <1>11

-----------------------------------------------------------------------------
\* A step that takes no record and sends nothing.
Quiet == UNCHANGED <<records, dump, taken, sent, outcome>>

LEMMA QuietSteps ==
    ASSUME \/ Header \/ ReadExpireOp \/ ReadTime \/ ReadSelectDb \/ ReadDb
           \/ ReadObjectType \/ ReadKey \/ ReadString \/ ReadLength
           \/ ReadShortListElement \/ ReadPair \/ ReadPacked
    PROVE  Quiet
BY DEF Quiet, Header, ReadExpireOp, ReadTime, ReadSelectDb, ReadDb, ReadObjectType, ReadKey,
       ReadString, ReadLength, ReadShortListElement, ReadPair, ReadPacked, Goes, result

\* Every step stays in step, and is one of DumpFeed or takes no notice of it.
LEMMA StepsInStep ==
    ASSUME InStep, Next
    PROVE  InStep' /\ (Feed!Next \/ UNCHANGED Feed!vars)
<1>1. Quiet => UNCHANGED Feed!vars
  BY DEF Quiet, Feed!vars
<1>2. CASE Header
  BY <1>1, <1>2, HeaderSteps, QuietSteps
<1>3. CASE WrongSignature
  BY <1>3, WrongSignatureEnds DEF Feed!Next
<1>4. CASE ReadExpireOp
  BY <1>1, <1>4, ReadExpireOpSteps, QuietSteps
<1>5. CASE ReadTime
  BY <1>1, <1>5, ReadTimeSteps, QuietSteps
<1>6. CASE ReadSelectDb
  BY <1>1, <1>6, ReadSelectDbSteps, QuietSteps
<1>7. CASE ReadDb
  BY <1>1, <1>7, ReadDbSteps, QuietSteps
<1>8. CASE ReadObjectType
  BY <1>1, <1>8, ReadObjectTypeSteps, QuietSteps
<1>9. CASE ReadKey
  BY <1>1, <1>9, ReadKeySteps, QuietSteps
<1>10. CASE ReadEof
  BY <1>10, ReadEofFinishes DEF Feed!Next
<1>11. CASE ShortRead
  BY <1>11, ShortReadEnds DEF Feed!Next
<1>12. CASE ReadString
  BY <1>1, <1>12, ReadStringSteps, QuietSteps
<1>13. CASE ReadLength
  BY <1>1, <1>13, ReadLengthSteps, QuietSteps
<1>14. CASE ReadShortListElement
  BY <1>1, <1>14, ReadShortListElementSteps, QuietSteps
<1>15. CASE ReadLongListElement
  <2>1. at' = "end" \/ Quiet
    BY <1>15 DEF ReadLongListElement, Crash, Ends, Goes, Quiet, result
  <2> QED BY <1>1, <1>15, <2>1, ReadLongListElementSteps DEF Feed!Next
<1>16. CASE ReadPair
  BY <1>1, <1>16, ReadPairSteps, QuietSteps
<1>17. CASE ReadPacked
  BY <1>1, <1>17, ReadPackedSteps, QuietSteps
<1>18. CASE UnknownType
  BY <1>18, UnknownTypeEnds DEF Feed!Next
<1>19. CASE SkipExpired \/ SendString \/ SendZiplist \/ SendLinkedList \/ SendNothing
              \/ SendZset \/ SendHash \/ SendZipmap
  BY <1>19, LoadedSteps
<1> QED BY <1>2, <1>3, <1>4, <1>5, <1>6, <1>7, <1>8, <1>9, <1>10, <1>11, <1>12, <1>13, <1>14,
           <1>15, <1>16, <1>17, <1>18, <1>19 DEF Next

LEMMA StartsInStep ==
    ASSUME Init
    PROVE  InStep /\ Feed!FeedInit
<1>1. records \in Saves /\ dump \in Pieces(All) /\ pos = 0 /\ at = "header" /\ expire = "none"
      /\ taken = 0 /\ sent = <<>> /\ outcome = "running"
  BY DEF Init, All
<1>2. All \in Seq(Item) /\ Len(records) \in Nat
  BY <1>1, AfterIs, SavesAssumption DEF All
<1>3. dump \in Seq(Item)
  <2>1. PICK from \in {1, 2}, to \in 0 .. Len(All) : dump = SubSeq(All, from, to)
    BY <1>1 DEF Pieces
  <2>2. from \in Int /\ to \in Int /\ \A i \in from .. to : All[i] \in Item
    BY <1>2
  <2> QED BY <2>1, <2>2, SubSeqProperties
<1>4. pos \in 0 .. Len(dump)
  BY <1>1, <1>3
<1>5. Steady
  BY <1>1, <1>2, <1>3, <1>4 DEF Steady, Readers
<1> QED BY <1>1, <1>5 DEF InStep, Feed!FeedInit

\* The reads stay in step with the records: whatever a place of rdbLoad() reads next is what
\* the master wrote there.
THEOREM StaysInStep == Spec => []InStep
<1>1. Init => InStep
  BY StartsInStep
<1>2. InStep /\ [Next]_vars => InStep'
  <2>1. InStep /\ UNCHANGED vars => InStep'
    <3> SUFFICES ASSUME InStep, UNCHANGED vars PROVE InStep'
      OBVIOUS
    <3>1. /\ records' = records /\ dump' = dump /\ pos' = pos /\ at' = at /\ type' = type
          /\ expire' = expire /\ key' = key /\ left' = left /\ encoding' = encoding /\ val' = val
          /\ taken' = taken /\ sent' = sent /\ outcome' = outcome
      BY DEF vars
    <3>2. All' = All /\ Rec' = Rec /\ After' = After
      BY <3>1 DEF All, Rec, After
    <3>3. ToRead' = ToRead /\ Rest' = Rest
      BY <3>1, <3>2 DEF ToRead, Rest
    <3>4. /\ Steady' <=> Steady
          /\ Begins' <=> Begins
          /\ AtRecord' <=> AtRecord
      BY <3>1, <3>2, <3>3 DEF Steady, Begins, AtRecord
    <3>5. /\ HasString' <=> HasString
          /\ HasPack' <=> HasPack
          /\ \A done \in Nat : (HasList(done)' <=> HasList(done)) /\ (HasPairs(done)' <=> HasPairs(done))
      BY <3>1, <3>2, <3>3 DEF HasString, HasPack, HasList, HasPairs
    <3>6. Elements' <=> Elements
      BY <3>1, <3>5 DEF Elements
    <3>7. InRecord' <=> InRecord
      BY <3>1, <3>2, <3>3, <3>6 DEF InRecord
    <3> QED BY <3>1, <3>2, <3>4, <3>7 DEF InStep
  <2> QED BY <2>1, StepsInStep
<1> QED BY <1>1, <1>2, PTL DEF Spec

\* rdbLoad() sends each record once, in order and with its own contents, or ends for a reason
\* that DumpFeed gives, for every sequence of records and wherever the file begins and ends.
THEOREM LoaderFeedsDump == Spec => FeedsDump
<1>1. Init => Feed!FeedInit
  BY StartsInStep
<1>2. InStep /\ [Next]_vars => [Feed!Next]_Feed!vars
  <2>1. UNCHANGED vars => UNCHANGED Feed!vars
    BY DEF vars, result, Feed!vars
  <2> QED BY <2>1, StepsInStep
<1> QED BY <1>1, <1>2, StaysInStep, PTL DEF Spec, FeedsDump, Feed!Spec

-----------------------------------------------------------------------------
(* Types.                                                                   *)

\* The contents of items.
LEMMA ItemFields ==
    ASSUME NEW x \in Item
    PROVE  /\ x.k = "time" => x.time \in {"past", "future"}
           /\ x.k = "len" => x.len \in Nat
           /\ x.k = "str" => x.text \in Texts
           /\ x.k = "pack" => x.texts \in Seq(Texts)
<1>1. CASE x \in [k : {"magic"}]
  BY <1>1
<1>2. CASE x \in [k : {"op"}, op : Opcodes]
  BY <1>2
<1>3. CASE x \in [k : {"time"}, time : {"past", "future"}]
  BY <1>3
<1>4. CASE x \in [k : {"len"}, len : Nat]
  BY <1>4
<1>5. CASE x \in [k : {"str"}, text : Texts]
  BY <1>5
<1>6. CASE x \in [k : {"pack"}, texts : Seq(Texts)]
  BY <1>6
<1> QED BY <1>1, <1>2, <1>3, <1>4, <1>5, <1>6, Zenon DEF Item

\* What the loader keeps of what it read.
Loads ==
    /\ type \in Types \cup {"none"}
    /\ expire \in {"none", "past", "future"}
    /\ key \in Texts
    /\ left \in Nat
    /\ encoding \in {"raw", "int", "ziplist", "linkedlist", "intset"}
    /\ val \in Seq(Texts)

Tells == sent \in Seq(Message) /\ outcome \in {"running", "ok", "error", "crash"}

LEMMA TypesAre ==
    ASSUME InStep, Loads, Tells
    PROVE  TypeOK
<1>1. records \in Seq(Record)
  BY Facts, SavesAssumption
<1> QED BY <1>1, Facts DEF InStep, Steady, Loads, Tells, TypeOK

LEMMA EmptyIsText == Empty \in Texts /\ Words \subseteq Texts
BY RecordsAssumption DEF Texts

LEMMA NextFields ==
    ASSUME InStep, More(1)
    PROVE  /\ Next1.k = "time" => Next1.time \in {"past", "future"}
           /\ Next1.k = "len" => Next1.len \in Nat
           /\ Next1.k = "str" => Next1.text \in Texts
           /\ Next1.k = "pack" => Next1.texts \in Seq(Texts)
<1>1. pos + 1 \in 1 .. Len(dump) /\ dump \in Seq(Item)
  BY Facts DEF More
<1>2. Next1 \in Item
  BY <1>1 DEF Next1
<1> QED BY <1>2, ItemFields

\* What is kept of a record keeps its type.
LEMMA LoadsKept ==
    ASSUME InStep, Loads, Next
    PROVE  Loads'
<1>1. CASE UNCHANGED <<type, expire, key, object>>
  BY <1>1 DEF Loads, object
<1>2. CASE ReadTime
  BY <1>2, NextFields DEF ReadTime, Reads, Loads, object
<1>3. CASE ReadDb
  BY <1>3 DEF ReadDb, Loads, object
<1>4. CASE ReadObjectType
  BY <1>4 DEF ReadObjectType, ReadsType, Loads, object
<1>5. CASE ReadKey
  BY <1>5 DEF ReadKey, ReadsStr, Loads, object
<1>6. CASE ReadString
  <2>1. Next1.text \in Texts /\ val' = <<Next1.text>>
    BY <1>6 DEF ReadString, ReadsStr
  <2>2. val' \in Seq(Texts)
    BY <2>1
  <2> QED BY <1>6, <2>2 DEF ReadString, Loads
<1>7. CASE ReadLength
  <2>1. Next1.len \in Nat
    BY <1>7, NextFields DEF ReadLength, Reads
  <2> QED BY <1>7, <2>1 DEF ReadLength, Loads
<1>8. CASE ReadShortListElement
  BY <1>8 DEF ReadShortListElement, Loads
<1>9. CASE ReadLongListElement
  <2>1. CASE Crash
    BY <1>1, <2>1 DEF Crash, Ends
  <2>2. CASE /\ val' = Append(val, IF Next1.text \in Words \ Nuls THEN Next1.text ELSE Empty)
             /\ left' = left - 1 /\ UNCHANGED <<type, expire, key, encoding>>
    <3>1. (IF Next1.text \in Words \ Nuls THEN Next1.text ELSE Empty) \in Texts
      BY EmptyIsText
    <3>2. val' \in Seq(Texts)
      BY <2>2, <3>1, AppendProperties DEF Loads
    <3>3. left > 0
      BY <1>9 DEF ReadLongListElement
    <3> QED BY <2>2, <3>2, <3>3 DEF Loads
  <2> QED BY <1>9, <2>1, <2>2 DEF ReadLongListElement
<1>10. CASE ReadPair
  <2>1. More(2) /\ Next1.k = "str" /\ Next2.k = "str" /\ left > 0
        /\ val' = val \o <<Next1.text, Next2.text>> /\ left' = left - 1
        /\ UNCHANGED <<type, expire, key, encoding>>
    BY <1>10 DEF ReadPair
  <2>2. pos + 1 \in 1 .. Len(dump) /\ pos + 2 \in 1 .. Len(dump) /\ dump \in Seq(Item)
    BY <2>1, Facts DEF More
  <2>3. Next1 \in Item /\ Next2 \in Item
    BY <2>2 DEF Next1, Next2
  <2>4. Next1.text \in Texts /\ Next2.text \in Texts
    BY <2>1, <2>3, ItemFields
  <2>5. <<Next1.text, Next2.text>> \in Seq(Texts)
    BY <2>4
  <2>6. val' \in Seq(Texts)
    BY <2>1, <2>5, ConcatProperties DEF Loads
  <2> QED BY <2>1, <2>6 DEF Loads
<1>11. CASE ReadPacked
  <2>1. Next1.texts \in Seq(Texts)
    BY <1>11, NextFields DEF ReadPacked, Reads
  <2> QED BY <1>11, <2>1 DEF ReadPacked, Loads
<1>12. CASE NextRecord
  BY <1>12 DEF NextRecord, Loads, object
<1>13. CASE Fail \/ Crash
  BY <1>1, <1>13 DEF Fail, Crash, Ends
<1>14. CASE Header \/ ReadExpireOp \/ ReadSelectDb \/ ReadEof
  BY <1>1, <1>14 DEF Header, ReadExpireOp, ReadSelectDb, ReadEof, Ends
<1> QED
  <2>1. (WrongSignature \/ ShortRead \/ UnknownType) => Fail
    BY DEF WrongSignature, ShortRead, UnknownType
  <2>2. (SkipExpired \/ SendString \/ SendZiplist \/ SendLinkedList \/ SendNothing
           \/ SendZset \/ SendHash \/ SendZipmap) => NextRecord \/ Fail \/ Crash
    BY DEF SkipExpired, SendString, SendZiplist, SendLinkedList, SendNothing, SendZset, SendHash,
           SendZipmap, Sends
  <2> QED BY <1>2, <1>3, <1>4, <1>5, <1>6, <1>7, <1>8, <1>9, <1>10, <1>11, <1>12, <1>13, <1>14,
             <2>1, <2>2 DEF Next

LEMMA MessageSent ==
    ASSUME NEW t \in {"string", "list", "zset", "hash", "eof"}, NEW k \in Texts, NEW v \in Seq(Term),
           sent \in Seq(Message), sent' = Append(sent, Loading(t, k, v))
    PROVE  sent' \in Seq(Message)
<1>1. Loading(t, k, v) \in Message
  BY DEF Loading, Message
<1> QED BY <1>1, AppendProperties

LEMMA BinsAre ==
    ASSUME NEW texts \in Seq(Texts)
    PROVE  Bins(texts) \in Seq(Term)
<1>1. \A i \in 1 .. Len(texts) : Bin(texts[i]) \in Term
  BY DEF Bin, Term
<1> QED BY <1>1 DEF Bins

\* What is sent keeps its type.
LEMMA TellsKept ==
    ASSUME InStep, Loads, Tells, Next
    PROVE  Tells'
<1>0. key \in Texts /\ val \in Seq(Texts) /\ sent \in Seq(Message) /\ <<>> \in Seq(Term)
  BY EmptySeq DEF Loads, Tells
<1>1. CASE UNCHANGED <<sent, outcome>>
  BY <1>1 DEF Tells
<1>2. CASE Fail \/ Crash
  BY <1>2 DEF Fail, Crash, Ends, Tells
<1>3. CASE ReadEof
  <2>1. sent' = Append(sent, Loading("eof", Empty, <<>>)) /\ outcome' = "ok"
    BY <1>3 DEF ReadEof, LoadingEof, Ends
  <2> QED BY <1>0, <2>1, EmptyIsText, MessageSent DEF Tells
<1>4. ASSUME NEW kind \in {"string", "list", "zset", "hash"}, NEW value \in Seq(Term), Sends(kind, value)
      PROVE  Tells'
  <2>1. sent' = Append(sent, Loading(kind, key, value)) /\ outcome' = outcome
    BY <1>4 DEF Sends, NextRecord
  <2> QED BY <1>0, <2>1, MessageSent DEF Tells
<1>5. CASE SendString
  BY <1>0, <1>2, <1>4, <1>5, BinsAre DEF SendString
<1>6. CASE SendZiplist
  <2> DEFINE value == [i \in 1 .. Len(val) |-> [num |-> val[i] \in Ints, text |-> val[i]]]
  <2>1. \A i \in 1 .. Len(val) : [num |-> val[i] \in Ints, text |-> val[i]] \in Term
    BY <1>0 DEF Term
  <2>2. value \in Seq(Term)
    BY <1>0, <2>1
  <2>3. Sends("list", value)
    BY <1>6 DEF SendZiplist
  <2> HIDE DEF value
  <2> QED BY <1>4, <2>2, <2>3
<1>7. CASE SendLinkedList
  <2>1. ASSUME NEW nums \in [1 .. Len(val) -> BOOLEAN],
               Sends("list", [i \in 1 .. Len(val) |-> [num |-> nums[i], text |-> val[i]]])
        PROVE  Tells'
    <3> DEFINE value == [i \in 1 .. Len(val) |-> [num |-> nums[i], text |-> val[i]]]
    <3>1. \A i \in 1 .. Len(val) : [num |-> nums[i], text |-> val[i]] \in Term
      BY <1>0 DEF Term
    <3>2. value \in Seq(Term)
      BY <1>0, <3>1
    <3>3. Sends("list", value)
      BY <2>1
    <3> HIDE DEF value
    <3> QED BY <1>4, <3>2, <3>3
  <2> QED BY <1>2, <1>7, <2>1 DEF SendLinkedList
<1>8. CASE SendZset
  BY <1>0, <1>4, <1>8 DEF SendZset
<1>9. CASE SendHash
  BY <1>0, <1>4, <1>9, BinsAre DEF SendHash
<1>10. CASE SendZipmap
  BY <1>0, <1>2, <1>4, <1>10 DEF SendZipmap
<1> QED
  <2>1. (WrongSignature \/ ShortRead \/ UnknownType) => Fail
    BY DEF WrongSignature, ShortRead, UnknownType
  <2>2. (SkipExpired \/ SendNothing) => UNCHANGED <<sent, outcome>>
    BY DEF SkipExpired, SendNothing, NextRecord
  <2>3. ReadLongListElement => Crash \/ UNCHANGED <<sent, outcome>>
    BY DEF ReadLongListElement, result
  <2>4. Quiet => UNCHANGED <<sent, outcome>>
    BY DEF Quiet
  <2> QED BY <1>1, <1>2, <1>3, <1>5, <1>6, <1>7, <1>8, <1>9, <1>10,
             <2>1, <2>2, <2>3, <2>4, QuietSteps DEF Next

\* Every variable of the loader keeps its type.
THEOREM TypeCorrect == Spec => []TypeOK
<1> DEFINE Typed == InStep /\ Loads /\ Tells
<1>1. Init => Typed
  BY StartsInStep, EmptyIsText, EmptySeq DEF Init, Loads, Tells
<1>2. InStep /\ Loads /\ Tells /\ [Next]_vars => Loads' /\ Tells'
  <2>1. UNCHANGED vars /\ Loads /\ Tells => Loads' /\ Tells'
    BY DEF vars, object, result, Loads, Tells
  <2> QED BY <2>1, LoadsKept, TellsKept
<1>3. Typed => TypeOK
  BY TypesAre
<1>4. Spec => [](Loads /\ Tells)
  <2>1. Init => Loads /\ Tells
    BY <1>1
  <2> QED BY <1>2, <2>1, StaysInStep, PTL DEF Spec
<1> QED BY <1>3, <1>4, StaysInStep, PTL
=============================================================================
