------------------------- MODULE EslaverServerSync --------------------------
(***************************************************************************)
(* What the master sends and what of it the server receives between a      *)
(* request for synchronisation and the end of the connection, for every    *)
(* value of the constants: no unit of the master's history is missing or   *)
(* doubled on its way to the callback, and the offset that the server      *)
(* reports follows it.                                                     *)
(***************************************************************************)
EXTENDS EslaverServerProtocol

-----------------------------------------------------------------------------
(* Sequences of units.                                                      *)

LEMMA JoinUnits ==
    ASSUME NEW a \in Seq(Unit), NEW b \in Seq(Unit)
    PROVE  /\ a \o b \in Seq(Unit)
           /\ Len(a \o b) = Len(a) + Len(b)
           /\ \A i \in 1 .. Len(a) : (a \o b)[i] = a[i]
           /\ \A i \in 1 .. Len(b) : (a \o b)[Len(a) + i] = b[i]
           /\ \A i \in Len(a) + 1 .. Len(a) + Len(b) : (a \o b)[i] = b[i - Len(a)]
OBVIOUS

LEMMA JoinThree ==
    ASSUME NEW a \in Seq(Unit), NEW b \in Seq(Unit), NEW c \in Seq(Unit)
    PROVE  (a \o b) \o c = a \o (b \o c)
OBVIOUS

LEMMA JoinNothing ==
    ASSUME NEW a \in Seq(Unit)
    PROVE  a \o <<>> = a /\ <<>> \o a = a
OBVIOUS

LEMMA FrontUnits ==
    ASSUME NEW s \in Seq(Unit), NEW k \in 0 .. Len(s)
    PROVE  /\ SubSeq(s, 1, k) \in Seq(Unit)
           /\ Len(SubSeq(s, 1, k)) = k
           /\ \A i \in 1 .. k : SubSeq(s, 1, k)[i] = s[i]
OBVIOUS

LEMMA BackUnits ==
    ASSUME NEW s \in Seq(Unit), NEW k \in 0 .. Len(s)
    PROVE  /\ SubSeq(s, k + 1, Len(s)) \in Seq(Unit)
           /\ Len(SubSeq(s, k + 1, Len(s))) = Len(s) - k
           /\ \A i \in 1 .. Len(s) - k : SubSeq(s, k + 1, Len(s))[i] = s[k + i]
OBVIOUS

LEMMA SameUnits ==
    ASSUME NEW s \in Seq(Unit), NEW t \in Seq(Unit), Len(s) = Len(t),
           \A i \in 1 .. Len(s) : s[i] = t[i]
    PROVE  s = t
OBVIOUS

\* A read and what it leaves make up what there was.
LEMMA SplitUnits ==
    ASSUME NEW s \in Seq(Unit), NEW k \in 0 .. Len(s)
    PROVE  SubSeq(s, 1, k) \o SubSeq(s, k + 1, Len(s)) = s
<1> DEFINE a == SubSeq(s, 1, k)
           b == SubSeq(s, k + 1, Len(s))
<1>1. /\ a \in Seq(Unit) /\ b \in Seq(Unit) /\ Len(a) = k /\ Len(b) = Len(s) - k
      /\ \A i \in 1 .. k : a[i] = s[i]
      /\ \A i \in 1 .. Len(s) - k : b[i] = s[k + i]
  BY FrontUnits, BackUnits
<1> HIDE DEF a, b
<1>2. /\ a \o b \in Seq(Unit) /\ Len(a \o b) = Len(s)
      /\ \A i \in 1 .. k : (a \o b)[i] = a[i]
      /\ \A i \in k + 1 .. Len(s) : (a \o b)[i] = b[i - k]
  BY <1>1, JoinUnits
<1>3. \A i \in 1 .. Len(s) : (a \o b)[i] = s[i]
  BY <1>1, <1>2
<1>4. a \o b = s
  BY <1>2, <1>3, SameUnits
<1> QED BY <1>4 DEF a, b

LEMMA TailUnits ==
    ASSUME NEW s \in Seq(Unit), s # <<>>
    PROVE  /\ Tail(s) \in Seq(Unit)
           /\ Len(Tail(s)) = Len(s) - 1
           /\ Len(s) \in Nat \ {0}
           /\ \A i \in 1 .. Len(s) - 1 : Tail(s)[i] = s[i + 1]
OBVIOUS

LEMMA TailOfJoin ==
    ASSUME NEW a \in Seq(Unit), NEW b \in Seq(Unit), a # <<>>
    PROVE  Tail(a \o b) = Tail(a) \o b /\ (a \o b)[1] = a[1] /\ a \o b # <<>>
<1>1. Len(a) \in Nat \ {0}
  BY TailUnits
<1>2. a \o b \in Seq(Unit) /\ Len(a \o b) = Len(a) + Len(b) /\ a \o b # <<>>
  BY <1>1, JoinUnits
<1>3. \A i \in 1 .. Len(a) + Len(b) - 1 : Tail(a \o b)[i] = (Tail(a) \o b)[i]
  <2> TAKE i \in 1 .. Len(a) + Len(b) - 1
  <2>1. Tail(a \o b)[i] = (a \o b)[i + 1]
    BY <1>2, TailUnits
  <2>2. CASE i < Len(a)
    BY <1>1, <2>1, <2>2, JoinUnits, TailUnits
  <2>3. CASE i >= Len(a)
    BY <1>1, <2>1, <2>3, JoinUnits, TailUnits
  <2> QED BY <2>2, <2>3
<1>4. Tail(a \o b) = Tail(a) \o b
  BY <1>1, <1>2, <1>3, SameUnits, JoinUnits, TailUnits
<1> QED BY <1>1, <1>2, <1>4, JoinUnits

LEMMA AppendUnit ==
    ASSUME NEW s \in Seq(Unit), NEW u \in Unit
    PROVE  Append(s, u) = s \o <<u>>
OBVIOUS

\* The end of what is under way is lost.
LEMMA CutJoin ==
    ASSUME NEW a \in Seq(Unit), NEW b \in Seq(Unit), NEW k \in 0 .. Len(b)
    PROVE  /\ a \o SubSeq(b, 1, k) \in Seq(Unit)
           /\ Len(a \o SubSeq(b, 1, k)) = Len(a) + k
           /\ Len(a \o b) = Len(a) + Len(b)
           /\ \A i \in 1 .. Len(a) + k : (a \o SubSeq(b, 1, k))[i] = (a \o b)[i]
<1> DEFINE c == SubSeq(b, 1, k)
<1>1. c \in Seq(Unit) /\ Len(c) = k /\ \A i \in 1 .. k : c[i] = b[i]
  BY FrontUnits
<1> HIDE DEF c
<1>2. Len(a) \in Nat /\ Len(b) \in Nat /\ Len(a) + Len(c) = Len(a) + k
  BY <1>1
<1>3. a \o c \in Seq(Unit) /\ Len(a \o c) = Len(a) + k /\ Len(a \o b) = Len(a) + Len(b)
  BY <1>1, <1>2, JoinUnits
<1>4. ASSUME NEW i \in 1 .. Len(a) + k PROVE (a \o c)[i] = (a \o b)[i]
  <2>1. CASE i <= Len(a)
    <3>1. i \in 1 .. Len(a)
      BY <1>2, <2>1
    <3> QED BY <1>1, <3>1, JoinUnits
  <2>2. CASE i > Len(a)
    <3>1. /\ i \in Len(a) + 1 .. Len(a) + Len(b) /\ i \in Len(a) + 1 .. Len(a) + Len(c)
          /\ i - Len(a) \in 1 .. k
      BY <1>1, <1>2, <2>2
    <3>2. (a \o c)[i] = c[i - Len(a)] /\ (a \o b)[i] = b[i - Len(a)]
      BY <1>1, <3>1, JoinUnits
    <3> QED BY <1>1, <3>1, <3>2
  <2> QED BY <1>2, <2>1, <2>2
<1> QED BY <1>3, <1>4 DEF c

LEMMA OneUnit ==
    ASSUME NEW u \in Unit
    PROVE  <<u>> \in Seq(Unit) /\ Len(<<u>>) = 1 /\ <<u>>[1] = u
OBVIOUS

-----------------------------------------------------------------------------
(* The master's history.                                                    *)

LEMMA HistUnitIs ==
    ASSUME NEW p \in Nat \ {0}
    PROVE  /\ HistUnit(p) \in Unit
           /\ HistUnit(p).r = 0
           /\ HistUnit(p).n \in Nat
           /\ \/ p = CmdUnits * HistUnit(p).n /\ HistUnit(p).k = "lf"
              \/ p = CmdUnits * HistUnit(p).n - 1 /\ HistUnit(p).k = "body"
              \/ p = CmdUnits * HistUnit(p).n - 2 /\ HistUnit(p).k = "head"
<1> DEFINE q == (p - 1) \div CmdUnits
           m == (p - 1) % CmdUnits
<1>1. q \in Nat /\ m \in 0 .. 2 /\ p = 3 * q + m + 1
  BY DEF CmdUnits
<1> HIDE DEF q, m
<1>2. HistUnit(p) = Mk(<<"head", "body", "lf">>[m + 1], q + 1)
  BY DEF HistUnit, q, m
<1>3. HistUnit(p) = [k |-> <<"head", "body", "lf">>[m + 1], n |-> q + 1, r |-> 0]
  BY <1>2 DEF Mk
<1>4. HistUnit(p).n = q + 1 /\ HistUnit(p).r = 0 /\ HistUnit(p).k = <<"head", "body", "lf">>[m + 1]
  BY <1>3
<1>5. \/ m = 0 /\ HistUnit(p).k = "head"
      \/ m = 1 /\ HistUnit(p).k = "body"
      \/ m = 2 /\ HistUnit(p).k = "lf"
  <2>1. m = 0 \/ m = 1 \/ m = 2
    BY <1>1
  <2>2. <<"head", "body", "lf">>[1] = "head" /\ <<"head", "body", "lf">>[2] = "body"
        /\ <<"head", "body", "lf">>[3] = "lf"
    OBVIOUS
  <2>3. m + 1 = 1 \/ m + 1 = 2 \/ m + 1 = 3
    BY <2>1
  <2> QED BY <1>4, <2>1, <2>2, <2>3
<1>6. HistUnit(p) \in Unit
  BY <1>1, <1>3, <1>4, <1>5 DEF Unit, StreamKinds
<1>7. \/ p = 3 * (q + 1) /\ HistUnit(p).k = "lf"
      \/ p = 3 * (q + 1) - 1 /\ HistUnit(p).k = "body"
      \/ p = 3 * (q + 1) - 2 /\ HistUnit(p).k = "head"
  BY <1>1, <1>5
<1> QED BY <1>1, <1>4, <1>6, <1>7 DEF CmdUnits

LEMMA HistUnitsAre ==
    ASSUME NEW from \in Nat \ {0}, NEW to \in Nat, from <= to + 1
    PROVE  /\ HistUnits(from, to) \in Seq(Unit)
           /\ Len(HistUnits(from, to)) = to - from + 1
           /\ \A i \in 1 .. to - from + 1 : HistUnits(from, to)[i] = HistUnit(from + i - 1)
<1>1. HistUnits(from, to) \in Seq(Unit)
  BY HistUnitsType
<1>2. HistUnits(from, to) = [i \in 1 .. (to - from + 1) |-> HistUnit(from + i - 1)]
  BY DEF HistUnits
<1>3. to - from + 1 \in Nat
  OBVIOUS
<1> QED BY <1>1, <1>2, <1>3

LEMMA HistNothing ==
    ASSUME NEW from \in Nat \ {0}
    PROVE  HistUnits(from, from - 1) = <<>>
<1>1. HistUnits(from, from - 1) \in Seq(Unit) /\ Len(HistUnits(from, from - 1)) = 0
  BY HistUnitsAre
<1> QED BY <1>1

\* A sequence of history units is known by where it begins and how long it is.
LEMMA HistEqual ==
    ASSUME NEW s \in Seq(Unit), NEW from \in Nat \ {0}, NEW to \in Nat, from <= to + 1,
           Len(s) = to - from + 1, \A i \in 1 .. to - from + 1 : s[i] = HistUnit(from + i - 1)
    PROVE  s = HistUnits(from, to)
BY HistUnitsAre, SameUnits

LEMMA HistJoin ==
    ASSUME NEW from \in Nat \ {0}, NEW mid \in Nat, NEW to \in Nat, from <= mid + 1, mid <= to
    PROVE  HistUnits(from, mid) \o HistUnits(mid + 1, to) = HistUnits(from, to)
<1> DEFINE a == HistUnits(from, mid)
           b == HistUnits(mid + 1, to)
<1>1. /\ a \in Seq(Unit) /\ b \in Seq(Unit)
      /\ Len(a) = mid - from + 1 /\ Len(b) = to - mid
      /\ \A i \in 1 .. mid - from + 1 : a[i] = HistUnit(from + i - 1)
      /\ \A i \in 1 .. to - mid : b[i] = HistUnit(mid + 1 + i - 1)
  <2>1. /\ a \in Seq(Unit) /\ Len(a) = mid - from + 1
        /\ \A i \in 1 .. mid - from + 1 : a[i] = HistUnit(from + i - 1)
    BY HistUnitsAre
  <2>2. mid + 1 \in Nat \ {0} /\ mid + 1 <= to + 1 /\ to - (mid + 1) + 1 = to - mid
    OBVIOUS
  <2>3. /\ b \in Seq(Unit) /\ Len(b) = to - (mid + 1) + 1
        /\ \A i \in 1 .. to - (mid + 1) + 1 : b[i] = HistUnit(mid + 1 + i - 1)
    BY <2>2, HistUnitsAre
  <2> QED BY <2>1, <2>2, <2>3
<1> HIDE DEF a, b
<1>2. a \o b \in Seq(Unit) /\ Len(a \o b) = to - from + 1
  <2>1. (mid - from + 1) + (to - mid) = to - from + 1
    OBVIOUS
  <2> QED BY <1>1, <2>1, JoinUnits
<1>3. \A i \in 1 .. Len(a \o b) : (a \o b)[i] = HistUnit(from + i - 1)
  <2> TAKE i \in 1 .. Len(a \o b)
  <2>1. CASE i <= Len(a)
    BY <1>1, <1>2, <2>1, JoinUnits
  <2>2. CASE i > Len(a)
    <3>1. (a \o b)[i] = b[i - Len(a)] /\ i - Len(a) \in 1 .. to - mid
      BY <1>1, <1>2, <2>2, JoinUnits
    <3>2. mid + 1 + (i - Len(a)) - 1 = from + i - 1
      BY <1>1
    <3> QED BY <1>1, <3>1, <3>2
  <2>3. i \in Int /\ Len(a) \in Int
    BY <1>1
  <2>4. i <= Len(a) \/ i > Len(a)
    BY <2>3
  <2> QED BY <2>1, <2>2, <2>4
<1>4. a \o b = HistUnits(from, to)
  <2>1. from <= to + 1 /\ \A i \in 1 .. to - from + 1 : (a \o b)[i] = HistUnit(from + i - 1)
    BY <1>2, <1>3
  <2> QED BY <1>2, <2>1, HistEqual
<1> QED BY <1>4 DEF a, b

LEMMA HistFront ==
    ASSUME NEW from \in Nat \ {0}, NEW to \in Nat, from <= to + 1, NEW k \in 0 .. to - from + 1
    PROVE  /\ SubSeq(HistUnits(from, to), 1, k) = HistUnits(from, from + k - 1)
           /\ SubSeq(HistUnits(from, to), k + 1, to - from + 1) = HistUnits(from + k, to)
<1> DEFINE s == HistUnits(from, to)
<1>1. /\ s \in Seq(Unit) /\ Len(s) = to - from + 1
      /\ \A i \in 1 .. to - from + 1 : s[i] = HistUnit(from + i - 1)
  BY HistUnitsAre
<1> HIDE DEF s
<1>2. SubSeq(s, 1, k) = HistUnits(from, from + k - 1)
  <2>1. /\ SubSeq(s, 1, k) \in Seq(Unit) /\ Len(SubSeq(s, 1, k)) = k
        /\ \A i \in 1 .. k : SubSeq(s, 1, k)[i] = s[i]
    BY <1>1, FrontUnits
  <2> DEFINE last == from + k - 1
  <2>2. last \in Nat /\ from <= last + 1 /\ k = last - from + 1
    OBVIOUS
  <2> HIDE DEF last
  <2>3. \A i \in 1 .. last - from + 1 : SubSeq(s, 1, k)[i] = HistUnit(from + i - 1)
    BY <1>1, <2>1, <2>2
  <2>4. SubSeq(s, 1, k) = HistUnits(from, last)
    BY <2>1, <2>2, <2>3, HistEqual
  <2> QED BY <2>4 DEF last
<1>3. SubSeq(s, k + 1, Len(s)) = HistUnits(from + k, to)
  <2>1. /\ SubSeq(s, k + 1, Len(s)) \in Seq(Unit)
        /\ Len(SubSeq(s, k + 1, Len(s))) = Len(s) - k
        /\ \A i \in 1 .. Len(s) - k : SubSeq(s, k + 1, Len(s))[i] = s[k + i]
    BY <1>1, BackUnits
  <2> DEFINE first == from + k
  <2>2. first \in Nat \ {0} /\ first <= to + 1 /\ Len(s) - k = to - first + 1
    BY <1>1
  <2>3. \A i \in 1 .. Len(s) - k : s[k + i] = HistUnit(first + i - 1)
    BY <1>1
  <2> HIDE DEF first
  <2>4. \A i \in 1 .. to - first + 1 : SubSeq(s, k + 1, Len(s))[i] = HistUnit(first + i - 1)
    BY <2>1, <2>2, <2>3
  <2>5. SubSeq(s, k + 1, Len(s)) = HistUnits(first, to)
    <3>1. PICK t \in Seq(Unit) : t = SubSeq(s, k + 1, Len(s))
      BY <2>1
    <3>2. Len(t) = to - first + 1 /\ \A i \in 1 .. to - first + 1 : t[i] = HistUnit(first + i - 1)
      BY <2>1, <2>2, <2>4, <3>1
    <3>3. t = HistUnits(first, to)
      BY <2>2, <3>2, HistEqual
    <3> QED BY <3>1, <3>3
  <2> QED BY <2>5 DEF first
<1> QED BY <1>1, <1>2, <1>3 DEF s

-----------------------------------------------------------------------------
(* A synchronisation as the master sends it: newlines while the snapshot is  *)
(* written, the snapshot, and the history behind it.                         *)

\* What may be unit i of such a stretch whose EOF opcode is unit z, behind `size`
\* keys: z says how much of the stretch is gone already.
WireUnit(u, i, at, z, size) ==
    \/ i > z /\ u = HistUnit(at + i - z)
    \/ i = z /\ u = [k |-> "eof", n |-> size, r |-> at]
    \/ i < z /\ i >= z - size /\ IsKey(u) /\ u.n = i - (z - size) + 1 /\ u.r = at
    \/ i = z - size - 1 /\ u = [k |-> "magic", n |-> 0, r |-> at]
    \/ i = z - size - 2 /\ u = [k |-> "len", n |-> 0, r |-> at]
    \/ i < z - size - 2 /\ u = Mk("lf", 0)

Wire(units, at, z, size) == \A i \in 1 .. Len(units) : WireUnit(units[i], i, at, z, size)

\* The units on their way to the server are the rest of a synchronisation from the
\* snapshot at position `at`, up to what the master has sent (less what a cut
\* connection dropped at the end); phase, sent and end are the master's mphase,
\* mpos and HistEnd.
SyncedAt(units, at, phase, sent, end) ==
    /\ at \in Nat
    /\ at % CmdUnits = 0
    /\ at <= end
    /\ phase # "cmd"
    /\ \E z \in Int, size \in Nat :
          /\ Wire(units, at, z, size)
          /\ at + Len(units) - z <= end
          /\ phase = "online" => z <= Len(units) /\ at + Len(units) - z = sent
          /\ phase = "bgsave" => Len(units) < z - size - 2 /\ sent = at

Synced(units, at) == SyncedAt(units, at, mphase, mpos, HistEnd)

LEMMA WireDrop ==
    ASSUME NEW s \in Seq(Unit), NEW t \in Seq(Unit), NEW k \in Nat, NEW at \in Nat, NEW z \in Int,
           NEW size \in Nat, Wire(s, at, z, size), Len(t) = Len(s) - k,
           \A i \in 1 .. Len(t) : t[i] = s[k + i]
    PROVE  Wire(t, at, z - k, size)
<1> SUFFICES ASSUME NEW i \in 1 .. Len(t) PROVE WireUnit(t[i], i, at, z - k, size)
  BY DEF Wire
<1>1. WireUnit(s[k + i], k + i, at, z, size) /\ t[i] = s[k + i]
  BY DEF Wire
<1>2. at + (k + i) - z = at + i - (z - k)
  OBVIOUS
<1> QED BY <1>1, <1>2 DEF WireUnit

LEMMA WireFront ==
    ASSUME NEW s \in Seq(Unit), NEW k \in 0 .. Len(s), NEW at \in Nat, NEW z \in Int,
           NEW size \in Nat, Wire(s, at, z, size)
    PROVE  Wire(SubSeq(s, 1, k), at, z, size)
BY FrontUnits DEF Wire

LEMMA WireJoin ==
    ASSUME NEW s \in Seq(Unit), NEW t \in Seq(Unit), NEW at \in Nat, NEW z \in Int,
           NEW size \in Nat, Wire(s, at, z, size),
           \A i \in 1 .. Len(t) : WireUnit(t[i], Len(s) + i, at, z, size)
    PROVE  Wire(s \o t, at, z, size)
<1> SUFFICES ASSUME NEW i \in 1 .. Len(s \o t) PROVE WireUnit((s \o t)[i], i, at, z, size)
  BY DEF Wire
<1>1. CASE i <= Len(s)
  BY <1>1, JoinUnits DEF Wire
<1>2. CASE i > Len(s)
  <2>1. i - Len(s) \in 1 .. Len(t) /\ (s \o t)[i] = t[i - Len(s)] /\ Len(s) + (i - Len(s)) = i
    BY <1>2, JoinUnits
  <2> QED BY <2>1
<1> QED BY <1>1, <1>2

\* A stretch that still is nothing but newlines may have its snapshot anywhere.
LEMMA WireAgain ==
    ASSUME NEW s \in Seq(Unit), NEW at \in Nat, NEW z \in Int, NEW size \in Nat,
           Wire(s, at, z, size), Len(s) < z - size - 2,
           NEW z2 \in Int, NEW size2 \in Nat, Len(s) < z2 - size2 - 2
    PROVE  Wire(s, at, z2, size2)
<1> SUFFICES ASSUME NEW i \in 1 .. Len(s) PROVE WireUnit(s[i], i, at, z2, size2)
  BY DEF Wire
<1>1. WireUnit(s[i], i, at, z, size) /\ i < z - size - 2 /\ i < z2 - size2 - 2
  BY DEF Wire
<1>2. s[i] = Mk("lf", 0)
  BY <1>1 DEF WireUnit
<1> QED BY <1>1, <1>2 DEF WireUnit

LEMMA PayloadIs ==
    ASSUME NEW keys \in Seq({"key", "dkey"}), NEW at \in Nat
    PROVE  /\ Payload(keys, at) \in Seq(Unit)
           /\ Len(Payload(keys, at)) = Len(keys) + 3
           /\ Payload(keys, at)[1] = [k |-> "len", n |-> 0, r |-> at]
           /\ Payload(keys, at)[2] = [k |-> "magic", n |-> 0, r |-> at]
           /\ \A i \in 1 .. Len(keys) : Payload(keys, at)[i + 2] = [k |-> keys[i], n |-> i, r |-> at]
           /\ Payload(keys, at)[Len(keys) + 3] = [k |-> "eof", n |-> Len(keys), r |-> at]
<1> DEFINE Part(kind, num) == [k |-> kind, n |-> num, r |-> at]
           a == <<Part("len", 0), Part("magic", 0)>>
           b == [i \in 1 .. Len(keys) |-> Part(keys[i], i)]
           c == <<Part("eof", Len(keys))>>
<1>1. Payload(keys, at) = (a \o b) \o c
  BY DEF Payload
<1>2. \A kind \in PayloadKinds, num \in Nat : Part(kind, num) \in Unit
  BY DEF Unit
<1>3. a \in Seq(Unit) /\ Len(a) = 2 /\ a[1] = Part("len", 0) /\ a[2] = Part("magic", 0)
  <2>1. Part("len", 0) \in Unit /\ Part("magic", 0) \in Unit
    BY <1>2 DEF PayloadKinds
  <2> HIDE DEF Part
  <2> QED BY <2>1
<1>4. b \in Seq(Unit) /\ Len(b) = Len(keys) /\ \A i \in 1 .. Len(keys) : b[i] = Part(keys[i], i)
  <2>1. \A i \in 1 .. Len(keys) : Part(keys[i], i) \in Unit
    BY <1>2 DEF PayloadKinds
  <2>2. Len(keys) \in Nat
    OBVIOUS
  <2> HIDE DEF Part
  <2> QED BY <2>1, <2>2
<1>5. c \in Seq(Unit) /\ Len(c) = 1 /\ c[1] = Part("eof", Len(keys))
  <2>1. Part("eof", Len(keys)) \in Unit
    BY <1>2 DEF PayloadKinds
  <2> HIDE DEF Part
  <2> QED BY <2>1
<1> HIDE DEF a, b, c
<1>6. PICK n \in Nat : n = Len(keys)
  OBVIOUS
<1>10. /\ a \in Seq(Unit) /\ Len(a) = 2 /\ b \in Seq(Unit) /\ Len(b) = n
      /\ c \in Seq(Unit) /\ Len(c) = 1
  BY <1>3, <1>4, <1>5, <1>6
<1>7. /\ a \o b \in Seq(Unit) /\ Len(a \o b) = n + 2
      /\ (a \o b)[1] = a[1] /\ (a \o b)[2] = a[2]
      /\ \A i \in 1 .. n : (a \o b)[i + 2] = b[i]
  <2>0. Len(a) + Len(b) = n + 2
    BY <1>10
  <2>1. a \o b \in Seq(Unit) /\ Len(a \o b) = n + 2
    BY <1>10, <2>0, JoinUnits
  <2>2. (a \o b)[1] = a[1] /\ (a \o b)[2] = a[2]
    <3>1. 1 \in 1 .. Len(a) /\ 2 \in 1 .. Len(a)
      BY <1>10
    <3>2. \A i \in 1 .. Len(a) : (a \o b)[i] = a[i]
      BY <1>10, JoinUnits
    <3> QED BY <3>1, <3>2
  <2>3. ASSUME NEW i \in 1 .. n PROVE (a \o b)[i + 2] = b[i]
    <3>1. i + 2 \in Len(a) + 1 .. Len(a) + Len(b) /\ (i + 2) - Len(a) = i
      BY <1>10
    <3>2. (a \o b)[i + 2] = b[(i + 2) - Len(a)]
      BY <1>10, <3>1, JoinUnits
    <3> QED BY <3>1, <3>2
  <2> QED BY <2>1, <2>2, <2>3
<1>8. /\ (a \o b) \o c \in Seq(Unit) /\ Len((a \o b) \o c) = n + 3
      /\ \A i \in 1 .. n + 2 : ((a \o b) \o c)[i] = (a \o b)[i]
      /\ ((a \o b) \o c)[n + 3] = c[1]
  <2> DEFINE ab == a \o b
  <2> HIDE DEF ab
  <2>1. ab \in Seq(Unit) /\ Len(ab) = n + 2
    BY <1>7 DEF ab
  <2>0. Len(ab) + Len(c) = n + 3
    BY <1>10, <2>1
  <2>2. ab \o c \in Seq(Unit) /\ Len(ab \o c) = n + 3
        /\ \A i \in 1 .. n + 2 : (ab \o c)[i] = ab[i]
    <3>1. \A i \in 1 .. n + 2 : i \in 1 .. Len(ab)
      BY <2>1
    <3>2. \A i \in 1 .. Len(ab) : (ab \o c)[i] = ab[i]
      BY <1>10, <2>1, JoinUnits
    <3> QED BY <1>10, <2>0, <2>1, <3>1, <3>2, JoinUnits
  <2>3. n + 3 \in Len(ab) + 1 .. Len(ab) + Len(c) /\ (n + 3) - Len(ab) = 1
    BY <1>10, <2>1
  <2>4. (ab \o c)[n + 3] = c[(n + 3) - Len(ab)]
    BY <1>10, <2>1, <2>3, JoinUnits
  <2> QED BY <2>2, <2>3, <2>4 DEF ab
<1>9. \A i \in 1 .. n : ((a \o b) \o c)[i + 2] = b[i]
  BY <1>6, <1>7, <1>8
<1> QED BY <1>1, <1>3, <1>4, <1>5, <1>6, <1>7, <1>8, <1>9

-----------------------------------------------------------------------------
(* The master's steps while no request is unanswered.                       *)

MasterSteps ==
    \/ MReply \/ MFullSync \/ MContinue \/ MSendRdb \/ MFlush \/ MBoot \/ MLoaded
    \/ MWrite \/ MRefuse \/ MKeepalive \/ MDrop \/ MCrash

Quietly == mphase' = mphase /\ mpos' = mpos /\ HistEnd <= HistEnd' /\ peerOpen' = peerOpen
           /\ req' = req
Cutting == mphase' = "none" /\ HistEnd' = HistEnd /\ ~peerOpen' /\ req'.c = "none"
Sending(from, to) == mphase = from /\ mphase' = to /\ HistEnd' = HistEnd /\ peerOpen /\ peerOpen'
                     /\ req' = req

\* What such a step makes of the units that the server has not handled yet.
Moves(old, new) ==
    \/ Quietly /\ new = old
    \/ Cutting /\ \E kept \in 0 .. Len(old) : new = SubSeq(old, 1, kept)
    \/ Sending("bgsave", "bgsave") /\ mpos' = mpos /\ new = old \o <<Mk("lf", 0)>>
    \/ /\ Sending("bgsave", "online") /\ mpos' = mpos
       /\ \E keys \in Seq({"key", "dkey"}) : new = old \o Payload(keys, mpos)
    \/ /\ Sending("online", "online") /\ mpos < HistEnd /\ mpos' = HistEnd
       /\ new = old \o HistUnits(mpos + 1, HistEnd)

LEMMA HistEndIs == ASSUME TypeOK PROVE HistEnd \in Nat /\ HistEnd % CmdUnits = 0
BY DEF TypeOK, MasterTypeOK, HistEnd, CmdUnits

LEMMA MasterMoves ==
    ASSUME TypeOK, MasterSteps, req.c = "none"
    PROVE  Moves(net, net')
<1>1. CASE MReply \/ MFullSync \/ MContinue \/ MRefuse
  BY <1>1 DEF MReply, MFullSync, MContinue, MRefuse, Asked
<1>2. CASE MSendRdb
  <2>1. PICK keys \in Snapshots : net' = net \o Payload(keys, mpos)
    BY <1>2 DEF MSendRdb
  <2>2. keys \in Seq({"key", "dkey"})
    BY MasterAssumption
  <2>3. Sending("bgsave", "online") /\ mpos' = mpos
    BY <1>2 DEF MSendRdb, Sending, HistEnd
  <2> QED BY <2>1, <2>2, <2>3 DEF Moves
<1>3. CASE MFlush
  BY <1>3 DEF MFlush, Sending, Moves, HistEnd
<1>4. CASE MBoot \/ MLoaded \/ MWrite
  <2>1. hist \in Nat /\ (hist' = hist \/ hist' = hist + 1)
    BY <1>4 DEF MBoot, MLoaded, MWrite, TypeOK, MasterTypeOK
  <2>2. HistEnd <= HistEnd'
    BY <2>1 DEF HistEnd, CmdUnits
  <2> QED BY <1>4, <2>2 DEF MBoot, MLoaded, MWrite, Quietly, Moves
<1>5. CASE MKeepalive
  <2>1. net' = Append(net, Mk("lf", 0)) /\ net \in Seq(Unit) /\ Mk("lf", 0) \in Unit
    BY <1>5, UnitOf DEF MKeepalive, TypeOK, MasterTypeOK, StreamKinds
  <2>2. Append(net, Mk("lf", 0)) = net \o <<Mk("lf", 0)>>
    BY <2>1, AppendUnit
  <2> QED BY <1>5, <2>1, <2>2 DEF MKeepalive, Sending, Moves, HistEnd
<1>6. CASE MDrop \/ MCrash
  BY <1>6 DEF MDrop, MCrash, Cut, Cutting, Moves, NoRequest, Request, HistEnd
<1> QED BY <1>1, <1>2, <1>3, <1>4, <1>5, <1>6 DEF MasterSteps

\* The units that the server holds already do not matter to the master.
LEMMA MovesBehind ==
    ASSUME TypeOK, TypeOK', Moves(net, net'), NEW head \in Seq(Unit)
    PROVE  Moves(head \o net, head \o net')
<1>0. net \in Seq(Unit) /\ net' \in Seq(Unit) /\ mpos \in Nat /\ HistEnd \in Nat
  BY HistEndIs DEF TypeOK, MasterTypeOK
<1>1. CASE Quietly /\ net' = net
  BY <1>1 DEF Moves
<1>2. CASE Cutting /\ \E kept \in 0 .. Len(net) : net' = SubSeq(net, 1, kept)
  <2>1. PICK kept \in 0 .. Len(net) : net' = SubSeq(net, 1, kept)
    BY <1>2
  <2> DEFINE old == head \o net
             new == head \o net'
             k == Len(head) + kept
  <2>2. /\ new \in Seq(Unit) /\ Len(new) = k /\ Len(old) = Len(head) + Len(net)
        /\ \A i \in 1 .. k : new[i] = old[i]
    BY <1>0, <2>1, CutJoin
  <2>3. old \in Seq(Unit) /\ k \in 0 .. Len(old)
    BY <1>0, <2>1, <2>2, JoinUnits
  <2> HIDE DEF old, new, k
  <2>4. new = SubSeq(old, 1, k)
    BY <2>2, <2>3, FrontUnits, SameUnits
  <2>5. Moves(old, new)
    BY <1>2, <2>3, <2>4 DEF Moves
  <2> QED BY <2>5 DEF old, new
<1>3. CASE Sending("bgsave", "bgsave") /\ mpos' = mpos /\ net' = net \o <<Mk("lf", 0)>>
  <2>1. <<Mk("lf", 0)>> \in Seq(Unit)
    BY UnitOf, OneUnit DEF StreamKinds
  <2>2. head \o net' = (head \o net) \o <<Mk("lf", 0)>>
    BY <1>0, <1>3, <2>1, JoinThree
  <2> QED BY <1>3, <2>2 DEF Moves
<1>4. CASE /\ Sending("bgsave", "online") /\ mpos' = mpos
           /\ \E keys \in Seq({"key", "dkey"}) : net' = net \o Payload(keys, mpos)
  <2>1. PICK keys \in Seq({"key", "dkey"}) : net' = net \o Payload(keys, mpos)
    BY <1>4
  <2>2. head \o net' = (head \o net) \o Payload(keys, mpos)
    BY <1>0, <2>1, PayloadIs, JoinThree
  <2> QED BY <1>4, <2>2 DEF Moves
<1>5. CASE /\ Sending("online", "online") /\ mpos < HistEnd /\ mpos' = HistEnd
           /\ net' = net \o HistUnits(mpos + 1, HistEnd)
  <2>0. mpos + 1 \in Nat \ {0}
    BY <1>0
  <2>1. HistUnits(mpos + 1, HistEnd) \in Seq(Unit)
    BY <1>0, <2>0, HistUnitsType
  <2>2. head \o net' = (head \o net) \o HistUnits(mpos + 1, HistEnd)
    BY <1>0, <1>5, <2>1, JoinThree
  <2> QED BY <1>5, <2>2 DEF Moves
<1> QED BY <1>1, <1>2, <1>3, <1>4, <1>5 DEF Moves

\* Whatever the server holds of a synchronisation already, the master goes on with it.
LEMMA SyncedStep ==
    ASSUME TypeOK, TypeOK', NEW all \in Seq(Unit), NEW new, Moves(all, new), NEW at,
           Synced(all, at)
    PROVE  SyncedAt(new, at, mphase', mpos', HistEnd')
<1>0. /\ Len(all) \in Nat /\ mpos \in Nat /\ HistEnd \in Nat
  BY HistEndIs DEF TypeOK, MasterTypeOK
<1>1. /\ at \in Nat /\ at % CmdUnits = 0 /\ at <= HistEnd /\ mphase # "cmd"
  BY DEF Synced, SyncedAt
<1>2. PICK z \in Int, size \in Nat :
          /\ Wire(all, at, z, size)
          /\ at + Len(all) - z <= HistEnd
          /\ mphase = "online" => z <= Len(all) /\ at + Len(all) - z = mpos
          /\ mphase = "bgsave" => Len(all) < z - size - 2 /\ mpos = at
  BY DEF Synced, SyncedAt
<1>3. HistEnd' \in Nat
  <2>1. hist' \in Nat /\ HistEnd' = 3 * hist'
    BY DEF TypeOK, MasterTypeOK, HistEnd, CmdUnits
  <2>2. \A c \in Nat : 3 * c \in Nat
    OBVIOUS
  <2> QED BY <2>1, <2>2
\* What has to be shown, for one way to place the snapshot.
<1>4. ASSUME NEW z2 \in Int, NEW size2 \in Nat,
             mphase' # "cmd", at <= HistEnd', Wire(new, at, z2, size2),
             at + Len(new) - z2 <= HistEnd',
             mphase' = "online" => z2 <= Len(new) /\ at + Len(new) - z2 = mpos',
             mphase' = "bgsave" => Len(new) < z2 - size2 - 2 /\ mpos' = at
      PROVE  SyncedAt(new, at, mphase', mpos', HistEnd')
  BY <1>1, <1>4 DEF SyncedAt
<1>5. CASE Quietly /\ new = all
  <2>1. new = all /\ HistEnd <= HistEnd' /\ mphase' = mphase /\ mpos' = mpos
    BY <1>5 DEF Quietly
  <2>2. at <= HistEnd' /\ at + Len(all) - z <= HistEnd'
    BY <1>0, <1>1, <1>2, <1>3, <2>1
  <2> QED BY <1>1, <1>2, <1>4, <2>1, <2>2
<1>6. CASE Cutting /\ \E kept \in 0 .. Len(all) : new = SubSeq(all, 1, kept)
  <2>1. PICK kept \in 0 .. Len(all) : new = SubSeq(all, 1, kept)
    BY <1>6
  <2>2. Len(new) = kept /\ kept \in Nat /\ kept <= Len(all)
    BY <1>0, <2>1, FrontUnits
  <2>3. Wire(new, at, z, size)
    BY <1>1, <1>2, <2>1, WireFront
  <2>4. mphase' = "none" /\ HistEnd' = HistEnd
    BY <1>6 DEF Cutting
  <2>5. at + Len(new) - z <= HistEnd'
    BY <1>0, <1>1, <1>2, <2>2, <2>4
  <2> QED BY <1>1, <1>4, <2>3, <2>4, <2>5
<1>7. CASE Sending("bgsave", "bgsave") /\ mpos' = mpos /\ new = all \o <<Mk("lf", 0)>>
  <2> DEFINE one == <<Mk("lf", 0)>>
             z2 == Len(all) + 5
  <2>1. one \in Seq(Unit) /\ Len(one) = 1 /\ one[1] = Mk("lf", 0)
    BY UnitOf, OneUnit DEF StreamKinds
  <2>2. mphase = "bgsave" /\ mphase' = "bgsave" /\ HistEnd' = HistEnd /\ mpos' = at /\ new = all \o one
    BY <1>2, <1>7 DEF Sending
  <2>3. z2 \in Int /\ Len(all) < z2 - 0 - 2 /\ Len(all) + 1 < z2 - 0 - 2
    BY <1>0
  <2> HIDE DEF one
  <2>4. Wire(all, at, z2, 0)
    BY <1>0, <1>1, <1>2, <2>2, <2>3, WireAgain
  <2>5. ASSUME NEW i \in 1 .. Len(one) PROVE WireUnit(one[i], Len(all) + i, at, z2, 0)
    <3>1. i = 1
      BY <2>1
    <3> QED BY <2>1, <2>3, <3>1 DEF WireUnit
  <2>6. Len(all) + Len(one) = Len(all) + 1 /\ z2 = Len(all) + 5
    BY <2>1
  <2> HIDE DEF z2
  <2>7. Wire(new, at, z2, 0)
    <3>1. at \in Nat /\ z2 \in Int /\ 0 \in Nat
      BY <1>1, <2>3
    <3> QED BY <2>1, <2>2, <2>4, <2>5, <3>1, WireJoin
  <2>8. Len(new) = Len(all) + 1
    BY <2>1, <2>2, <2>6, JoinUnits
  <2>9. Len(new) < z2 - 0 - 2 /\ at + Len(new) - z2 <= HistEnd'
    BY <1>0, <1>1, <2>2, <2>6, <2>8
  <2> QED BY <1>1, <1>4, <2>2, <2>3, <2>7, <2>9
<1>8. CASE /\ Sending("bgsave", "online") /\ mpos' = mpos
           /\ \E keys \in Seq({"key", "dkey"}) : new = all \o Payload(keys, mpos)
  <2>1. PICK keys \in Seq({"key", "dkey"}) : new = all \o Payload(keys, mpos)
    BY <1>8
  <2>2. PICK n \in Nat : n = Len(keys)
    OBVIOUS
  <2> DEFINE more == Payload(keys, at)
             z2 == Len(all) + n + 3
  <2>3. mphase = "bgsave" /\ mphase' = "online" /\ HistEnd' = HistEnd /\ mpos = at /\ mpos' = at
    BY <1>2, <1>8 DEF Sending
  <2>4. /\ more \in Seq(Unit) /\ Len(more) = n + 3
        /\ more[1] = [k |-> "len", n |-> 0, r |-> at]
        /\ more[2] = [k |-> "magic", n |-> 0, r |-> at]
        /\ \A i \in 1 .. n : more[i + 2] = [k |-> keys[i], n |-> i, r |-> at]
        /\ more[n + 3] = [k |-> "eof", n |-> n, r |-> at]
    BY <1>1, <2>2, PayloadIs
  <2>5. new = all \o more
    BY <2>1, <2>3
  <2> HIDE DEF more
  <2>6. z2 \in Int /\ Len(all) < z2 - n - 2
    BY <1>0
  <2>7. Wire(all, at, z2, n)
    BY <1>0, <1>1, <1>2, <2>3, <2>6, WireAgain
  <2>8. ASSUME NEW i \in 1 .. Len(more) PROVE WireUnit(more[i], Len(all) + i, at, z2, n)
    <3>1. CASE i = 1
      <4>1. Len(all) + i = z2 - n - 2
        BY <1>0, <3>1
      <4> QED BY <2>4, <3>1, <4>1 DEF WireUnit
    <3>2. CASE i = 2
      <4>1. Len(all) + i = z2 - n - 1
        BY <1>0, <3>2
      <4> QED BY <2>4, <3>2, <4>1 DEF WireUnit
    <3>3. CASE i = n + 3
      <4>1. Len(all) + i = z2
        BY <1>0, <3>3
      <4> QED BY <2>4, <3>3, <4>1 DEF WireUnit
    <3>4. CASE i > 2 /\ i < n + 3
      <4>1. PICK j \in 1 .. n : i = j + 2
        <5>1. i - 2 \in 1 .. n /\ i = (i - 2) + 2
          BY <3>4
        <5> QED BY <5>1
      <4>2. more[i] = [k |-> keys[j], n |-> j, r |-> at] /\ keys[j] \in {"key", "dkey"}
        BY <2>2, <2>4, <4>1
      <4>3. Len(all) + i < z2 /\ Len(all) + i >= z2 - n /\ j = (Len(all) + i) - (z2 - n) + 1
        BY <1>0, <4>1
      <4> QED BY <4>2, <4>3 DEF WireUnit, IsKey
    <3> QED BY <2>4, <3>1, <3>2, <3>3, <3>4
  <2>9. Wire(new, at, z2, n)
    BY <1>0, <1>1, <2>4, <2>5, <2>6, <2>7, <2>8, WireJoin
  <2>10. Len(all) + Len(more) = z2
    BY <1>0, <2>4
  <2>11. Len(new) = z2
    BY <1>0, <2>4, <2>5, <2>10, JoinUnits
  <2>12. z2 <= Len(new) /\ at + Len(new) - z2 = at /\ at + Len(new) - z2 <= HistEnd' /\ at <= HistEnd'
    BY <1>1, <2>3, <2>6, <2>11
  <2> HIDE DEF z2
  <2> QED BY <1>4, <2>3, <2>5, <2>6, <2>9, <2>12
<1>9. CASE /\ Sending("online", "online") /\ mpos < HistEnd /\ mpos' = HistEnd
           /\ new = all \o HistUnits(mpos + 1, HistEnd)
  <2> DEFINE more == HistUnits(mpos + 1, HistEnd)
  <2>1. mphase = "online" /\ mphase' = "online" /\ HistEnd' = HistEnd
    BY <1>9 DEF Sending
  <2>2. z <= Len(all) /\ at + Len(all) - z = mpos
    BY <1>2, <2>1
  <2>3. mpos + 1 \in Nat \ {0} /\ mpos + 1 <= HistEnd + 1 /\ HistEnd - (mpos + 1) + 1 = HistEnd - mpos
    BY <1>0, <1>9
  <2>4. /\ more \in Seq(Unit) /\ Len(more) = HistEnd - (mpos + 1) + 1
        /\ \A i \in 1 .. HistEnd - (mpos + 1) + 1 : more[i] = HistUnit((mpos + 1) + i - 1)
    BY <1>0, <2>3, HistUnitsAre
  <2>5. new = all \o more
    BY <1>9
  <2> HIDE DEF more
  <2>6. ASSUME NEW i \in 1 .. Len(more) PROVE WireUnit(more[i], Len(all) + i, at, z, size)
    <3>0. i \in Nat /\ i >= 1 /\ Len(all) \in Nat /\ at \in Nat /\ mpos \in Nat
      BY <1>0, <1>1, <2>4
    <3>1. Len(all) + i > z /\ at + (Len(all) + i) - z = (mpos + 1) + i - 1
      BY <2>2, <3>0
    <3>2. more[i] = HistUnit((mpos + 1) + i - 1)
      BY <2>4
    <3> QED BY <3>1, <3>2 DEF WireUnit
  <2>7. Wire(new, at, z, size)
    BY <1>0, <1>1, <1>2, <2>4, <2>5, <2>6, WireJoin
  <2>8. Len(all) + Len(more) = Len(all) + HistEnd - mpos
    BY <1>0, <2>3, <2>4
  <2>9. Len(new) = Len(all) + HistEnd - mpos
    BY <1>0, <2>4, <2>5, <2>8, JoinUnits
  <2>10. z <= Len(new) /\ at + Len(new) - z = mpos' /\ at + Len(new) - z <= HistEnd' /\ at <= HistEnd'
    <3>1. Len(all) \in Nat /\ at \in Nat /\ mpos \in Nat /\ HistEnd \in Nat /\ mpos < HistEnd
      BY <1>0, <1>1, <1>9
    <3>2. Len(new) = Len(all) + HistEnd - mpos /\ Len(new) \in Int
      BY <2>9, <3>1
    <3>3. z <= Len(new)
      BY <2>2, <3>1, <3>2
    <3>4. at + Len(new) - z = HistEnd
      BY <2>2, <3>1, <3>2
    <3>5. at <= HistEnd' /\ HistEnd' = HistEnd /\ mpos' = HistEnd
      BY <1>1, <1>9, <2>1
    <3> QED BY <3>1, <3>3, <3>4, <3>5
  <2> QED BY <1>2, <1>4, <2>1, <2>5, <2>7, <2>10
<1> QED BY <1>5, <1>6, <1>7, <1>8, <1>9 DEF Moves

-----------------------------------------------------------------------------
(* Where a synchronisation stands, and what of it the server holds itself.  *)

Greeting  == where \in {"bootAuth", "bootPing"}
               \/ (where = "reply" /\ state \in {"list", "eof", "reconnect2"})
Resting   == where = "idle" /\ state \in {"list", "eof", "load", "reconnect2", "reconnect3"}
Answering == where = "reply" /\ state = "load"
Receives  == state \in {"payload", "buffering"}

\* The units that the server has read and that a cast to itself will go on with.
CastHead(m) ==
    IF m.t = "save_rdb" THEN (IF m.n = 0 THEN m.data ELSE file \o m.data)
    ELSE IF m.t = "load_rdb" THEN file
    ELSE <<>>

\* Those that the next reply extends.
Kept == IF where = "reply" /\ state = "buffering" THEN file ELSE <<>>

Held(h) ==
    \/ where = "idle" /\ \E i \in DOMAIN mb : mb[i].t \in Casts /\ h = CastHead(mb[i])
    \/ where # "idle" /\ NoneOf(mb, {"tcp"}) /\ h = Kept
    \/ where # "idle" /\ \E i \in DOMAIN mb : mb[i].t = "tcp" /\ h = Kept \o mb[i].data

Away == mphase \in {"cmd", "none"}   \* the master sends nothing by itself

\* One request, or its answer, or nothing is under way.
Greets(all) ==
    /\ Away
    /\ Len(all) <= 1
    /\ req.c # "none" => all = <<>>

Rests(all) == Away /\ req.c = "none" /\ all = <<>>

\* PSYNC or SYNC is not answered yet, lost, refused, or answered.
Asks(all) ==
    /\ req.c = (IF mode = "psync" THEN "PSYNC" ELSE "SYNC")
    /\ mode = "psync" => req.runid = runid /\ req.offset = offset
    /\ mphase = "cmd" /\ all = <<>>
Lost(all)    == req.c = "none" /\ mphase = "none" /\ all = <<>>
Refused(all) == req.c = "none" /\ Away /\ Len(all) = 1 /\ all[1].k = "err"

Follows(rest) ==
    /\ offset > 0
    /\ mphase \in {"online", "none"}
    /\ \E to \in Nat :
          /\ offset <= to + 1 /\ to <= HistEnd
          /\ rest = HistUnits(offset, to)
          /\ mphase = "online" => to = mpos

Continued(all) ==
    /\ req.c = "none" /\ mode = "psync" /\ runid # NoRunId
    /\ all # <<>> /\ all[1].k = "continue" /\ Follows(Tail(all))

FullSynced(all) ==
    /\ req.c = "none" /\ mode = "psync"
    /\ all # <<>> /\ all[1].k = "fullresync" /\ all[1].r # NoRunId
    /\ Synced(Tail(all), all[1].n)

Bulk(all) == req.c = "none" /\ mode # "psync" /\ \E at \in Nat : Synced(all, at)

Answers(all) ==
    Asks(all) \/ Lost(all) \/ Refused(all) \/ Continued(all) \/ FullSynced(all) \/ Bulk(all)

Loads(all) ==
    /\ req.c = "none"
    /\ \E at \in Nat : Synced(all, at) /\ (mode = "psync" => offset = at)

Underway(all) ==
    /\ Greeting  => Greets(all)
    /\ Resting   => Rests(all)
    /\ Answering => Answers(all)
    /\ Receives  => Loads(all)

Carried == \A h, all \in Seq(Unit) : Held(h) /\ all = h \o net => Underway(all)

\* The master's end of the connection.  While the server reconnects, the answer to
\* PING is the last thing that the master has sent.
Peer ==
    /\ peerOpen <=> mphase # "none"
    /\ ~peerOpen => req.c = "none"
    /\ req.c \in {"PSYNC", "SYNC"} => Answering
    /\ where \in {"reAuth", "rePing"} => Away
    /\ where = "rePing" =>
          /\ \A k \in DOMAIN net : net[k].k = "pong" => k = Len(net) /\ req.c = "none"
          /\ \A i \in DOMAIN mb : RecvResult(mb[i]) = "pong" => net = <<>> /\ req.c = "none"

Reads == where = "reply" => \A i \in DOMAIN mb : mb[i].t = "tcp" => mb[i].data # <<>>

Books ==
    /\ fed >= 0
    /\ state \in {"undefined", "list", "eof"} => runid = NoRunId
    /\ mode = "psync" /\ state \in {"payload", "buffering", "stream"} => runid # NoRunId
    /\ \A i \in DOMAIN mb : mb[i].t \in {"psync", "sync"} => mb[i].t = mode
    /\ state = "undefined" => buffer = <<>>
    /\ state \notin {"stream", "reconnect"} /\ "stale" \notin tainted => buffer = <<>>
    /\ where # "down" /\ state \notin {"stream", "reconnect"} => acked = -1
    /\ tainted = {} => acked <= fed + 1

\* What the offset says of the units that the callback has seen.
Known ==
    mode = "psync" /\ runid # NoRunId /\ "stale" \notin tainted /\ ~Receives =>
        /\ offset <= fed \/ (offset = fed + 1 /\ fed % CmdUnits = 0)
        /\ tainted = {} => fed % CmdUnits = 0 /\ offset >= fed

\* In the stream: e[i] is the history position at which message i ends.
Ends(box, e) ==
    /\ e \in [0 .. Len(box) -> Nat]
    /\ \A i \in 1 .. Len(box) :
          IF box[i].t = "tcp" THEN e[i - 1] <= e[i] /\ box[i].data = HistUnits(e[i - 1] + 1, e[i])
          ELSE e[i] = e[i - 1]

Position(from) ==
    /\ \/ from = fed + 1 /\ (mode = "psync" => offset <= fed \/ (offset = from /\ fed % CmdUnits = 0))
       \/ from = fed /\ offset = from /\ mode = "psync"
    /\ tainted = {} => fed % CmdUnits = 0 /\ (mode = "psync" => offset >= fed)

Buffered(end) ==
    \E from \in Nat \ {0} : from <= end + 1 /\ buffer = HistUnits(from, end) /\ Position(from)

Ahead(units, end) ==
    /\ mphase \in {"online", "none"}
    /\ \E to \in Nat : end <= to /\ to <= HistEnd /\ units = HistUnits(end + 1, to)
                       /\ (mphase = "online" => to = mpos)

\* The data in a mailbox is the history from behind first up to last.
Spans(box, first, last) ==
    \E e \in [0 .. Len(box) -> Nat] : Ends(box, e) /\ e[0] = first /\ e[Len(box)] = last

Flows ==
    state = "stream" =>
        /\ req.c = "none"
        /\ \E first, last \in Nat :
              /\ Spans(mb, first, last)
              /\ Ahead(net, last)
              /\ "stale" \notin tainted => Buffered(first)

Course == Carried /\ Peer /\ Reads /\ Books /\ Known /\ Flows

-----------------------------------------------------------------------------
(* The master's steps.                                                      *)

LEMMA HeldSame == ASSUME UNCHANGED serverVars, NEW h PROVE Held(h)' <=> Held(h)
BY DEF Held, Kept, CastHead, NoneOf, serverVars, procVars, stateVars

LEMMA PhaseSame ==
    ASSUME UNCHANGED serverVars
    PROVE  /\ Greeting' <=> Greeting
           /\ Resting' <=> Resting
           /\ Answering' <=> Answering
           /\ Receives' <=> Receives
           /\ mode' = mode /\ runid' = runid /\ offset' = offset /\ state' = state
BY DEF Greeting, Resting, Answering, Receives, serverVars, procVars, stateVars

LEMMA GreetsStep ==
    ASSUME NEW old \in Seq(Unit), NEW new \in Seq(Unit), Moves(old, new), req.c = "none"
    PROVE  /\ Greets(old) => Greets(new)'
           /\ Rests(old) => Rests(new)'
<1>1. ASSUME Away
      PROVE  /\ Away' /\ req'.c = "none"
             /\ new = old \/ \E kept \in 0 .. Len(old) : new = SubSeq(old, 1, kept)
  BY <1>1 DEF Away, Moves, Quietly, Cutting, Sending
<1>2. ASSUME NEW kept \in 0 .. Len(old), new = SubSeq(old, 1, kept)
      PROVE  Len(new) <= Len(old)
  BY <1>2, FrontUnits
<1>3. ASSUME Away PROVE Len(new) <= Len(old)
  BY <1>1, <1>2, <1>3
<1>4. old = <<>> => Len(old) = 0
  OBVIOUS
<1>5. Len(new) <= 0 => new = <<>>
  OBVIOUS
<1>6. Greets(old) => Greets(new)'
  <2> SUFFICES ASSUME Greets(old) PROVE Greets(new)'
    OBVIOUS
  <2>1. Len(old) \in Nat /\ Len(new) \in Nat
    OBVIOUS
  <2> QED BY <1>1, <1>3, <2>1 DEF Greets
<1>7. Rests(old) => Rests(new)'
  BY <1>1, <1>3, <1>4, <1>5 DEF Rests
<1> QED BY <1>6, <1>7

LEMMA SyncedStepAt ==
    ASSUME TypeOK, TypeOK', NEW old \in Seq(Unit), NEW new, Moves(old, new), NEW at,
           Synced(old, at)
    PROVE  Synced(new, at)'
BY SyncedStep DEF Synced

LEMMA SyncedNothing ==
    ASSUME TypeOK, mphase = "none"
    PROVE  Synced(<<>>, 0)
<1>1. Wire(<<>>, 0, 0, 0)
  BY DEF Wire
<1>2. HistEnd \in Nat /\ Len(<<>>) = 0 /\ 0 % 3 = 0
  BY HistEndIs
<1> QED BY <1>1, <1>2 DEF Synced, SyncedAt, CmdUnits

\* What happens behind the first unit.
LEMMA MovesTail ==
    ASSUME NEW old \in Seq(Unit), NEW new \in Seq(Unit), Moves(old, new), old # <<>>, mpos \in Nat,
           HistEnd \in Nat
    PROVE  \/ Cutting /\ new = <<>>
           \/ new # <<>> /\ new[1] = old[1] /\ Moves(Tail(old), Tail(new))
<1>0. Tail(old) \in Seq(Unit) /\ Len(old) \in Nat \ {0} /\ Len(Tail(old)) = Len(old) - 1
  BY TailUnits
<1>1. CASE Quietly /\ new = old
  BY <1>1 DEF Moves
<1>2. CASE Cutting /\ \E kept \in 0 .. Len(old) : new = SubSeq(old, 1, kept)
  <2>1. PICK kept \in 0 .. Len(old) : new = SubSeq(old, 1, kept)
    BY <1>2
  <2>2. Len(new) = kept /\ \A i \in 1 .. kept : new[i] = old[i]
    BY <2>1, FrontUnits
  <2>3. CASE kept = 0
    <3>1. new = <<>>
      BY <2>2, <2>3
    <3> QED BY <1>2, <3>1
  <2>4. CASE kept # 0
    <3>1. new # <<>> /\ new[1] = old[1] /\ kept \in Nat \ {0}
      BY <1>0, <2>2, <2>4
    <3>2. Tail(new) \in Seq(Unit) /\ Len(Tail(new)) = kept - 1
          /\ \A i \in 1 .. kept - 1 : Tail(new)[i] = new[i + 1]
      BY <2>2, <3>1, TailUnits
    <3>3. \A i \in 1 .. Len(old) - 1 : Tail(old)[i] = old[i + 1]
      BY TailUnits
    <3>4. kept - 1 \in 0 .. Len(Tail(old))
      BY <1>0, <3>1
    <3>5. /\ SubSeq(Tail(old), 1, kept - 1) \in Seq(Unit) /\ Len(SubSeq(Tail(old), 1, kept - 1)) = kept - 1
          /\ \A i \in 1 .. kept - 1 : SubSeq(Tail(old), 1, kept - 1)[i] = Tail(old)[i]
      BY <1>0, <3>4, FrontUnits
    <3>6. \A i \in 1 .. kept - 1 : Tail(new)[i] = SubSeq(Tail(old), 1, kept - 1)[i]
      BY <1>0, <2>2, <3>2, <3>3, <3>5
    <3>7. Tail(new) = SubSeq(Tail(old), 1, kept - 1)
      BY <3>2, <3>5, <3>6, SameUnits
    <3>8. Moves(Tail(old), Tail(new))
      BY <1>2, <3>4, <3>7 DEF Moves
    <3> QED BY <3>1, <3>8
  <2> QED BY <2>3, <2>4
<1>3. CASE Sending("bgsave", "bgsave") /\ mpos' = mpos /\ new = old \o <<Mk("lf", 0)>>
  <2>1. <<Mk("lf", 0)>> \in Seq(Unit)
    BY UnitOf, OneUnit DEF StreamKinds
  <2> QED BY <1>3, <2>1, TailOfJoin DEF Moves
<1>4. CASE /\ Sending("bgsave", "online") /\ mpos' = mpos
           /\ \E keys \in Seq({"key", "dkey"}) : new = old \o Payload(keys, mpos)
  <2>1. PICK keys \in Seq({"key", "dkey"}) : new = old \o Payload(keys, mpos)
    BY <1>4
  <2>2. Payload(keys, mpos) \in Seq(Unit)
    BY PayloadIs
  <2>3. new # <<>> /\ new[1] = old[1] /\ Tail(new) = Tail(old) \o Payload(keys, mpos)
    BY <2>1, <2>2, TailOfJoin
  <2> QED BY <1>4, <2>3 DEF Moves
<1>5. CASE /\ Sending("online", "online") /\ mpos < HistEnd /\ mpos' = HistEnd
           /\ new = old \o HistUnits(mpos + 1, HistEnd)
  <2>0. mpos + 1 \in Nat \ {0}
    OBVIOUS
  <2>1. HistUnits(mpos + 1, HistEnd) \in Seq(Unit)
    BY <2>0, HistUnitsType
  <2>2. new # <<>> /\ new[1] = old[1] /\ Tail(new) = Tail(old) \o HistUnits(mpos + 1, HistEnd)
    BY <1>5, <2>1, TailOfJoin
  <2> QED BY <1>5, <2>2 DEF Moves
<1> QED BY <1>1, <1>2, <1>3, <1>4, <1>5 DEF Moves

\* A stretch of the history from unit first is still one after the step.
LEMMA HistStep ==
    ASSUME NEW old, NEW new, Moves(old, new), mpos \in Nat, HistEnd \in Nat, HistEnd' \in Nat,
           NEW first \in Nat \ {0}, NEW to \in Nat, first <= to + 1, to <= HistEnd,
           old = HistUnits(first, to), mphase \in {"online", "none"}, mphase = "online" => to = mpos
    PROVE  /\ mphase' \in {"online", "none"}
           /\ \E end \in Nat : /\ first <= end + 1 /\ end <= HistEnd' /\ new = HistUnits(first, end)
                               /\ mphase' = "online" => end = mpos'
<1>1. CASE Quietly /\ new = old
  <2>1. to <= HistEnd'
    BY <1>1 DEF Quietly
  <2> QED BY <1>1, <2>1 DEF Quietly
<1>2. CASE Cutting /\ \E kept \in 0 .. Len(old) : new = SubSeq(old, 1, kept)
  <2>1. PICK kept \in 0 .. Len(old) : new = SubSeq(old, 1, kept)
    BY <1>2
  <2>2. Len(old) = to - first + 1
    BY HistUnitsAre
  <2>3. kept \in 0 .. to - first + 1 /\ new = HistUnits(first, first + kept - 1)
    <3>1. kept \in 0 .. to - first + 1
      BY <2>1, <2>2
    <3>2. SubSeq(HistUnits(first, to), 1, kept) = HistUnits(first, first + kept - 1)
      BY <3>1, HistFront
    <3> QED BY <2>1, <3>1, <3>2
  <2>4. first + kept - 1 \in Nat /\ first <= (first + kept - 1) + 1 /\ first + kept - 1 <= HistEnd
    BY <2>3
  <2> QED BY <1>2, <2>3, <2>4 DEF Cutting
<1>3. CASE /\ Sending("online", "online") /\ mpos < HistEnd /\ mpos' = HistEnd
           /\ new = old \o HistUnits(mpos + 1, HistEnd)
  <2>1. to = mpos
    BY <1>3 DEF Sending
  <2>2. new = HistUnits(first, to) \o HistUnits(to + 1, HistEnd)
    BY <1>3, <2>1
  <2>3. HistUnits(first, to) \o HistUnits(to + 1, HistEnd) = HistUnits(first, HistEnd)
    BY HistJoin
  <2>4. first <= HistEnd + 1 /\ new = HistUnits(first, HistEnd)
    BY <2>2, <2>3
  <2> QED BY <1>3, <2>4 DEF Sending
<1> QED BY <1>1, <1>2, <1>3 DEF Moves, Sending

LEMMA EndGrows == ASSUME TypeOK, TypeOK' PROVE HistEnd \in Nat /\ HistEnd' \in Nat
<1>1. hist \in Nat /\ hist' \in Nat /\ HistEnd = 3 * hist /\ HistEnd' = 3 * hist'
  BY DEF TypeOK, MasterTypeOK, HistEnd, CmdUnits
<1>2. \A c \in Nat : 3 * c \in Nat
  OBVIOUS
<1> QED BY <1>1, <1>2

LEMMA LoadsStep ==
    ASSUME TypeOK, TypeOK', NEW old \in Seq(Unit), NEW new, Moves(old, new), Loads(old),
           req'.c = "none", mode' = mode, offset' = offset
    PROVE  Loads(new)'
<1>1. PICK at \in Nat : Synced(old, at) /\ (mode = "psync" => offset = at)
  BY DEF Loads
<1>2. Synced(new, at)'
  BY <1>1, SyncedStepAt
<1> QED BY <1>1, <1>2 DEF Loads

LEMMA AnswersStep ==
    ASSUME TypeOK, TypeOK', NEW old \in Seq(Unit), NEW new \in Seq(Unit), Moves(old, new),
           Answers(old), req.c = "none", mode' = mode, runid' = runid, offset' = offset
    PROVE  Answers(new)'
<1>0. /\ req'.c = "none" /\ mpos \in Nat /\ HistEnd \in Nat /\ HistEnd' \in Nat /\ offset \in Int
      /\ Len(old) \in Nat
  <2>1. req'.c = "none"
    BY DEF Moves, Quietly, Cutting, Sending
  <2>2. mpos \in Nat /\ offset \in Int
    BY DEF TypeOK, MasterTypeOK, ServerTypeOK
  <2> QED BY <2>1, <2>2, EndGrows
<1>1. CASE Asks(old)
  BY <1>1, Zenon DEF Asks
<1>2. CASE Lost(old)
  <2>1. Rests(old)
    BY <1>2 DEF Lost, Rests, Away
  <2>2. Rests(new)'
    BY <2>1, GreetsStep
  <2>3. mphase' = "none"
    BY <1>2 DEF Lost, Moves, Quietly, Cutting, Sending
  <2>4. Lost(new)'
    BY <2>2, <2>3 DEF Rests, Lost
  <2> QED BY <2>4 DEF Answers
<1>3. CASE Refused(old)
  <2>1. old # <<>> /\ old[1].k = "err" /\ Away
    BY <1>3 DEF Refused
  <2>2. Greets(old)
    BY <1>3 DEF Refused, Greets
  <2>3. Greets(new)'
    BY <2>2, GreetsStep
  <2>4. \/ Cutting /\ new = <<>>
        \/ new # <<>> /\ new[1] = old[1]
    BY <1>0, <2>1, MovesTail
  <2>5. CASE Cutting /\ new = <<>>
    <3>1. Lost(new)'
      BY <1>0, <2>5 DEF Lost, Cutting
    <3> QED BY <3>1 DEF Answers
  <2>6. CASE new # <<>> /\ new[1] = old[1]
    <3>1. Len(new) = 1
      BY <2>3, <2>6 DEF Greets
    <3>2. Refused(new)'
      BY <1>0, <2>1, <2>3, <2>6, <3>1 DEF Refused, Greets
    <3> QED BY <3>2 DEF Answers
  <2> QED BY <2>4, <2>5, <2>6
<1>4. CASE Continued(old)
  <2>1. old # <<>> /\ old[1].k = "continue" /\ Follows(Tail(old)) /\ mode = "psync" /\ runid # NoRunId
    BY <1>4 DEF Continued
  <2>2. \/ Cutting /\ new = <<>>
        \/ new # <<>> /\ new[1] = old[1] /\ Moves(Tail(old), Tail(new))
    BY <1>0, <2>1, MovesTail
  <2>3. CASE Cutting /\ new = <<>>
    <3>1. Lost(new)'
      BY <1>0, <2>3 DEF Lost, Cutting
    <3> QED BY <3>1 DEF Answers
  <2>4. CASE new # <<>> /\ new[1] = old[1] /\ Moves(Tail(old), Tail(new))
    <3>1. PICK to \in Nat : /\ offset <= to + 1 /\ to <= HistEnd
                            /\ Tail(old) = HistUnits(offset, to)
                            /\ mphase = "online" => to = mpos
      BY <2>1 DEF Follows
    <3>2. offset \in Nat \ {0} /\ mphase \in {"online", "none"}
      BY <1>0, <2>1 DEF Follows
    <3>3. /\ mphase' \in {"online", "none"}
          /\ \E end \in Nat : /\ offset <= end + 1 /\ end <= HistEnd'
                              /\ Tail(new) = HistUnits(offset, end)
                              /\ mphase' = "online" => end = mpos'
      <4>0. PICK from \in Nat \ {0} : from = offset
        BY <3>2
      <4>1. PICK rest, fresh : rest = Tail(old) /\ fresh = Tail(new)
        OBVIOUS
      <4>2. Moves(rest, fresh) /\ rest = HistUnits(from, to) /\ from <= to + 1
        BY <2>4, <3>1, <4>0, <4>1
      <4>3. mpos \in Nat /\ HistEnd \in Nat /\ HistEnd' \in Nat
        BY <1>0
      <4>4. to <= HistEnd /\ (mphase = "online" => to = mpos)
        BY <3>1
      <4>5. /\ mphase' \in {"online", "none"}
            /\ \E end \in Nat : /\ from <= end + 1 /\ end <= HistEnd' /\ fresh = HistUnits(from, end)
                                /\ mphase' = "online" => end = mpos'
        BY <3>2, <4>2, <4>3, <4>4, HistStep
      <4> QED BY <4>0, <4>1, <4>5
    <3>4. Follows(Tail(new))'
      BY <3>2, <3>3 DEF Follows
    <3>5. Continued(new)'
      BY <1>0, <2>1, <2>4, <3>4 DEF Continued
    <3> QED BY <3>5 DEF Answers
  <2> QED BY <2>2, <2>3, <2>4
<1>5. CASE FullSynced(old)
  <2>1. /\ old # <<>> /\ old[1].k = "fullresync" /\ old[1].r # NoRunId
        /\ Synced(Tail(old), old[1].n) /\ mode = "psync"
    BY <1>5 DEF FullSynced
  <2>2. \/ Cutting /\ new = <<>>
        \/ new # <<>> /\ new[1] = old[1] /\ Moves(Tail(old), Tail(new))
    BY <1>0, <2>1, MovesTail
  <2>3. CASE Cutting /\ new = <<>>
    <3>1. Lost(new)'
      BY <1>0, <2>3 DEF Lost, Cutting
    <3> QED BY <3>1 DEF Answers
  <2>4. CASE new # <<>> /\ new[1] = old[1] /\ Moves(Tail(old), Tail(new))
    <3>1. Tail(old) \in Seq(Unit)
      BY <2>1, TailUnits
    <3>2. Synced(Tail(new), old[1].n)'
      BY <2>1, <2>4, <3>1, SyncedStepAt
    <3>3. FullSynced(new)'
      BY <1>0, <2>1, <2>4, <3>2 DEF FullSynced
    <3> QED BY <3>3 DEF Answers
  <2> QED BY <2>2, <2>3, <2>4
<1>6. CASE Bulk(old)
  <2>1. PICK at \in Nat : Synced(old, at)
    BY <1>6 DEF Bulk
  <2>2. Synced(new, at)'
    BY <2>1, SyncedStepAt
  <2>3. Bulk(new)'
    BY <1>0, <1>6, <2>2 DEF Bulk
  <2> QED BY <2>3 DEF Answers
<1> QED BY <1>1, <1>2, <1>3, <1>4, <1>5, <1>6 DEF Answers

\* The answer to a request.
LEMMA RequestStep ==
    ASSUME TypeOK, MasterSteps, req.c # "none", mphase = "cmd", net = <<>>
    PROVE  \/ net' = <<>> /\ req' = req /\ mphase' = "cmd"
           \/ net' = <<>> /\ req'.c = "none" /\ mphase' = "none"
           \/ /\ req'.c = "none" /\ mphase' = "cmd"
              /\ \E u \in Unit : net' = <<u>> /\ (req.c \in {"PSYNC", "SYNC"} => u.k = "err")
           \/ MFullSync \/ MContinue
<1>1. CASE MReply
  <2>1. \A kind \in {"ok", "pong", "loading"} \cup CapaReplies : Mk(kind, 0) \in Unit
    BY MasterAssumption, UnitOf DEF ReplyKinds
  <2>2. PICK kind \in {"ok", "pong", "loading"} \cup CapaReplies : Answer(Mk(kind, 0))
    BY <1>1 DEF MReply
  <2>3. net' = <<Mk(kind, 0)>> /\ req'.c = "none"
    BY <2>2 DEF Answer, NoRequest, Request
  <2>4. req.c \notin {"PSYNC", "SYNC"} /\ mphase' = "cmd"
    BY <1>1 DEF MReply, Asked
  <2> QED BY <2>1, <2>3, <2>4
<1>2. CASE MRefuse
  <2>1. Mk("err", 0) \in Unit /\ Mk("err", 0).k = "err"
    BY UnitOf DEF ReplyKinds, Mk
  <2>2. net' = <<Mk("err", 0)>> /\ req'.c = "none" /\ mphase' = "cmd"
    BY <1>2 DEF MRefuse, Answer, NoRequest, Request
  <2> QED BY <2>1, <2>2
<1>3. CASE MSendRdb \/ MFlush \/ MKeepalive
  BY <1>3 DEF MSendRdb, MFlush, MKeepalive
<1>4. CASE MBoot \/ MLoaded \/ MWrite
  BY <1>4 DEF MBoot, MLoaded, MWrite
<1>5. CASE MDrop \/ MCrash
  <2>1. PICK kept \in 0 .. Len(net) : net' = SubSeq(net, 1, kept)
    BY <1>5 DEF MDrop, MCrash, Cut
  <2>2. Len(net) = 0
    OBVIOUS
  <2>3. net' = <<>>
    BY <2>1, <2>2
  <2>4. req'.c = "none" /\ mphase' = "none"
    BY <1>5 DEF MDrop, MCrash, Cut, NoRequest, Request
  <2> QED BY <2>3, <2>4
<1> QED BY <1>1, <1>2, <1>3, <1>4, <1>5 DEF MasterSteps

LEMMA SyncBegins ==
    ASSUME TypeOK, NEW at, at = HistEnd, mphase' = "bgsave", mpos' = at, HistEnd' = at
    PROVE  Synced(<<>>, at)'
<1>1. Wire(<<>>, at, 3, 0)
  BY DEF Wire
<1>2. at \in Nat /\ at % CmdUnits = 0
  BY HistEndIs
<1>3. at + Len(<<>>) - 3 <= at /\ Len(<<>>) < 3 - 0 - 2
  BY <1>2
<1>4. SyncedAt(<<>>, at, "bgsave", at, at)
  BY <1>1, <1>2, <1>3 DEF SyncedAt
<1> QED BY <1>4 DEF Synced

LEMMA AsksStep ==
    ASSUME TypeOK, TypeOK', MasterSteps, net = <<>>, Asks(<<>>), mode' = mode, runid' = runid,
           offset' = offset, NEW new, new = net'
    PROVE  Answers(new)'
<1>1. /\ req.c \in {"PSYNC", "SYNC"} /\ req.c = (IF mode = "psync" THEN "PSYNC" ELSE "SYNC")
      /\ mphase = "cmd" /\ (mode = "psync" => req.runid = runid /\ req.offset = offset)
  BY DEF Asks
<1>2. CASE net' = <<>> /\ req' = req /\ mphase' = "cmd"
  BY <1>1, <1>2 DEF Asks, Answers
<1>3. CASE net' = <<>> /\ req'.c = "none" /\ mphase' = "none"
  BY <1>3 DEF Lost, Answers
<1>4. CASE /\ req'.c = "none" /\ mphase' = "cmd"
           /\ \E u \in Unit : net' = <<u>> /\ (req.c \in {"PSYNC", "SYNC"} => u.k = "err")
  BY <1>1, <1>4, OneUnit DEF Refused, Answers, Away
<1>5. CASE MFullSync
  <2>1. mphase' = "bgsave" /\ mpos' = HistEnd /\ HistEnd' = HistEnd
    BY <1>5 DEF MFullSync, HistEnd
  <2>3. HistEnd \in Nat /\ mrun \in Nat \ {0}
    BY EndGrows DEF TypeOK, MasterTypeOK
  <2>0. PICK at \in Nat : at = HistEnd
    BY <2>3
  <2>2. Synced(<<>>, at)'
    BY <2>0, <2>1, SyncBegins
  <2>4. CASE mode = "psync"
    <3> DEFINE u == FullResync(mrun, HistEnd)
    <3>1. net' = <<u>> /\ req'.c = "none"
      BY <1>1, <1>5, <2>4 DEF MFullSync, Asked, Answer, NoRequest, Request
    <3>2. u \in Unit /\ u.k = "fullresync" /\ u.r # NoRunId /\ u.n = at
      BY <2>0, <2>3 DEF FullResync, Unit, ReplyKinds, NoRunId
    <3> HIDE DEF u
    <3>3. new # <<>> /\ new[1] = u /\ Tail(new) = <<>>
      BY <3>1, <3>2
    <3>4. FullSynced(new)'
      BY <2>2, <2>4, <3>1, <3>2, <3>3 DEF FullSynced
    <3> QED BY <3>4 DEF Answers
  <2>5. CASE mode # "psync"
    <3>1. new = <<>> /\ req'.c = "none"
      BY <1>1, <1>5, <2>5 DEF MFullSync, Asked, NoRequest, Request
    <3>2. Bulk(new)'
      BY <2>2, <2>3, <2>5, <3>1 DEF Bulk
    <3> QED BY <3>2 DEF Answers
  <2> QED BY <2>4, <2>5
<1>6. CASE MContinue
  <2>1. /\ req.c = "PSYNC" /\ req.runid = mrun /\ req.offset \in 1 .. HistEnd + 1
        /\ net' = <<Mk("continue", 0)>> /\ req'.c = "none"
        /\ mphase' = "online" /\ mpos' = req.offset - 1 /\ HistEnd' = HistEnd
    BY <1>6 DEF MContinue, Asked, Answer, NoRequest, Request, HistEnd
  <2>2. HistEnd \in Nat /\ mrun \in Nat \ {0}
    BY EndGrows DEF TypeOK, MasterTypeOK
  <2>3. mode = "psync" /\ runid # NoRunId /\ offset \in 1 .. HistEnd + 1 /\ mpos' = offset - 1
    BY <1>1, <2>1, <2>2 DEF NoRunId
  <2>4. Mk("continue", 0) \in Unit /\ Mk("continue", 0).k = "continue"
    BY UnitOf DEF ReplyKinds, Mk
  <2>5. new # <<>> /\ new[1].k = "continue" /\ Tail(new) = <<>>
    BY <2>1, <2>4
  <2>6. offset \in Nat \ {0} /\ offset - 1 \in Nat /\ offset <= (offset - 1) + 1 /\ offset - 1 <= HistEnd
    BY <2>2, <2>3
  <2>7. <<>> = HistUnits(offset, offset - 1)
    BY <2>6, HistNothing
  <2>8. Follows(<<>>)'
    BY <2>1, <2>3, <2>6, <2>7 DEF Follows
  <2>9. Continued(new)'
    BY <2>1, <2>3, <2>5, <2>8 DEF Continued
  <2> QED BY <2>9 DEF Answers
<1> QED BY <1>1, <1>2, <1>3, <1>4, <1>5, <1>6, RequestStep

LEMMA MasterCarries ==
    ASSUME TypeOK, TypeOK', Carried, Peer, MasterSteps, UNCHANGED serverVars
    PROVE  Carried'
<1> SUFFICES ASSUME NEW h \in Seq(Unit), NEW new \in Seq(Unit), Held(h)', new = h \o net'
             PROVE  Underway(new)'
  BY DEF Carried
<1>0. net \in Seq(Unit)
  BY DEF TypeOK, MasterTypeOK
<1>1. PICK old \in Seq(Unit) : old = h \o net
  BY <1>0, JoinUnits
<1>2. Underway(old)
  <2>1. Held(h)
    BY HeldSame
  <2> QED BY <1>1, <2>1 DEF Carried
<1>3. CASE req.c = "none"
  <2>1. Moves(old, new)
    <3>1. Moves(net, net')
      BY <1>3, MasterMoves
    <3>2. Moves(h \o net, h \o net')
      BY <3>1, MovesBehind
    <3> QED BY <1>1, <3>2
  <2>2. Greeting' => Greets(new)'
    BY <1>2, <1>3, <2>1, GreetsStep, PhaseSame DEF Underway
  <2>3. Resting' => Rests(new)'
    BY <1>2, <1>3, <2>1, GreetsStep, PhaseSame DEF Underway
  <2>4. Answering' => Answers(new)'
    BY <1>2, <1>3, <2>1, AnswersStep, PhaseSame DEF Underway
  <2>5. Receives' => Loads(new)'
    <3>1. req'.c = "none"
      BY <1>3, <2>1 DEF Moves, Quietly, Cutting, Sending
    <3> QED BY <1>2, <1>3, <2>1, <3>1, LoadsStep, PhaseSame DEF Underway
  <2> QED BY <2>2, <2>3, <2>4, <2>5 DEF Underway
<1>4. CASE req.c # "none"
  <2>1. ~Resting /\ ~Receives
    BY <1>2, <1>4 DEF Underway, Rests, Loads
  <2>2. (Asks(old) /\ mphase = "cmd") \/ ~Answering
    BY <1>2, <1>4 DEF Underway, Answers, Asks, Lost, Refused, Continued, FullSynced, Bulk
  <2>3. Greeting => mphase = "cmd" /\ old = <<>>
    BY <1>2, <1>4 DEF Underway, Greets, Away, Peer
  <2>4. CASE ~Greeting /\ ~Answering
    BY <2>1, <2>4, PhaseSame DEF Underway
  <2>5. CASE Greeting \/ Answering
    <3>1. old = <<>> /\ mphase = "cmd"
      BY <2>2, <2>3, <2>5 DEF Asks
    <3>2. Len(h) + Len(net) = 0
      <4>1. Len(h \o net) = Len(h) + Len(net) /\ h \o net = <<>>
        BY <1>0, <1>1, <3>1, JoinUnits
      <4> QED BY <4>1
    <3>3. h = <<>> /\ net = <<>>
      BY <1>0, <3>2
    <3>4. net' \in Seq(Unit)
      BY DEF TypeOK, MasterTypeOK
    <3>5. new = net'
      BY <3>3, <3>4, JoinNothing
    <3>6. CASE Greeting
      <4>1. ~Answering /\ req.c \notin {"PSYNC", "SYNC"}
        BY <3>6 DEF Greeting, Answering, Peer
      <4>2. ~MFullSync /\ ~MContinue
        BY <4>1 DEF MFullSync, MContinue, Asked
      <4>3. \/ new = <<>> /\ (mphase' = "cmd" \/ mphase' = "none")
            \/ mphase' = "cmd" /\ req'.c = "none" /\ \E u \in Unit : new = <<u>>
        BY <1>4, <3>1, <3>3, <3>5, <4>2, RequestStep
      <4>4. Len(new) <= 1
        <5>1. new = <<>> => Len(new) = 0
          OBVIOUS
        <5>2. ASSUME NEW u \in Unit, new = <<u>> PROVE Len(new) = 1
          BY <5>2, OneUnit
        <5> QED BY <4>3, <5>1, <5>2
      <4>5. Greets(new)'
        BY <4>3, <4>4 DEF Greets, Away
      <4> QED BY <2>1, <4>1, <4>5, PhaseSame DEF Underway
    <3>7. CASE Answering
      <4>1. ~Greeting
        BY <3>7 DEF Greeting, Answering
      <4>2. Answers(new)'
        BY <2>2, <3>1, <3>3, <3>5, <3>7, AsksStep, PhaseSame
      <4> QED BY <2>1, <4>1, <4>2, PhaseSame DEF Underway
    <3> QED BY <2>5, <3>6, <3>7
  <2> QED BY <2>4, <2>5
<1> QED BY <1>3, <1>4

LEMMA MasterFlows ==
    ASSUME TypeOK, TypeOK', Flows, MasterSteps, UNCHANGED serverVars
    PROVE  Flows'
<1> SUFFICES ASSUME state = "stream" PROVE Flows'
  BY PhaseSame DEF Flows
<1>1. mb' = mb /\ buffer' = buffer /\ offset' = offset /\ mode' = mode /\ fed' = fed
      /\ tainted' = tainted /\ state' = state
  BY DEF serverVars, procVars, stateVars, ghostVars
<1>2. PICK first \in Nat, last \in Nat :
          /\ Spans(mb, first, last)
          /\ Ahead(net, last)
          /\ "stale" \notin tainted => Buffered(first)
  BY DEF Flows
<1>3. req.c = "none" /\ mpos \in Nat
  BY DEF Flows, TypeOK, MasterTypeOK
<1>5. Moves(net, net') /\ req'.c = "none"
  <2>1. Moves(net, net')
    BY <1>3, MasterMoves
  <2> QED BY <1>3, <2>1 DEF Moves, Quietly, Cutting, Sending
<1>6. PICK to \in Nat : /\ last <= to /\ to <= HistEnd /\ net = HistUnits(last + 1, to)
                        /\ mphase = "online" => to = mpos
  BY <1>2 DEF Ahead
<1>7. last + 1 \in Nat \ {0} /\ last + 1 <= to + 1 /\ mphase \in {"online", "none"}
  BY <1>2, <1>6 DEF Ahead
<1>8. /\ mphase' \in {"online", "none"}
      /\ \E end \in Nat : /\ last + 1 <= end + 1 /\ end <= HistEnd' /\ net' = HistUnits(last + 1, end)
                          /\ mphase' = "online" => end = mpos'
  BY <1>3, <1>5, <1>6, <1>7, EndGrows, HistStep
<1>9. Ahead(net, last)'
  BY <1>8 DEF Ahead
<1>10. ("stale" \notin tainted => Buffered(first))'
  BY <1>1, <1>2 DEF Buffered, Position
<1> QED BY <1>1, <1>2, <1>5, <1>9, <1>10 DEF Flows

LEMMA MasterPeer ==
    ASSUME TypeOK, TypeOK', Peer, MasterSteps, UNCHANGED serverVars
    PROVE  Peer'
<1>0. where' = where /\ mb' = mb
  BY DEF serverVars, procVars
<1>1. peerOpen' <=> mphase' # "none"
  <2>1. CASE MReply \/ MRefuse \/ MFlush \/ MWrite \/ MBoot \/ MLoaded \/ MKeepalive
    <3>1. peerOpen' = peerOpen /\ mphase' = mphase
      BY <2>1 DEF MReply, MRefuse, MFlush, MWrite, MBoot, MLoaded, MKeepalive
    <3>2. peerOpen <=> mphase # "none"
      BY DEF Peer
    <3> QED BY <3>1, <3>2, Zenon
  <2>2. CASE MFullSync \/ MContinue \/ MSendRdb
    <3>1. peerOpen /\ peerOpen' = peerOpen /\ (mphase' = "bgsave" \/ mphase' = "online")
      BY <2>2 DEF MFullSync, MContinue, MSendRdb, Asked
    <3> QED BY <3>1
  <2>3. CASE MDrop \/ MCrash
    <3>1. ~peerOpen' /\ mphase' = "none"
      BY <2>3 DEF MDrop, MCrash, Cut
    <3> QED BY <3>1
  <2> QED BY <2>1, <2>2, <2>3 DEF MasterSteps
<1>2. req' = req \/ req'.c = "none"
  BY DEF MasterSteps, MReply, MRefuse, MFlush, MWrite, MBoot, MLoaded, MKeepalive, MFullSync,
         MContinue, MSendRdb, MDrop, MCrash, Cut, Answer, NoRequest, Request
<1>3. ~peerOpen' => req'.c = "none"
  <2>1. ~peerOpen' => ~peerOpen \/ req'.c = "none"
    BY DEF MasterSteps, MReply, MRefuse, MFlush, MWrite, MBoot, MLoaded, MKeepalive, MFullSync,
           MContinue, MSendRdb, MDrop, MCrash, Cut, NoRequest, Request
  <2> QED BY <1>2, <2>1 DEF Peer
<1>4. req'.c \in {"PSYNC", "SYNC"} => Answering'
  BY <1>2, PhaseSame DEF Peer
<1>5. ASSUME where \in {"reAuth", "rePing"}
      PROVE  Away' /\ ~MFullSync /\ ~MContinue
  <2>1. req.c \notin {"PSYNC", "SYNC"} /\ Away
    BY <1>5 DEF Peer, Answering
  <2>2. ~MFullSync /\ ~MContinue /\ ~MSendRdb
    BY <2>1 DEF MFullSync, MContinue, MSendRdb, Asked, Away
  <2>3. mphase' = mphase \/ mphase' = "none"
    BY <2>2 DEF MasterSteps, MReply, MRefuse, MFlush, MWrite, MBoot, MLoaded, MKeepalive, MDrop,
                MCrash, Cut
  <2> QED BY <2>1, <2>2, <2>3 DEF Away
<1>6. ASSUME where = "rePing"
      PROVE  /\ \A k \in DOMAIN net' : net'[k].k = "pong" => k = Len(net') /\ req'.c = "none"
             /\ \A i \in DOMAIN mb' : RecvResult(mb'[i]) = "pong" => net' = <<>> /\ req'.c = "none"
  <2>0. net \in Seq(Unit) /\ net' \in Seq(Unit) /\ Len(net) \in Nat
    BY DEF TypeOK, MasterTypeOK
  <2>1. /\ \A k \in DOMAIN net : net[k].k = "pong" => k = Len(net) /\ req.c = "none"
        /\ \A i \in DOMAIN mb : RecvResult(mb[i]) = "pong" => net = <<>> /\ req.c = "none"
        /\ Away
    BY <1>6 DEF Peer
  <2>2. ASSUME NEW kept \in 0 .. Len(net), net' = SubSeq(net, 1, kept), req'.c = "none"
        PROVE  /\ \A k \in DOMAIN net' : net'[k].k = "pong" => k = Len(net')
               /\ net = <<>> => net' = <<>>
    <3>1. Len(net') = kept /\ \A k \in 1 .. kept : net'[k] = net[k]
      BY <2>0, <2>2, FrontUnits
    <3>2. DOMAIN net' = 1 .. kept /\ DOMAIN net = 1 .. Len(net)
      BY <2>0, <3>1
    <3> QED BY <2>0, <2>1, <3>1, <3>2
  <2>3. CASE net' = net /\ (req' = req \/ req'.c = "none")
    BY <1>0, <2>1, <2>3
  <2>4. CASE MDrop \/ MCrash
    <3>1. PICK kept \in 0 .. Len(net) : net' = SubSeq(net, 1, kept)
      BY <2>4 DEF MDrop, MCrash, Cut
    <3>2. req'.c = "none"
      BY <2>4 DEF MDrop, MCrash, Cut, NoRequest, Request
    <3> QED BY <1>0, <2>1, <2>2, <3>1, <3>2
  <2>5. CASE MReply \/ MRefuse
    <3>1. req.c # "none"
      BY <2>5 DEF MReply, MRefuse, Asked
    <3>2. PICK u : net' = Append(net, u) /\ req'.c = "none"
      BY <2>5 DEF MReply, MRefuse, Answer, NoRequest, Request
    <3>3. \A k \in DOMAIN net : net[k].k # "pong"
      BY <2>1, <3>1
    <3>4. Len(net') = Len(net) + 1 /\ \A k \in DOMAIN net' : k = Len(net') \/ (k \in DOMAIN net /\ net'[k] = net[k])
      BY <2>0, <3>2
    <3> QED BY <1>0, <2>1, <3>1, <3>2, <3>3, <3>4
  <2>6. CASE MSendRdb \/ MFlush \/ MKeepalive
    BY <2>1, <2>6 DEF MSendRdb, MFlush, MKeepalive, Away
  <2>7. MBoot \/ MLoaded \/ MWrite => net' = net /\ req' = req
    BY DEF MBoot, MLoaded, MWrite
  <2> QED BY <1>5, <1>6, <2>3, <2>4, <2>5, <2>6, <2>7 DEF MasterSteps
<1> QED BY <1>0, <1>1, <1>3, <1>4, <1>5, <1>6 DEF Peer

LEMMA CourseMaster ==
    ASSUME TypeOK, TypeOK', Course, MasterSteps, UNCHANGED serverVars
    PROVE  Course'
<1>1. Carried' /\ Peer' /\ Flows'
  BY MasterCarries, MasterPeer, MasterFlows DEF Course
<1>2. where' = where /\ mb' = mb /\ fed' = fed /\ tainted' = tainted /\ acked' = acked /\ buffer' = buffer
  BY DEF serverVars, procVars, stateVars, ghostVars
<1>3. Reads' /\ Books'
  BY <1>2, PhaseSame DEF Course, Reads, Books
<1>4. Known'
  BY <1>2, PhaseSame DEF Course, Known
<1> QED BY <1>1, <1>3, <1>4 DEF Course

-----------------------------------------------------------------------------
(* What the server holds after a step of its own.                           *)

LEMMA HeldAdd ==
    ASSUME TypeOK, NEW m \in Message, mb' = Append(mb, m), m.t \notin Casts, m.t # "tcp",
           where' = where, state' = state, file' = file, NEW h, Held(h)'
    PROVE  Held(h)
<1>1. mb \in Seq(Message)
  BY DEF TypeOK, ServerTypeOK
<1>2. NoneOf(mb', {"tcp"}) => NoneOf(mb, {"tcp"})
  BY <1>1, AddOne DEF NoneOf
<1>3. \A i \in DOMAIN mb' : (i \in DOMAIN mb /\ mb'[i] = mb[i]) \/ mb'[i] = m
  BY <1>1, AddOne
<1> QED BY <1>2, <1>3 DEF Held, Kept, CastHead

LEMMA HeldDrop ==
    ASSUME TypeOK, mb # <<>>, where = "idle", where' = "idle", mb' = Tail(mb), file' = file,
           NEW h, Held(h)'
    PROVE  Held(h)
<1>1. \A i \in DOMAIN mb' : \E j \in DOMAIN mb : mb'[i] = mb[j]
  BY TailMessages DEF TypeOK, ServerTypeOK
<1>2. PICK i \in DOMAIN mb' : mb'[i].t \in Casts /\ h = CastHead(mb[i])'
  BY DEF Held
<1>3. PICK j \in DOMAIN mb : mb'[i] = mb[j]
  BY <1>1, <1>2
<1>4. mb[j].t \in Casts /\ h = CastHead(mb[j])
  BY <1>2, <1>3 DEF CastHead
<1> QED BY <1>4 DEF Held

LEMMA HeldCast ==
    ASSUME TypeOK, mb # <<>>, NEW m \in Message, Continue(<<m>>), NoneOf(Tail(mb), Casts),
           NEW h, Held(h)'
    PROVE  /\ m.t = "save_rdb" => h = (IF m.n = 0 THEN m.data ELSE file' \o m.data)
           /\ m.t = "load_rdb" => h = file'
           /\ m.t \notin {"save_rdb", "load_rdb"} => h = <<>>
<1>1. Tail(mb) \in Seq(Message)
  BY HeadParts
<1>2. mb' = Append(Tail(mb), m) /\ where' = "idle"
  BY <1>1, AddOne DEF Continue
<1>3. \A i \in DOMAIN mb' : mb'[i].t \in Casts => mb'[i] = m
  BY <1>1, <1>2, AddFirst
<1> QED BY <1>2, <1>3 DEF Held, CastHead

LEMMA HeldWait ==
    ASSUME where' # "idle", NoneOf(mb', {"tcp"}), NEW h, Held(h)'
    PROVE  h = (IF where' = "reply" /\ state' = "buffering" THEN file' ELSE <<>>)
BY DEF Held, Kept, NoneOf

\* The cast that the loop handles, and the reply that recv_sock/1 takes, are the only
\* ones there are.
LEMMA TookCast ==
    ASSUME IInv, where = "idle", mb # <<>>, Head(mb).t \in Casts,
           state \notin {"stream", "reconnect"}
    PROVE  /\ Held(CastHead(Head(mb)))
           /\ NoneOf(Tail(mb), Casts)
           /\ NoneOf(Tail(mb), SocketMsgs)
<1>1. mb \in Seq(Message) /\ AtMostOne(mb, Casts) /\ NoneOf(mb, SocketMsgs)
  BY DEF IInv, TypeOK, ServerTypeOK, NeverWedged, SocketOK
<1>2. Head(mb) = mb[1] /\ 1 \in DOMAIN mb
  BY <1>1, TailMessages
<1> QED BY <1>1, <1>2, TailNone, TailOfOnly DEF Held

LEMMA TookReply ==
    ASSUME IInv, where \in Receiving, state # "reconnect", mb # <<>>, Head(mb).t = "tcp"
    PROVE  /\ Held(Kept \o Head(mb).data)
           /\ NoneOf(Tail(mb), Casts)
           /\ NoneOf(Tail(mb), SocketMsgs)
<1>1. mb \in Seq(Message) /\ where # "idle"
  BY DEF IInv, TypeOK, ServerTypeOK, Receiving
<1>2. AtMostOne(mb, SocketMsgs) /\ NoneOf(mb, Casts)
  BY <1>1 DEF IInv, NeverWedged, SocketOK
<1>3. Head(mb) = mb[1] /\ 1 \in DOMAIN mb
  BY <1>1, TailMessages
<1>4. Head(mb).t \in SocketMsgs
  BY DEF SocketMsgs
<1> QED BY <1>1, <1>2, <1>3, <1>4, TailNone, TailOfOnly DEF Held

LEMMA NoSocket == ASSUME NEW box, NoneOf(box, SocketMsgs) PROVE NoneOf(box, {"tcp"})
BY DEF NoneOf, SocketMsgs

LEMMA ReplyIs ==
    ASSUME TypeOK, mb # <<>>, Result # "error"
    PROVE  /\ Head(mb).t = "tcp"
           /\ Head(mb).data \in Seq(Unit)
           /\ Result = ChunkResult(Head(mb).data)
BY HeadParts DEF Result, RecvResult

LEMMA LineIs ==
    ASSUME NEW chunk, ChunkResult(chunk) \notin {"load_stream", "load_buffer"}
    PROVE  /\ chunk # <<>>
           /\ ChunkResult(chunk) = "continue" => chunk[1].k = "continue"
           /\ ChunkResult(chunk) = "fullresync" => chunk[1].k = "fullresync"
           /\ ChunkResult(chunk) = "pong" => chunk[1].k = "pong"
BY DEF ChunkResult, ReplyResult

LEMMA DataIs ==
    ASSUME NEW chunk, ChunkResult(chunk) \in {"load_stream", "load_buffer"}, chunk # <<>>
    PROVE  chunk[1].k \notin {"continue", "fullresync", "err"}
BY DEF ChunkResult, ReplyResult

-----------------------------------------------------------------------------
(* Parts of Course after a step of the server.                              *)

LEMMA CarriesNothing ==
    ASSUME ~Greeting', ~Resting', ~Answering', ~Receives'
    PROVE  Carried'
BY DEF Carried, Underway

LEMMA CarriesGreeting ==
    ASSUME where' # "idle", NoneOf(mb', {"tcp"}), net' = <<>>, Away', ~Answering', ~Receives'
    PROVE  Carried'
<1> SUFFICES ASSUME NEW h \in Seq(Unit), NEW new \in Seq(Unit), Held(h)', new = h \o net'
             PROVE  Underway(new)'
  BY DEF Carried
<1>1. h = <<>>
  BY HeldWait DEF Receives
<1>2. new = <<>>
  BY <1>1, EmptySeqs, JoinNothing
<1>3. Greets(new)' /\ ~Resting'
  BY <1>2 DEF Greets, Resting
<1> QED BY <1>3 DEF Underway

LEMMA CarriesRest ==
    ASSUME TypeOK, mb # <<>>, NEW m \in Message, Continue(<<m>>), NoneOf(Tail(mb), Casts),
           m.t \notin {"save_rdb", "load_rdb"}, net' = <<>>, Away', req'.c = "none", ~Receives'
    PROVE  Carried'
<1> SUFFICES ASSUME NEW h \in Seq(Unit), NEW new \in Seq(Unit), Held(h)', new = h \o net'
             PROVE  Underway(new)'
  BY DEF Carried
<1>1. h = <<>> /\ where' = "idle"
  BY HeldCast DEF Continue
<1>2. new = <<>>
  BY <1>1, EmptySeqs, JoinNothing
<1>3. Rests(new)' /\ ~Greeting' /\ ~Answering'
  BY <1>1, <1>2 DEF Rests, Greeting, Answering
<1> QED BY <1>3 DEF Underway

LEMMA PeerSame ==
    ASSUME Peer, peerOpen' = peerOpen, mphase' = mphase, req' = req,
           where' \notin {"reAuth", "rePing"},
           req.c \in {"PSYNC", "SYNC"} => Answering'
    PROVE  Peer'
<1>1. peerOpen' <=> mphase' # "none"
  BY Zenon DEF Peer
<1>2. ~peerOpen' => req'.c = "none"
  BY Zenon DEF Peer
<1> QED BY <1>1, <1>2 DEF Peer

LEMMA PeerGone ==
    ASSUME Hangup, where' \notin {"reAuth", "rePing"}
    PROVE  Peer'
<1>1. ~peerOpen' /\ mphase' = "none" /\ req'.c = "none"
  BY DEF Hangup, NoRequest, Request
<1> QED BY <1>1 DEF Peer

LEMMA PeerSent ==
    ASSUME Peer, NEW request, Send(request), where' \notin {"reAuth", "rePing"},
           request.c \in {"PSYNC", "SYNC"} => Answering', req.c \notin {"PSYNC", "SYNC"}
    PROVE  Peer'
<1>1. peerOpen' = peerOpen /\ mphase' = mphase /\ req' = (IF peerOpen THEN request ELSE req)
  BY DEF Send
<1>2. peerOpen' <=> mphase' # "none"
  BY <1>1, Zenon DEF Peer
<1>3. ~peerOpen' => req'.c = "none"
  BY <1>1 DEF Peer
<1>4. req'.c \in {"PSYNC", "SYNC"} => Answering'
  BY <1>1
<1> QED BY <1>2, <1>3, <1>4 DEF Peer

\* The casts that choose the kind of synchronisation are the mode's.
ModesOK(box, kind) == \A i \in DOMAIN box : box[i].t \in {"psync", "sync"} => box[i].t = kind

LEMMA ModesTail ==
    ASSUME TypeOK, mb # <<>>, Books
    PROVE  ModesOK(Tail(mb), mode)
BY TailMessages DEF Books, ModesOK, TypeOK, ServerTypeOK

LEMMA ModesAdd ==
    ASSUME NEW box \in Seq(Message), NEW kind, ModesOK(box, kind), NEW m \in Message,
           m.t \in {"psync", "sync"} => m.t = kind
    PROVE  ModesOK(Append(box, m), kind)
BY AddOne DEF ModesOK

LEMMA ModesCast ==
    ASSUME TypeOK, mb # <<>>, Books, NEW m \in Message, Continue(<<m>>), mode' = mode,
           m.t \in {"psync", "sync"} => m.t = mode
    PROVE  ModesOK(mb', mode')
<1>1. Tail(mb) \in Seq(Message)
  BY HeadParts
<1>2. mb' = Append(Tail(mb), m)
  BY <1>1, AddOne DEF Continue
<1> QED BY <1>1, <1>2, ModesTail, ModesAdd

LEMMA BooksKept ==
    ASSUME Books, fed' = fed, runid' = runid, buffer' = buffer, acked' = acked, tainted' = tainted,
           mode' = mode, ModesOK(mb', mode'),
           state' \in {"undefined", "list", "eof"} => state \in {"undefined", "list", "eof"},
           state' = "undefined" => state = "undefined",
           state' \in {"payload", "buffering", "stream"} /\ mode = "psync" => runid # NoRunId,
           state' \notin {"stream", "reconnect"} =>
               state \notin {"stream", "reconnect"} /\ where # "down"
    PROVE  Books'
BY DEF Books, ModesOK

LEMMA KnownKept ==
    ASSUME Known, fed' = fed, runid' = runid, offset' = offset, tainted' = tainted, mode' = mode,
           Receives => Receives'
    PROVE  Known'
BY DEF Known

LEMMA CourseDie ==
    ASSUME Course, Die
    PROVE  Course'
<1>1. /\ where' = "down" /\ state' = "undefined" /\ mb' = <<>> /\ runid' = NoRunId /\ buffer' = <<>>
      /\ fed' = fed /\ tainted' = tainted /\ acked' = acked /\ Hangup
  BY DEF Die, ghostVars
<1>2. Carried'
  BY <1>1, CarriesNothing DEF Greeting, Resting, Answering, Receives
<1>3. Peer'
  BY <1>1, PeerGone
<1>4. Books'
  BY <1>1 DEF Course, Books
<1>5. Reads' /\ Known' /\ Flows'
  BY <1>1 DEF Reads, Known, Flows
<1> QED BY <1>2, <1>3, <1>4, <1>5 DEF Course

LEMMA CourseStop == ASSUME Course, Stop PROVE Course'
BY CourseDie DEF Stop

-----------------------------------------------------------------------------
(* Connecting and the handshake.                                            *)

\* The only unit under way is the answer that is taken.
LEMMA GreetsTaken ==
    ASSUME IInv, Course, Greeting, mb # <<>>,
           Result \notin {"error", "load_stream", "load_buffer"}
    PROVE  /\ net = <<>> /\ req.c = "none" /\ Away
           /\ NoneOf(Tail(mb), Casts) /\ NoneOf(Tail(mb), {"tcp"}) /\ state # "reconnect"
<1>0. TypeOK /\ net \in Seq(Unit)
  BY DEF IInv, TypeOK, MasterTypeOK
<1>1. where \in Receiving /\ state \notin {"reconnect", "buffering"}
  BY DEF IInv, PlaceOK, Greeting, Receiving
<1>2. /\ Head(mb).t = "tcp" /\ Head(mb).data \in Seq(Unit) /\ Head(mb).data # <<>>
  BY <1>0, ReplyIs, LineIs
<1>3. PICK data \in Seq(Unit) : data = Head(mb).data /\ data # <<>>
  BY <1>2
<1>4. Held(Kept \o data) /\ NoneOf(Tail(mb), Casts) /\ NoneOf(Tail(mb), SocketMsgs)
  BY <1>1, <1>2, <1>3, TookReply
<1>5. Kept \o data = data
  BY <1>1, JoinNothing DEF Kept
<1>6. data \o net \in Seq(Unit) /\ Len(data \o net) = Len(data) + Len(net)
  BY <1>0, JoinUnits
<1>7. Greets(data \o net)
  BY <1>4, <1>5, <1>6 DEF Course, Carried, Underway
<1>8. Len(data) \in Nat \ {0} /\ Len(net) \in Nat
  BY <1>0, <1>3
<1>9. Len(net) = 0 /\ Len(data \o net) # 0
  BY <1>6, <1>7, <1>8 DEF Greets
<1>10. net = <<>> /\ data \o net # <<>>
  BY <1>0, <1>9
<1> QED BY <1>1, <1>4, <1>7, <1>10, NoSocket DEF Greets

LEMMA RestsTaken ==
    ASSUME IInv, Course, Resting, mb # <<>>, Head(mb).t \in Casts,
           Head(mb).t \notin {"save_rdb", "load_rdb"}
    PROVE  /\ net = <<>> /\ req.c = "none" /\ Away
           /\ NoneOf(Tail(mb), Casts) /\ NoneOf(Tail(mb), {"tcp"})
<1>0. net \in Seq(Unit)
  BY DEF IInv, TypeOK, MasterTypeOK
<1>1. Held(CastHead(Head(mb))) /\ NoneOf(Tail(mb), Casts) /\ NoneOf(Tail(mb), SocketMsgs)
  BY TookCast DEF Resting
<1>2. CastHead(Head(mb)) = <<>>
  BY DEF CastHead
<1>3. <<>> \o net = net /\ <<>> \in Seq(Unit)
  BY <1>0, JoinNothing, EmptySeqs
<1>4. Rests(net)
  BY <1>0, <1>1, <1>2, <1>3 DEF Course, Carried, Underway
<1> QED BY <1>1, <1>4, NoSocket DEF Rests

\* A step that leaves the server in its loop, at rest, with a cast to itself.
LEMMA RestIs ==
    ASSUME IInv, Course, mb # <<>>, NEW m \in Message, Continue(<<m>>),
           net' = <<>>, Away, req.c = "none", NoneOf(Tail(mb), Casts),
           m.t \notin {"save_rdb", "load_rdb"},
           peerOpen' = peerOpen, mphase' = mphase, req' = req, ~Receives, ~Receives', state' # "stream"
    PROVE  /\ Carried' /\ Peer' /\ Reads' /\ Flows'
<1>1. where' = "idle"
  BY DEF Continue
<1>2. Carried'
  BY CarriesRest DEF IInv, Away
<1>3. Peer'
  BY <1>1, PeerSame DEF Course
<1> QED BY <1>1, <1>2, <1>3 DEF Reads, Flows

LEMMA CourseAsk ==
    ASSUME IInv, Course, Resting, mb # <<>>, Head(mb).t \in Casts,
           Head(mb).t \notin {"save_rdb", "load_rdb"}, state # "load",
           NEW request, request.c \notin {"PSYNC", "SYNC"}, AskOrFail(request)
    PROVE  Course'
<1>1. CASE Stop
  BY <1>1, CourseStop
<1>2. CASE Ask(request)
  <2>1. /\ net = <<>> /\ req.c = "none" /\ Away
        /\ NoneOf(Tail(mb), Casts) /\ NoneOf(Tail(mb), {"tcp"})
    BY RestsTaken
  <2>2. /\ where' = "reply" /\ mb' = Tail(mb) /\ Send(request)
        /\ state' = state /\ mode' = mode /\ runid' = runid /\ offset' = offset /\ buffer' = buffer
        /\ fed' = fed /\ tainted' = tainted /\ acked' = acked
    BY <1>2 DEF Ask, stateVars, ghostVars
  <2>3. net' = net /\ mphase' = mphase
    BY <2>2 DEF Send
  <2>4. ~Answering' /\ ~Receives' /\ state' # "stream" /\ state \notin {"undefined", "reconnect", "stream"}
    BY <2>2 DEF Resting, Answering, Receives
  <2>5. Carried'
    BY <2>1, <2>2, <2>3, <2>4, CarriesGreeting DEF Away
  <2>6. Peer'
    BY <2>1, <2>2, PeerSent DEF Course
  <2>7. Reads' /\ Flows'
    BY <2>1, <2>2, <2>4 DEF Reads, Flows, NoneOf
  <2>8. Books'
    BY <2>2, <2>4, ModesTail, BooksKept DEF Course, IInv, Resting
  <2>9. Known'
    BY <2>2, KnownKept DEF Course, Receives
  <2> QED BY <2>5, <2>6, <2>7, <2>8, <2>9 DEF Course
<1> QED BY <1>1, <1>2 DEF AskOrFail

LEMMA CourseStart == ASSUME IInv, Course, Start PROVE Course'
<1>1. /\ where = "down" /\ where' = "boot" /\ mb' = mb /\ UNCHANGED masterVars /\ fed' = 0
      /\ tainted' = {} /\ acked' = -1
      /\ state' = state /\ mode' = mode /\ runid' = runid /\ offset' = offset /\ buffer' = buffer
  BY DEF Start, stateVars
<1>2. state = "undefined" /\ mb = <<>>
  BY <1>1 DEF IInv, PlaceOK
<1>3. Carried'
  BY <1>1, <1>2, CarriesNothing DEF Greeting, Resting, Answering, Receives
<1>4. Peer'
  <2>1. req.c \notin {"PSYNC", "SYNC"}
    BY <1>1 DEF Course, Peer, Answering
  <2> QED BY <1>1, <2>1, PeerSame DEF masterVars, Course
<1>5. Reads' /\ Flows'
  BY <1>1, <1>2 DEF Reads, Flows
<1>6. Books'
  BY <1>1, <1>2 DEF Books, Course
<1>7. Known'
  BY <1>1, <1>2 DEF Course, Books, Known
<1> QED BY <1>3, <1>4, <1>5, <1>6, <1>7 DEF Course

LEMMA CourseBoot ==
    ASSUME IInv, Course,
           BootRefused \/ Boot \/ BootAuthOk \/ BootPong \/ BootLoading \/ BootFailed
    PROVE  Course'
<1>1. CASE BootRefused \/ BootFailed
  BY <1>1, CourseStop DEF BootRefused, BootFailed
<1>2. CASE Boot
  <2>1. /\ where = "boot" /\ where' \in {"bootAuth", "bootPing"} /\ mb' = mb /\ Open(FirstRequest)
        /\ state' = state /\ mode' = mode /\ runid' = runid /\ offset' = offset /\ buffer' = buffer
        /\ fed' = fed /\ tainted' = tainted /\ acked' = acked
    BY <1>2 DEF Boot, stateVars, ghostVars
  <2>2. state = "undefined" /\ NoneOf(mb, SocketMsgs)
    BY <2>1 DEF IInv, PlaceOK, SocketOK
  <2>3. ~Answering' /\ ~Receives' /\ where' # "idle"
    BY <2>1, <2>2 DEF Answering, Receives
  <2>4. net' = <<>> /\ mphase' = "cmd" /\ peerOpen' /\ req'.c \in {"AUTH", "PING"}
    BY <2>1 DEF Open, FirstRequest, Request
  <2>5. Carried'
    BY <2>1, <2>2, <2>3, <2>4, NoSocket, CarriesGreeting DEF Away
  <2>6. Peer'
    BY <2>1, <2>4 DEF Peer
  <2>7. Reads' /\ Flows'
    BY <2>1, <2>2 DEF Reads, Flows
  <2>8. Books'
    BY <2>1, <2>2 DEF Course, Books
  <2>9. Known'
    BY <2>1, KnownKept DEF Course, Receives
  <2> QED BY <2>5, <2>6, <2>7, <2>8, <2>9 DEF Course
<1>3. CASE BootAuthOk
  <2>1. /\ where = "bootAuth" /\ mb # <<>> /\ Result \in {"psync", "sync"}
        /\ where' = "bootPing" /\ mb' = Tail(mb) /\ Send(Request("PING"))
        /\ state' = state /\ mode' = mode /\ runid' = runid /\ offset' = offset /\ buffer' = buffer
        /\ fed' = fed /\ tainted' = tainted /\ acked' = acked
    BY <1>3 DEF BootAuthOk, Received, Authenticated, stateVars, ghostVars
  <2>2. state = "undefined" /\ Greeting
    BY <2>1 DEF IInv, PlaceOK, Greeting
  <2>3. /\ net = <<>> /\ req.c = "none" /\ Away
        /\ NoneOf(Tail(mb), Casts) /\ NoneOf(Tail(mb), {"tcp"})
    BY <2>1, <2>2, GreetsTaken
  <2>4. ~Answering' /\ ~Receives' /\ where' # "idle"
    BY <2>1, <2>2 DEF Answering, Receives
  <2>5. Carried'
    BY <2>1, <2>3, <2>4, CarriesGreeting DEF Away, Send
  <2>6. Peer'
    BY <2>1, <2>3, PeerSent DEF Course, Request
  <2>7. Reads' /\ Flows'
    BY <2>1, <2>2 DEF Reads, Flows
  <2>8. Books'
    BY <2>1, <2>2, ModesTail, BooksKept DEF Course, IInv
  <2>9. Known'
    BY <2>1, KnownKept DEF Course, Receives
  <2> QED BY <2>5, <2>6, <2>7, <2>8, <2>9 DEF Course
<1>4. CASE BootPong
  <2> DEFINE m == Plain("repl")
  <2>1. /\ where = "bootPing" /\ mb # <<>> /\ Result = "pong"
        /\ state' = "list" /\ Continue(<<m>>) /\ UNCHANGED masterVars
        /\ mode' = mode /\ runid' = runid /\ offset' = offset /\ buffer' = buffer
        /\ fed' = fed /\ tainted' = tainted /\ acked' = acked
    BY <1>4 DEF BootPong, Received, ghostVars
  <2>2. state = "undefined" /\ Greeting
    BY <2>1 DEF IInv, PlaceOK, Greeting
  <2>3. /\ net = <<>> /\ req.c = "none" /\ Away /\ NoneOf(Tail(mb), Casts)
    BY <2>1, <2>2, GreetsTaken
  <2>4. m \in Message /\ m.t = "repl"
    BY PlainMessage DEF Casts
  <2> HIDE DEF m
  <2>5. Carried' /\ Peer' /\ Reads' /\ Flows'
    BY <2>1, <2>2, <2>3, <2>4, RestIs DEF Receives, masterVars
  <2>6. Books'
    BY <2>1, <2>2, <2>4, ModesCast, BooksKept DEF Course, IInv
  <2>7. Known'
    BY <2>1, <2>2, KnownKept DEF Course, Receives
  <2> QED BY <2>5, <2>6, <2>7 DEF Course
<1>5. CASE BootLoading
  <2>1. /\ where = "bootPing" /\ mb # <<>> /\ Result = "loading"
        /\ where' = "boot" /\ mb' = Tail(mb) /\ UNCHANGED masterVars
        /\ state' = state /\ mode' = mode /\ runid' = runid /\ offset' = offset /\ buffer' = buffer
        /\ fed' = fed /\ tainted' = tainted /\ acked' = acked
    BY <1>5 DEF BootLoading, Received, stateVars, ghostVars
  <2>2. state = "undefined" /\ req.c \notin {"PSYNC", "SYNC"}
    BY <2>1 DEF IInv, PlaceOK, Course, Peer, Answering
  <2>3. Carried'
    BY <2>1, <2>2, CarriesNothing DEF Greeting, Resting, Answering, Receives
  <2>4. Peer'
    BY <2>1, <2>2, PeerSame DEF Course, masterVars
  <2>5. Reads' /\ Flows'
    BY <2>1, <2>2 DEF Reads, Flows
  <2>6. Books'
    BY <2>1, <2>2, ModesTail, BooksKept DEF Course, IInv
  <2>7. Known'
    BY <2>1, KnownKept DEF Course, Receives
  <2> QED BY <2>3, <2>4, <2>5, <2>6, <2>7 DEF Course
<1> QED BY <1>1, <1>2, <1>3, <1>4, <1>5

\* PSYNC or SYNC goes out, as the mode says.
LEMMA CourseRequest ==
    ASSUME IInv, Course, where = "idle", state = "load", mb # <<>>, Head(mb).t \in {"psync", "sync"},
           NEW request, request.c = (IF Head(mb).t = "psync" THEN "PSYNC" ELSE "SYNC"),
           Head(mb).t = "psync" => request.runid = runid /\ request.offset = offset,
           AskOrFail(request)
    PROVE  Course'
<1>1. CASE Stop
  BY <1>1, CourseStop
<1>2. CASE Ask(request)
  <2>1. /\ net = <<>> /\ req.c = "none" /\ Away
        /\ NoneOf(Tail(mb), Casts) /\ NoneOf(Tail(mb), {"tcp"})
    BY RestsTaken DEF Resting, Casts
  <2>2. /\ where' = "reply" /\ mb' = Tail(mb) /\ Send(request)
        /\ state' = "load" /\ mode' = mode /\ runid' = runid /\ offset' = offset /\ buffer' = buffer
        /\ fed' = fed /\ tainted' = tainted /\ acked' = acked
    BY <1>2 DEF Ask, stateVars, ghostVars
  <2>3. net' = <<>> /\ mphase' = mphase /\ req' = (IF peerOpen THEN request ELSE req)
    BY <2>1, <2>2 DEF Send
  <2>4. Head(mb).t = mode
    <3>1. Head(mb) = mb[1] /\ 1 \in DOMAIN mb
      BY TailMessages DEF IInv, TypeOK, ServerTypeOK
    <3> QED BY <3>1 DEF Course, Books
  <2>5. Answers(<<>>)'
    <3>1. CASE peerOpen
      <4>1. mphase = "cmd"
        BY <2>1, <3>1 DEF Course, Peer, Away
      <4>2. Asks(<<>>)'
        BY <2>2, <2>3, <2>4, <3>1, <4>1 DEF Asks
      <4> QED BY <4>2 DEF Answers
    <3>2. CASE ~peerOpen
      <4>1. mphase = "none"
        BY <3>2 DEF Course, Peer
      <4>2. Lost(<<>>)'
        BY <2>1, <2>3, <3>2, <4>1 DEF Lost
      <4> QED BY <4>2 DEF Answers
    <3> QED BY <3>1, <3>2
  <2>6. Carried'
    <3> SUFFICES ASSUME NEW h \in Seq(Unit), NEW new \in Seq(Unit), Held(h)', new = h \o net'
                 PROVE  Underway(new)'
      BY DEF Carried
    <3>1. h = <<>>
      BY <2>1, <2>2, HeldWait
    <3>2. new = <<>>
      BY <2>3, <3>1, EmptySeqs, JoinNothing
    <3>3. ~Greeting' /\ ~Resting' /\ ~Receives'
      BY <2>2 DEF Greeting, Resting, Receives
    <3> QED BY <2>5, <3>2, <3>3 DEF Underway
  <2>7. Peer'
    BY <2>1, <2>2, PeerSent DEF Course, Answering
  <2>8. Reads' /\ Flows'
    BY <2>1, <2>2 DEF Reads, Flows, NoneOf
  <2>9. Books'
    BY <2>2, ModesTail, BooksKept DEF Course, IInv
  <2>10. Known'
    BY <2>2, KnownKept DEF Course, Receives
  <2> QED BY <2>6, <2>7, <2>8, <2>9, <2>10 DEF Course
<1> QED BY <1>1, <1>2 DEF AskOrFail

LEMMA CarriesLoading ==
    ASSUME Receives', where' \in {"idle", "reply"}, NEW rest, Loads(rest)',
           \A h \in Seq(Unit) : Held(h)' => h \o net' = rest
    PROVE  Carried'
<1>1. ~Greeting' /\ ~Resting' /\ ~Answering'
  BY DEF Receives, Greeting, Resting, Answering
<1> SUFFICES ASSUME NEW h \in Seq(Unit), NEW new \in Seq(Unit), Held(h)', new = h \o net'
             PROVE  Underway(new)'
  BY DEF Carried
<1>2. new = rest
  OBVIOUS
<1> QED BY <1>1, <1>2 DEF Underway

LEMMA LoadsSame ==
    ASSUME NEW all, Loads(all), mphase' = mphase, mpos' = mpos, hist' = hist, req' = req,
           mode' = mode, offset' = offset
    PROVE  Loads(all)'
BY DEF Loads, Synced, HistEnd

LEMMA CourseHandshake ==
    ASSUME IInv, Course,
           \/ CastRepl \/ CastCapa \/ CastPsync \/ CastSync \/ CastPsyncPayload \/ CastRst
           \/ RecvPort \/ RecvCapa
    PROVE  Course'
<1>1. CASE CastRepl \/ CastCapa
  <2>1. PICK cmd \in {"PORT", "CAPA"} : AskOrFail(Request(cmd))
    BY <1>1 DEF CastRepl, CastCapa
  <2>2. /\ where = "idle" /\ mb # <<>> /\ Head(mb).t \in {"repl", "capa"}
        /\ state \in {"list", "reconnect2", "eof"}
    BY <1>1 DEF CastRepl, CastCapa, Handles
  <2>3. Request(cmd).c = cmd /\ Resting /\ Head(mb).t \in Casts
    BY <2>2 DEF Request, Resting, Casts
  <2> QED BY <2>1, <2>2, <2>3, CourseAsk
<1>2. CASE CastPsync \/ CastSync
  <2> DEFINE ask == IF Head(mb).t = "psync" THEN [c |-> "PSYNC", runid |-> runid, offset |-> offset]
                    ELSE Request("SYNC")
  <2>1. /\ where = "idle" /\ mb # <<>> /\ Head(mb).t \in {"psync", "sync"} /\ state = "load"
        /\ AskOrFail(ask)
    <3>1. CASE CastPsync
      <4>1. Head(mb).t = "psync" /\ AskOrFail([c |-> "PSYNC", runid |-> runid, offset |-> offset])
        BY <3>1 DEF CastPsync, Handles
      <4>2. ask = [c |-> "PSYNC", runid |-> runid, offset |-> offset]
        BY <4>1
      <4> HIDE DEF ask
      <4> QED BY <3>1, <4>1, <4>2 DEF CastPsync, Handles
    <3>2. CASE CastSync
      <4>1. Head(mb).t = "sync" /\ AskOrFail(Request("SYNC"))
        BY <3>2 DEF CastSync, Handles
      <4>2. ask = Request("SYNC")
        BY <4>1
      <4> HIDE DEF ask
      <4> QED BY <3>2, <4>1, <4>2 DEF CastSync, Handles
    <3> QED BY <1>2, <3>1, <3>2
  <2>2. /\ ask.c = (IF Head(mb).t = "psync" THEN "PSYNC" ELSE "SYNC")
        /\ Head(mb).t = "psync" => ask.runid = runid /\ ask.offset = offset
    BY DEF Request
  <2> HIDE DEF ask
  <2> QED BY <2>1, <2>2, CourseRequest
<1>3. CASE CastPsyncPayload
  <2>1. CASE Stop
    BY <2>1, CourseStop
  <2>2. CASE ~Stop
    <3>1. /\ where = "idle" /\ mb # <<>> /\ Head(mb).t = "psync" /\ state = "payload"
          /\ where' = "reply" /\ mb' = Tail(mb) /\ UNCHANGED masterVars
          /\ state' = state /\ mode' = mode /\ runid' = runid /\ offset' = offset /\ buffer' = buffer
          /\ fed' = fed /\ tainted' = tainted /\ acked' = acked
      BY <1>3, <2>2 DEF CastPsyncPayload, Handles, stateVars, ghostVars
    <3>2. Held(CastHead(Head(mb))) /\ NoneOf(Tail(mb), {"tcp"})
      BY <3>1, TookCast, NoSocket DEF Casts
    <3>3. CastHead(Head(mb)) = <<>> /\ net \in Seq(Unit) /\ <<>> \o net = net /\ net' = net
      BY <3>1, JoinNothing DEF CastHead, IInv, TypeOK, MasterTypeOK, masterVars
    <3>4. Loads(net)
      BY <3>1, <3>2, <3>3, EmptySeqs DEF Course, Carried, Underway, Receives
    <3>5. PICK rest \in Seq(Unit) : rest = net
      BY <3>3
    <3>6. Loads(rest)'
      BY <3>1, <3>4, <3>5, LoadsSame DEF masterVars
    <3>7. \A h \in Seq(Unit) : Held(h)' => h \o net' = rest
      <4> TAKE h \in Seq(Unit)
      <4>1. Held(h)' => h = <<>>
        BY <3>1, <3>2, HeldWait
      <4> QED BY <3>3, <3>5, <4>1
    <3>8. Carried'
      BY <3>1, <3>6, <3>7, CarriesLoading DEF Receives
    <3>9. Peer'
      BY <3>1, <3>4, PeerSame DEF masterVars, Course, Loads
    <3>10. Reads' /\ Flows'
      BY <3>1, <3>2 DEF Reads, Flows, NoneOf
    <3>11. Books'
      BY <3>1, ModesTail, BooksKept DEF Course, IInv, Books
    <3>12. Known'
      BY <3>1, KnownKept DEF Course, Receives
    <3> QED BY <3>8, <3>9, <3>10, <3>11, <3>12 DEF Course
  <2> QED BY <2>1, <2>2
<1>4. CASE CastRst
  <2> DEFINE m == Plain(mode)
  <2>1. /\ where = "idle" /\ mb # <<>> /\ Head(mb).t = "rst" /\ state = "reconnect3"
        /\ state' = "load" /\ Continue(<<m>>) /\ UNCHANGED masterVars
        /\ mode' = mode /\ runid' = runid /\ offset' = offset /\ buffer' = buffer
        /\ fed' = fed /\ tainted' = tainted /\ acked' = acked
    BY <1>4 DEF CastRst, Handles, ghostVars
  <2>2. /\ net = <<>> /\ req.c = "none" /\ Away /\ NoneOf(Tail(mb), Casts)
    BY <2>1, RestsTaken DEF Resting, Casts
  <2>3. mode \in {"psync", "sync"}
    BY <2>1 DEF IInv, PlaceOK, TypeOK, ServerTypeOK, Modes
  <2>4. m \in Message /\ m.t = mode
    BY <2>3, PlainMessage DEF Casts
  <2> HIDE DEF m
  <2>5. Carried' /\ Peer' /\ Reads' /\ Flows'
    BY <2>1, <2>2, <2>3, <2>4, RestIs DEF Receives, masterVars
  <2>6. Books'
    BY <2>1, <2>4, ModesCast, BooksKept DEF Course, IInv
  <2>7. Known'
    BY <2>1, KnownKept DEF Course, Receives
  <2> QED BY <2>5, <2>6, <2>7 DEF Course
<1>5. CASE RecvPort
  <2>1. /\ where = "reply" /\ mb # <<>> /\ Result \in {"psync", "sync"} /\ UNCHANGED masterVars
        /\ state \in {"list", "reconnect2"}
        /\ mode' = mode /\ runid' = runid /\ offset' = offset /\ buffer' = buffer
        /\ fed' = fed /\ tainted' = tainted /\ acked' = acked
    BY <1>5 DEF RecvPort, Received, ghostVars
  <2>2. PICK type \in {"capa", "rst"} :
            /\ Continue(<<Plain(type)>>)
            /\ (state = "list" /\ state' = "eof") \/ (state = "reconnect2" /\ state' = "reconnect3")
    BY <1>5 DEF RecvPort
  <2> DEFINE m == Plain(type)
  <2>3. /\ net = <<>> /\ req.c = "none" /\ Away /\ NoneOf(Tail(mb), Casts)
    BY <2>1, GreetsTaken DEF Greeting
  <2>4. m \in Message /\ m.t = type /\ Continue(<<m>>)
    BY <2>2, PlainMessage DEF Casts
  <2> HIDE DEF m
  <2>5. Carried' /\ Peer' /\ Reads' /\ Flows'
    BY <2>1, <2>2, <2>3, <2>4, RestIs DEF Receives, masterVars
  <2>6. Books'
    BY <2>1, <2>2, <2>4, ModesCast, BooksKept DEF Course, IInv
  <2>7. Known'
    BY <2>1, <2>2, KnownKept DEF Course, Receives
  <2> QED BY <2>5, <2>6, <2>7 DEF Course
<1>6. CASE RecvCapa
  <2> DEFINE m == Plain(Result)
  <2>1. /\ where = "reply" /\ mb # <<>> /\ Result \in {"psync", "sync"} /\ UNCHANGED masterVars
        /\ state = "eof" /\ state' = "load" /\ mode' = Result /\ Continue(<<m>>)
        /\ runid' = runid /\ offset' = offset /\ buffer' = buffer
        /\ fed' = fed /\ tainted' = tainted /\ acked' = acked
    BY <1>6 DEF RecvCapa, Received, ghostVars
  <2>2. /\ net = <<>> /\ req.c = "none" /\ Away /\ NoneOf(Tail(mb), Casts)
    BY <2>1, GreetsTaken DEF Greeting
  <2>3. m \in Message /\ m.t = mode'
    BY <2>1, PlainMessage DEF Casts
  <2> HIDE DEF m
  <2>4. Carried' /\ Peer' /\ Reads' /\ Flows'
    BY <2>1, <2>2, <2>3, RestIs DEF Receives, masterVars
  <2>5. ModesOK(mb', mode')
    <3>1. Tail(mb) \in Seq(Message)
      BY <2>1, HeadParts DEF IInv
    <3>2. mb' = Append(Tail(mb), m)
      BY <2>1, <2>3, <3>1, AddOne DEF Continue
    <3>3. ModesOK(Tail(mb), mode')
      BY <2>2 DEF NoneOf, ModesOK, Casts
    <3> QED BY <2>3, <3>1, <3>2, <3>3, ModesAdd
  <2>6. runid = NoRunId
    BY <2>1 DEF Course, Books
  <2>7. Books'
    BY <2>1, <2>5, <2>6 DEF Course, Books, ModesOK
  <2>8. Known'
    BY <2>1, <2>6 DEF Known
  <2> QED BY <2>4, <2>7, <2>8 DEF Course
<1> QED BY <1>1, <1>2, <1>3, <1>4, <1>5, <1>6

-----------------------------------------------------------------------------
(* The stretches of the history in the mailbox.                             *)

LEMMA SpansQuiet ==
    ASSUME NEW box \in Seq(Message), NoneOf(box, {"tcp"}), NEW at \in Nat
    PROVE  Spans(box, at, at)
<1> DEFINE e == [i \in 0 .. Len(box) |-> at]
<1>1. Len(box) \in Nat /\ DOMAIN box = 1 .. Len(box)
  OBVIOUS
<1>2. e \in [0 .. Len(box) -> Nat] /\ \A i \in 0 .. Len(box) : e[i] = at
  OBVIOUS
<1> HIDE DEF e
<1>3. Ends(box, e)
  <2> SUFFICES ASSUME NEW i \in 1 .. Len(box) PROVE box[i].t # "tcp" /\ e[i] = e[i - 1]
    BY <1>2 DEF Ends
  <2>1. box[i].t # "tcp"
    BY <1>1 DEF NoneOf
  <2>2. i \in 0 .. Len(box) /\ i - 1 \in 0 .. Len(box)
    BY <1>1
  <2> QED BY <1>2, <2>1, <2>2
<1>4. 0 \in 0 .. Len(box) /\ Len(box) \in 0 .. Len(box)
  BY <1>1
<1> QED BY <1>2, <1>3, <1>4 DEF Spans

LEMMA SpansAppend ==
    ASSUME NEW box \in Seq(Message), NEW first \in Nat, NEW mid \in Nat, NEW last \in Nat,
           Spans(box, first, mid), NEW m \in Message,
           IF m.t = "tcp" THEN mid <= last /\ m.data = HistUnits(mid + 1, last) ELSE last = mid
    PROVE  Spans(Append(box, m), first, last)
<1>1. PICK e \in [0 .. Len(box) -> Nat] : Ends(box, e) /\ e[0] = first /\ e[Len(box)] = mid
  BY DEF Spans
<1>2. PICK n \in Nat : n = Len(box)
  OBVIOUS
<1> DEFINE more == Append(box, m)
           f == [i \in 0 .. n + 1 |-> IF i = n + 1 THEN last ELSE e[i]]
<1>3. Len(more) = n + 1 /\ more[n + 1] = m /\ \A i \in 1 .. n : more[i] = box[i]
  BY <1>2
<1>4. /\ f \in [0 .. n + 1 -> Nat] /\ f[n + 1] = last /\ \A i \in 0 .. n : f[i] = e[i]
  BY <1>1, <1>2
<1> HIDE DEF more, f
<1>5. Ends(more, f)
  <2>1. ASSUME NEW i \in 1 .. n + 1
        PROVE  IF more[i].t = "tcp" THEN f[i - 1] <= f[i] /\ more[i].data = HistUnits(f[i - 1] + 1, f[i])
               ELSE f[i] = f[i - 1]
    <3>1. CASE i = n + 1
      <4>1. f[i - 1] = mid /\ f[i] = last /\ more[i] = m
        <5>1. i - 1 = n /\ n \in 0 .. n
          BY <3>1
        <5> QED BY <1>1, <1>2, <1>3, <1>4, <3>1, <5>1
      <4> QED BY <4>1
    <3>2. CASE i # n + 1
      <4>1. i \in 1 .. n /\ i \in 0 .. n /\ i - 1 \in 0 .. n
        BY <3>2
      <4>2. f[i - 1] = e[i - 1] /\ f[i] = e[i] /\ more[i] = box[i]
        BY <1>3, <1>4, <4>1
      <4>3. IF box[i].t = "tcp" THEN e[i - 1] <= e[i] /\ box[i].data = HistUnits(e[i - 1] + 1, e[i])
            ELSE e[i] = e[i - 1]
        BY <1>1, <1>2, <4>1 DEF Ends
      <4> QED BY <4>2, <4>3
    <3> QED BY <3>1, <3>2
  <2> QED BY <1>3, <1>4, <2>1 DEF Ends
<1>6. f[0] = first
  BY <1>1, <1>4
<1>7. Spans(more, first, last)
  BY <1>3, <1>4, <1>5, <1>6 DEF Spans
<1> QED BY <1>7 DEF more

LEMMA SpansTail ==
    ASSUME NEW box \in Seq(Message), box # <<>>, NEW first \in Nat, NEW last \in Nat,
           Spans(box, first, last)
    PROVE  \E mid \in Nat :
              /\ Spans(Tail(box), mid, last)
              /\ IF Head(box).t = "tcp" THEN first <= mid /\ Head(box).data = HistUnits(first + 1, mid)
                 ELSE mid = first
<1>1. PICK e \in [0 .. Len(box) -> Nat] : Ends(box, e) /\ e[0] = first /\ e[Len(box)] = last
  BY DEF Spans
<1>2. PICK n \in Nat : Len(box) = n + 1 /\ n + 1 \in 1 .. n + 1 /\ 1 \in 1 .. n + 1
  <2>1. Len(box) - 1 \in Nat /\ Len(box) = (Len(box) - 1) + 1
    OBVIOUS
  <2>2. \A n \in Nat : n + 1 \in 1 .. n + 1 /\ 1 \in 1 .. n + 1
    OBVIOUS
  <2> QED BY <2>1, <2>2
<1> DEFINE rest == Tail(box)
           f == [i \in 0 .. n |-> e[i + 1]]
<1>3. Len(rest) = n /\ \A i \in 1 .. n : rest[i] = box[i + 1]
  BY <1>2
<1>4. f \in [0 .. n -> Nat] /\ \A i \in 0 .. n : f[i] = e[i + 1]
  <2>1. \A i \in 0 .. n : i + 1 \in 0 .. Len(box)
    BY <1>2
  <2> QED BY <1>1, <2>1
<1>5. Head(box) = box[1]
  OBVIOUS
<1> HIDE DEF rest, f
<1>6. Ends(rest, f)
  <2>1. ASSUME NEW i \in 1 .. n
        PROVE  IF rest[i].t = "tcp" THEN f[i - 1] <= f[i] /\ rest[i].data = HistUnits(f[i - 1] + 1, f[i])
               ELSE f[i] = f[i - 1]
    <3>1. i + 1 \in 1 .. Len(box) /\ i \in 0 .. n /\ i - 1 \in 0 .. n /\ (i + 1) - 1 = i /\ (i - 1) + 1 = i
      BY <1>2
    <3>2. f[i - 1] = e[i] /\ f[i] = e[i + 1] /\ rest[i] = box[i + 1]
      BY <1>3, <1>4, <3>1
    <3>3. IF box[i + 1].t = "tcp"
          THEN e[(i + 1) - 1] <= e[i + 1] /\ box[i + 1].data = HistUnits(e[(i + 1) - 1] + 1, e[i + 1])
          ELSE e[i + 1] = e[(i + 1) - 1]
      BY <1>1, <3>1 DEF Ends
    <3> QED BY <3>1, <3>2, <3>3
  <2> QED BY <1>3, <1>4, <2>1 DEF Ends
<1>7. f[0] = e[1] /\ f[n] = last /\ e[1] \in Nat
  <2>1. 0 \in 0 .. n /\ n \in 0 .. n /\ 0 + 1 = 1 /\ 1 \in 0 .. Len(box)
    BY <1>2
  <2> QED BY <1>1, <1>2, <1>4, <2>1
<1>8. Spans(rest, e[1], last)
  BY <1>3, <1>4, <1>6, <1>7 DEF Spans
<1>9. IF box[1].t = "tcp" THEN first <= e[1] /\ box[1].data = HistUnits(first + 1, e[1])
      ELSE e[1] = first
  <2>1. 1 \in 1 .. Len(box) /\ 1 - 1 = 0
    BY <1>2
  <2>2. IF box[1].t = "tcp" THEN e[1 - 1] <= e[1] /\ box[1].data = HistUnits(e[1 - 1] + 1, e[1])
        ELSE e[1] = e[1 - 1]
    BY <1>1, <2>1 DEF Ends
  <2> QED BY <1>1, <2>1, <2>2
<1> QED BY <1>5, <1>7, <1>8, <1>9 DEF rest

LEMMA FlowsIs ==
    ASSUME NEW first \in Nat, NEW last \in Nat, Spans(mb', first, last), Ahead(net, last)',
           "stale" \notin tainted' => Buffered(first)', req'.c = "none"
    PROVE  Flows'
BY DEF Flows

-----------------------------------------------------------------------------
(* The answer to PSYNC or SYNC, and the snapshot.                           *)

\* No unit of a synchronisation is a line of reply.
LEMMA SyncedKinds ==
    ASSUME NEW all \in Seq(Unit), NEW at, Synced(all, at), NEW i \in 1 .. Len(all)
    PROVE  all[i].k \notin {"continue", "fullresync", "err"}
<1>1. PICK z \in Int, size \in Nat : Wire(all, at, z, size) /\ at \in Nat
  BY DEF Synced, SyncedAt
<1>2. WireUnit(all[i], i, at, z, size) /\ i \in Nat
  BY <1>1 DEF Wire
<1>3. CASE i > z /\ all[i] = HistUnit(at + i - z)
  <2>1. at + i - z \in Nat \ {0}
    BY <1>1, <1>2, <1>3
  <2>2. HistUnit(at + i - z).k \in {"lf", "body", "head"}
    BY <2>1, HistUnitIs
  <2> QED BY <1>3, <2>2
<1>4. CASE ~(i > z /\ all[i] = HistUnit(at + i - z))
  BY <1>2, <1>4 DEF WireUnit, IsKey, Mk
<1> QED BY <1>3, <1>4

LEMMA SyncedDrop ==
    ASSUME NEW a \in Seq(Unit), NEW b \in Seq(Unit), NEW at, Synced(a \o b, at)
    PROVE  Synced(b, at)
<1> DEFINE all == a \o b
<1>1. PICK n \in Nat, k \in Nat : n = Len(a) /\ k = Len(b)
  OBVIOUS
<1>2. all \in Seq(Unit) /\ Len(all) = n + k /\ \A i \in 1 .. k : all[n + i] = b[i]
  BY <1>1, JoinUnits
<1> HIDE DEF all
<1>3. /\ at \in Nat /\ at % CmdUnits = 0 /\ at <= HistEnd /\ mphase # "cmd"
      /\ \E z \in Int, size \in Nat :
            /\ Wire(all, at, z, size)
            /\ at + Len(all) - z <= HistEnd
            /\ mphase = "online" => z <= Len(all) /\ at + Len(all) - z = mpos
            /\ mphase = "bgsave" => Len(all) < z - size - 2 /\ mpos = at
  BY DEF Synced, SyncedAt, all
<1>4. PICK z \in Int, size \in Nat :
            /\ Wire(all, at, z, size)
            /\ at + (n + k) - z <= HistEnd
            /\ mphase = "online" => z <= n + k /\ at + (n + k) - z = mpos
            /\ mphase = "bgsave" => n + k < z - size - 2 /\ mpos = at
  BY <1>2, <1>3
<1> DEFINE y == z - n
<1>5. Wire(b, at, y, size)
  <2>1. Len(b) = Len(all) - n /\ \A i \in 1 .. Len(b) : b[i] = all[n + i]
    BY <1>1, <1>2
  <2> QED BY <1>2, <1>3, <1>4, <2>1, WireDrop
<1>6. /\ y \in Int /\ at + k - y = at + (n + k) - z
      /\ z <= n + k => y <= k
      /\ n + k < z - size - 2 => k < y - size - 2
  BY <1>3
<1> HIDE DEF y
<1>7. /\ at + k - y <= HistEnd
      /\ mphase = "online" => y <= k /\ at + k - y = mpos
      /\ mphase = "bgsave" => k < y - size - 2 /\ mpos = at
  BY <1>4, <1>6
<1> QED BY <1>1, <1>3, <1>5, <1>6, <1>7 DEF Synced, SyncedAt

\* The reply that is taken in the middle of a synchronisation.
LEMMA SyncTaken ==
    ASSUME IInv, Course, where = "reply", state \in Loading, mb # <<>>, Result # "error",
           NEW data, data = Head(mb).data
    PROVE  /\ data \in Seq(Unit) /\ data # <<>> /\ data \o net \in Seq(Unit)
           /\ (data \o net)[1] = data[1] /\ Tail(data \o net) = Tail(data) \o net
           /\ NoneOf(Tail(mb), Casts) /\ NoneOf(Tail(mb), {"tcp"})
           /\ Underway((Kept \o data) \o net)
           /\ Result = ChunkResult(data)
<1>1. /\ Head(mb).t = "tcp" /\ data \in Seq(Unit) /\ Result = ChunkResult(data) /\ net \in Seq(Unit)
      /\ mb \in Seq(Message)
  BY ReplyIs DEF IInv, TypeOK, MasterTypeOK, ServerTypeOK
<1>2. data # <<>>
  <2>1. Head(mb) = mb[1] /\ 1 \in DOMAIN mb
    BY <1>1, TailMessages
  <2> QED BY <1>1, <2>1 DEF Course, Reads
<1>3. Held(Kept \o data) /\ NoneOf(Tail(mb), Casts) /\ NoneOf(Tail(mb), SocketMsgs)
  BY <1>1, TookReply DEF Receiving, Loading
<1>4. Kept \in Seq(Unit)
  BY EmptySeqs DEF Kept, IInv, TypeOK, ServerTypeOK
<1>5. Kept \o data \in Seq(Unit) /\ (Kept \o data) \o net \in Seq(Unit)
  BY <1>1, <1>4, JoinUnits
<1>6. Underway((Kept \o data) \o net)
  BY <1>3, <1>5 DEF Course, Carried
<1> QED BY <1>1, <1>2, <1>3, <1>6, TailOfJoin, JoinUnits, NoSocket

\* The answer comes when nothing has been received yet.
LEMMA LineFirst ==
    ASSUME IInv, Course, where = "reply", state \in Loading, mb # <<>>,
           Result \in {"continue", "fullresync"}
    PROVE  state = "load"
<1>1. PICK data : data = Head(mb).data
  OBVIOUS
<1>2. /\ data \in Seq(Unit) /\ data # <<>> /\ data[1].k \in {"continue", "fullresync"}
      /\ Underway((Kept \o data) \o net) /\ net \in Seq(Unit)
  BY <1>1, SyncTaken, LineIs DEF IInv, TypeOK, MasterTypeOK
<1>3. Kept \in Seq(Unit)
  BY EmptySeqs DEF Kept, IInv, TypeOK, ServerTypeOK
<1>4. CASE state \in {"payload", "buffering"}
  <2> DEFINE kept == Kept
  <2>1. PICK n \in Nat, k \in Nat : n = Len(kept) /\ k = Len(data) /\ k >= 1
    <3>1. Len(kept) \in Nat /\ Len(data) \in Nat /\ Len(data) >= 1
      BY <1>2, <1>3
    <3> QED BY <3>1
  <2> HIDE DEF kept
  <2>2. kept \in Seq(Unit) /\ n + 1 \in Len(kept) + 1 .. Len(kept) + Len(data) /\ (n + 1) - Len(kept) = 1
    BY <1>3, <2>1 DEF kept
  <2>3. kept \o data \in Seq(Unit) /\ Len(kept \o data) = Len(kept) + Len(data)
        /\ (kept \o data)[n + 1] = data[(n + 1) - Len(kept)]
    BY <1>2, <2>2, JoinUnits
  <2>4. n + 1 \in 1 .. Len(kept \o data)
    BY <2>1, <2>3
  <2> DEFINE ab == kept \o data
  <2>5. ab \in Seq(Unit) /\ n + 1 \in 1 .. Len(ab) /\ ab[n + 1] = data[1]
    BY <2>2, <2>3, <2>4
  <2> HIDE DEF ab
  <2>6. ab \o net \in Seq(Unit) /\ (ab \o net)[n + 1] = data[1] /\ Len(ab \o net) = Len(ab) + Len(net)
    BY <1>2, <2>5, JoinUnits
  <2>7. n + 1 \in 1 .. Len(ab \o net)
    BY <1>2, <2>5, <2>6
  <2>8. Underway(ab \o net)
    BY <1>2 DEF ab, kept
  <2>9. PICK at \in Nat : Synced(ab \o net, at)
    BY <1>4, <2>8 DEF Underway, Receives, Loads
  <2>10. (ab \o net)[n + 1].k \notin {"continue", "fullresync", "err"}
    BY <2>6, <2>7, <2>9, SyncedKinds
  <2> QED BY <1>2, <2>6, <2>10
<1> QED BY <1>4 DEF Loading

LEMMA AnswerTaken ==
    ASSUME IInv, Course, where = "reply", state = "load", mb # <<>>, Result # "error",
           NEW data, data = Head(mb).data
    PROVE  /\ data \in Seq(Unit) /\ data # <<>> /\ net \in Seq(Unit)
           /\ (data \o net)[1] = data[1] /\ Tail(data \o net) = Tail(data) \o net
           /\ NoneOf(Tail(mb), Casts) /\ NoneOf(Tail(mb), {"tcp"})
           /\ req.c = "none"
           /\ data[1].k = "continue" => Continued(data \o net)
           /\ data[1].k = "fullresync" => FullSynced(data \o net)
           /\ data[1].k \notin {"continue", "fullresync", "err"} => Bulk(data \o net)
<1>1. /\ data \in Seq(Unit) /\ data # <<>> /\ data \o net \in Seq(Unit)
      /\ (data \o net)[1] = data[1] /\ Tail(data \o net) = Tail(data) \o net
      /\ NoneOf(Tail(mb), Casts) /\ NoneOf(Tail(mb), {"tcp"})
      /\ Underway((Kept \o data) \o net)
  BY SyncTaken DEF Loading
<1>2. net \in Seq(Unit)
  BY DEF IInv, TypeOK, MasterTypeOK
<1>3. Kept \o data = data
  BY <1>1, JoinNothing DEF Kept
<1>4. PICK all \in Seq(Unit) : all = data \o net
  BY <1>1
<1>5. all # <<>> /\ all[1] = data[1] /\ Len(all) \in Nat /\ 1 \in 1 .. Len(all)
  <2>1. all # <<>>
    BY <1>1, <1>2, <1>4, TailOfJoin
  <2> QED BY <1>1, <1>4, <2>1
<1>6. Answers(all)
  BY <1>1, <1>3, <1>4 DEF Underway, Answering
<1>7. Refused(all) \/ Continued(all) \/ FullSynced(all) \/ Bulk(all)
  BY <1>5, <1>6 DEF Answers, Asks, Lost
<1>8. req.c = "none"
  BY <1>7 DEF Refused, Continued, FullSynced, Bulk
<1>9. Bulk(all) => all[1].k \notin {"continue", "fullresync", "err"}
  BY <1>5, SyncedKinds DEF Bulk
<1>10. /\ all[1].k = "continue" => Continued(all)
       /\ all[1].k = "fullresync" => FullSynced(all)
       /\ all[1].k \notin {"continue", "fullresync", "err"} => Bulk(all)
  BY <1>7, <1>9 DEF Refused, Continued, FullSynced
<1> QED BY <1>1, <1>2, <1>4, <1>5, <1>8, <1>10

\* A stretch of the history that is held in two pieces.
Pieces(all, a, b) == all = a \o b

LEMMA HistSplit ==
    ASSUME NEW a \in Seq(Unit), NEW b \in Seq(Unit), NEW from \in Nat \ {0}, NEW to \in Nat,
           from <= to + 1, Pieces(HistUnits(from, to), a, b)
    PROVE  /\ Len(a) + Len(b) = to - from + 1
           /\ a = HistUnits(from, from + Len(a) - 1)
           /\ b = HistUnits(from + Len(a), to)
<1>0. a \o b = HistUnits(from, to)
  BY DEF Pieces
<1>1. PICK n \in Nat, k \in Nat : n = Len(a) /\ k = Len(b)
  OBVIOUS
<1> DEFINE all == a \o b
<1>2. /\ Len(all) = n + k
      /\ \A i \in 1 .. n : all[i] = a[i]
      /\ \A i \in 1 .. k : all[n + i] = b[i]
  BY <1>1, JoinUnits
<1>3. Len(all) = to - from + 1 /\ \A i \in 1 .. to - from + 1 : all[i] = HistUnit(from + i - 1)
  BY <1>0, HistUnitsAre
<1> HIDE DEF all
<1>4. n + k = to - from + 1
  BY <1>2, <1>3
<1>5. a = HistUnits(from, from + n - 1)
  <2> DEFINE end == from + n - 1
  <2>1. end \in Nat /\ from <= end + 1 /\ n = end - from + 1
    BY <1>4
  <2>2. \A i \in 1 .. n : i \in 1 .. to - from + 1
    BY <1>4
  <2>3. \A i \in 1 .. n : a[i] = HistUnit(from + i - 1)
    BY <1>2, <1>3, <2>2
  <2> HIDE DEF end
  <2>4. a = HistUnits(from, end)
    BY <1>1, <2>1, <2>3, HistEqual
  <2> QED BY <2>4 DEF end
<1>6. b = HistUnits(from + n, to)
  <2> DEFINE start == from + n
  <2>1. start \in Nat \ {0} /\ start <= to + 1 /\ k = to - start + 1
    BY <1>4
  <2>2. ASSUME NEW i \in 1 .. k PROVE b[i] = HistUnit(start + i - 1)
    <3>1. n + i \in 1 .. to - from + 1 /\ from + (n + i) - 1 = start + i - 1
      BY <1>4
    <3> QED BY <1>2, <1>3, <3>1
  <2> HIDE DEF start
  <2>3. b = HistUnits(start, to)
    BY <1>1, <2>1, <2>2, HistEqual
  <2> QED BY <2>3 DEF start
<1> QED BY <1>1, <1>4, <1>5, <1>6

LEMMA CourseContinue == ASSUME IInv, Course, RecvContinue PROVE Course'
<1> DEFINE data == Head(mb).data
           more == Tail(data)
           m1 == Msg("tcp", more, 0)
           m2 == Plain("replication")
<1>1. /\ where = "reply" /\ mb # <<>> /\ Result = "continue" /\ state \in Loading
      /\ Continue(<<m1, m2>>) /\ state' = "stream" /\ UNCHANGED masterVars
      /\ mode' = mode /\ runid' = runid /\ offset' = offset /\ buffer' = buffer
      /\ fed' = (IF offset < fed THEN offset ELSE fed) /\ tainted' = tainted /\ acked' = acked
  BY DEF RecvContinue, Received
<1>2. state = "load"
  BY <1>1, LineFirst
<1>3. /\ data \in Seq(Unit) /\ data # <<>> /\ net \in Seq(Unit)
      /\ Tail(data \o net) = more \o net
      /\ NoneOf(Tail(mb), Casts) /\ NoneOf(Tail(mb), {"tcp"})
      /\ req.c = "none"
      /\ data[1].k = "continue" => Continued(data \o net)
  BY <1>1, <1>2, AnswerTaken
<1>4. data[1].k = "continue"
  <2>1. Result = ChunkResult(data)
    BY <1>1, <1>2, SyncTaken DEF Loading
  <2> QED BY <1>1, <2>1, LineIs
<1>5. mode = "psync" /\ runid # NoRunId /\ Follows(more \o net)
  BY <1>3, <1>4 DEF Continued
<1>6. more \in Seq(Unit) /\ m1 \in Message /\ m1.t = "tcp" /\ m1.data = more
      /\ m2 \in Message /\ m2.t = "replication" /\ Tail(mb) \in Seq(Message)
  <2>1. more \in Seq(Unit)
    BY <1>3, TailUnits
  <2>2. m1 \in Message /\ m1.t = "tcp" /\ m1.data = more
    BY <2>1, MakeMessage DEF SocketMsgs, Msg
  <2>3. m2 \in Message /\ m2.t = "replication"
    BY PlainMessage DEF Casts
  <2>4. Tail(mb) \in Seq(Message)
    BY <1>1, HeadParts DEF IInv
  <2> QED BY <2>1, <2>2, <2>3, <2>4
<1>7. PICK u \in Seq(Unit) : u = more
  BY <1>6
<1> HIDE DEF data, more, m1, m2
<1>8. offset \in Nat \ {0} /\ mphase \in {"online", "none"} /\ fed \in Nat /\ HistEnd \in Nat /\ acked = -1
  BY <1>1, <1>2, <1>5, HistEndIs DEF Follows, IInv, TypeOK, ServerTypeOK, Course, Books
<1>9. PICK to \in Nat : /\ offset <= to + 1 /\ to <= HistEnd
                        /\ u \o net = HistUnits(offset, to)
                        /\ mphase = "online" => to = mpos
  BY <1>5, <1>7 DEF Follows
<1>10. PICK n \in Nat, k \in Nat : n = Len(u) /\ k = Len(net)
  BY <1>3
<1>11. n + k = to - offset + 1 /\ u = HistUnits(offset, offset + n - 1) /\ net = HistUnits(offset + n, to)
  <2>1. u \in Seq(Unit) /\ net \in Seq(Unit)
    BY <1>3, <1>6, <1>7
  <2>2. PICK from \in Nat \ {0} : from = offset
    BY <1>8
  <2>3. PICK b \in Seq(Unit) : b = net
    BY <2>1
  <2>9. from <= to + 1 /\ Pieces(HistUnits(from, to), u, b)
    BY <1>9, <2>2, <2>3 DEF Pieces
  <2>4. /\ Len(u) + Len(net) = to - from + 1
        /\ u = HistUnits(from, from + Len(u) - 1)
        /\ net = HistUnits(from + Len(u), to)
    <3>1. /\ Len(u) + Len(b) = to - from + 1
          /\ u = HistUnits(from, from + Len(u) - 1)
          /\ b = HistUnits(from + Len(u), to)
      BY <2>1, <2>9, HistSplit
    <3> QED BY <2>3, <3>1
  <2>5. Len(u) = n /\ Len(net) = k
    BY <1>10
  <2>6. n + k = to - offset + 1
    BY <2>2, <2>4, <2>5
  <2>7. u = HistUnits(offset, offset + n - 1)
    BY <2>2, <2>4, <2>5
  <2>8. net = HistUnits(offset + n, to)
    BY <2>2, <2>4, <2>5
  <2> QED BY <2>6, <2>7, <2>8
<1>12. PICK first \in Nat, last \in Nat :
           first = offset - 1 /\ last = offset + n - 1 /\ first + 1 = offset /\ last + 1 = offset + n
           /\ first <= last /\ last <= to
  <2>1. offset - 1 \in Nat /\ offset + n - 1 \in Nat
    BY <1>8
  <2>2. offset - 1 <= offset + n - 1 /\ offset + n - 1 <= to /\ (offset - 1) + 1 = offset
        /\ (offset + n - 1) + 1 = offset + n
    BY <1>8, <1>10, <1>11
  <2> QED BY <2>1, <2>2
<1>13. Spans(mb', first, last)
  <2>1. Spans(Tail(mb), first, first)
    BY <1>3, <1>6, SpansQuiet
  <2>2. Append(Tail(mb), m1) \in Seq(Message)
    BY <1>6
  <2>3. Spans(Append(Tail(mb), m1), first, last)
    <3>1. m1.data = HistUnits(first + 1, last)
      BY <1>6, <1>7, <1>11, <1>12
    <3> QED BY <1>6, <1>12, <2>1, <3>1, SpansAppend
  <2>4. Spans(Append(Append(Tail(mb), m1), m2), first, last)
    BY <1>6, <2>2, <2>3, SpansAppend
  <2>5. mb' = Append(Append(Tail(mb), m1), m2)
    BY <1>1, <1>6 DEF Continue
  <2> QED BY <2>4, <2>5
<1>14. Ahead(net, last)'
  <2>1. net' = net /\ mphase' = mphase /\ mpos' = mpos /\ HistEnd' = HistEnd
    BY <1>1 DEF masterVars, HistEnd
  <2> QED BY <1>8, <1>9, <1>11, <1>12, <2>1 DEF Ahead
<1>15. "stale" \notin tainted => /\ offset <= fed \/ (offset = fed + 1 /\ fed % CmdUnits = 0)
                                 /\ tainted = {} => fed % CmdUnits = 0 /\ offset >= fed
  BY <1>2, <1>5 DEF Course, Known, Receives
<1>16. ASSUME "stale" \notin tainted PROVE Buffered(first)'
  <2>1. buffer' = <<>>
    BY <1>1, <1>2, <1>16 DEF Course, Books
  <2>2. HistUnits(offset, first) = <<>>
    BY <1>8, <1>12, HistNothing
  <2>3. Position(offset)'
    <3>1. CASE offset <= fed
      <4>1. fed' = offset
        BY <1>1, <1>8, <3>1
      <4>2. tainted = {} => fed' % CmdUnits = 0
        BY <1>1, <1>8, <1>15, <1>16, <3>1, <4>1
      <4> QED BY <1>1, <1>5, <1>8, <4>1, <4>2 DEF Position
    <3>2. CASE offset = fed + 1 /\ fed % CmdUnits = 0
      <4>1. fed' = fed
        BY <1>1, <1>8, <3>2
      <4> QED BY <1>1, <1>5, <1>8, <3>2, <4>1 DEF Position
    <3> QED BY <1>15, <1>16, <3>1, <3>2
  <2>4. PICK from \in Nat \ {0} : from = offset
    BY <1>8
  <2>5. Position(from)' /\ from <= first + 1 /\ buffer' = HistUnits(from, first)
    BY <1>1, <1>12, <2>1, <2>2, <2>3, <2>4
  <2> QED BY <2>5 DEF Buffered
<1>17. req' = req
  BY <1>1 DEF masterVars
<1>18. Flows'
  BY <1>1, <1>3, <1>13, <1>14, <1>16, <1>17, FlowsIs
<1>19. where' = "idle"
  BY <1>1 DEF Continue
<1>20. Carried'
  BY <1>1, <1>19, CarriesNothing DEF Greeting, Resting, Answering, Receives
<1>21. Peer'
  BY <1>1, <1>3, <1>19, PeerSame DEF Course, masterVars
<1>22. ModesOK(mb', mode')
  <2>1. ModesOK(Tail(mb), mode)
    BY <1>1, ModesTail DEF Course, IInv
  <2>2. Append(Tail(mb), m1) \in Seq(Message)
    BY <1>6
  <2>3. ModesOK(Append(Tail(mb), m1), mode)
    BY <1>6, <2>1, ModesAdd
  <2>4. ModesOK(Append(Append(Tail(mb), m1), m2), mode)
    BY <1>6, <2>2, <2>3, ModesAdd
  <2>5. mb' = Append(Append(Tail(mb), m1), m2)
    BY <1>1, <1>6 DEF Continue
  <2> QED BY <1>1, <2>4, <2>5
<1>23. Books'
  <2>1. fed' \in Nat /\ acked' <= fed' + 1
    BY <1>1, <1>8
  <2> QED BY <1>1, <1>5, <1>22, <2>1 DEF Books, ModesOK
<1>24. Known'
  <2>1. ASSUME "stale" \notin tainted
        PROVE  /\ offset <= fed' \/ (offset = fed' + 1 /\ fed' % CmdUnits = 0)
               /\ tainted = {} => fed' % CmdUnits = 0 /\ offset >= fed'
    <3>1. CASE offset <= fed
      <4>1. fed' = offset
        BY <1>1, <1>8, <3>1
      <4>2. tainted = {} => fed' % CmdUnits = 0
        BY <1>1, <1>8, <1>15, <2>1, <3>1, <4>1
      <4> QED BY <1>8, <4>1, <4>2
    <3>2. CASE offset = fed + 1 /\ fed % CmdUnits = 0
      <4>1. fed' = fed
        BY <1>1, <1>8, <3>2
      <4> QED BY <1>8, <3>2, <4>1
    <3> QED BY <1>15, <2>1, <3>1, <3>2
  <2> QED BY <1>1, <2>1 DEF Known
<1>25. Reads'
  BY <1>19 DEF Reads
<1> QED BY <1>18, <1>20, <1>21, <1>23, <1>24, <1>25 DEF Course

\* The rest of a synchronisation goes on, behind one more cast.
LEMMA LoadingOn ==
    ASSUME Course, NEW m, Continue(<<m>>), state' # "stream",
           peerOpen' = peerOpen, mphase' = mphase, req' = req, req.c = "none"
    PROVE  Peer' /\ Reads' /\ Flows'
<1>1. where' = "idle"
  BY DEF Continue
<1>2. Peer'
  BY <1>1, PeerSame DEF Course
<1> QED BY <1>1, <1>2 DEF Reads, Flows

LEMMA CourseFullResync == ASSUME IInv, Course, RecvFullResync PROVE Course'
<1> DEFINE data == Head(mb).data
           m == Plain("psync")
<1>1. /\ where = "reply" /\ mb # <<>> /\ Result = "fullresync" /\ state \in Loading
      /\ Continue(<<m>>) /\ state' = "payload" /\ UNCHANGED masterVars
      /\ mode' = mode /\ runid' = data[1].r /\ offset' = data[1].n /\ buffer' = buffer
      /\ fed' = fed /\ tainted' = tainted /\ acked' = acked
  BY DEF RecvFullResync, Received, ghostVars
<1>2. state = "load"
  BY <1>1, LineFirst
<1>3. /\ data \in Seq(Unit) /\ data # <<>> /\ net \in Seq(Unit)
      /\ (data \o net)[1] = data[1] /\ Tail(data \o net) = Tail(data) \o net
      /\ NoneOf(Tail(mb), Casts)
      /\ req.c = "none"
      /\ data[1].k = "fullresync" => FullSynced(data \o net)
  BY <1>1, <1>2, AnswerTaken
<1>4. data[1].k = "fullresync"
  <2>1. Result = ChunkResult(data)
    BY <1>1, <1>2, SyncTaken DEF Loading
  <2> QED BY <1>1, <2>1, LineIs
<1>5. m \in Message /\ m.t = "psync"
  BY PlainMessage DEF Casts
<1> HIDE DEF data, m
<1>6. mode = "psync" /\ data[1].r # NoRunId /\ Synced(Tail(data) \o net, data[1].n)
  BY <1>3, <1>4 DEF FullSynced
<1>7. PICK at \in Nat, rest \in Seq(Unit) : at = data[1].n /\ rest = net
  BY <1>3, <1>6 DEF Synced, SyncedAt
<1>8. Synced(rest, at)
  <2>1. PICK a \in Seq(Unit) : a = Tail(data)
    BY <1>3, TailUnits
  <2>2. Synced(a \o rest, at)
    BY <1>6, <1>7, <2>1
  <2> QED BY <2>2, SyncedDrop
<1>9. Loads(rest)'
  BY <1>1, <1>3, <1>7, <1>8 DEF Loads, Synced, HistEnd, masterVars
<1>10. \A h \in Seq(Unit) : Held(h)' => h \o net' = rest
  <2> TAKE h \in Seq(Unit)
  <2>1. Held(h)' => h = <<>>
    BY <1>1, <1>3, <1>5, HeldCast DEF IInv
  <2>2. <<>> \o rest = rest /\ net' = rest
    BY <1>1, <1>7, JoinNothing DEF masterVars
  <2> QED BY <2>1, <2>2
<1>11. Carried'
  BY <1>1, <1>9, <1>10, CarriesLoading DEF Receives, Continue
<1>12. Peer' /\ Reads' /\ Flows'
  BY <1>1, <1>3, LoadingOn DEF masterVars
<1>13. Books'
  <2>1. ModesOK(mb', mode')
    BY <1>1, <1>5, <1>6, ModesCast DEF Course, IInv
  <2> QED BY <1>1, <1>2, <1>6, <2>1 DEF Course, Books, ModesOK
<1>14. Known'
  BY <1>1 DEF Known, Receives
<1> QED BY <1>11, <1>12, <1>13, <1>14 DEF Course

\* A piece of the snapshot: a cast to save it, in front of what is still to come.
LEMMA CourseBulk == ASSUME IInv, Course, RecvBulk PROVE Course'
<1> DEFINE data == Head(mb).data
           num == IF state = "buffering" THEN 1 ELSE 0
           m == Msg("save_rdb", data, num)
<1>1. /\ where = "reply" /\ mb # <<>> /\ Result \in {"load_stream", "load_buffer"} /\ state \in Loading
      /\ Continue(<<m>>) /\ state' \in {"payload", "buffering"} /\ UNCHANGED masterVars
      /\ mode' = mode /\ runid' = runid /\ offset' = offset /\ buffer' = buffer /\ file' = file
      /\ fed' = fed /\ tainted' = tainted /\ acked' = acked
  BY DEF RecvBulk, Received, ghostVars
<1>2. PICK old : old = data
  OBVIOUS
<1>3. /\ old \in Seq(Unit) /\ old # <<>> /\ NoneOf(Tail(mb), Casts)
      /\ Underway((Kept \o old) \o net)
      /\ Result = ChunkResult(old)
  BY <1>1, <1>2, SyncTaken
<1>4. /\ m \in Message /\ m.t = "save_rdb" /\ m.data = old /\ m.n = num /\ num \in {0, 1}
      /\ (num = 0 <=> state # "buffering")
  <2>1. num \in Nat /\ data \in Seq(Unit)
    BY <1>2, <1>3
  <2>2. m \in Message
    BY <2>1, MakeMessage DEF Casts
  <2> QED BY <1>2, <2>2 DEF Msg
<1> HIDE DEF data, m, num
<1>5. Kept = (IF state = "buffering" THEN file ELSE <<>>) /\ net \in Seq(Unit) /\ file \in Seq(Unit)
  BY <1>1 DEF Kept, IInv, TypeOK, MasterTypeOK, ServerTypeOK
<1>6. PICK rest : rest = (Kept \o old) \o net
  OBVIOUS
<1>7. Loads(rest) /\ req.c = "none" /\ (state = "load" => mode # "psync")
  <2>1. CASE state \in {"payload", "buffering"}
    BY <1>3, <1>6, <2>1 DEF Underway, Receives, Loads
  <2>2. CASE state = "load"
    <3>1. old[1].k \notin {"continue", "fullresync", "err"}
      BY <1>1, <1>3, DataIs
    <3>2. Bulk(old \o net)
      BY <1>1, <1>2, <3>1, <2>2, AnswerTaken DEF data
    <3>3. rest = old \o net
      BY <1>3, <1>5, <1>6, <2>2, JoinNothing
    <3> QED BY <3>2, <3>3 DEF Bulk, Loads
  <2> QED BY <1>1, <2>1, <2>2 DEF Loading
<1>8. Loads(rest)'
  BY <1>1, <1>7, LoadsSame DEF masterVars
<1>9. \A h \in Seq(Unit) : Held(h)' => h \o net' = rest
  <2> SUFFICES ASSUME NEW h \in Seq(Unit), Held(h)' PROVE h \o net' = rest
    OBVIOUS
  <2>1. h = (IF num = 0 THEN old ELSE file' \o old)
    BY <1>1, <1>3, <1>4, HeldCast DEF IInv
  <2>2. Kept \o old = h
    BY <1>1, <1>3, <1>4, <1>5, <2>1, JoinNothing
  <2> QED BY <1>1, <1>6, <2>2 DEF masterVars
<1>10. Carried'
  BY <1>1, <1>8, <1>9, CarriesLoading DEF Receives, Continue
<1>11. Peer' /\ Reads' /\ Flows'
  BY <1>1, <1>7, LoadingOn DEF masterVars
<1>12. Books'
  <2>1. ModesOK(mb', mode')
    BY <1>1, <1>4, ModesCast DEF Course, IInv
  <2>2. mode = "psync" => runid # NoRunId
    BY <1>1, <1>7 DEF Course, Books, Loading
  <2> QED BY <1>1, <2>1, <2>2, BooksKept DEF Course, Loading
<1>13. Known'
  BY <1>1 DEF Known, Receives
<1> QED BY <1>10, <1>11, <1>12, <1>13 DEF Course

-----------------------------------------------------------------------------
(* The dump file.                                                           *)

\* What rdb:save/3 drops in mode 0 is a prefix.
LEMMA NewlineDrop ==
    ASSUME NEW s \in Seq(Unit)
    PROVE  /\ AfterNewline(s) \in Seq(Unit)
           /\ \E a \in Seq(Unit) : s = a \o AfterNewline(s)
<1> DEFINE nl == {i \in 1 .. Len(s) : s[i].k \in NewlineEnd}
           end == CHOOSE i \in nl : \A j \in nl : i <= j
<1>1. CASE nl = {}
  <2>1. AfterNewline(s) = <<>>
    BY <1>1 DEF AfterNewline
  <2> QED BY <2>1, EmptySeqs, JoinNothing
<1>2. CASE nl # {}
  <2>1. nl \subseteq Nat
    OBVIOUS
  <2>2. \E i \in nl : \A j \in nl : i <= j
    BY <1>2, <2>1, LeastElement
  <2>3. end \in nl
    BY <2>2
  <2>4. end \in 0 .. Len(s)
    BY <2>3
  <2>5. AfterNewline(s) = SubSeq(s, 1 + end, Len(s))
    BY <1>2 DEF AfterNewline
  <2> HIDE DEF nl, end
  <2>6. PICK k \in 0 .. Len(s) : k = end
    BY <2>4
  <2>7. AfterNewline(s) = SubSeq(s, k + 1, Len(s))
    BY <2>5, <2>6
  <2>8. SubSeq(s, 1, k) \o SubSeq(s, k + 1, Len(s)) = s
    BY SplitUnits
  <2>9. SubSeq(s, 1, k) \in Seq(Unit) /\ SubSeq(s, k + 1, Len(s)) \in Seq(Unit)
    BY FrontUnits, BackUnits
  <2> QED BY <2>7, <2>8, <2>9
<1> QED BY <1>1, <1>2

\* The dump file holds what was received of the synchronisation.
LEMMA SavedLoads ==
    ASSUME IInv, Course, where = "idle", mb # <<>>, Head(mb).t = "save_rdb", Receives,
           NEW new, new = Saved
    PROVE  /\ new \in Seq(Unit) /\ Loads(new \o net)
           /\ NoneOf(Tail(mb), Casts) /\ NoneOf(Tail(mb), {"tcp"})
<1>1. /\ Held(CastHead(Head(mb)))
      /\ NoneOf(Tail(mb), Casts) /\ NoneOf(Tail(mb), {"tcp"})
  BY TookCast, NoSocket DEF Casts, Receives
<1>2. PICK data \in Seq(Unit) : data = Head(mb).data
  BY HeadParts DEF IInv
<1>3. file \in Seq(Unit) /\ net \in Seq(Unit)
  BY DEF IInv, TypeOK, MasterTypeOK, ServerTypeOK
<1>4. PICK held \in Seq(Unit) : held = CastHead(Head(mb)) /\ held = (IF Head(mb).n = 0 THEN data ELSE file \o data)
  <2>1. CastHead(Head(mb)) = (IF Head(mb).n = 0 THEN data ELSE file \o data)
    BY <1>2 DEF CastHead
  <2>2. data \in Seq(Unit) /\ file \o data \in Seq(Unit)
    BY <1>3, JoinUnits
  <2> QED BY <2>1, <2>2
<1>5. Loads(held \o net)
  <2>1. held \o net \in Seq(Unit)
    BY <1>3, JoinUnits
  <2> QED BY <1>1, <1>4, <2>1 DEF Course, Carried, Underway
<1>6. CASE Head(mb).n = 0
  <2>1. new = AfterNewline(data)
    BY <1>2, <1>6 DEF Saved, Save
  <2>2. new \in Seq(Unit)
    BY <2>1, NewlineDrop
  <2>3. PICK a \in Seq(Unit) : data = a \o new
    BY <2>1, NewlineDrop
  <2>4. PICK at \in Nat : Synced(held \o net, at) /\ (mode = "psync" => offset = at)
    BY <1>5 DEF Loads
  <2>5. held \o net = a \o (new \o net)
    <3>1. held = a \o new
      BY <1>4, <1>6, <2>3
    <3> DEFINE Regroups(x, y, z) == (x \o y) \o z = x \o (y \o z)
    <3>2. \A x, y, z \in Seq(Unit) : Regroups(x, y, z)
      BY JoinThree
    <3> HIDE DEF Regroups
    <3>3. Regroups(a, new, net)
      BY <1>3, <2>2, <3>2
    <3> QED BY <3>1, <3>3, Zenon DEF Regroups
  <2>6. PICK rest \in Seq(Unit) : rest = new \o net
    BY <1>3, <2>2, JoinUnits
  <2>7. Synced(a \o rest, at)
    BY <2>4, <2>5, <2>6
  <2>8. Synced(rest, at)
    BY <2>7, SyncedDrop
  <2> QED BY <1>1, <1>5, <2>2, <2>4, <2>6, <2>8 DEF Loads
<1>7. CASE Head(mb).n # 0
  <2>1. new = held
    BY <1>2, <1>4, <1>7 DEF Saved, Save
  <2> QED BY <1>1, <1>5, <2>1
<1> QED BY <1>6, <1>7

LEMMA CourseSave == ASSUME IInv, Course, SaveBuffering \/ SavePayload PROVE Course'
<1>1. /\ where = "idle" /\ mb # <<>> /\ Head(mb).t = "save_rdb" /\ Receives
      /\ state' = state /\ UNCHANGED masterVars /\ mode' = mode /\ runid' = runid /\ offset' = offset
      /\ buffer' = buffer /\ file' = Saved
      /\ fed' = fed /\ tainted' = tainted /\ acked' = acked
  BY DEF SaveBuffering, SavePayload, Handles, Receives, stateVars, ghostVars
<1>2. PICK new : new = Saved
  OBVIOUS
<1>3. /\ new \in Seq(Unit) /\ Loads(new \o net)
      /\ NoneOf(Tail(mb), Casts) /\ NoneOf(Tail(mb), {"tcp"})
  BY <1>1, <1>2, SavedLoads
<1>4. PICK rest : rest = new \o net
  OBVIOUS
<1>5. Loads(rest)' /\ net' = net
  BY <1>1, <1>3, <1>4, LoadsSame DEF masterVars
<1>6. req.c = "none"
  BY <1>3 DEF Loads
<1>7. Known'
  BY <1>1, KnownKept DEF Course, Receives
<1>8. CASE SaveBuffering
  <2>1. where' = "reply" /\ mb' = Tail(mb) /\ state = "buffering"
    BY <1>8 DEF SaveBuffering
  <2>2. \A h \in Seq(Unit) : Held(h)' => h \o net' = rest
    <3> TAKE h \in Seq(Unit)
    <3>1. Held(h)' => h = new
      BY <1>1, <1>2, <1>3, <2>1, HeldWait
    <3> QED BY <1>4, <1>5, <3>1
  <2>3. Carried'
    BY <1>1, <1>5, <2>1, <2>2, CarriesLoading DEF Receives
  <2>4. Peer' /\ Reads' /\ Flows'
    <3>1. Peer'
      BY <1>1, <1>6, <2>1, PeerSame DEF Course, masterVars
    <3> QED BY <1>1, <1>3, <2>1, <3>1 DEF Reads, Flows, NoneOf
  <2>5. Books'
    <3>1. ModesOK(mb', mode')
      BY <1>1, <2>1, ModesTail DEF Course, IInv
    <3> QED BY <1>1, <2>1, <3>1, BooksKept DEF Course, Books
  <2> QED BY <1>7, <2>3, <2>4, <2>5 DEF Course
<1>9. CASE SavePayload
  <2> DEFINE m == Plain("load_rdb")
  <2>1. Continue(<<m>>) /\ state = "payload"
    BY <1>9 DEF SavePayload
  <2>2. m \in Message /\ m.t = "load_rdb"
    BY PlainMessage DEF Casts
  <2> HIDE DEF m
  <2>3. \A h \in Seq(Unit) : Held(h)' => h \o net' = rest
    <3> TAKE h \in Seq(Unit)
    <3>1. Held(h)' => h = new
      BY <1>1, <1>2, <1>3, <2>1, <2>2, HeldCast DEF IInv
    <3> QED BY <1>4, <1>5, <3>1
  <2>4. Carried'
    BY <1>1, <1>5, <2>1, <2>3, CarriesLoading DEF Receives, Continue
  <2>5. Peer' /\ Reads' /\ Flows'
    BY <1>1, <1>6, <2>1, LoadingOn DEF masterVars
  <2>6. Books'
    <3>1. ModesOK(mb', mode')
      BY <1>1, <2>1, <2>2, ModesCast DEF Course, IInv
    <3> QED BY <1>1, <2>1, <3>1, BooksKept DEF Course, Books
  <2> QED BY <1>7, <2>4, <2>5, <2>6 DEF Course
<1> QED BY <1>8, <1>9

\* A whole snapshot in the dump file places the stretch that it belongs to: what
\* follows the EOF opcode, in the file and on its way, is the history behind it.
LEMMA SnapshotPlaced ==
    ASSUME TypeOK, Loadable(file), NEW at, Synced(file \o net, at)
    PROVE  /\ EofAt(file) \in 2 .. Len(file)
           /\ at \in Nat /\ at % CmdUnits = 0 /\ file[1].r = at
           /\ \E last \in Nat : last = at + Len(AfterEof(file)) /\ at <= last /\ Ahead(net, last)
           /\ AfterEof(file) \in Seq(Unit)
<1> DEFINE all == file \o net
           e == EofAt(file)
<1>1. file \in Seq(Unit) /\ net \in Seq(Unit) /\ mphase \in {"none", "cmd", "bgsave", "online"}
      /\ HistEnd \in Nat
  BY HistEndIs DEF TypeOK, ServerTypeOK, MasterTypeOK
<1>2. e \in 2 .. Len(file) /\ EndsAt(file, e)
  BY DEF Loadable, EofAt
<1>3. PICK n \in Nat, k \in Nat, z \in Nat :
          n = Len(file) /\ k = Len(net) /\ z = e /\ z \in 2 .. n
  BY <1>1, <1>2
<1>4. /\ all \in Seq(Unit) /\ Len(all) = n + k
      /\ \A i \in 1 .. n : all[i] = file[i]
      /\ \A i \in 1 .. k : all[n + i] = net[i]
  BY <1>1, <1>3, JoinUnits
<1> HIDE DEF all, e
<1>5. /\ at \in Nat /\ at % CmdUnits = 0 /\ at <= HistEnd /\ mphase # "cmd"
      /\ \E y \in Int, size \in Nat :
            /\ Wire(all, at, y, size)
            /\ at + Len(all) - y <= HistEnd
            /\ mphase = "online" => y <= Len(all) /\ at + Len(all) - y = mpos
            /\ mphase = "bgsave" => Len(all) < y - size - 2 /\ mpos = at
  BY DEF Synced, SyncedAt, all
<1>6. PICK y \in Int, size \in Nat :
            /\ Wire(all, at, y, size)
            /\ at + (n + k) - y <= HistEnd
            /\ mphase = "online" => y <= n + k /\ at + (n + k) - y = mpos
            /\ mphase = "bgsave" => n + k < y - size - 2 /\ mpos = at
  BY <1>4, <1>5
<1>7. \A p \in Nat \ {0} : HistUnit(p).k \in {"lf", "body", "head"}
  BY HistUnitIs
<1>8. file[1].r = at
  <2>1. all[1] = file[1] /\ 1 \in 1 .. Len(all) /\ file[1].k = "magic"
    BY <1>2, <1>3, <1>4 DEF EndsAt
  <2>2. WireUnit(all[1], 1, at, y, size)
    BY <1>6, <2>1 DEF Wire
  <2>3. ~(1 > y /\ all[1] = HistUnit(at + 1 - y))
    <3> SUFFICES ASSUME 1 > y PROVE HistUnit(at + 1 - y).k # "magic"
      BY <2>1
    <3>1. at + 1 - y \in Nat \ {0}
      BY <1>5
    <3> QED BY <1>7, <3>1
  <2> QED BY <2>1, <2>2, <2>3 DEF WireUnit, IsKey, Mk
<1>9. y = z
  <2>1. z \in 1 .. n /\ z \in 1 .. Len(all)
    BY <1>3, <1>4
  <2>2. all[z] = file[z] /\ file[z].k = "eof"
    BY <1>2, <1>3, <1>4, <2>1 DEF EndsAt
  <2>3. WireUnit(all[z], z, at, y, size)
    BY <1>6, <2>1 DEF Wire
  <2>4. ~(z > y /\ all[z] = HistUnit(at + z - y))
    <3> SUFFICES ASSUME z > y PROVE HistUnit(at + z - y).k # "eof"
      BY <2>2
    <3>1. at + z - y \in Nat \ {0}
      BY <1>5
    <3> QED BY <1>7, <3>1
  <2> QED BY <2>2, <2>3, <2>4 DEF WireUnit, IsKey, Mk
<1>10. AfterEof(file) \in Seq(Unit) /\ Len(AfterEof(file)) = n - z
  <2>1. z \in 0 .. Len(file)
    BY <1>3
  <2>2. AfterEof(file) = SubSeq(file, z + 1, Len(file))
    BY <1>3 DEF AfterEof, e
  <2> QED BY <1>1, <1>3, <2>1, <2>2, BackUnits
<1>11. PICK last \in Nat, to \in Nat : last = at + (n - z) /\ to = last + k
  <2>1. n - z \in Nat /\ at \in Nat
    BY <1>3, <1>5
  <2>2. at + (n - z) \in Nat /\ (at + (n - z)) + k \in Nat
    BY <2>1
  <2> QED BY <2>2
<1>12. last = at + Len(AfterEof(file)) /\ at <= last
  <2>1. n - z \in Nat /\ Len(AfterEof(file)) = n - z
    BY <1>3, <1>10
  <2> QED BY <1>5, <1>11, <2>1
<1>13. net = HistUnits(last + 1, to)
  <2>1. last + 1 \in Nat \ {0} /\ last + 1 <= to + 1 /\ k = to - (last + 1) + 1
    BY <1>11
  <2>2. ASSUME NEW i \in 1 .. k PROVE net[i] = HistUnit((last + 1) + i - 1)
    <3>1. n + i \in 1 .. Len(all) /\ n + i > y /\ at + (n + i) - y = (last + 1) + i - 1
      <4>1. n + i \in 1 .. n + k /\ n + i > z /\ at \in Int
        BY <1>3, <1>5
      <4>2. at + (n + i) - z = (last + 1) + i - 1
        BY <1>5, <1>11
      <4> QED BY <1>4, <1>9, <4>1, <4>2
    <3>2. WireUnit(all[n + i], n + i, at, y, size)
      BY <1>6, <3>1 DEF Wire
    <3>3. all[n + i] = HistUnit(at + (n + i) - y)
      BY <3>1, <3>2 DEF WireUnit
    <3> QED BY <1>4, <3>1, <3>3
  <2>3. PICK first \in Nat \ {0} : first = last + 1
    BY <2>1
  <2>4. Len(net) = to - first + 1 /\ \A i \in 1 .. to - first + 1 : net[i] = HistUnit(first + i - 1)
    BY <1>3, <2>1, <2>2, <2>3
  <2>5. net = HistUnits(first, to)
    BY <1>1, <2>1, <2>3, <2>4, HistEqual
  <2> QED BY <2>3, <2>5
<1>14. Ahead(net, last)
  <2>1. to = at + (n + k) - y /\ last <= to
    BY <1>3, <1>5, <1>9, <1>11
  <2>2. mphase # "bgsave"
    BY <1>3, <1>6, <1>9
  <2> QED BY <1>1, <1>5, <1>6, <1>13, <2>1, <2>2 DEF Ahead
<1> QED BY <1>2, <1>3, <1>5, <1>8, <1>10, <1>12, <1>14 DEF e

\* The snapshot is loaded and the stream begins behind what the dump file holds.
LEMMA CourseLoad == ASSUME IInv, Course, LoadRdb PROVE Course'
<1> DEFINE m == Plain("replication")
           msgs == LoadMessages \o <<m>>
<1>1. /\ where = "idle" /\ mb # <<>> /\ Head(mb).t = "load_rdb" /\ state = "payload" /\ Loadable(file)
      /\ Continue(msgs) /\ state' = "stream" /\ UNCHANGED masterVars
      /\ mode' = mode /\ runid' = runid /\ offset' = offset /\ buffer' = buffer /\ file' = file
      /\ fed' = file[1].r + Len(AfterEof(file)) /\ acked' = acked
      /\ tainted' = (IF AfterEof(file) = <<>> THEN {} ELSE {"lost"})
                      \cup (IF buffer = <<>> THEN {} ELSE {"stale"})
  BY DEF LoadRdb, Handles
<1>2. /\ Held(CastHead(Head(mb))) /\ CastHead(Head(mb)) = file
      /\ NoneOf(Tail(mb), Casts) /\ NoneOf(Tail(mb), {"tcp"})
  BY <1>1, TookCast, NoSocket DEF CastHead, Casts
<1>3. TypeOK /\ file \in Seq(Unit) /\ net \in Seq(Unit) /\ Tail(mb) \in Seq(Message)
  BY <1>1, HeadParts DEF IInv, TypeOK, ServerTypeOK, MasterTypeOK
<1>4. Loads(file \o net)
  <2>1. file \o net \in Seq(Unit)
    BY <1>3, JoinUnits
  <2> QED BY <1>1, <1>2, <1>3, <2>1 DEF Course, Carried, Underway, Receives
<1>5. PICK at \in Nat : Synced(file \o net, at) /\ (mode = "psync" => offset = at)
  BY <1>4 DEF Loads
<1>6. /\ EofAt(file) \in 2 .. Len(file)
      /\ at % CmdUnits = 0 /\ file[1].r = at
      /\ \E last \in Nat : last = at + Len(AfterEof(file)) /\ at <= last /\ Ahead(net, last)
      /\ AfterEof(file) \in Seq(Unit)
  BY <1>1, <1>3, <1>5, SnapshotPlaced
<1>7. PICK last \in Nat : last = at + Len(AfterEof(file)) /\ at <= last /\ Ahead(net, last)
  BY <1>6
<1>8. /\ fed' = last
      /\ "stale" \notin tainted' => buffer = <<>>
      /\ tainted' = {} => last = at
  <2>1. fed' = last
    BY <1>1, <1>6, <1>7
  <2>2. tainted' = {} => AfterEof(file) = <<>>
    BY <1>1
  <2>3. AfterEof(file) = <<>> => last = at
    BY <1>7
  <2> QED BY <1>1, <2>1, <2>2, <2>3
<1>9. /\ m \in Message /\ m.t = "replication"
      /\ LoadMessages \in Seq(Message) /\ msgs \in Seq(Message)
      /\ mb' = Tail(mb) \o msgs /\ mb' \in Seq(Message)
  <2>1. m \in Message /\ m.t = "replication"
    BY PlainMessage DEF Casts
  <2>2. LoadMessages \in Seq(Message)
    BY <1>3, <1>6, LoadMessagesType
  <2>3. <<m>> \in Seq(Message)
    BY <2>1
  <2>4. msgs \in Seq(Message)
    BY <2>2, <2>3, JoinMessages
  <2> HIDE DEF msgs, m
  <2>5. Tail(mb) \o msgs \in Seq(Message)
    BY <1>3, <2>4, JoinMessages
  <2> QED BY <1>1, <2>1, <2>2, <2>4, <2>5 DEF Continue
<1>10. NoneOf(mb', {"tcp"}) /\ NoneOf(mb', {"psync", "sync"})
  <2>1. NoneOf(LoadMessages, {"tcp"}) /\ NoneOf(LoadMessages, {"psync", "sync"})
    BY <1>3, <1>6, LoadMessagesTypes DEF NoneOf
  <2>2. <<m>> \in Seq(Message) /\ NoneOf(<<m>>, {"tcp"}) /\ NoneOf(<<m>>, {"psync", "sync"})
    BY <1>9 DEF NoneOf
  <2>3. NoneOf(msgs, {"tcp"}) /\ NoneOf(msgs, {"psync", "sync"})
    BY <1>9, <2>1, <2>2, ConcatNone
  <2>4. NoneOf(Tail(mb), {"psync", "sync"})
    BY <1>2 DEF NoneOf, Casts
  <2> HIDE DEF msgs
  <2> QED BY <1>2, <1>3, <1>9, <2>3, <2>4, ConcatNone
<1> HIDE DEF m, msgs
<1>11. where' = "idle" /\ req.c = "none" /\ net' = net
  BY <1>1, <1>4 DEF Continue, Loads, masterVars
<1>12. Spans(mb', last, last)
  <2>1. PICK box \in Seq(Message) : box = mb'
    BY <1>9
  <2>2. NoneOf(box, {"tcp"})
    BY <1>10, <2>1
  <2> QED BY <2>1, <2>2, SpansQuiet
<1>13. Ahead(net, last)'
  <2>1. mphase' = mphase /\ mpos' = mpos /\ HistEnd' = HistEnd
    BY <1>1 DEF masterVars, HistEnd
  <2> QED BY <1>7, <1>11, <2>1 DEF Ahead
<1>14. PICK from \in Nat \ {0} : from = last + 1
  OBVIOUS
<1>15. ASSUME "stale" \notin tainted' PROVE Buffered(last)'
  <2>1. buffer' = HistUnits(from, last)
    <3>1. HistUnits(from, from - 1) = <<>> /\ from - 1 = last
      BY <1>14, HistNothing
    <3> QED BY <1>1, <1>8, <1>15, <3>1
  <2>2. Position(from)'
    <3>1. from = fed' + 1
      BY <1>8, <1>14
    <3>2. mode' = "psync" => offset' <= fed'
      BY <1>1, <1>5, <1>7, <1>8
    <3>3. tainted' = {} => fed' % CmdUnits = 0 /\ (mode' = "psync" => offset' >= fed')
      BY <1>1, <1>5, <1>6, <1>8
    <3> QED BY <3>1, <3>2, <3>3 DEF Position
  <2>3. from <= last + 1
    BY <1>14
  <2> QED BY <2>1, <2>2, <2>3 DEF Buffered
<1>16. Flows'
  BY <1>1, <1>11, <1>12, <1>13, <1>15, FlowsIs DEF masterVars
<1>17. Carried'
  BY <1>1, <1>11, CarriesNothing DEF Greeting, Resting, Answering, Receives
<1>18. Peer'
  BY <1>1, <1>11, PeerSame DEF Course, masterVars
<1>19. Reads'
  BY <1>11 DEF Reads
<1>20. Books'
  <2>1. ModesOK(mb', mode')
    BY <1>10 DEF NoneOf, ModesOK
  <2>2. fed' >= 0 /\ acked' <= fed' + 1
    BY <1>1, <1>8 DEF Course, Books
  <2>3. mode' = "psync" => runid' # NoRunId
    BY <1>1 DEF Course, Books
  <2> QED BY <1>1, <2>1, <2>2, <2>3 DEF Books, ModesOK
<1>21. Known'
  <2>1. mode' = "psync" => offset' <= fed'
    BY <1>1, <1>5, <1>7, <1>8
  <2>2. tainted' = {} => fed' % CmdUnits = 0 /\ (mode' = "psync" => offset' >= fed')
    BY <1>1, <1>5, <1>6, <1>8
  <2> QED BY <2>1, <2>2 DEF Known
<1> QED BY <1>16, <1>17, <1>18, <1>19, <1>20, <1>21 DEF Course

LEMMA CourseSync ==
    ASSUME IInv, Course,
           \/ RecvContinue \/ RecvFullResync \/ RecvBulk \/ RecvFailed
           \/ SaveBuffering \/ SavePayload \/ LoadRdb \/ LoadFailed
    PROVE  Course'
<1>1. CASE RecvFailed \/ LoadFailed
  BY <1>1, CourseStop DEF RecvFailed, LoadFailed
<1> QED BY <1>1, CourseContinue, CourseFullResync, CourseBulk, CourseSave, CourseLoad
=============================================================================
