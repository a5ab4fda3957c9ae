------------------------------- MODULE RioProofs -------------------------------
(***************************************************************************)
(* What the sockets of rio.c get, for every number of sockets, every size  *)
(* of the buffer and of a chunk, every sequence of commands, and write(2)  *)
(* failing at any byte of any socket.                                      *)
(***************************************************************************)
EXTENDS Rio, SequenceTheorems, WellFoundedInduction, TLAPS

(* Sequences joined one after the other.                                    *)

LEMMA JoinIn ==
    ASSUME NEW S, NEW s \in Seq(S), NEW t \in Seq(S)
    PROVE  s \o t \in Seq(S) /\ Len(s \o t) = Len(s) + Len(t)
BY ConcatProperties

LEMMA JoinEmpty ==
    ASSUME NEW S, NEW s \in Seq(S)
    PROVE  << >> \o s = s /\ s \o << >> = s /\ << >> \in Seq(S)
BY ConcatEmptySeq, EmptySeq

LEMMA JoinJoin ==
    ASSUME NEW S, NEW s \in Seq(S), NEW t \in Seq(S), NEW u \in Seq(S)
    PROVE  (s \o t) \o u = s \o (t \o u)
BY ConcatAssociative

LEMMA EmptyLen == Len(<< >>) = 0
OBVIOUS

LEMMA OneOf ==
    ASSUME NEW T, NEW x \in T
    PROVE  <<x>> \in Seq(T) /\ Len(<<x>>) = 1 /\ <<x>> # << >> /\ <<x>>[1] = x
OBVIOUS

LEMMA OneMore ==
    ASSUME NEW T, NEW s \in Seq(T), NEW x \in T
    PROVE  /\ Append(s, x) \in Seq(T) /\ Append(s, x) # << >> /\ Len(Append(s, x)) = Len(s) + 1
           /\ Append(s, x)[Len(s) + 1] = x /\ \A i \in 1 .. Len(s) : Append(s, x)[i] = s[i]
OBVIOUS

LEMMA FirstOf ==
    ASSUME NEW T, NEW s \in Seq(T), s # << >>
    PROVE  /\ Len(s) \in Nat /\ Len(s) > 0 /\ Head(s) \in T /\ Head(s) = s[1]
           /\ Tail(s) \in Seq(T) /\ Len(Tail(s)) = Len(s) - 1
           /\ \A i \in 1 .. Len(s) - 1 : Tail(s)[i] = s[i + 1]
OBVIOUS

LEMMA LeastNumber ==
    ASSUME NEW S, S \subseteq Nat, S # {}
    PROVE  \E i \in S : \A j \in S : i <= j
<1>1. \E i \in S : \A j \in S : ~(<<j, i>> \in OpToRel(<, Nat))
  BY WFMin, NatLessThanWellFounded, Zenon
<1>2. PICK i \in S : \A j \in S : ~(j < i)
  BY <1>1, Zenon DEF OpToRel
<1> QED BY <1>2

\* The first m sequences of s, joined one after the other.
Joined(S, s, G, m) ==
    /\ G \in [1 .. m -> Seq(S)]
    /\ G[1] = s[1]
    /\ \A i \in 2 .. m : G[i] = G[i - 1] \o s[i]

\* With one sequence more.
LEMMA JoinOneMore ==
    ASSUME NEW S, NEW s, NEW k \in Nat, k > 1, s[k] \in Seq(S),
           NEW G, Joined(S, s, G, k - 1)
    PROVE  \E H : Joined(S, s, H, k) /\ H[k] = G[k - 1] \o s[k]
<1>1. /\ G \in [1 .. k - 1 -> Seq(S)] /\ G[1] = s[1]
      /\ \A i \in 2 .. k - 1 : G[i] = G[i - 1] \o s[i]
  BY Zenon DEF Joined
<1>2. PICK last \in Seq(S) : last = G[k - 1] \o s[k]
  <2>1. k - 1 \in 1 .. k - 1
    OBVIOUS
  <2>2. G[k - 1] \in Seq(S)
    BY <1>1, <2>1
  <2> QED BY <2>2, JoinIn
<1> DEFINE H == [i \in 1 .. k |-> IF i = k THEN last ELSE G[i]]
<1>3. \A i \in 1 .. k : i # k => i \in 1 .. k - 1
  OBVIOUS
<1>4. H \in [1 .. k -> Seq(S)] /\ H[k] = last
  <2>1. PICK T : T = Seq(S)
    OBVIOUS
  <2>2. last \in T /\ G \in [1 .. k - 1 -> T]
    BY <1>1, <1>2, <2>1
  <2>3. H \in [1 .. k -> T] /\ H[k] = last
    BY <1>3, <2>2
  <2> QED BY <2>1, <2>3
<1>5. H[1] = s[1]
  BY <1>1
<1>6. ASSUME NEW i \in 2 .. k PROVE H[i] = H[i - 1] \o s[i]
  <2>1. i \in 1 .. k /\ i - 1 \in 1 .. k /\ i - 1 # k
    OBVIOUS
  <2>2. H[i - 1] = G[i - 1]
    BY <2>1
  <2>3. CASE i = k
    BY <1>2, <2>1, <2>2, <2>3
  <2>4. CASE i # k
    <3>1. i \in 2 .. k - 1 /\ H[i] = G[i]
      BY <2>1, <2>4
    <3> QED BY <1>1, <2>2, <3>1
  <2> QED BY <2>3, <2>4
<1>7. Joined(S, s, H, k)
  BY <1>4, <1>5, <1>6, Zenon DEF Joined
<1> QED BY <1>2, <1>4, <1>7

\* Any number of sequences can be joined: no least one cannot.
LEMMA CanJoin ==
    ASSUME NEW S, NEW s \in Seq(Seq(S)), NEW m \in 1 .. Len(s)
    PROVE  \E G : Joined(S, s, G, m)
<1> DEFINE Bad == {k \in 1 .. Len(s) : ~\E G : Joined(S, s, G, k)}
<1>1. Bad \subseteq Nat /\ \A k : k \in Bad <=> k \in 1 .. Len(s) /\ ~\E G : Joined(S, s, G, k)
  OBVIOUS
<1> HIDE DEF Bad
<1> SUFFICES ASSUME Bad # {} PROVE FALSE
  BY <1>1
<1>2. PICK k \in Bad : \A j \in Bad : k <= j
  BY <1>1, LeastNumber
<1>3. k \in 1 .. Len(s) /\ ~\E G : Joined(S, s, G, k)
  BY <1>1
<1>4. s[k] \in Seq(S) /\ s[1] \in Seq(S)
  BY <1>3
<1>5. CASE k = 1
  <2>1. Joined(S, s, [i \in 1 .. 1 |-> s[1]], 1)
    BY <1>4 DEF Joined
  <2> QED BY <1>3, <1>5, <2>1
<1>6. CASE k # 1
  <2>1. k - 1 \in 1 .. Len(s) /\ ~(k <= k - 1) /\ k \in Nat /\ k > 1
    BY <1>3, <1>6
  <2>2. k - 1 \notin Bad
    BY <1>2, <2>1
  <2>3. PICK G : Joined(S, s, G, k - 1)
    BY <1>1, <2>1, <2>2
  <2> QED BY <1>3, <1>4, <2>1, <2>3, JoinOneMore
<1> QED BY <1>5, <1>6

\* There is one way to join them.
LEMMA JoinedOnce ==
    ASSUME NEW S, NEW s, NEW m \in Nat, NEW F, Joined(S, s, F, m), NEW G, NEW n \in Nat,
           m <= n, Joined(S, s, G, n), NEW i \in 1 .. m
    PROVE  F[i] = G[i]
<1> DEFINE Bad == {k \in 1 .. m : F[k] # G[k]}
<1>1. Bad \subseteq Nat /\ \A k : k \in Bad <=> k \in 1 .. m /\ F[k] # G[k]
  OBVIOUS
<1>2. Bad = {}
  <2> SUFFICES ASSUME Bad # {} PROVE FALSE
    OBVIOUS
  <2> HIDE DEF Bad
  <2>1. PICK k \in Bad : \A j \in Bad : k <= j
    BY <1>1, LeastNumber
  <2>2. k \in 1 .. m /\ F[k] # G[k]
    BY <1>1
  <2>3. F[1] = s[1] /\ G[1] = s[1]
    BY Zenon DEF Joined
  <2>4. k # 1
    BY <2>2, <2>3
  <2>5. k \in 2 .. m /\ k \in 2 .. n /\ k - 1 \in 1 .. m /\ ~(k <= k - 1)
    BY <2>2, <2>4
  <2>6. F[k - 1] = G[k - 1]
    BY <1>1, <2>1, <2>5
  <2>7. F[k] = F[k - 1] \o s[k] /\ G[k] = G[k - 1] \o s[k]
    BY <2>5, Zenon DEF Joined
  <2> QED BY <2>2, <2>6, <2>7
<1> QED BY <1>1, <1>2

\* FlattenSeq has the last of them.
LEMMA FlattenIs ==
    ASSUME NEW S, NEW s \in Seq(Seq(S)), s # << >>
    PROVE  \E F : Joined(S, s, F, Len(s)) /\ FlattenSeq(s) = F[Len(s)]
<1> DEFINE n == Len(s)
           Rec(f) == [i \in 1 .. Len(s) |-> IF i = 1 THEN s[i] ELSE f[i - 1] \o s[i]]
           F == CHOOSE f : f = Rec(f)
<1>0. n \in Nat /\ n \in 1 .. n /\ n # 0
  OBVIOUS
<1>1. FlattenSeq(s) = F[n]
  BY <1>0 DEF FlattenSeq
<1>2. PICK G : Joined(S, s, G, n)
  BY <1>0, CanJoin
<1>3. G \in [1 .. n -> Seq(S)] /\ G[1] = s[1] /\ \A i \in 2 .. n : G[i] = G[i - 1] \o s[i]
  BY <1>2, Zenon DEF Joined
<1>4. G = Rec(G)
  <2>1. \A i \in 1 .. n : i = 1 \/ i \in 2 .. n
    BY <1>0
  <2>2. \A i \in 1 .. n : G[i] = IF i = 1 THEN s[i] ELSE G[i - 1] \o s[i]
    BY <1>3, <2>1
  <2>3. G = [i \in 1 .. n |-> G[i]]
    BY <1>3
  <2>4. [i \in 1 .. n |-> G[i]] = [i \in 1 .. n |-> IF i = 1 THEN s[i] ELSE G[i - 1] \o s[i]]
    BY <2>2, Zenon
  <2> QED BY <2>3, <2>4
<1>5. F = Rec(F)
  BY <1>4
<1>6. DOMAIN F = 1 .. n /\ \A i \in 1 .. n : F[i] = IF i = 1 THEN s[i] ELSE F[i - 1] \o s[i]
  BY <1>5
<1>7. F = [i \in 1 .. n |-> F[i]]
  <2>1. \A f, g : f = Rec(g) => f = [i \in 1 .. n |-> f[i]]
    OBVIOUS
  <2> HIDE DEF Rec, F
  <2> QED BY <1>5, <2>1, Zenon
<1> HIDE DEF F
<1> DEFINE Bad == {k \in 1 .. n : F[k] \notin Seq(S)}
<1>8. Bad = {}
  <2> SUFFICES ASSUME Bad # {} PROVE FALSE
    OBVIOUS
  <2>1. Bad \subseteq Nat /\ \A k : k \in Bad <=> k \in 1 .. n /\ F[k] \notin Seq(S)
    OBVIOUS
  <2> HIDE DEF Bad
  <2>2. PICK k \in Bad : \A j \in Bad : k <= j
    BY <2>1, LeastNumber
  <2>3. k \in 1 .. n /\ F[k] \notin Seq(S) /\ s[k] \in Seq(S)
    BY <2>1
  <2>4. k # 1
    BY <1>6, <2>3
  <2>5. k - 1 \in 1 .. n /\ ~(k <= k - 1)
    BY <1>0, <2>3, <2>4
  <2>6. F[k - 1] \in Seq(S)
    BY <2>1, <2>2, <2>5
  <2>7. F[k] = F[k - 1] \o s[k]
    BY <1>6, <2>3, <2>4, Zenon
  <2> QED BY <2>3, <2>6, <2>7, JoinIn
<1>9. F \in [1 .. n -> Seq(S)]
  <2>1. \A k \in 1 .. n : F[k] \in Seq(S)
    BY <1>8
  <2> QED BY <1>7, <2>1
<1>10. F[1] = s[1]
  <2>1. 1 \in 1 .. n
    BY <1>0
  <2> QED BY <1>6, <2>1, Zenon
<1>11. \A i \in 2 .. n : F[i] = F[i - 1] \o s[i]
  <2>1. \A i \in 2 .. n : i \in 1 .. n /\ i # 1
    BY <1>0
  <2> QED BY <1>6, <2>1, Zenon
<1>12. Joined(S, s, F, n)
  BY <1>9, <1>10, <1>11, Zenon DEF Joined
<1> QED BY <1>1, <1>12

LEMMA FlattenEmpty == FlattenSeq(<< >>) = << >>
BY DEF FlattenSeq

LEMMA FlattenIn ==
    ASSUME NEW S, NEW s \in Seq(Seq(S))
    PROVE  FlattenSeq(s) \in Seq(S)
<1>1. CASE s = << >>
  BY <1>1, FlattenEmpty, EmptySeq
<1>2. CASE s # << >>
  <2>1. PICK F : Joined(S, s, F, Len(s)) /\ FlattenSeq(s) = F[Len(s)]
    BY <1>2, FlattenIs
  <2>2. F \in [1 .. Len(s) -> Seq(S)] /\ Len(s) \in 1 .. Len(s)
    BY <1>2, <2>1 DEF Joined
  <2> QED BY <2>1, <2>2
<1> QED BY <1>1, <1>2

LEMMA FlattenOne ==
    ASSUME NEW S, NEW x \in Seq(S)
    PROVE  FlattenSeq(<<x>>) = x
<1>1. PICK s \in Seq(Seq(S)) : s = <<x>> /\ Len(s) = 1 /\ s # << >> /\ s[1] = x
  BY OneOf, Zenon
<1>2. PICK F : Joined(S, s, F, 1) /\ FlattenSeq(s) = F[1]
  BY <1>1, FlattenIs
<1> QED BY <1>1, <1>2, Zenon DEF Joined

\* One more behind the others.
LEMMA FlattenAppend ==
    ASSUME NEW S, NEW s \in Seq(Seq(S)), NEW x \in Seq(S)
    PROVE  FlattenSeq(Append(s, x)) = FlattenSeq(s) \o x
<1>1. CASE s = << >>
  <2>1. Append(s, x) = <<x>>
    BY <1>1
  <2> QED BY <1>1, <2>1, FlattenOne, FlattenEmpty, JoinEmpty
<1>2. CASE s # << >>
  <2>1. PICK n \in Nat : n = Len(s) /\ n > 0
    BY <1>2
  <2>2. PICK t \in Seq(Seq(S)) : /\ t = Append(s, x) /\ t # << >> /\ Len(t) = n + 1
                                 /\ t[n + 1] = x /\ \A i \in 1 .. n : t[i] = s[i]
    <3>1. /\ Append(s, x) \in Seq(Seq(S)) /\ Append(s, x) # << >> /\ Len(Append(s, x)) = Len(s) + 1
          /\ Append(s, x)[Len(s) + 1] = x /\ \A i \in 1 .. Len(s) : Append(s, x)[i] = s[i]
      <4>1. PICK T : T = Seq(S)
        OBVIOUS
      <4>2. s \in Seq(T) /\ x \in T
        BY <4>1, Zenon
      <4>3. /\ Append(s, x) \in Seq(T) /\ Append(s, x) # << >> /\ Len(Append(s, x)) = Len(s) + 1
            /\ Append(s, x)[Len(s) + 1] = x /\ \A i \in 1 .. Len(s) : Append(s, x)[i] = s[i]
        BY <4>2, OneMore
      <4> QED BY <4>1, <4>3, Zenon
    <3> QED BY <2>1, <3>1, Zenon
  <2>3. PICK F : Joined(S, s, F, n) /\ FlattenSeq(s) = F[n]
    BY <1>2, <2>1, FlattenIs
  <2>4. PICK G : Joined(S, t, G, n + 1) /\ FlattenSeq(t) = G[n + 1]
    BY <2>2, FlattenIs
  <2>5. Joined(S, t, F, n)
    <3>1. 1 \in 1 .. n /\ \A i \in 2 .. n : i \in 1 .. n
      BY <2>1
    <3> QED BY <2>2, <2>3, <3>1, Zenon DEF Joined
  <2>6. F[n] = G[n]
    <3>1. n \in 1 .. n /\ n + 1 \in Nat /\ n <= n + 1
      BY <2>1
    <3> QED BY <2>4, <2>5, <3>1, JoinedOnce
  <2>7. G[n + 1] = G[n] \o t[n + 1]
    <3>1. n + 1 \in 2 .. n + 1 /\ (n + 1) - 1 = n
      BY <2>1
    <3>2. \A i \in 2 .. n + 1 : G[i] = G[i - 1] \o t[i]
      BY <2>4, Zenon DEF Joined
    <3>3. G[n + 1] = G[(n + 1) - 1] \o t[n + 1]
      BY <3>1, <3>2, Zenon
    <3> QED BY <3>1, <3>3
  <2> QED BY <2>2, <2>3, <2>4, <2>6, <2>7
<1> QED BY <1>1, <1>2

\* h, and then one by one the m sequences of t.
Behind(S, t, h, F, m) ==
    /\ F[1] = h
    /\ \A k \in 1 .. m : t[k] \in Seq(S) /\ F[k + 1] = F[k] \o t[k]

IsJoin(whole, first, second) == whole = first \o second

\* Something before all of them stays before their join.
LEMMA JoinedBehind ==
    ASSUME NEW S, NEW t, NEW m \in Nat, m > 0, NEW G, Joined(S, t, G, m), NEW h \in Seq(S), NEW F,
           Behind(S, t, h, F, m), NEW n, n = m + 1
    PROVE  IsJoin(F[n], h, G[m])
<1>0. F[1] = h /\ \A k \in 1 .. m : t[k] \in Seq(S) /\ F[k + 1] = F[k] \o t[k]
  BY DEF Behind
<1>1. G \in [1 .. m -> Seq(S)] /\ G[1] = t[1] /\ \A i \in 2 .. m : G[i] = G[i - 1] \o t[i]
  BY Zenon DEF Joined
<1> DEFINE Bad == {k \in 1 .. m : F[k + 1] # h \o G[k]}
<1>2. Bad \subseteq Nat /\ \A k : k \in Bad <=> k \in 1 .. m /\ F[k + 1] # h \o G[k]
  OBVIOUS
<1>3. Bad = {}
  <2> SUFFICES ASSUME Bad # {} PROVE FALSE
    OBVIOUS
  <2> HIDE DEF Bad
  <2>1. PICK k \in Bad : \A j \in Bad : k <= j
    BY <1>2, LeastNumber
  <2>2. k \in 1 .. m /\ F[k + 1] # h \o G[k] /\ t[k] \in Seq(S) /\ F[k + 1] = F[k] \o t[k]
    BY <1>0, <1>2
  <2>3. CASE k = 1
    BY <1>0, <1>1, <2>2, <2>3
  <2>4. CASE k # 1
    <3>1. PICK i \in 1 .. m : k = i + 1 /\ k - 1 = i /\ ~(k <= i) /\ k \in 2 .. m
      <4>1. k - 1 \in 1 .. m /\ k = (k - 1) + 1 /\ ~(k <= k - 1) /\ k \in 2 .. m
        BY <2>2, <2>4
      <4> QED BY <4>1
    <3>2. F[k] = h \o G[i]
      BY <1>2, <2>1, <3>1
    <3>3. G[k] = G[i] \o t[k] /\ G[i] \in Seq(S)
      BY <1>1, <3>1
    <3>4. (h \o G[i]) \o t[k] = h \o (G[i] \o t[k])
      <4>1. PICK g \in Seq(S), u \in Seq(S) : g = G[i] /\ u = t[k]
        BY <2>2, <3>3
      <4>2. (h \o g) \o u = h \o (g \o u)
        OBVIOUS
      <4> QED BY <4>1, <4>2
    <3> QED BY <2>2, <3>2, <3>3, <3>4
  <2> QED BY <2>3, <2>4
<1>4. m \in 1 .. m
  OBVIOUS
<1> QED BY <1>2, <1>3, <1>4 DEF IsJoin

\* The first before the others.
LEMMA FlattenHead ==
    ASSUME NEW S, NEW s \in Seq(Seq(S)), s # << >>
    PROVE  /\ Head(s) \in Seq(S) /\ Tail(s) \in Seq(Seq(S))
           /\ FlattenSeq(s) = Head(s) \o FlattenSeq(Tail(s))
<1>0. /\ Len(s) \in Nat /\ Len(s) > 0 /\ Head(s) \in Seq(S) /\ Head(s) = s[1]
      /\ Tail(s) \in Seq(Seq(S)) /\ Len(Tail(s)) = Len(s) - 1
      /\ \A i \in 1 .. Len(s) - 1 : Tail(s)[i] = s[i + 1]
  BY FirstOf, Zenon
<1>1. PICK n \in Nat : n = Len(s) /\ n > 0
  BY <1>0
<1>2. PICK h \in Seq(S), t \in Seq(Seq(S)) :
        /\ h = Head(s) /\ t = Tail(s) /\ h = s[1] /\ Len(t) = n - 1
        /\ \A i \in 1 .. n - 1 : t[i] = s[i + 1]
  BY <1>0, <1>1, Zenon
<1>3. PICK F : Joined(S, s, F, n) /\ FlattenSeq(s) = F[n]
  BY <1>1, FlattenIs
<1>4. CASE t = << >>
  <2>1. n = 1
    <3>1. Len(t) = 0
      BY <1>4, EmptyLen, Zenon
    <3>2. Len(t) = n - 1
      BY <1>2, Zenon
    <3>3. n - 1 = 0
      BY <3>1, <3>2, Zenon
    <3> QED BY ONLY <3>3, n \in Nat, SMTT(30)
  <2>2. F[1] = h
    BY <1>2, <1>3, Zenon DEF Joined
  <2>3. FlattenSeq(t) = << >> /\ h \o << >> = h
    BY <1>4, FlattenEmpty, JoinEmpty
  <2> QED BY <1>2, <1>3, <2>1, <2>2, <2>3
<1>5. CASE t # << >>
  <2>1. PICK m \in Nat : m = n - 1 /\ m > 0 /\ n = m + 1 /\ Len(t) = m
    <3>1. PICK T : T = Seq(S)
      OBVIOUS
    <3>2. Len(t) \in Nat /\ Len(t) # 0
      BY <1>5, <3>1
    <3>3. PICK l \in Nat : l = Len(t)
      BY <3>2
    <3>4. l = n - 1 /\ l # 0
      BY <1>2, <3>2, <3>3, Zenon
    <3>5. l = n - 1 /\ l > 0 /\ n = l + 1
      BY <1>1, <3>4
    <3> QED BY <3>3, <3>5, Zenon
  <2>2. PICK G : Joined(S, t, G, m) /\ FlattenSeq(t) = G[m]
    BY <1>5, <2>1, FlattenIs
  <2>3. G \in [1 .. m -> Seq(S)] /\ G[1] = t[1] /\ \A i \in 2 .. m : G[i] = G[i - 1] \o t[i]
    BY <2>2, Zenon DEF Joined
  <2>4. F[1] = h /\ \A i \in 2 .. n : F[i] = F[i - 1] \o s[i]
    BY <1>2, <1>3, Zenon DEF Joined
  <2>5. \A k \in 1 .. m : t[k] \in Seq(S) /\ F[k + 1] = F[k] \o t[k]
    <3> SUFFICES ASSUME NEW k \in 1 .. m PROVE t[k] \in Seq(S) /\ F[k + 1] = F[k] \o t[k]
      OBVIOUS
    <3>1. k + 1 \in 2 .. n /\ (k + 1) - 1 = k /\ k \in 1 .. n - 1
      BY <2>1
    <3>2. F[k + 1] = F[k] \o s[k + 1]
      BY <2>4, <3>1
    <3>3. t[k] = s[k + 1]
      BY <1>2, <3>1
    <3> QED BY <2>1, <3>2, <3>3
  <2>6. F[n] = h \o G[m]
    <3>1. Behind(S, t, h, F, m)
      BY <2>4, <2>5, Zenon DEF Behind
    <3>2. IsJoin(F[n], h, G[m])
      BY <2>1, <2>2, <3>1, JoinedBehind, Zenon
    <3> QED BY <3>2 DEF IsJoin
  <2> QED BY <1>2, <1>3, <2>1, <2>2, <2>6
<1> QED BY <1>4, <1>5

-----------------------------------------------------------------------------
(* Commands and their bytes                                                 *)

Str == Seq(Int)

LEMMA StrJoin ==
    ASSUME NEW s \in Str, NEW t \in Str
    PROVE  s \o t \in Str /\ Len(s \o t) = Len(s) + Len(t) /\ Len(s) \in Nat /\ Len(t) \in Nat
BY DEF Str

LEMMA StrAssoc ==
    ASSUME NEW s \in Str, NEW t \in Str, NEW u \in Str
    PROVE  (s \o t) \o u = s \o (t \o u)
BY DEF Str

\* Joining is hidden here: the provers need only its laws.
Cat(a, b) == a \o b

LEMMA CatIs ==
    /\ \A a, b \in Str : Cat(a, b) \in Str /\ Len(Cat(a, b)) = Len(a) + Len(b)
    /\ \A a, b, c \in Str : Cat(Cat(a, b), c) = Cat(a, Cat(b, c))
<1>1. ASSUME NEW a \in Str, NEW b \in Str
      PROVE  Cat(a, b) \in Str /\ Len(Cat(a, b)) = Len(a) + Len(b)
  BY StrJoin DEF Cat
<1>2. ASSUME NEW a \in Str, NEW b \in Str, NEW c \in Str
      PROVE  Cat(Cat(a, b), c) = Cat(a, Cat(b, c))
  BY StrAssoc DEF Cat
<1> QED BY <1>1, <1>2

\* The next part c of what is left goes over to what has been gone through.
InParts(whole, w, c, r, f) == whole = w \o ((c \o r) \o f)
Longer(x, whole, w, c, r, f) ==
  x = w \o c /\ Len(x) = Len(w) + Len(c) /\ whole = x \o (r \o f) /\ r \o f \in Str

LEMMA StrRegroup ==
    ASSUME NEW w \in Str, NEW c \in Str, NEW r \in Str, NEW f \in Str,
           NEW whole, InParts(whole, w, c, r, f)
    PROVE  \E x \in Str : Longer(x, whole, w, c, r, f)
<1>1. whole = Cat(w, Cat(Cat(c, r), f))
  BY DEF Cat, InParts
<1>2. PICK x \in Str, y \in Str :
        x = Cat(w, c) /\ Len(x) = Len(w) + Len(c) /\ y = Cat(r, f) /\ whole = Cat(x, y)
  BY <1>1, CatIs
<1> QED BY <1>2 DEF Cat, Longer

LEMMA StrEmpty ==
    /\ << >> \in Str /\ Len(<< >>) = 0
    /\ \A s \in Str : << >> \o s = s /\ s \o << >> = s
BY DEF Str

LEMMA FlattenStr ==
    ASSUME NEW s \in Seq(Str)
    PROVE  FlattenSeq(s) \in Str
BY FlattenIn DEF Str

LEMMA FlattenStrHead ==
    ASSUME NEW s \in Seq(Str), s # << >>
    PROVE  /\ Head(s) \in Str /\ Tail(s) \in Seq(Str)
           /\ IsJoin(FlattenSeq(s), Head(s), FlattenSeq(Tail(s)))
<1>1. s \in Seq(Seq(Int))
  BY DEF Str
<1>2. /\ Head(s) \in Seq(Int) /\ Tail(s) \in Seq(Seq(Int))
      /\ FlattenSeq(s) = Head(s) \o FlattenSeq(Tail(s))
  BY <1>1, FlattenHead
<1> QED BY <1>2 DEF Str, IsJoin

LEMMA FlattenStrAppend ==
    ASSUME NEW s \in Seq(Str), NEW x \in Str
    PROVE  IsJoin(FlattenSeq(Append(s, x)), FlattenSeq(s), x)
<1>1. s \in Seq(Seq(Int)) /\ x \in Seq(Int)
  BY DEF Str
<1>2. FlattenSeq(Append(s, x)) = FlattenSeq(s) \o x
  BY <1>1, FlattenAppend
<1> QED BY <1>2 DEF IsJoin

LEMMA Constants ==
    /\ NumFds \in Nat /\ NumFds > 0 /\ IOBufLen \in Nat /\ Chunk \in Nat /\ Chunk > 0
    /\ LongMax \in Nat /\ 32 <= LongMax
BY RioAssumption

LEMMA TextIs ==
    ASSUME NEW n \in Longs
    PROVE  LongText(n) \in Str /\ Len(LongText(n)) \in Nat /\ Len(LongText(n)) <= LongMax
<1>1. LongText(n) \in Seq(Int) /\ Len(LongText(n)) < 32
  BY RioAssumption
<1>2. Len(LongText(n)) \in Nat
  BY <1>1
<1> QED BY <1>1, <1>2, Constants DEF Str

LEMMA CountIs ==
    ASSUME NEW prefix \in Int, NEW count \in Nat, count <= LongMax
    PROVE  rioWriteBulkCount(prefix, count) \in Seq(Str)
<1>1. count \in Longs
  BY Constants DEF Longs
<1>2. <<prefix>> \in Str /\ <<CR, LF>> \in Str
  BY DEF Str, CR, LF
<1>3. <<prefix>> \o LongText(count) \o <<CR, LF>> \in Str
  BY <1>1, <1>2, TextIs, StrJoin
<1> QED BY <1>3, OneOf DEF rioWriteBulkCount

LEMMA StringIs ==
    ASSUME NEW str \in Str, Len(str) <= LongMax
    PROVE  rioWriteBulkString(str) \in Seq(Str)
<1>1. rioWriteBulkCount(Dollar, Len(str)) \in Seq(Str)
  <2>1. Len(str) \in Nat /\ Dollar \in Int
    BY DEF Str, Dollar
  <2> QED BY <2>1, CountIs
<1>2. (IF str = << >> THEN << >> ELSE <<str>>) \in Seq(Str)
  BY OneOf
<1>3. <<CR, LF>> \in Str
  BY DEF Str, CR, LF
<1>4. <<<<CR, LF>>>> \in Seq(Str)
  BY <1>3, OneOf
<1> DEFINE a == rioWriteBulkCount(Dollar, Len(str))
           b == IF str = << >> THEN << >> ELSE <<str>>
           c == <<<<CR, LF>>>>
<1>5. rioWriteBulkString(str) = a \o b \o c
  BY DEF rioWriteBulkString
<1> HIDE DEF a, b, c
<1>6. a \o b \in Seq(Str)
  BY <1>1, <1>2, JoinIn DEF a, b
<1>7. (a \o b) \o c \in Seq(Str)
  BY <1>4, <1>6, JoinIn DEF c
<1> QED BY <1>5, <1>7

LEMMA CallsAre ==
    ASSUME NEW cmd \in Cmds
    PROVE  CmdCalls(cmd) \in Seq(Str)
<1>1. /\ cmd \in Seq(Argument) /\ Len(cmd) <= LongMax /\ Len(cmd) \in Nat
      /\ \A i \in DOMAIN cmd : Len(cmd[i].str) <= LongMax
  BY RioAssumption
<1>2. \A i \in 1 .. Len(cmd) : ArgCalls(cmd[i]) \in Seq(Str)
  <2> SUFFICES ASSUME NEW i \in 1 .. Len(cmd) PROVE ArgCalls(cmd[i]) \in Seq(Str)
    OBVIOUS
  <2>1. cmd[i] \in Argument /\ i \in DOMAIN cmd
    BY <1>1
  <2>2. cmd[i].str \in Str /\ cmd[i].num \in Longs
    BY <2>1 DEF Argument, Str
  <2>3. rioWriteBulkLongLong(cmd[i].num) \in Seq(Str)
    <3>1. LongText(cmd[i].num) \in Str /\ Len(LongText(cmd[i].num)) <= LongMax
      BY <2>2, TextIs
    <3> QED BY <3>1, StringIs DEF rioWriteBulkLongLong
  <2>4. rioWriteBulkString(cmd[i].str) \in Seq(Str)
    BY <1>1, <2>1, <2>2, StringIs
  <2> QED BY <2>3, <2>4 DEF ArgCalls
<1>3. [i \in DOMAIN cmd |-> ArgCalls(cmd[i])] \in Seq(Seq(Str))
  <2>1. DOMAIN cmd = 1 .. Len(cmd)
    BY <1>1
  <2>2. PICK T : T = Seq(Str)
    OBVIOUS
  <2>3. [i \in 1 .. Len(cmd) |-> ArgCalls(cmd[i])] \in Seq(T)
    BY <1>1, <1>2, <2>2, IsASeq
  <2> QED BY <2>1, <2>2, <2>3
<1>4. FlattenSeq([i \in DOMAIN cmd |-> ArgCalls(cmd[i])]) \in Seq(Str)
  BY <1>3, FlattenIn
<1>5. rioWriteBulkCount(Star, Len(cmd)) \in Seq(Str)
  <2>1. Star \in Int
    BY DEF Star
  <2> QED BY <1>1, <2>1, CountIs
<1> QED BY <1>4, <1>5, JoinIn DEF CmdCalls

-----------------------------------------------------------------------------
(* What the other ends have                                                 *)

\* The part of the buffer that is still to be written out.
Unwritten == IF p = Idle THEN buf ELSE SubSeq(buf, p + 1, Len(buf))

Types ==
  /\ todo \in Seq(Str) /\ buf \in Str /\ p \in {Idle} \cup 0 .. Len(buf) /\ pos \in Nat
  /\ fds \in [Fds -> [ok : BOOLEAN, got : Str]] /\ ret \in BOOLEAN /\ cmds \in Seq(Cmds)

\* written is what rioFdsetWrite has gone through: a beginning of the stream, with what is
\* still in the buffer and in the calls behind it the whole one.  Each socket has a
\* beginning of it, and all of it if it has not failed.
Accounts(written) ==
  /\ written \in Str /\ Len(written) = pos /\ IsPrefix(written, Stream)
  /\ ret => Stream = written \o (Unwritten \o FlattenSeq(todo))
  /\ \A j \in Fds : IsPrefix(fds[j].got, written) /\ (fds[j].ok => fds[j].got = written)

\* Nothing is done any more after a failure.
Stopped == ~ret => p = Idle /\ todo = << >>

RioInv == Types /\ Stopped /\ (\E written : Accounts(written)) /\ LossIsOneChunk

\* A sequence is what it has at every place.
LEMMA SameSeq ==
    ASSUME NEW S, NEW s \in Seq(S), NEW t \in Seq(S), Len(s) = Len(t),
           \A i \in 1 .. Len(s) : s[i] = t[i]
    PROVE  s = t
BY SeqEqual

LEMMA PlacesOfJoin ==
    ASSUME NEW S, NEW s \in Seq(S), NEW t \in Seq(S)
    PROVE  /\ \A i \in 1 .. Len(s) : (s \o t)[i] = s[i]
           /\ \A i \in 1 .. Len(t) : (s \o t)[Len(s) + i] = t[i]
OBVIOUS

LEMMA PlacesOfPart ==
    ASSUME NEW S, NEW s \in Seq(S), NEW q \in Nat, NEW n \in Nat, q + n <= Len(s)
    PROVE  /\ SubSeq(s, q + 1, q + n) \in Seq(S) /\ Len(SubSeq(s, q + 1, q + n)) = n
           /\ \A i \in 1 .. n : SubSeq(s, q + 1, q + n)[i] = s[q + i]
OBVIOUS

LEMMA PrefixIs ==
    ASSUME NEW S, NEW s \in Seq(S), NEW t \in Seq(S)
    PROVE  IsPrefix(s, t) <=> Len(s) <= Len(t) /\ \A i \in 1 .. Len(s) : s[i] = t[i]
<1>1. Len(s) \in Nat /\ Len(t) \in Nat
  OBVIOUS
<1>2. SubSeq(s, 1, Len(s)) = s
  OBVIOUS
<1>3. ASSUME Len(s) <= Len(t)
      PROVE  /\ SubSeq(t, 1, Len(s)) \in Seq(S) /\ Len(SubSeq(t, 1, Len(s))) = Len(s)
             /\ \A i \in 1 .. Len(s) : SubSeq(t, 1, Len(s))[i] = t[i]
  BY <1>1, <1>3
<1>4. ASSUME Len(s) <= Len(t) PROVE SubSeq(t, 1, Len(s)) = s <=> \A i \in 1 .. Len(s) : s[i] = t[i]
  <2>1. PICK u \in Seq(S) : /\ u = SubSeq(t, 1, Len(s)) /\ Len(u) = Len(s)
                           /\ \A i \in 1 .. Len(s) : u[i] = t[i]
    BY <1>3, <1>4, Zenon
  <2>2. (\A i \in 1 .. Len(s) : s[i] = t[i]) => u = s
    BY <2>1, SameSeq
  <2> QED BY <2>1, <2>2
<1> QED BY <1>1, <1>2, <1>4 DEF IsPrefix

LEMMA PrefixOfJoin ==
    ASSUME NEW S, NEW s \in Seq(S), NEW t \in Seq(S)
    PROVE  IsPrefix(s, s \o t) /\ IsPrefix(s, s)
<1>1. PICK u \in Seq(S) : u = s \o t /\ Len(s) <= Len(u) /\ \A i \in 1 .. Len(s) : s[i] = u[i]
  <2>1. /\ s \o t \in Seq(S) /\ Len(s) <= Len(s \o t)
        /\ \A i \in 1 .. Len(s) : s[i] = (s \o t)[i]
    OBVIOUS
  <2> QED BY <2>1, Zenon
<1>2. IsPrefix(s, u)
  BY <1>1, PrefixIs, Zenon
<1>3. Len(s) <= Len(s) /\ \A i \in 1 .. Len(s) : s[i] = s[i]
  OBVIOUS
<1>4. IsPrefix(s, s)
  BY <1>3, PrefixIs, Zenon
<1> QED BY <1>1, <1>2, <1>4

LEMMA PrefixTrans ==
    ASSUME NEW S, NEW s \in Seq(S), NEW t \in Seq(S), NEW u \in Seq(S), IsPrefix(s, t), IsPrefix(t, u)
    PROVE  IsPrefix(s, u)
<1>1. Len(s) <= Len(t) /\ \A i \in 1 .. Len(s) : s[i] = t[i]
  BY PrefixIs
<1>2. Len(t) <= Len(u) /\ \A i \in 1 .. Len(t) : t[i] = u[i]
  BY PrefixIs
<1>3. Len(s) \in Nat /\ Len(t) \in Nat /\ Len(u) \in Nat
  OBVIOUS
<1>4. Len(s) <= Len(u) /\ \A i \in 1 .. Len(s) : s[i] = u[i]
  BY <1>1, <1>2, <1>3
<1> QED BY <1>4, PrefixIs

\* A part of the next bytes.
LEMMA PrefixOfPart ==
    ASSUME NEW S, NEW s \in Seq(S), NEW t \in Seq(S), NEW n \in 0 .. Len(t)
    PROVE  /\ SubSeq(t, 1, n) \in Seq(S)
           /\ Len(s \o SubSeq(t, 1, n)) = Len(s) + n
           /\ IsPrefix(s \o SubSeq(t, 1, n), s \o t)
           /\ n = Len(t) => s \o SubSeq(t, 1, n) = s \o t
<1>1. Len(s) \in Nat /\ Len(t) \in Nat /\ n \in Nat /\ n <= Len(t)
  OBVIOUS
<1>2. PICK b \in Seq(S) : b = SubSeq(t, 1, n) /\ Len(b) = n /\ \A i \in 1 .. n : b[i] = t[i]
  <2>1. /\ SubSeq(t, 1, n) \in Seq(S) /\ Len(SubSeq(t, 1, n)) = n
        /\ \A i \in 1 .. n : SubSeq(t, 1, n)[i] = t[i]
    BY <1>1
  <2> QED BY <2>1, Zenon
<1>3. PICK x \in Seq(S) : x = s \o b /\ Len(x) = Len(s) + n
  <2>1. s \o b \in Seq(S) /\ Len(s \o b) = Len(s) + Len(b)
    OBVIOUS
  <2> QED BY <1>2, <2>1
<1>4. PICK y \in Seq(S) : y = s \o t /\ Len(y) = Len(s) + Len(t)
  <2>1. s \o t \in Seq(S) /\ Len(s \o t) = Len(s) + Len(t)
    OBVIOUS
  <2> QED BY <2>1
<1>5. \A i \in 1 .. Len(s) + n : x[i] = y[i]
  <2> SUFFICES ASSUME NEW i \in 1 .. Len(s) + n PROVE x[i] = y[i]
    OBVIOUS
  <2>1. CASE i <= Len(s)
    <3>1. i \in 1 .. Len(s)
      BY <1>1, <2>1
    <3> QED BY <1>3, <1>4, <3>1, PlacesOfJoin
  <2>2. CASE ~(i <= Len(s))
    <3>1. PICK k \in 1 .. n : i = Len(s) + k
      <4>1. i - Len(s) \in 1 .. n /\ i = Len(s) + (i - Len(s))
        BY <1>1, <2>2
      <4> QED BY <4>1
    <3>2. k \in 1 .. Len(b) /\ k \in 1 .. Len(t)
      BY <1>1, <1>2
    <3>3. x[i] = b[k] /\ y[i] = t[k]
      BY <1>3, <1>4, <3>1, <3>2, PlacesOfJoin
    <3> QED BY <1>2, <3>3
  <2> QED BY <2>1, <2>2
<1>6. IsPrefix(x, y)
  <2>1. Len(x) <= Len(y) /\ \A i \in 1 .. Len(x) : x[i] = y[i]
    BY <1>1, <1>3, <1>4, <1>5
  <2> QED BY <2>1, PrefixIs, Zenon
<1>7. n = Len(t) => b = t
  BY <1>2, SameSeq
<1> QED BY <1>2, <1>3, <1>4, <1>6, <1>7

\* A buffer from q on, cut into a chunk and what is behind it.
LEMMA Cuts ==
    ASSUME NEW S, NEW b \in Seq(S), NEW q \in Nat, NEW n \in Nat, q + n <= Len(b)
    PROVE  /\ SubSeq(b, q + 1, q + n) \in Seq(S) /\ Len(SubSeq(b, q + 1, q + n)) = n
           /\ SubSeq(b, q + n + 1, Len(b)) \in Seq(S)
           /\ Len(SubSeq(b, q + n + 1, Len(b))) = Len(b) - (q + n)
           /\ IsJoin(SubSeq(b, q + 1, Len(b)), SubSeq(b, q + 1, q + n), SubSeq(b, q + n + 1, Len(b)))
<1>1. Len(b) \in Nat
  OBVIOUS
<1>2. PICK m \in Nat : m = Len(b) - (q + n) /\ Len(b) = (q + n) + m /\ Len(b) = q + (n + m)
  <2>1. PICK l \in Nat : l = Len(b) /\ q + n <= l
    BY <1>1
  <2>2. /\ l - (q + n) \in Nat /\ l = (q + n) + (l - (q + n))
        /\ l = q + (n + (l - (q + n)))
    BY <2>1
  <2> QED BY <2>1, <2>2, Zenon
<1>3. PICK x \in Seq(S) : x = SubSeq(b, q + 1, q + n) /\ Len(x) = n /\ \A i \in 1 .. n : x[i] = b[q + i]
  <2>1. /\ SubSeq(b, q + 1, q + n) \in Seq(S) /\ Len(SubSeq(b, q + 1, q + n)) = n
        /\ \A i \in 1 .. n : SubSeq(b, q + 1, q + n)[i] = b[q + i]
    BY PlacesOfPart
  <2> QED BY <2>1, Zenon
<1>4. PICK y \in Seq(S) : /\ y = SubSeq(b, (q + n) + 1, (q + n) + m) /\ Len(y) = m
                         /\ \A i \in 1 .. m : y[i] = b[(q + n) + i]
  <2>1. PICK r \in Nat : r = q + n /\ r + m <= Len(b)
    BY <1>1, <1>2
  <2>2. /\ SubSeq(b, r + 1, r + m) \in Seq(S) /\ Len(SubSeq(b, r + 1, r + m)) = m
        /\ \A i \in 1 .. m : SubSeq(b, r + 1, r + m)[i] = b[r + i]
    BY <2>1, PlacesOfPart
  <2> QED BY <2>1, <2>2, Zenon
<1>5. PICK z \in Seq(S) : /\ z = SubSeq(b, q + 1, q + (n + m)) /\ Len(z) = n + m
                         /\ \A i \in 1 .. n + m : z[i] = b[q + i]
  <2>1. PICK r \in Nat : r = n + m /\ q + r <= Len(b)
    <3>1. n + m \in Nat /\ q + (n + m) <= Len(b)
      BY <1>1, <1>2
    <3> QED BY <3>1
  <2>2. /\ SubSeq(b, q + 1, q + r) \in Seq(S) /\ Len(SubSeq(b, q + 1, q + r)) = r
        /\ \A i \in 1 .. r : SubSeq(b, q + 1, q + r)[i] = b[q + i]
    BY <2>1, PlacesOfPart
  <2> QED BY <2>1, <2>2, Zenon
<1>6. PICK w \in Seq(S) : w = x \o y /\ Len(w) = n + m
  <2>1. x \o y \in Seq(S) /\ Len(x \o y) = Len(x) + Len(y)
    OBVIOUS
  <2> QED BY <1>3, <1>4, <2>1
<1>7. \A i \in 1 .. n + m : w[i] = z[i]
  <2> SUFFICES ASSUME NEW i \in 1 .. n + m PROVE w[i] = z[i]
    OBVIOUS
  <2>1. CASE i <= n
    <3>1. i \in 1 .. n
      BY <2>1
    <3>2. i \in 1 .. Len(x)
      BY <1>3, <3>1
    <3>3. w[i] = x[i]
      BY <1>6, <3>2
    <3> QED BY <1>3, <1>5, <3>1, <3>3
  <2>2. CASE ~(i <= n)
    <3>1. PICK k \in 1 .. m : i = n + k
      <4>1. i - n \in 1 .. m /\ i = n + (i - n)
        BY <2>2
      <4> QED BY <4>1
    <3>2. w[i] = y[k]
      <4>1. k \in 1 .. Len(y) /\ i = Len(x) + k
        BY <1>3, <1>4, <3>1
      <4> QED BY <1>6, <4>1
    <3>3. z[i] = b[q + (n + k)] /\ y[k] = b[(q + n) + k] /\ q + (n + k) = (q + n) + k
      BY <1>4, <1>5, <3>1
    <3> QED BY <3>2, <3>3
  <2> QED BY <2>1, <2>2
<1>8. w = z
  BY <1>5, <1>6, <1>7, SameSeq
<1>9. IsJoin(z, x, y)
  BY <1>6, <1>8 DEF IsJoin
<1>10. /\ x = SubSeq(b, q + 1, q + n) /\ y = SubSeq(b, q + n + 1, Len(b))
       /\ z = SubSeq(b, q + 1, Len(b))
  BY <1>2, <1>3, <1>4, <1>5
<1> QED BY <1>2, <1>3, <1>4, <1>9, <1>10

\* The stream is made of the commands' bytes.
Bytes(cmd) == FlattenSeq(CmdCalls(cmd))

LEMMA BytesAre == \A cmd \in Cmds : Bytes(cmd) \in Str
BY CallsAre, FlattenStr DEF Bytes

LEMMA PartsAre ==
    ASSUME NEW c \in Seq(Cmds)
    PROVE  [i \in DOMAIN c |-> Bytes(c[i])] \in Seq(Str)
<1>1. Len(c) \in Nat /\ DOMAIN c = 1 .. Len(c)
  OBVIOUS
<1>2. \A i \in 1 .. Len(c) : Bytes(c[i]) \in Str
  BY BytesAre
<1>3. [i \in 1 .. Len(c) |-> Bytes(c[i])] \in Seq(Str)
  BY <1>1, <1>2, IsASeq
<1> QED BY <1>1, <1>3

StreamOf(c) == FlattenSeq([i \in DOMAIN c |-> Bytes(c[i])])

LEMMA StreamIs == Stream = StreamOf(cmds) /\ Stream' = StreamOf(cmds')
BY DEF Stream, StreamOf, Bytes

LEMMA StreamIn == \A c \in Seq(Cmds) : StreamOf(c) \in Str
BY PartsAre, FlattenStr DEF StreamOf

LEMMA StreamGrows ==
    ASSUME NEW c \in Seq(Cmds), NEW cmd \in Cmds
    PROVE  IsJoin(StreamOf(Append(c, cmd)), StreamOf(c), Bytes(cmd))
<1>1. PICK n \in Nat : /\ n = Len(c) /\ Append(c, cmd) \in Seq(Cmds) /\ Len(Append(c, cmd)) = n + 1
                      /\ Append(c, cmd)[n + 1] = cmd /\ \A i \in 1 .. n : Append(c, cmd)[i] = c[i]
  BY OneMore
<1>2. PICK s \in Seq(Str) : s = [i \in DOMAIN c |-> Bytes(c[i])]
  BY PartsAre
<1>3. PICK t : t = [i \in DOMAIN Append(c, cmd) |-> Bytes(Append(c, cmd)[i])]
  OBVIOUS
<1>4. t = Append(s, Bytes(cmd))
  <2>1. DOMAIN c = 1 .. n /\ DOMAIN Append(c, cmd) = 1 .. n + 1
    BY <1>1
  <2>2. s = [i \in 1 .. n |-> Bytes(c[i])] /\ Len(s) = n
    BY <1>2, <2>1
  <2>3. t = [i \in 1 .. n + 1 |-> Bytes(Append(c, cmd)[i])]
    BY <1>3, <2>1
  <2>4. Append(s, Bytes(cmd)) = [i \in 1 .. n + 1 |-> IF i = n + 1 THEN Bytes(cmd) ELSE s[i]]
    BY <2>2
  <2>5. \A i \in 1 .. n + 1 : Bytes(Append(c, cmd)[i]) = IF i = n + 1 THEN Bytes(cmd) ELSE s[i]
    <3>1. \A i \in 1 .. n + 1 : i = n + 1 \/ i \in 1 .. n
      OBVIOUS
    <3> QED BY <1>1, <2>2, <3>1
  <2> QED BY <2>3, <2>4, <2>5
<1>5. Bytes(cmd) \in Str
  BY BytesAre
<1>6. StreamOf(c) = FlattenSeq(s) /\ StreamOf(Append(c, cmd)) = FlattenSeq(t)
  BY <1>2, <1>3 DEF StreamOf
<1> QED BY <1>4, <1>5, <1>6, FlattenStrAppend

-----------------------------------------------------------------------------
(* One step at a time                                                       *)

\* The same for sequences of bytes, whose set is left closed.
LEMMA StrPrefix ==
    /\ \A s, t \in Str : IsPrefix(s, s \o t) /\ IsPrefix(s, s)
    /\ \A s, t, u \in Str : IsPrefix(s, t) /\ IsPrefix(t, u) => IsPrefix(s, u)
    /\ \A s, t \in Str : IsPrefix(s, t) => Len(s) <= Len(t)
<1>1. ASSUME NEW s \in Seq(Int), NEW t \in Seq(Int)
      PROVE  IsPrefix(s, s \o t) /\ IsPrefix(s, s) /\ (IsPrefix(s, t) => Len(s) <= Len(t))
  BY PrefixOfJoin DEF IsPrefix
<1>2. ASSUME NEW s \in Seq(Int), NEW t \in Seq(Int), NEW u \in Seq(Int), IsPrefix(s, t), IsPrefix(t, u)
      PROVE  IsPrefix(s, u)
  BY <1>2, PrefixTrans
<1> QED BY <1>1, <1>2, Zenon DEF Str

LEMMA StrPart ==
    ASSUME NEW s \in Str, NEW t \in Str, NEW n \in 0 .. Len(t)
    PROVE  /\ SubSeq(t, 1, n) \in Str /\ s \o SubSeq(t, 1, n) \in Str
           /\ Len(s \o SubSeq(t, 1, n)) = Len(s) + n
           /\ IsPrefix(s \o SubSeq(t, 1, n), s \o t)
           /\ n = Len(t) => s \o SubSeq(t, 1, n) = s \o t
<1>1. s \in Seq(Int) /\ t \in Seq(Int)
  BY DEF Str
<1>2. /\ SubSeq(t, 1, n) \in Seq(Int)
      /\ Len(s \o SubSeq(t, 1, n)) = Len(s) + n
      /\ IsPrefix(s \o SubSeq(t, 1, n), s \o t)
      /\ n = Len(t) => s \o SubSeq(t, 1, n) = s \o t
  BY <1>1, PrefixOfPart
<1>3. SubSeq(t, 1, n) \in Str
  BY <1>2 DEF Str
<1> QED BY <1>2, <1>3, StrJoin

LEMMA StrCuts ==
    ASSUME NEW b \in Str, NEW q \in Nat, NEW n \in Nat, q + n <= Len(b)
    PROVE  /\ SubSeq(b, q + 1, q + n) \in Str /\ Len(SubSeq(b, q + 1, q + n)) = n
           /\ SubSeq(b, q + n + 1, Len(b)) \in Str
           /\ Len(SubSeq(b, q + n + 1, Len(b))) = Len(b) - (q + n)
           /\ IsJoin(SubSeq(b, q + 1, Len(b)), SubSeq(b, q + 1, q + n), SubSeq(b, q + n + 1, Len(b)))
<1>1. b \in Seq(Int)
  BY DEF Str
<1> QED BY <1>1, Cuts DEF Str

LEMMA StrWhole ==
    ASSUME NEW b \in Str
    PROVE  SubSeq(b, 1, Len(b)) = b /\ SubSeq(b, Len(b) + 1, Len(b)) = << >> /\ Len(b) \in Nat
BY DEF Str

LEMMA UnwrittenIs ==
    ASSUME Types
    PROVE  /\ Unwritten \in Str /\ Len(buf) \in Nat
           /\ Len(Unwritten) = Len(buf) - (IF p = Idle THEN 0 ELSE p)
<1>1. buf \in Str /\ Len(buf) \in Nat
  BY StrWhole DEF Types
<1>2. CASE p = Idle
  BY <1>1, <1>2 DEF Unwritten
<1>3. CASE p # Idle
  <2>1. PICK q \in Nat : q = p /\ q <= Len(buf)
    BY <1>1, <1>3 DEF Types
  <2>2. q + 0 <= Len(buf) /\ q + 0 = q /\ 0 \in Nat
    BY <2>1
  <2>3. SubSeq(buf, q + 0 + 1, Len(buf)) \in Str /\ Len(SubSeq(buf, q + 0 + 1, Len(buf))) = Len(buf) - (q + 0)
    BY <1>1, <2>2, StrCuts
  <2> QED BY <1>1, <1>3, <2>1, <2>2, <2>3 DEF Unwritten
<1> QED BY <1>2, <1>3

\* While nothing is written out, the stream may be put together differently.
LEMMA Regrouped ==
    ASSUME RioInv, Types', Stopped', pos' = pos, fds' = fds, ret' = ret, cmds' = cmds,
           ret => Unwritten' \o FlattenSeq(todo') = Unwritten \o FlattenSeq(todo)
    PROVE  RioInv'
<1>1. PICK written : Accounts(written)
  BY DEF RioInv
<1>2. Stream' = Stream
  BY StreamIs
<1>3. Accounts(written)'
  BY <1>1, <1>2 DEF Accounts
<1>4. LossIsOneChunk'
  BY DEF RioInv, LossIsOneChunk
<1> QED BY <1>3, <1>4 DEF RioInv

LEMMA InitInv == RioInit => RioInv
<1> SUFFICES ASSUME RioInit PROVE RioInv
  OBVIOUS
<1>1. /\ todo = << >> /\ buf = << >> /\ p = Idle /\ pos = 0 /\ ret = TRUE /\ cmds = << >>
      /\ fds = [j \in Fds |-> [ok |-> TRUE, got |-> << >>]]
  BY DEF RioInit
<1>2. << >> \in Str /\ Len(<< >>) = 0 /\ << >> \o << >> = << >>
  BY StrEmpty
<1>3. Types /\ Stopped
  <2>1. todo \in Seq(Str) /\ cmds \in Seq(Cmds)
    BY <1>1
  <2>2. fds \in [Fds -> [ok : BOOLEAN, got : Str]]
    BY <1>1, <1>2
  <2> QED BY <1>1, <1>2, <2>1, <2>2 DEF Types, Stopped
<1>4. Stream = << >>
  <2>1. [i \in DOMAIN cmds |-> Bytes(cmds[i])] = << >>
    BY <1>1
  <2> QED BY <2>1, StreamIs, FlattenEmpty DEF StreamOf
<1>5. Accounts(<< >>)
  <2>1. Unwritten = << >>
    BY <1>1 DEF Unwritten
  <2>2. IsPrefix(<< >>, << >>)
    BY <1>2, StrPrefix
  <2> QED BY <1>1, <1>2, <1>4, <2>1, <2>2, FlattenEmpty DEF Accounts
<1>6. LossIsOneChunk
  <2>1. 1 \in Fds
    BY Constants DEF Fds
  <2> QED BY <1>1, <1>2, <2>1, Constants DEF LossIsOneChunk
<1> QED BY <1>3, <1>5, <1>6 DEF RioInv

\* A command's calls come behind everything before.
LEMMA CommandInv ==
    ASSUME RioInv, NEW cmd \in Cmds, Command(cmd)
    PROVE  RioInv'
<1>1. /\ Types /\ todo = << >> /\ p = Idle /\ ret /\ todo' = CmdCalls(cmd)
      /\ cmds' = Append(cmds, cmd) /\ UNCHANGED <<buf, p, pos, fds, ret>>
  BY DEF RioInv, Command
<1>2. PICK written : Accounts(written)
  BY DEF RioInv
<1>3. CmdCalls(cmd) \in Seq(Str) /\ cmds \in Seq(Cmds) /\ buf \in Str
  BY <1>1, CallsAre DEF Types
<1>4. Types' /\ Stopped'
  <2>1. cmds' \in Seq(Cmds)
    BY <1>1, <1>3
  <2> QED BY <1>1, <1>3, <2>1 DEF Types, Stopped
<1>5. PICK b \in Str : b = Bytes(cmd) /\ FlattenSeq(todo') = b
  BY <1>1, BytesAre DEF Bytes
<1>6. PICK w \in Str : w = written /\ Stream = w \o buf /\ w \o buf \in Str
  <2>1. written \in Str /\ Stream = written \o (Unwritten \o FlattenSeq(todo))
    BY <1>1, <1>2 DEF Accounts
  <2>2. Unwritten \o FlattenSeq(todo) = buf
    BY <1>1, <1>3, FlattenEmpty, StrEmpty DEF Unwritten
  <2> QED BY <1>3, <2>1, <2>2, StrJoin
<1>7. Stream' = (w \o buf) \o b
  BY <1>1, <1>3, <1>5, <1>6, StreamIs, StreamGrows DEF IsJoin
<1>8. Stream' = w \o (buf \o b)
  <2>1. (w \o buf) \o b = w \o (buf \o b)
    BY <1>3, StrAssoc
  <2> QED BY <1>7, <2>1
<1>9. Accounts(written)'
  <2>1. Unwritten' = buf
    BY <1>1 DEF Unwritten
  <2>2. IsPrefix(w, Stream')
    <3>1. buf \o b \in Str
      BY <1>3, StrJoin
    <3> QED BY <1>8, <3>1, StrPrefix
  <2> QED BY <1>1, <1>2, <1>5, <1>6, <1>8, <2>1, <2>2 DEF Accounts
<1>10. LossIsOneChunk'
  BY <1>1 DEF RioInv, LossIsOneChunk
<1> QED BY <1>4, <1>9, <1>10 DEF RioInv

LEMMA RioWriteInv ==
    ASSUME RioInv, RioWrite
    PROVE  RioInv'
<1>1. /\ Types /\ Stopped /\ todo # << >> /\ p = Idle /\ buf' = buf \o Head(todo) /\ todo' = Tail(todo)
      /\ p' = IF Len(buf') > IOBufLen THEN 0 ELSE Idle
      /\ UNCHANGED <<pos, fds, ret, cmds>>
  BY DEF RioInv, RioWrite
<1>2. /\ Head(todo) \in Str /\ Tail(todo) \in Seq(Str)
      /\ IsJoin(FlattenSeq(todo), Head(todo), FlattenSeq(Tail(todo)))
  BY <1>1, FlattenStrHead DEF Types
<1>3. PICK b \in Str, h \in Str, t \in Str :
        b = buf /\ h = Head(todo) /\ t = FlattenSeq(Tail(todo)) /\ FlattenSeq(todo) = h \o t
  BY <1>1, <1>2, FlattenStr DEF Types, IsJoin
<1>4. b \o h \in Str /\ buf' = b \o h /\ Len(buf') \in Nat
  BY <1>1, <1>3, StrJoin, StrWhole
<1>5. Types' /\ Stopped'
  <2>1. p' \in {Idle} \cup 0 .. Len(buf')
    BY <1>1, <1>4
  <2>2. ret
    BY <1>1 DEF Stopped
  <2> QED BY <1>1, <1>2, <1>4, <2>1, <2>2 DEF Types, Stopped
<1>6. Unwritten' = b \o h /\ Unwritten = b
  <2>1. SubSeq(b \o h, 1, Len(b \o h)) = b \o h
    BY <1>4, StrWhole
  <2>2. p' = Idle \/ (p' = 0 /\ p' + 1 = 1)
    BY <1>1
  <2> QED BY <1>1, <1>3, <1>4, <2>1, <2>2 DEF Unwritten
<1>7. (b \o h) \o t = b \o (h \o t)
  BY StrAssoc
<1> QED BY <1>1, <1>3, <1>5, <1>6, <1>7, Regrouped

LEMMA FlushInv ==
    ASSUME RioInv, Flush
    PROVE  RioInv'
<1>1. Types /\ ret /\ p = Idle /\ p' = 0 /\ UNCHANGED <<todo, buf, pos, fds, ret, cmds>>
  BY DEF RioInv, Flush
<1>2. buf \in Str /\ Len(buf) \in Nat
  BY <1>1, StrWhole DEF Types
<1>3. Types' /\ Stopped'
  BY <1>1, <1>2 DEF Types, Stopped
<1>4. Unwritten' = Unwritten
  <2>1. p' # Idle /\ p' + 1 = 1
    BY <1>1 DEF Idle
  <2> QED BY <1>1, <1>2, <2>1, StrWhole DEF Unwritten
<1> QED BY <1>1, <1>3, <1>4, Regrouped

LEMMA FlushDoneInv ==
    ASSUME RioInv, FlushDone
    PROVE  RioInv'
<1>1. /\ Types /\ Stopped /\ p = Len(buf) /\ buf' = << >> /\ p' = Idle
      /\ UNCHANGED <<todo, pos, fds, ret, cmds>>
  BY DEF RioInv, FlushDone
<1>2. buf \in Str /\ Len(buf) \in Nat
  BY <1>1, StrWhole DEF Types
<1>3. Types' /\ Stopped'
  <2>1. p # Idle
    BY <1>1, <1>2 DEF Idle
  <2> QED BY <1>1, <2>1, StrEmpty DEF Types, Stopped
<1>4. Unwritten' = << >> /\ Unwritten = << >>
  <2>1. p # Idle
    BY <1>1, <1>2 DEF Idle
  <2> QED BY <1>1, <1>2, <2>1, StrWhole DEF Unwritten
<1> QED BY <1>1, <1>3, <1>4, Regrouped

\* All sockets had failed before this chunk: none of them gets anything.
LEMMA BrokenInv ==
    ASSUME RioInv, WriteChunk, AllBroken
    PROVE  RioInv'
<1>1. Types /\ UNCHANGED <<buf, cmds>>
  BY DEF RioInv, WriteChunk
<1>2. fds' = fds
  <2> DEFINE count == IF Len(buf) - p < Chunk THEN Len(buf) - p ELSE Chunk
             part == SubSeq(buf, p + 1, p + count)
  <2>1. PICK n \in [Fds -> 0 .. count] : fds' = [j \in Fds |-> Takes(fds[j], part, n[j])]
    BY Zenon DEF WriteChunk
  <2> HIDE DEF part, count
  <2>2. \A j \in Fds : ~fds[j].ok
    BY DEF AllBroken
  <2>3. \A bytes, taken : \A j \in Fds : Takes(fds[j], bytes, taken[j]) = fds[j]
    BY <2>2 DEF Takes
  <2>4. fds' = [j \in Fds |-> fds[j]]
    BY <2>1, <2>3
  <2> QED BY <1>1, <2>4 DEF Types
<1>3. ret' = FALSE /\ p' = Idle /\ todo' = << >> /\ pos' = pos
  BY DEF WriteChunk
<1>4. Types' /\ Stopped'
  <2>1. todo' \in Seq(Str)
    BY <1>3, EmptySeq
  <2> QED BY <1>1, <1>2, <1>3, <2>1 DEF Types, Stopped
<1>5. PICK written : Accounts(written)
  BY DEF RioInv
<1>6. Stream' = Stream
  BY <1>1, StreamIs
<1>7. Accounts(written)'
  BY <1>2, <1>3, <1>5, <1>6 DEF Accounts
<1>8. LossIsOneChunk'
  BY <1>2, <1>3 DEF RioInv, LossIsOneChunk
<1> QED BY <1>4, <1>7, <1>8 DEF RioInv

\* What a socket holds while w is written.
Sock == [ok : BOOLEAN, got : Str]
Has(fd, w) == fd \in Sock /\ IsPrefix(fd.got, w) /\ (fd.ok => fd.got = w)

LEMMA TakesOk ==
    ASSUME NEW fd \in Sock, NEW c, NEW m, fd.ok
    PROVE  /\ Takes(fd, c, m).ok => m = Len(c)
           /\ Takes(fd, c, m).got = fd.got \o SubSeq(c, 1, m)
           /\ fd.got \o SubSeq(c, 1, m) \in Str => Takes(fd, c, m) \in Sock
<1>1. ASSUME Takes(fd, c, m).ok PROVE m = Len(c)
  BY <1>1 DEF Takes
<1>2. Takes(fd, c, m).got = fd.got \o SubSeq(c, 1, m)
  BY DEF Takes
<1>3. ASSUME fd.got \o SubSeq(c, 1, m) \in Str PROVE Takes(fd, c, m) \in Sock
  BY <1>3 DEF Takes, Sock
<1> QED BY <1>1, <1>2, <1>3

LEMMA TakesMore ==
    ASSUME NEW w \in Str, NEW c \in Str, NEW m \in 0 .. Len(c), NEW fd, Has(fd, w)
    PROVE  /\ Has(Takes(fd, c, m), w \o c)
           /\ fd.ok => Len(w) <= Len(Takes(fd, c, m).got)
<1>1. fd \in Sock /\ IsPrefix(fd.got, w) /\ (fd.ok => fd.got = w)
  BY DEF Has
<1>2. CASE fd.ok
  <2>1. PICK y : /\ y = w \o SubSeq(c, 1, m) /\ y \in Str /\ Len(y) = Len(w) + m /\ IsPrefix(y, w \o c)
                 /\ (m = Len(c) => y = w \o c)
    BY StrPart
  <2>2. Len(w) <= Len(y)
    BY <2>1, StrWhole
  <2>3. PICK g : g = Takes(fd, c, m)
    OBVIOUS
  <2>4. (g.ok => m = Len(c)) /\ g.got = y /\ g \in Sock
    BY <1>1, <1>2, <2>1, <2>3, TakesOk
  <2> QED BY <2>1, <2>2, <2>3, <2>4, Zenon DEF Has
<1>3. CASE ~fd.ok
  <2>1. Takes(fd, c, m) = fd
    BY <1>3 DEF Takes
  <2>2. fd.got \in Str
    BY <1>1 DEF Sock
  <2>3. IsPrefix(w, w \o c) /\ w \o c \in Str
    BY StrPrefix, StrJoin
  <2>4. IsPrefix(fd.got, w \o c)
    BY <1>1, <2>2, <2>3, StrPrefix
  <2> QED BY <1>1, <1>3, <2>1, <2>4, Zenon DEF Has
<1> QED BY <1>2, <1>3

\* Some socket had not failed before this chunk: that one, too, has at most a chunk less.
LEMMA ChunkInv ==
    ASSUME RioInv, WriteChunk, ~AllBroken
    PROVE  RioInv'
<1>1. Types /\ Stopped /\ p # Idle /\ p < Len(buf) /\ UNCHANGED <<buf, cmds>> /\ ret
  BY DEF RioInv, WriteChunk, Stopped
<1>2. PICK b \in Str, q \in Nat : b = buf /\ q = p /\ q < Len(b) /\ Len(b) \in Nat
  BY <1>1, StrWhole DEF Types
<1> DEFINE count == IF Len(buf) - p < Chunk THEN Len(buf) - p ELSE Chunk
           part == SubSeq(buf, p + 1, p + count)
<1>3. PICK k \in Nat : k = count /\ k <= Chunk /\ q + k <= Len(b)
  <2>1. count = IF Len(b) - q < Chunk THEN Len(b) - q ELSE Chunk
    BY <1>2
  <2>2. /\ Len(b) - q \in Nat /\ q + (Len(b) - q) <= Len(b)
        /\ ~(Len(b) - q < Chunk) => q + Chunk <= Len(b)
    BY <1>2, Constants
  <2> HIDE DEF count
  <2>3. count \in Nat /\ count <= Chunk /\ q + count <= Len(b)
    BY <1>2, <2>1, <2>2, Constants
  <2> QED BY <2>3
<1>4. PICK n \in [Fds -> 0 .. k] :
        /\ fds' = [j \in Fds |-> Takes(fds[j], part, n[j])]
        /\ p' = p + k /\ pos' = pos + k /\ UNCHANGED <<ret, todo>>
  <2>1. \E n \in [Fds -> 0 .. count] :
          /\ fds' = [j \in Fds |-> Takes(fds[j], part, n[j])]
          /\ p' = p + count /\ pos' = pos + count /\ UNCHANGED <<ret, todo>>
    BY Zenon DEF WriteChunk
  <2> QED BY <1>3, <2>1
<1>5. PICK c \in Str, r \in Str :
        /\ c = part /\ Len(c) = k /\ r = SubSeq(b, q + k + 1, Len(b))
        /\ SubSeq(b, q + 1, Len(b)) = c \o r
  <2>1. part = SubSeq(b, q + 1, q + k)
    BY <1>2, <1>3
  <2>2. /\ SubSeq(b, q + 1, q + k) \in Str /\ Len(SubSeq(b, q + 1, q + k)) = k
        /\ SubSeq(b, q + k + 1, Len(b)) \in Str
        /\ IsJoin(SubSeq(b, q + 1, Len(b)), SubSeq(b, q + 1, q + k), SubSeq(b, q + k + 1, Len(b)))
    BY <1>3, StrCuts
  <2> HIDE DEF part, count
  <2> QED BY <2>1, <2>2 DEF IsJoin
<1> HIDE DEF part, count
<1>6. Unwritten = c \o r /\ Unwritten' = r
  <2>1. p' # Idle /\ p' = q + k
    BY <1>2, <1>4 DEF Idle
  <2> QED BY <1>1, <1>2, <1>5, <2>1 DEF Unwritten
<1>7. PICK w \in Str, f \in Str : /\ Accounts(w) /\ f = FlattenSeq(todo)
                                /\ Stream = w \o ((c \o r) \o f)
  <2>1. PICK w : Accounts(w)
    BY DEF RioInv
  <2>2. w \in Str /\ Stream = w \o (Unwritten \o FlattenSeq(todo))
    BY <1>1, <2>1 DEF Accounts
  <2>3. FlattenSeq(todo) \in Str
    BY <1>1, FlattenStr DEF Types
  <2> QED BY <1>6, <2>1, <2>2, <2>3
<1>8. PICK x \in Str : x = w \o c /\ Len(x) = pos + k /\ Stream = x \o (r \o f) /\ r \o f \in Str
  <2>1. Len(w) = pos /\ Len(c) = k
    BY <1>5, <1>7 DEF Accounts
  <2>2. InParts(Stream, w, c, r, f)
    BY <1>7 DEF InParts
  <2>3. PICK x \in Str : Longer(x, Stream, w, c, r, f)
    BY <2>2, StrRegroup, Zenon
  <2>4. x = w \o c /\ Len(x) = pos + k /\ Stream = x \o (r \o f) /\ r \o f \in Str
    BY <2>1, <2>3 DEF Longer
  <2> QED BY <2>4
<1>9. ASSUME NEW j \in Fds
      PROVE  Has(fds'[j], x) /\ (fds[j].ok => pos <= Len(fds'[j].got))
  <2>1. PICK m \in 0 .. Len(c) : m = n[j] /\ fds'[j] = Takes(fds[j], c, m)
    BY <1>4, <1>5
  <2>2. Has(fds[j], w)
    BY <1>1, <1>7 DEF Types, Accounts, Has, Sock
  <2>3. Len(w) = pos
    BY <1>7 DEF Accounts
  <2>4. /\ Has(Takes(fds[j], c, m), w \o c)
        /\ fds[j].ok => Len(w) <= Len(Takes(fds[j], c, m).got)
    BY <2>2, TakesMore
  <2> QED BY <1>8, <2>1, <2>3, <2>4
<1>10. Types' /\ Stopped'
  <2>1. fds' \in [Fds -> [ok : BOOLEAN, got : Str]]
    <3>1. fds' = [j \in Fds |-> fds'[j]]
      BY <1>4
    <3>2. \A j \in Fds : fds'[j] \in Sock
      BY <1>9 DEF Has
    <3>3. fds' \in [Fds -> Sock]
      BY <3>1, <3>2
    <3> QED BY <3>3 DEF Sock
  <2>2. p' \in 0 .. Len(buf') /\ pos' \in Nat
    BY <1>1, <1>2, <1>3, <1>4 DEF Types
  <2> QED BY <1>1, <1>4, <2>1, <2>2 DEF Types, Stopped
<1>11. Accounts(x)'
  <2>1. Stream' = x \o (Unwritten' \o FlattenSeq(todo')) /\ Stream' = Stream
    BY <1>1, <1>4, <1>6, <1>7, <1>8, StreamIs
  <2>2. IsPrefix(x, Stream')
    BY <1>8, <2>1, StrPrefix
  <2>3. \A j \in Fds : IsPrefix(fds'[j].got, x) /\ (fds'[j].ok => fds'[j].got = x)
    BY <1>9, Zenon DEF Has
  <2> QED BY <1>4, <1>8, <2>1, <2>2, <2>3, Zenon DEF Accounts
<1>12. LossIsOneChunk'
  <2>1. PICK j \in Fds : fds[j].ok
    BY DEF AllBroken
  <2>2. pos <= Len(fds'[j].got) /\ fds'[j].got \in Str
    BY <1>9, <2>1 DEF Has, Sock
  <2>3. Len(fds'[j].got) \in Nat /\ pos \in Nat
    BY <1>1, <2>2, StrWhole DEF Types
  <2>4. Len(fds'[j].got) + Chunk >= pos'
    BY <1>3, <1>4, <2>2, <2>3, Constants
  <2> QED BY <2>4 DEF LossIsOneChunk
<1> QED BY <1>10, <1>11, <1>12 DEF RioInv

LEMMA StepInv == RioInv /\ [RioNext]_rioVars => RioInv'
<1> SUFFICES ASSUME RioInv, [RioNext]_rioVars PROVE RioInv'
  OBVIOUS
<1>1. CASE \E cmd \in Cmds : Command(cmd)
  BY <1>1, CommandInv
<1>2. CASE UNCHANGED rioVars
  <2>1. UNCHANGED <<todo, buf, p, pos, fds, ret, cmds>>
    BY <1>2 DEF rioVars
  <2>2. Types' /\ Stopped' /\ Unwritten' = Unwritten
    BY <2>1 DEF RioInv, Types, Stopped, Unwritten
  <2> QED BY <2>1, <2>2, Regrouped
<1> QED BY <1>1, <1>2, RioWriteInv, FlushInv, FlushDoneInv, BrokenInv, ChunkInv DEF RioNext

\* The bytes are accounted for in every state.
THEOREM AccountedAlways == RioSpec => []RioInv
BY InitInv, StepInv, PTL DEF RioSpec

\* Everything that is written, buffered or still to be handed over is the stream of the
\* commands, and every socket of rioFdsetWrite has a beginning of what is written, all of
\* it unless it failed: nothing is lost, repeated or sent behind a gap.
THEOREM DeliveredAlways == RioSpec => []Delivered
<1>1. RioInv => Delivered
  <2> SUFFICES ASSUME RioInv PROVE Delivered
    OBVIOUS
  <2>1. Types
    BY DEF RioInv
  <2>2. PICK w : Accounts(w)
    BY DEF RioInv
  <2>3. w \in Str /\ Len(w) = pos /\ IsPrefix(w, Stream) /\ Stream \in Str
    BY <2>1, <2>2, StreamIs, StreamIn DEF Accounts, Types
  <2>4. ASSUME NEW j \in Fds
        PROVE  IsPrefix(fds[j].got, Stream) /\ (fds[j].ok => Len(fds[j].got) = pos)
    <3>1. IsPrefix(fds[j].got, w) /\ (fds[j].ok => fds[j].got = w) /\ fds[j].got \in Str
      BY <2>1, <2>2 DEF Accounts, Types
    <3> QED BY <2>3, <3>1, StrPrefix
  <2>5. ASSUME ret
        PROVE  pos + Len(buf) - (IF p = Idle THEN 0 ELSE p) + Total(todo) = Len(Stream)
    <3>1. Unwritten \in Str /\ FlattenSeq(todo) \in Str
      BY <2>1, UnwrittenIs, FlattenStr DEF Types
    <3>2. Len(Stream) = pos + (Len(Unwritten) + Len(FlattenSeq(todo)))
      <4>1. Stream = w \o (Unwritten \o FlattenSeq(todo))
        BY <2>2, <2>5 DEF Accounts
      <4>2. PICK a \in Str : /\ a = Unwritten \o FlattenSeq(todo)
                           /\ Len(a) = Len(Unwritten) + Len(FlattenSeq(todo))
        BY <3>1, StrJoin
      <4>3. Len(w \o a) = Len(w) + Len(a)
        BY <2>3, StrJoin
      <4> QED BY <2>3, <4>1, <4>2, <4>3
    <3>3. PICK z \in Nat, l \in Nat : /\ z = IF p = Idle THEN 0 ELSE p
                                    /\ l = Len(buf) /\ z <= l
      BY <2>1, StrWhole DEF Types
    <3>4. PICK u \in Nat, f \in Nat : u = Len(Unwritten) /\ f = Len(FlattenSeq(todo))
      BY <3>1, StrWhole
    <3>5. u = l - z /\ pos \in Nat
      BY <2>1, <3>3, <3>4, UnwrittenIs DEF Types
    <3>6. pos + l - z + f = pos + (u + f)
      BY <3>3, <3>4, <3>5
    <3> QED BY <3>2, <3>3, <3>4, <3>6 DEF Total
  <2> QED BY <2>4, <2>5 DEF Delivered
<1> QED BY <1>1, AccountedAlways, PTL

\* Although it returns success for a chunk in which the last socket fails (rioFdsetWrite
\* counts the broken ones before it writes), some socket never misses more than that chunk.
THEOREM LossAlways == RioSpec => []LossIsOneChunk
<1>1. RioInv => LossIsOneChunk
  BY DEF RioInv
<1> QED BY <1>1, AccountedAlways, PTL

\* When a flush has come to its end and no call is left, a socket that has not failed has
\* every byte of every command.
Flushed ==
  ret /\ p = Idle /\ buf = << >> /\ todo = << >>
    => \A j \in Fds : fds[j].ok => fds[j].got = Stream

\* So what rioFdsetFlush promises holds: nothing stays behind in the buffer.
THEOREM FlushedAlways == RioSpec => []Flushed
<1>1. RioInv => Flushed
  <2> SUFFICES ASSUME RioInv, ret, p = Idle, buf = << >>, todo = << >>, NEW j \in Fds, fds[j].ok
               PROVE  fds[j].got = Stream
    BY DEF Flushed
  <2>1. PICK w : Accounts(w)
    BY DEF RioInv
  <2>2. w \in Str /\ fds[j].got = w /\ Stream = w \o (Unwritten \o FlattenSeq(todo))
    BY <2>1 DEF Accounts
  <2>3. Unwritten \o FlattenSeq(todo) = << >>
    BY FlattenEmpty, StrEmpty DEF Unwritten
  <2> QED BY <2>2, <2>3, StrEmpty
<1> QED BY <1>1, AccountedAlways, PTL
===============================================================================
