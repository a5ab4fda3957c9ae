------------------------------- MODULE SdsString -------------------------------
(***************************************************************************)
(* What sds.c promises: a string of bytes, and what each function makes of *)
(* it.  op names the function that was called last.                        *)
(***************************************************************************)
EXTENDS Integers, Sequences

CONSTANTS
  Texts,    \* byte strings to append and copy
  Pieces,   \* what one character or argument of a format stands for
  Sets,     \* C strings of characters to trim or to map
  MaxLen    \* bound on the length

VARIABLES str, op

\* What strlen sees of a text.
CString(t) == LET nul == {k \in DOMAIN t : t[k] = 0}
              IN  IF nul = {} THEN t ELSE SubSeq(t, 1, (CHOOSE k \in nul : \A j \in nul : k <= j) - 1)

\* The place an index names: a negative one counts from the end, but not beyond the front.
Place(i, t) == IF i >= 0 THEN i ELSE IF Len(t) + i < 0 THEN 0 ELSE Len(t) + i

\* The bytes from place i to place j, as far as there are any.
Between(i, j, t) == SubSeq(t, i + 1, IF j < Len(t) THEN j + 1 ELSE Len(t))

\* t without the bytes of set at its ends; strchr finds the NUL in every set.
Trimmed(t, set) ==
  LET kept == {k \in DOMAIN t : t[k] # 0 /\ ~\E i \in DOMAIN set : set[i] = t[k]}
  IN  IF kept = {} THEN << >>
      ELSE SubSeq(t, CHOOSE k \in kept : \A j \in kept : k <= j,
                     CHOOSE k \in kept : \A j \in kept : k >= j)

Lower(c) == IF c \in 65 .. 90 THEN c + 32 ELSE c
Upper(c) == IF c \in 97 .. 122 THEN c - 32 ELSE c
MapBytes(f(_), t) == [k \in DOMAIN t |-> f(t[k])]

Calls(f, result) == op' = f /\ str' = result /\ Len(str') <= MaxLen

Init == str \in Texts /\ op = "new"

Next ==
  \/ \E t \in Texts : Calls("cat", str \o t)
  \/ \E t \in Texts : Calls("cpy", t)
  \/ \E t \in Texts : Calls("printf", str \o CString(t))
  \/ \E t \in Pieces : Calls("fmt", str \o t)
  \/ \E n \in 0 .. MaxLen, t \in Texts : Len(t) <= n /\ Calls("read", str \o t)
  \/ \E n \in 0 .. Len(str) : Calls("cut", SubSeq(str, 1, n))
  \/ \E n \in 0 .. MaxLen :
       Calls("growzero", IF n <= Len(str) THEN str ELSE str \o [k \in 1 .. n - Len(str) |-> 0])
  \/ Calls("clear", << >>)
  \/ Calls("updatelen", CString(str))
  \/ Calls("shrink", str)
  \/ \E set \in Sets : Calls("trim", Trimmed(str, set))
  \/ \E i, j \in -MaxLen - 1 .. MaxLen + 1 :
       Calls("range", Between(Place(i, str), Place(j, str), str))
  \/ Calls("lower", MapBytes(Lower, str))
  \/ Calls("upper", MapBytes(Upper, str))
  \/ \E from, to \in Sets :
       /\ Len(from) = Len(to)
       /\ op' = "map" /\ Len(str') = Len(str)
       /\ \A k \in DOMAIN str :
            \/ str'[k] = str[k] /\ ~\E i \in DOMAIN from : from[i] = str[k]
            \/ \E i \in DOMAIN from :
                 from[i] = str[k] /\ str'[k] = to[i] /\ \A j \in 1 .. i - 1 : from[j] # str[k]

Spec == Init /\ [][Next]_<<str, op>>
===============================================================================
