----------------------------------- MODULE Sds -----------------------------------
(***************************************************************************)
(* sds.c: one string in memory.  s is the header with the cells that       *)
(* zmalloc gave for the bytes; fresh cells hold Junk, and used ones keep   *)
(* what was in them.  A call is a step, but for sdscatfmt, which takes a   *)
(* step for each character or argument of the format.                      *)
(***************************************************************************)
EXTENDS Integers, Sequences

CONSTANTS
  Bytes,        \* a byte is a number; the NUL is 0
  Junk,         \* content of memory that nobody has written
  MaxPrealloc,  \* SDS_MAX_PREALLOC
  StaticBuf,    \* size of the buffer on the stack of sdscatvprintf
  Texts,        \* byte strings to append and copy
  Sets,         \* C strings of characters to trim
  Formats,      \* formats of sdscatfmt with their arguments
  MaxLen        \* bound on the length

Directive == [arg : BOOLEAN, text : Seq(Bytes)]

ASSUME SdsAssumption ==
  /\ Bytes \subseteq Int /\ Junk \in Int \ Bytes
  /\ {0} \cup (65 .. 90) \cup (97 .. 122) \subseteq Bytes   \* NUL, A to Z, a to z
  /\ MaxPrealloc \in Nat /\ MaxLen \in Nat /\ StaticBuf \in Nat /\ StaticBuf > 2
  /\ Texts \subseteq Seq(Bytes) /\ Sets \subseteq Seq(Bytes)
  /\ \A f \in Formats : f \in Seq(Directive) /\ \A i \in DOMAIN f : f[i].arg \/ Len(f[i].text) = 1

VARIABLES
  s,      \* [len, free, buf]
  fmt,    \* the rest of the format of sdscatfmt
  busy,   \* sdscatfmt is running
  op      \* history: the last call that changed the string

sdsVars == <<s, fmt, busy, op>>

-------------------------------------------------------------------------------
(* Memory                                                                  *)

\* memcpy or memmove of t to buf + at, even past the end of the cells.
Overlay(buf, at, t) ==
  [k \in DOMAIN buf \cup (at + 1 .. at + Len(t)) |->
     IF k \in at + 1 .. at + Len(t) THEN t[k - at] ELSE buf[k]]

\* zrealloc.
Resized(buf, n) == [k \in 1 .. n |-> IF k \in DOMAIN buf THEN buf[k] ELSE Junk]

NulAt(buf, at) == Overlay(buf, at, <<0>>)

Str(h) == SubSeq(h.buf, 1, h.len)

\* strlen, of memory that has a NUL.
StrLen(buf) == CHOOSE k \in 0 .. Len(buf) - 1 : buf[k + 1] = 0 /\ \A j \in 1 .. k : buf[j] # 0

CString(t) == SubSeq(t, 1, StrLen(Append(t, 0)))

-------------------------------------------------------------------------------
(* The functions                                                           *)

sdsnewlen(t) == [len |-> Len(t), free |-> 0, buf |-> Append(t, 0)]

sdsupdatelen(h) ==
  LET real == StrLen(h.buf) IN [len |-> real, free |-> h.free + h.len - real, buf |-> h.buf]

sdsclear(h) == [len |-> 0, free |-> h.free + h.len, buf |-> NulAt(h.buf, 0)]

\* Mutant: no cell is asked for the NUL.
sdsMakeRoomForNoNul(h, addlen) ==
  LET need == h.len + addlen
      newlen == IF need < MaxPrealloc THEN 2 * need ELSE need + MaxPrealloc
  IN  IF h.free >= addlen THEN h
      ELSE [len |-> h.len, free |-> newlen - h.len, buf |-> Resized(h.buf, newlen)]

sdsMakeRoomFor(h, addlen) ==
  LET need == h.len + addlen
      newlen == IF need < MaxPrealloc THEN 2 * need ELSE need + MaxPrealloc
  IN  IF h.free >= addlen THEN h
      ELSE [len |-> h.len, free |-> newlen - h.len, buf |-> Resized(h.buf, newlen + 1)]

sdsRemoveFreeSpace(h) == [len |-> h.len, free |-> 0, buf |-> Resized(h.buf, h.len + 1)]

\* The assertions are the guards of its callers.
sdsIncrLen(h, incr) ==
  [len |-> h.len + incr, free |-> h.free - incr, buf |-> NulAt(h.buf, h.len + incr)]

Zeros(n) == [k \in 1 .. n |-> 0]

sdsgrowzero(h, n) ==
  LET r == sdsMakeRoomFor(h, n - h.len)
  IN  IF n <= h.len THEN h
      ELSE [len |-> n, free |-> r.len + r.free - n,
            buf |-> Overlay(r.buf, h.len, Zeros(n - h.len + 1))]

sdscatlen(h, t) ==
  LET r == sdsMakeRoomFor(h, Len(t))
  IN  [len |-> h.len + Len(t), free |-> r.free - Len(t),
       buf |-> NulAt(Overlay(r.buf, h.len, t), h.len + Len(t))]

sdscpylen(h, t) ==
  LET r == IF h.free + h.len < Len(t) THEN sdsMakeRoomFor(h, Len(t) - h.len) ELSE h
  IN  [len |-> Len(t), free |-> r.free + r.len - Len(t), buf |-> NulAt(Overlay(r.buf, 0, t), Len(t))]

\* sdscatvprintf: the buffer is doubled until vsnprintf leaves alone the NUL at its last
\* place but one; what it holds is appended as a C string.  fmtlen: strlen(fmt).
sdscatvprintf(h, t, fmtlen) ==
  LET first == IF 2 * fmtlen > StaticBuf THEN 2 * fmtlen ELSE StaticBuf
      untouched(k) == Len(t) < first * 2 ^ k - 1 \/ t[first * 2 ^ k - 1] = 0
      k == CHOOSE k \in 0 .. Len(t) : untouched(k) /\ \A j \in 0 .. k - 1 : ~untouched(j)
      fits == first * 2 ^ k - 1
  IN  sdscatlen(h, CString(IF Len(t) <= fits THEN t ELSE SubSeq(t, 1, fits)))

\* sdscatfmt, one round of its loop: room for one byte, and for the whole of an argument.
FmtRoom(h, d) ==
  LET one == IF h.free = 0 THEN sdsMakeRoomFor(h, 1) ELSE h
  IN  IF d.arg /\ one.free < Len(d.text) THEN sdsMakeRoomFor(one, Len(d.text)) ELSE one
FmtPut(h, d) ==
  LET r == FmtRoom(h, d)
  IN  [len |-> r.len + Len(d.text), free |-> r.free - Len(d.text), buf |-> Overlay(r.buf, r.len, d.text)]

\* The part from place from (counted from 0) and n bytes long moves to the front.
MovedFront(h, from, n) ==
  [len |-> n, free |-> h.free + (h.len - n),
   buf |-> NulAt(IF from = 0 THEN h.buf ELSE Overlay(h.buf, 0, SubSeq(h.buf, from + 1, from + n)), n)]

\* strchr: the NUL that ends the set is found too.
InSet(set, c) == c = 0 \/ \E i \in DOMAIN set : set[i] = c

\* sp stops at the end of the string, ep at its first byte.
sdstrim(h, set) ==
  LET sp == CHOOSE k \in 0 .. h.len : /\ \A j \in 1 .. k : InSet(set, h.buf[j])
                                      /\ k = h.len \/ ~InSet(set, h.buf[k + 1])
      ep == CHOOSE k \in -1 .. h.len - 1 : /\ \A j \in k + 2 .. h.len : InSet(set, h.buf[j])
                                           /\ k <= 0 \/ ~InSet(set, h.buf[k + 1])
                                           /\ k = -1 => h.len = 0
      len == IF sp > ep THEN 0 ELSE ep - sp + 1
  IN  MovedFront(h, sp, len)

\* Mutant: an end behind the string is taken as it is.
sdsrangeUnclipped(h, start, end) ==
  LET place(i) == IF i >= 0 THEN i ELSE IF h.len + i < 0 THEN 0 ELSE h.len + i
      newlen == IF place(start) > place(end) \/ place(start) >= h.len THEN 0
                ELSE IF place(end) > h.len THEN h.len - place(start)
                ELSE place(end) - place(start) + 1
  IN  IF h.len = 0 THEN h ELSE MovedFront(h, IF newlen = 0 THEN 0 ELSE place(start), newlen)

sdsrange(h, start, end) ==
  LET place(i) == IF i >= 0 THEN i ELSE IF h.len + i < 0 THEN 0 ELSE h.len + i
      newlen == IF place(start) > place(end) \/ place(start) >= h.len THEN 0
                ELSE IF place(end) >= h.len THEN h.len - place(start)
                ELSE place(end) - place(start) + 1
  IN  IF h.len = 0 THEN h ELSE MovedFront(h, IF newlen = 0 THEN 0 ELSE place(start), newlen)

\* f of the bytes of the string, not of those behind it.
Mapped(h, f(_)) == [h EXCEPT !.buf = Overlay(h.buf, 0, [k \in 1 .. h.len |-> f(h.buf[k])])]

tolower(c) == IF c \in 65 .. 90 THEN c + 32 ELSE c
toupper(c) == IF c \in 97 .. 122 THEN c - 32 ELSE c
sdstolower(h) == Mapped(h, tolower)
sdstoupper(h) == Mapped(h, toupper)

\* The first byte of from that is c decides.
MapChar(c, from, to) ==
  LET found == {i \in DOMAIN from : from[i] = c}
  IN  IF found = {} THEN c ELSE to[CHOOSE i \in found : \A j \in found : i <= j]
sdsmapchars(h, from, to) == Mapped(h, LAMBDA c : MapChar(c, from, to))

-------------------------------------------------------------------------------
(* Calls, one after the other                                              *)

SdsInit ==
  /\ \E t \in Texts : s = sdsnewlen(t)
  /\ fmt = << >> /\ busy = FALSE /\ op = "new"

Call(f, h) ==
  /\ ~busy /\ s' = h /\ op' = f /\ h.len <= MaxLen /\ UNCHANGED <<fmt, busy>>

\* The use that the comment on sdsIncrLen shows: room for n bytes, some of them read.
ReadInto(n, t) ==
  LET r == sdsMakeRoomFor(s, n)
  IN  Len(t) <= n /\ Call("read", sdsIncrLen([r EXCEPT !.buf = Overlay(r.buf, r.len, t)], Len(t)))

Cut(n) == n <= s.len /\ Call("cut", sdsIncrLen(s, -n))

FmtStart(f) == ~busy /\ busy' = TRUE /\ fmt' = f /\ UNCHANGED <<s, op>>
FmtStep ==
  /\ busy /\ fmt # << >> /\ s.len + Len(Head(fmt).text) <= MaxLen
  /\ s' = FmtPut(s, Head(fmt)) /\ fmt' = Tail(fmt) /\ op' = "fmt" /\ UNCHANGED busy
FmtEnd ==
  /\ busy /\ fmt = << >> /\ busy' = FALSE
  /\ s' = [s EXCEPT !.buf = NulAt(s.buf, s.len)] /\ UNCHANGED <<fmt, op>>

SdsNext ==
  \/ \E t \in Texts : Call("cat", sdscatlen(s, t))
  \/ \E t \in Texts : Call("cpy", sdscpylen(s, t))
  \/ \E t \in Texts, n \in 1 .. StaticBuf : Call("printf", sdscatvprintf(s, t, n))
  \/ \E t \in Texts, n \in 0 .. MaxLen : ReadInto(n, t)
  \/ \E n \in 0 .. MaxLen : Cut(n)
  \/ \E n \in 0 .. MaxLen : Call("growzero", sdsgrowzero(s, n))
  \/ Call("clear", sdsclear(s))
  \/ Call("updatelen", sdsupdatelen(s))
  \/ Call("shrink", sdsRemoveFreeSpace(s))
  \/ \E set \in Sets : Call("trim", sdstrim(s, set))
  \/ \E i, j \in -MaxLen - 1 .. MaxLen + 1 : Call("range", sdsrange(s, i, j))
  \/ Call("lower", sdstolower(s))
  \/ Call("upper", sdstoupper(s))
  \/ \E from, to \in Sets :
       Len(from) = Len(to) /\ Call("map", sdsmapchars(s, from, to))
  \/ \E f \in Formats : FmtStart(f)
  \/ FmtStep
  \/ FmtEnd

SdsSpec == SdsInit /\ [][SdsNext]_sdsVars

-------------------------------------------------------------------------------
(* Properties                                                              *)

\* The header never says more than the allocation holds, whatever the calls and however
\* they follow each other; no byte of the string is one nobody has written; and a NUL
\* ends it, but in the middle of sdscatfmt.
Sound ==
  /\ s.len \in Nat /\ s.free \in Nat
  /\ s.buf \in [1 .. s.len + s.free + 1 -> Bytes \cup {Junk}]
  /\ \A k \in 1 .. s.len : s.buf[k] # Junk
  /\ busy \/ s.buf[s.len + 1] = 0

\* Each call does to the string what it says, whatever free space and old bytes are behind it.
Abstract == INSTANCE SdsString
  WITH str <- Str(s), Pieces <- {d.text : d \in UNION {{f[i] : i \in DOMAIN f} : f \in Formats}}
ImplementsString == Abstract!Spec
===============================================================================
