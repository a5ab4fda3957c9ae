-------------------------------- MODULE Ziplist --------------------------------
(***************************************************************************)
(* ziplist.c, byte by byte: a doubly linked list in one block of memory.   *)
(* An entry holds the length of the one before it (in one byte, or in five *)
(* from ZIP_BIGLEN on), its encoding and length, and its contents; changing*)
(* one entry may change the size of the next one's first field, and so on. *)
(*                                                                         *)
(* A byte is a number below ByteValues (256 in the code), but for the      *)
(* encoding byte, which keeps its value.  mem is the block behind its      *)
(* header, so offset ZIPLIST_HEADER_SIZE of the code is index 1; its size  *)
(* stands for zlbytes.                                                     *)
(***************************************************************************)
EXTENDS Integers, Sequences, FiniteSets

CONSTANTS
  ByteValues,       \* values of a byte
  Str6Max,    \* longest string with a length of 1, 2 bytes (63, 16383)
  Str14Max,
  ImmMax,     \* largest immediate integer (12)
  LongSize,   \* bytes of an int64_t (8)
  CapLen,     \* UINT16_MAX: the number of entries is not stored from here on
  Elements,   \* texts to store
  MaxEntries, \* bound: entries in the list
  Counts,     \* bound: numbers of entries to delete at once
  TakesBack   \* TRUE: also insertions that take more bytes back than they need

ASSUME ZiplistAssumption ==
  /\ ByteValues \in Nat /\ ByteValues > 8
  /\ {Str6Max, Str14Max, ImmMax, LongSize, CapLen, MaxEntries} \subseteq Nat
  /\ Str6Max < 64 /\ Str6Max < Str14Max /\ Str14Max < 64 * ByteValues /\ ImmMax < 13
  /\ TakesBack \in BOOLEAN /\ Counts \subseteq Nat
  \* a text is an integer or a string of bytes
  /\ \A e \in Elements : e.int \in BOOLEAN /\ e.val \in Int
                         /\ e.chars \in Seq(0 .. ByteValues - 1)

VARIABLES
  zl,     \* [mem, tail, length]
  asked   \* history: the call that was made last, with its arguments

zlVars == <<zl, asked>>

ZIP_END == ByteValues - 1
ZIP_BIGLEN == ByteValues - 2
ZIP_STR_14B == 64
ZIP_STR_32B == 128
ZIP_STR_MASK == 192
ZIP_INT_16B == 192
ZIP_INT_32B == 208
ZIP_INT_64B == 224
ZIP_INT_24B == 240
ZIP_INT_8B == 254
ZIP_INT_IMM_MIN == 241

NULL == 0
\* What realloc leaves in bytes it adds.
Uninit == -1

-------------------------------------------------------------------------------
(* Memory                                                                  *)

ByteAt(m, i) == IF i \in DOMAIN m THEN m[i] ELSE Uninit

\* n bytes from p on, with the header's in front of the block and those behind it.
From(m, p, n) ==
  SubSeq([i \in 1 .. 4 |-> Uninit] \o m \o [i \in 1 .. n |-> Uninit], p + 4, p + n + 3)

Overwrite(m, p, bytes) ==
  SubSeq(m, 1, p - 1) \o bytes \o SubSeq(m, p + Len(bytes), Len(m))

\* Mutant: the last byte is not moved.
MemmoveShort(m, to, from, n) == Overwrite(m, to, From(m, from, n - 1))

Memmove(m, to, from, n) == Overwrite(m, to, From(m, from, n))

Resize(m, n) == From(m, 1, n - 1) \o <<ZIP_END>>

\* Little endian, two's complement.
LittleEndian(v, n) == [i \in 1 .. n |-> (v \div ByteValues ^ (i - 1)) % ByteValues]

Number(bytes) ==
  LET above[i \in Nat] ==
        IF i > Len(bytes) THEN 0 ELSE bytes[i] + ByteValues * above[i + 1]
  IN  above[1]

Signed(bytes) ==
  LET n == Number(bytes)  range == ByteValues ^ Len(bytes)
  IN  IF n >= range \div 2 THEN n - range ELSE n

FitsIn(v, n) == v \in -((ByteValues ^ n) \div 2) .. ((ByteValues ^ n) \div 2) - 1

Flip(bytes) == [i \in DOMAIN bytes |-> bytes[Len(bytes) - i + 1]]

-------------------------------------------------------------------------------
(* Entries                                                                 *)

IsStr(encoding) == encoding < ZIP_STR_MASK

zipIntSize(encoding) ==
  CASE encoding = ZIP_INT_8B  -> 1
    [] encoding = ZIP_INT_16B -> 2
    [] encoding = ZIP_INT_24B -> 3
    [] encoding = ZIP_INT_32B -> 4
    [] encoding = ZIP_INT_64B -> LongSize
    [] OTHER -> 0

zipEncodeLength(encoding, rawlen) ==
  IF ~IsStr(encoding) THEN <<encoding>>
  ELSE CASE rawlen <= Str6Max -> <<rawlen>>
         [] rawlen \in Str6Max + 1 .. Str14Max ->
              <<ZIP_STR_14B + rawlen \div ByteValues, rawlen % ByteValues>>
         [] OTHER -> <<ZIP_STR_32B>> \o Flip(LittleEndian(rawlen, 4))

\* ZIP_DECODE_LENGTH
DecodeLength(m, p) ==
  LET b == ByteAt(m, p) IN
  CASE b < ZIP_STR_14B -> [encoding |-> 0, lensize |-> 1, len |-> b]
    [] b \in ZIP_STR_14B .. ZIP_STR_32B - 1 ->
         [encoding |-> ZIP_STR_14B, lensize |-> 2,
          len |-> (b - ZIP_STR_14B) * ByteValues + ByteAt(m, p + 1)]
    [] b \in ZIP_STR_32B .. ZIP_STR_MASK - 1 ->
         [encoding |-> ZIP_STR_32B, lensize |-> 5,
          len |-> Number(Flip(From(m, p + 1, 4)))]
    [] OTHER -> [encoding |-> b, lensize |-> 1, len |-> zipIntSize(b)]

zipPrevEncodeLengthForceLarge(len) == <<ZIP_BIGLEN>> \o LittleEndian(len, 4)

zipPrevEncodeLength(len) ==
  IF len < ZIP_BIGLEN THEN <<len>> ELSE zipPrevEncodeLengthForceLarge(len)

PrevLenSize(m, p) == IF ByteAt(m, p) < ZIP_BIGLEN THEN 1 ELSE 5

PrevLen(m, p) == IF PrevLenSize(m, p) = 1 THEN ByteAt(m, p) ELSE Number(From(m, p + 1, 4))

zipPrevLenByteDiff(m, p, len) == Len(zipPrevEncodeLength(len)) - PrevLenSize(m, p)

zipEntry(m, p) ==
  LET size == PrevLenSize(m, p)  field == DecodeLength(m, p + size)
  IN  [prevrawlensize |-> size, prevrawlen |-> PrevLen(m, p), encoding |-> field.encoding,
       len |-> field.len, headersize |-> size + field.lensize]

zipRawEntryLength(m, p) ==
  LET size == PrevLenSize(m, p)  field == DecodeLength(m, p + size)
  IN  size + field.lensize + field.len

\* The smallest encoding of an integer, 0 of any other text.
zipTryEncoding(e) ==
  CASE ~e.int -> 0
    [] e.int /\ e.val \in 0 .. ImmMax -> ZIP_INT_IMM_MIN + e.val
    [] OTHER -> LET fitting == {n \in 1 .. 4 : FitsIn(e.val, n)}
                    of == <<ZIP_INT_8B, ZIP_INT_16B, ZIP_INT_24B, ZIP_INT_32B>>
                IN  IF fitting = {} THEN ZIP_INT_64B
                    ELSE of[CHOOSE n \in fitting : \A k \in fitting : n <= k]

zipSaveInteger(val, encoding) == LittleEndian(val, zipIntSize(encoding))

zipLoadInteger(m, p, encoding) ==
  IF zipIntSize(encoding) = 0 THEN (encoding % 16) - 1
  ELSE Signed(From(m, p, zipIntSize(encoding)))

\* ziplistGet: the text stored at p.
ziplistGet(m, p) ==
  LET q == p + PrevLenSize(m, p)  field == DecodeLength(m, q) IN
  IF IsStr(ByteAt(m, q))
  THEN [int |-> FALSE, val |-> 0, chars |-> From(m, q + field.lensize, field.len)]
  ELSE [int |-> TRUE, val |-> zipLoadInteger(m, q + field.lensize, field.encoding),
        chars |-> << >>]

-------------------------------------------------------------------------------
(* Changes                                                                 *)

ziplistNew == [mem |-> <<ZIP_END>>, tail |-> 1, length |-> 0]

\* Mutant: the number of entries is counted on past its limit.
AddLengthWraps(length, incr) == (length + incr) % (CapLen + 1)

\* ZIPLIST_INCR_LENGTH
AddLength(length, incr) == IF length < CapLen THEN length + incr ELSE length

\* Mutant: an entry that grows leaves the entries behind it as they are.
CascadeUpdateNever(z, p) == z

RECURSIVE CascadeUpdate(_, _)
\* __ziplistCascadeUpdate: from the entry at p on, as long as the entry behind it
\* needs a wider field for the length of the one before it.
CascadeUpdate(z, p) ==
  LET rawlen == zipRawEntryLength(z.mem, p)
      np == p + rawlen
      field == zipPrevEncodeLength(rawlen)
      next == zipEntry(z.mem, np)
      old == next.prevrawlensize
      extra == Len(field) - old
      grown == Memmove(Resize(z.mem, Len(z.mem) + extra), np + Len(field), np + old,
                       Len(z.mem) - np - old)
  IN  IF z.mem[p] = ZIP_END \/ z.mem[np] = ZIP_END \/ next.prevrawlen = rawlen THEN z
      ELSE IF extra > 0
      THEN CascadeUpdate([z EXCEPT !.mem = Overwrite(grown, np, field),
                                   !.tail = IF @ = np THEN @ ELSE @ + extra], np)
      ELSE [z EXCEPT !.mem = Overwrite(@, np, IF extra < 0
                                          THEN zipPrevEncodeLengthForceLarge(rawlen)
                                          ELSE field)]

\* The place behind n entries, or the end.
Skip(m, p, n) ==
  LET walk[q \in Nat, k \in Nat] ==
        IF k = 0 \/ ByteAt(m, q) \in {ZIP_END, Uninit} THEN q
        ELSE walk[q + zipRawEntryLength(m, q), k - 1]
  IN  walk[p, n]

\* Mutant: the change of the next entry's size is not added.
MovedTailNoDiff(m, p, tail, by, nextdiff) == tail + by

\* The tail offset after the entry at p and those behind it have moved: when there are
\* several, the last one moves by the change in size of the first one too.
MovedTail(m, p, tail, by, nextdiff) ==
  tail + by + (IF ByteAt(m, p + zipRawEntryLength(m, p)) = ZIP_END THEN 0 ELSE nextdiff)

\* __ziplistDelete: at most num entries, from the one at p on.
Delete(z, p, num) ==
  LET m == z.mem
      prevlen == zipEntry(m, p).prevrawlen
      q == Skip(m, p, num)
      totlen == q - p
      deleted == CHOOSE k \in 0 .. num :
                   Skip(m, p, k) = q /\ (k = 0 \/ Skip(m, p, k - 1) # q)
      tailGone == m[q] = ZIP_END
      nextdiff == IF tailGone THEN 0 ELSE zipPrevLenByteDiff(m, q, prevlen)
      r == q - nextdiff
      linked == Overwrite(m, r, zipPrevEncodeLength(prevlen))
      moved == IF tailGone THEN m ELSE Memmove(linked, p, r, Len(m) - r)
      shrunk == [mem |-> Resize(moved, Len(m) - totlen + nextdiff),
                 tail |-> IF tailGone THEN p - prevlen
                          ELSE MovedTail(linked, r, z.tail, -totlen, nextdiff),
                 length |-> AddLength(z.length, -deleted)]
  IN  IF totlen = 0 THEN z
      ELSE IF nextdiff # 0 THEN CascadeUpdate(shrunk, p) ELSE shrunk

\* Sizes that __ziplistInsert works out before it changes anything.
Room(z, p, e) ==
  LET m == z.mem
      encoding == zipTryEncoding(e)
      prevlen == IF m[p] # ZIP_END THEN PrevLen(m, p)
                 ELSE IF m[z.tail] # ZIP_END THEN zipRawEntryLength(m, z.tail)
                 ELSE 0
      header == zipPrevEncodeLength(prevlen) \o zipEncodeLength(encoding, Len(e.chars))
      bytes == header \o (IF IsStr(encoding) THEN e.chars
                          ELSE zipSaveInteger(e.val, encoding))
  IN  [bytes |-> bytes,
       nextdiff |-> IF m[p] = ZIP_END THEN 0 ELSE zipPrevLenByteDiff(m, p, Len(bytes))]

\* __ziplistInsert: in front of the entry at p, or at the end.
Put(z, p, e) ==
  LET room == Room(z, p, e)
      reqlen == Len(room.bytes)
      nextdiff == room.nextdiff
      m == Resize(z.mem, Len(z.mem) + reqlen + nextdiff)
      moved == Overwrite(Memmove(m, p + reqlen, p - nextdiff, Len(z.mem) - p + nextdiff),
                     p + reqlen, zipPrevEncodeLength(reqlen))
      spread == IF m[p] = ZIP_END THEN [mem |-> m, tail |-> p, length |-> z.length]
                ELSE [mem |-> moved, length |-> z.length,
                      tail |-> MovedTail(moved, p + reqlen, z.tail, reqlen, nextdiff)]
      linked == IF nextdiff # 0 THEN CascadeUpdate(spread, p + reqlen) ELSE spread
  IN  [linked EXCEPT !.mem = Overwrite(@, p, room.bytes), !.length = AddLength(@, 1)]

-------------------------------------------------------------------------------
(* Queries                                                                 *)

\* ziplistIndex: from the tail when index is negative.
ziplistIndex(z, index) ==
  LET m == z.mem
      back[i \in Nat, p \in Nat] ==   \* <<p, index>> when the loop ends
        IF PrevLen(m, p) > 0 /\ i # 0 THEN back[i - 1, p - PrevLen(m, p)] ELSE <<p, i>>
      last == IF m[z.tail] = ZIP_END THEN <<z.tail, -index - 1>> ELSE back[-index - 1, z.tail]
      found == IF index < 0 THEN last ELSE <<Skip(m, 1, index), 0>>
  IN  IF m[found[1]] = ZIP_END \/ found[2] > 0 THEN NULL ELSE found[1]

ziplistNext(z, p) ==
  IF z.mem[p] = ZIP_END \/ z.mem[Skip(z.mem, p, 1)] = ZIP_END THEN NULL
  ELSE Skip(z.mem, p, 1)

ziplistPrev(z, p) ==
  CASE z.mem[p] = ZIP_END -> IF z.mem[z.tail] = ZIP_END THEN NULL ELSE z.tail
    [] z.mem[p] # ZIP_END /\ p = 1 -> NULL
    [] OTHER -> p - PrevLen(z.mem, p)

\* Mutant: only strings are compared.
ziplistCompareStrings(m, p, e) == m[p] # ZIP_END /\ ~e.int /\ ziplistGet(m, p) = e

ziplistCompare(m, p, e) ==
  LET entry == zipEntry(m, p) IN
  /\ m[p] # ZIP_END
  /\ IF IsStr(entry.encoding) THEN ~e.int /\ ziplistGet(m, p).chars = e.chars
     ELSE e.int /\ zipLoadInteger(m, p + entry.headersize, entry.encoding) = e.val

\* ziplistFind: the first entry equal to e, with skip entries between comparisons.
ziplistFind(m, first, e, skip) ==
  LET walk[p \in Nat, skipcnt \in Nat] ==
        IF m[p] = ZIP_END THEN NULL
        ELSE IF skipcnt = 0 /\ ziplistCompare(m, p, e) THEN p
        ELSE walk[Skip(m, p, 1), IF skipcnt = 0 THEN skip ELSE skipcnt - 1]
  IN  walk[first, 0]

\* The places of the entries, from the first on.
Places(m) ==
  LET walk[p \in Nat] == IF ByteAt(m, p) \in {ZIP_END, Uninit} THEN << >>
                         ELSE <<p>> \o walk[p + zipRawEntryLength(m, p)]
  IN  walk[1]

ziplistLen(z) == IF z.length < CapLen THEN z.length ELSE Len(Places(z.mem))

-------------------------------------------------------------------------------
(* The list in use                                                         *)

Contents(m) ==
  LET read[p \in Nat] == IF ByteAt(m, p) \in {ZIP_END, Uninit} THEN << >>
                         ELSE <<ziplistGet(m, p)>> \o read[p + zipRawEntryLength(m, p)]
  IN  read[1]

ZiplistInit == zl = ziplistNew /\ asked = [call |-> "new"]

\* A call that gets a pointer gets one to the k-th entry.
Pointer(k) == Places(zl.mem)[k]
Ranks == 1 .. Len(Places(zl.mem))

MayPut(p, e) ==
  /\ Len(Places(zl.mem)) < MaxEntries
  /\ TakesBack \/ Len(Room(zl, p, e).bytes) + Room(zl, p, e).nextdiff >= 0

\* Mutant: the end that was asked for is not looked at.
ziplistPushHead(e, where) ==
  /\ MayPut(1, e) /\ zl' = Put(zl, 1, e)
  /\ asked' = [call |-> "push", elem |-> e, where |-> where]

ziplistPush(e, where) ==
  LET p == IF where = "head" THEN 1 ELSE Len(zl.mem) IN
  /\ MayPut(p, e) /\ zl' = Put(zl, p, e)
  /\ asked' = [call |-> "push", elem |-> e, where |-> where]

ziplistInsert(k, e) ==
  /\ MayPut(Pointer(k), e) /\ zl' = Put(zl, Pointer(k), e)
  /\ asked' = [call |-> "insert", elem |-> e, at |-> k]

ziplistDelete(k) ==
  /\ zl' = Delete(zl, Pointer(k), 1)
  /\ asked' = [call |-> "delete", at |-> k]

\* Nothing is done for an index that no entry has.
ziplistDeleteRange(index, num) ==
  /\ zl' = IF ziplistIndex(zl, index) = NULL THEN zl
           ELSE Delete(zl, ziplistIndex(zl, index), num)
  /\ asked' = [call |-> "range", index |-> index, num |-> num]

\* ziplistLen stores the number of entries again once it fits.
StoreLength ==
  /\ zl.length >= CapLen
  /\ Len(Places(zl.mem)) < CapLen
  /\ zl' = [zl EXCEPT !.length = Len(Places(zl.mem))]
  /\ asked' = [call |-> "len"]

ZiplistNext ==
  \/ \E e \in Elements, where \in {"head", "tail"} : ziplistPush(e, where)
  \/ \E e \in Elements, k \in Ranks : ziplistInsert(k, e)
  \/ \E k \in Ranks : ziplistDelete(k)
  \/ \E index \in -MaxEntries .. MaxEntries, num \in Counts :
        ziplistDeleteRange(index, num)
  \/ StoreLength

ZiplistSpec == ZiplistInit /\ [][ZiplistNext]_zlVars

-------------------------------------------------------------------------------
(* Properties                                                              *)

\* The block holds bytes, all of them written by someone; the header's fields fit.
TypeOK ==
  /\ \A i \in DOMAIN zl.mem : zl.mem[i] \in 0 .. 255
  /\ zl.tail \in 1 .. Len(zl.mem)
  /\ zl.length \in 0 .. CapLen
  /\ asked.call \in {"new", "push", "insert", "delete", "range", "len"}

\* Whatever entries grew or shrank before, each one says how long the one before it is,
\* the header where the last one is, and the block ends behind it (cascading updates,
\* tail offset).
Linked ==
  LET at == Places(zl.mem)  n == Len(at) IN
  /\ \A k \in 1 .. n :
       PrevLen(zl.mem, at[k]) = (IF k = 1 THEN 0 ELSE at[k] - at[k - 1])
  /\ zl.tail = (IF n = 0 THEN 1 ELSE at[n])
  /\ Skip(zl.mem, 1, n) = Len(zl.mem)

\* An index from either end finds the same entries, and none beyond them; next and
\* prev are inverse.
Indexed ==
  LET at == Places(zl.mem)  n == Len(at) IN
  /\ \A i \in 0 .. n + 1 : ziplistIndex(zl, i) = (IF i < n THEN at[i + 1] ELSE NULL)
  /\ \A i \in 1 .. n + 2 : ziplistIndex(zl, -i) = (IF i <= n THEN at[n - i + 1] ELSE NULL)
  /\ \A k \in 1 .. n : /\ ziplistNext(zl, at[k]) = (IF k < n THEN at[k + 1] ELSE NULL)
                       /\ ziplistPrev(zl, at[k]) = (IF k > 1 THEN at[k - 1] ELSE NULL)
  /\ ziplistPrev(zl, Len(zl.mem)) = (IF n = 0 THEN NULL ELSE at[n])

\* ziplistFind returns the first entry with the text among those it compares,
\* however the two integers or strings are encoded.
Finds ==
  \A e \in Elements, skip \in 0 .. 1 :
    LET at == Places(zl.mem)
        equal == {k \in 1 .. Len(at) : (k - 1) % (skip + 1) = 0
                                       /\ Contents(zl.mem)[k] = e}
    IN  ziplistFind(zl.mem, 1, e, skip)
          = IF equal = {} THEN NULL ELSE at[CHOOSE k \in equal : \A j \in equal : k <= j]

\* The number of entries is right, also when it went past what the header can hold
\* and came back.
Counted == ziplistLen(zl) = Len(Places(zl.mem))

\* Every call does what it was asked: the element it was given stands at the place it was
\* given, the run of entries from the index it was given on is gone, as long as asked for or
\* to the end, and every other entry is there in its place with its contents.
List == INSTANCE ZiplistSeq WITH elems <- Contents(zl.mem)
ImplementsSeq == List!SeqSpec

\* What the comments of ziplist.c:440-446 promise of a field that is wider than it needs
\* to be: it stays, and an insertion keeps the entries that are there.
InsertionKeeps ==
  [][Len(Places(zl.mem')) > Len(Places(zl.mem)) =>
       \E k \in 1 .. Len(Contents(zl.mem')) :
         Contents(zl.mem) = List!RemoveAt(Contents(zl.mem'), k)]_zl
===============================================================================
