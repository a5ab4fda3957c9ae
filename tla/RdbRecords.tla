---------------------------- MODULE RdbRecords ----------------------------
(***************************************************************************)
(* What a redis master writes in a dump, and what eslaver's loader sends   *)
(* to the server.  A string is a text: a member of Ints is a decimal       *)
(* integer, which the master saves in an integer encoding, both as a       *)
(* string of its own and inside a ziplist; a member of Words is not, and   *)
(* is saved as it is or compressed.                                        *)
(***************************************************************************)
EXTENDS Integers, SequencesExt

CONSTANTS
    Words,     \* texts that are no integers
    Ints,      \* texts that are
    Nuls,      \* words that begin with a NUL byte
    Empty,     \* the word of no bytes
    LIST_MAX   \* REDIS_LIST_MAX_ZIPLIST_ENTRIES

ASSUME RecordsAssumption ==
    /\ Words \cap Ints = {}
    /\ Nuls \subseteq Words
    /\ Empty \in Words \ Nuls
    /\ LIST_MAX \in Nat

Texts == Words \cup Ints

-----------------------------------------------------------------------------
(* Records: one key each.                                                   *)

\* The elements of a value follow each other, or are packed in one string.
Flat   == {"STRING", "LIST", "SET", "ZSET", "HASH"}
Packed == {"HASH_ZIPMAP", "LIST_ZIPLIST", "SET_INTSET", "ZSET_ZIPLIST", "HASH_ZIPLIST"}
Types  == Flat \cup Packed

Record == [type   : Types,
           select : BOOLEAN,                       \* SELECTDB comes before it
           expire : {"none", "past", "future"},    \* against the clock at the load
           secs   : BOOLEAN,                       \* the expiry is in seconds
           key    : Texts,
           val    : Seq(Texts)]

\* A string has one element, and a hash a value for each field.
WellFormed(rec) ==
    /\ rec.type = "STRING" => Len(rec.val) = 1
    /\ rec.type \in {"HASH", "HASH_ZIPLIST", "HASH_ZIPMAP"} => Len(rec.val) % 2 = 0

-----------------------------------------------------------------------------
(* The file: a sequence of what the loader reads in one piece.              *)

Opcodes == Types \cup {"EXPIRETIME", "EXPIRETIME_MS", "SELECTDB", "EOF"}

Item == [k : {"magic"}]
          \cup [k : {"op"}, op : Opcodes]
          \cup [k : {"time"}, time : {"past", "future"}]
          \cup [k : {"len"}, len : Nat]
          \cup [k : {"str"}, text : Texts]
          \cup [k : {"pack"}, texts : Seq(Texts)]

Magic        == [k |-> "magic"]
Op(opcode)   == [k |-> "op", op |-> opcode]
Length(n)    == [k |-> "len", len |-> n]
Str(text)    == [k |-> "str", text |-> text]
Pack(texts)  == [k |-> "pack", texts |-> texts]

Strs(texts) == [i \in 1 .. Len(texts) |-> Str(texts[i])]

ValueItems(rec) ==
    CASE rec.type = "STRING"         -> <<Str(rec.val[1])>>
      [] rec.type = "HASH"           -> <<Length(Len(rec.val) \div 2)>> \o Strs(rec.val)
      [] rec.type \in Packed         -> <<Pack(rec.val)>>
      [] OTHER                       -> <<Length(Len(rec.val))>> \o Strs(rec.val)

RecordItems(rec) ==
    (IF rec.select THEN <<Op("SELECTDB"), Length(0)>> ELSE <<>>)
      \o (IF rec.expire = "none" THEN <<>>
          ELSE <<Op(IF rec.secs THEN "EXPIRETIME" ELSE "EXPIRETIME_MS"),
                 [k |-> "time", time |-> rec.expire]>>)
      \o <<Op(rec.type), Str(rec.key)>>
      \o ValueItems(rec)

\* Without the checksum, which the loader does not read.
Dump(recs) ==
    <<Magic>> \o FlattenSeq([i \in 1 .. Len(recs) |-> RecordItems(recs[i])]) \o <<Op("EOF")>>

-----------------------------------------------------------------------------
(* Messages to the server: {loading, Type, Key, Value} and {loading, eof}.   *)

Term == [num : BOOLEAN, text : Texts]
Bin(text) == [num |-> FALSE, text |-> text]
Num(text) == [num |-> TRUE, text |-> text]

Bins(texts) == [i \in 1 .. Len(texts) |-> Bin(texts[i])]

Message == [t : {"string", "list", "zset", "hash", "eof"}, key : Texts, val : Seq(Term)]
Loading(type, key, val) == [t |-> type, key |-> key, val |-> val]
LoadingEof == Loading("eof", Empty, <<>>)
=============================================================================
