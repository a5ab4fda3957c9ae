------------------------------ MODULE RdbLoad ------------------------------
(***************************************************************************)
(* rdbLoad() in rdb.c with the functions it calls there and in             *)
(* eslaver_util.c: one action for each thing that is read, and one for     *)
(* each object that is sent.  The caller is the NIF rdb:load/2.  The file  *)
(* may end anywhere, and may lack its beginning.                           *)
(***************************************************************************)
EXTENDS RdbRecords

CONSTANT Saves   \* what the master may have saved: sequences of records

ASSUME SavesAssumption ==
    \A recs \in Saves :
        recs \in Seq(Record) /\ \A i \in 1 .. Len(recs) : WellFormed(recs[i])

VARIABLES
    records,   \* what the master saved
    dump,      \* what there is of it in the file
    pos,       \* items read
    at,        \* the place in rdbLoad
    type, expire, key,
    left,      \* elements or fields not read yet
    encoding,  \* of the object: "raw", "int", "ziplist", "linkedlist", "intset"
    val,       \* its elements
    taken,     \* records done with
    sent, outcome

vars == <<records, dump, pos, at, type, expire, key, left, encoding, val,
          taken, sent, outcome>>

object == <<left, encoding, val>>
result == <<taken, sent, outcome>>

Readers == {"header", "opcode", "time", "type", "db", "key", "value"}

TypeOK ==
    /\ records \in Seq(Record)
    /\ dump \in Seq(Item)
    /\ pos \in 0 .. Len(dump)
    /\ at \in Readers \cup {"elements", "end"}
    /\ type \in Types \cup {"none"}
    /\ expire \in {"none", "past", "future"}
    /\ key \in Texts
    /\ left \in Nat
    /\ encoding \in {"raw", "int", "ziplist", "linkedlist", "intset"}
    /\ val \in Seq(Texts)
    /\ taken \in 0 .. Len(records)
    /\ sent \in Seq(Message)
    /\ outcome \in {"running", "ok", "error", "crash"}

\* The file: all of a dump, a part that was received, or one without its start.
Pieces(file) == {SubSeq(file, from, to) : from \in {1, 2}, to \in 0 .. Len(file)}

Init ==
    /\ records \in Saves
    /\ dump \in Pieces(Dump(records))
    /\ pos = 0
    /\ at = "header"
    /\ type = "none"
    /\ expire = "none"
    /\ key = Empty
    /\ left = 0
    /\ encoding = "raw"
    /\ val = <<>>
    /\ taken = 0
    /\ sent = <<>>
    /\ outcome = "running"

-----------------------------------------------------------------------------
More(n) == pos + n <= Len(dump)
Next1   == dump[pos + 1]
Next2   == dump[pos + 2]

\* rioRead() at a place of rdbLoad, of an item of some kind.
Reads(place, kind) ==
    /\ at = place
    /\ More(1) /\ Next1.k = kind
    /\ pos' = pos + 1

Goes(place) == at' = place /\ UNCHANGED <<records, dump>>

Ends(how) ==
    /\ outcome' = how
    /\ Goes("end")
    /\ UNCHANGED <<type, expire, key, object, taken>>

Fail  == Ends("error") /\ UNCHANGED sent
Crash == Ends("crash") /\ UNCHANGED sent

\* A string that is read as a raw string, whatever its encoding in the file.
ReadsStr(place) == Reads(place, "str") /\ Next1.text \in Texts

-----------------------------------------------------------------------------
(* The loop of rdbLoad.                                                     *)

Header ==
    /\ Reads("header", "magic")
    /\ Goes("opcode")
    /\ UNCHANGED <<type, expire, key, object, result>>

WrongSignature ==
    /\ at = "header"
    /\ More(1) /\ Next1.k # "magic"
    /\ pos' = pos
    /\ Fail

ExpireOps == {"EXPIRETIME", "EXPIRETIME_MS"}

ReadExpireOp ==
    /\ Reads("opcode", "op")
    /\ Next1.op \in ExpireOps
    /\ Goes("time")
    /\ UNCHANGED <<type, expire, key, object, result>>

ReadTime ==
    /\ Reads("time", "time")
    /\ expire' = Next1.time
    /\ Goes("type")
    /\ UNCHANGED <<type, key, object, result>>

\* After an expiry another type is read, which is handled as the first would be.
ReadsType(opcodes) ==
    /\ Reads("opcode", "op") \/ Reads("type", "op")
    /\ Next1.op \in opcodes

ReadSelectDb ==
    /\ ReadsType({"SELECTDB"})
    /\ Goes("db")
    /\ UNCHANGED <<type, expire, key, object, result>>

\* continue: the next record, with no expiry.
ReadDb ==
    /\ Reads("db", "len")
    /\ expire' = "none"
    /\ Goes("opcode")
    /\ UNCHANGED <<type, key, object, result>>

ReadObjectType ==
    /\ ReadsType(Types)
    /\ type' = Next1.op
    /\ Goes("key")
    /\ UNCHANGED <<expire, key, object, result>>

ReadKey ==
    /\ ReadsStr("key")
    /\ key' = Next1.text
    /\ Goes("value")
    /\ UNCHANGED <<type, expire, object, result>>

\* The load ends here: the checksum behind the opcode is not read.  The NIF then
\* sends {loading, eof}.
ReadEof ==
    /\ ReadsType({"EOF"})
    /\ sent' = Append(sent, LoadingEof)
    /\ Ends("ok")

\* Mutant: the result of the first read of a record is not looked at, and the loop
\* goes on at the end of the file.
ShortReadUnseen ==
    /\ \/ at \in Readers \ {"opcode"} /\ ~More(1)
       \/ at = "elements" /\ left > 0 /\ ~More(IF type = "HASH" THEN 2 ELSE 1)
    /\ pos' = pos
    /\ Fail

\* rioRead() returns 0.
ShortRead ==
    /\ \/ at \in Readers /\ ~More(1)
       \/ at = "elements" /\ left > 0 /\ ~More(IF type = "HASH" THEN 2 ELSE 1)
    /\ pos' = pos
    /\ Fail

-----------------------------------------------------------------------------
(* rdbLoadObject().                                                          *)

\* A string may stay an integer: its object then has no sds.
ReadString ==
    /\ type = "STRING"
    /\ ReadsStr("value")
    /\ encoding' = IF Next1.text \in Ints THEN "int" ELSE "raw"
    /\ val' = <<Next1.text>>
    /\ left' = 0
    /\ Goes("elements")
    /\ UNCHANGED <<type, expire, key, result>>

\* Mutant: the count is decremented before the loop tests it.
ReadLengthLessOne ==
    /\ type \in {"LIST", "HASH"}
    /\ Reads("value", "len")
    /\ encoding' = IF type = "LIST" /\ Next1.len > LIST_MAX THEN "linkedlist" ELSE "ziplist"
    /\ val' = <<>>
    /\ left' = Next1.len - 1
    /\ Goes("elements")
    /\ UNCHANGED <<type, expire, key, result>>

ReadLength ==
    /\ type \in {"LIST", "HASH"}
    /\ Reads("value", "len")
    /\ encoding' = IF type = "LIST" /\ Next1.len > LIST_MAX THEN "linkedlist" ELSE "ziplist"
    /\ val' = <<>>
    /\ left' = Next1.len
    /\ Goes("elements")
    /\ UNCHANGED <<type, expire, key, result>>

\* The element of a short list is decoded and dropped.
ReadShortListElement ==
    /\ type = "LIST" /\ encoding = "ziplist" /\ left > 0
    /\ ReadsStr("elements")
    /\ left' = left - 1
    /\ Goes("elements")
    /\ UNCHANGED <<type, expire, key, encoding, val, result>>

\* sdsnew(ele->ptr) copies a C string.  An integer is no pointer, save for 0, whose
\* NULL makes an empty string.
ReadLongListElement ==
    /\ type = "LIST" /\ encoding = "linkedlist" /\ left > 0
    /\ ReadsStr("elements")
    /\ \/ /\ val' = Append(val, IF Next1.text \in Words \ Nuls THEN Next1.text ELSE Empty)
          /\ left' = left - 1
          /\ Goes("elements")
          /\ UNCHANGED <<type, expire, key, encoding, result>>
       \/ Next1.text \in Ints /\ Crash

\* Field and value, as raw strings, pushed to a ziplist.
ReadPair ==
    /\ type = "HASH" /\ at = "elements" /\ left > 0
    /\ More(2) /\ Next1.k = "str" /\ Next2.k = "str"
    /\ pos' = pos + 2
    /\ val' = val \o <<Next1.text, Next2.text>>
    /\ left' = left - 1
    /\ Goes("elements")
    /\ UNCHANGED <<type, expire, key, encoding, result>>

\* One string that holds the whole object.
ReadPacked ==
    /\ type \in Packed
    /\ Reads("value", "pack")
    /\ encoding' = IF type = "SET_INTSET" THEN "intset" ELSE "ziplist"
    /\ val' = Next1.texts
    /\ left' = 0
    /\ Goes("elements")
    /\ UNCHANGED <<type, expire, key, result>>

\* "Unknown object type", before anything is read.
UnknownType ==
    /\ at = "value"
    /\ type \in {"SET", "ZSET"}
    /\ pos' = pos
    /\ Fail

-----------------------------------------------------------------------------
(* The end of the loop's body: the object is sent.                          *)

Loaded(types) ==
    /\ at = "elements" /\ left = 0
    /\ type \in types
    /\ pos' = pos

NextRecord ==
    /\ taken' = taken + 1
    /\ expire' = "none"
    /\ Goes("opcode")
    /\ UNCHANGED <<type, key, object, outcome>>

Expired == expire = "past"

\* Mutant: an expired key is sent like any other.
SkipExpiredSends ==
    /\ Loaded(Types)
    /\ Expired
    /\ NextRecord
    /\ sent' = Append(sent, Loading("string", key, Bins(val)))

SkipExpired ==
    /\ Loaded(Types)
    /\ Expired
    /\ NextRecord
    /\ UNCHANGED sent

Sends(kind, value) ==
    /\ NextRecord
    /\ sent' = Append(sent, Loading(kind, key, value))

SendString ==
    /\ Loaded({"STRING"})
    /\ ~Expired
    /\ IF encoding = "int" THEN Crash ELSE Sends("string", Bins(val))

\* Elements are stored from the last to the first, and consed in that order.
SendZiplist ==
    /\ Loaded({"LIST", "LIST_ZIPLIST"}) /\ encoding = "ziplist"
    /\ ~Expired
    /\ Sends("list", [i \in 1 .. Len(val) |-> [num |-> val[i] \in Ints, text |-> val[i]]])

\* The type of an element is never assigned: 0 is a string, 1 an integer, and any
\* other value ends the load.
SendLinkedList ==
    /\ Loaded({"LIST"}) /\ encoding = "linkedlist"
    /\ ~Expired
    /\ \/ \E nums \in [1 .. Len(val) -> BOOLEAN] :
             Sends("list", [i \in 1 .. Len(val) |-> [num |-> nums[i], text |-> val[i]]])
       \/ Fail

SendNothing ==
    /\ Loaded({"SET_INTSET"})
    /\ ~Expired
    /\ NextRecord
    /\ UNCHANGED sent

SendZset ==
    /\ Loaded({"ZSET_ZIPLIST"})
    /\ ~Expired
    /\ Sends("zset", <<>>)

\* Integers in the ziplist are written as text again.
SendHash ==
    /\ Loaded({"HASH", "HASH_ZIPLIST"})
    /\ ~Expired
    /\ Sends("hash", Bins(val))

\* The bytes of a zipmap are read as those of a ziplist.
SendZipmap ==
    /\ Loaded({"HASH_ZIPMAP"})
    /\ ~Expired
    /\ Sends("hash", <<>>) \/ Crash

-----------------------------------------------------------------------------
Next ==
    \/ Header \/ WrongSignature \/ ReadExpireOp \/ ReadTime \/ ReadSelectDb \/ ReadDb
    \/ ReadObjectType \/ ReadKey \/ ReadEof \/ ShortRead
    \/ ReadString \/ ReadLength \/ ReadShortListElement \/ ReadLongListElement \/ ReadPair
    \/ ReadPacked \/ UnknownType
    \/ SkipExpired \/ SendString \/ SendZiplist \/ SendLinkedList \/ SendNothing
    \/ SendZset \/ SendHash \/ SendZipmap

Spec == Init /\ [][Next]_vars

\* The NIF runs in the caller's scheduler thread until it returns.
FairSpec == Spec /\ WF_vars(Next)

-----------------------------------------------------------------------------
\* However the file is laid out and wherever it ends, the reads stay in step with the
\* records: each is sent once, in order and with its own contents, or the load ends
\* for a reason that DumpFeed gives.  DropsExpired is what rdbLoad does; KeepsExpired is
\* the same promise without it.
Feed == INSTANCE DumpFeed WITH whole <- (dump = Dump(records)), DropsExpired <- TRUE
FeedsDump == Feed!Spec

\* rdbLoad leaves expiry to the master: every key of a dump reaches the callback, also one
\* whose expiry has passed by the clock at the load.  "In the latter case, the master is
\* responsible for key expiry.  If we would expire keys here, the snapshot taken by the
\* master may not be reflected on the slave" (the comment in front of the test that
\* leaves them out).
Promise == INSTANCE DumpFeed WITH whole <- (dump = Dump(records)), DropsExpired <- FALSE
KeepsExpired == Promise!Spec

\* The load ends, wherever the file does: the NIF blocks its scheduler meanwhile.  A
\* read of something else than what is next in the file would stop the model here.
LoadEnds == <>(outcome # "running")
=============================================================================
