----------------------------- MODULE DumpFeed -----------------------------
(***************************************************************************)
(* What the loader promises of a dump, record by record, without regard to *)
(* how the file is laid out and read.                                      *)
(***************************************************************************)
EXTENDS RdbRecords

CONSTANT DropsExpired   \* keys whose expiry has passed by the clock at the load are left out

VARIABLES
    records,   \* the keys the master saved
    whole,     \* the file is there from its first byte to the EOF opcode
    taken,     \* records done with
    sent,      \* messages
    outcome    \* "running", "ok", "error", or "crash" of the virtual machine

vars == <<records, whole, taken, sent, outcome>>

FeedInit ==
    /\ taken = 0
    /\ sent = <<>>
    /\ outcome = "running"

-----------------------------------------------------------------------------
Hashes  == {"HASH", "HASH_ZIPLIST"}
Unknown == {"SET", "ZSET"}
Long(rec)   == rec.type = "LIST" /\ Len(rec.val) > LIST_MAX
HasInt(rec) == \E i \in DOMAIN rec.val : rec.val[i] \in Ints

\* Small sets of integers are passed over, and keys that have expired when they are not
\* left to the master.
Ignored(rec) == rec.type = "SET_INTSET" \/ (DropsExpired /\ rec.expire = "past")

\* A long list is kept as C strings, and without the type of its elements.
CString(text) == IF text \in Words \ Nuls THEN text ELSE Empty
LongLists(texts) ==
    {[i \in 1 .. Len(texts) |-> [num |-> nums[i], text |-> CString(texts[i])]] :
        nums \in [1 .. Len(texts) -> BOOLEAN]}

\* Values that may be sent for a record; none for a string saved as an integer.  A
\* short list is sent without its elements, a sorted set without its members, and
\* what a zipmap taken for a ziplist yields is stood for by nothing.
Values(rec) ==
    CASE rec.type = "STRING" -> IF HasInt(rec) THEN {} ELSE {Bins(rec.val)}
      [] rec.type \in Hashes -> {Bins(rec.val)}
      [] rec.type = "LIST_ZIPLIST" ->
            {[i \in 1 .. Len(rec.val) |->
                [num |-> rec.val[i] \in Ints, text |-> rec.val[i]]]}
      [] rec.type = "LIST" -> IF Long(rec) THEN LongLists(rec.val) ELSE {<<>>}
      [] OTHER -> {<<>>}

MessageType(rec) ==
    CASE rec.type = "STRING"                        -> "string"
      [] rec.type \in {"LIST", "LIST_ZIPLIST"}      -> "list"
      [] rec.type = "ZSET_ZIPLIST"                  -> "zset"
      [] rec.type \in Hashes \cup {"HASH_ZIPMAP"}   -> "hash"

\* What ends the load: types it does not know, elements of no type; an integer
\* where a C string was expected, a zipmap.
Refused(rec) == rec.type \in Unknown \/ (Long(rec) /\ ~Ignored(rec))
Breaks(rec)  ==
    \/ Long(rec) /\ HasInt(rec)
    \/ ~Ignored(rec) /\ rec.type = "STRING" /\ HasInt(rec)
    \/ ~Ignored(rec) /\ rec.type = "HASH_ZIPMAP"

-----------------------------------------------------------------------------
Current == records[taken + 1]
Pending == outcome = "running" /\ taken < Len(records)

Pass ==
    /\ Pending
    /\ Ignored(Current) /\ Current.type \notin Unknown
    /\ taken' = taken + 1
    /\ UNCHANGED <<records, whole, sent, outcome>>

Send ==
    /\ Pending
    /\ ~Ignored(Current)
    /\ Current.type \notin Unknown
    /\ \E value \in Values(Current) :
          sent' = Append(sent, Loading(MessageType(Current), Current.key, value))
    /\ taken' = taken + 1
    /\ UNCHANGED <<records, whole, outcome>>

Finish ==
    /\ outcome = "running" /\ taken = Len(records)
    /\ whole
    /\ sent' = Append(sent, LoadingEof)
    /\ outcome' = "ok"
    /\ UNCHANGED <<records, whole, taken>>

GiveUp ==
    /\ outcome = "running"
    /\ ~whole \/ (Pending /\ Refused(Current))
    /\ outcome' = "error"
    /\ UNCHANGED <<records, whole, taken, sent>>

Crash ==
    /\ Pending
    /\ Breaks(Current)
    /\ outcome' = "crash"
    /\ UNCHANGED <<records, whole, taken, sent>>

Next == Pass \/ Send \/ Finish \/ GiveUp \/ Crash

Spec == FeedInit /\ [][Next]_vars
=============================================================================
