------------------------------ MODULE ReplWire ------------------------------
(***************************************************************************)
(* What travels between a redis master and eslaver, and the pure functions *)
(* the server applies to it.  A byte stream is a sequence of units; a unit *)
(* is the smallest run of bytes that the decoders tell apart:              *)
(*   - one reply line of the handshake,                                    *)
(*   - one part of the snapshot payload: the "$<count>\r\n" line, the      *)
(*     "REDIS0006" signature, one key with its value, the EOF opcode,      *)
(*   - one third of a propagated command: the first bytes of its encoding, *)
(*     the bytes up to the final CR, and the final LF.                     *)
(* TCP may cut between any two units, so a cut inside a command, or inside *)
(* its last CRLF, is a case of its own.                                    *)
(***************************************************************************)
EXTENDS Integers, SequencesExt

CONSTANT BUFFER  \* eslaver_server.erl's ?BUFFER, in units: the most one read returns

ASSUME BufferAssumption == BUFFER \in Nat /\ BUFFER > 1

-----------------------------------------------------------------------------
ReplyKinds   == {"pong", "loading", "ok", "unrecognized", "err", "fullresync", "continue"}
\* A "dkey" is a key whose bytes happen to start with '-' where the read starts.
PayloadKinds == {"len", "magic", "key", "dkey", "eof"}
StreamKinds  == {"head", "body", "lf"}

\* n numbers a key or a command, counts the keys before an EOF opcode, or is
\* FULLRESYNC's offset; r is the run id that
\* FULLRESYNC announces, or the history position at which a snapshot was taken.
Unit == [k : ReplyKinds \cup PayloadKinds \cup StreamKinds, n : Nat, r : Nat]

Mk(kind, num) == [k |-> kind, n |-> num, r |-> 0]
FullResync(runid, offset) == [k |-> "fullresync", n |-> offset, r |-> runid]

\* The bulk reply to SYNC: keys is a sequence of key kinds, at a history position.
Payload(keys, at) ==
    LET Part(kind, num) == [k |-> kind, n |-> num, r |-> at]
    IN  <<Part("len", 0), Part("magic", 0)>>
          \o [i \in 1 .. Len(keys) |-> Part(keys[i], i)]
          \o <<Part("eof", Len(keys))>>

\* The units of the master's replication history: command c is units 3c-2 .. 3c.
CmdUnits == 3
HistUnit(p) == Mk(<<"head", "body", "lf">>[((p - 1) % CmdUnits) + 1],
                  ((p - 1) \div CmdUnits) + 1)
HistUnits(from, to) == [i \in 1 .. (to - from + 1) |-> HistUnit(from + i - 1)]

-----------------------------------------------------------------------------
(* recv_sock/1: the result of the one message it receives.                  *)

ReplyResult == [ok           |-> "psync",
                pong         |-> "pong",
                continue     |-> "continue",
                loading      |-> "loading",
                fullresync   |-> "fullresync",
                unrecognized |-> "sync",
                err          |-> "error",
                dkey         |-> "error"]

\* A chunk is recognised by its first bytes; anything else is snapshot data,
\* and a chunk that fills the read buffer is taken to have a successor.
ChunkResult(chunk) ==
    IF chunk = <<>> THEN "load_stream"
    ELSE IF chunk[1].k \in DOMAIN ReplyResult THEN ReplyResult[chunk[1].k]
    ELSE IF Len(chunk) = BUFFER THEN "load_buffer"
    ELSE "load_stream"

\* Every other message (a close, a call, a stray term) is "Generic error".
RecvResult(msg) == IF msg.t = "tcp" THEN ChunkResult(msg.data) ELSE "error"

-----------------------------------------------------------------------------
(* rdb:save/3 and rdb:load/2, the NIF's view of the dump file.              *)

NewlineEnd == ReplyKinds \cup {"len", "lf"}   \* units whose last byte is '\n'

\* Mode 0 truncates the file and drops the bulk up to its first newline.
AfterNewline(bulk) ==
    LET nl == {i \in 1 .. Len(bulk) : bulk[i].k \in NewlineEnd}
    IN  IF nl = {} THEN <<>>
        ELSE SubSeq(bulk, 1 + CHOOSE i \in nl : \A j \in nl : i <= j, Len(bulk))

Save(file, bulk, rdbMode) ==
    IF rdbMode = 0 THEN AfterNewline(bulk) ELSE file \o bulk

IsKey(u) == u.k \in {"key", "dkey"}

\* The loader reads the signature, then objects until the EOF opcode; what
\* follows the opcode is never read (the checksum test is commented out).
EndsAt(file, e) ==
    /\ file[1].k = "magic"
    /\ file[e].k = "eof"
    /\ \A i \in 2 .. e - 1 : IsKey(file[i])

Loadable(file) == \E e \in 2 .. Len(file) : EndsAt(file, e)
EofAt(file)    == CHOOSE e \in 2 .. Len(file) : EndsAt(file, e)
AfterEof(file) == SubSeq(file, EofAt(file) + 1, Len(file))

-----------------------------------------------------------------------------
(* buffer/3 and redis:parse/1 on propagated commands.                       *)

\* The two clauses that return {ok, <<>>} without parsing anything.
Quiet(chunk, buf) ==
    /\ buf = <<>>
    /\ \/ chunk = <<>>
       \/ Len(chunk) = 1 /\ chunk[1].k = "lf"

Full(chunk) == Len(chunk) = BUFFER

\* redis:parse/1 returns {ok, Commands}: newlines before a command are skipped,
\* each command is whole (any LF completes a trailing CR), and the input ends
\* with a command.  In every other case the caller's match fails.
Parsable(bin) ==
    /\ bin # <<>>
    /\ \A i \in 1 .. Len(bin) : bin[i].k \in StreamKinds
    /\ \A i \in 1 .. Len(bin) :
          bin[i].k = "head" => /\ i + 2 <= Len(bin)
                               /\ bin[i + 1] = Mk("body", bin[i].n)
                               /\ bin[i + 2].k = "lf"
    /\ \A i \in 1 .. Len(bin) :
          bin[i].k = "body" => i > 1 /\ bin[i - 1].k = "head"
    /\ Len(bin) > 1 /\ bin[Len(bin) - 1].k = "body"

LastCommand(bin) == bin[Len(bin) - 1].n

Commands(bin) ==
    FlattenSeq([i \in 1 .. Len(bin) |-> IF bin[i].k = "head" THEN <<bin[i].n>> ELSE <<>>])
=============================================================================
