# Verification of eslaver

eslaver (`src/`) is an Erlang process that plays the part of a redis replica: it
connects to a redis master, takes a snapshot (an rdb dump), decodes it in a C
library, follows the stream of write commands, and hands everything to a callback.
This directory holds TLA+ models of it, the TLC runs that check them, and proofs
that the TLA+ proof system (tlapm 1.4.5) checks.

Line numbers below are those of `src/src/eslaver_server.erl` unless a file is named.

## 1. The system

| Component | State it keeps | Operations | Talks to |
|---|---|---|---|
| replication server, `src/src/eslaver_server.erl` | `#state{}` (socket, state, mode, runid, offset, buffer, callback), its mailbox, the gen_server timer | init, one cast per step of the handshake, `save_rdb`/`load_rdb`, stream data, heartbeat, reconnection, `stop/0` | master (TCP), dump file NIF, parser, callback, supervisor, itself (casts) |
| redis master and connection (external) | dataset, run id, history, one replica | replies, snapshot, stream, keep-alive newlines | server |
| supervisor, application, `src/src/eslaver_sup.erl`, `eslaver.erl` | the permanent child | start, restart | server |
| dump file NIF, `src/c_src/eslaver_rdb.c`, `src/src/rdb.erl` | the dump file on disk | `save/3` (truncate or append), `load/2` | server, rdb loader |
| rdb loader, `src/c_src/rdb.c` | position in the file | opcodes, lengths, strings, one object per key | NIF, conversion, ziplist, lzf, rio |
| conversion to Erlang terms, `src/c_src/eslaver_util.c` | none | one message per key, then eof, sent to the server | server's mailbox |
| protocol parser, `src/src/redis.erl` | none | bytes to commands | server |
| callback dispatch, `src/src/eslaver_utils.erl` | none | one call per event | user code |
| ziplist, `src/c_src/ziplist.c` | one block of memory: header (size, last entry, number of entries), entries, end byte | push, insert, delete, delete range, index, next, prev, find, length | rdb loader (pushes the fields of a hash at the tail, `rdb.c:590-591`; reads), conversion (reads) |
| integers and strings, `src/c_src/util.c` | none | `ll2string`, `string2ll`, `digits10` | ziplist, rdb loader |
| dynamic strings, `src/c_src/sds.c` | length, free space, allocated bytes | append, copy, grow, shrink, cut, trim, map, format; quote, split, join | everything in `src/c_src` |
| LZF, `src/c_src/lzf_c.c`, `lzf_d.c` | table of earlier places, input and output positions | compress, decompress | rdb loader |
| buffered I/O, `src/c_src/rio.c` | position in the file; per socket its state, the bytes collected | read; write commands, flush | rdb loader; receivers that parse commands |
| dictionary, `src/c_src/dict.c` | hash table | iterator only | nothing that is reached |
| logging, `src/src/eslaver_logger.hrl` | none | output | - |

### How the server works

A start connects (`initiate/1`, 313-330), sends AUTH if there is a password and
PING, and casts `repl` to itself. From there each handler sends one request, takes
**one message from its own mailbox** with `recv_sock/1` (376-408), changes `state`,
and casts the next step to itself:

    list --port--> eof --capa--> load --PSYNC or SYNC--+--> payload/buffering --> stream
                                                       +--> stream (partial resync)
    stream --tcp_closed--> reconnect --> reconnect2 --> reconnect3 --> load ...

`state` and `mode` choose the clause; a cast that arrives in any other state is
dropped by the generic clause. The socket is `{active, once}`: each delivery makes
it passive until a handler activates it again.

### What is hard about it

- *One mailbox for everything.* `recv_sock/1` takes whatever message comes first:
  data, a close, the call of `stop/0`, a stray term. Everything the server sends to
  itself waits in the same queue.
- *It runs on its own casts.* A cast too many is taken for a reply of the master, one
  too few stops the protocol for good.
- *Framing by size.* Where a payload or a command ends is inferred from whether a
  read filled the buffer (`?BUFFER`, 1024 bytes), but TCP may cut anywhere.
- *State that outlives the connection:* `buffer`, `runid`, `offset`; and the dump
  file, which outlives the process.
- *Offsets.* What PSYNC asks for and the heartbeat acknowledges must be where the
  callback's knowledge ends.
- *Failure everywhere:* lost connections, a master that restarts, loads or refuses,
  failed disk operations, a callback that raises, a process killed between any two
  steps; and a supervisor that starts it again.

### What makes each component correct

- server: it is never stuck (wedged or deaf); the callback sees each snapshot whole and
  each command exactly once, in order; offsets are honest; the heartbeat runs;
  `stop/0` works; it catches up.
- NIF and loader: what is loaded is what was received, and all of it; each type of
  record reaches the callback with its contents, or the load fails.
- parser: its result does not depend on where reads were cut; whole commands only.
- supervisor: it gives up after more than `MaxR` ends within `MaxT` and for no other
  reason; otherwise the process comes back, and is a fresh one.
- ziplist: a change anywhere keeps all other entries and every link, in both directions.
- integers and strings: `ll2string` writes each number as its digits, and `string2ll` takes
  exactly the texts it writes.
- dynamic strings: the header never says more than the allocation holds; each function
  does to the bytes what it says, whatever free space and old contents are behind them;
  what is quoted or split can be put together again.
- LZF: what is compressed expands to what it was, whatever the table held before.
- buffered I/O: each receiver has a beginning of the stream; a beginning of it parses as
  its whole commands.

`PROJECT.json` lists every hazard at its line with the properties that cover it.

## 2. Modules

| Module | What it is |
|---|---|
| `ReplWire` | units of the byte stream; `recv_sock/1`'s recognition of a chunk, `rdb:save/3` and `rdb:load/2` on the dump file, `buffer/3` and `redis:parse/1` on commands, as pure operators |
| `RedisMaster` | external: one master and the connection, from what the server sends and expects |
| `EslaverServer` | the server: every clause of `init`, `handle_cast`, `handle_call`, `handle_info`, `handle_sock`, `handle_recv`; the socket driver, the supervisor's restart; its properties, the invariant `IInv`; implements `CallbackFeed` |
| `EslaverClaims` | what README and TODO say of the server, each contradicted by a run |
| `MCEslaverServer` | values for the constants of the above |
| `EslaverServerProtocol` | proofs: the type invariant of `EslaverServer`; what every step does to the mailbox; the inductive invariant `IInv`; `NeverWedged`, `NeverStuck`, `NeverDeaf`, `HeartbeatArmed` |
| `EslaverServerSync` | proofs: lemmas on what the master sends (sequences of units, the history, a snapshot with the history behind it); the invariant `Course` (where each unit of the history is between master and callback), kept by every step up to the stream |
| `EslaverServerStream` | proofs: the same for the stream and the way back; `NoGap`, `OffsetHonest`, `NeverSkips`; the invariant `Story` (what the callback has been told, and what of a snapshot still waits in the mailbox); `SnapshotWhole`, `ExactlyOnce`; the invariant `Parcel` (how what is read of a snapshot begins, and what is kept of it); `PayloadLoads`; the implementation of `CallbackFeed` |
| `RdbRecords` | the records of a dump, the items of the file they are written as (external, from what the loader reads), the messages sent for them |
| `CallbackFeed` | abstract specification: what a callback is told, whatever sockets, reads and reconnections do |
| `DumpFeed` | abstract specification: what the loader does with each record, whatever the layout of the file, with expired keys dropped (`DropsExpired`, what the code does) or kept (what its comment says) |
| `RdbLoad` | `rdbLoad`, `rdbLoadObject`, the readers they call, the conversions of `eslaver_util.c`, the NIF's `load`; implements `DumpFeed`; `KeepsExpired`, a comment's claim |
| `RdbLoadProofs` | the loader stays in step with the records; `FeedsDump` and `TypeOK` of `RdbLoad`, proved |
| `MCRdbLoad` | records and constants for it |
| `Supervision` | the supervisor and the server's waits with a clock: sleeps, the heartbeat timer, restart intensity; its inductive invariant |
| `SupervisionProofs` | that invariant and the safety properties, proved |
| `MCSupervision` | constants for it |
| `ZiplistSeq` | abstract specification: a sequence of elements, and what each call makes of it |
| `Ziplist` | `ziplist.c` byte by byte; implements `ZiplistSeq`; `InsertionKeeps`, a comment's claim |
| `MCZiplist` | texts and constants for it |
| `Lzf` | the compressor, one step of its loop per step; `StaysInBuffer`, a comment's claim |
| `LzfProofs` | its places and its output fit together; `Fits`, how far it may overrun, and that the output is bytes, proved |
| `LzfDecompress` | the decompressor, and that it restores what was compressed |
| `MCLzf` | blocks for the compressor |
| `StringLL` | `util.c`, and the same conversion in `sds.c` |
| `SdsText` | quoting, splitting and joining, from `sds.c` |
| `SdsString` | abstract specification: a string of bytes and what each call makes of it |
| `Sds` | the header and the memory of a string, and every function that changes it; implements `SdsString` |
| `SdsProofs` | each function keeps header and memory in step and does what `SdsString` says; `Sound` and `ImplementsString`, proved |
| `RespBytes` | the bytes that writer and parser of commands tell apart |
| `RespParser` | `redis:parse/1` clause by clause, on bytes |
| `Rio` | `rioFdsetWrite` and the writers of commands; `SuccessIsWritten`, a comment's claim |
| `RioProofs` | every byte is accounted for; `Delivered` and `LossIsOneChunk`, proved |
| `MCRio` | commands for it; the receivers' bytes go through `RespParser` |
| `MCLibrary` | runs `Lzf` with `LzfDecompress`, `StringLL`, `SdsText`, `Sds`, `Ziplist` and `Rio` side by side, a behaviour being about one of them; their reference definitions and values |

### Model and code

A byte stream is a sequence of *units*, the smallest runs of bytes the decoders tell
apart: one reply line; one part of the payload (`$count`, signature, one key, EOF
opcode); one third of a command (its first bytes, the bytes up to the last CR, the
LF). `BUFFER` is `?BUFFER` in units. With `Fragment` TRUE a read may return any
number of the available units; with FALSE it returns as many as fit.

| Model | Code |
|---|---|
| `where` | the place in the code where the process waits: the gen_server loop (`idle`) or one of the calls of `recv_sock/1`: `bootAuth`, `bootPing` in `initiate/1`, `reAuth`, `rePing` in `new_connection`, `reply` in `handle_sock/2`; `boot` is about to connect, `down` no process |
| `mb` | its mailbox |
| `armed` | it returned `?REPL_TIMEOUT` |
| `sock` | `active` (once), `passive`, or `none` |
| `state`, `mode`, `runid`, `offset`, `buffer` | `#state{}` (31-37) |
| `file` | the dump file |
| `events` | what the callback received from this process (history variable) |
| `fed`, `tainted`, `acked` | history variables: the last unit of history given to the callback, known damage, the last offset acknowledged |
| `CastX`, `InfoX`, `CallX` | the handler of cast, message or call X, up to its end or to its `recv_sock/1` |
| `RecvX`, `BootX`, `ReX` | the rest of the handler, from the message `recv_sock/1` took |
| `Die` | any end of the process: `{stop, ...}`, a failed match, a badmatch in the callback; `terminate/2` (207-213) |
| `ExpectedCast`, `ExpectedInfo`, `Generic` | the clause heads; what matches none of them |

A handler's two halves are two steps because anything may happen while
`recv_sock/1` waits. Nothing else is split: what a handler does between two waits is
one action.

In `RdbLoad` the file is a sequence of *items*, each read by one call (an opcode, a time,
a length, a string, or a string that packs a whole object); `pos` is the position in it,
`at` the place in `rdbLoad`, `type`, `expire`, `key`, `left`, `encoding`, `val` are its local
variables and the object being built, `sent` the messages. A text is an integer or a
word, because that decides how redis saves it: an integer is stored as one both as a
string and in a ziplist. `EslaverServer` uses the load as one step: its keys are the
records that yield one message, and a load that fails or brings the virtual machine
down is an end of the process there (`LoadFailed`, `Killed`).

In `Supervision` an answer of the master is one step and the wire is left out; `proc` is
where the process waits (`ping` and `handshake` are `recv_sock/1`, `asleep` is
`timer:sleep/1`), `boot` that `init/1` has not returned, `due` its timer, `sockets` how many
are open, `recent` the restarts the supervisor remembers. `Tick` does not pass a timer
that has run out, nor anything done at once.

In `Ziplist` `mem` is the block behind its header; a byte is a number below `ByteValues`, and an
entry's encoding byte keeps its value. What `realloc` adds is `Uninit`, and reading it
yields no entry. `Put` is `__ziplistInsert`, `Delete` is `__ziplistDelete`, each with its call of
`CascadeUpdate`. `ZIPLIST_LENGTH` stops at `CapLen`. `asked` is a history variable: the call made last, with
its arguments, so that `ZiplistSeq` can say what that call, and no other, makes of the list.

In `Lzf` the choice of `ref` in `Refer`, or `Literal` instead, stands for what the hash slot
held: any earlier place. `top` is a history variable: the last byte of `out_data` that was written at any
moment. In `StringLL` a text is a sequence of digits and a sign, the
radix and the width are constants. In `Sds` `buf` holds the cells of the allocation,
`Junk` where nobody has written; writing outside grows it, which `Sound` notices. A call
is a step, but `sdscatfmt` takes one per round of its loop, because the string is not
closed between them.

In `Rio` a command is a list of strings and numbers, `todo` the calls of `rioWrite` it
makes, `p` the position of the loop of `rioFdsetWrite`, `fds[j].got` what the receiver of
socket `j` has. `LongText`, a constant, is how a number is written; in `MCRio` it is `ll2string` of
`StringLL`, and the proofs know only that it yields bytes. Each round lets every socket take any number of its bytes.

### Assumptions about the surroundings

- `gen_tcp:close/1` on a passive or active socket leaves no `tcp` message for it behind
  in later handlers; a socket that is no longer referred to stays passive and silent.
- A master that restarted has a new run id and its dataset (its offsets go on from its
  history; they are not compared across run ids).
- A command that is cut and followed by the bytes of another does not parse. (It may,
  with a bulk whose announced length spans both; then the damage is worse.)
- Keys and values of a snapshot are opaque here; that a key may begin with `-` at
  the start of a read, which `recv_sock/1` takes for an error, is modelled (`dkey`).
- `EslaverServer` has no clock: the heartbeat may fire in any silence, a retry follows at
  once. `Supervision` has one, and leaves out the wire.
- A supervisor forgets a restart as soon as one before it is too old (OTP's list is
  searched from the latest on).
- An allocation does not fail (`zmalloc` aborts).

## 3. Runs

Each run uses the `MC` module of its component (`PROJECT.json` names it). Deadlock is not
checked, because the programs legitimately stop: the server when `MaxStarts` is used up or
everything is quiet, the loader when the load is over, a string at its longest.

| Run | Question | Bounds |
|---|---|---|
| `disturbed` | Does the protocol keep its thread (`NeverWedged`, `NeverDeaf`, `TypeOK`), does the callback see whole snapshots only (`SnapshotWhole`), and is each step one that `CallbackFeed` allows (`FeedsCallback`)? | any two disturbances out of nine kinds, reads cut anywhere, buffer of 4, up to two keys, one command, two starts, no password |
| `stream` | Is every command delivered once (`ExactlyOnce`, of every step), is nothing missing on the way (`NoGap`), are offsets honest (`OffsetHonest`, `NeverSkips`), is the next step always pending with a password too (`NeverStuck`)? | two commands, three disturbances out of lost connection, restart, refusal, stray message; password; reads cut anywhere; snapshots without keys, so that one may be shorter than the buffer of 4 and load in spite of the cuts |
| `progress` | Does the heartbeat run (`HeartbeatArmed`), does a snapshot received by SYNC load (`PayloadLoads`); under fairness, does `stop/0` end the process (`ShutdownStops`), is the callback told everything (`CatchesUp`), and the master of it (`AckCatchesUp`)? | two commands, two disturbances out of lost connection, restart, `stop/0`; password; whole reads; payloads of 3, 4 and 8 units against a buffer of 4: below it, equal to it, and twice as long; one start |
| `rdb_load` | Do reads stay in step with the records, and is each one sent as `DumpFeed` says (`FeedsDump`)? Does the load always end (`LoadEnds`)? | one record of each of the ten types, in several shapes around `LIST_MAX` = 2, with and without expiry (past, future; in seconds or milliseconds) and SELECTDB; a plain string behind it; the file cut after any item, with or without its signature |
| `supervision` | When does the supervisor give up (`GivesUpAfterBurst`), when does the master hear from the process (`AcksSilence`), how many sockets stay open (`LeaksSlowly`), does the process come back (`ComesBack`)? | two restarts within 3, heartbeat after 2, sleep of 1, a clock of 6, so that a restart can be too old and the count can fill up twice; a master that changes at any moment between up, loading, refusing and silent |
| `library` | LZF: does it restore the block (`Expands`), does a call that succeeds stay in its buffer (`Fits`)? | all blocks of two byte values up to 8 bytes and periodic ones up to 18, with bytes of 8 values (runs of 2, long matches from 3) |
| | Numbers and texts: do they come back (`Writes`, `Parses`), quoted and split texts (`Quotes`, `Splits`)? | numbers within 2 of each power of 3 and each limit of a type of 2^21, which has more than 12 digits, buffers of 2, 10 and 21, and each text with one character wrong; all texts of up to 4 of nine characters |
| | Strings: do calls keep one sound (`Sound`) and do what they say (`ImplementsString`)? | up to 3 bytes, that may be one longer in between |
| | Ziplist: do links (`Linked`), searches (`Indexed`, `Finds`) and the count (`Counted`) survive every call, and does each put in, take out and keep what it was asked to (`ImplementsSeq`)? Is the block bytes that someone wrote (`TypeOK`)? | four entries; bytes of 16 values, so that an entry of 14 bytes is a long one; texts whose entries cross that length when the field in front of them grows; the header counts up to 3; ranges of 0, 2 and 4 entries from any index, also from none |
| | Sockets: does every receiver have a beginning of the stream (`Delivered`), is what is reported as written and nobody has at most a chunk (`LossIsOneChunk`), do beginnings parse as whole commands (`ParsesWhole`)? | two commands, strings with CRLF, `*` and `$` in them, negative numbers; two sockets, chunks of 6, a flush after 20 bytes |
| `claim_loading`, `claim_twice`, `claim_insertion`, `claim_expiry`, `claim_room`, `claim_success` | statements of the TODO, the README, a header and comments | see section 5 |

Why these are enough. A command has three units and the buffer four, so a read
may end inside a command, between two, exactly at the buffer's end, and span two
commands; a lost connection falls before, inside, between or behind the two
commands, and the one unit that a partial resynchronisation repeats makes seven, two reads.
Commands joined from more than two reads are left to the proofs of section 4, which hold for any
number of commands and any buffer. Payloads of 3, 4 and 8 units are shorter than the buffer, as long as it,
and twice as long. Two disturbances reach a failure during the recovery
from another, and `stop/0` in a reconnection; two starts let a new process meet the
dump file of the old one. Three disturbances, in `stream`, are what it takes with a password to leave an
answer of an old connection in the mailbox (see `NeverStuck`). A loader that gets out of
step in one record shows it at the next, so two records are enough. Four entries
of a ziplist are one in front of a change, the one it is about, one whose field
grows, and one that grows because of it. `library` identifies states that differ in
`asked` only (VIEW): no action looks at it, nor, but for its type, an invariant, and `ImplementsSeq` is checked on every
step, whether the state it leads to is new or not. A clock of twice `MaxT` lets the
supervisor forget, fill up, and forget again.

Fairness (`Fairness`): a runnable Erlang process is scheduled, its timers fire, an
active socket delivers what has arrived or that the peer has closed, the
supervisor restarts a permanent child (up to `MaxStarts`), and a master that is up
answers and sends, one that is down comes back and finishes loading. Weak fairness
is enough because none of these is disabled by others for good. Writes and
disturbances are never required.

In `Supervision`, likewise: what the process and the supervisor can do, they do, timers
fire, time passes up to `MaxNow`, and a master that goes on being up answers. Nothing
makes a master come up, so `ComesBack` is about one that does and stays; a silent master
holds the process in `recv_sock/1`, for which there is no timeout.

`CatchesUp` is about what the callback was told (`ToldUpTo`), not about what the server
believes: in the end the last event is behind the master's last command. It names where the
code does not get there, and the run meets each of them:

- it waits for the master indefinitely: for more when commands end where the read buffer does
  (`AlignedStream`), for the rest of a payload that is a multiple of the buffer
  (`AlignedPayload`, `handle_sock(get_buffered)`), or for one that came in the same read as
  `+FULLRESYNC` and was dropped (`PayloadDropped`);
- commands that came in the read that ended the payload went into the dump file (285):
  they are never told, everything behind them is (`LostInDumpFile`);
- the process is down for good, as `MaxStarts` has it.

`ShutdownStops` has one exception, `TakenForAnswer`, which the run meets as well: a shutdown call
that a reconnection takes for the answer to AUTH is swallowed (section 5).

Every property has a mutant of the code (the definitions marked "Mutant" before the
definition they change) under which its run fails.

## 4. Proofs

The modules `EslaverServerProtocol`, `...Sync` and `...Stream`
extend each other in this order and prove for **all** values of the constants (buffer sizes, snapshots,
numbers of commands, reads cut or whole, password or none, disturbances and starts):

- `TypeCorrect`: `Spec => []TypeOK`. `TypeOK` is inductive by itself. The lemmas say
  what each decoder returns: `Save` returns units, `LastCommand` of a parsable input
  is a number, a chunk with a recognised result has a first unit, and so on.

**The thread of the protocol.** `NeverWedged` says that whenever the server is back in its
loop before streaming, exactly one cast to itself is in the mailbox and the clause for the
current state takes it, and that no cast is there while `recv_sock/1` waits. It is not
inductive: that `recv_sock/1` leaves nothing behind depends on what the socket may have
delivered before. So `IInv` adds

- `PlaceOK`: which values of `state` and `mode` go with each place in the code;
- `SocketOK`: outside `recv_sock/1` and the stream the socket is silent; in `recv_sock/1` it has
  said at most one thing, and is passive once it has; in the stream the end of a
  connection is the last thing in the mailbox;
- `AwayOK`, which takes their place in the state `reconnect`. With a password `initial/0` receives
  twice on one connection: a stray message taken for the answer to AUTH makes it give up
  (`Retry`), and the true answer, or the end of that connection, may already be in the
  mailbox behind it; a `tcp_closed` handled later casts `new_connection` a second time. What
  puts an end to this is PONG: nothing that an abandoned connection left is one, and it is
  the last thing the socket says to `rePing`, so that the mailbox holds nothing old and no
  second cast when it has been received;
- `LineOK`: a socket that is gone has left word of it in the mailbox, and one that is passive
  in the stream has left a message whose handler activates it.

From it follow

- `NotWedged`: `~UseAuth => (Spec => []NeverWedged)`. The assumption is needed, as said above;
- `Protocol`: `Spec => []IInv`, with a password too, and from it `NotStuck` (`NeverStuck`: one of the
  casts is always taken) and `NotDeaf` (`NeverDeaf`);
- `Heartbeat`: `"noise" \notin Faults => (Spec => []HeartbeatArmed)`. With stray messages it is false:
  the generic clauses return no timeout (201), see section 5. Its invariant `Pulse` says that
  only a message can have stopped the timer of a streaming server, and that its handler
  starts it again.

The proofs have one lemma per group of actions and one step per action; the lemmas about
mailboxes (`TailNone`, `AddFirst`, ...) say how taking the first message and adding a last one
change which types of message there are.

**The course of the units.** `InCourse` proves `Spec => []Course` (from `IInv`). `Course` says for every state
where each unit of the master's history is; it is the inductive invariant for all that
relates the stream's contents to the history:

- `Carried`: before the stream, what the server has read of the current answer (in the mailbox,
  in the cast to itself, in the dump file; `Held`), followed by what is on the wire, is what the
  protocol says (`Underway`): at most one reply in the greeting, nothing between two requests,
  an answer to PSYNC or SYNC that names the right offset with the history behind it
  (`Answers`), or a payload taken at some position with the history from there on (`Loads`);
- `Peer`, `Reads`, `Books`: the master's end of the connection agrees; a reply is not empty; what the
  process remembers (`runid`, `buffer`, `mode` of the casts) belongs to its state;
- `Known`: outside the synchronisation `offset` is where the callback's knowledge ends, or the
  unit after it at the end of a command, also while the connection is lost;
- `Flows`: in the stream the messages of the mailbox are consecutive stretches of the history,
  `net` continues them up to what the master has sent, and `buffer` reaches from the first unit
  that the callback has not seen to them.

A connection may be cut anywhere, so most steps come down to how a front, a tail or a join
of stretches of the history is one again (`HistFront`, `HistJoin`, `SyncedStep` in
`EslaverServerSync`; `Moves` sums up what each of the master's steps does to the wire). From
`Course` follow `WithoutGap` (`NoGap`), `HonestOffset` (`OffsetHonest`) and `SkipsNothing` (`NeverSkips`),
for every number of disturbances. The hypotheses about `tainted` are those of the properties
themselves: `"stale"` marks a buffer that survived a lost connection (`claim_twice`), and only that
one breaks the course of the units. `Course` quantifies over sequences of any length, which TLC
cannot enumerate: the runs check what follows from it.

**What the callback is told.** `StoryKept` proves `Spec => []Story` from `IInv` and `Course`. `SnapshotWhole` is about
all events so far, `ExactlyOnce` about the new ones and the one before them; neither says what is yet
to come, so `Story` adds it. While a process runs it is in one of two situations:

- `Feeding`: `rdb:load/2` has posted the snapshot. The last events are its first keys (`EndsWith`), the
  mailbox holds the others in order, then its end, then the cast that begins the stream (`Queued`),
  and the socket is silent, so that no data can come between them;
- `Rested`: no key is in the mailbox, the last event is no key, and without damage it tells how far
  the callback is: `fed` is the position of the snapshot that ended, or the end of the last command.

`CommandsAre` computes what `redis:parse/1` finds in a stretch of the history that starts where
command `c` ended: the commands from `c + 1` on, up to the last, in order. With `Course`, which says that
what is parsed is such a stretch, a step that delivers commands begins after the last one that was
told. From `Story` follow `ToldWhole` (`SnapshotWhole`) and `ToldOnce` (`ExactlyOnce`). `SnapshotWhole` needs no
hypothesis about damage: whatever loads is the whole of one snapshot (`SnapshotKeys`).

**What the callback is promised.** `CallbackFeed` knows a process that is down, at rest, or telling a
snapshot; it allows the next key, the end behind the last key, the commands behind where the last
event has left the callback, and, once something was lost or kept from an earlier connection, any
commands but nothing that looks like a snapshot. `FeedKept` shows that `EslaverServer` implements it
(`FeedsCallback`), with `Phase` (a snapshot is being told while its keys are in the mailbox) and `tainted`
as the mapping. Every step is one of the abstract ones or none: with `Story` the keys in the mailbox
are the next ones (`FeedKey`, `FeedEof`); only `load_rdb` puts keys there (`StaysRested`) and only
telling them takes them away (`StaysFeeding`); `CommandsTold` says where the commands begin
(`FeedCommands`); no other step changes `events` (`EventsSame`) or `tainted` (`TaintSame`). TLC checked
`FeedsCallback` in `disturbed`, and with the constants of `stream` too.

**What is received of a snapshot.** `ReceivedLoads`: in SYNC mode, over reads that are not cut
(`Fragment` FALSE) and with no keep-alive newline before the payload, a dump file that is about to be
loaded while the connection holds is one that loads. The invariant is `Parcel`, which rests on `IInv` and `Course`: what is
read first after SYNC is a line of reply or the start of the payload (`AnswerOK`); a dump file that
has been begun begins with the signature (`PiecesOK`); of what is cast to be saved, a piece either
makes a beginning or goes on with one, and the last piece makes the file a whole (`SavesOK`). The step
that matters is the read shorter than the buffer, which the code takes for the end: when reads are
not cut, it has taken all there was (`NotFull`). Each hypothesis leaves out a way in which the code
does lose a payload: a read cut short is taken for the end (394), a newline that comes first is
taken for the whole answer (`load_stream`), and after PSYNC a payload read together with
`+FULLRESYNC` is dropped. The run `progress` checks `PayloadLoads`.

`SupervisionProofs` proves, for every restart intensity, timeout, sleep and clock:

- `Supervised`: `Spec => []IInv`. `IInv` adds to the types: `TimerOK` (the heartbeat's timer is one
  timeout behind the connection, the last data or the last ACK, and the clock has not
  passed it), `LeakOK` (each socket left open took a sleep; in the sleep the debt is
  counted up to its end), `MemoryOK` (what the supervisor remembers are the latest ends;
  what it forgot is more than `MaxT` ago; no `MaxR + 1` ends it answered lie within
  `MaxT`), `EndsOrdered` and `GaveUp`.
- `GivesUp`, `Acks`, `Leaks`: `GivesUpAfterBurst`, `AcksSilence` and `LeaksSlowly` hold always. None
  of them is inductive: the first speaks of the history of ends, the supervisor decides
  by the restarts it still remembers, and `MemoryOK` says why that is enough.

**The loader.** `RdbLoadProofs` proves, for every sequence of records and every place where the file
begins and ends, that `rdbLoad()` implements `DumpFeed`:

- `StaysInStep`: `Spec => []InStep`. `FeedsDump` relates only the ends of records; in between the loader
  must not lose its place. `InStep` says for every place of the code what is still to come: what the
  reads took (`taken`, the object so far) and what lies ahead in the file are together the record that
  the master wrote, and behind it come the items of the later records (`After`). The file is
  defined by joining all records (`FlattenSeq`, a fold). `LayoutExists` gives the partial results of
  that fold, and `AfterIs` what follows the k-th record, by the least k where it would fail, as
  induction is not available;
- `LoaderFeedsDump`: `Spec => FeedsDump`. The step that ends a record, skips an expired one or gives up
  is the one action of `DumpFeed` for it, with the contents that `InStep` says the object has; all other
  steps (`Quiet`) change nothing that `DumpFeed` has. A read that finds the file at an end shows that the file is not
  whole, which is the reason `DumpFeed` asks for;
- `TypeCorrect`: `Spec => []TypeOK`, by what each reader may put in each variable.

**Strings.** `SdsProofs` proves for every set of bytes, arguments and formats, growth policy, stack
buffer and limit:

- `TidyAlways`: `SdsSpec => []Tidy`. `Tidy` says that the cells of the allocation are those of the
  string, its free space and one more, that those of the string are bytes, that the one behind
  them is NUL unless `sdscatfmt` is at work, and that what is left of its format is made of its
  characters and arguments. One lemma per function says which string its result holds, from
  `Fitting` alone (`Gives`): nothing about the free space or what was written there before;
- `HeaderSound` (`Sound`) and `StringImplemented` (`ImplementsString`): each call is the step of
  `SdsString` for it, each round of `sdscatfmt` appends one piece. The loops are not unrolled: where
  `sdstrim` and `sdsupdatelen` stop is a least or a greatest place (`LeastNumber`, `LargestNumber`), and
  that some power of two suffices for the buffer of `sdscatvprintf` follows likewise (`PowerOfTwo`).

**The compressor.** `LzfProofs` proves `WithinAlways` (`LzfSpec => []LzfInv`) for every block, size of
buffer, length of run and reference, and every outcome of the table. Beside the types (the open run is
shorter than the longest, the position inside the block) `LzfInv` needs `TailFits`: in the last bytes,
which are written one by one without a look at the buffer's end, there is room for two bytes of output
for each byte of input left. From it follow

- `OutputFits` (`Fits`): a call that succeeds, or still may, has written nothing behind its buffer;
- `OverrunsOneByte`: one that is to fail has written at most one byte there, the control byte that
  section 5 names. Both need runs of more than one literal (`MaxLit` > 1): a reserved control byte
  is followed by a literal before the next run ends;
- `OutputIsBytes`: the numbers written fit their bytes. It rests on `MatchIsShort`: a match, of whatever
  length the loop finds, stays inside the block and has at most `MaxRef` bytes, and what a
  long one has above three bits is a byte.

**The sockets.** `RioProofs` proves, for every number of sockets, size of buffer and chunk, sequence of
commands, and writes that fail anywhere:

- `AccountedAlways`: `RioSpec => []RioInv`. `Accounts(written)` says that what the loop has gone through,
  what is left of the buffer from its position on, and the calls not yet made are together the stream
  of the commands; and each socket has a beginning of what it has gone through, all of it if it has not
  failed. `Stopped` adds that nothing is done after a failure. `Delivered` alone is not inductive: it
  gives only the length of what is left, not what it is;
- `DeliveredAlways` (`Delivered`), `LossAlways` (`LossIsOneChunk`), and `FlushedAlways`: after a flush that
  came to its end, each socket that works has everything.

What a command is written as is a join of joins (`FlattenSeq`, a fold); that the join of one more is the
join with it behind (`FlattenAppend`), and of one less the rest (`FlattenHead`), is proved by the least
place where it would fail.

Assumptions: `BufferAssumption`, `MasterAssumption`, `ServerAssumption`, `SupervisionAssumption`,
`RecordsAssumption`, `SavesAssumption`, `SdsAssumption`, `LzfAssumption`, `RioAssumption` on the
constants, which TLC evaluates in every run of these modules. Only model-checked:

- liveness (`CatchesUp`, `AckCatchesUp`, `ShutdownStops`, `ComesBack`, `LoadEnds`), which is out of
  the prover's reach, as is `ENABLED`;
- what a function computes by recursion over its data, for which an induction over data would be
  needed: that LZF restores the block (`Expands`), the digits of a number (`Writes`, `Parses`), quoting and
  splitting (`Quotes`, `Splits`), the parser (`ParsesWhole`);
- `Ziplist` (`Linked`, `Indexed`, `Finds`, `Counted`, `ImplementsSeq`): its entries are found by walking the
  links of the block, and `CascadeUpdate` walks on while they grow; both are recursive.

## 5. Where the code and its documents disagree

Six are runs that end with a counterexample; `PROJECT.json` quotes the lines.

- `claim_loading`: a LOADING answer to the ping of a *re*connection matches no branch of
  the `try` (121-133) and ends the process.
- `claim_twice`: `buffer` survives a lost connection; what the master sends again is
  parsed behind it, and a command reaches the callback twice.
- `claim_insertion`: `__ziplistInsert` may take back more bytes of the next entry's length
  field (four) than the new entry needs (two or three), and then makes the block shorter
  (`ziplist.c:616`) before it moves its end: the last entry loses bytes, or the block its
  end. eslaver pushes at the tail only (`rdb.c:590-591`), where there is no next entry, so it does
  not meet this. The run `library` leaves such insertions out (`TakesBack` FALSE).
- `claim_expiry`: a key whose expiry has passed by the replica's clock is left out at the load
  (`rdb.c:234`), though the comment in front of the test says that the master decides, and that
  dropping keys here makes the snapshot differ from the master's. `FeedsDump` is checked and proved with what
  the code does (`DropsExpired`); with the comment's version the same loader does not implement
  `DumpFeed`.
- `claim_room`: the compressor reserves a run's control byte without asking whether it is still
  in the buffer (`lzf_c.c:270-271`), and writes it (173) before a reference that has no room makes
  it return 0; `lzf.h:52-54` promises at most `out_len` bytes. A call that succeeds never does it (`Fits`).
- `claim_success`: `rioFdsetWrite` counts the broken sockets of a chunk before it writes the chunk
  (`rio.c:202-204`), so that it reports success when the last sockets fail in the last one (230);
  the comment (169-171) says success means that one socket has got the data. What is lost in silence
  is no more than that chunk (`LossIsOneChunk`).

Others that the models show, without a run of their own:

- PSYNC asks for the offset already processed (464); the master repeats that byte, the
  server counts it again and acknowledges more than the master has sent.
- Commands in the read that ends the payload go to the dump file (285), and the callback is
  never told of them (`LostInDumpFile`).
- A call of `stop/0` that a reconnection receives while it waits for the answer to AUTH is a failed
  read for `recv_sock/1` (406); `send_auth` throws (367-369), `new_connection` catches, sleeps and
  tries again (126-131): the process goes on, and the caller gets no answer (`TakenForAnswer`). In
  every other place the process ends.
- A short read inside a payload is taken for its end (394).
- The generic clauses return no timeout, so a stray message stops the heartbeat (201).
- The comment on `sdssplitlen` says that an empty string yields NULL; it is an empty array.

## 6. Not modelled, and what could follow

Not modelled: logging; the wording of errors; the contents of `INFO` lines; the dictionary
(only its iterator is there, and nothing reaches it); the targets of `rio.c` in memory and
for writing files; the widths in bytes of lengths and integers in a dump (`RdbLoad` reads
each as one item); a disk that is full (`fwrite`'s result is ignored, the short file does
not load); byte order (`endianconv.c`, a copy on little-endian machines); `ziplistRepr`,
`sdscmp` and the test programs inside the C files.

What could follow: the lengths and integers of the dump byte by byte, read and written; an induction
over data for the codecs, by the least input where a function would go wrong, as `RdbLoadProofs` and
`EslaverServerStream` do for sequences.
