--------------------------- MODULE EslaverServer ---------------------------
(***************************************************************************)
(* eslaver_server.erl: the gen_server that is a replica of a redis master. *)
(*                                                                         *)
(* The process runs one handler at a time.  A handler that asks the master *)
(* something ends in recv_sock/1, which takes the first message of the     *)
(* mailbox whatever it is, so such a handler is two steps here: one up to  *)
(* the request, one from the message received.  The server drives itself   *)
(* with casts to itself; state and mode select the clause that handles one.*)
(***************************************************************************)
EXTENDS RedisMaster, SequencesExt

CONSTANTS
    UseAuth,     \* master_auth is configured
    Fragment,    \* TCP may hand over fewer units than have arrived
    MaxStarts    \* bound: times the process is started

ASSUME ServerAssumption ==
    /\ UseAuth \in BOOLEAN
    /\ Fragment \in BOOLEAN
    /\ MaxStarts \in Nat

VARIABLES
    \* The process.
    where,     \* "down", "boot" (about to connect), "idle" (in the gen_server's
               \* loop), or the recv_sock/1 call it is blocked in
    mb,        \* its mailbox
    armed,     \* the heartbeat timer of the gen_server is running
    sock,      \* its socket: "none", "passive" or "active" (once)
    \* #state{}.
    state, mode, runid, offset, buffer,
    \* The dump file, which outlives the process.
    file,
    \* History variables.
    events,    \* what the callback received from this process
    fed,       \* the last history unit that was given to the callback, or that ended
               \* in the dump file behind the snapshot
    tainted,   \* what has gone wrong: "lost" units, those in the dump file, or a
               \* "stale" buffer, kept from an earlier connection
    acked,     \* the last offset acknowledged on this connection
    starts

procVars   == <<where, mb, armed, sock>>
stateVars  == <<state, mode, runid, offset, buffer>>
ghostVars  == <<events, fed, tainted, acked, starts>>
serverVars == <<procVars, stateVars, file, ghostVars>>
vars       == <<masterVars, serverVars>>

-----------------------------------------------------------------------------
Receiving == {"bootAuth", "bootPing", "reAuth", "rePing", "reply"}
Places    == {"down", "boot", "idle"} \cup Receiving
States    == {"undefined", "list", "eof", "load", "payload", "buffering", "stream",
              "reconnect", "reconnect2", "reconnect3"}
Modes     == {"undefined", "psync", "sync"}

SocketMsgs == {"tcp", "tcp_closed", "tcp_error"}
Casts      == {"repl", "capa", "psync", "sync", "save_rdb", "load_rdb", "replication",
               "new_connection", "rst"}
OtherMsgs  == {"loading", "loading_eof", "shutdown", "noise"}

\* A mode is cast as it is (CastRst).
Message == [t : SocketMsgs \cup Casts \cup Modes \cup OtherMsgs, data : Seq(Unit), n : Nat]
Msg(type, data, num) == [t |-> type, data |-> data, n |-> num]
Plain(type) == Msg(type, <<>>, 0)

NoRunId == 0   \* the "?" of #state{}

Event == [ev : {"loading", "eof", "stream"}, n : Nat, r : Nat]

ServerTypeOK ==
    /\ where \in Places
    /\ mb \in Seq(Message)
    /\ armed \in BOOLEAN
    /\ sock \in {"none", "passive", "active"}
    /\ state \in States
    /\ mode \in Modes
    /\ runid \in Nat
    /\ offset \in Int
    /\ buffer \in Seq(Unit)
    /\ file \in Seq(Unit)
    /\ fed \in Int
    /\ tainted \subseteq {"lost", "stale"}
    /\ acked \in Int
    /\ starts \in Nat

TypeOK == MasterTypeOK /\ ServerTypeOK

Init ==
    /\ MasterInit
    /\ where = "down"
    /\ mb = <<>>
    /\ armed = FALSE
    /\ sock = "none"
    /\ state = "undefined"
    /\ mode = "undefined"
    /\ runid = NoRunId
    /\ offset = -1
    /\ buffer = <<>>
    /\ file = <<>>
    /\ events = <<>>
    /\ fed = 0
    /\ tainted = {}
    /\ acked = -1
    /\ starts = 0

-----------------------------------------------------------------------------
(* Pieces of handlers.                                                      *)

\* inet:setopts(Sock, [{active, once}])
Activated == IF sock = "none" THEN "none" ELSE "active"

\* The gen_server's loop takes the first message, which cancels its timer.
Handles(type) ==
    /\ where = "idle"
    /\ mb # <<>>
    /\ Head(mb).t = type

Continue(next) ==
    /\ where' = "idle"
    /\ mb' = Tail(mb) \o next
    /\ armed' = FALSE

\* The process ends: {stop, ...}, a failed match, or an exit signal.  Its socket
\* closes with it, and the next process starts from a fresh #state{}.
Die ==
    /\ where' = "down"
    /\ mb' = <<>>
    /\ armed' = FALSE
    /\ sock' = "none"
    /\ state' = "undefined"
    /\ mode' = "undefined"
    /\ runid' = NoRunId
    /\ offset' = -1
    /\ buffer' = <<>>
    /\ Hangup
    /\ UNCHANGED <<file, ghostVars>>

Stop == Die /\ UNCHANGED faults

\* A request goes out and the handler blocks in recv_sock/1.  Sending to a peer
\* that has gone may also fail at once.
Ask(request) ==
    /\ where' = "reply"
    /\ mb' = Tail(mb)
    /\ armed' = FALSE
    /\ sock' = Activated
    /\ Send(request)
    /\ UNCHANGED <<stateVars, file, ghostVars>>

AskOrFail(request) ==
    \/ Ask(request)
    \/ ~peerOpen /\ Stop

\* initial/0 connects, then authenticates if it has a password, then pings.
FirstRequest == Request(IF UseAuth THEN "AUTH" ELSE "PING")

-----------------------------------------------------------------------------
(* Starting: init/1, initiate/1, initial/0.                                 *)

\* The supervisor, or a caller of start/1, starts the process.
Start ==
    /\ where = "down"
    /\ starts < MaxStarts
    /\ starts' = starts + 1
    /\ where' = "boot"
    /\ events' = <<>>
    /\ fed' = 0
    /\ tainted' = {}
    /\ acked' = -1
    /\ UNCHANGED <<masterVars, mb, armed, sock, stateVars, file>>

Boot ==
    /\ where = "boot"
    /\ Reachable
    /\ where' = IF UseAuth THEN "bootAuth" ELSE "bootPing"
    /\ sock' = "active"
    /\ Open(FirstRequest)
    /\ UNCHANGED <<mb, armed, stateVars, file, ghostVars>>

BootRefused ==
    /\ where = "boot"
    /\ ~Reachable
    /\ Stop

\* The message recv_sock/1 takes in a given call, and what it makes of it.
Received(place) == where = place /\ mb # <<>>
Result == RecvResult(Head(mb))

Authenticated == {"psync", "sync"}   \* {ok, _}

BootAuthOk ==
    /\ Received("bootAuth")
    /\ Result \in Authenticated
    /\ where' = "bootPing"
    /\ mb' = Tail(mb)
    /\ sock' = Activated
    /\ Send(Request("PING"))
    /\ UNCHANGED <<armed, stateVars, file, ghostVars>>

BootPong ==
    /\ Received("bootPing")
    /\ Result = "pong"
    /\ Continue(<<Plain("repl")>>)
    /\ state' = "list"
    /\ UNCHANGED <<masterVars, sock, mode, runid, offset, buffer, file, ghostVars>>

\* The master is loading its dataset: try again on a new connection.  The socket
\* of this attempt is not closed, but nothing reads it again.
BootLoading ==
    /\ Received("bootPing")
    /\ Result = "loading"
    /\ where' = "boot"
    /\ mb' = Tail(mb)
    /\ UNCHANGED <<masterVars, armed, sock, stateVars, file, ghostVars>>

BootFailed ==
    /\ \/ Received("bootAuth") /\ Result \notin Authenticated
       \/ Received("bootPing") /\ Result \notin {"pong", "loading"}
       \/ Received("bootAuth") /\ ~peerOpen   \* gen_tcp:send/2 of the ping fails
    /\ Stop

-----------------------------------------------------------------------------
(* The handshake: handle_cast/2 up to the request, handle_sock/2 from its    *)
(* answer.                                                                   *)

CastRepl ==
    /\ Handles("repl")
    /\ state \in {"list", "reconnect2"}
    /\ AskOrFail(Request("PORT"))

CastCapa ==
    /\ Handles("capa")
    /\ state = "eof"
    /\ AskOrFail(Request("CAPA"))

\* Both a first and a later synchronisation send the run id and the offset held.
CastPsync ==
    /\ Handles("psync")
    /\ state = "load"
    /\ AskOrFail([c |-> "PSYNC", runid |-> runid, offset |-> offset])

CastSync ==
    /\ Handles("sync")
    /\ state = "load"
    /\ AskOrFail(Request("SYNC"))

\* After FULLRESYNC the payload is awaited without asking for anything.
CastPsyncPayload ==
    /\ Handles("psync")
    /\ state = "payload"
    /\ IF mode = "psync"
       THEN /\ where' = "reply"
            /\ mb' = Tail(mb)
            /\ armed' = FALSE
            /\ sock' = Activated
            /\ UNCHANGED <<masterVars, stateVars, file, ghostVars>>
       ELSE Stop

\* Mutant: the state is cast instead of the mode.
CastRstCastsState ==
    /\ Handles("rst")
    /\ state = "reconnect3"
    /\ Continue(<<Plain(state)>>)
    /\ state' = "load"
    /\ UNCHANGED <<masterVars, sock, mode, runid, offset, buffer, file, ghostVars>>

CastRst ==
    /\ Handles("rst")
    /\ state = "reconnect3"
    /\ Continue(<<Plain(mode)>>)
    /\ state' = "load"
    /\ UNCHANGED <<masterVars, sock, mode, runid, offset, buffer, file, ghostVars>>

\* Mutant: a reconnection goes on with capa, which reconnect3 does not handle.
RecvPortAlwaysCapa ==
    /\ Received("reply")
    /\ state \in {"list", "reconnect2"}
    /\ Result \in {"psync", "sync"}
    /\ state' = IF state = "list" THEN "eof" ELSE "reconnect3"
    /\ Continue(<<Plain("capa")>>)
    /\ UNCHANGED <<masterVars, sock, mode, runid, offset, buffer, file, ghostVars>>

\* The answer to listening-port only has to be a two-tuple {ok, _}.
RecvPort ==
    /\ Received("reply")
    /\ state \in {"list", "reconnect2"}
    /\ Result \in {"psync", "sync"}
    /\ \/ state = "list" /\ state' = "eof" /\ Continue(<<Plain("capa")>>)
       \/ state = "reconnect2" /\ state' = "reconnect3" /\ Continue(<<Plain("rst")>>)
    /\ UNCHANGED <<masterVars, sock, mode, runid, offset, buffer, file, ghostVars>>

\* The answer to capa chooses the kind of synchronisation.
RecvCapa ==
    /\ Received("reply")
    /\ state = "eof"
    /\ Result \in {"psync", "sync"}
    /\ Continue(<<Plain(Result)>>)
    /\ state' = "load"
    /\ mode' = Result
    /\ UNCHANGED <<masterVars, sock, runid, offset, buffer, file, ghostVars>>

-----------------------------------------------------------------------------
(* handle_recv/2: the answer to PSYNC or SYNC, and the payload.              *)

Loading == {"load", "payload", "buffering"}

\* Mutant: what follows +CONTINUE in the same read is dropped.
RecvContinueDropsRest ==
    /\ Received("reply")
    /\ state \in Loading
    /\ Result = "continue"
    /\ Continue(<<Plain("replication")>>)
    /\ state' = "stream"
    /\ fed' = IF offset < fed THEN offset ELSE fed
    /\ UNCHANGED <<masterVars, sock, mode, runid, offset, buffer, file,
                   events, tainted, acked, starts>>

\* +CONTINUE: the rest of the chunk is replication data, sent to itself.
RecvContinue ==
    /\ Received("reply")
    /\ state \in Loading
    /\ Result = "continue"
    /\ Continue(<<Msg("tcp", Tail(Head(mb).data), 0), Plain("replication")>>)
    /\ state' = "stream"
    /\ fed' = IF offset < fed THEN offset ELSE fed
    /\ UNCHANGED <<masterVars, sock, mode, runid, offset, buffer, file,
                   events, tainted, acked, starts>>

\* +FULLRESYNC: the rest of the chunk is dropped.
RecvFullResync ==
    /\ Received("reply")
    /\ state \in Loading
    /\ Result = "fullresync"
    /\ Continue(<<Plain("psync")>>)
    /\ state' = "payload"
    /\ runid' = Head(mb).data[1].r
    /\ offset' = Head(mb).data[1].n
    /\ UNCHANGED <<masterVars, sock, mode, buffer, file, ghostVars>>

\* Mutant: every piece replaces the dump file.
RecvBulkReplaces ==
    /\ Received("reply")
    /\ state \in Loading
    /\ Result \in {"load_stream", "load_buffer"}
    /\ state' = IF Result = "load_stream" THEN "payload" ELSE "buffering"
    /\ Continue(<<Msg("save_rdb", Head(mb).data, 0)>>)
    /\ UNCHANGED <<masterVars, sock, mode, runid, offset, buffer, file, ghostVars>>

\* A read that did not fill the buffer ends the payload; one that did does not.
\* The first piece replaces the dump file (mode 0), later ones extend it (mode 1).
RecvBulk ==
    /\ Received("reply")
    /\ state \in Loading
    /\ Result \in {"load_stream", "load_buffer"}
    /\ state' = IF Result = "load_stream" THEN "payload" ELSE "buffering"
    /\ Continue(<<Msg("save_rdb", Head(mb).data, IF state = "buffering" THEN 1 ELSE 0)>>)
    /\ UNCHANGED <<masterVars, sock, mode, runid, offset, buffer, file, ghostVars>>

\* {error, _}, and every result that no clause of the caller matches.
RecvFailed ==
    /\ Received("reply")
    /\ \/ state \in {"list", "eof", "reconnect2"} /\ Result \notin {"psync", "sync"}
       \/ /\ state \in Loading
          /\ Result \notin {"continue", "fullresync", "load_stream", "load_buffer"}
    /\ Stop

-----------------------------------------------------------------------------
(* The dump file.                                                           *)

Saved == Save(file, Head(mb).data, Head(mb).n)

SaveBuffering ==
    /\ Handles("save_rdb")
    /\ state = "buffering"
    /\ file' = Saved
    /\ where' = "reply"
    /\ mb' = Tail(mb)
    /\ armed' = FALSE
    /\ sock' = Activated
    /\ UNCHANGED <<masterVars, stateVars, ghostVars>>

SavePayload ==
    /\ Handles("save_rdb")
    /\ state = "payload"
    /\ file' = Saved
    /\ Continue(<<Plain("load_rdb")>>)
    /\ UNCHANGED <<masterVars, sock, stateVars, ghostVars>>

\* Mutant: the last key is left out.
LoadMessagesShort ==
    [i \in 1 .. EofAt(file) - 3 |-> Msg("loading", <<file[i + 1]>>, i)]
      \o <<Msg("loading_eof", <<file[EofAt(file)]>>, 0)>>

\* Mutant: the end is sent before the keys.
LoadMessagesEndFirst ==
    <<Msg("loading_eof", <<file[EofAt(file)]>>, 0)>>
      \o [i \in 1 .. EofAt(file) - 2 |-> Msg("loading", <<file[i + 1]>>, i)]

\* The NIF sends every key, then an EOF, to the server's own mailbox.
LoadMessages ==
    [i \in 1 .. EofAt(file) - 2 |-> Msg("loading", <<file[i + 1]>>, i)]
      \o <<Msg("loading_eof", <<file[EofAt(file)]>>, 0)>>

LoadRdb ==
    /\ Handles("load_rdb")
    /\ state = "payload"
    /\ Loadable(file)
    /\ Continue(LoadMessages \o <<Plain("replication")>>)
    /\ state' = "stream"
    /\ fed' = file[1].r + Len(AfterEof(file))
    /\ tainted' = (IF AfterEof(file) = <<>> THEN {} ELSE {"lost"})
                    \cup (IF buffer = <<>> THEN {} ELSE {"stale"})
    /\ UNCHANGED <<masterVars, sock, mode, runid, offset, buffer, file,
                   events, acked, starts>>

\* ok = rdb_save(...) and ok = rdb_load(...) do not match {error, _}.
LoadFailed ==
    /\ Handles("load_rdb")
    /\ state = "payload"
    /\ ~Loadable(file)
    /\ Stop

DiskFailed ==
    /\ \/ Handles("save_rdb") /\ state \in {"buffering", "payload"}
       \/ Handles("load_rdb") /\ state = "payload"
    /\ Fault("disk")
    /\ Die

InfoLoading ==
    /\ Handles("loading")
    /\ Continue(<<>>)
    /\ events' = Append(events, [ev |-> "loading", n |-> Head(mb).n,
                                 r |-> Head(mb).data[1].r])
    /\ UNCHANGED <<masterVars, sock, stateVars, file, fed, tainted, acked, starts>>

InfoLoadingEof ==
    /\ Handles("loading_eof")
    /\ Continue(<<>>)
    /\ events' = Append(events, [ev |-> "eof", n |-> Head(mb).data[1].n,
                                 r |-> Head(mb).data[1].r])
    /\ UNCHANGED <<masterVars, sock, stateVars, file, fed, tainted, acked, starts>>

-----------------------------------------------------------------------------
(* Streaming.                                                               *)

\* Mutant: no timeout is returned, so the heartbeat waits for the first command.
CastReplicationNoTimeout ==
    /\ Handles("replication")
    /\ state = "stream"
    /\ mode \in {"sync", "psync"}
    /\ where' = "idle"
    /\ mb' = Tail(mb)
    /\ sock' = Activated
    /\ armed' = FALSE
    /\ UNCHANGED <<masterVars, stateVars, file, ghostVars>>

CastReplication ==
    /\ Handles("replication")
    /\ state = "stream"
    /\ mode \in {"sync", "psync"}
    /\ where' = "idle"
    /\ mb' = Tail(mb)
    /\ sock' = Activated
    /\ armed' = (mode = "psync")
    /\ UNCHANGED <<masterVars, stateVars, file, ghostVars>>

Data   == Head(mb).data
Joined == buffer \o Data

\* Mutant: the socket is not made active again.
InfoTcpReadsOnce ==
    /\ Handles("tcp")
    /\ state = "stream"
    /\ mode \in {"sync", "psync"}
    /\ where' = "idle"
    /\ mb' = Tail(mb)
    /\ sock' = sock
    /\ armed' = (mode = "psync")
    /\ UNCHANGED <<masterVars, state, mode, runid, file, tainted, acked, starts>>

\* Both clauses for tcp data read on: the socket is active again, and in psync
\* mode the heartbeat timer starts anew.
InfoTcp ==
    /\ Handles("tcp")
    /\ state = "stream"
    /\ mode \in {"sync", "psync"}
    /\ where' = "idle"
    /\ mb' = Tail(mb)
    /\ sock' = Activated
    /\ armed' = (mode = "psync")
    /\ UNCHANGED <<masterVars, state, mode, runid, file, tainted, acked, starts>>

InfoTcpQuiet ==
    /\ InfoTcp
    /\ Quiet(Data, buffer)
    /\ fed' = IF Data = <<HistUnit(fed + 1)>> THEN fed + 1 ELSE fed
    /\ UNCHANGED <<buffer, offset, events>>

\* Mutant: what is buffered is counted at once, and again when it is parsed.
InfoTcpBufferCounts ==
    /\ InfoTcp
    /\ ~Quiet(Data, buffer)
    /\ Full(Data)
    /\ buffer' = Joined
    /\ offset' = IF mode = "psync" THEN offset + Len(Data) ELSE offset
    /\ UNCHANGED <<events, fed>>

InfoTcpBuffer ==
    /\ InfoTcp
    /\ ~Quiet(Data, buffer)
    /\ Full(Data)
    /\ buffer' = Joined
    /\ UNCHANGED <<offset, events, fed>>

StreamEvents(cmds) ==
    [i \in 1 .. Len(cmds) |-> [ev |-> "stream", n |-> cmds[i], r |-> 0]]

\* Mutant: the buffer is not emptied when its commands have been parsed.
InfoTcpCommandsKeepsBuffer ==
    /\ InfoTcp
    /\ ~Quiet(Data, buffer)
    /\ ~Full(Data)
    /\ Parsable(Joined)
    /\ buffer' = Joined
    /\ events' = events \o StreamEvents(Commands(Joined))
    /\ fed' = CmdUnits * LastCommand(Joined)
    /\ offset' = IF mode = "psync" THEN offset + Len(Joined) ELSE offset

\* Mutant: only the last read counts, not what was buffered before it.
InfoTcpCommandsCountsLastRead ==
    /\ InfoTcp
    /\ ~Quiet(Data, buffer)
    /\ ~Full(Data)
    /\ Parsable(Joined)
    /\ buffer' = <<>>
    /\ events' = events \o StreamEvents(Commands(Joined))
    /\ fed' = CmdUnits * LastCommand(Joined)
    /\ offset' = IF mode = "psync" THEN offset + Len(Data) ELSE offset

InfoTcpCommands ==
    /\ InfoTcp
    /\ ~Quiet(Data, buffer)
    /\ ~Full(Data)
    /\ Parsable(Joined)
    /\ buffer' = <<>>
    /\ events' = events \o StreamEvents(Commands(Joined))
    /\ fed' = CmdUnits * LastCommand(Joined)
    /\ offset' = IF mode = "psync" THEN offset + Len(Joined) ELSE offset

\* {ok, Commands} = redis:parse(...) fails: a command is not complete yet.
InfoTcpFailed ==
    /\ Handles("tcp")
    /\ state = "stream"
    /\ ~Quiet(Data, buffer)
    /\ ~Full(Data)
    /\ ~Parsable(Joined)
    /\ Stop

\* Mutant: only the first heartbeat reports the offset.
InfoTimeoutOnce ==
    /\ where = "idle"
    /\ mb = <<>>
    /\ armed
    /\ state = "stream"
    /\ mode = "psync"
    /\ acked' = IF peerOpen /\ acked = -1 THEN offset ELSE acked
    /\ UNCHANGED <<masterVars, procVars, stateVars, file, events, fed, tainted, starts>>

\* One second without a message: REPLCONF ACK, whose sending may fail unnoticed.
InfoTimeout ==
    /\ where = "idle"
    /\ mb = <<>>
    /\ armed
    /\ state = "stream"
    /\ mode = "psync"
    /\ acked' = IF peerOpen THEN offset ELSE acked
    /\ UNCHANGED <<masterVars, procVars, stateVars, file, events, fed, tainted, starts>>

-----------------------------------------------------------------------------
(* Losing the master and coming back.                                       *)

InfoTcpClosed ==
    /\ Handles("tcp_closed")
    /\ Continue(<<Plain("new_connection")>>)
    /\ state' = "reconnect"
    /\ sock' = "none"
    /\ Hangup
    /\ UNCHANGED <<faults, mode, runid, offset, buffer, file, ghostVars>>

\* {stop, Reason} is not a valid return of handle_info/2.
InfoTcpError ==
    /\ Handles("tcp_error")
    /\ Stop

Reconnect ==
    /\ Handles("new_connection")
    /\ state = "reconnect"
    /\ Reachable
    /\ where' = IF UseAuth THEN "reAuth" ELSE "rePing"
    /\ mb' = Tail(mb)
    /\ armed' = FALSE
    /\ sock' = "active"
    /\ Open(FirstRequest)
    /\ UNCHANGED <<stateVars, file, ghostVars>>

\* Mutant: a failed attempt to reconnect is not followed by another.
RetryNever ==
    /\ Continue(<<>>)
    /\ state' = "reconnect"
    /\ sock' = "none"
    /\ Hangup
    /\ UNCHANGED <<faults, mode, runid, offset, buffer, file, ghostVars>>

\* What initial/0 throws is caught: sleep a second and cast new_connection again.
\* It throws when the connection is refused, a send fails, or AUTH is refused.
Retry ==
    /\ Continue(<<Plain("new_connection")>>)
    /\ state' = "reconnect"
    /\ sock' = "none"
    /\ Hangup
    /\ UNCHANGED <<faults, mode, runid, offset, buffer, file, ghostVars>>

ReconnectRefused ==
    /\ Handles("new_connection")
    /\ state = "reconnect"
    /\ ~Reachable
    /\ Retry

ReAuthOk ==
    /\ Received("reAuth")
    /\ Result \in Authenticated
    /\ where' = "rePing"
    /\ mb' = Tail(mb)
    /\ sock' = Activated
    /\ Send(Request("PING"))
    /\ UNCHANGED <<armed, stateVars, file, ghostVars>>

ReAuthThrows ==
    /\ Received("reAuth")
    /\ \/ Result = "error"
       \/ Result \in Authenticated /\ ~peerOpen
    /\ Retry

RePong ==
    /\ Received("rePing")
    /\ Result = "pong"
    /\ Continue(<<Plain("repl")>>)
    /\ state' = "reconnect2"
    /\ tainted' = tainted \cup (IF buffer = <<>> THEN {} ELSE {"stale"})
    /\ acked' = -1
    /\ UNCHANGED <<masterVars, sock, mode, runid, offset, buffer, file, events, fed, starts>>

\* No clause of "try initial() of" matches {ok, loading, _} or {error, _}.
ReconnectFailed ==
    /\ \/ Received("reAuth") /\ Result \notin Authenticated \cup {"error"}
       \/ Received("rePing") /\ Result # "pong"
    /\ Stop

-----------------------------------------------------------------------------
(* stop/0, other messages, and an end from outside.                         *)

\* Mutant: the shutdown call is treated like any other call.
CallShutdownIgnored ==
    /\ Handles("shutdown")
    /\ Continue(<<>>)
    /\ UNCHANGED <<masterVars, sock, stateVars, file, ghostVars>>

CallShutdown ==
    /\ Handles("shutdown")
    /\ Stop

\* What the clauses of handle_cast/2, and those of handle_call/3 and handle_info/2, are for.
ExpectedCast(msg) ==
    \/ msg.t = "repl" /\ state \in {"list", "reconnect2"}
    \/ msg.t = "capa" /\ state = "eof"
    \/ msg.t = "psync" /\ state \in {"load", "payload"}
    \/ msg.t = "sync" /\ state = "load"
    \/ msg.t = "save_rdb" /\ state \in {"buffering", "payload"}
    \/ msg.t = "load_rdb" /\ state = "payload"
    \/ msg.t = "replication" /\ state = "stream" /\ mode # "undefined"
    \/ msg.t = "new_connection" /\ state = "reconnect"
    \/ msg.t = "rst" /\ state = "reconnect3"

ExpectedInfo(msg) ==
    \/ msg.t \in {"shutdown", "loading", "loading_eof", "tcp_closed", "tcp_error"}
    \/ msg.t = "tcp" /\ state = "stream" /\ mode # "undefined"

Expected(msg) == ExpectedCast(msg) \/ ExpectedInfo(msg)

\* The last clause of each drops a cast, call or message not meant for this state, and
\* any other.
Generic ==
    /\ where = "idle"
    /\ mb # <<>>
    /\ ~Expected(Head(mb))
    /\ Continue(<<>>)
    /\ UNCHANGED <<masterVars, sock, stateVars, file, ghostVars>>

\* A caller of stop/0, and any process that sends the server something else.
Disturb ==
    /\ where # "down"
    /\ \E type \in {"shutdown", "noise"} : Fault(type) /\ mb' = Append(mb, Plain(type))
    /\ UNCHANGED <<mup, mrun, hist, mphase, mpos, peerOpen, req, net,
                   where, armed, sock, stateVars, file, ghostVars>>

\* The callback raises, or the process is killed, between any two steps.
Killed ==
    /\ where # "down"
    /\ Fault("kill")
    /\ Die

-----------------------------------------------------------------------------
(* The socket driver: an active socket delivers once and becomes passive.   *)

ChunkSizes ==
    LET most == IF Len(net) < BUFFER THEN Len(net) ELSE BUFFER
    IN  IF Fragment THEN 1 .. most ELSE {most} \ {0}

Deliver(msg) ==
    /\ mb' = Append(mb, msg)
    /\ UNCHANGED <<where, armed, stateVars, file, ghostVars>>

DeliverData ==
    /\ sock = "active"
    /\ \E size \in ChunkSizes :
          /\ net' = SubSeq(net, size + 1, Len(net))
          /\ Deliver(Msg("tcp", SubSeq(net, 1, size), 0))
    /\ sock' = "passive"
    /\ UNCHANGED <<mup, mrun, hist, mphase, mpos, peerOpen, req, faults>>

DeliverClosed ==
    /\ sock = "active"
    /\ ~peerOpen /\ net = <<>>
    /\ Deliver(Plain("tcp_closed"))
    /\ sock' = "none"
    /\ UNCHANGED masterVars

DeliverError ==
    /\ sock = "active"
    /\ ~peerOpen /\ net = <<>>
    /\ Fault("error")
    /\ Deliver(Plain("tcp_error"))
    /\ sock' = "none"
    /\ UNCHANGED <<mup, mrun, hist, mphase, mpos, peerOpen, req, net>>

-----------------------------------------------------------------------------
(* The whole system.                                                        *)

\* Steps the running process takes by itself: its code, given a processor.
Handler ==
    \/ Boot \/ BootRefused \/ BootAuthOk \/ BootPong \/ BootLoading \/ BootFailed
    \/ CastRepl \/ CastCapa \/ CastPsync \/ CastSync \/ CastPsyncPayload \/ CastRst
    \/ RecvPort \/ RecvCapa \/ RecvContinue \/ RecvFullResync \/ RecvBulk \/ RecvFailed
    \/ SaveBuffering \/ SavePayload \/ LoadRdb \/ LoadFailed
    \/ InfoLoading \/ InfoLoadingEof
    \/ CastReplication \/ InfoTcpQuiet \/ InfoTcpBuffer \/ InfoTcpCommands \/ InfoTcpFailed
    \/ InfoTcpClosed \/ InfoTcpError
    \/ Reconnect \/ ReconnectRefused \/ ReAuthOk \/ ReAuthThrows \/ RePong \/ ReconnectFailed
    \/ CallShutdown \/ Generic

Unserved == UNCHANGED serverVars

\* Steps the master takes by itself.
Master ==
    \/ MReply /\ Unserved
    \/ MFullSync /\ Unserved
    \/ MContinue /\ Unserved
    \/ MSendRdb /\ Unserved
    \/ MFlush /\ Unserved
    \/ MBoot /\ Unserved
    \/ MLoaded /\ Unserved

\* Steps that need not happen: clients' writes and disturbances.
World ==
    \/ MWrite /\ Unserved
    \/ MRefuse /\ Unserved
    \/ MKeepalive /\ Unserved
    \/ MDrop /\ Unserved
    \/ MCrash /\ Unserved
    \/ DeliverError \/ DiskFailed \/ Disturb \/ Killed

Next == Start \/ Handler \/ InfoTimeout \/ DeliverData \/ DeliverClosed \/ Master \/ World

Spec == Init /\ [][Next]_vars

\* The runtime schedules a runnable process and fires its timers; the socket
\* driver delivers to an active socket; the supervisor restarts the process; the
\* master answers, sends what it has, and comes back when it was down.
Fairness ==
    /\ WF_vars(Start) /\ WF_vars(Handler) /\ WF_vars(InfoTimeout)
    /\ WF_vars(DeliverData) /\ WF_vars(DeliverClosed) /\ WF_vars(Master)
    /\ WF_vars(MBoot /\ Unserved) /\ WF_vars(MLoaded /\ Unserved)

FairSpec == Spec /\ Fairness

-----------------------------------------------------------------------------
(* What keeps the server going.                                             *)

NoneOf(box, types)    == \A i \in DOMAIN box : box[i].t \notin types
AtMostOne(box, types) ==
    \A i, j \in DOMAIN box : box[i].t \in types /\ box[j].t \in types => i = j

\* The server has no timer and no other thread to restart its protocol: whenever
\* it is back in its loop before streaming, exactly one cast to itself must be
\* in the mailbox, and it must be one that the clause for state and mode takes;
\* while it waits in recv_sock/1 there must be none, which would be taken for a
\* reply.  (handle_cast/2's Generic clause drops a cast that comes at the wrong
\* time, and recv_sock/1 fails on it.)  This holds when no password is configured.
NeverWedged ==
    /\ AtMostOne(mb, Casts)
    /\ where = "idle" /\ state # "stream" => ~NoneOf(mb, Casts)
    /\ where = "idle" => \A i \in DOMAIN mb : mb[i].t \in Casts => Expected(mb[i])
    /\ where # "idle" => NoneOf(mb, Casts)

\* With a password the first half of that is all there is: a stray message taken
\* for the answer to AUTH leaves the true answer, or the end of that connection,
\* in the mailbox, and a late tcp_closed adds a second cast of new_connection.  One
\* that is expected is always there.
NeverStuck ==
    where = "idle" /\ state # "stream" =>
        \E i \in DOMAIN mb : mb[i].t \in Casts /\ Expected(mb[i])

\* An idle server that streams can always learn what the master does: its socket
\* is active, or a message is pending whose handler activates it or gives up the
\* connection (InfoTcp, CastReplication, InfoTcpClosed).
NeverDeaf ==
    where = "idle" /\ state = "stream" =>
        \/ sock = "active"
        \/ \E i \in DOMAIN mb : mb[i].t \in SocketMsgs \cup {"replication"}

\* The strengthening of these that every step preserves.  Which states go with
\* which place:
PlaceOK ==
    /\ where \in {"down", "boot", "bootAuth", "bootPing"} <=> state = "undefined"
    /\ where \in {"reAuth", "rePing"} => state = "reconnect"
    /\ where = "reply" => state \in {"list", "eof", "load", "payload", "buffering", "reconnect2"}
    /\ state \notin {"undefined", "list", "eof"} => mode # "undefined"
    /\ where = "down" => mb = <<>>
    /\ where \in {"bootAuth", "reAuth"} => UseAuth

\* The socket has nothing to say outside recv_sock/1 and the stream; in recv_sock/1
\* it says one thing, and in the stream the end of the connection comes last.
Closings == {"tcp_closed", "tcp_error"}

SocketOK ==
    /\ where \in {"down", "boot"} \/ (where = "idle" /\ state # "stream") =>
          sock # "active" /\ NoneOf(mb, SocketMsgs)
    /\ where \in Receiving =>
          /\ sock = "active" => NoneOf(mb, SocketMsgs)
          /\ AtMostOne(mb, SocketMsgs)
    /\ where = "idle" /\ state = "stream" =>
          \A i \in DOMAIN mb : mb[i].t \in Closings =>
              /\ sock = "none"
              /\ \A j \in DOMAIN mb : j > i => mb[j].t \notin SocketMsgs \cup Casts

\* While it reconnects the server may hold messages of connections it has given
\* up, and more than one cast of new_connection.  None of them is an answer to
\* PING: PONG is the last thing that the socket says to rePing, so that nothing old
\* is left once it has been received.
AwayOK ==
    /\ \A i \in DOMAIN mb : mb[i].t \in Casts => mb[i].t = "new_connection"
    /\ where = "idle" => sock = "none" /\ ~NoneOf(mb, Casts)
    /\ where \in {"idle", "reAuth"} => \A i \in DOMAIN mb : RecvResult(mb[i]) # "pong"
    /\ where = "reAuth" => req.c # "PING" /\ \A i \in DOMAIN net : net[i].k # "pong"
    /\ where = "rePing" => \A i \in DOMAIN mb : RecvResult(mb[i]) = "pong" =>
           /\ sock # "active"
           /\ \A j \in DOMAIN mb : j > i => mb[j].t \notin SocketMsgs \cup Casts

\* A socket that is gone has left word of it in the mailbox; one that is passive in
\* the stream has left a message whose handler activates it.
LineOK ==
    /\ where \in Receiving \/ (where = "idle" /\ state # "reconnect") =>
          (sock = "none" => ~NoneOf(mb, Closings))
    /\ where = "idle" /\ state = "stream" =>
          (sock = "passive" => ~NoneOf(mb, {"tcp", "replication"}))

IInv ==
    /\ TypeOK
    /\ PlaceOK
    /\ state # "reconnect" => SocketOK /\ NeverWedged
    /\ state = "reconnect" => AwayOK
    /\ LineOK

-----------------------------------------------------------------------------
(* What the callback receives.                                              *)

\* The callback sees {loading, eof} only after all the keys the master sent, in
\* order and nothing between them, whatever the pieces in which the payload was
\* read and whatever the dump file held before; keys are never followed by
\* anything but the next key or the eof of their snapshot.
SnapshotWhole ==
    /\ \A e \in DOMAIN events : events[e].ev = "eof" =>
          LET size == events[e].n
          IN  /\ size < e
              /\ \A i \in 1 .. size :
                    events[e - size - 1 + i] = [ev |-> "loading", n |-> i, r |-> events[e].r]
              /\ size + 1 < e => events[e - size - 1].ev # "loading"
    /\ \A i \in 1 .. Len(events) - 1 : events[i].ev = "loading" =>
          \/ events[i + 1].ev = "eof"
          \/ events[i + 1] = [ev |-> "loading", n |-> events[i].n + 1, r |-> events[i].r]

\* As long as nothing was lost or kept from an earlier connection, the callback
\* receives each command after its snapshot exactly once and in order, across
\* reconnections, buffered reads and partial resynchronisations.
ExactlyOnce ==
    [][ tainted = {} =>
          \A i \in Len(events) .. Len(events') - 1 :
              events'[i + 1].ev = "stream" =>
                  /\ i > 0
                  /\ \/ /\ events'[i].ev = "stream"
                        /\ events'[i + 1].n = events'[i].n + 1
                     \/ /\ events'[i].ev = "eof"
                        /\ CmdUnits * (events'[i + 1].n - 1) = events'[i].r ]_vars

\* Whatever happens to connections, reads and the process, what the callback receives
\* is what CallbackFeed promises: between two ends of the process, whole snapshots with
\* nothing between their keys, and the commands behind where the last event has left
\* the callback, unless something was lost or kept from an earlier connection.
Phase ==
    IF where = "down" THEN "down"
    ELSE IF NoneOf(mb, {"loading", "loading_eof"}) THEN "rest" ELSE "snapshot"
Feed == INSTANCE CallbackFeed WITH phase <- Phase, damaged <- (tainted # {})
FeedsCallback == Feed!Spec

\* The bytes between the master's history and the callback.
MailboxData == FlattenSeq([i \in DOMAIN mb |-> IF mb[i].t = "tcp" THEN mb[i].data ELSE <<>>])
InFlight == buffer \o MailboxData \o net

\* While streaming, what is buffered, in the mailbox and in flight is exactly the
\* master's history from where the callback's knowledge ends to what the master
\* has sent (less what a cut connection dropped at the end).  A partial
\* resynchronisation may send the last unit before that once more.
NoGap ==
    state = "stream" /\ "stale" \notin tainted =>
        \E from \in {fed, fed + 1} :
            LET to == from + Len(InFlight) - 1
            IN  /\ InFlight # <<>> => from > 0 /\ InFlight = HistUnits(from, to)
                /\ to <= HistEnd
                /\ peerOpen => to = mpos

\* The offset that PSYNC and the heartbeat report is where the callback's
\* knowledge ends, or one unit further.
OffsetHonest ==
    /\ tainted = {} /\ state = "stream" /\ mode = "psync" => offset - fed \in {0, 1}
    /\ tainted = {} => acked <= fed + 1

\* The heartbeat of psync mode does not stop: an idle server that streams in psync
\* mode has its timer running.
HeartbeatArmed ==
    where = "idle" /\ state = "stream" /\ mode = "psync" /\ mb = <<>> => armed

\* A partial resynchronisation is never asked from beyond what was received, so
\* that none can skip a command.
NeverSkips ==
    req.c = "PSYNC" /\ req.runid = mrun /\ tainted = {} => req.offset <= fed + 1

\* A snapshot that was received in SYNC mode by reads that either fill the buffer or
\* end the payload, on a connection that holds, is loaded: none of the ways its pieces reach
\* the dump file breaks it.
PayloadLoads ==
    /\ where = "idle" /\ mb # <<>> /\ Head(mb).t = "load_rdb"
    /\ mode # "psync" /\ peerOpen
    => Loadable(file)

-----------------------------------------------------------------------------
(* Progress.                                                                *)

Streaming == where = "idle" /\ state = "stream"

\* stop/0 ends the process wherever its message is taken, in the loop or by
\* recv_sock/1, but for one place: while a reconnection waits for the answer to AUTH,
\* send_auth throws what recv_sock/1 makes of the message, and handle_cast's
\* new_connection clause catches that and tries again (126-131, 366-369).
TakenForAnswer == Received("reAuth") /\ Head(mb).t = "shutdown"
ShutdownStops ==
    (\E i \in DOMAIN mb : mb[i].t = "shutdown") ~> (where = "down" \/ TakenForAnswer)

\* What the callback was last told of, the end of a snapshot or a command, ends at p.
\* (What the server believes, fed, does not count here: it includes the commands that
\* went into the dump file.)
ToldUpTo(p) ==
    /\ events # <<>> /\ Last(events).ev # "loading"
    /\ Feed!Reached = p

\* Without writes and disturbances the server ends up with every command told to the
\* callback, but for these: it waits for more data because a read ended exactly where
\* the buffer did, in the stream or at the end of the snapshot; the payload came with
\* the FULLRESYNC line and was dropped; commands that came in the read that ends the
\* payload went into the dump file, and all behind them have been told; it stays down.
CaughtUp       == Streaming /\ buffer = <<>> /\ "lost" \notin tainted /\ ToldUpTo(HistEnd)
AlignedStream  == Streaming /\ buffer # <<>> /\ Len(buffer) % BUFFER = 0
AlignedPayload == where = "reply" /\ state = "buffering"
PayloadDropped == where = "reply" /\ state = "payload"
LostInDumpFile ==
    /\ Streaming /\ buffer = <<>> /\ "lost" \in tainted
    /\ ToldUpTo(HistEnd) \/ ToldUpTo(HistEnd - Len(AfterEof(file)))
CatchesUp ==
    <>[](\/ where = "down" \/ CaughtUp
         \/ AlignedStream \/ AlignedPayload \/ PayloadDropped \/ LostInDumpFile)

\* In the end the heartbeat reports the offset that the server has reached.
AckCatchesUp == <>[](Streaming /\ mode = "psync" => acked = offset)
=============================================================================
