---------------------------- MODULE RedisMaster ----------------------------
(***************************************************************************)
(* The peer that eslaver talks to: one redis master and the TCP connection *)
(* it serves to the server.  None of this is under src/; it is modelled    *)
(* from what eslaver_server.erl sends (:435-464) and expects (:376-408).   *)
(***************************************************************************)
EXTENDS ReplWire

CONSTANTS
    MaxCmds,      \* bound: write commands the master executes
    MaxFaults,    \* bound: disturbances of any kind in one behaviour
    Faults,       \* the kinds of disturbance that may happen
    Snapshots,    \* the key sequences a snapshot may contain
    CapaReplies   \* what this master may answer to REPLCONF capa eof

FaultKinds == {"drop", "boot", "keepalive", "refuse", "error",  \* master and network
               "kill", "noise", "shutdown", "disk"}             \* around the server

ASSUME MasterAssumption ==
    /\ MaxCmds \in Nat
    /\ MaxFaults \in Nat
    /\ Faults \subseteq FaultKinds
    /\ Snapshots # {}
    /\ Snapshots \subseteq Seq({"key", "dkey"})
    /\ CapaReplies # {}
    /\ CapaReplies \subseteq {"ok", "unrecognized"}

VARIABLES
    mup,       \* "down", "loading" its own dataset, or "up"
    mrun,      \* its run id; a restart takes the next one
    hist,      \* write commands executed, the replication history
    mphase,    \* how far the master is with this replica
    mpos,      \* the last history unit it has sent, or put in the snapshot
    peerOpen,  \* the master's end of the connection is open
    req,       \* the request it has not answered yet
    net,       \* units sent by the master that the server's host has not delivered
    faults     \* disturbances so far

masterVars == <<mup, mrun, hist, mphase, mpos, peerOpen, req, net, faults>>

Requests == [c : {"none", "AUTH", "PING", "PORT", "CAPA", "PSYNC", "SYNC"},
             runid : Nat, offset : Int]
Request(cmd) == [c |-> cmd, runid |-> 0, offset |-> 0]
NoRequest == Request("none")

MasterTypeOK ==
    /\ mup \in {"down", "loading", "up"}
    /\ mrun \in Nat \ {0}
    /\ hist \in Nat
    /\ mphase \in {"none", "cmd", "bgsave", "online"}
    /\ mpos \in Nat
    /\ peerOpen \in BOOLEAN
    /\ req \in Requests
    /\ net \in Seq(Unit)
    /\ faults \in Nat

MasterInit ==
    /\ mup = "up"
    /\ mrun = 1
    /\ hist = 0
    /\ mphase = "none"
    /\ mpos = 0
    /\ peerOpen = FALSE
    /\ req = NoRequest
    /\ net = <<>>
    /\ faults = 0

HistEnd == CmdUnits * hist

Fault(kind) ==
    /\ kind \in Faults
    /\ faults < MaxFaults
    /\ faults' = faults + 1

-----------------------------------------------------------------------------
(* Answers.                                                                 *)

Asked(cmd) == peerOpen /\ req.c = cmd

Answer(unit) ==
    /\ net' = Append(net, unit)
    /\ req' = NoRequest

MReply ==
    /\ \/ Asked("AUTH") /\ Answer(Mk("ok", 0))
       \/ Asked("PING") /\ mup = "up" /\ Answer(Mk("pong", 0))
       \/ Asked("PING") /\ mup = "loading" /\ Answer(Mk("loading", 0))
       \/ Asked("PORT") /\ Answer(Mk("ok", 0))
       \/ Asked("CAPA") /\ \E kind \in CapaReplies : Answer(Mk(kind, 0))
    /\ UNCHANGED <<mup, mrun, hist, mphase, mpos, peerOpen, faults>>

\* An error reply: wrong password, no password, not connected to its own master.
MRefuse ==
    /\ peerOpen /\ req.c # "none"
    /\ Fault("refuse")
    /\ Answer(Mk("err", 0))
    /\ UNCHANGED <<mup, mrun, hist, mphase, mpos, peerOpen>>

\* A full synchronisation starts with a snapshot of the history so far.  It is
\* always the master's right: its backlog may not reach back far enough.
MFullSync ==
    /\ \/ Asked("PSYNC") /\ Answer(FullResync(mrun, HistEnd))
       \/ Asked("SYNC") /\ req' = NoRequest /\ net' = net
    /\ mphase' = "bgsave"
    /\ mpos' = HistEnd
    /\ UNCHANGED <<mup, mrun, hist, peerOpen, faults>>

\* PSYNC's offset is the position of the first unit to send.
MContinue ==
    /\ Asked("PSYNC")
    /\ req.runid = mrun
    /\ req.offset \in 1 .. HistEnd + 1
    /\ Answer(Mk("continue", 0))
    /\ mphase' = "online"
    /\ mpos' = req.offset - 1
    /\ UNCHANGED <<mup, mrun, hist, peerOpen, faults>>

MSendRdb ==
    /\ peerOpen /\ mphase = "bgsave"
    /\ \E keys \in Snapshots : net' = net \o Payload(keys, mpos)
    /\ mphase' = "online"
    /\ UNCHANGED <<mup, mrun, hist, mpos, peerOpen, req, faults>>

\* While the snapshot is being written the master sends newlines to keep the
\* connection alive.
MKeepalive ==
    /\ peerOpen /\ mphase = "bgsave"
    /\ Fault("keepalive")
    /\ net' = Append(net, Mk("lf", 0))
    /\ UNCHANGED <<mup, mrun, hist, mphase, mpos, peerOpen, req>>

-----------------------------------------------------------------------------
(* Replication.                                                             *)

MWrite ==
    /\ mup = "up"
    /\ hist < MaxCmds
    /\ hist' = hist + 1
    /\ UNCHANGED <<mup, mrun, mphase, mpos, peerOpen, req, net, faults>>

MFlush ==
    /\ peerOpen /\ mphase = "online"
    /\ mpos < HistEnd
    /\ net' = net \o HistUnits(mpos + 1, HistEnd)
    /\ mpos' = HistEnd
    /\ UNCHANGED <<mup, mrun, hist, mphase, peerOpen, req, faults>>

-----------------------------------------------------------------------------
(* Disturbances.                                                            *)

\* The connection is cut: what was sent last may never arrive.
Cut ==
    /\ peerOpen' = FALSE
    /\ req' = NoRequest
    /\ mphase' = "none"
    /\ \E kept \in 0 .. Len(net) : net' = SubSeq(net, 1, kept)

MDrop ==
    /\ peerOpen
    /\ Fault("drop")
    /\ Cut
    /\ UNCHANGED <<mup, mrun, hist, mpos>>

MCrash ==
    /\ mup # "down"
    /\ Fault("boot")
    /\ mup' = "down"
    /\ Cut
    /\ UNCHANGED <<mrun, hist, mpos>>

MBoot ==
    /\ mup = "down"
    /\ mup' = "loading"
    /\ mrun' = mrun + 1
    /\ UNCHANGED <<hist, mphase, mpos, peerOpen, req, net, faults>>

MLoaded ==
    /\ mup = "loading"
    /\ mup' = "up"
    /\ UNCHANGED <<mrun, hist, mphase, mpos, peerOpen, req, net, faults>>

-----------------------------------------------------------------------------
(* What the server's calls of gen_tcp do to the connection.                 *)

Reachable == mup # "down"

\* gen_tcp:connect/3 succeeds, the previous connection is forgotten, and the
\* first request goes out.
Open(request) ==
    /\ peerOpen' = TRUE
    /\ net' = <<>>
    /\ req' = request
    /\ mphase' = "cmd"
    /\ mpos' = 0
    /\ UNCHANGED <<mup, mrun, hist, faults>>

\* gen_tcp:send/2 returns ok; a request to a peer that has gone is lost.
Send(request) ==
    /\ req' = IF peerOpen THEN request ELSE req
    /\ UNCHANGED <<mup, mrun, hist, mphase, mpos, peerOpen, net, faults>>

\* The server's end is closed.
Hangup ==
    /\ peerOpen' = FALSE
    /\ net' = <<>>
    /\ req' = NoRequest
    /\ mphase' = "none"
    /\ mpos' = 0
    /\ UNCHANGED <<mup, mrun, hist>>
=============================================================================
