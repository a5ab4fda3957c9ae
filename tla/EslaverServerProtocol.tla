----------------------- MODULE EslaverServerProtocol ------------------------
(***************************************************************************)
(* The types of EslaverServer's variables, and the thread of the protocol, *)
(* for every value of its constants: outside a reconnection, and without a *)
(* password in it too, the next step is always pending exactly once; with  *)
(* a password AwayOK takes the place of that stricter invariant while the  *)
(* server reconnects, and it still never loses its ear for the master.     *)
(***************************************************************************)
EXTENDS EslaverServer, WellFoundedInduction, TLAPS

\* Of some positions in a sequence one is the first.
LEMMA LeastElement ==
    ASSUME NEW S, S \subseteq Nat, S # {}
    PROVE  \E i \in S : \A j \in S : i <= j
<1>1. \E i \in S : \A j \in S : ~(<<j, i>> \in OpToRel(<, Nat))
  BY WFMin, NatLessThanWellFounded, Zenon
<1>2. PICK i \in S : \A j \in S : ~(j < i)
  BY <1>1, Zenon DEF OpToRel
<1> QED BY <1>2

-----------------------------------------------------------------------------
(* Messages and mailboxes.                                                  *)

\* Taking the first message of a mailbox, and adding some, leaves a mailbox.
LEMMA TakeMessage ==
    ASSUME NEW box \in Seq(Message), box # <<>>
    PROVE  /\ Head(box) \in Message
           /\ Tail(box) \in Seq(Message)
BY SMT

LEMMA JoinMessages ==
    ASSUME NEW s \in Seq(Message), NEW t \in Seq(Message)
    PROVE  s \o t \in Seq(Message)
BY SMT

LEMMA OneMessage ==
    ASSUME NEW m \in Message
    PROVE  <<m>> \in Seq(Message)
BY SMT

LEMMA MessageParts ==
    ASSUME NEW m \in Message
    PROVE  /\ m.t \in SocketMsgs \cup Casts \cup Modes \cup OtherMsgs
           /\ m.data \in Seq(Unit)
           /\ m.n \in Nat
BY DEF Message

LEMMA MakeMessage ==
    ASSUME NEW type \in SocketMsgs \cup Casts \cup Modes \cup OtherMsgs,
           NEW data \in Seq(Unit), NEW num \in Nat
    PROVE  Msg(type, data, num) \in Message
BY DEF Msg, Message

LEMMA MakePlain ==
    ASSUME NEW type \in SocketMsgs \cup Casts \cup Modes \cup OtherMsgs
    PROVE  Plain(type) \in Message
<1>1. <<>> \in Seq(Unit)  OBVIOUS
<1> QED BY <1>1, MakeMessage DEF Plain

\* The units of a command, and of a stretch of the master's history.
LEMMA UnitOf ==
    ASSUME NEW kind \in ReplyKinds \cup PayloadKinds \cup StreamKinds,
           NEW num \in Nat
    PROVE  Mk(kind, num) \in Unit
BY DEF Mk, Unit

LEMMA HistUnitsType ==
    ASSUME NEW from \in Nat \ {0}, NEW to \in Nat
    PROVE  HistUnits(from, to) \in Seq(Unit)
<1>1. ASSUME NEW p \in Nat \ {0}  PROVE HistUnit(p) \in Unit
  <2>1. (p - 1) \div CmdUnits \in Nat /\ (p - 1) % CmdUnits \in 0 .. 2
    BY DEF CmdUnits
  <2>2. <<"head", "body", "lf">>[((p - 1) % CmdUnits) + 1] \in StreamKinds
    BY <2>1 DEF StreamKinds
  <2> QED BY <2>1, <2>2, UnitOf DEF HistUnit
<1>2. \A i \in 1 .. (to - from + 1) : HistUnit(from + i - 1) \in Unit
  BY <1>1
<1> QED BY <1>2 DEF HistUnits

LEMMA PayloadType ==
    ASSUME NEW keys \in Seq({"key", "dkey"}), NEW at \in Nat
    PROVE  Payload(keys, at) \in Seq(Unit)
<1> DEFINE Part(kind, num) == [k |-> kind, n |-> num, r |-> at]
<1>1. \A kind \in PayloadKinds, num \in Nat : Part(kind, num) \in Unit
  BY DEF Unit
<1>2. [i \in 1 .. Len(keys) |-> Part(keys[i], i)] \in Seq(Unit)
  <2>1. \A i \in 1 .. Len(keys) : Part(keys[i], i) \in Unit
    BY <1>1 DEF PayloadKinds
  <2> HIDE DEF Part
  <2> QED BY <2>1
<1>3. <<Part("len", 0), Part("magic", 0)>> \in Seq(Unit) /\ <<Part("eof", Len(keys))>> \in Seq(Unit)
  <2>1. Part("len", 0) \in Unit /\ Part("magic", 0) \in Unit /\ Part("eof", Len(keys)) \in Unit
    BY <1>1 DEF PayloadKinds
  <2> HIDE DEF Part
  <2> QED BY <2>1
<1>4. Payload(keys, at) = <<Part("len", 0), Part("magic", 0)>>
          \o [i \in 1 .. Len(keys) |-> Part(keys[i], i)] \o <<Part("eof", Len(keys))>>
  BY DEF Payload
<1> HIDE DEF Part
<1> QED BY <1>2, <1>3, <1>4

\* Chunks: what a read hands over, and what a decoder leaves.
LEMMA PartType ==
    ASSUME NEW s \in Seq(Unit), NEW from \in Nat \ {0}, NEW to \in Nat, to <= Len(s)
    PROVE  SubSeq(s, from, to) \in Seq(Unit)
<1>1. \A i \in from .. to : s[i] \in Unit  OBVIOUS
<1> QED BY <1>1, SMT

LEMMA SaveType ==
    ASSUME NEW f \in Seq(Unit), NEW bulk \in Seq(Unit), NEW rdbMode
    PROVE  Save(f, bulk, rdbMode) \in Seq(Unit)
<1> DEFINE nl == {i \in 1 .. Len(bulk) : bulk[i].k \in NewlineEnd}
           end == CHOOSE i \in nl : \A j \in nl : i <= j
<1>1. AfterNewline(bulk) \in Seq(Unit)
  <2>1. CASE nl = {}
    BY <2>1 DEF AfterNewline
  <2>2. CASE nl # {}
    <3>1. nl \subseteq Nat  OBVIOUS
    <3>2. \E i \in nl : \A j \in nl : i <= j
      BY <2>2, <3>1, LeastElement
    <3>3. end \in nl
      BY <3>2
    <3>4. end \in 1 .. Len(bulk)
      BY <3>3
    <3>5. SubSeq(bulk, 1 + end, Len(bulk)) \in Seq(Unit)
      <4> HIDE DEF end
      <4> QED BY <3>4, PartType
    <3> QED BY <2>2, <3>5 DEF AfterNewline
  <2> QED BY <2>1, <2>2
<1>2. f \o bulk \in Seq(Unit)  OBVIOUS
<1> QED BY <1>1, <1>2 DEF Save

LEMMA LastCommandType ==
    ASSUME NEW bin \in Seq(Unit), Parsable(bin)
    PROVE  LastCommand(bin) \in Nat
<1>1. Len(bin) > 1
  BY DEF Parsable
<1>2. bin[Len(bin) - 1] \in Unit
  BY <1>1
<1> QED BY <1>2 DEF LastCommand, Unit

\* A chunk that is recognised has a first unit.
LEMMA ChunkHead ==
    ASSUME NEW chunk \in Seq(Unit), ChunkResult(chunk) \notin {"load_stream", "load_buffer"}
    PROVE  chunk # <<>> /\ chunk[1] \in Unit
BY DEF ChunkResult

-----------------------------------------------------------------------------
(* Type correctness.                                                        *)

LEMMA EmptySeqs == <<>> \in Seq(Unit) /\ <<>> \in Seq(Message)
OBVIOUS

LEMMA TypeInit == Init => TypeOK
<1> SUFFICES ASSUME Init PROVE TypeOK
  OBVIOUS
<1>b. peerOpen \in BOOLEAN /\ armed \in BOOLEAN
  BY Zenon DEF Init, MasterInit
<1>1. MasterTypeOK
  BY <1>b, EmptySeqs DEF Init, MasterInit, MasterTypeOK, NoRequest, Request, Requests
<1>2. ServerTypeOK
  BY <1>b, EmptySeqs DEF Init, ServerTypeOK, Places, States, Modes, NoRunId
<1> QED BY <1>1, <1>2 DEF TypeOK

\* The pieces that actions are made of keep their variables' types.
LEMMA RequestType ==
    ASSUME NEW cmd \in {"none", "AUTH", "PING", "PORT", "CAPA", "PSYNC", "SYNC"}
    PROVE  Request(cmd) \in Requests
BY DEF Request, Requests

LEMMA HangupType ==
    ASSUME MasterTypeOK, Hangup, faults' \in Nat
    PROVE  MasterTypeOK'
<1>1. NoRequest \in Requests
  BY RequestType DEF NoRequest
<1>2. peerOpen' \in BOOLEAN
  BY Zenon DEF Hangup
<1> QED BY <1>1, <1>2, EmptySeqs DEF MasterTypeOK, Hangup

LEMMA SendType ==
    ASSUME MasterTypeOK, NEW request \in Requests, Send(request)
    PROVE  MasterTypeOK'
BY DEF MasterTypeOK, Send

LEMMA OpenType ==
    ASSUME MasterTypeOK, NEW request \in Requests, Open(request)
    PROVE  MasterTypeOK'
BY DEF MasterTypeOK, Open

LEMMA IdleMaster ==
    ASSUME MasterTypeOK, UNCHANGED masterVars
    PROVE  MasterTypeOK'
BY DEF MasterTypeOK, masterVars

LEMMA DieType ==
    ASSUME TypeOK, Die, faults' \in Nat
    PROVE  TypeOK'
<1>1. MasterTypeOK'
  BY HangupType DEF TypeOK, Die
<1>2. armed' \in BOOLEAN
  BY Zenon DEF Die
<1>3. ServerTypeOK'
  BY <1>2, EmptySeqs DEF TypeOK, ServerTypeOK, Die, ghostVars, Places, States, Modes, NoRunId
<1> QED BY <1>1, <1>3 DEF TypeOK

LEMMA StopType ==
    ASSUME TypeOK, Stop
    PROVE  TypeOK'
BY DieType DEF Stop, TypeOK, MasterTypeOK

LEMMA ContinueType ==
    ASSUME TypeOK, mb # <<>>, NEW next \in Seq(Message), Continue(next)
    PROVE  where' \in Places /\ mb' \in Seq(Message) /\ armed' \in BOOLEAN
<1>1. Tail(mb) \in Seq(Message)
  BY TakeMessage DEF TypeOK, ServerTypeOK
<1>2. Tail(mb) \o next \in Seq(Message)
  BY <1>1, JoinMessages
<1> QED BY <1>2 DEF Continue, Places

LEMMA CastOne ==
    ASSUME NEW type \in SocketMsgs \cup Casts \cup Modes \cup OtherMsgs
    PROVE  <<Plain(type)>> \in Seq(Message)
BY MakePlain, OneMessage

LEMMA ActivatedType ==
    Activated \in {"none", "passive", "active"}
BY DEF Activated

LEMMA AskType ==
    ASSUME TypeOK, mb # <<>>, NEW request \in Requests, AskOrFail(request)
    PROVE  TypeOK'
<1>1. CASE Ask(request)
  <2>1. MasterTypeOK'
    BY <1>1, SendType DEF TypeOK, Ask
  <2>2. Tail(mb) \in Seq(Message)
    BY TakeMessage DEF TypeOK, ServerTypeOK
  <2>3. ServerTypeOK'
    BY <1>1, <2>2, ActivatedType
       DEF TypeOK, ServerTypeOK, Ask, stateVars, ghostVars, Places, Receiving
  <2> QED BY <2>1, <2>3 DEF TypeOK
<1>2. CASE Stop
  BY <1>2, StopType
<1> QED BY <1>1, <1>2 DEF AskOrFail

\* The message that recv_sock/1 takes or the loop handles.
LEMMA HeadParts ==
    ASSUME TypeOK, mb # <<>>
    PROVE  /\ Head(mb).t \in SocketMsgs \cup Casts \cup Modes \cup OtherMsgs
           /\ Head(mb).data \in Seq(Unit)
           /\ Head(mb).n \in Nat
           /\ Tail(mb) \in Seq(Message)
BY TakeMessage, MessageParts DEF TypeOK, ServerTypeOK

\* The master's own steps keep its part of the type invariant.
LEMMA TypeMaster ==
    ASSUME TypeOK,
           Master \/ ((MWrite \/ MRefuse \/ MKeepalive \/ MDrop \/ MCrash) /\ Unserved)
    PROVE  TypeOK'
<1>1. ASSUME NEW unit \in Unit, Answer(unit)
      PROVE  net' \in Seq(Unit) /\ req' \in Requests
  BY <1>1, RequestType DEF Answer, NoRequest, TypeOK, MasterTypeOK
<1>2. ASSUME Cut
      PROVE  /\ net' \in Seq(Unit) /\ req' \in Requests
             /\ peerOpen' \in BOOLEAN /\ mphase' = "none"
  <2>1. PICK kept \in 0 .. Len(net) : net' = SubSeq(net, 1, kept)
    BY <1>2 DEF Cut
  <2>2. net' \in Seq(Unit)
    BY <2>1, PartType DEF TypeOK, MasterTypeOK
  <2>3. peerOpen' \in BOOLEAN
    BY <1>2, Zenon DEF Cut
  <2> QED BY <1>2, <2>2, <2>3, RequestType DEF Cut, NoRequest
<1>3. \A kind \in ReplyKinds : Mk(kind, 0) \in Unit
  BY UnitOf
<1>4. HistEnd \in Nat
  BY DEF HistEnd, CmdUnits, TypeOK, MasterTypeOK
<1>5. ASSUME MReply PROVE MasterTypeOK'
  <2>1. \E kind \in ReplyKinds : Answer(Mk(kind, 0))
    BY <1>5, MasterAssumption DEF MReply, ReplyKinds
  <2>2. net' \in Seq(Unit) /\ req' \in Requests
    BY <2>1, <1>1, <1>3
  <2> QED BY <1>5, <2>2 DEF MReply, TypeOK, MasterTypeOK
<1>6. ASSUME MFullSync PROVE MasterTypeOK'
  <2>1. FullResync(mrun, HistEnd) \in Unit
    BY <1>4 DEF FullResync, Unit, ReplyKinds, TypeOK, MasterTypeOK
  <2>2. net' \in Seq(Unit) /\ req' \in Requests
    BY <1>6, <1>1, <2>1, RequestType DEF MFullSync, NoRequest, TypeOK, MasterTypeOK
  <2> QED BY <1>6, <2>2, <1>4 DEF MFullSync, TypeOK, MasterTypeOK
<1>7. ASSUME MContinue PROVE MasterTypeOK'
  <2>1. net' \in Seq(Unit) /\ req' \in Requests
    BY <1>7, <1>1, <1>3 DEF MContinue, ReplyKinds
  <2>2. mpos' \in Nat
    BY <1>7, <1>4 DEF MContinue
  <2> QED BY <1>7, <2>1, <2>2 DEF MContinue, TypeOK, MasterTypeOK
<1>8. ASSUME MSendRdb PROVE MasterTypeOK'
  <2>1. PICK keys \in Snapshots : net' = net \o Payload(keys, mpos)
    BY <1>8 DEF MSendRdb
  <2>2. Payload(keys, mpos) \in Seq(Unit)
    BY PayloadType, MasterAssumption DEF TypeOK, MasterTypeOK
  <2>3. net' \in Seq(Unit)
    BY <2>1, <2>2 DEF TypeOK, MasterTypeOK
  <2> QED BY <1>8, <2>3 DEF MSendRdb, TypeOK, MasterTypeOK
<1>9. ASSUME MFlush PROVE MasterTypeOK'
  <2>1. mpos + 1 \in Nat \ {0}
    BY DEF TypeOK, MasterTypeOK
  <2>2. HistUnits(mpos + 1, HistEnd) \in Seq(Unit)
    BY <2>1, <1>4, HistUnitsType
  <2>3. net' \in Seq(Unit)
    BY <1>9, <2>2 DEF MFlush, TypeOK, MasterTypeOK
  <2> QED BY <1>9, <2>3, <1>4 DEF MFlush, TypeOK, MasterTypeOK
<1>10. ASSUME MBoot PROVE MasterTypeOK'
  BY <1>10 DEF MBoot, TypeOK, MasterTypeOK
<1>11. ASSUME MLoaded PROVE MasterTypeOK'
  BY <1>11 DEF MLoaded, TypeOK, MasterTypeOK
<1>12. ASSUME MWrite PROVE MasterTypeOK'
  BY <1>12 DEF MWrite, TypeOK, MasterTypeOK
<1>13. ASSUME MRefuse PROVE MasterTypeOK'
  <2>1. net' \in Seq(Unit) /\ req' \in Requests
    BY <1>13, <1>1, <1>3 DEF MRefuse, ReplyKinds
  <2> QED BY <1>13, <2>1 DEF MRefuse, Fault, TypeOK, MasterTypeOK
<1>14. ASSUME MKeepalive PROVE MasterTypeOK'
  <2>1. Mk("lf", 0) \in Unit
    BY UnitOf DEF StreamKinds
  <2>2. net' \in Seq(Unit)
    BY <1>14, <2>1 DEF MKeepalive, TypeOK, MasterTypeOK
  <2> QED BY <1>14, <2>2 DEF MKeepalive, Fault, TypeOK, MasterTypeOK
<1>15. ASSUME MDrop PROVE MasterTypeOK'
  BY <1>15, <1>2 DEF MDrop, Fault, TypeOK, MasterTypeOK
<1>16. ASSUME MCrash PROVE MasterTypeOK'
  BY <1>16, <1>2 DEF MCrash, Fault, TypeOK, MasterTypeOK
<1>17. Unserved => ServerTypeOK'
  BY DEF Unserved, serverVars, procVars, stateVars, ghostVars, TypeOK, ServerTypeOK
<1> QED BY <1>5, <1>6, <1>7, <1>8, <1>9, <1>10, <1>11, <1>12, <1>13, <1>14, <1>15, <1>16, <1>17 DEF Master, TypeOK

\* The server's steps: starting.
LEMMA TypeBoot ==
    ASSUME TypeOK,
           Start \/ Boot \/ BootRefused \/ BootAuthOk \/ BootPong
           \/ BootLoading \/ BootFailed
    PROVE  TypeOK'
<1>1. CASE Start
  BY <1>1, IdleMaster DEF Start, stateVars, Places, TypeOK, ServerTypeOK
<1>2. CASE Boot
  <2>1. FirstRequest \in Requests
    BY RequestType DEF FirstRequest
  <2>2. MasterTypeOK'
    BY <1>2, <2>1, OpenType DEF Boot, TypeOK
  <2> QED BY <1>2, <2>2 DEF Boot, stateVars, ghostVars, Places, Receiving, TypeOK, ServerTypeOK
<1>3. CASE BootRefused
  BY <1>3, StopType DEF BootRefused
<1>4. CASE BootAuthOk
  <2>1. MasterTypeOK'
    BY <1>4, RequestType, SendType DEF BootAuthOk, TypeOK
  <2> QED BY <1>4, <2>1, HeadParts, ActivatedType
          DEF BootAuthOk, Received, stateVars, ghostVars, Places, Receiving, TypeOK, ServerTypeOK
<1>5. CASE BootPong
  <2>1. <<Plain("repl")>> \in Seq(Message)
    BY CastOne DEF Casts
  <2>2. where' \in Places /\ mb' \in Seq(Message) /\ armed' \in BOOLEAN
    BY <1>5, <2>1, ContinueType DEF BootPong, Received
  <2> QED BY <1>5, <2>2, IdleMaster DEF BootPong, States, ghostVars, TypeOK, ServerTypeOK
<1>6. CASE BootLoading
  BY <1>6, HeadParts, IdleMaster
     DEF BootLoading, Received, stateVars, ghostVars, Places, TypeOK, ServerTypeOK
<1>7. CASE BootFailed
  BY <1>7, StopType DEF BootFailed
<1> QED BY <1>1, <1>2, <1>3, <1>4, <1>5, <1>6, <1>7

\* The server's steps: the handshake.
LEMMA TypeHandshake ==
    ASSUME TypeOK,
           CastRepl \/ CastCapa \/ CastPsync \/ CastSync \/ CastPsyncPayload
           \/ CastRst \/ RecvPort \/ RecvCapa
    PROVE  TypeOK'
<1>1. CASE CastRepl
  <2>1. Request("PORT") \in Requests
    BY RequestType
  <2> QED BY <1>1, <2>1, AskType DEF CastRepl, Handles
<1>2. CASE CastCapa
  <2>1. Request("CAPA") \in Requests
    BY RequestType
  <2> QED BY <1>2, <2>1, AskType DEF CastCapa, Handles
<1>3. CASE CastPsync
  <2>1. [c |-> "PSYNC", runid |-> runid, offset |-> offset] \in Requests
    BY DEF Requests, TypeOK, ServerTypeOK
  <2> QED BY <1>3, <2>1, AskType DEF CastPsync, Handles
<1>4. CASE CastSync
  <2>1. Request("SYNC") \in Requests
    BY RequestType
  <2> QED BY <1>4, <2>1, AskType DEF CastSync, Handles
<1>5. CASE CastPsyncPayload
  <2>1. CASE mode = "psync"
    BY <1>5, <2>1, HeadParts, ActivatedType, IdleMaster
       DEF CastPsyncPayload, Handles, stateVars, ghostVars, Places, Receiving, TypeOK, ServerTypeOK
  <2>2. CASE mode # "psync"
    BY <1>5, <2>2, StopType DEF CastPsyncPayload
  <2> QED BY <2>1, <2>2
<1>6. CASE CastRst
  <2>1. <<Plain(mode)>> \in Seq(Message)
    BY CastOne DEF TypeOK, ServerTypeOK
  <2>2. where' \in Places /\ mb' \in Seq(Message) /\ armed' \in BOOLEAN
    BY <1>6, <2>1, ContinueType DEF CastRst, Handles
  <2> QED BY <1>6, <2>2, IdleMaster DEF CastRst, States, ghostVars, TypeOK, ServerTypeOK
<1>7. CASE RecvPort
  <2>1. <<Plain("capa")>> \in Seq(Message) /\ <<Plain("rst")>> \in Seq(Message)
    BY CastOne DEF Casts
  <2>2. where' \in Places /\ mb' \in Seq(Message) /\ armed' \in BOOLEAN
    BY <1>7, <2>1, ContinueType DEF RecvPort, Received
  <2>3. state' \in States
    BY <1>7 DEF RecvPort, States
  <2> QED BY <1>7, <2>2, <2>3, IdleMaster DEF RecvPort, ghostVars, TypeOK, ServerTypeOK
<1>8. CASE RecvCapa
  <2>1. Result \in {"psync", "sync"}
    BY <1>8 DEF RecvCapa
  <2>2. <<Plain(Result)>> \in Seq(Message)
    BY <2>1, CastOne DEF Casts
  <2>3. where' \in Places /\ mb' \in Seq(Message) /\ armed' \in BOOLEAN
    BY <1>8, <2>2, ContinueType DEF RecvCapa, Received
  <2> QED BY <1>8, <2>1, <2>3, IdleMaster DEF RecvCapa, States, Modes, ghostVars, TypeOK, ServerTypeOK
<1> QED BY <1>1, <1>2, <1>3, <1>4, <1>5, <1>6, <1>7, <1>8

\* The server's steps: the synchronisation.
LEMMA LoadMessagesType ==
    ASSUME TypeOK, EofAt(file) \in 2 .. Len(file)
    PROVE  /\ [i \in 1 .. EofAt(file) - 2 |-> Msg("loading", <<file[i + 1]>>, i)] \in Seq(Message)
           /\ <<Msg("loading_eof", <<file[EofAt(file)]>>, 0)>> \in Seq(Message)
           /\ LoadMessages \in Seq(Message)
<1>1. \A i \in 1 .. Len(file) : file[i] \in Unit /\ <<file[i]>> \in Seq(Unit)
  BY DEF TypeOK, ServerTypeOK
<1> DEFINE size == EofAt(file) - 2
<1>2. size \in Nat /\ \A i \in 1 .. size : i + 1 \in 1 .. Len(file)
  BY DEF TypeOK, ServerTypeOK
<1>3. [i \in 1 .. size |-> Msg("loading", <<file[i + 1]>>, i)] \in Seq(Message)
  <2>1. ASSUME NEW i \in 1 .. size
        PROVE  Msg("loading", <<file[i + 1]>>, i) \in Message
    <3>1. <<file[i + 1]>> \in Seq(Unit) /\ i \in Nat
      BY <1>1, <1>2
    <3> QED BY <3>1, MakeMessage DEF OtherMsgs
  <2> HIDE DEF size
  <2> QED BY <1>2, <2>1
<1>4. Msg("loading_eof", <<file[EofAt(file)]>>, 0) \in Message
  <2>1. <<file[EofAt(file)]>> \in Seq(Unit)
    BY <1>1 DEF TypeOK, ServerTypeOK
  <2> QED BY <2>1, MakeMessage DEF OtherMsgs
<1>5. <<Msg("loading_eof", <<file[EofAt(file)]>>, 0)>> \in Seq(Message)
  BY <1>4, OneMessage
<1> QED BY <1>3, <1>5, JoinMessages DEF LoadMessages

LEMMA TypeSync ==
    ASSUME TypeOK,
           RecvContinue \/ RecvFullResync \/ RecvBulk \/ RecvFailed
           \/ SaveBuffering \/ SavePayload \/ LoadRdb \/ LoadFailed
           \/ InfoLoading \/ InfoLoadingEof
    PROVE  TypeOK'
<1>1. CASE RecvContinue
  <2>1. ChunkResult(Head(mb).data) = "continue"
    BY <1>1 DEF RecvContinue, Result, RecvResult
  <2>2. Tail(Head(mb).data) \in Seq(Unit)
    BY <1>1, <2>1, HeadParts, ChunkHead DEF RecvContinue, Received
  <2>3. Msg("tcp", Tail(Head(mb).data), 0) \in Message /\ Plain("replication") \in Message
    BY <2>2, MakeMessage, MakePlain DEF SocketMsgs, Casts
  <2>4. <<Msg("tcp", Tail(Head(mb).data), 0), Plain("replication")>> \in Seq(Message)
    BY <2>3
  <2>5. where' \in Places /\ mb' \in Seq(Message) /\ armed' \in BOOLEAN
    BY <1>1, <2>4, ContinueType DEF RecvContinue, Received
  <2> QED BY <1>1, <2>5, IdleMaster DEF RecvContinue, States, TypeOK, ServerTypeOK
<1>2. CASE RecvFullResync
  <2>1. <<Plain("psync")>> \in Seq(Message)
    BY CastOne DEF Casts
  <2>2. where' \in Places /\ mb' \in Seq(Message) /\ armed' \in BOOLEAN
    BY <1>2, <2>1, ContinueType DEF RecvFullResync, Received
  <2>3. ChunkResult(Head(mb).data) = "fullresync"
    BY <1>2 DEF RecvFullResync, Result, RecvResult
  <2>4. Head(mb).data[1] \in Unit
    BY <1>2, <2>3, HeadParts, ChunkHead DEF RecvFullResync, Received
  <2>5. runid' \in Nat /\ offset' \in Nat
    BY <1>2, <2>4 DEF RecvFullResync, Unit
  <2> QED BY <1>2, <2>2, <2>5, IdleMaster DEF RecvFullResync, States, ghostVars, TypeOK, ServerTypeOK
<1>3. CASE RecvBulk
  <2>1. \A num \in {0, 1} : <<Msg("save_rdb", Head(mb).data, num)>> \in Seq(Message)
    BY <1>3, HeadParts, MakeMessage, OneMessage DEF RecvBulk, Received, Casts
  <2>2. where' \in Places /\ mb' \in Seq(Message) /\ armed' \in BOOLEAN
    BY <1>3, <2>1, ContinueType DEF RecvBulk, Received
  <2> QED BY <1>3, <2>2, IdleMaster DEF RecvBulk, States, ghostVars, TypeOK, ServerTypeOK
<1>4. CASE RecvFailed
  BY <1>4, StopType DEF RecvFailed
<1>5. CASE SaveBuffering
  <2>1. file' \in Seq(Unit)
    BY <1>5, HeadParts, SaveType DEF SaveBuffering, Saved, Handles, TypeOK, ServerTypeOK
  <2> QED BY <1>5, <2>1, HeadParts, ActivatedType, IdleMaster
          DEF SaveBuffering, Handles, stateVars, ghostVars, Places, Receiving, TypeOK, ServerTypeOK
<1>6. CASE SavePayload
  <2>1. file' \in Seq(Unit)
    BY <1>6, HeadParts, SaveType DEF SavePayload, Saved, Handles, TypeOK, ServerTypeOK
  <2>2. <<Plain("load_rdb")>> \in Seq(Message)
    BY CastOne DEF Casts
  <2>3. where' \in Places /\ mb' \in Seq(Message) /\ armed' \in BOOLEAN
    BY <1>6, <2>2, ContinueType DEF SavePayload, Handles
  <2> QED BY <1>6, <2>1, <2>3, IdleMaster DEF SavePayload, stateVars, ghostVars, TypeOK, ServerTypeOK
<1>7. CASE LoadRdb
  <2>1. EofAt(file) \in 2 .. Len(file)
    BY <1>7 DEF LoadRdb, Loadable, EofAt
  <2>2. LoadMessages \in Seq(Message)
    BY <2>1, LoadMessagesType
  <2>3. LoadMessages \o <<Plain("replication")>> \in Seq(Message)
    BY <2>2, CastOne, JoinMessages DEF Casts
  <2>4. where' \in Places /\ mb' \in Seq(Message) /\ armed' \in BOOLEAN
    BY <1>7, <2>3, ContinueType DEF LoadRdb, Handles
  <2>5. file[1].r \in Nat
    <3>1. file[1] \in Unit
      BY <2>1 DEF TypeOK, ServerTypeOK
    <3> QED BY <3>1 DEF Unit
  <2>6. AfterEof(file) \in Seq(Unit)
    BY <2>1, PartType DEF AfterEof, TypeOK, ServerTypeOK
  <2>7. fed' \in Int
    BY <1>7, <2>5, <2>6 DEF LoadRdb
  <2> QED BY <1>7, <2>4, <2>7, IdleMaster DEF LoadRdb, States, TypeOK, ServerTypeOK
<1>8. CASE LoadFailed
  BY <1>8, StopType DEF LoadFailed
<1>9. CASE InfoLoading
  <2>1. where' \in Places /\ mb' \in Seq(Message) /\ armed' \in BOOLEAN
    BY <1>9, EmptySeqs, ContinueType DEF InfoLoading, Handles
  <2> QED BY <1>9, <2>1, IdleMaster DEF InfoLoading, stateVars, TypeOK, ServerTypeOK
<1>10. CASE InfoLoadingEof
  <2>1. where' \in Places /\ mb' \in Seq(Message) /\ armed' \in BOOLEAN
    BY <1>10, EmptySeqs, ContinueType DEF InfoLoadingEof, Handles
  <2> QED BY <1>10, <2>1, IdleMaster DEF InfoLoadingEof, stateVars, TypeOK, ServerTypeOK
<1> QED BY <1>1, <1>2, <1>3, <1>4, <1>5, <1>6, <1>7, <1>8, <1>9, <1>10

\* The server's steps: the stream.
StreamTypeOK ==
    /\ where \in Places
    /\ mb \in Seq(Message)
    /\ armed \in BOOLEAN
    /\ sock \in {"none", "passive", "active"}

LEMMA InfoTcpType ==
    ASSUME TypeOK, InfoTcp
    PROVE  MasterTypeOK' /\ StreamTypeOK'
<1>1. armed' \in BOOLEAN
  BY Zenon DEF InfoTcp
<1> QED BY <1>1, HeadParts, ActivatedType, IdleMaster
        DEF InfoTcp, Handles, Places, StreamTypeOK, TypeOK, ServerTypeOK

LEMMA TypeStream ==
    ASSUME TypeOK,
           CastReplication \/ InfoTcpQuiet \/ InfoTcpBuffer \/ InfoTcpCommands
           \/ InfoTcpFailed \/ InfoTimeout
    PROVE  TypeOK'
<1>1. CASE CastReplication
  <2>1. armed' \in BOOLEAN
    BY <1>1, Zenon DEF CastReplication
  <2> QED BY <1>1, <2>1, HeadParts, ActivatedType, IdleMaster
          DEF CastReplication, Handles, stateVars, ghostVars, Places, TypeOK, ServerTypeOK
<1>2. CASE InfoTcpQuiet
  <2>1. MasterTypeOK' /\ StreamTypeOK'
    BY <1>2, InfoTcpType DEF InfoTcpQuiet
  <2> QED BY <1>2, <2>1 DEF InfoTcpQuiet, InfoTcp, StreamTypeOK, TypeOK, ServerTypeOK
<1>3. CASE InfoTcpBuffer
  <2>1. MasterTypeOK' /\ StreamTypeOK'
    BY <1>3, InfoTcpType DEF InfoTcpBuffer
  <2>2. Joined \in Seq(Unit)
    BY <1>3, HeadParts DEF InfoTcpBuffer, InfoTcp, Handles, Joined, Data, TypeOK, ServerTypeOK
  <2> QED BY <1>3, <2>1, <2>2 DEF InfoTcpBuffer, InfoTcp, StreamTypeOK, TypeOK, ServerTypeOK
<1>4. CASE InfoTcpCommands
  <2>1. MasterTypeOK' /\ StreamTypeOK'
    BY <1>4, InfoTcpType DEF InfoTcpCommands
  <2>2. Joined \in Seq(Unit)
    BY <1>4, HeadParts DEF InfoTcpCommands, InfoTcp, Handles, Joined, Data, TypeOK, ServerTypeOK
  <2>3. LastCommand(Joined) \in Nat
    BY <1>4, <2>2, LastCommandType DEF InfoTcpCommands
  <2>4. fed' \in Int /\ offset' \in Int /\ buffer' \in Seq(Unit)
    BY <1>4, <2>2, <2>3, EmptySeqs DEF InfoTcpCommands, InfoTcp, CmdUnits, TypeOK, ServerTypeOK
  <2> QED BY <1>4, <2>1, <2>4 DEF InfoTcpCommands, InfoTcp, StreamTypeOK, TypeOK, ServerTypeOK
<1>5. CASE InfoTcpFailed
  BY <1>5, StopType DEF InfoTcpFailed
<1>6. CASE InfoTimeout
  BY <1>6, IdleMaster DEF InfoTimeout, procVars, stateVars, TypeOK, ServerTypeOK
<1> QED BY <1>1, <1>2, <1>3, <1>4, <1>5, <1>6

\* The server's steps: losing the master and coming back.
LEMMA RetryType ==
    ASSUME TypeOK, mb # <<>>, Retry
    PROVE  TypeOK'
<1>1. <<Plain("new_connection")>> \in Seq(Message)
  BY CastOne DEF Casts
<1>2. where' \in Places /\ mb' \in Seq(Message) /\ armed' \in BOOLEAN
  BY <1>1, ContinueType DEF Retry
<1>3. MasterTypeOK'
  BY HangupType DEF Retry, TypeOK, MasterTypeOK
<1> QED BY <1>2, <1>3 DEF Retry, States, ghostVars, TypeOK, ServerTypeOK

LEMMA TypeReconnect ==
    ASSUME TypeOK,
           InfoTcpClosed \/ InfoTcpError \/ Reconnect \/ ReconnectRefused
           \/ ReAuthOk \/ ReAuthThrows \/ RePong \/ ReconnectFailed
    PROVE  TypeOK'
<1>1. CASE InfoTcpClosed
  <2>1. <<Plain("new_connection")>> \in Seq(Message)
    BY CastOne DEF Casts
  <2>2. where' \in Places /\ mb' \in Seq(Message) /\ armed' \in BOOLEAN
    BY <1>1, <2>1, ContinueType DEF InfoTcpClosed, Handles
  <2>3. MasterTypeOK'
    BY <1>1, HangupType DEF InfoTcpClosed, TypeOK, MasterTypeOK
  <2> QED BY <1>1, <2>2, <2>3 DEF InfoTcpClosed, States, ghostVars, TypeOK, ServerTypeOK
<1>2. CASE InfoTcpError
  BY <1>2, StopType DEF InfoTcpError
<1>3. CASE Reconnect
  <2>1. FirstRequest \in Requests
    BY RequestType DEF FirstRequest
  <2>2. MasterTypeOK'
    BY <1>3, <2>1, OpenType DEF Reconnect, TypeOK
  <2> QED BY <1>3, <2>2, HeadParts
          DEF Reconnect, Handles, stateVars, ghostVars, Places, Receiving, TypeOK, ServerTypeOK
<1>4. CASE ReconnectRefused
  BY <1>4, RetryType DEF ReconnectRefused, Handles
<1>5. CASE ReAuthOk
  <2>1. MasterTypeOK'
    BY <1>5, RequestType, SendType DEF ReAuthOk, TypeOK
  <2> QED BY <1>5, <2>1, HeadParts, ActivatedType
          DEF ReAuthOk, Received, stateVars, ghostVars, Places, Receiving, TypeOK, ServerTypeOK
<1>6. CASE ReAuthThrows
  BY <1>6, RetryType DEF ReAuthThrows, Received
<1>7. CASE RePong
  <2>1. <<Plain("repl")>> \in Seq(Message)
    BY CastOne DEF Casts
  <2>2. where' \in Places /\ mb' \in Seq(Message) /\ armed' \in BOOLEAN
    BY <1>7, <2>1, ContinueType DEF RePong, Received
  <2> QED BY <1>7, <2>2, IdleMaster DEF RePong, States, TypeOK, ServerTypeOK
<1>8. CASE ReconnectFailed
  BY <1>8, StopType DEF ReconnectFailed
<1> QED BY <1>1, <1>2, <1>3, <1>4, <1>5, <1>6, <1>7, <1>8

\* The server's steps: stopping, disturbances and the socket driver.
LEMMA TypeWorld ==
    ASSUME TypeOK,
           CallShutdown \/ Generic \/ Disturb \/ Killed \/ DiskFailed
           \/ DeliverData \/ DeliverClosed \/ DeliverError
    PROVE  TypeOK'
<1>1. CASE CallShutdown
  BY <1>1, StopType DEF CallShutdown
<1>2. CASE Generic
  <2>1. where' \in Places /\ mb' \in Seq(Message) /\ armed' \in BOOLEAN
    BY <1>2, EmptySeqs, ContinueType DEF Generic
  <2> QED BY <1>2, <2>1, IdleMaster DEF Generic, stateVars, ghostVars, TypeOK, ServerTypeOK
<1>3. CASE Disturb
  <2>1. PICK type \in {"shutdown", "noise"} : Fault(type) /\ mb' = Append(mb, Plain(type))
    BY <1>3 DEF Disturb
  <2>2. mb' \in Seq(Message)
    BY <2>1, MakePlain DEF OtherMsgs, TypeOK, ServerTypeOK
  <2> QED BY <1>3, <2>1, <2>2
          DEF Disturb, Fault, stateVars, ghostVars, TypeOK, ServerTypeOK, MasterTypeOK
<1>4. CASE Killed
  BY <1>4, DieType DEF Killed, Fault, TypeOK, MasterTypeOK
<1>5. CASE DiskFailed
  BY <1>5, DieType DEF DiskFailed, Fault, TypeOK, MasterTypeOK
<1>6. CASE DeliverData
  <2>1. PICK size \in ChunkSizes :
          /\ net' = SubSeq(net, size + 1, Len(net))
          /\ Deliver(Msg("tcp", SubSeq(net, 1, size), 0))
    BY <1>6 DEF DeliverData
  <2>2. size \in 1 .. Len(net)
    BY BufferAssumption DEF ChunkSizes, TypeOK, MasterTypeOK
  <2>3. SubSeq(net, 1, size) \in Seq(Unit) /\ net' \in Seq(Unit)
    BY <2>1, <2>2, PartType DEF TypeOK, MasterTypeOK
  <2>4. Msg("tcp", SubSeq(net, 1, size), 0) \in Message
    BY <2>3, MakeMessage DEF SocketMsgs
  <2>5. mb' \in Seq(Message)
    BY <2>1, <2>4 DEF Deliver, TypeOK, ServerTypeOK
  <2> QED BY <1>6, <2>1, <2>3, <2>5
          DEF DeliverData, Deliver, stateVars, ghostVars, TypeOK, ServerTypeOK, MasterTypeOK
<1>7. CASE DeliverClosed
  <2>1. mb' \in Seq(Message)
    BY <1>7, MakePlain DEF DeliverClosed, Deliver, SocketMsgs, TypeOK, ServerTypeOK
  <2> QED BY <1>7, <2>1, IdleMaster
          DEF DeliverClosed, Deliver, stateVars, ghostVars, TypeOK, ServerTypeOK
<1>8. CASE DeliverError
  <2>1. mb' \in Seq(Message)
    BY <1>8, MakePlain DEF DeliverError, Deliver, SocketMsgs, TypeOK, ServerTypeOK
  <2> QED BY <1>8, <2>1
          DEF DeliverError, Deliver, Fault, stateVars, ghostVars, TypeOK, ServerTypeOK, MasterTypeOK
<1> QED BY <1>1, <1>2, <1>3, <1>4, <1>5, <1>6, <1>7, <1>8

LEMMA TypeNext == TypeOK /\ [Next]_vars => TypeOK'
<1>1. ASSUME TypeOK, Next PROVE TypeOK'
  <2>1. CASE Start \/ Handler
    BY <1>1, <2>1, TypeBoot, TypeHandshake, TypeSync, TypeStream, TypeReconnect, TypeWorld
       DEF Handler
  <2>2. CASE InfoTimeout \/ DeliverData \/ DeliverClosed
    BY <1>1, <2>2, TypeStream, TypeWorld
  <2>3. CASE Master
    BY <1>1, <2>3, TypeMaster DEF Master
  <2>4. CASE World
    BY <1>1, <2>4, TypeMaster, TypeWorld DEF World
  <2> QED BY <1>1, <2>1, <2>2, <2>3, <2>4 DEF Next
<1>2. TypeOK /\ UNCHANGED vars => TypeOK'
  BY IdleMaster DEF vars, serverVars, procVars, stateVars, ghostVars, TypeOK, ServerTypeOK
<1> QED BY <1>1, <1>2

\* Every variable of the server, of the master and of the connection keeps its type:
\* no cast, message, offset or file the code produces falls outside those its
\* clauses were written for.
THEOREM TypeCorrect == Spec => []TypeOK
BY TypeInit, TypeNext, PTL DEF Spec

-----------------------------------------------------------------------------
(* Mailboxes: which types of messages are in them.                          *)

LEMMA TailMessages ==
    ASSUME NEW box \in Seq(Message), box # <<>>
    PROVE  /\ Head(box) = box[1]
           /\ 1 \in DOMAIN box
           /\ \A i \in DOMAIN Tail(box) : i + 1 \in DOMAIN box /\ Tail(box)[i] = box[i + 1]
           /\ \A i \in DOMAIN box : i = 1 \/ (i - 1 \in DOMAIN Tail(box) /\ Tail(box)[i - 1] = box[i])
BY SMT

LEMMA TailNone ==
    ASSUME NEW box \in Seq(Message), box # <<>>, NEW T, NoneOf(box, T)
    PROVE  NoneOf(Tail(box), T) /\ Head(box).t \notin T
BY TailMessages DEF NoneOf

LEMMA TailOfOnly ==
    ASSUME NEW box \in Seq(Message), box # <<>>, NEW T,
           AtMostOne(box, T), Head(box).t \in T
    PROVE  NoneOf(Tail(box), T)
<1>1. ASSUME NEW i \in DOMAIN Tail(box), Tail(box)[i].t \in T PROVE FALSE
  <2>1. i + 1 \in DOMAIN box /\ box[i + 1].t \in T /\ 1 \in DOMAIN box /\ box[1].t \in T
    BY <1>1, TailMessages
  <2>2. i + 1 = 1
    BY <2>1 DEF AtMostOne
  <2> QED BY <2>2
<1> QED BY <1>1 DEF NoneOf

LEMMA TailAtMost ==
    ASSUME NEW box \in Seq(Message), box # <<>>, NEW T, AtMostOne(box, T)
    PROVE  AtMostOne(Tail(box), T)
<1> SUFFICES ASSUME NEW i \in DOMAIN Tail(box), NEW j \in DOMAIN Tail(box),
                    Tail(box)[i].t \in T, Tail(box)[j].t \in T
             PROVE  i = j
  BY DEF AtMostOne
<1>1. i + 1 = j + 1
  BY TailMessages DEF AtMostOne
<1>2. i \in Int /\ j \in Int
  BY TakeMessage
<1> QED BY <1>1, <1>2

LEMMA TailSome ==
    ASSUME NEW box \in Seq(Message), box # <<>>, NEW T,
           ~NoneOf(box, T), Head(box).t \notin T
    PROVE  ~NoneOf(Tail(box), T)
BY TailMessages DEF NoneOf

\* Adding messages at the end.
LEMMA ConcatMessages ==
    ASSUME NEW s \in Seq(Message), NEW t \in Seq(Message)
    PROVE  /\ \A i \in DOMAIN s : i \in DOMAIN (s \o t) /\ (s \o t)[i] = s[i]
           /\ \A i \in DOMAIN (s \o t) :
                 \/ i \in DOMAIN s
                 \/ i - Len(s) \in DOMAIN t /\ (s \o t)[i] = t[i - Len(s)]
BY SMT

LEMMA ConcatNone ==
    ASSUME NEW s \in Seq(Message), NEW t \in Seq(Message), NEW T,
           NoneOf(s, T), NoneOf(t, T)
    PROVE  NoneOf(s \o t, T)
BY ConcatMessages DEF NoneOf

LEMMA AddOne ==
    ASSUME NEW s \in Seq(Message), NEW m \in Message
    PROVE  /\ s \o <<m>> = Append(s, m)
           /\ Len(s) + 1 \in DOMAIN Append(s, m)
           /\ Append(s, m)[Len(s) + 1] = m
           /\ \A i \in DOMAIN s : i \in DOMAIN Append(s, m) /\ Append(s, m)[i] = s[i]
           /\ \A i \in DOMAIN Append(s, m) :
                 (i \in DOMAIN s /\ i <= Len(s)) \/ i = Len(s) + 1
BY SMT

LEMMA AddOther ==
    ASSUME NEW s \in Seq(Message), NEW m \in Message, NEW T, m.t \notin T
    PROVE  /\ NoneOf(s, T) => NoneOf(Append(s, m), T)
           /\ AtMostOne(s, T) => AtMostOne(Append(s, m), T)
BY AddOne DEF NoneOf, AtMostOne

LEMMA AddFirst ==
    ASSUME NEW s \in Seq(Message), NEW m \in Message, NEW T, NoneOf(s, T)
    PROVE  /\ AtMostOne(Append(s, m), T)
           /\ m.t \in T => ~NoneOf(Append(s, m), T)
           /\ \A i \in DOMAIN Append(s, m) : Append(s, m)[i].t \in T => Append(s, m)[i] = m
BY AddOne DEF NoneOf, AtMostOne

-----------------------------------------------------------------------------
(* What the pieces of handlers do to SocketOK and NeverWedged.              *)

MailOK == SocketOK /\ NeverWedged

\* A mailbox with neither a socket message nor a cast, outside the loop.
LEMMA QuietMail ==
    ASSUME where' # "idle", NoneOf(mb', SocketMsgs), NoneOf(mb', Casts),
           where' \in {"down", "boot"} => sock' # "active"
    PROVE  MailOK'
<1>1. \A T : NoneOf(mb', T) => AtMostOne(mb', T)
  BY DEF NoneOf, AtMostOne
<1>2. SocketOK'
  BY <1>1, Zenon DEF SocketOK
<1>3. NeverWedged'
  BY <1>1, Zenon DEF NeverWedged
<1> QED BY <1>2, <1>3 DEF MailOK

\* The server goes back to its loop with a cast to itself that it will handle.
LEMMA ContinueCast ==
    ASSUME TypeOK, mb # <<>>, NEW m \in Message, m.t \in Casts,
           NoneOf(Tail(mb), SocketMsgs), NoneOf(Tail(mb), Casts),
           Continue(<<m>>), sock' # "active", Expected(m)'
    PROVE  MailOK'
<1>1. mb' = Append(Tail(mb), m) /\ Tail(mb) \in Seq(Message) /\ where' = "idle"
  BY AddOne, HeadParts DEF Continue
<1>2. m.t \notin SocketMsgs /\ m.t \notin Closings
  BY DEF SocketMsgs, Casts, Closings
<1>3. NoneOf(mb', SocketMsgs)
  BY <1>1, <1>2, AddOther
<1>4. \A i \in DOMAIN mb' : mb'[i].t \notin Closings
  BY <1>3 DEF NoneOf, SocketMsgs, Closings
<1>5. SocketOK'
  BY <1>1, <1>3, <1>4 DEF SocketOK, Receiving
<1>6. /\ AtMostOne(mb', Casts)
      /\ ~NoneOf(mb', Casts)
      /\ \A i \in DOMAIN mb' : mb'[i].t \in Casts => mb'[i] = m
  BY <1>1, AddFirst
<1>7. NeverWedged'
  BY <1>1, <1>6 DEF NeverWedged
<1> QED BY <1>5, <1>7 DEF MailOK

\* The server drops or handles a message and adds none.
LEMMA TakeOne ==
    ASSUME TypeOK, MailOK, mb # <<>>, where = "idle", where' = "idle", mb' = Tail(mb),
           state' = state, mode' = mode,
           Head(mb).t \notin Casts \/ state = "stream",
           sock' = sock \/ (state = "stream" /\ (sock = "none" => sock' = "none"))
    PROVE  MailOK'
<1>1. mb \in Seq(Message)
  BY DEF TypeOK, ServerTypeOK
<1>2. \A i \in DOMAIN mb' : i + 1 \in DOMAIN mb /\ mb'[i] = mb[i + 1] /\ i \in Int
  BY <1>1, TailMessages, TakeMessage
<1>3. SocketOK'
  <2>1. CASE state = "stream"
    <3>1. ASSUME NEW i \in DOMAIN mb', mb'[i].t \in Closings
          PROVE  /\ sock' = "none"
                 /\ \A j \in DOMAIN mb' : j > i => mb'[j].t \notin SocketMsgs \cup Casts
      <4>1. i + 1 \in DOMAIN mb /\ mb[i + 1].t \in Closings
        BY <3>1, <1>2
      <4>2. /\ sock = "none"
            /\ \A j \in DOMAIN mb : j > i + 1 => mb[j].t \notin SocketMsgs \cup Casts
        BY <4>1, <2>1 DEF MailOK, SocketOK
      <4>3. ASSUME NEW j \in DOMAIN mb', j > i
            PROVE  mb'[j].t \notin SocketMsgs \cup Casts
        <5>1. j + 1 \in DOMAIN mb /\ mb'[j] = mb[j + 1] /\ j + 1 > i + 1
          BY <4>3, <1>2
        <5> QED BY <5>1, <4>2
      <4> QED BY <4>2, <4>3
    <3> QED BY <3>1, <2>1 DEF SocketOK, Receiving
  <2>2. CASE state # "stream"
    <3>1. sock # "active" /\ NoneOf(mb, SocketMsgs)
      BY <2>2 DEF MailOK, SocketOK
    <3>2. NoneOf(mb', SocketMsgs)
      BY <3>1, <1>1, TailNone
    <3> QED BY <2>2, <3>1, <3>2 DEF SocketOK, Receiving
  <2> QED BY <2>1, <2>2
<1>4. AtMostOne(mb', Casts)
  BY <1>1, TailAtMost DEF MailOK, NeverWedged
<1>5. state' # "stream" => ~NoneOf(mb', Casts)
  BY <1>1, TailSome DEF MailOK, NeverWedged
<1>6. ASSUME NEW i \in DOMAIN mb', mb'[i].t \in Casts
      PROVE  Expected(mb[i])'
  <2>1. Expected(mb[i + 1])
    BY <1>6, <1>2 DEF MailOK, NeverWedged
  <2> QED BY <2>1, <1>2 DEF Expected, ExpectedCast, ExpectedInfo
<1>7. NeverWedged'
  BY <1>4, <1>5, <1>6 DEF NeverWedged
<1> QED BY <1>3, <1>7 DEF MailOK

\* Something from outside, which is no cast, is added to the mailbox.
LEMMA AddFromOutside ==
    ASSUME TypeOK, MailOK, NEW m \in Message, m.t \notin Casts,
           mb' = Append(mb, m), where' = where, state' = state, mode' = mode,
           \/ m.t \notin SocketMsgs /\ sock' = sock
           \/ /\ where \notin {"down", "boot"}
              /\ sock = "active" /\ sock' # "active"
              /\ m.t \in Closings => sock' = "none"
    PROVE  MailOK'
<1>1. mb \in Seq(Message)
  BY DEF TypeOK, ServerTypeOK
<1>2. /\ Len(mb) + 1 \in DOMAIN mb' /\ mb'[Len(mb) + 1] = m
      /\ \A i \in DOMAIN mb : i \in DOMAIN mb' /\ mb'[i] = mb[i]
      /\ \A i \in DOMAIN mb' : (i \in DOMAIN mb /\ i <= Len(mb)) \/ i = Len(mb) + 1
      /\ Len(mb) \in Nat
  BY <1>1, AddOne
<1>3. SocketOK'
  <2>1. CASE m.t \notin SocketMsgs /\ sock' = sock
    <3>1. /\ NoneOf(mb, SocketMsgs) => NoneOf(mb', SocketMsgs)
          /\ AtMostOne(mb, SocketMsgs) => AtMostOne(mb', SocketMsgs)
      BY <1>1, <2>1, AddOther
    <3>2. ASSUME where = "idle", state = "stream",
                 NEW i \in DOMAIN mb', mb'[i].t \in Closings
          PROVE  /\ sock' = "none"
                 /\ \A j \in DOMAIN mb' : j > i => mb'[j].t \notin SocketMsgs \cup Casts
      <4>1. i \in DOMAIN mb /\ mb[i].t \in Closings
        BY <3>2, <1>2, <2>1 DEF Closings, SocketMsgs
      <4>2. /\ sock = "none"
            /\ \A j \in DOMAIN mb : j > i => mb[j].t \notin SocketMsgs \cup Casts
        BY <4>1, <3>2 DEF MailOK, SocketOK
      <4> QED BY <4>2, <1>2, <2>1
    <3>3. where' \in {"down", "boot"} \/ (where' = "idle" /\ state' # "stream") =>
              sock' # "active" /\ NoneOf(mb', SocketMsgs)
      BY <3>1, <2>1 DEF MailOK, SocketOK
    <3>4. where' \in Receiving =>
              /\ sock' = "active" => NoneOf(mb', SocketMsgs)
              /\ AtMostOne(mb', SocketMsgs)
      BY <3>1, <2>1 DEF MailOK, SocketOK
    <3> QED BY <3>2, <3>3, <3>4 DEF SocketOK
  <2>2. CASE /\ where \notin {"down", "boot"}
             /\ sock = "active" /\ sock' # "active"
             /\ m.t \in Closings => sock' = "none"
    <3>1. where \in Receiving => AtMostOne(mb', SocketMsgs)
      BY <1>1, <2>2, AddFirst DEF MailOK, SocketOK
    <3>2. ASSUME where = "idle", state = "stream",
                 NEW i \in DOMAIN mb', mb'[i].t \in Closings
          PROVE  /\ sock' = "none"
                 /\ \A j \in DOMAIN mb' : j > i => mb'[j].t \notin SocketMsgs \cup Casts
      <4>1. i = Len(mb) + 1
        BY <3>2, <1>2, <2>2 DEF MailOK, SocketOK
      <4> QED BY <3>2, <4>1, <1>2, <2>2
    <3>3. ~(where' \in {"down", "boot"} \/ (where' = "idle" /\ state' # "stream"))
      BY <2>2 DEF MailOK, SocketOK
    <3> QED BY <3>1, <3>2, <3>3, <2>2 DEF SocketOK
  <2> QED BY <2>1, <2>2
<1>4. /\ NoneOf(mb, Casts) => NoneOf(mb', Casts)
      /\ AtMostOne(mb', Casts)
  BY <1>1, AddOther DEF MailOK, NeverWedged
<1>5. ~NoneOf(mb, Casts) => ~NoneOf(mb', Casts)
  BY <1>2 DEF NoneOf
<1>6. ASSUME where = "idle", NEW i \in DOMAIN mb', mb'[i].t \in Casts
      PROVE  Expected(mb[i])'
  <2>1. i \in DOMAIN mb /\ mb'[i] = mb[i]
    BY <1>6, <1>2
  <2>2. Expected(mb[i])
    BY <2>1, <1>6 DEF MailOK, NeverWedged
  <2> QED BY <2>1, <2>2 DEF Expected, ExpectedCast, ExpectedInfo
<1>7. NeverWedged'
  BY <1>4, <1>5, <1>6 DEF MailOK, NeverWedged
<1> QED BY <1>3, <1>7 DEF MailOK

-----------------------------------------------------------------------------
(* The inductive invariant, one step per action.                            *)

Inv == TypeOK /\ PlaceOK /\ MailOK

\* The end of the process, from anywhere.
LEMMA DieInv ==
    ASSUME Die
    PROVE  PlaceOK' /\ MailOK'
<1>1. where' = "down" /\ mb' = <<>> /\ sock' = "none" /\ state' = "undefined"
  BY DEF Die
<1>2. \A T : NoneOf(mb', T)
  BY <1>1 DEF NoneOf
<1>3. PlaceOK'
  BY <1>1 DEF PlaceOK
<1> QED BY <1>1, <1>2, <1>3, QuietMail

LEMMA StopInv ==
    ASSUME Stop
    PROVE  PlaceOK' /\ MailOK'
BY DieInv DEF Stop

\* What is left behind the message that recv_sock/1 accepts or the loop handles.
LEMMA AfterReply ==
    ASSUME Inv, where \in Receiving, mb # <<>>, Result # "error"
    PROVE  /\ NoneOf(Tail(mb), SocketMsgs) /\ NoneOf(Tail(mb), Casts)
           /\ sock # "active"
<1>1. mb \in Seq(Message)
  BY DEF Inv, TypeOK, ServerTypeOK
<1>2. Head(mb).t = "tcp"
  BY DEF Result, RecvResult
<1>3. Head(mb).t \in SocketMsgs
  BY <1>2 DEF SocketMsgs
<1>4. AtMostOne(mb, SocketMsgs) /\ (sock = "active" => NoneOf(mb, SocketMsgs))
  BY DEF Inv, MailOK, SocketOK
<1>5. where # "idle" /\ NoneOf(mb, Casts)
  BY DEF Inv, MailOK, NeverWedged, Receiving
<1>6. NoneOf(Tail(mb), SocketMsgs)
  BY <1>1, <1>3, <1>4, TailOfOnly
<1>7. NoneOf(Tail(mb), Casts)
  BY <1>1, <1>5, TailNone
<1>8. ~NoneOf(mb, SocketMsgs)
  BY <1>1, <1>3, TailNone
<1> QED BY <1>4, <1>6, <1>7, <1>8

LEMMA AfterCast ==
    ASSUME Inv, where = "idle", mb # <<>>, Head(mb).t \in Casts
    PROVE  /\ NoneOf(Tail(mb), Casts)
           /\ state # "stream" => NoneOf(Tail(mb), SocketMsgs) /\ sock # "active"
           /\ Expected(Head(mb))
<1>1. mb \in Seq(Message)
  BY DEF Inv, TypeOK, ServerTypeOK
<1>2. NoneOf(Tail(mb), Casts)
  BY <1>1, TailOfOnly DEF Inv, MailOK, NeverWedged
<1>3. state # "stream" => NoneOf(mb, SocketMsgs) /\ sock # "active"
  BY DEF Inv, MailOK, SocketOK
<1>4. Expected(Head(mb))
  BY <1>1, TailMessages DEF Inv, MailOK, NeverWedged
<1> QED BY <1>1, <1>2, <1>3, <1>4, TailNone

\* A request to the master, or a wait for its next data.
LEMMA WaitInv ==
    ASSUME Inv, where = "idle", mb # <<>>, Head(mb).t \in Casts, state # "stream",
           where' \in Receiving, mb' = Tail(mb)
    PROVE  MailOK'
<1>1. where' # "idle" /\ where' \notin {"down", "boot"}
  BY DEF Receiving
<1> QED BY <1>1, AfterCast, QuietMail

LEMMA AskInv ==
    ASSUME Inv, where = "idle", mb # <<>>, Head(mb).t \in Casts,
           state \in {"list", "eof", "load", "reconnect2"},
           NEW request, AskOrFail(request)
    PROVE  PlaceOK' /\ MailOK'
<1>1. CASE Ask(request)
  <2>1. where' = "reply" /\ mb' = Tail(mb) /\ state' = state /\ mode' = mode
    BY <1>1 DEF Ask, stateVars
  <2>2. MailOK'
    BY <2>1, WaitInv DEF Receiving
  <2>3. PlaceOK'
    BY <2>1 DEF PlaceOK, Inv
  <2> QED BY <2>2, <2>3
<1>2. CASE Stop
  BY <1>2, StopInv
<1> QED BY <1>1, <1>2 DEF AskOrFail

LEMMA PlainMessage ==
    ASSUME NEW type \in Casts
    PROVE  Plain(type) \in Message /\ Plain(type).t = type
BY MakePlain DEF Plain, Msg

\* Starting.
LEMMA InvBoot ==
    ASSUME Inv,
           Start \/ Boot \/ BootRefused \/ BootAuthOk \/ BootPong \/ BootLoading \/ BootFailed
    PROVE  PlaceOK' /\ MailOK'
<1>1. CASE Start
  <2>1. where = "down" /\ where' = "boot" /\ mb' = mb /\ sock' = sock /\ state' = state /\ mode' = mode
    BY <1>1 DEF Start, stateVars
  <2>2. mb = <<>> /\ sock # "active"
    BY <2>1 DEF Inv, PlaceOK, MailOK, SocketOK
  <2>3. \A T : NoneOf(mb', T)
    BY <2>1, <2>2 DEF NoneOf
  <2>4. PlaceOK'
    BY <2>1 DEF PlaceOK, Inv
  <2> QED BY <2>1, <2>2, <2>3, <2>4, QuietMail
<1>2. CASE Boot
  <2>1. /\ where = "boot" /\ mb' = mb /\ state' = state /\ mode' = mode
        /\ where' = "bootPing" \/ (where' = "bootAuth" /\ UseAuth)
    BY <1>2 DEF Boot, stateVars
  <2>2. NoneOf(mb', SocketMsgs) /\ NoneOf(mb', Casts)
    BY <2>1 DEF Inv, MailOK, SocketOK, NeverWedged
  <2>3. PlaceOK'
    BY <2>1 DEF PlaceOK, Inv
  <2> QED BY <2>1, <2>2, <2>3, QuietMail
<1>3. CASE BootRefused
  BY <1>3, StopInv DEF BootRefused
<1>4. CASE BootAuthOk
  <2>1. /\ where = "bootAuth" /\ mb # <<>> /\ Result # "error"
        /\ where' = "bootPing" /\ mb' = Tail(mb) /\ state' = state /\ mode' = mode
    BY <1>4 DEF BootAuthOk, Received, Authenticated, stateVars
  <2>2. NoneOf(mb', SocketMsgs) /\ NoneOf(mb', Casts)
    BY <2>1, AfterReply DEF Receiving
  <2>3. PlaceOK'
    BY <2>1 DEF PlaceOK, Inv
  <2> QED BY <2>1, <2>2, <2>3, QuietMail
<1>5. CASE BootPong
  <2>1. where = "bootPing" /\ mb # <<>> /\ Result = "pong" /\ Continue(<<Plain("repl")>>)
        /\ state' = "list" /\ sock' = sock /\ where' = "idle"
    BY <1>5 DEF BootPong, Received, Continue
  <2>2. /\ NoneOf(Tail(mb), SocketMsgs) /\ NoneOf(Tail(mb), Casts)
        /\ sock # "active"
    BY <2>1, AfterReply DEF Receiving
  <2>3. Plain("repl") \in Message /\ Plain("repl").t = "repl"
    BY PlainMessage DEF Casts
  <2>4. Expected(Plain("repl"))'
    BY <2>1, <2>3 DEF Expected, ExpectedCast, ExpectedInfo, Plain, Msg
  <2>5. MailOK'
    BY <2>1, <2>2, <2>3, <2>4, ContinueCast DEF Inv, Casts
  <2>6. PlaceOK'
    BY <2>1 DEF PlaceOK
  <2> QED BY <2>5, <2>6
<1>6. CASE BootLoading
  <2>1. where = "bootPing" /\ mb # <<>> /\ Result = "loading"
        /\ where' = "boot" /\ mb' = Tail(mb) /\ sock' = sock /\ state' = state /\ mode' = mode
    BY <1>6 DEF BootLoading, Received, stateVars
  <2>2. /\ NoneOf(Tail(mb), SocketMsgs) /\ NoneOf(Tail(mb), Casts)
        /\ sock # "active"
    BY <2>1, AfterReply DEF Receiving
  <2>3. PlaceOK'
    BY <2>1 DEF PlaceOK, Inv
  <2> QED BY <2>1, <2>2, <2>3, QuietMail
<1>7. CASE BootFailed
  BY <1>7, StopInv DEF BootFailed
<1> QED BY <1>1, <1>2, <1>3, <1>4, <1>5, <1>6, <1>7

\* A step of the protocol that goes on with a cast, from the loop or from a reply.
LEMMA NextCast ==
    ASSUME Inv, mb # <<>>,
           \/ where = "idle" /\ Head(mb).t \in Casts /\ state # "stream"
           \/ where \in Receiving /\ Result # "error",
           NEW m \in Message, m.t \in Casts, Continue(<<m>>),
           sock' = sock \/ sock' = "none",
           Expected(m)', state' \notin {"undefined", "list", "eof"} => mode' # "undefined",
           state' # "undefined"
    PROVE  PlaceOK' /\ MailOK'
<1>1. where' = "idle"
  BY DEF Continue
<1>2. /\ NoneOf(Tail(mb), SocketMsgs) /\ NoneOf(Tail(mb), Casts)
      /\ sock # "active"
  BY AfterReply, AfterCast
<1>3. MailOK'
  BY <1>2, ContinueCast DEF Inv
<1>4. PlaceOK'
  BY <1>1 DEF PlaceOK
<1> QED BY <1>3, <1>4

\* The handshake.
LEMMA InvHandshake ==
    ASSUME Inv,
           CastRepl \/ CastCapa \/ CastPsync \/ CastSync \/ CastPsyncPayload \/ CastRst
           \/ RecvPort \/ RecvCapa
    PROVE  PlaceOK' /\ MailOK'
<1>1. CASE CastRepl
  BY <1>1, AskInv DEF CastRepl, Handles, Casts
<1>2. CASE CastCapa
  BY <1>2, AskInv DEF CastCapa, Handles, Casts
<1>3. CASE CastPsync
  BY <1>3, AskInv DEF CastPsync, Handles, Casts
<1>4. CASE CastSync
  BY <1>4, AskInv DEF CastSync, Handles, Casts
<1>5. CASE CastPsyncPayload
  <2>1. CASE mode = "psync"
    <3>1. /\ where = "idle" /\ mb # <<>> /\ Head(mb).t \in Casts /\ state = "payload"
          /\ where' = "reply" /\ mb' = Tail(mb) /\ state' = state /\ mode' = mode
      BY <1>5, <2>1 DEF CastPsyncPayload, Handles, Casts, stateVars
    <3>2. MailOK'
      BY <3>1, WaitInv DEF Receiving
    <3>3. PlaceOK'
      BY <3>1 DEF PlaceOK, Inv
    <3> QED BY <3>2, <3>3
  <2>2. CASE mode # "psync"
    BY <1>5, <2>2, StopInv DEF CastPsyncPayload
  <2> QED BY <2>1, <2>2
<1>6. CASE CastRst
  <2>1. /\ where = "idle" /\ mb # <<>> /\ Head(mb).t \in Casts /\ state = "reconnect3"
        /\ Continue(<<Plain(mode)>>) /\ state' = "load" /\ mode' = mode /\ sock' = sock
    BY <1>6 DEF CastRst, Handles, Casts
  <2>2. mode \in {"psync", "sync"}
    BY <2>1 DEF Inv, PlaceOK, TypeOK, ServerTypeOK, Modes
  <2>3. Plain(mode) \in Message /\ Plain(mode).t = mode /\ mode \in Casts
    BY <2>2, PlainMessage DEF Casts
  <2>4. \A m : m.t \in {"psync", "sync"} => Expected(m)'
    BY <2>1 DEF Expected, ExpectedCast, ExpectedInfo
  <2> QED BY <2>1, <2>2, <2>3, <2>4, NextCast
<1>7. CASE RecvPort
  <2>1. where = "reply" /\ mb # <<>> /\ Result # "error" /\ sock' = sock /\ mode' = mode
        /\ state \in {"list", "reconnect2"}
    BY <1>7 DEF RecvPort, Received
  <2>2. CASE state = "list" /\ state' = "eof" /\ Continue(<<Plain("capa")>>)
    <3>1. Plain("capa") \in Message /\ Plain("capa").t = "capa"
      BY PlainMessage DEF Casts
    <3>2. Expected(Plain("capa"))'
      BY <2>2, <3>1 DEF Expected, ExpectedCast, ExpectedInfo, Plain, Msg
    <3> QED BY <2>1, <2>2, <3>1, <3>2, NextCast DEF Receiving, Casts
  <2>3. CASE state = "reconnect2" /\ state' = "reconnect3" /\ Continue(<<Plain("rst")>>)
    <3>1. Plain("rst") \in Message /\ Plain("rst").t = "rst"
      BY PlainMessage DEF Casts
    <3>2. Expected(Plain("rst"))'
      BY <2>3, <3>1 DEF Expected, ExpectedCast, ExpectedInfo, Plain, Msg
    <3>3. mode # "undefined"
      BY <2>3 DEF Inv, PlaceOK
    <3> QED BY <2>1, <2>3, <3>1, <3>2, <3>3, NextCast DEF Receiving, Casts
  <2> QED BY <1>7, <2>2, <2>3 DEF RecvPort
<1>8. CASE RecvCapa
  <2>1. /\ where = "reply" /\ mb # <<>> /\ Result \in {"psync", "sync"} /\ sock' = sock
        /\ Continue(<<Plain(Result)>>) /\ state' = "load" /\ mode' = Result
    BY <1>8 DEF RecvCapa, Received
  <2>2. Plain(Result) \in Message /\ Plain(Result).t = Result /\ Result \in Casts
    BY <2>1, PlainMessage DEF Casts
  <2>3. \A m : m.t \in {"psync", "sync"} => Expected(m)'
    BY <2>1 DEF Expected, ExpectedCast, ExpectedInfo
  <2> QED BY <2>1, <2>2, <2>3, NextCast DEF Receiving
<1> QED BY <1>1, <1>2, <1>3, <1>4, <1>5, <1>6, <1>7, <1>8

\* A message that is no cast is handled, and nothing else changes.
LEMMA DropInv ==
    ASSUME Inv, where = "idle", mb # <<>>, Head(mb).t \notin Casts, Continue(<<>>),
           sock' = sock, state' = state, mode' = mode
    PROVE  PlaceOK' /\ MailOK'
<1>1. where' = "idle" /\ mb' = Tail(mb)
  <2>1. Tail(mb) \in Seq(Message)
    BY HeadParts DEF Inv
  <2>2. Tail(mb) \o <<>> = Tail(mb)
    BY <2>1
  <2> QED BY <2>2 DEF Continue
<1>2. MailOK'
  BY <1>1, TakeOne DEF Inv
<1>3. PlaceOK'
  BY <1>1 DEF PlaceOK, Inv
<1> QED BY <1>2, <1>3

\* Nothing of the server changes.
LEMMA SameMail ==
    ASSUME Inv, where' = where, mb' = mb, sock' = sock, state' = state, mode' = mode
    PROVE  PlaceOK' /\ MailOK'
<1>1. PlaceOK'
  BY DEF PlaceOK, Inv
<1>2. SocketOK'
  BY DEF SocketOK, MailOK, Inv
<1>3. NeverWedged'
  BY DEF NeverWedged, Expected, ExpectedCast, ExpectedInfo, MailOK, Inv
<1> QED BY <1>1, <1>2, <1>3 DEF MailOK

\* A message arrives, from another process or from the socket.
LEMMA AddedInv ==
    ASSUME Inv, NEW m \in Message, m.t \notin Casts, m.t \notin SocketMsgs,
           mb' = Append(mb, m), where # "down", where' = where, sock' = sock,
           state' = state, mode' = mode
    PROVE  PlaceOK' /\ MailOK'
<1>1. MailOK'
  BY AddFromOutside DEF Inv
<1>2. PlaceOK'
  BY DEF PlaceOK, Inv
<1> QED BY <1>1, <1>2

LEMMA DeliveredInv ==
    ASSUME Inv, NEW m \in Message, m.t \notin Casts,
           mb' = Append(mb, m), where' = where, state' = state, mode' = mode,
           sock = "active", sock' # "active", m.t \in Closings => sock' = "none"
    PROVE  PlaceOK' /\ MailOK'
<1>1. where \notin {"down", "boot"}
  BY DEF Inv, MailOK, SocketOK
<1>2. MailOK'
  BY <1>1, AddFromOutside DEF Inv
<1>3. PlaceOK'
  BY <1>1 DEF PlaceOK, Inv
<1> QED BY <1>2, <1>3

\* The synchronisation.
LEMMA LoadMessagesTypes ==
    ASSUME TypeOK, EofAt(file) \in 2 .. Len(file)
    PROVE  \A i \in DOMAIN LoadMessages : LoadMessages[i].t \in {"loading", "loading_eof"}
<1> DEFINE size == EofAt(file) - 2
           keys == [i \in 1 .. size |-> Msg("loading", <<file[i + 1]>>, i)]
           eof  == <<Msg("loading_eof", <<file[EofAt(file)]>>, 0)>>
<1>1. keys \in Seq(Message) /\ eof \in Seq(Message) /\ LoadMessages = keys \o eof
  BY LoadMessagesType DEF LoadMessages
<1>2. size \in Nat
  BY DEF TypeOK, ServerTypeOK
<1>3. \A i \in DOMAIN keys : keys[i].t = "loading"
  BY DEF Msg
<1>4. Len(eof) = 1 /\ eof[1].t = "loading_eof"
  BY DEF Msg
<1>5. DOMAIN keys = 1 .. size /\ Len(keys) = size
  BY <1>2
<1>6. \A i \in DOMAIN (keys \o eof) : (keys \o eof)[i].t \in {"loading", "loading_eof"}
  <2> HIDE DEF size, keys, eof
  <2>0. DOMAIN (keys \o eof) = 1 .. size + 1
    <3>1. keys \o eof \in Seq(Message)
      BY <1>1, JoinMessages
    <3>2. Len(keys \o eof) = Len(keys) + Len(eof)
      BY <1>1
    <3> QED BY <1>2, <1>4, <1>5, <3>1, <3>2
  <2> SUFFICES ASSUME NEW i \in DOMAIN (keys \o eof)
               PROVE  (keys \o eof)[i].t \in {"loading", "loading_eof"}
    OBVIOUS
  <2>1. i \in 1 .. size + 1
    BY <2>0
  <2>2. CASE i <= size
    BY <2>1, <2>2, <1>1, <1>2, <1>3, <1>4, <1>5
  <2>3. CASE i = size + 1
    BY <2>1, <2>3, <1>1, <1>2, <1>4, <1>5
  <2> QED BY <2>1, <2>2, <2>3, <1>2
<1> QED BY <1>1, <1>6

LEMMA LoadMessagesQuiet ==
    ASSUME TypeOK, EofAt(file) \in 2 .. Len(file)
    PROVE  NoneOf(LoadMessages, SocketMsgs \cup Casts)
BY LoadMessagesTypes DEF NoneOf, SocketMsgs, Casts

LEMMA NoneOfUnion ==
    ASSUME NEW box, NEW S, NEW T
    PROVE  NoneOf(box, S \cup T) <=> NoneOf(box, S) /\ NoneOf(box, T)
BY DEF NoneOf

\* The stream begins: one cast of replication, and behind it nothing yet.
LEMMA BeginStream ==
    ASSUME Inv, mb # <<>>, mode # "undefined",
           \/ where = "idle" /\ Head(mb).t \in Casts /\ state # "stream"
           \/ where \in Receiving /\ Result # "error",
           NEW more \in Seq(Message), NoneOf(more, Casts), NoneOf(more, Closings),
           Continue(more \o <<Plain("replication")>>),
           state' = "stream", mode' = mode, sock' = sock
    PROVE  PlaceOK' /\ MailOK'
<1> DEFINE left == Tail(mb) \o more
           m == Plain("replication")
<1>1. Tail(mb) \in Seq(Message) /\ left \in Seq(Message) /\ m \in Message /\ m.t = "replication"
  BY HeadParts, JoinMessages, PlainMessage DEF Inv, Casts
<1>2. mb' = Append(left, m) /\ where' = "idle"
  <2>1. mb' = Tail(mb) \o (more \o <<m>>) /\ where' = "idle"
    BY DEF Continue
  <2>2. Tail(mb) \o (more \o <<m>>) = left \o <<m>>
    <3>1. <<m>> \in Seq(Message)
      BY <1>1, OneMessage
    <3> HIDE DEF m
    <3> QED BY <1>1, <3>1
  <2> QED BY <2>1, <2>2, <1>1, AddOne
<1>3. NoneOf(Tail(mb), SocketMsgs) /\ NoneOf(Tail(mb), Casts)
  BY AfterReply, AfterCast
<1>4. NoneOf(Tail(mb), Closings)
  BY <1>3 DEF NoneOf, SocketMsgs, Closings
<1>5. NoneOf(left, Casts) /\ NoneOf(left, Closings)
  BY <1>1, <1>3, <1>4, ConcatNone
<1>6. NoneOf(mb', Closings)
  BY <1>1, <1>2, <1>5, AddOther DEF Closings
<1>7. /\ AtMostOne(mb', Casts)
      /\ \A i \in DOMAIN mb' : mb'[i].t \in Casts => mb'[i] = m
  BY <1>1, <1>2, <1>5, AddFirst
<1>8. Expected(m)'
  BY <1>1 DEF Expected, ExpectedCast, ExpectedInfo, Plain, Msg
<1>9. SocketOK'
  BY <1>2, <1>6 DEF SocketOK, NoneOf, Receiving
<1>10. NeverWedged'
  BY <1>2, <1>7, <1>8 DEF NeverWedged
<1>11. PlaceOK'
  BY <1>2 DEF PlaceOK
<1> QED BY <1>9, <1>10, <1>11 DEF MailOK

LEMMA InvSync ==
    ASSUME Inv,
           RecvContinue \/ RecvFullResync \/ RecvBulk \/ RecvFailed
           \/ SaveBuffering \/ SavePayload \/ LoadRdb \/ LoadFailed
           \/ InfoLoading \/ InfoLoadingEof
    PROVE  PlaceOK' /\ MailOK'
<1>1. CASE RecvContinue
  <2> DEFINE rest == Msg("tcp", Tail(Head(mb).data), 0)
  <2>1. /\ where = "reply" /\ mb # <<>> /\ state \in Loading /\ Result = "continue"
        /\ Continue(<<rest, Plain("replication")>>)
        /\ state' = "stream" /\ mode' = mode /\ sock' = sock
    BY <1>1 DEF RecvContinue, Received
  <2>2. ChunkResult(Head(mb).data) = "continue"
    BY <2>1 DEF Result, RecvResult
  <2>3. Tail(Head(mb).data) \in Seq(Unit)
    BY <2>1, <2>2, HeadParts, ChunkHead DEF Inv
  <2>4. rest \in Message /\ rest.t = "tcp"
    BY <2>3, MakeMessage DEF Msg, SocketMsgs
  <2>5. <<rest>> \in Seq(Message)
    BY <2>4, OneMessage
  <2>6. NoneOf(<<rest>>, Casts) /\ NoneOf(<<rest>>, Closings)
    BY <2>4 DEF NoneOf, Casts, Closings
  <2>7. <<rest, Plain("replication")>> = <<rest>> \o <<Plain("replication")>>
    OBVIOUS
  <2>8. mode # "undefined"
    BY <2>1 DEF Inv, PlaceOK, Loading
  <2> HIDE DEF rest
  <2> QED BY <2>1, <2>5, <2>6, <2>7, <2>8, BeginStream DEF Receiving
<1>2. CASE RecvFullResync
  <2>1. /\ where = "reply" /\ mb # <<>> /\ state \in Loading /\ Result = "fullresync"
        /\ Continue(<<Plain("psync")>>) /\ state' = "payload" /\ mode' = mode /\ sock' = sock
    BY <1>2 DEF RecvFullResync, Received
  <2>2. Plain("psync") \in Message /\ Plain("psync").t = "psync"
    BY PlainMessage DEF Casts
  <2>3. Expected(Plain("psync"))'
    BY <2>1, <2>2 DEF Expected, ExpectedCast, ExpectedInfo, Plain, Msg
  <2>4. mode # "undefined"
    BY <2>1 DEF Inv, PlaceOK, Loading
  <2> QED BY <2>1, <2>2, <2>3, <2>4, NextCast DEF Receiving, Casts
<1>3. CASE RecvBulk
  <2> DEFINE m == Msg("save_rdb", Head(mb).data, IF state = "buffering" THEN 1 ELSE 0)
  <2>1. /\ where = "reply" /\ mb # <<>> /\ state \in Loading
        /\ Result \in {"load_stream", "load_buffer"}
        /\ Continue(<<m>>) /\ state' \in {"payload", "buffering"}
        /\ mode' = mode /\ sock' = sock
    BY <1>3 DEF RecvBulk, Received
  <2>2. m \in Message /\ m.t = "save_rdb"
    BY <2>1, HeadParts, MakeMessage DEF Inv, Casts, Msg
  <2>3. \A n : n.t = "save_rdb" => Expected(n)'
    BY <2>1 DEF Expected, ExpectedCast, ExpectedInfo
  <2>4. mode # "undefined"
    BY <2>1 DEF Inv, PlaceOK, Loading
  <2> HIDE DEF m
  <2> QED BY <2>1, <2>2, <2>3, <2>4, NextCast DEF Receiving, Casts
<1>4. CASE RecvFailed
  BY <1>4, StopInv DEF RecvFailed
<1>5. CASE SaveBuffering
  <2>1. /\ where = "idle" /\ mb # <<>> /\ Head(mb).t \in Casts /\ state = "buffering"
        /\ where' = "reply" /\ mb' = Tail(mb) /\ state' = state /\ mode' = mode
    BY <1>5 DEF SaveBuffering, Handles, Casts, stateVars
  <2>2. MailOK'
    BY <2>1, WaitInv DEF Receiving
  <2>3. PlaceOK'
    BY <2>1 DEF PlaceOK, Inv
  <2> QED BY <2>2, <2>3
<1>6. CASE SavePayload
  <2>1. /\ where = "idle" /\ mb # <<>> /\ Head(mb).t \in Casts /\ state = "payload"
        /\ Continue(<<Plain("load_rdb")>>) /\ state' = state /\ mode' = mode /\ sock' = sock
    BY <1>6 DEF SavePayload, Handles, Casts, stateVars
  <2>2. Plain("load_rdb") \in Message /\ Plain("load_rdb").t = "load_rdb"
    BY PlainMessage DEF Casts
  <2>3. Expected(Plain("load_rdb"))'
    BY <2>1, <2>2 DEF Expected, ExpectedCast, ExpectedInfo, Plain, Msg
  <2>4. mode # "undefined"
    BY <2>1 DEF Inv, PlaceOK
  <2> QED BY <2>1, <2>2, <2>3, <2>4, NextCast DEF Casts
<1>7. CASE LoadRdb
  <2>1. /\ where = "idle" /\ mb # <<>> /\ Head(mb).t \in Casts /\ state = "payload"
        /\ Continue(LoadMessages \o <<Plain("replication")>>)
        /\ state' = "stream" /\ mode' = mode /\ sock' = sock
        /\ EofAt(file) \in 2 .. Len(file)
    BY <1>7 DEF LoadRdb, Handles, Casts, Loadable, EofAt
  <2>2. LoadMessages \in Seq(Message)
    BY <2>1, LoadMessagesType DEF Inv
  <2>3. NoneOf(LoadMessages, SocketMsgs) /\ NoneOf(LoadMessages, Casts)
    BY <2>1, LoadMessagesQuiet, NoneOfUnion DEF Inv
  <2>4. NoneOf(LoadMessages, Closings)
    BY <2>3 DEF NoneOf, SocketMsgs, Closings
  <2>5. mode # "undefined"
    BY <2>1 DEF Inv, PlaceOK
  <2> QED BY <2>1, <2>2, <2>3, <2>4, <2>5, BeginStream
<1>8. CASE LoadFailed
  BY <1>8, StopInv DEF LoadFailed
<1>9. CASE InfoLoading \/ InfoLoadingEof
  <2>1. /\ where = "idle" /\ mb # <<>> /\ Head(mb).t \in {"loading", "loading_eof"}
        /\ Continue(<<>>) /\ sock' = sock /\ state' = state /\ mode' = mode
    BY <1>9 DEF InfoLoading, InfoLoadingEof, Handles, stateVars
  <2> QED BY <2>1, DropInv DEF Casts
<1> QED BY <1>1, <1>2, <1>3, <1>4, <1>5, <1>6, <1>7, <1>8, <1>9

\* Streaming.
LEMMA StreamInv ==
    ASSUME Inv, where = "idle", mb # <<>>, state = "stream",
           where' = "idle", mb' = Tail(mb), sock' = Activated,
           state' = state, mode' = mode
    PROVE  PlaceOK' /\ MailOK'
<1>1. sock = "none" => sock' = "none"
  BY DEF Activated
<1>2. MailOK'
  BY <1>1, TakeOne DEF Inv
<1>3. PlaceOK'
  BY DEF PlaceOK, Inv
<1> QED BY <1>2, <1>3

LEMMA InvStream ==
    ASSUME Inv,
           CastReplication \/ InfoTcpQuiet \/ InfoTcpBuffer \/ InfoTcpCommands \/ InfoTcpFailed
           \/ InfoTimeout
    PROVE  PlaceOK' /\ MailOK'
<1>1. CASE CastReplication
  BY <1>1, StreamInv DEF CastReplication, Handles, stateVars
<1>2. CASE InfoTcpQuiet \/ InfoTcpBuffer \/ InfoTcpCommands
  <2>1. InfoTcp
    BY <1>2 DEF InfoTcpQuiet, InfoTcpBuffer, InfoTcpCommands
  <2> QED BY <2>1, StreamInv DEF InfoTcp, Handles
<1>3. CASE InfoTcpFailed
  BY <1>3, StopInv DEF InfoTcpFailed
<1>4. CASE InfoTimeout
  BY <1>4, SameMail DEF InfoTimeout, procVars, stateVars
<1> QED BY <1>1, <1>2, <1>3, <1>4

\* Losing the master and coming back.
LEMMA RetryInv ==
    ASSUME Inv, where = "idle", mb # <<>>, Head(mb).t \in Casts, state = "reconnect", Retry
    PROVE  PlaceOK' /\ MailOK'
<1>1. Plain("new_connection") \in Message /\ Plain("new_connection").t = "new_connection"
  BY PlainMessage DEF Casts
<1>2. Continue(<<Plain("new_connection")>>) /\ state' = "reconnect" /\ sock' = "none" /\ mode' = mode
  BY DEF Retry
<1>3. Expected(Plain("new_connection"))'
  BY <1>1, <1>2 DEF Expected, ExpectedCast, ExpectedInfo, Plain, Msg
<1>4. mode # "undefined"
  BY DEF Inv, PlaceOK
<1> QED BY <1>1, <1>2, <1>3, <1>4, NextCast DEF Casts

LEMMA InvReconnect ==
    ASSUME ~UseAuth \/ state # "reconnect", Inv,
           InfoTcpClosed \/ InfoTcpError \/ Reconnect \/ ReconnectRefused \/ ReAuthOk
           \/ ReAuthThrows \/ RePong \/ ReconnectFailed
    PROVE  PlaceOK' /\ MailOK'
<1>1. CASE InfoTcpClosed
  <2> DEFINE m == Plain("new_connection")
  <2>1. /\ where = "idle" /\ mb # <<>> /\ Head(mb).t = "tcp_closed"
        /\ Continue(<<m>>) /\ state' = "reconnect" /\ sock' = "none" /\ mode' = mode
        /\ where' = "idle"
    BY <1>1 DEF InfoTcpClosed, Handles, Continue
  <2>2. mb \in Seq(Message) /\ 1 \in DOMAIN mb /\ mb[1].t = "tcp_closed"
    BY <2>1, TailMessages DEF Inv, TypeOK, ServerTypeOK
  <2>3. state = "stream"
    BY <2>1, <2>2 DEF Inv, MailOK, SocketOK, NoneOf, SocketMsgs
  <2>4. \A j \in DOMAIN mb : j > 1 => mb[j].t \notin SocketMsgs \cup Casts
    BY <2>1, <2>2, <2>3 DEF Inv, MailOK, SocketOK, Closings
  <2>5. NoneOf(Tail(mb), SocketMsgs) /\ NoneOf(Tail(mb), Casts)
    <3>1. ASSUME NEW i \in DOMAIN Tail(mb)
          PROVE  Tail(mb)[i].t \notin SocketMsgs \cup Casts
      <4>1. i + 1 \in DOMAIN mb /\ Tail(mb)[i] = mb[i + 1] /\ i \in 1 .. Len(mb) - 1 /\ Len(mb) \in Nat
        BY <2>1, <2>2, TailMessages
      <4> QED BY <4>1, <2>4
    <3> QED BY <3>1 DEF NoneOf
  <2>6. m \in Message /\ m.t = "new_connection"
    BY PlainMessage DEF Casts
  <2>7. Expected(m)'
    BY <2>1, <2>6 DEF Expected, ExpectedCast, ExpectedInfo, Plain, Msg
  <2>8. MailOK'
    BY <2>1, <2>5, <2>6, <2>7, ContinueCast DEF Inv, Casts
  <2>9. PlaceOK'
    BY <2>1, <2>3 DEF PlaceOK, Inv
  <2> QED BY <2>8, <2>9
<1>2. CASE InfoTcpError
  BY <1>2, StopInv DEF InfoTcpError
<1>3. CASE Reconnect
  <2>1. /\ where = "idle" /\ mb # <<>> /\ Head(mb).t \in Casts /\ state = "reconnect"
        /\ mb' = Tail(mb) /\ state' = state /\ mode' = mode
        /\ where' = "rePing" \/ (where' = "reAuth" /\ UseAuth)
    BY <1>3 DEF Reconnect, Handles, Casts, stateVars
  <2>2. MailOK'
    BY <2>1, WaitInv DEF Receiving
  <2>3. PlaceOK'
    BY <2>1 DEF PlaceOK, Inv
  <2> QED BY <2>2, <2>3
<1>4. CASE ReconnectRefused
  BY <1>4, RetryInv DEF ReconnectRefused, Handles, Casts
<1>5. CASE ReAuthOk \/ ReAuthThrows
  BY <1>5 DEF ReAuthOk, ReAuthThrows, Received, Inv, PlaceOK
<1>6. CASE RePong
  <2>1. /\ where = "rePing" /\ mb # <<>> /\ Result = "pong"
        /\ Continue(<<Plain("repl")>>) /\ state' = "reconnect2" /\ sock' = sock /\ mode' = mode
    BY <1>6 DEF RePong, Received
  <2>2. Plain("repl") \in Message /\ Plain("repl").t = "repl"
    BY PlainMessage DEF Casts
  <2>3. Expected(Plain("repl"))'
    BY <2>1, <2>2 DEF Expected, ExpectedCast, ExpectedInfo, Plain, Msg
  <2>4. mode # "undefined"
    BY <2>1 DEF Inv, PlaceOK
  <2> QED BY <2>1, <2>2, <2>3, <2>4, NextCast DEF Receiving, Casts
<1>7. CASE ReconnectFailed
  BY <1>7, StopInv DEF ReconnectFailed
<1> QED BY <1>1, <1>2, <1>3, <1>4, <1>5, <1>6, <1>7

\* Stopping, disturbances and the socket driver.
LEMMA InvWorld ==
    ASSUME Inv,
           CallShutdown \/ Generic \/ Disturb \/ Killed \/ DiskFailed
           \/ DeliverData \/ DeliverClosed \/ DeliverError
    PROVE  PlaceOK' /\ MailOK'
<1>1. CASE CallShutdown
  BY <1>1, StopInv DEF CallShutdown
<1>2. CASE Generic
  <2>1. /\ where = "idle" /\ mb # <<>> /\ ~Expected(Head(mb))
        /\ Continue(<<>>) /\ sock' = sock /\ state' = state /\ mode' = mode
    BY <1>2 DEF Generic, stateVars
  <2>2. Head(mb).t \notin Casts
    BY <2>1, AfterCast
  <2> QED BY <2>1, <2>2, DropInv
<1>3. CASE Disturb
  <2>1. PICK type \in {"shutdown", "noise"} : mb' = Append(mb, Plain(type))
    BY <1>3 DEF Disturb
  <2>2. Plain(type) \in Message /\ Plain(type).t = type
    BY MakePlain DEF Plain, Msg, OtherMsgs
  <2>3. type \notin Casts /\ type \notin SocketMsgs
    BY DEF Casts, SocketMsgs
  <2>4. where # "down" /\ where' = where /\ sock' = sock /\ state' = state /\ mode' = mode
    BY <1>3 DEF Disturb, stateVars
  <2> QED BY <2>1, <2>2, <2>3, <2>4, AddedInv
<1>4. CASE Killed
  BY <1>4, DieInv DEF Killed
<1>5. CASE DiskFailed
  BY <1>5, DieInv DEF DiskFailed
<1>6. CASE DeliverData
  <2>1. PICK size \in ChunkSizes :
          /\ net' = SubSeq(net, size + 1, Len(net))
          /\ Deliver(Msg("tcp", SubSeq(net, 1, size), 0))
    BY <1>6 DEF DeliverData
  <2>2. size \in 1 .. Len(net)
    BY BufferAssumption DEF ChunkSizes, Inv, TypeOK, MasterTypeOK
  <2>3. SubSeq(net, 1, size) \in Seq(Unit)
    BY <2>2, PartType DEF Inv, TypeOK, MasterTypeOK
  <2> DEFINE m == Msg("tcp", SubSeq(net, 1, size), 0)
  <2>4. m \in Message /\ m.t = "tcp"
    BY <2>3, MakeMessage DEF SocketMsgs, Msg
  <2>5. /\ mb' = Append(mb, m) /\ where' = where /\ state' = state /\ mode' = mode
        /\ sock = "active" /\ sock' = "passive"
    BY <1>6, <2>1 DEF DeliverData, Deliver, stateVars
  <2> HIDE DEF m
  <2> QED BY <2>4, <2>5, DeliveredInv DEF Casts, Closings, SocketMsgs
<1>7. CASE DeliverClosed \/ DeliverError
  <2>1. PICK type \in Closings :
          /\ mb' = Append(mb, Plain(type)) /\ where' = where /\ state' = state /\ mode' = mode
          /\ sock = "active" /\ sock' = "none"
    BY <1>7 DEF DeliverClosed, DeliverError, Deliver, Closings, stateVars
  <2>2. Plain(type) \in Message /\ Plain(type).t = type
    BY MakePlain DEF Plain, Msg, SocketMsgs, Closings
  <2> QED BY <2>1, <2>2, DeliveredInv DEF Casts, Closings, SocketMsgs
<1> QED BY <1>1, <1>2, <1>3, <1>4, <1>5, <1>6, <1>7

LEMMA InvMaster ==
    ASSUME Inv, UNCHANGED serverVars
    PROVE  PlaceOK' /\ MailOK'
BY SameMail DEF serverVars, procVars, stateVars

-----------------------------------------------------------------------------
(* The theorem.                                                             *)

LEMMA InvInit == Init => Inv
<1> SUFFICES ASSUME Init PROVE Inv
  OBVIOUS
<1>1. where = "down" /\ mb = <<>> /\ sock = "none" /\ state = "undefined"
  BY DEF Init
<1>2. DOMAIN mb = {}
  BY <1>1
<1>3. PlaceOK
  BY <1>1 DEF PlaceOK
<1>4. SocketOK
  BY <1>1, <1>2 DEF SocketOK, NoneOf, Receiving
<1>5. NeverWedged
  BY <1>1, <1>2 DEF NeverWedged, NoneOf, AtMostOne
<1> QED BY <1>3, <1>4, <1>5, TypeInit DEF Inv, MailOK

\* A refused password leaves what the master still says of that connection in the
\* mailbox; short of that every step preserves the invariant.
LEMMA InvNext == (~UseAuth \/ state # "reconnect") /\ Inv /\ [Next]_vars => Inv'
<1> SUFFICES ASSUME ~UseAuth \/ state # "reconnect", Inv, [Next]_vars PROVE Inv'
  OBVIOUS
<1>1. TypeOK'
  BY TypeNext DEF Inv
<1>2. PlaceOK' /\ MailOK'
  <2>1. CASE Start \/ Handler
    BY <2>1, InvBoot, InvHandshake, InvSync, InvStream, InvReconnect, InvWorld DEF Handler
  <2>2. CASE InfoTimeout \/ DeliverData \/ DeliverClosed
    BY <2>2, InvStream, InvWorld
  <2>3. CASE Master
    BY <2>3, InvMaster DEF Master, Unserved
  <2>4. CASE World
    BY <2>4, InvMaster, InvWorld DEF World, Unserved
  <2>5. CASE UNCHANGED vars
    BY <2>5, InvMaster DEF vars
  <2> QED BY <2>1, <2>2, <2>3, <2>4, <2>5 DEF Next
<1> QED BY <1>1, <1>2 DEF Inv

\* Whenever the server is back in its loop before streaming, exactly one cast to
\* itself is pending and a clause of handle_cast/2 takes it; while it waits in
\* recv_sock/1 there is none.  No failure, restart, refusal, stray message or
\* fragmentation of the stream makes it lose the thread.
THEOREM NotWedged == ~UseAuth => (Spec => []NeverWedged)
<1> SUFFICES ASSUME ~UseAuth PROVE Spec => []NeverWedged
  OBVIOUS
<1>1. Inv /\ [Next]_vars => Inv'
  BY InvNext
<1>2. Inv => NeverWedged
  BY DEF Inv, MailOK
<1> QED BY InvInit, <1>1, <1>2, PTL DEF Spec

-----------------------------------------------------------------------------
(* PONG, which separates what an earlier connection left from the present.  *)

LEMMA PongIs ==
    ASSUME NEW m \in Message, RecvResult(m) = "pong"
    PROVE  m.t = "tcp" /\ m.data # <<>> /\ m.data[1].k = "pong"
<1>1. m.t = "tcp" /\ ChunkResult(m.data) = "pong"
  BY DEF RecvResult
<1>2. m.data # <<>> /\ m.data[1].k \in DOMAIN ReplyResult /\ ReplyResult[m.data[1].k] = "pong"
  BY <1>1 DEF ChunkResult
<1> QED BY <1>1, <1>2 DEF ReplyResult

\* A mailbox made of messages of the last one, and of casts of new_connection.
LEMMA Leftover ==
    ASSUME TypeOK, AwayOK, where \in {"idle", "reAuth"},
           \A i \in DOMAIN mb' : \/ \E j \in DOMAIN mb : mb'[i] = mb[j]
                                 \/ mb'[i] = Plain("new_connection")
    PROVE  /\ \A i \in DOMAIN mb' : mb'[i].t \in Casts => mb'[i].t = "new_connection"
           /\ \A i \in DOMAIN mb' : RecvResult(mb'[i]) # "pong"
<1>1. Plain("new_connection") \in Message /\ Plain("new_connection").t = "new_connection"
  BY PlainMessage DEF Casts
<1>2. RecvResult(Plain("new_connection")) # "pong"
  BY <1>1 DEF RecvResult
<1> QED BY <1>1, <1>2 DEF AwayOK

LEMMA TailLeftover ==
    ASSUME TypeOK, mb # <<>>, mb' = Tail(mb)
    PROVE  \A i \in DOMAIN mb' : \E j \in DOMAIN mb : mb'[i] = mb[j]
BY TailMessages DEF TypeOK, ServerTypeOK

LEMMA ContinueLeftover ==
    ASSUME TypeOK, mb # <<>>, Continue(<<Plain("new_connection")>>)
    PROVE  /\ \A i \in DOMAIN mb' : \/ \E j \in DOMAIN mb : mb'[i] = mb[j]
                                    \/ mb'[i] = Plain("new_connection")
           /\ ~NoneOf(mb', Casts)
<1> DEFINE m == Plain("new_connection")
<1>1. m \in Message /\ m.t = "new_connection" /\ Tail(mb) \in Seq(Message)
  BY PlainMessage, HeadParts DEF Casts
<1>2. mb' = Append(Tail(mb), m)
  BY <1>1, AddOne DEF Continue
<1> HIDE DEF m
<1>3. /\ Len(Tail(mb)) + 1 \in DOMAIN mb' /\ mb'[Len(Tail(mb)) + 1] = m
      /\ \A i \in DOMAIN mb' : \/ i \in DOMAIN Tail(mb) /\ mb'[i] = Tail(mb)[i]
                               \/ mb'[i] = m
  BY <1>1, <1>2, AddOne
<1>4. \A i \in DOMAIN Tail(mb) : \E j \in DOMAIN mb : Tail(mb)[i] = mb[j]
  BY TailMessages DEF TypeOK, ServerTypeOK
<1>5. ~NoneOf(mb', Casts)
  BY <1>1, <1>3 DEF NoneOf, Casts
<1> QED BY <1>3, <1>4, <1>5 DEF m

-----------------------------------------------------------------------------
(* The thread of the protocol: one step per action of a reconnection.       *)

Thread ==
    /\ PlaceOK
    /\ state # "reconnect" => MailOK
    /\ state = "reconnect" => AwayOK

\* The connection that was streaming ends, or that of a reconnection fails.
LEMMA AgainOK ==
    ASSUME TypeOK, AwayOK, PlaceOK, state = "reconnect", where \in {"idle", "reAuth"}, mb # <<>>,
           Continue(<<Plain("new_connection")>>), state' = "reconnect", sock' = "none",
           mode' = mode
    PROVE  Thread'
<1>1. where' = "idle"
  BY DEF Continue
<1>2. AwayOK'
  BY <1>1, ContinueLeftover, Leftover DEF AwayOK
<1>3. PlaceOK'
  BY <1>1 DEF PlaceOK
<1> QED BY <1>2, <1>3 DEF Thread

\* A message that is no cast is taken from the mailbox and nothing else changes.
LEMMA DropAway ==
    ASSUME TypeOK, AwayOK, PlaceOK, state = "reconnect", where = "idle", mb # <<>>,
           Head(mb).t \notin Casts, Continue(<<>>),
           sock' = sock, state' = state, mode' = mode
    PROVE  Thread'
<1>1. where' = "idle" /\ mb' = Tail(mb)
  BY HeadParts DEF Continue
<1>2. ~NoneOf(mb', Casts)
  BY <1>1, TailSome DEF AwayOK, TypeOK, ServerTypeOK
<1>3. AwayOK'
  BY <1>1, <1>2, TailLeftover, Leftover DEF AwayOK
<1>4. PlaceOK'
  BY <1>1 DEF PlaceOK
<1> QED BY <1>3, <1>4 DEF Thread

LEMMA StopThread ==
    ASSUME Die
    PROVE  Thread'
BY DieInv DEF Die, Thread

\* The loop of the gen_server.
LEMMA ThreadIdle ==
    ASSUME TypeOK, AwayOK, PlaceOK, state = "reconnect", where = "idle", Handler
    PROVE  Thread'
<1>1. CASE InfoTcpClosed
  BY <1>1, AgainOK DEF InfoTcpClosed, Handles
<1>2. CASE ReconnectRefused
  BY <1>2, AgainOK DEF ReconnectRefused, Retry, Handles
<1>3. CASE Reconnect
  <2>1. /\ mb # <<>> /\ mb' = Tail(mb) /\ state' = state /\ mode' = mode /\ sock' = "active"
        /\ \/ where' = "rePing"
           \/ where' = "reAuth" /\ UseAuth /\ FirstRequest = Request("AUTH")
        /\ net' = <<>> /\ req' = FirstRequest
    BY <1>3 DEF Reconnect, Handles, stateVars, Open, FirstRequest
  <2>2. AwayOK'
    BY <2>1, TailLeftover, Leftover DEF AwayOK, Request
  <2>3. PlaceOK'
    BY <2>1 DEF PlaceOK
  <2> QED BY <2>1, <2>2, <2>3 DEF Thread
<1>4. CASE InfoLoading \/ InfoLoadingEof \/ Generic
  <2>1. /\ mb # <<>> /\ Continue(<<>>) /\ sock' = sock /\ state' = state /\ mode' = mode
        /\ Head(mb).t \in {"loading", "loading_eof"} \/ ~Expected(Head(mb))
    BY <1>4 DEF InfoLoading, InfoLoadingEof, Generic, Handles, stateVars
  <2>2. Head(mb).t \in Casts => Head(mb).t = "new_connection"
    BY <2>1, TailMessages DEF AwayOK, TypeOK, ServerTypeOK
  <2>3. Head(mb).t \notin Casts
    BY <2>1, <2>2 DEF Expected, ExpectedCast, ExpectedInfo, Casts
  <2> QED BY <2>1, <2>3, DropAway
<1>5. CASE InfoTcpError \/ CallShutdown
  BY <1>5, StopThread DEF InfoTcpError, CallShutdown, Stop
<1> QED
  BY <1>1, <1>2, <1>3, <1>4, <1>5
     DEF Handler, Boot, BootRefused, BootAuthOk, BootPong, BootLoading, BootFailed, Received,
         CastRepl, CastCapa, CastPsync, CastSync, CastPsyncPayload, CastRst, RecvPort, RecvCapa,
         RecvContinue, RecvFullResync, RecvBulk, RecvFailed, SaveBuffering, SavePayload, LoadRdb,
         LoadFailed, CastReplication, InfoTcpQuiet, InfoTcpBuffer, InfoTcpCommands, InfoTcp,
         InfoTcpFailed, ReAuthOk, ReAuthThrows, RePong, ReconnectFailed

\* The calls of recv_sock/1 in a reconnection.
LEMMA ThreadWait ==
    ASSUME TypeOK, AwayOK, PlaceOK, state = "reconnect", where \in {"reAuth", "rePing"}, Handler
    PROVE  Thread'
<1>1. CASE ReAuthOk
  <2>1. /\ where = "reAuth" /\ mb # <<>> /\ where' = "rePing" /\ mb' = Tail(mb)
        /\ state' = state /\ mode' = mode
    BY <1>1 DEF ReAuthOk, Received, stateVars
  <2>2. AwayOK'
    BY <2>1, TailLeftover, Leftover DEF AwayOK
  <2>3. PlaceOK'
    BY <2>1 DEF PlaceOK
  <2> QED BY <2>1, <2>2, <2>3 DEF Thread
<1>2. CASE ReAuthThrows
  BY <1>2, AgainOK DEF ReAuthThrows, Received, Retry
<1>3. CASE RePong
  <2> DEFINE m == Plain("repl")
  <2>1. /\ where = "rePing" /\ mb # <<>> /\ RecvResult(Head(mb)) = "pong"
        /\ Continue(<<m>>) /\ state' = "reconnect2" /\ sock' = sock /\ mode' = mode
        /\ where' = "idle"
    BY <1>3 DEF RePong, Received, Result, Continue
  <2>2. 1 \in DOMAIN mb /\ RecvResult(mb[1]) = "pong" /\ mb \in Seq(Message)
    BY <2>1, TailMessages DEF TypeOK, ServerTypeOK
  <2>3. sock # "active" /\ \A j \in DOMAIN mb : j > 1 => mb[j].t \notin SocketMsgs \cup Casts
    BY <2>1, <2>2 DEF AwayOK
  <2>4. NoneOf(Tail(mb), SocketMsgs) /\ NoneOf(Tail(mb), Casts)
    <3>1. ASSUME NEW i \in DOMAIN Tail(mb)
          PROVE  Tail(mb)[i].t \notin SocketMsgs \cup Casts
      <4>1. i + 1 \in DOMAIN mb /\ Tail(mb)[i] = mb[i + 1] /\ i \in 1 .. Len(mb) - 1 /\ Len(mb) \in Nat
        BY <2>1, <2>2, TailMessages
      <4> QED BY <4>1, <2>3
    <3> QED BY <3>1 DEF NoneOf
  <2>5. m \in Message /\ m.t = "repl"
    BY PlainMessage DEF Casts
  <2>6. Expected(m)'
    BY <2>1, <2>5 DEF Expected, ExpectedCast, ExpectedInfo, Plain, Msg
  <2>7. MailOK'
    BY <2>1, <2>3, <2>4, <2>5, <2>6, ContinueCast DEF Casts
  <2>8. PlaceOK'
    BY <2>1 DEF PlaceOK
  <2> QED BY <2>1, <2>7, <2>8 DEF Thread
<1>4. CASE ReconnectFailed
  BY <1>4, StopThread DEF ReconnectFailed, Stop
<1> QED
  BY <1>1, <1>2, <1>3, <1>4
     DEF Handler, Boot, BootRefused, BootAuthOk, BootPong, BootLoading, BootFailed, Received,
         CastRepl, CastCapa, CastPsync, CastSync, CastPsyncPayload, CastRst, RecvPort, RecvCapa,
         RecvContinue, RecvFullResync, RecvBulk, RecvFailed, SaveBuffering, SavePayload, LoadRdb,
         LoadFailed, CastReplication, InfoTcpQuiet, InfoTcpBuffer, InfoTcpCommands, InfoTcp,
         InfoTcpFailed, InfoLoading, InfoLoadingEof, Generic, Handles, InfoTcpClosed, InfoTcpError,
         Reconnect, ReconnectRefused, CallShutdown

\* Something else than a cast is added to the mailbox.  What the socket adds in rePing
\* is the last it has to say.
LEMMA AddAway ==
    ASSUME TypeOK, AwayOK, PlaceOK, state = "reconnect",
           NEW m \in Message, m.t \notin Casts, mb' = Append(mb, m),
           where' = where, state' = state, mode' = mode,
           \/ m.t \notin SocketMsgs /\ sock' = sock /\ req' = req /\ net' = net
           \/ /\ sock = "active" /\ sock' # "active" /\ req' = req
              /\ where = "reAuth" => RecvResult(m) # "pong"
              /\ \A i \in DOMAIN net' : \E j \in DOMAIN net : net'[i] = net[j]
    PROVE  Thread'
<1>1. mb \in Seq(Message)
  BY DEF TypeOK, ServerTypeOK
<1>2. /\ \A i \in DOMAIN mb : i \in DOMAIN mb' /\ mb'[i] = mb[i]
      /\ \A i \in DOMAIN mb' : (i \in DOMAIN mb /\ i <= Len(mb)) \/ (i = Len(mb) + 1 /\ mb'[i] = m)
      /\ Len(mb) \in Nat
  BY <1>1, AddOne
<1>3. \A i \in DOMAIN mb' : mb'[i].t \in Casts => mb'[i].t = "new_connection"
  BY <1>2 DEF AwayOK
<1>4. where' = "idle" => sock' = "none" /\ ~NoneOf(mb', Casts)
  BY <1>2 DEF AwayOK, NoneOf
<1>5. m.t \notin SocketMsgs => RecvResult(m) # "pong"
  BY PongIs DEF SocketMsgs
<1>6. where' \in {"idle", "reAuth"} => \A i \in DOMAIN mb' : RecvResult(mb'[i]) # "pong"
  BY <1>2, <1>5 DEF AwayOK
<1>7. where' = "reAuth" => req'.c # "PING" /\ \A i \in DOMAIN net' : net'[i].k # "pong"
  BY DEF AwayOK
<1>8. ASSUME where' = "rePing", NEW i \in DOMAIN mb', RecvResult(mb'[i]) = "pong"
      PROVE  /\ sock' # "active"
             /\ \A j \in DOMAIN mb' : j > i => mb'[j].t \notin SocketMsgs \cup Casts
  <2>1. CASE m.t \notin SocketMsgs /\ sock' = sock
    <3>1. i \in DOMAIN mb /\ mb'[i] = mb[i]
      BY <1>2, <1>5, <1>8, <2>1
    <3> QED BY <3>1, <1>2, <1>8, <2>1 DEF AwayOK
  <2>2. CASE sock = "active" /\ sock' # "active"
    <3>1. i = Len(mb) + 1
      BY <1>2, <1>8, <2>2 DEF AwayOK
    <3> QED BY <3>1, <1>2, <2>2
  <2> QED BY <2>1, <2>2
<1>9. AwayOK'
  BY <1>3, <1>4, <1>6, <1>7, <1>8 DEF AwayOK
<1>10. PlaceOK'
  BY DEF PlaceOK
<1> QED BY <1>9, <1>10 DEF Thread

LEMMA ThreadWorld ==
    ASSUME TypeOK, AwayOK, PlaceOK, state = "reconnect",
           Disturb \/ Killed \/ DiskFailed \/ DeliverData \/ DeliverClosed \/ DeliverError
    PROVE  Thread'
<1>1. CASE Disturb
  <2>1. PICK type \in {"shutdown", "noise"} : mb' = Append(mb, Plain(type))
    BY <1>1 DEF Disturb
  <2>2. Plain(type) \in Message /\ Plain(type).t = type
    BY MakePlain DEF Plain, Msg, OtherMsgs
  <2>3. type \notin Casts /\ type \notin SocketMsgs
    BY DEF Casts, SocketMsgs
  <2>4. where' = where /\ sock' = sock /\ state' = state /\ mode' = mode /\ req' = req /\ net' = net
    BY <1>1 DEF Disturb, stateVars
  <2> QED BY <2>1, <2>2, <2>3, <2>4, AddAway
<1>2. CASE Killed \/ DiskFailed
  BY <1>2, StopThread DEF Killed, DiskFailed
<1>3. CASE DeliverData
  <2>1. PICK size \in ChunkSizes :
          /\ net' = SubSeq(net, size + 1, Len(net))
          /\ Deliver(Msg("tcp", SubSeq(net, 1, size), 0))
    BY <1>3 DEF DeliverData
  <2>2. size \in 1 .. Len(net) /\ net \in Seq(Unit)
    BY BufferAssumption DEF ChunkSizes, TypeOK, MasterTypeOK
  <2> DEFINE chunk == SubSeq(net, 1, size)
             m == Msg("tcp", chunk, 0)
  <2>3. chunk \in Seq(Unit) /\ chunk[1] = net[1] /\ 1 \in DOMAIN net
    BY <2>2, PartType
  <2>4. \A i \in DOMAIN net' : \E j \in DOMAIN net : net'[i] = net[j]
    <3>1. \A i \in DOMAIN net' : i + size \in DOMAIN net /\ net'[i] = net[i + size]
      BY <2>1, <2>2
    <3> QED BY <3>1
  <2>5. m \in Message /\ m.t = "tcp" /\ m.data = chunk
    BY <2>3, MakeMessage DEF SocketMsgs, Msg
  <2>6. /\ mb' = Append(mb, m) /\ where' = where /\ state' = state /\ mode' = mode /\ req' = req
        /\ sock = "active" /\ sock' = "passive"
    BY <1>3, <2>1 DEF DeliverData, Deliver, stateVars
  <2> HIDE DEF m, chunk
  <2>7. where = "reAuth" => RecvResult(m) # "pong"
    BY <2>3, <2>5, PongIs DEF AwayOK
  <2> QED BY <2>4, <2>5, <2>6, <2>7, AddAway DEF Casts
<1>4. CASE DeliverClosed \/ DeliverError
  <2>1. PICK type \in Closings :
          /\ mb' = Append(mb, Plain(type)) /\ where' = where /\ state' = state /\ mode' = mode
          /\ sock = "active" /\ sock' = "none" /\ req' = req /\ net' = net
    BY <1>4 DEF DeliverClosed, DeliverError, Deliver, Closings, stateVars, masterVars
  <2>2. Plain(type) \in Message /\ Plain(type).t = type
    BY MakePlain DEF Plain, Msg, SocketMsgs, Closings
  <2>3. RecvResult(Plain(type)) # "pong"
    BY <2>2 DEF RecvResult, Closings
  <2> QED BY <2>1, <2>2, <2>3, AddAway DEF Casts, Closings
<1> QED BY <1>1, <1>2, <1>3, <1>4

\* The master says PONG to nothing but PING.
NoPong(units) == \A i \in DOMAIN units : units[i].k # "pong"

LEMMA JoinPongless ==
    ASSUME NEW s \in Seq(Unit), NEW t \in Seq(Unit), NoPong(s), NoPong(t)
    PROVE  s \o t \in Seq(Unit) /\ NoPong(s \o t)
<1>1. \A i \in DOMAIN (s \o t) :
          \/ i \in DOMAIN s /\ (s \o t)[i] = s[i]
          \/ i - Len(s) \in DOMAIN t /\ (s \o t)[i] = t[i - Len(s)]
  OBVIOUS
<1> QED BY <1>1 DEF NoPong

\* What the master sends of its snapshot and its history is no PONG.
LEMMA PayloadPongless ==
    ASSUME NEW keys \in Seq({"key", "dkey"}), NEW at \in Nat
    PROVE  NoPong(Payload(keys, at))
<1> DEFINE Part(kind, num) == [k |-> kind, n |-> num, r |-> at]
           head == <<Part("len", 0), Part("magic", 0)>>
           body == [i \in 1 .. Len(keys) |-> Part(keys[i], i)]
           tail == <<Part("eof", Len(keys))>>
<1>1. NoPong(head) /\ NoPong(tail)
  BY DEF NoPong
<1>2. NoPong(body)
  BY DEF NoPong
<1>3. head \in Seq(Unit) /\ body \in Seq(Unit) /\ tail \in Seq(Unit)
  <2>1. \A kind \in PayloadKinds, num \in Nat : Part(kind, num) \in Unit
    BY DEF Unit
  <2>2. Part("len", 0) \in Unit /\ Part("magic", 0) \in Unit /\ Part("eof", Len(keys)) \in Unit
    BY <2>1 DEF PayloadKinds
  <2>3. \A i \in 1 .. Len(keys) : Part(keys[i], i) \in Unit
    BY <2>1 DEF PayloadKinds
  <2> HIDE DEF Part
  <2> QED BY <2>2, <2>3
<1>4. Payload(keys, at) = head \o body \o tail
  BY DEF Payload
<1> HIDE DEF head, body, tail
<1>5. ASSUME NEW s \in Seq(Unit), NEW t \in Seq(Unit), NoPong(s), NoPong(t)
      PROVE  s \o t \in Seq(Unit) /\ NoPong(s \o t)
  BY <1>5, JoinPongless
<1>6. PICK hb \in Seq(Unit) : hb = head \o body /\ NoPong(hb)
  BY <1>1, <1>2, <1>3, <1>5
<1>7. NoPong(hb \o tail)
  BY <1>1, <1>3, <1>5, <1>6
<1> QED BY <1>4, <1>6, <1>7

LEMMA HistPongless ==
    ASSUME NEW from \in Nat \ {0}, NEW to \in Nat
    PROVE  NoPong(HistUnits(from, to))
<1>1. ASSUME NEW p \in Nat \ {0}  PROVE HistUnit(p).k # "pong"
  <2>1. (p - 1) % CmdUnits \in 0 .. 2
    BY DEF CmdUnits
  <2> QED BY <2>1 DEF HistUnit, Mk
<1>2. \A i \in 1 .. (to - from + 1) : HistUnit(from + i - 1).k # "pong"
  BY <1>1
<1> QED BY <1>2 DEF HistUnits, NoPong

LEMMA MasterSilent ==
    ASSUME TypeOK, req.c # "PING", NoPong(net),
           Master \/ ((MWrite \/ MRefuse \/ MKeepalive \/ MDrop \/ MCrash) /\ Unserved)
    PROVE  req'.c # "PING" /\ NoPong(net')
<1>1. net \in Seq(Unit)
  BY DEF TypeOK, MasterTypeOK
<1>2. NoRequest.c # "PING"
  BY DEF NoRequest, Request
<1>3. ASSUME NEW more \in Seq(Unit), NoPong(more)
      PROVE  NoPong(net \o more)
  BY <1>1, <1>3, JoinPongless
<1>4. ASSUME NEW unit \in Unit, unit.k # "pong"
      PROVE  NoPong(Append(net, unit))
  BY <1>1, <1>4 DEF NoPong
<1>5. ASSUME Cut
      PROVE  NoPong(net')
  BY <1>1, <1>5 DEF Cut, NoPong
<1>6. CASE MReply
  <2>1. PICK kind \in ReplyKinds \ {"pong"} : net' = Append(net, Mk(kind, 0)) /\ req' = NoRequest
    BY <1>6, MasterAssumption DEF MReply, Asked, Answer, ReplyKinds
  <2>2. Mk(kind, 0) \in Unit /\ Mk(kind, 0).k # "pong"
    BY UnitOf DEF Mk
  <2> QED BY <2>1, <2>2, <1>2, <1>4
<1>7. CASE MFullSync
  <2>1. HistEnd \in Nat /\ mrun \in Nat
    BY DEF HistEnd, CmdUnits, TypeOK, MasterTypeOK
  <2>2. FullResync(mrun, HistEnd) \in Unit /\ FullResync(mrun, HistEnd).k # "pong"
    BY <2>1 DEF FullResync, Unit, ReplyKinds
  <2> QED BY <1>7, <2>2, <1>2, <1>4 DEF MFullSync, Answer
<1>8. CASE MContinue
  <2>1. Mk("continue", 0) \in Unit /\ Mk("continue", 0).k # "pong"
    BY UnitOf DEF Mk, ReplyKinds
  <2> QED BY <1>8, <2>1, <1>2, <1>4 DEF MContinue, Answer
<1>9. CASE MSendRdb
  <2>1. PICK keys \in Snapshots : net' = net \o Payload(keys, mpos)
    BY <1>9 DEF MSendRdb
  <2>2. keys \in Seq({"key", "dkey"}) /\ mpos \in Nat
    BY MasterAssumption DEF TypeOK, MasterTypeOK
  <2>3. Payload(keys, mpos) \in Seq(Unit)
    BY <2>2, PayloadType
  <2>4. NoPong(Payload(keys, mpos))
    BY <2>2, PayloadPongless
  <2> QED BY <1>9, <2>1, <2>3, <2>4, <1>3 DEF MSendRdb
<1>10. CASE MFlush
  <2>1. mpos + 1 \in Nat \ {0} /\ HistEnd \in Nat
    BY DEF HistEnd, CmdUnits, TypeOK, MasterTypeOK
  <2>2. HistUnits(mpos + 1, HistEnd) \in Seq(Unit)
    BY <2>1, HistUnitsType
  <2>3. NoPong(HistUnits(mpos + 1, HistEnd))
    BY <2>1, HistPongless
  <2> QED BY <1>10, <2>2, <2>3, <1>3 DEF MFlush
<1>11. CASE MRefuse
  <2>1. Mk("err", 0) \in Unit /\ Mk("err", 0).k # "pong"
    BY UnitOf DEF Mk, ReplyKinds
  <2> QED BY <1>11, <2>1, <1>2, <1>4 DEF MRefuse, Answer
<1>12. CASE MKeepalive
  <2>1. Mk("lf", 0) \in Unit /\ Mk("lf", 0).k # "pong"
    BY UnitOf DEF Mk, StreamKinds
  <2> QED BY <1>12, <2>1, <1>4 DEF MKeepalive
<1>13. CASE MDrop \/ MCrash
  BY <1>13, <1>2, <1>5 DEF MDrop, MCrash, Cut
<1>14. CASE MBoot \/ MLoaded \/ MWrite
  BY <1>14 DEF MBoot, MLoaded, MWrite
<1> QED BY <1>6, <1>7, <1>8, <1>9, <1>10, <1>11, <1>12, <1>13, <1>14 DEF Master

LEMMA ThreadMaster ==
    ASSUME TypeOK, AwayOK, PlaceOK, state = "reconnect",
           Master \/ ((MWrite \/ MRefuse \/ MKeepalive \/ MDrop \/ MCrash) /\ Unserved)
    PROVE  Thread'
<1>1. UNCHANGED <<where, mb, sock, state, mode>>
  BY DEF Master, Unserved, serverVars, procVars, stateVars
<1>2. where' = "reAuth" => req'.c # "PING" /\ \A i \in DOMAIN net' : net'[i].k # "pong"
  BY <1>1, MasterSilent DEF AwayOK, NoPong
<1>3. AwayOK'
  BY <1>1, <1>2 DEF AwayOK
<1>4. PlaceOK'
  BY <1>1 DEF PlaceOK
<1> QED BY <1>1, <1>3, <1>4 DEF Thread

\* A step from outside a reconnection that leads into one: InfoTcpClosed.
LEMMA Arrived ==
    ASSUME TypeOK', MailOK', where' = "idle", state' = "reconnect", sock' = "none"
    PROVE  AwayOK'
<1>1. NoneOf(mb', SocketMsgs)
  BY DEF MailOK, SocketOK
<1>2. \A i \in DOMAIN mb' : mb'[i] \in Message /\ mb'[i].t \notin SocketMsgs
  BY <1>1 DEF NoneOf, TypeOK, ServerTypeOK
<1>3. \A i \in DOMAIN mb' : RecvResult(mb'[i]) # "pong"
  BY <1>2, PongIs DEF SocketMsgs
<1>4. \A i \in DOMAIN mb' : mb'[i].t \in Casts => mb'[i].t = "new_connection"
  BY DEF MailOK, NeverWedged, Expected, ExpectedCast, ExpectedInfo, Casts
<1>5. ~NoneOf(mb', Casts)
  BY DEF MailOK, NeverWedged
<1> QED BY <1>3, <1>4, <1>5 DEF AwayOK

LEMMA IntoReconnect ==
    ASSUME PlaceOK, state # "reconnect", [Next]_vars, state' = "reconnect"
    PROVE  where' = "idle" /\ sock' = "none"
<1>1. CASE Handler
  <2>1. ~(where \in {"reAuth", "rePing"})
    BY DEF PlaceOK
  <2>2. CASE InfoTcpClosed
    BY <2>2 DEF InfoTcpClosed, Continue
  <2> QED
    BY <1>1, <2>1, <2>2
       DEF Handler, Boot, BootRefused, BootAuthOk, BootPong, BootLoading, BootFailed, Received,
           CastRepl, CastCapa, CastPsync, CastSync, CastPsyncPayload, CastRst, RecvPort, RecvCapa,
           RecvContinue, RecvFullResync, RecvBulk, RecvFailed, SaveBuffering, SavePayload, LoadRdb,
           LoadFailed, InfoLoading, InfoLoadingEof, CastReplication, InfoTcpQuiet, InfoTcpBuffer,
           InfoTcpCommands, InfoTcp, InfoTcpFailed, InfoTcpError, Reconnect, ReconnectRefused,
           ReAuthOk, ReAuthThrows, RePong, ReconnectFailed, CallShutdown, Generic, AskOrFail, Ask,
           Stop, Die, stateVars
<1> QED
  BY <1>1
     DEF Next, Start, InfoTimeout, DeliverData, DeliverClosed, DeliverError, Deliver, Master, World,
         Unserved, DiskFailed, Disturb, Killed, Die, vars, serverVars, procVars, stateVars

LEMMA ThreadNext ==
    ASSUME TypeOK, Thread, [Next]_vars
    PROVE  Thread'
<1>1. CASE state # "reconnect"
  <2>1. Inv'
    BY <1>1, InvNext DEF Inv, Thread
  <2>2. state' = "reconnect" => AwayOK'
    BY <1>1, <2>1, IntoReconnect, Arrived DEF Inv, Thread
  <2> QED BY <2>1, <2>2 DEF Inv, Thread
<1>2. CASE state = "reconnect"
  <2>1. AwayOK /\ PlaceOK /\ where \in {"idle", "reAuth", "rePing"}
    BY <1>2 DEF Thread, PlaceOK, TypeOK, ServerTypeOK, Places, Receiving
  <2>2. CASE Handler
    BY <1>2, <2>1, <2>2, ThreadIdle, ThreadWait
  <2>3. CASE DeliverData \/ DeliverClosed
    BY <1>2, <2>1, <2>3, ThreadWorld
  <2>4. CASE Master \/ World
    BY <1>2, <2>1, <2>4, ThreadMaster, ThreadWorld DEF World
  <2>5. CASE UNCHANGED vars
    <3>1. AwayOK' /\ PlaceOK'
      BY <2>1, <2>5
         DEF AwayOK, PlaceOK, vars, masterVars, serverVars, procVars, stateVars
    <3> QED BY <1>2, <2>5, <3>1 DEF Thread, vars, serverVars, stateVars
  <2>6. ~Start /\ ~InfoTimeout
    BY <1>2, <2>1 DEF Start, InfoTimeout
  <2> QED BY <2>2, <2>3, <2>4, <2>5, <2>6 DEF Next
<1> QED BY <1>1, <1>2

-----------------------------------------------------------------------------
(* The line to the master.                                                  *)

Listens == where \in Receiving \/ (where = "idle" /\ state # "reconnect")

\* The first message is taken, which is not the end of the connection, and others
\* may follow it.
LEMMA LineKept ==
    ASSUME TypeOK, LineOK, mb # <<>>, Head(mb).t \notin Closings,
           NEW next \in Seq(Message), mb' = Tail(mb) \o next,
           sock' = "none" => Listens /\ sock = "none",
           where' = "idle" /\ state' = "stream" /\ sock' = "passive" =>
               \/ ~NoneOf(next, {"tcp", "replication"})
               \/ /\ where = "idle" /\ state = "stream" /\ sock = "passive"
                  /\ Head(mb).t \notin {"tcp", "replication"}
    PROVE  LineOK'
<1>1. mb \in Seq(Message) /\ Tail(mb) \in Seq(Message)
  BY TakeMessage DEF TypeOK, ServerTypeOK
<1>2. ASSUME NEW T, Head(mb).t \notin T, ~NoneOf(mb, T)
      PROVE  ~NoneOf(mb', T)
  <2>1. ~NoneOf(Tail(mb), T)
    BY <1>1, <1>2, TailSome
  <2> QED BY <1>1, <2>1, ConcatMessages DEF NoneOf
<1>3. ASSUME NEW T, ~NoneOf(next, T)
      PROVE  ~NoneOf(mb', T)
  <2>1. PICK i \in DOMAIN next : next[i].t \in T
    BY <1>3 DEF NoneOf
  <2>2. Len(Tail(mb)) + i \in DOMAIN mb' /\ mb'[Len(Tail(mb)) + i] = next[i]
    BY <1>1, <2>1
  <2> QED BY <2>1, <2>2 DEF NoneOf
<1>4. sock' = "none" => ~NoneOf(mb', Closings)
  BY <1>2 DEF LineOK, Listens
<1>5. where' = "idle" /\ state' = "stream" /\ sock' = "passive" =>
          ~NoneOf(mb', {"tcp", "replication"})
  BY <1>2, <1>3 DEF LineOK
<1> QED BY <1>4, <1>5 DEF LineOK

\* A message is added to the mailbox, and the socket may have done it.
LEMMA LineAdded ==
    ASSUME TypeOK, LineOK, NEW m \in Message, mb' = Append(mb, m),
           where' = where, state' = state,
           sock' = "none" => sock = "none" \/ m.t \in Closings,
           sock' = "passive" => sock = "passive" \/ m.t = "tcp"
    PROVE  LineOK'
<1>1. mb \in Seq(Message)
  BY DEF TypeOK, ServerTypeOK
<1>2. \A T : ~NoneOf(mb, T) \/ m.t \in T => ~NoneOf(mb', T)
  BY <1>1, AddOne DEF NoneOf
<1> QED BY <1>2 DEF LineOK

LEMMA LineIdle ==
    ASSUME LineOK, UNCHANGED <<where, mb, sock, state>>
    PROVE  LineOK'
BY DEF LineOK

LEMMA LineOver ==
    ASSUME where' \in {"down", "boot"} \/ (where' = "idle" /\ state' = "reconnect")
    PROVE  LineOK'
BY DEF LineOK, Receiving

\* What recv_sock/1 accepts came from the socket, and was not its end.
LEMMA Accepted ==
    ASSUME Result # "error"
    PROVE  Head(mb).t = "tcp"
BY DEF Result, RecvResult

LEMMA LineAsk ==
    ASSUME TypeOK, LineOK, where = "idle", state \notin {"stream", "reconnect"}, mb # <<>>,
           Head(mb).t \notin Closings, NEW request, AskOrFail(request)
    PROVE  LineOK'
<1>1. CASE Ask(request)
  <2>1. mb' = Tail(mb) \o <<>> /\ <<>> \in Seq(Message)
    BY <1>1, HeadParts, EmptySeqs DEF Ask
  <2>2. where' = "reply" /\ (sock' = "none" => sock = "none")
    BY <1>1 DEF Ask, Activated
  <2> QED BY <2>1, <2>2, LineKept DEF Listens
<1>2. CASE Stop
  BY <1>2, LineOver DEF Stop, Die
<1> QED BY <1>1, <1>2 DEF AskOrFail

LEMMA LineHandshake ==
    ASSUME TypeOK, PlaceOK, LineOK,
           \/ BootAuthOk \/ BootPong \/ BootLoading \/ CastRepl \/ CastCapa \/ CastPsync \/ CastSync
           \/ CastPsyncPayload \/ CastRst \/ RecvPort \/ RecvCapa
    PROVE  LineOK'
<1>1. CASE BootAuthOk
  <2>1. mb # <<>> /\ Head(mb).t = "tcp" /\ mb' = Tail(mb) \o <<>> /\ <<>> \in Seq(Message)
    BY <1>1, HeadParts, EmptySeqs, Accepted DEF BootAuthOk, Received, Authenticated
  <2>2. where = "bootAuth" /\ where' = "bootPing" /\ (sock' = "none" => sock = "none")
    BY <1>1 DEF BootAuthOk, Received, Activated
  <2> QED BY <2>1, <2>2, LineKept DEF Listens, Receiving, Closings
<1>2. CASE BootPong
  <2>1. mb # <<>> /\ Head(mb).t = "tcp" /\ mb' = Tail(mb) \o <<Plain("repl")>>
    BY <1>2, Accepted DEF BootPong, Received, Continue
  <2>2. <<Plain("repl")>> \in Seq(Message)
    BY CastOne DEF Casts
  <2>3. where = "bootPing" /\ state' = "list" /\ sock' = sock
    BY <1>2 DEF BootPong, Received
  <2> QED BY <2>1, <2>2, <2>3, LineKept DEF Listens, Receiving, Closings
<1>3. CASE BootLoading
  BY <1>3, LineOver DEF BootLoading
<1>4. CASE CastRepl
  BY <1>4, LineAsk DEF CastRepl, Handles, Closings
<1>5. CASE CastCapa
  BY <1>5, LineAsk DEF CastCapa, Handles, Closings
<1>6. CASE CastPsync
  BY <1>6, LineAsk DEF CastPsync, Handles, Closings
<1>7. CASE CastSync
  BY <1>7, LineAsk DEF CastSync, Handles, Closings
<1>8. CASE CastPsyncPayload
  <2>1. CASE mode = "psync"
    <3>1. /\ where = "idle" /\ state = "payload" /\ mb # <<>> /\ Head(mb).t = "psync"
          /\ where' = "reply" /\ (sock' = "none" => sock = "none") /\ mb' = Tail(mb) \o <<>>
          /\ <<>> \in Seq(Message)
      BY <1>8, <2>1, HeadParts, EmptySeqs DEF CastPsyncPayload, Handles, Activated
    <3> QED BY <3>1, LineKept DEF Listens, Closings
  <2>2. CASE mode # "psync"
    BY <1>8, <2>2, LineOver DEF CastPsyncPayload, Stop, Die
  <2> QED BY <2>1, <2>2
<1>9. CASE CastRst
  <2>1. /\ where = "idle" /\ state = "reconnect3" /\ mb # <<>> /\ Head(mb).t = "rst"
        /\ state' = "load" /\ sock' = sock /\ mb' = Tail(mb) \o <<Plain(mode)>>
    BY <1>9 DEF CastRst, Handles, Continue
  <2>2. <<Plain(mode)>> \in Seq(Message)
    BY CastOne DEF TypeOK, ServerTypeOK
  <2> QED BY <2>1, <2>2, LineKept DEF Listens, Closings
<1>10. CASE RecvPort
  <2>1. /\ where = "reply" /\ mb # <<>> /\ Head(mb).t = "tcp" /\ sock' = sock /\ state' # "stream"
        /\ \E next \in {<<Plain("capa")>>, <<Plain("rst")>>} : mb' = Tail(mb) \o next
    BY <1>10, Accepted DEF RecvPort, Received, Continue
  <2>2. <<Plain("capa")>> \in Seq(Message) /\ <<Plain("rst")>> \in Seq(Message)
    BY CastOne DEF Casts
  <2> QED BY <2>1, <2>2, LineKept DEF Listens, Receiving, Closings
<1>11. CASE RecvCapa
  <2>1. /\ where = "reply" /\ mb # <<>> /\ Head(mb).t = "tcp" /\ sock' = sock /\ state' = "load"
        /\ Result \in {"psync", "sync"} /\ mb' = Tail(mb) \o <<Plain(Result)>>
    BY <1>11, Accepted DEF RecvCapa, Received, Continue
  <2>2. <<Plain(Result)>> \in Seq(Message)
    BY <2>1, CastOne DEF Casts
  <2> QED BY <2>1, <2>2, LineKept DEF Listens, Receiving, Closings
<1> QED BY <1>1, <1>2, <1>3, <1>4, <1>5, <1>6, <1>7, <1>8, <1>9, <1>10, <1>11

LEMMA LineSync ==
    ASSUME TypeOK, LineOK,
           RecvContinue \/ RecvFullResync \/ RecvBulk \/ SaveBuffering \/ SavePayload \/ LoadRdb
           \/ InfoLoading \/ InfoLoadingEof
    PROVE  LineOK'
<1> DEFINE go == Plain("replication")
<1>0. go \in Message /\ go.t = "replication"
  BY PlainMessage DEF Casts
<1>1. CASE RecvContinue
  <2> DEFINE rest == Msg("tcp", Tail(Head(mb).data), 0)
             next == <<rest, go>>
  <2>1. /\ where = "reply" /\ mb # <<>> /\ Head(mb).t = "tcp" /\ sock' = sock
        /\ mb' = Tail(mb) \o next /\ ChunkResult(Head(mb).data) = "continue"
    BY <1>1, Accepted DEF RecvContinue, Received, Continue, Result, RecvResult
  <2>2. Tail(Head(mb).data) \in Seq(Unit)
    <3>1. Head(mb).data \in Seq(Unit)
      BY <2>1, HeadParts
    <3>2. Head(mb).data # <<>>
      BY <2>1, <3>1, ChunkHead
    <3>3. \A u \in Seq(Unit) : u # <<>> => Tail(u) \in Seq(Unit)
      OBVIOUS
    <3> QED BY <3>1, <3>2, <3>3
  <2>3. next \in Seq(Message)
    <3>1. rest \in Message
      BY <2>2, MakeMessage DEF SocketMsgs
    <3> HIDE DEF rest, go
    <3> QED BY <3>1, <1>0
  <2>4. ~NoneOf(next, {"tcp", "replication"})
    <3>1. 2 \in DOMAIN next /\ next[2] = go
      OBVIOUS
    <3> QED BY <3>1, <1>0 DEF NoneOf
  <2> HIDE DEF next
  <2> QED BY <2>1, <2>3, <2>4, LineKept DEF Listens, Receiving, Closings
<1>2. CASE RecvFullResync
  <2>1. /\ where = "reply" /\ mb # <<>> /\ Head(mb).t = "tcp" /\ sock' = sock /\ state' = "payload"
        /\ mb' = Tail(mb) \o <<Plain("psync")>>
    BY <1>2, Accepted DEF RecvFullResync, Received, Continue
  <2>2. <<Plain("psync")>> \in Seq(Message)
    BY CastOne DEF Casts
  <2> QED BY <2>1, <2>2, LineKept DEF Listens, Receiving, Closings
<1>3. CASE RecvBulk
  <2> DEFINE m == Msg("save_rdb", Head(mb).data, IF state = "buffering" THEN 1 ELSE 0)
  <2>1. /\ where = "reply" /\ mb # <<>> /\ Head(mb).t = "tcp" /\ sock' = sock /\ state' # "stream"
        /\ mb' = Tail(mb) \o <<m>>
    BY <1>3, Accepted DEF RecvBulk, Received, Continue
  <2>2. <<m>> \in Seq(Message)
    BY <2>1, HeadParts, MakeMessage, OneMessage DEF Casts
  <2> HIDE DEF m
  <2> QED BY <2>1, <2>2, LineKept DEF Listens, Receiving, Closings
<1>4. CASE SaveBuffering
  <2>1. /\ where = "idle" /\ state = "buffering" /\ mb # <<>> /\ Head(mb).t = "save_rdb"
        /\ where' = "reply" /\ (sock' = "none" => sock = "none") /\ mb' = Tail(mb) \o <<>>
        /\ <<>> \in Seq(Message)
    BY <1>4, HeadParts, EmptySeqs DEF SaveBuffering, Handles, Activated
  <2> QED BY <2>1, LineKept DEF Listens, Closings
<1>5. CASE SavePayload
  <2>1. /\ where = "idle" /\ state = "payload" /\ state' = state /\ mb # <<>>
        /\ Head(mb).t = "save_rdb" /\ sock' = sock /\ mb' = Tail(mb) \o <<Plain("load_rdb")>>
    BY <1>5 DEF SavePayload, Handles, Continue, stateVars
  <2>2. <<Plain("load_rdb")>> \in Seq(Message)
    BY CastOne DEF Casts
  <2> QED BY <2>1, <2>2, LineKept DEF Listens, Closings
<1>6. CASE LoadRdb
  <2> DEFINE next == LoadMessages \o <<go>>
  <2>1. /\ where = "idle" /\ state = "payload" /\ mb # <<>> /\ Head(mb).t = "load_rdb"
        /\ sock' = sock /\ mb' = Tail(mb) \o next /\ EofAt(file) \in 2 .. Len(file)
    BY <1>6 DEF LoadRdb, Handles, Continue, Loadable, EofAt
  <2>2. LoadMessages \in Seq(Message)
    BY <2>1, LoadMessagesType
  <2>3. next \in Seq(Message) /\ ~NoneOf(next, {"tcp", "replication"})
    <3> HIDE DEF go
    <3>1. next = Append(LoadMessages, go)
      BY <2>2, <1>0, AddOne
    <3> QED BY <2>2, <3>1, <1>0, AddOne DEF NoneOf
  <2> HIDE DEF next
  <2> QED BY <2>1, <2>3, LineKept DEF Listens, Closings
<1>7. CASE InfoLoading \/ InfoLoadingEof
  <2>1. /\ where = "idle" /\ mb # <<>> /\ Head(mb).t \in {"loading", "loading_eof"}
        /\ sock' = sock /\ state' = state /\ where' = "idle" /\ mb' = Tail(mb) \o <<>>
        /\ <<>> \in Seq(Message)
    BY <1>7, EmptySeqs DEF InfoLoading, InfoLoadingEof, Handles, Continue, stateVars
  <2>2. CASE state = "reconnect"
    BY <2>1, <2>2, LineOver
  <2>3. CASE state # "reconnect"
    BY <2>1, <2>3, LineKept DEF Listens, Closings
  <2> QED BY <2>2, <2>3
<1> QED BY <1>1, <1>2, <1>3, <1>4, <1>5, <1>6, <1>7

LEMMA LineStream ==
    ASSUME TypeOK, PlaceOK, LineOK,
           CastReplication \/ InfoTcpQuiet \/ InfoTcpBuffer \/ InfoTcpCommands \/ InfoTimeout
           \/ Generic
    PROVE  LineOK'
<1>1. CASE CastReplication \/ InfoTcpQuiet \/ InfoTcpBuffer \/ InfoTcpCommands
  <2>1. /\ where = "idle" /\ state = "stream" /\ mb # <<>> /\ Head(mb).t \in {"tcp", "replication"}
        /\ sock' = Activated /\ mb' = Tail(mb)
    BY <1>1
       DEF CastReplication, InfoTcpQuiet, InfoTcpBuffer, InfoTcpCommands, InfoTcp, Handles
  <2>2. mb' = Tail(mb) \o <<>> /\ <<>> \in Seq(Message)
    BY <2>1, HeadParts, EmptySeqs
  <2>3. (sock' = "none" => sock = "none") /\ sock' # "passive"
    BY <2>1 DEF Activated
  <2> QED BY <2>1, <2>2, <2>3, LineKept DEF Listens, Closings
<1>2. CASE InfoTimeout
  BY <1>2, LineIdle DEF InfoTimeout, procVars, stateVars
<1>3. CASE Generic
  <2>1. /\ where = "idle" /\ mb # <<>> /\ ~Expected(Head(mb)) /\ sock' = sock /\ state' = state
        /\ where' = "idle" /\ mb' = Tail(mb) \o <<>> /\ <<>> \in Seq(Message)
    BY <1>3, EmptySeqs DEF Generic, Continue, stateVars
  <2>2. CASE state = "reconnect"
    BY <2>1, <2>2, LineOver
  <2>3. CASE state # "reconnect"
    <3>1. Head(mb).t \notin Closings
      BY <2>1 DEF Expected, ExpectedCast, ExpectedInfo, Closings
    <3>2. state = "stream" => Head(mb).t \notin {"tcp", "replication"}
      BY <2>1 DEF Expected, ExpectedCast, ExpectedInfo, PlaceOK
    <3> QED BY <2>1, <2>3, <3>1, <3>2, LineKept DEF Listens
  <2> QED BY <2>2, <2>3
<1> QED BY <1>1, <1>2, <1>3

LEMMA LineReconnect ==
    ASSUME TypeOK, PlaceOK, LineOK,
           InfoTcpClosed \/ Reconnect \/ ReconnectRefused \/ ReAuthOk \/ ReAuthThrows \/ RePong
    PROVE  LineOK'
<1>1. CASE InfoTcpClosed \/ ReconnectRefused \/ ReAuthThrows
  BY <1>1, LineOver DEF InfoTcpClosed, ReconnectRefused, ReAuthThrows, Retry, Continue
<1>2. CASE Reconnect
  BY <1>2 DEF Reconnect, LineOK
<1>3. CASE ReAuthOk
  <2>1. mb # <<>> /\ Head(mb).t = "tcp" /\ mb' = Tail(mb) \o <<>> /\ <<>> \in Seq(Message)
    BY <1>3, HeadParts, EmptySeqs, Accepted DEF ReAuthOk, Received, Authenticated
  <2>2. where = "reAuth" /\ where' = "rePing" /\ (sock' = "none" => sock = "none")
    BY <1>3 DEF ReAuthOk, Received, Activated
  <2> QED BY <2>1, <2>2, LineKept DEF Listens, Receiving, Closings
<1>4. CASE RePong
  <2>1. mb # <<>> /\ Head(mb).t = "tcp" /\ mb' = Tail(mb) \o <<Plain("repl")>>
    BY <1>4, Accepted DEF RePong, Received, Continue
  <2>2. <<Plain("repl")>> \in Seq(Message)
    BY CastOne DEF Casts
  <2>3. where = "rePing" /\ state' = "reconnect2" /\ sock' = sock
    BY <1>4 DEF RePong, Received
  <2> QED BY <2>1, <2>2, <2>3, LineKept DEF Listens, Receiving, Closings
<1> QED BY <1>1, <1>2, <1>3, <1>4

LEMMA LineWorld ==
    ASSUME TypeOK, LineOK,
           Disturb \/ DeliverData \/ DeliverClosed \/ DeliverError
    PROVE  LineOK'
<1>1. CASE Disturb
  <2>1. PICK type \in {"shutdown", "noise"} : mb' = Append(mb, Plain(type))
    BY <1>1 DEF Disturb
  <2>2. Plain(type) \in Message
    BY MakePlain DEF OtherMsgs
  <2> QED BY <1>1, <2>1, <2>2, LineAdded DEF Disturb, stateVars
<1>2. CASE DeliverData
  <2>1. PICK size \in ChunkSizes : Deliver(Msg("tcp", SubSeq(net, 1, size), 0))
    BY <1>2 DEF DeliverData
  <2>2. size \in 1 .. Len(net)
    BY BufferAssumption DEF ChunkSizes, TypeOK, MasterTypeOK
  <2>3. SubSeq(net, 1, size) \in Seq(Unit)
    BY <2>2, PartType DEF TypeOK, MasterTypeOK
  <2> DEFINE m == Msg("tcp", SubSeq(net, 1, size), 0)
  <2>4. m \in Message /\ m.t = "tcp"
    BY <2>3, MakeMessage DEF SocketMsgs, Msg
  <2>5. mb' = Append(mb, m) /\ where' = where /\ state' = state /\ sock' = "passive"
    BY <1>2, <2>1 DEF DeliverData, Deliver, stateVars
  <2> HIDE DEF m
  <2> QED BY <2>4, <2>5, LineAdded
<1>3. CASE DeliverClosed \/ DeliverError
  <2>1. PICK type \in Closings :
          mb' = Append(mb, Plain(type)) /\ where' = where /\ state' = state /\ sock' = "none"
    BY <1>3 DEF DeliverClosed, DeliverError, Deliver, Closings, stateVars
  <2>2. Plain(type) \in Message /\ Plain(type).t = type
    BY MakePlain DEF Plain, Msg, SocketMsgs, Closings
  <2> QED BY <2>1, <2>2, LineAdded
<1> QED BY <1>1, <1>2, <1>3

LEMMA LineNext ==
    ASSUME TypeOK, PlaceOK, LineOK, [Next]_vars
    PROVE  LineOK'
<1>1. CASE Start
  BY <1>1, LineOver DEF Start
<1>2. CASE Handler
  <2>1. CASE Boot
    BY <2>1 DEF Boot, LineOK
  <2>2. CASE Stop
    BY <2>2, LineOver DEF Stop, Die
  <2> QED
    BY <1>2, <2>1, <2>2, LineHandshake, LineSync, LineStream, LineReconnect
       DEF Handler, BootRefused, BootFailed, RecvFailed, LoadFailed, InfoTcpFailed, InfoTcpError,
           ReconnectFailed, CallShutdown
<1>3. CASE InfoTimeout
  BY <1>3, LineStream
<1>4. CASE DeliverData \/ DeliverClosed \/ DeliverError \/ Disturb
  BY <1>4, LineWorld
<1>5. CASE Unserved \/ UNCHANGED vars
  BY <1>5, LineIdle DEF Unserved, vars, serverVars, procVars, stateVars
<1>6. CASE Killed \/ DiskFailed
  BY <1>6, LineOver DEF Killed, DiskFailed, Die
<1> QED BY <1>1, <1>2, <1>3, <1>4, <1>5, <1>6 DEF Next, Master, World

-----------------------------------------------------------------------------
(* The theorems.                                                            *)

LEMMA IInvParts == IInv <=> TypeOK /\ Thread /\ LineOK
BY DEF IInv, Thread, MailOK

LEMMA IInvInit == Init => IInv
<1> SUFFICES ASSUME Init PROVE IInv
  OBVIOUS
<1>1. Inv /\ where = "down" /\ state = "undefined"
  BY InvInit DEF Init
<1>2. LineOK
  BY <1>1 DEF LineOK, Receiving
<1> QED BY <1>1, <1>2, IInvParts DEF Inv, Thread

LEMMA IInvNext == IInv /\ [Next]_vars => IInv'
<1> SUFFICES ASSUME IInv, [Next]_vars PROVE IInv'
  OBVIOUS
<1>1. TypeOK /\ Thread /\ PlaceOK /\ LineOK
  BY DEF IInv, Thread, MailOK
<1>2. TypeOK' /\ Thread' /\ LineOK'
  BY <1>1, TypeNext, ThreadNext, LineNext
<1> QED BY <1>2 DEF IInv, Thread, MailOK

\* The places, states, socket and mailbox of the server always go together: the
\* invariant of its protocol, for every buffer size, master and disturbance, with a
\* password and without.
THEOREM Protocol == Spec => []IInv
BY IInvInit, IInvNext, PTL DEF Spec

\* Whenever the server is back in its loop before streaming, a cast to itself is
\* pending that a clause of handle_cast/2 takes: no failure, restart, refusal, wrong
\* password, stray message or fragmentation of the stream stops the protocol.
THEOREM NotStuck == Spec => []NeverStuck
<1>1. IInv => NeverStuck
  <2> SUFFICES ASSUME IInv, where = "idle", state # "stream"
               PROVE  \E i \in DOMAIN mb : mb[i].t \in Casts /\ Expected(mb[i])
    BY DEF NeverStuck
  <2>1. CASE state = "reconnect"
    <3>1. PICK i \in DOMAIN mb : mb[i].t \in Casts
      BY <2>1 DEF IInv, AwayOK, NoneOf
    <3>2. mb[i].t = "new_connection"
      BY <2>1, <3>1 DEF IInv, AwayOK
    <3> QED BY <2>1, <3>1, <3>2 DEF Expected, ExpectedCast, ExpectedInfo
  <2>2. CASE state # "reconnect"
    BY <2>2 DEF IInv, NeverWedged, NoneOf
  <2> QED BY <2>1, <2>2
<1> QED BY <1>1, Protocol, PTL

\* An idle server that streams can always learn what the master does: its socket is
\* active, or what makes it active or gives it up is waiting in the mailbox.
THEOREM NotDeaf == Spec => []NeverDeaf
<1>1. IInv => NeverDeaf
  <2> SUFFICES ASSUME IInv, where = "idle", state = "stream", sock # "active"
               PROVE  \E i \in DOMAIN mb : mb[i].t \in SocketMsgs \cup {"replication"}
    BY DEF NeverDeaf
  <2>1. sock \in {"none", "passive"}
    BY DEF IInv, TypeOK, ServerTypeOK
  <2>2. ~NoneOf(mb, Closings) \/ ~NoneOf(mb, {"tcp", "replication"})
    BY <2>1 DEF IInv, LineOK
  <2> QED BY <2>2 DEF NoneOf, Closings, SocketMsgs
<1> QED BY <1>1, Protocol, PTL

-----------------------------------------------------------------------------
(* The heartbeat of psync mode, when nothing but the server, its socket and  *)
(* stop/0 sends it messages.  (The clause that drops any other message       *)
(* returns no timeout, and the timer stays off until the next data.)         *)

Stray  == {"noise", "undefined"}
Keys   == {"loading", "loading_eof"}
Wakers == SocketMsgs \cup {"replication", "shutdown"}

\* Nothing is in the mailbox that is dropped; the cast of replication waits behind
\* the snapshot; and the timer runs, or something is waiting that starts it or ends
\* the stream.
Pulse ==
    /\ NoneOf(mb, Stray)
    /\ \A i \in DOMAIN mb : mb[i].t \in Keys =>
          /\ where = "idle" /\ state = "stream"
          /\ \E j \in DOMAIN mb : j > i /\ mb[j].t = "replication"
    /\ where = "idle" /\ state = "stream" /\ mode = "psync" => armed \/ ~NoneOf(mb, Wakers)

LEMMA PulseTail ==
    ASSUME TypeOK, Pulse, mb # <<>>
    PROVE  /\ NoneOf(Tail(mb), Stray)
           /\ \A i \in DOMAIN Tail(mb) : Tail(mb)[i].t \in Keys =>
                 \E j \in DOMAIN Tail(mb) : j > i /\ Tail(mb)[j].t = "replication"
           /\ ~(where = "idle" /\ state = "stream") => NoneOf(Tail(mb), Keys)
           /\ NoneOf(Tail(mb), Casts) => NoneOf(Tail(mb), Keys)
           /\ Head(mb).t \in Keys => ~NoneOf(Tail(mb), Wakers)
<1>1. mb \in Seq(Message)
  BY DEF TypeOK, ServerTypeOK
<1>2. NoneOf(Tail(mb), Stray)
  BY <1>1, TailNone DEF Pulse
<1>3. ASSUME NEW i \in DOMAIN mb, mb[i].t \in Keys
      PROVE  \E j \in DOMAIN Tail(mb) : j > i - 1 /\ Tail(mb)[j].t = "replication"
  <2>1. PICK j \in DOMAIN mb : j > i /\ mb[j].t = "replication"
    BY <1>3 DEF Pulse
  <2>2. i \in 1 .. Len(mb) /\ j \in 1 .. Len(mb) /\ Len(mb) \in Nat
    BY <1>1
  <2>3. j - 1 \in DOMAIN Tail(mb) /\ Tail(mb)[j - 1] = mb[j] /\ j - 1 > i - 1
    BY <1>1, <2>1, <2>2, TailMessages
  <2> QED BY <2>1, <2>3
<1>4. ASSUME NEW i \in DOMAIN Tail(mb), Tail(mb)[i].t \in Keys
      PROVE  \E j \in DOMAIN Tail(mb) : j > i /\ Tail(mb)[j].t = "replication"
  <2>1. i + 1 \in DOMAIN mb /\ Tail(mb)[i] = mb[i + 1] /\ (i + 1) - 1 = i
    BY <1>1, TailMessages
  <2> HIDE DEF Keys
  <2> QED BY <1>3, <1>4, <2>1
<1>5. ~(where = "idle" /\ state = "stream") => NoneOf(Tail(mb), Keys)
  <2>1. ~(where = "idle" /\ state = "stream") => NoneOf(mb, Keys)
    BY DEF Pulse, NoneOf
  <2> QED BY <1>1, <2>1, TailNone
<1>6. NoneOf(Tail(mb), Casts) => NoneOf(Tail(mb), Keys)
  BY <1>4 DEF NoneOf, Casts
<1>7. Head(mb).t \in Keys => ~NoneOf(Tail(mb), Wakers)
  BY <1>1, <1>3, TailMessages DEF NoneOf, Wakers
<1> QED BY <1>2, <1>4, <1>5, <1>6, <1>7

\* The first message is taken and others that are no keys may follow it.
LEMMA PulseKept ==
    ASSUME TypeOK, Pulse, mb # <<>>, NEW next \in Seq(Message), mb' = Tail(mb) \o next,
           NoneOf(next, Stray), NoneOf(next, Keys),
           (where' = "idle" /\ state' = "stream") \/ NoneOf(Tail(mb), Keys),
           where' = "idle" /\ state' = "stream" /\ mode' = "psync" =>
               armed' \/ ~NoneOf(mb', Wakers)
    PROVE  Pulse'
<1>1. Tail(mb) \in Seq(Message) /\ Len(Tail(mb)) \in Nat
  BY HeadParts
<1>2. NoneOf(mb', Stray)
  BY <1>1, PulseTail, ConcatNone
<1>3. ASSUME NEW i \in DOMAIN mb', mb'[i].t \in Keys
      PROVE  /\ where' = "idle" /\ state' = "stream"
             /\ \E j \in DOMAIN mb' : j > i /\ mb'[j].t = "replication"
  <2>1. i \in DOMAIN Tail(mb) /\ mb'[i] = Tail(mb)[i]
    BY <1>1, <1>3, ConcatMessages DEF NoneOf
  <2>2. PICK j \in DOMAIN Tail(mb) : j > i /\ Tail(mb)[j].t = "replication"
    BY <1>3, <2>1, PulseTail
  <2>3. j \in DOMAIN mb' /\ mb'[j] = Tail(mb)[j]
    BY <1>1, ConcatMessages
  <2> QED BY <1>3, <2>1, <2>2, <2>3 DEF NoneOf
<1> QED BY <1>2, <1>3, Zenon DEF Pulse

LEMMA PulseAdded ==
    ASSUME TypeOK, Pulse, NEW m \in Message, mb' = Append(mb, m),
           m.t \notin Stray, m.t \notin Keys,
           where' = where, state' = state, mode' = mode, armed' = armed
    PROVE  Pulse'
<1>1. mb \in Seq(Message)
  BY DEF TypeOK, ServerTypeOK
<1>2. NoneOf(mb', Stray)
  BY <1>1, AddOther DEF Pulse
<1>3. /\ \A i \in DOMAIN mb : i \in DOMAIN mb' /\ mb'[i] = mb[i]
      /\ \A i \in DOMAIN mb' : i \in DOMAIN mb \/ mb'[i] = m
  BY <1>1, AddOne
<1>4. \A i \in DOMAIN mb' : mb'[i].t \in Keys =>
          /\ where' = "idle" /\ state' = "stream"
          /\ \E j \in DOMAIN mb' : j > i /\ mb'[j].t = "replication"
  BY <1>3 DEF Pulse
<1>5. ~NoneOf(mb, Wakers) => ~NoneOf(mb', Wakers)
  BY <1>3 DEF NoneOf
<1>6. where' = "idle" /\ state' = "stream" /\ mode' = "psync" => armed' \/ ~NoneOf(mb', Wakers)
  BY <1>5, Zenon DEF Pulse
<1> QED BY <1>2, <1>4, <1>6, Zenon DEF Pulse

LEMMA PulseIdle ==
    ASSUME Pulse, UNCHANGED <<where, mb, state, mode, armed>>
    PROVE  Pulse'
BY Zenon DEF Pulse

LEMMA PulseOver ==
    ASSUME mb' = <<>>, where' # "idle"
    PROVE  Pulse'
<1>1. DOMAIN mb' = {}
  OBVIOUS
<1> QED BY <1>1, Zenon DEF Pulse, NoneOf

\* A step of the protocol outside the stream.
LEMMA PulseProtocol ==
    ASSUME TypeOK, Pulse, ~(where = "idle" /\ state = "stream"), mb # <<>>,
           NEW next \in Seq(Message), mb' = Tail(mb) \o next,
           \A i \in DOMAIN next : next[i].t \in Casts \ {"replication"},
           state' # "stream"
    PROVE  Pulse'
<1>1. NoneOf(next, Stray) /\ NoneOf(next, Keys)
  BY DEF NoneOf, Stray, Keys, Casts
<1> QED BY <1>1, PulseTail, PulseKept

LEMMA PulseQuiet ==
    ASSUME TypeOK, Pulse, ~(where = "idle" /\ state = "stream"), mb # <<>>,
           mb' = Tail(mb), state' # "stream"
    PROVE  Pulse'
<1>1. mb' = Tail(mb) \o <<>> /\ <<>> \in Seq(Message)
  BY HeadParts, EmptySeqs
<1>2. \A i \in DOMAIN <<>> : <<>>[i].t \in Casts \ {"replication"}
  OBVIOUS
<1> DEFINE none == <<>>
<1>3. none \in Seq(Message) /\ mb' = Tail(mb) \o none
      /\ \A i \in DOMAIN none : none[i].t \in Casts \ {"replication"}
  BY <1>1, <1>2
<1> HIDE DEF none
<1> QED BY <1>3, PulseProtocol

LEMMA PulseCast ==
    ASSUME TypeOK, Pulse, ~(where = "idle" /\ state = "stream"), mb # <<>>,
           NEW m \in Message, m.t \in Casts \ {"replication"}, Continue(<<m>>),
           state' # "stream"
    PROVE  Pulse'
<1>1. <<m>> \in Seq(Message) /\ \A i \in DOMAIN <<m>> : <<m>>[i] = m
  BY OneMessage
<1> QED BY <1>1, PulseProtocol DEF Continue

LEMMA PulseAsk ==
    ASSUME TypeOK, Pulse, state # "stream", mb # <<>>, NEW request, AskOrFail(request)
    PROVE  Pulse'
<1>1. CASE Ask(request)
  BY <1>1, PulseQuiet DEF Ask, stateVars
<1>2. CASE Stop
  BY <1>2, PulseOver DEF Stop, Die
<1> QED BY <1>1, <1>2 DEF AskOrFail

LEMMA PulseHandshake ==
    ASSUME TypeOK, PlaceOK, Pulse,
           \/ BootAuthOk \/ BootPong \/ BootLoading \/ CastRepl \/ CastCapa \/ CastPsync \/ CastSync
           \/ CastPsyncPayload \/ CastRst \/ RecvPort \/ RecvCapa \/ RecvFullResync \/ RecvBulk
           \/ SaveBuffering \/ SavePayload \/ Reconnect \/ ReconnectRefused \/ ReAuthOk
           \/ ReAuthThrows \/ RePong
    PROVE  Pulse'
<1>0. \A type \in Casts : Plain(type) \in Message /\ Plain(type).t = type
  BY PlainMessage
<1>1. CASE BootAuthOk \/ BootLoading \/ ReAuthOk
  <2>1. /\ where \in {"bootAuth", "bootPing", "reAuth"} /\ mb # <<>> /\ mb' = Tail(mb)
        /\ state' = state
    BY <1>1 DEF BootAuthOk, BootLoading, ReAuthOk, Received, stateVars
  <2> QED BY <2>1, PulseQuiet DEF PlaceOK
<1>2. CASE BootPong \/ RePong
  <2>1. /\ where \in {"bootPing", "rePing"} /\ mb # <<>> /\ Continue(<<Plain("repl")>>)
        /\ state' \in {"list", "reconnect2"}
    BY <1>2 DEF BootPong, RePong, Received
  <2>2. Plain("repl") \in Message /\ Plain("repl").t \in Casts \ {"replication"}
    BY <1>0 DEF Casts
  <2> QED BY <2>1, <2>2, PulseCast
<1>3. CASE CastRepl
  BY <1>3, PulseAsk DEF CastRepl, Handles
<1>4. CASE CastCapa
  BY <1>4, PulseAsk DEF CastCapa, Handles
<1>5. CASE CastPsync
  BY <1>5, PulseAsk DEF CastPsync, Handles
<1>6. CASE CastSync
  BY <1>6, PulseAsk DEF CastSync, Handles
<1>7. CASE CastPsyncPayload
  <2>1. CASE mode = "psync"
    BY <1>7, <2>1, PulseQuiet DEF CastPsyncPayload, Handles, stateVars
  <2>2. CASE mode # "psync"
    BY <1>7, <2>2, PulseOver DEF CastPsyncPayload, Stop, Die
  <2> QED BY <2>1, <2>2
<1>8. CASE CastRst
  <2>1. mode \in {"psync", "sync"}
    BY <1>8 DEF CastRst, PlaceOK, TypeOK, ServerTypeOK, Modes
  <2>2. Plain(mode) \in Message /\ Plain(mode).t \in Casts \ {"replication"}
    BY <1>0, <2>1 DEF Casts
  <2> QED BY <1>8, <2>2, PulseCast DEF CastRst, Handles
<1>9. CASE RecvPort
  <2>1. PICK type \in {"capa", "rst"} : Continue(<<Plain(type)>>) /\ state' # "stream"
    BY <1>9 DEF RecvPort
  <2>2. Plain(type) \in Message /\ Plain(type).t \in Casts \ {"replication"}
    BY <1>0 DEF Casts
  <2> QED BY <1>9, <2>1, <2>2, PulseCast DEF RecvPort, Received
<1>10. CASE RecvCapa
  <2>1. Plain(Result) \in Message /\ Plain(Result).t \in Casts \ {"replication"}
    BY <1>0, <1>10 DEF RecvCapa, Casts
  <2> QED BY <1>10, <2>1, PulseCast DEF RecvCapa, Received
<1>11. CASE RecvFullResync
  <2>1. Plain("psync") \in Message /\ Plain("psync").t \in Casts \ {"replication"}
    BY <1>0 DEF Casts
  <2> QED BY <1>11, <2>1, PulseCast DEF RecvFullResync, Received
<1>12. CASE RecvBulk
  <2> DEFINE m == Msg("save_rdb", Head(mb).data, IF state = "buffering" THEN 1 ELSE 0)
  <2>1. where = "reply" /\ mb # <<>> /\ Continue(<<m>>) /\ state' # "stream"
    BY <1>12 DEF RecvBulk, Received
  <2>2. m \in Message /\ m.t = "save_rdb"
    BY <2>1, HeadParts, MakeMessage DEF Casts, Msg
  <2> HIDE DEF m
  <2> QED BY <2>1, <2>2, PulseCast DEF Casts
<1>13. CASE SaveBuffering
  BY <1>13, PulseQuiet DEF SaveBuffering, Handles, stateVars
<1>14. CASE SavePayload
  <2>1. Plain("load_rdb") \in Message /\ Plain("load_rdb").t \in Casts \ {"replication"}
    BY <1>0 DEF Casts
  <2> QED BY <1>14, <2>1, PulseCast DEF SavePayload, Handles, stateVars
<1>15. CASE Reconnect
  BY <1>15, PulseQuiet DEF Reconnect, Handles, stateVars
<1>16. CASE ReconnectRefused \/ ReAuthThrows
  <2>1. Plain("new_connection") \in Message /\ Plain("new_connection").t \in Casts \ {"replication"}
    BY <1>0 DEF Casts
  <2>2. /\ ~(where = "idle" /\ state = "stream") /\ mb # <<>>
        /\ Continue(<<Plain("new_connection")>>) /\ state' = "reconnect"
    BY <1>16 DEF ReconnectRefused, ReAuthThrows, Retry, Handles, Received
  <2> QED BY <2>1, <2>2, PulseCast
<1> QED
  BY <1>1, <1>2, <1>3, <1>4, <1>5, <1>6, <1>7, <1>8, <1>9, <1>10, <1>11, <1>12, <1>13, <1>14,
     <1>15, <1>16

\* The stream: how it begins, what it handles and how it ends.
LEMMA PulseStream ==
    ASSUME TypeOK, Thread, Pulse,
           RecvContinue \/ LoadRdb \/ InfoLoading \/ InfoLoadingEof \/ CastReplication
           \/ InfoTcpQuiet \/ InfoTcpBuffer \/ InfoTcpCommands \/ InfoTimeout \/ InfoTcpClosed
           \/ Generic
    PROVE  Pulse'
<1> DEFINE go == Plain("replication")
<1>0. go \in Message /\ go.t = "replication"
  BY PlainMessage DEF Casts
<1>1. CASE RecvContinue
  <2> DEFINE rest == Msg("tcp", Tail(Head(mb).data), 0)
             next == <<rest, go>>
  <2>1. /\ where = "reply" /\ mb # <<>> /\ where' = "idle" /\ state' = "stream"
        /\ mb' = Tail(mb) \o next /\ ChunkResult(Head(mb).data) = "continue"
    BY <1>1 DEF RecvContinue, Received, Continue, Result, RecvResult
  <2>2. rest \in Message /\ rest.t = "tcp"
    <3>1. Tail(Head(mb).data) \in Seq(Unit)
      BY <2>1, HeadParts, ChunkHead
    <3>2. rest \in Message
      BY <3>1, MakeMessage DEF SocketMsgs
    <3> QED BY <3>2 DEF Msg
  <2>3. /\ next \in Seq(Message) /\ NoneOf(next, Stray) /\ NoneOf(next, Keys)
        /\ 2 \in DOMAIN next /\ next[2].t = "replication"
    <3> HIDE DEF rest, go
    <3>1. next \in Seq(Message)
      BY <2>2, <1>0
    <3>2. \A i \in DOMAIN next : next[i] \in {rest, go}
      OBVIOUS
    <3>3. 2 \in DOMAIN next /\ next[2] = go
      OBVIOUS
    <3> QED BY <3>1, <3>2, <3>3, <2>2, <1>0 DEF NoneOf, Stray, Keys
  <2> HIDE DEF next
  <2>4. ~NoneOf(mb', Wakers)
    <3>1. Len(Tail(mb)) + 2 \in DOMAIN mb' /\ mb'[Len(Tail(mb)) + 2] = next[2]
      BY <2>1, <2>3, HeadParts
    <3> QED BY <2>3, <3>1 DEF NoneOf, Wakers
  <2> QED BY <2>1, <2>3, <2>4, PulseKept
<1>2. CASE LoadRdb
  <2> DEFINE left == Tail(mb) \o LoadMessages
  <2>1. /\ where = "idle" /\ state = "payload" /\ mb # <<>> /\ where' = "idle" /\ state' = "stream"
        /\ mb' = Tail(mb) \o (LoadMessages \o <<go>>) /\ EofAt(file) \in 2 .. Len(file)
    BY <1>2 DEF LoadRdb, Handles, Continue, Loadable, EofAt
  <2>2. /\ LoadMessages \in Seq(Message) /\ Tail(mb) \in Seq(Message) /\ left \in Seq(Message)
        /\ NoneOf(LoadMessages, Stray)
    BY <2>1, HeadParts, LoadMessagesType, LoadMessagesTypes, JoinMessages DEF Stray, NoneOf
  <2>3. mb' = Append(left, go)
    <3> HIDE DEF go
    <3>1. <<go>> \in Seq(Message)
      BY <1>0, OneMessage
    <3>2. Tail(mb) \o (LoadMessages \o <<go>>) = left \o <<go>>
      BY <2>2, <3>1
    <3> QED BY <1>0, <2>1, <2>2, <3>2, AddOne
  <2>4. NoneOf(left, Stray)
    BY <2>1, <2>2, PulseTail, ConcatNone
  <2> HIDE DEF left, go
  <2>5. NoneOf(mb', Stray)
    BY <1>0, <2>2, <2>3, <2>4, AddOther DEF Stray
  <2>6. /\ Len(left) + 1 \in DOMAIN mb' /\ mb'[Len(left) + 1] = go
        /\ \A i \in DOMAIN mb' : (i \in DOMAIN left /\ i <= Len(left)) \/ i = Len(left) + 1
        /\ Len(left) \in Nat
    BY <1>0, <2>2, <2>3, AddOne
  <2>7. \A i \in DOMAIN mb' : mb'[i].t \in Keys => \E j \in DOMAIN mb' : j > i /\ mb'[j].t = "replication"
    BY <1>0, <2>6 DEF Keys
  <2>8. ~NoneOf(mb', Wakers)
    BY <1>0, <2>6 DEF NoneOf, Wakers
  <2> QED BY <2>1, <2>5, <2>7, <2>8, Zenon DEF Pulse
<1>3. CASE InfoLoading \/ InfoLoadingEof
  <2>1. /\ where = "idle" /\ mb # <<>> /\ Head(mb).t \in Keys /\ mb' = Tail(mb) \o <<>>
        /\ where' = "idle" /\ state' = state /\ <<>> \in Seq(Message)
    BY <1>3, EmptySeqs DEF InfoLoading, InfoLoadingEof, Handles, Continue, stateVars, Keys
  <2>2. NoneOf(<<>>, Stray) /\ NoneOf(<<>>, Keys)
    BY DEF NoneOf
  <2>3. mb' = Tail(mb)
    BY <2>1, HeadParts
  <2>4. ~NoneOf(mb', Wakers)
    BY <2>1, <2>3, PulseTail
  <2>5. state = "stream"
    <3>1. 1 \in DOMAIN mb /\ mb[1].t \in Keys
      BY <2>1, TailMessages DEF TypeOK, ServerTypeOK
    <3> QED BY <3>1 DEF Pulse
  <2> QED BY <2>1, <2>2, <2>4, <2>5, PulseKept
<1>4. CASE CastReplication \/ InfoTcpQuiet \/ InfoTcpBuffer \/ InfoTcpCommands
  <2>1. /\ mb # <<>> /\ mb' = Tail(mb) \o <<>> /\ where' = "idle" /\ state' = "stream"
        /\ <<>> \in Seq(Message)
    BY <1>4, HeadParts, EmptySeqs
       DEF CastReplication, InfoTcpQuiet, InfoTcpBuffer, InfoTcpCommands, InfoTcp, Handles, stateVars
  <2>2. NoneOf(<<>>, Stray) /\ NoneOf(<<>>, Keys)
    BY DEF NoneOf
  <2>3. mode' = "psync" => armed'
    <3>1. mode' = mode /\ armed' = (mode = "psync")
      BY <1>4, Zenon
         DEF CastReplication, InfoTcpQuiet, InfoTcpBuffer, InfoTcpCommands, InfoTcp, stateVars
    <3> QED BY <3>1
  <2> QED BY <2>1, <2>2, <2>3, PulseKept
<1>5. CASE InfoTimeout
  BY <1>5, PulseIdle DEF InfoTimeout, procVars, stateVars
<1>6. CASE InfoTcpClosed
  <2>1. /\ where = "idle" /\ mb # <<>> /\ Head(mb).t = "tcp_closed" /\ state' = "reconnect"
        /\ Continue(<<Plain("new_connection")>>)
    BY <1>6 DEF InfoTcpClosed, Handles
  <2>2. Plain("new_connection") \in Message /\ Plain("new_connection").t = "new_connection"
    BY PlainMessage DEF Casts
  <2>3. CASE state # "stream"
    BY <2>1, <2>2, <2>3, PulseCast DEF Casts
  <2>4. CASE state = "stream"
    <3>1. 1 \in DOMAIN mb /\ mb[1].t \in Closings /\ mb \in Seq(Message)
      BY <2>1, TailMessages DEF TypeOK, ServerTypeOK, Closings
    <3>2. \A j \in DOMAIN mb : j > 1 => mb[j].t \notin Casts
      BY <2>1, <2>4, <3>1 DEF Thread, MailOK, SocketOK
    <3>3. NoneOf(Tail(mb), Casts)
      <4>1. ASSUME NEW i \in DOMAIN Tail(mb)
            PROVE  Tail(mb)[i].t \notin Casts
        <5>1. i + 1 \in DOMAIN mb /\ Tail(mb)[i] = mb[i + 1] /\ i \in 1 .. Len(mb) - 1 /\ Len(mb) \in Nat
          BY <2>1, <3>1, TailMessages
        <5> QED BY <5>1, <3>2
      <4> QED BY <4>1 DEF NoneOf
    <3>4. <<Plain("new_connection")>> \in Seq(Message)
      BY <2>2, OneMessage
    <3>5. NoneOf(<<Plain("new_connection")>>, Stray) /\ NoneOf(<<Plain("new_connection")>>, Keys)
      BY <2>2 DEF NoneOf, Stray, Keys
    <3>6. mb' = Tail(mb) \o <<Plain("new_connection")>>
      BY <2>1 DEF Continue
    <3> QED BY <2>1, <3>3, <3>4, <3>5, <3>6, PulseTail, PulseKept
  <2> QED BY <2>3, <2>4
<1>7. CASE Generic
  <2>1. where = "idle" /\ mb # <<>> /\ ~Expected(Head(mb)) /\ Continue(<<>>) /\ state' = state
    BY <1>7 DEF Generic, stateVars
  <2>2. mb' = Tail(mb)
    BY <2>1, HeadParts DEF Continue
  <2>3. CASE state # "stream"
    BY <2>1, <2>2, <2>3, PulseQuiet
  <2>4. CASE state = "stream"
    <3>1. 1 \in DOMAIN mb /\ mb[1] = Head(mb)
      BY <2>1, TailMessages DEF TypeOK, ServerTypeOK
    <3>2. Head(mb).t \notin Casts /\ Head(mb).t \notin Stray
      BY <2>1, <2>4, <3>1 DEF Thread, MailOK, NeverWedged, Pulse, NoneOf
    <3>3. Head(mb).t \in {"tcp", "psync", "sync"}
      BY <2>1, <3>2, HeadParts
         DEF Expected, ExpectedCast, ExpectedInfo, SocketMsgs, Casts, Modes, OtherMsgs, Stray
    <3>4. mode # "undefined"
      BY <2>4 DEF Thread, PlaceOK
    <3> QED BY <2>1, <2>4, <3>2, <3>3, <3>4 DEF Expected, ExpectedCast, ExpectedInfo, Casts
  <2> QED BY <2>3, <2>4
<1> QED BY <1>1, <1>2, <1>3, <1>4, <1>5, <1>6, <1>7

LEMMA PulseWorld ==
    ASSUME "noise" \notin Faults, TypeOK, Pulse,
           Disturb \/ DeliverData \/ DeliverClosed \/ DeliverError
    PROVE  Pulse'
<1>1. UNCHANGED <<where, state, mode, armed>>
  BY DEF Disturb, DeliverData, DeliverClosed, DeliverError, Deliver, stateVars
<1>2. CASE Disturb \/ DeliverClosed \/ DeliverError
  <2>1. PICK type \in {"shutdown", "tcp_closed", "tcp_error"} : mb' = Append(mb, Plain(type))
    BY <1>2 DEF Disturb, Fault, DeliverClosed, DeliverError, Deliver
  <2>2. Plain(type) \in Message /\ Plain(type).t = type
    BY MakePlain DEF Plain, Msg, OtherMsgs, SocketMsgs
  <2> QED BY <1>1, <2>1, <2>2, PulseAdded DEF Stray, Keys
<1>3. CASE DeliverData
  <2>1. PICK size \in ChunkSizes : Deliver(Msg("tcp", SubSeq(net, 1, size), 0))
    BY <1>3 DEF DeliverData
  <2>2. size \in 1 .. Len(net)
    BY BufferAssumption DEF ChunkSizes, TypeOK, MasterTypeOK
  <2>3. SubSeq(net, 1, size) \in Seq(Unit)
    BY <2>2, PartType DEF TypeOK, MasterTypeOK
  <2> DEFINE m == Msg("tcp", SubSeq(net, 1, size), 0)
  <2>4. m \in Message /\ m.t = "tcp"
    BY <2>3, MakeMessage DEF SocketMsgs, Msg
  <2>5. mb' = Append(mb, m)
    BY <2>1 DEF Deliver
  <2> HIDE DEF m
  <2> QED BY <1>1, <2>4, <2>5, PulseAdded DEF Stray, Keys
<1> QED BY <1>2, <1>3

LEMMA PulseNext ==
    ASSUME "noise" \notin Faults, TypeOK, Thread, Pulse, [Next]_vars
    PROVE  Pulse'
<1>0. PlaceOK
  BY DEF Thread
<1>1. CASE Start
  <2>1. mb = <<>> /\ mb' = mb /\ where' # "idle"
    BY <1>0, <1>1 DEF Start, PlaceOK
  <2> QED BY <2>1, PulseOver
<1>2. CASE Handler
  <2>1. CASE Boot
    <3>1. where = "boot" /\ mb' = mb /\ where' # "idle"
      BY <2>1 DEF Boot
    <3>2. NoneOf(mb', Stray) /\ NoneOf(mb', Keys)
      BY <3>1 DEF Pulse, NoneOf
    <3> QED BY <3>1, <3>2, Zenon DEF Pulse, NoneOf
  <2>2. CASE Stop
    BY <2>2, PulseOver DEF Stop, Die
  <2> QED
    BY <1>0, <1>2, <2>1, <2>2, PulseHandshake, PulseStream
       DEF Handler, BootRefused, BootFailed, RecvFailed, LoadFailed, InfoTcpFailed, InfoTcpError,
           ReconnectFailed, CallShutdown
<1>3. CASE InfoTimeout
  BY <1>3, PulseStream
<1>4. CASE DeliverData \/ DeliverClosed \/ DeliverError \/ Disturb
  BY <1>4, PulseWorld
<1>5. CASE Unserved \/ UNCHANGED vars
  BY <1>5, PulseIdle DEF Unserved, vars, serverVars, procVars, stateVars
<1>6. CASE Killed \/ DiskFailed
  BY <1>6, PulseOver DEF Killed, DiskFailed, Die
<1> QED BY <1>1, <1>2, <1>3, <1>4, <1>5, <1>6 DEF Next, Master, World

LEMMA PulseInit == Init => Pulse
<1> SUFFICES ASSUME Init PROVE Pulse
  OBVIOUS
<1>1. DOMAIN mb = {} /\ where # "idle"
  BY DEF Init
<1> QED BY <1>1, Zenon DEF Pulse, NoneOf

\* The heartbeat of psync mode never stops by itself: whatever snapshot, stream,
\* reconnection or failure came before, an idle server that streams in psync mode
\* with nothing to do has its timer running.
THEOREM Heartbeat == "noise" \notin Faults => (Spec => []HeartbeatArmed)
<1> SUFFICES ASSUME "noise" \notin Faults PROVE Spec => []HeartbeatArmed
  OBVIOUS
<1>1. Init => Pulse
  BY PulseInit
<1>2. IInv /\ Pulse /\ [Next]_vars => Pulse'
  BY PulseNext, IInvParts
<1>3. Pulse => HeartbeatArmed
  <2>1. ASSUME mb = <<>> PROVE NoneOf(mb, Wakers)
    BY <2>1 DEF NoneOf
  <2> QED BY <2>1, Zenon DEF Pulse, HeartbeatArmed
<1> QED BY <1>1, <1>2, <1>3, Protocol, PTL DEF Spec
=============================================================================
