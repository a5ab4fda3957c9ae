------------------------ MODULE EslaverServerStream ------------------------
(***************************************************************************)
(* The stream, the end of a connection and the way back: every step keeps  *)
(* the course of the units, and what that says of the server's properties. *)
(* Then what the callback receives: each snapshot whole, and each command  *)
(* after it exactly once, for every value of the constants.                *)
(***************************************************************************)
EXTENDS EslaverServerSync

-----------------------------------------------------------------------------
(* Steps that leave the units where they are.                               *)

LEMMA UnderwaySame ==
    ASSUME NEW all, Underway(all), where' = where, state' = state, mode' = mode, runid' = runid,
           offset' = offset, req' = req, mphase' = mphase, mpos' = mpos, hist' = hist
    PROVE  Underway(all)'
<1>1. /\ Greeting' <=> Greeting
      /\ Resting' <=> Resting
      /\ Answering' <=> Answering
      /\ Receives' <=> Receives
  BY DEF Greeting, Resting, Answering, Receives
<1>2. Loads(all) => Loads(all)'
  BY LoadsSame
<1>3. Greets(all) => Greets(all)'
  BY DEF Greets, Away
<1>4. Rests(all) => Rests(all)'
  BY DEF Rests, Away
<1>5. Answers(all) => Answers(all)'
  <2>1. Asks(all) => Asks(all)'
    BY Zenon DEF Asks
  <2>2. Lost(all) => Lost(all)'
    BY DEF Lost
  <2>3. Refused(all) => Refused(all)'
    BY DEF Refused, Away
  <2>4. Continued(all) => Continued(all)'
    BY DEF Continued, Follows, HistEnd
  <2>5. FullSynced(all) => FullSynced(all)'
    BY DEF FullSynced, Synced, HistEnd
  <2>6. Bulk(all) => Bulk(all)'
    BY DEF Bulk, Synced, HistEnd
  <2> QED BY <2>1, <2>2, <2>3, <2>4, <2>5, <2>6 DEF Answers
<1> QED BY <1>1, <1>2, <1>3, <1>4, <1>5 DEF Underway

LEMMA AheadSame ==
    ASSUME NEW units, NEW end, Ahead(units, end), mphase' = mphase, mpos' = mpos, hist' = hist
    PROVE  Ahead(units, end)'
BY DEF Ahead, HistEnd

LEMMA BufferedSame ==
    ASSUME NEW end, Buffered(end), buffer' = buffer, fed' = fed, offset' = offset, mode' = mode,
           tainted' = tainted
    PROVE  Buffered(end)'
BY DEF Buffered, Position

\* A message that carries no units is handled, or dropped.
LEMMA CourseDrop ==
    ASSUME IInv, Course, where = "idle", where' = "idle", mb # <<>>, mb' = Tail(mb),
           state = "stream" => Head(mb).t # "tcp",
           UNCHANGED <<masterVars, stateVars, file, fed, tainted, acked>>
    PROVE  Course'
<1>1. Tail(mb) \in Seq(Message) /\ TypeOK /\ net' = net
  BY HeadParts DEF IInv, masterVars
<1>2. Carried'
  <2> SUFFICES ASSUME NEW h \in Seq(Unit), NEW all \in Seq(Unit), Held(h)', all = h \o net'
               PROVE  Underway(all)'
    BY DEF Carried
  <2>1. Held(h)
    BY <1>1, HeldDrop
  <2>2. Underway(all)
    BY <1>1, <2>1 DEF Course, Carried
  <2> QED BY <2>2, UnderwaySame DEF masterVars, stateVars
<1>3. Peer'
  <2>1. peerOpen' = peerOpen /\ mphase' = mphase /\ req' = req
    BY DEF masterVars
  <2>2. req.c \notin {"PSYNC", "SYNC"}
    BY DEF Course, Peer, Answering
  <2> QED BY <2>1, <2>2, PeerSame DEF Course
<1>4. Books'
  <2>1. ModesOK(mb', mode')
    BY <1>1, ModesTail DEF Course, stateVars
  <2> QED BY <2>1, BooksKept DEF Course, Books, stateVars
<1>5. Known'
  BY KnownKept DEF Course, stateVars, Receives
<1>6. Flows'
  <2> SUFFICES ASSUME state = "stream" PROVE Flows'
    BY DEF Flows, stateVars
  <2>1. PICK first \in Nat, last \in Nat :
              Spans(mb, first, last) /\ Ahead(net, last) /\ ("stale" \notin tainted => Buffered(first))
    BY DEF Course, Flows
  <2>2. PICK box \in Seq(Message) : box = mb
    BY <1>1 DEF TypeOK, ServerTypeOK
  <2>3. Spans(Tail(box), first, last)
    <3>1. \E mid \in Nat :
              /\ Spans(Tail(box), mid, last)
              /\ IF Head(box).t = "tcp" THEN first <= mid /\ Head(box).data = HistUnits(first + 1, mid)
                 ELSE mid = first
      BY <2>1, <2>2, SpansTail
    <3> QED BY <2>2, <3>1
  <2>4. Ahead(net, last)'
    <3>1. PICK units : units = net
      OBVIOUS
    <3>2. Ahead(units, last)'
      BY <2>1, <3>1, AheadSame DEF masterVars
    <3> QED BY <1>1, <3>1, <3>2
  <2>5. "stale" \notin tainted' => Buffered(first)'
    BY <2>1, BufferedSame DEF stateVars
  <2>6. req'.c = "none"
    BY DEF Course, Flows, masterVars
  <2> QED BY <2>2, <2>3, <2>4, <2>5, <2>6, FlowsIs
<1> QED BY <1>2, <1>3, <1>4, <1>5, <1>6 DEF Course, Reads

LEMMA CourseQuiet ==
    ASSUME IInv, Course, InfoLoading \/ InfoLoadingEof \/ CastReplication \/ Generic
    PROVE  Course'
<1>1. /\ where = "idle" /\ where' = "idle" /\ mb # <<>> /\ mb' = Tail(mb)
      /\ UNCHANGED <<masterVars, stateVars, file, fed, tainted, acked>>
  <2>1. Tail(mb) \in Seq(Message) \/ mb = <<>>
    BY HeadParts DEF IInv
  <2>2. CASE InfoLoading
    BY <2>1, <2>2 DEF InfoLoading, Handles, Continue
  <2>3. CASE InfoLoadingEof
    BY <2>1, <2>3 DEF InfoLoadingEof, Handles, Continue
  <2>4. CASE CastReplication
    BY <2>4 DEF CastReplication, Handles, ghostVars
  <2>5. CASE Generic
    BY <2>1, <2>5 DEF Generic, Continue, ghostVars
  <2> QED BY <2>2, <2>3, <2>4, <2>5
<1>2. state = "stream" => Head(mb).t # "tcp"
  <2>1. CASE Generic
    BY <2>1 DEF Generic, Expected, ExpectedCast, ExpectedInfo, IInv, PlaceOK
  <2> QED BY <2>1 DEF InfoLoading, InfoLoadingEof, CastReplication, Handles
<1> QED BY <1>1, <1>2, CourseDrop

\* The heartbeat reports what Known says of the offset.
LEMMA CourseTimeout == ASSUME IInv, Course, InfoTimeout PROVE Course'
<1>1. /\ where = "idle" /\ state = "stream" /\ mode = "psync"
      /\ UNCHANGED <<masterVars, procVars, stateVars, file, fed, tainted>>
      /\ acked' = acked \/ acked' = offset
  BY DEF InfoTimeout
<1>2. tainted = {} => acked' <= fed + 1
  <2>1. tainted = {} => acked <= fed + 1
    BY DEF Course, Books
  <2>2. tainted = {} => offset <= fed + 1
    <3>1. runid # NoRunId /\ ~Receives
      BY <1>1 DEF Course, Books, Receives
    <3>2. fed \in Int /\ offset \in Int
      BY DEF IInv, TypeOK, ServerTypeOK
    <3> QED BY <1>1, <3>1, <3>2 DEF Course, Known
  <2> QED BY <1>1, <2>1, <2>2
<1>3. Carried'
  BY <1>1, CarriesNothing DEF Greeting, Resting, Answering, Receives, procVars, stateVars
<1>4. Peer'
  BY <1>1, PeerSame DEF Course, Peer, Answering, masterVars, procVars
<1>5. Books'
  BY <1>1, <1>2 DEF Course, Books, procVars, stateVars
<1>6. Known'
  BY <1>1, KnownKept DEF Course, Receives, stateVars
<1>7. Flows'
  <2>1. PICK first \in Nat, last \in Nat :
              Spans(mb, first, last) /\ Ahead(net, last) /\ ("stale" \notin tainted => Buffered(first))
    BY <1>1 DEF Course, Flows
  <2>2. mb' = mb /\ net' = net
    BY <1>1 DEF masterVars, procVars
  <2>3. Ahead(net, last)'
    BY <1>1, <2>1 DEF Ahead, HistEnd, masterVars
  <2>4. "stale" \notin tainted' => Buffered(first)'
    BY <1>1, <2>1, BufferedSame DEF stateVars
  <2>5. req'.c = "none"
    BY <1>1 DEF Course, Flows, masterVars
  <2> QED BY <2>1, <2>2, <2>3, <2>4, <2>5, FlowsIs
<1> QED BY <1>1, <1>3, <1>4, <1>5, <1>6, <1>7 DEF Course, Reads, procVars

-----------------------------------------------------------------------------
(* Reads in the stream.                                                     *)

\* The read that comes first continues what is buffered.
LEMMA TookData ==
    ASSUME IInv, Course, where = "idle", state = "stream", mb # <<>>, Head(mb).t = "tcp"
    PROVE  \E first, mid, last \in Nat :
              /\ first <= mid /\ Data = HistUnits(first + 1, mid)
              /\ Spans(Tail(mb), mid, last) /\ Ahead(net, last)
              /\ "stale" \notin tainted => Buffered(first)
<1>1. PICK first \in Nat, last \in Nat :
              Spans(mb, first, last) /\ Ahead(net, last) /\ ("stale" \notin tainted => Buffered(first))
  BY DEF Course, Flows
<1>2. PICK box \in Seq(Message) : box = mb
  BY DEF IInv, TypeOK, ServerTypeOK
<1>3. PICK mid \in Nat :
              /\ Spans(Tail(box), mid, last)
              /\ IF Head(box).t = "tcp" THEN first <= mid /\ Head(box).data = HistUnits(first + 1, mid)
                 ELSE mid = first
  BY <1>1, <1>2, SpansTail
<1> QED BY <1>1, <1>2, <1>3 DEF Data

\* What such a step has to show.
LEMMA CourseRead ==
    ASSUME IInv, Course, InfoTcp, NEW mid \in Nat, NEW last \in Nat,
           Spans(Tail(mb), mid, last), Ahead(net, last),
           "stale" \notin tainted => Buffered(mid)', "stale" \notin tainted => fed' >= fed,
           fed' \in Nat, Known'
    PROVE  Course'
<1>1. /\ where = "idle" /\ where' = "idle" /\ mb # <<>> /\ state = "stream" /\ state' = "stream"
      /\ mb' = Tail(mb) /\ UNCHANGED <<masterVars, mode, runid, tainted, acked>>
  BY DEF InfoTcp, Handles
<1>2. req.c = "none"
  BY <1>1 DEF Course, Flows
<1>3. Carried'
  BY <1>1, CarriesNothing DEF Greeting, Resting, Answering, Receives
<1>4. Peer'
  BY <1>1, <1>2, PeerSame DEF Course, masterVars
<1>5. Books'
  <2>1. ModesOK(mb', mode')
    BY <1>1, ModesTail DEF Course, IInv
  <2>2. tainted' = {} => acked' <= fed' + 1
    <3>1. fed \in Int /\ acked \in Int /\ (tainted = {} => acked <= fed + 1)
      BY DEF Course, Books, IInv, TypeOK, ServerTypeOK
    <3>2. tainted' = tainted /\ acked' = acked
      BY <1>1
    <3>3. ASSUME tainted = {} PROVE acked <= fed' + 1
      <4>0. "stale" \notin tainted
        BY <3>3
      <4>1. fed' >= fed /\ acked <= fed + 1
        <5>1. fed' >= fed
          BY <4>0
        <5>2. acked <= fed + 1
          BY <3>1, <3>3
        <5> QED BY <5>1, <5>2
      <4>2. fed \in Int /\ acked \in Int
        BY <3>1
      <4>3. \A a, b \in Int, c \in Nat : c >= b /\ a <= b + 1 => a <= c + 1
        OBVIOUS
      <4> QED BY <4>1, <4>2, <4>3
    <3> QED BY <3>2, <3>3
  <2> QED BY <1>1, <2>1, <2>2 DEF Course, Books, ModesOK
<1>6. Flows'
  <2>1. Ahead(net, last)'
    BY <1>1 DEF Ahead, HistEnd, masterVars
  <2> QED BY <1>1, <1>2, <2>1, FlowsIs DEF masterVars
<1> QED BY <1>1, <1>3, <1>4, <1>5, <1>6 DEF Course, Reads

\* A read that ends no command: nothing, or the last unit of one.
LEMMA QuietIs ==
    ASSUME NEW data, NEW box, Quiet(data, box), NEW from \in Nat \ {0}, NEW first \in Nat, NEW mid \in Nat,
           from <= first + 1, first <= mid, box = HistUnits(from, first),
           data = HistUnits(first + 1, mid)
    PROVE  /\ from = first + 1
           /\ \/ mid = first /\ data = <<>>
              \/ mid = from /\ data = <<HistUnit(from)>> /\ data[1].k = "lf" /\ from % CmdUnits = 0
<1>1. from = first + 1
  <2>1. Len(box) = first - from + 1
    BY HistUnitsAre
  <2>2. box = <<>>
    BY DEF Quiet
  <2>3. Len(box) = 0
    BY <2>2
  <2> QED BY <2>1, <2>3
<1>2. data \in Seq(Unit) /\ Len(data) = mid - from + 1
      /\ \A i \in 1 .. mid - from + 1 : data[i] = HistUnit(from + i - 1)
  <2>1. data = HistUnits(from, mid) /\ from <= mid + 1
    BY <1>1
  <2> QED BY <2>1, HistUnitsAre
<1>3. data = <<>> \/ (Len(data) = 1 /\ data[1].k = "lf")
  BY DEF Quiet
<1>4. CASE data = <<>>
  <2>1. Len(data) = 0
    BY <1>4
  <2> QED BY <1>1, <1>2, <1>4, <2>1
<1>5. CASE Len(data) = 1 /\ data[1].k = "lf"
  <2>1. mid = from
    BY <1>2, <1>5
  <2>2. data[1] = HistUnit(from)
    BY <1>2, <2>1
  <2>3. data = <<HistUnit(from)>>
    BY <1>2, <1>5, <2>2
  <2>4. from % CmdUnits = 0
    <3>1. HistUnit(from).n \in Nat /\ from = CmdUnits * HistUnit(from).n
      BY <1>5, <2>2, HistUnitIs
    <3>2. \A n \in Nat : (3 * n) % 3 = 0
      OBVIOUS
    <3> QED BY <3>1, <3>2 DEF CmdUnits
  <2> QED BY <1>1, <1>5, <2>1, <2>3, <2>4
<1> QED BY <1>3, <1>4, <1>5

LEMMA LastUnit ==
    ASSUME NEW p \in Nat \ {0}, p % CmdUnits = 0
    PROVE  HistUnit(p + 1).k = "head" /\ (p + 1) % CmdUnits # 0
<1>1. PICK n \in Nat : p = 3 * n
  <2>1. \A x \in Nat : x % 3 = 0 => x = 3 * (x \div 3) /\ x \div 3 \in Nat
    OBVIOUS
  <2> QED BY <2>1 DEF CmdUnits
<1>2. PICK m \in Nat : m = HistUnit(p + 1).n
  BY HistUnitIs
<1>3. p + 1 \in Nat \ {0} /\ CmdUnits = 3
  BY DEF CmdUnits
<1>4. \/ p + 1 = 3 * m /\ HistUnit(p + 1).k = "lf"
      \/ p + 1 = 3 * m - 1 /\ HistUnit(p + 1).k = "body"
      \/ p + 1 = 3 * m - 2 /\ HistUnit(p + 1).k = "head"
  BY <1>2, <1>3, HistUnitIs
<1>5. 3 * n + 1 # 3 * m /\ 3 * n + 1 # 3 * m - 1
  OBVIOUS
<1>6. (3 * n + 1) % 3 # 0
  OBVIOUS
<1> QED BY <1>1, <1>3, <1>4, <1>5, <1>6

LEMMA CourseTcpQuiet == ASSUME IInv, Course, InfoTcpQuiet PROVE Course'
<1>1. /\ InfoTcp /\ where = "idle" /\ mb # <<>> /\ state = "stream" /\ Head(mb).t = "tcp"
      /\ Quiet(Data, buffer)
      /\ fed' = (IF Data = <<HistUnit(fed + 1)>> THEN fed + 1 ELSE fed)
      /\ buffer' = buffer /\ offset' = offset /\ mode' = mode /\ runid' = runid /\ tainted' = tainted
      /\ state' = state
  BY DEF InfoTcpQuiet, InfoTcp, Handles
<1>2. PICK first \in Nat, mid \in Nat, last \in Nat :
              /\ first <= mid /\ Data = HistUnits(first + 1, mid)
              /\ Spans(Tail(mb), mid, last) /\ Ahead(net, last)
              /\ "stale" \notin tainted => Buffered(first)
  BY <1>1, TookData
<1>3. fed \in Nat /\ offset \in Int /\ fed' \in Nat /\ fed' >= fed
  BY <1>1 DEF Course, Books, IInv, TypeOK, ServerTypeOK
<1>4. ASSUME "stale" \notin tainted
      PROVE  /\ \E from \in Nat \ {0} : from <= mid + 1 /\ buffer = HistUnits(from, mid) /\ Position(from)'
             /\ \/ fed' = fed
                \/ fed' = fed + 1 /\ tainted # {} /\ (mode = "psync" => offset <= fed')
  <2>1. PICK from \in Nat \ {0} : from <= first + 1 /\ buffer = HistUnits(from, first) /\ Position(from)
    BY <1>2, <1>4 DEF Buffered
  <2>2. PICK data, box : data = Data /\ box = buffer
    OBVIOUS
  <2>3. /\ from = first + 1
        /\ \/ mid = first /\ data = <<>>
           \/ mid = from /\ data = <<HistUnit(from)>> /\ data[1].k = "lf" /\ from % CmdUnits = 0
    BY <1>1, <1>2, <2>1, <2>2, QuietIs
  <2>4. buffer = <<>>
    BY <1>1 DEF Quiet
  <2>5. CASE mid = first /\ data = <<>>
    <3>1. fed' = fed
      BY <1>1, <2>2, <2>5
    <3> QED BY <1>1, <2>1, <2>3, <2>5, <3>1 DEF Position
  <2>6. CASE mid = from /\ data = <<HistUnit(from)>> /\ data[1].k = "lf" /\ from % CmdUnits = 0
    <3>1. PICK next \in Nat \ {0} : next = mid + 1
      OBVIOUS
    <3>2. next - 1 = mid /\ buffer = HistUnits(next, mid)
      <4>1. next - 1 = mid /\ HistUnits(next, next - 1) = <<>>
        BY <3>1, HistNothing
      <4> QED BY <2>4, <4>1
    <3>3. CASE /\ from = fed + 1
               /\ mode = "psync" => offset <= fed \/ (offset = from /\ fed % CmdUnits = 0)
      <4>1. fed' = fed + 1
        BY <1>1, <2>2, <2>6, <3>3
      <4>2. tainted # {}
        <5>1. tainted = {} => fed % CmdUnits = 0
          BY <2>1 DEF Position
        <5>2. fed = 0 \/ fed % CmdUnits # 0
          BY <1>3, <2>6, <3>3, LastUnit
        <5>3. fed # 0
          BY <2>6, <3>3 DEF CmdUnits
        <5> QED BY <5>1, <5>2, <5>3
      <4>3. mode = "psync" => offset <= fed'
        BY <1>3, <3>3, <4>1
      <4>4. next = fed' + 1
        BY <2>6, <3>1, <3>3, <4>1
      <4>5. Position(next)'
        BY <1>1, <4>2, <4>3, <4>4 DEF Position
      <4> QED BY <3>1, <3>2, <4>1, <4>2, <4>3, <4>5
    <3>4. CASE from = fed /\ offset = from /\ mode = "psync"
      <4>1. HistUnit(fed + 1).k = "head"
        BY <2>6, <3>4, LastUnit
      <4>2. Data # <<HistUnit(fed + 1)>>
        <5>1. Data[1].k = "lf"
          BY <2>2, <2>6
        <5>2. Data = <<HistUnit(fed + 1)>> => Data[1] = HistUnit(fed + 1)
          OBVIOUS
        <5> QED BY <4>1, <5>1, <5>2
      <4>3. fed' = fed
        BY <1>1, <4>2
      <4>4. next = fed' + 1 /\ offset <= fed'
        BY <1>3, <2>6, <3>1, <3>4, <4>3
      <4>5. tainted = {} => fed' % CmdUnits = 0 /\ offset >= fed'
        BY <2>1, <3>4, <4>3 DEF Position
      <4>6. Position(next)'
        BY <1>1, <4>4, <4>5 DEF Position
      <4> QED BY <3>1, <3>2, <4>3, <4>6
    <3> QED BY <2>1, <3>3, <3>4 DEF Position
  <2> QED BY <2>3, <2>5, <2>6
<1>5. "stale" \notin tainted => Buffered(mid)'
  BY <1>1, <1>4 DEF Buffered
<1>6. Known'
  <2> SUFFICES ASSUME mode = "psync", runid # NoRunId, "stale" \notin tainted
               PROVE  /\ offset <= fed' \/ (offset = fed' + 1 /\ fed' % CmdUnits = 0)
                      /\ tainted = {} => fed' % CmdUnits = 0 /\ offset >= fed'
    BY <1>1 DEF Known
  <2>1. /\ offset <= fed \/ (offset = fed + 1 /\ fed % CmdUnits = 0)
        /\ tainted = {} => fed % CmdUnits = 0 /\ offset >= fed
    BY <1>1 DEF Course, Known, Receives
  <2> QED BY <1>4, <2>1
<1> QED BY <1>1, <1>2, <1>3, <1>5, <1>6, CourseRead

\* What is buffered and what is read are one stretch.
LEMMA JoinedIs ==
    ASSUME NEW from \in Nat \ {0}, NEW first \in Nat, NEW mid \in Nat, from <= first + 1, first <= mid,
           buffer = HistUnits(from, first), Data = HistUnits(first + 1, mid)
    PROVE  Joined = HistUnits(from, mid)
BY HistJoin DEF Joined

LEMMA CourseTcpBuffer == ASSUME IInv, Course, InfoTcpBuffer PROVE Course'
<1>1. /\ InfoTcp /\ where = "idle" /\ mb # <<>> /\ state = "stream" /\ Head(mb).t = "tcp"
      /\ buffer' = Joined /\ offset' = offset /\ fed' = fed
      /\ mode' = mode /\ runid' = runid /\ tainted' = tainted /\ state' = state
  BY DEF InfoTcpBuffer, InfoTcp, Handles
<1>2. PICK first \in Nat, mid \in Nat, last \in Nat :
              /\ first <= mid /\ Data = HistUnits(first + 1, mid)
              /\ Spans(Tail(mb), mid, last) /\ Ahead(net, last)
              /\ "stale" \notin tainted => Buffered(first)
  BY <1>1, TookData
<1>3. fed' \in Nat /\ fed' >= fed
  BY <1>1 DEF Course, Books, IInv, TypeOK, ServerTypeOK
<1>4. ASSUME "stale" \notin tainted PROVE Buffered(mid)'
  <2>1. PICK from \in Nat \ {0} : from <= first + 1 /\ buffer = HistUnits(from, first) /\ Position(from)
    BY <1>2, <1>4 DEF Buffered
  <2>2. Joined = HistUnits(from, mid)
    BY <1>2, <2>1, JoinedIs
  <2>3. from <= mid + 1
    BY <1>2, <2>1
  <2>4. Position(from)'
    BY <1>1, <2>1 DEF Position
  <2> QED BY <1>1, <2>2, <2>3, <2>4 DEF Buffered
<1>5. Known'
  BY <1>1, KnownKept DEF Course, Receives
<1> QED BY <1>1, <1>2, <1>3, <1>4, <1>5, CourseRead

\* Whole commands: the stretch ends where the last of them does.
LEMMA CommandsEnd ==
    ASSUME NEW from \in Nat \ {0}, NEW to \in Nat, from <= to + 1, NEW bin, bin = HistUnits(from, to),
           Parsable(bin)
    PROVE  /\ from < to /\ Len(bin) = to - from + 1
           /\ LastCommand(bin) \in Nat /\ to = CmdUnits * LastCommand(bin) /\ to % CmdUnits = 0
<1>1. Len(bin) = to - from + 1 /\ \A i \in 1 .. to - from + 1 : bin[i] = HistUnit(from + i - 1)
  BY HistUnitsAre
<1>2. Len(bin) > 1 /\ bin[Len(bin) - 1].k = "body"
  BY DEF Parsable
<1>3. from < to
  BY <1>1, <1>2
<1>4. PICK p \in Nat \ {0} : p = to - 1
  BY <1>3
<1>5. bin[Len(bin) - 1] = HistUnit(p)
  <2>1. Len(bin) - 1 \in 1 .. to - from + 1 /\ from + (Len(bin) - 1) - 1 = p
    BY <1>1, <1>3, <1>4
  <2> QED BY <1>1, <2>1
<1>6. HistUnit(p).n \in Nat /\ p = CmdUnits * HistUnit(p).n - 1
  BY <1>2, <1>5, HistUnitIs
<1>7. LastCommand(bin) = HistUnit(p).n
  BY <1>5 DEF LastCommand
<1>8. PICK n \in Nat : n = LastCommand(bin) /\ to = 3 * n
  BY <1>4, <1>6, <1>7 DEF CmdUnits
<1>9. (3 * n) % 3 = 0
  OBVIOUS
<1> QED BY <1>1, <1>3, <1>8, <1>9 DEF CmdUnits

LEMMA CourseTcpCommands == ASSUME IInv, Course, InfoTcpCommands PROVE Course'
<1>1. /\ InfoTcp /\ where = "idle" /\ mb # <<>> /\ state = "stream" /\ Head(mb).t = "tcp"
      /\ Parsable(Joined) /\ buffer' = <<>> /\ fed' = CmdUnits * LastCommand(Joined)
      /\ offset' = (IF mode = "psync" THEN offset + Len(Joined) ELSE offset)
      /\ mode' = mode /\ runid' = runid /\ tainted' = tainted /\ state' = state
  BY DEF InfoTcpCommands, InfoTcp, Handles
<1>2. PICK first \in Nat, mid \in Nat, last \in Nat :
              /\ first <= mid /\ Data = HistUnits(first + 1, mid)
              /\ Spans(Tail(mb), mid, last) /\ Ahead(net, last)
              /\ "stale" \notin tainted => Buffered(first)
  BY <1>1, TookData
<1>3. fed \in Nat /\ offset \in Int /\ fed' \in Nat
  <2>1. fed \in Nat /\ offset \in Int /\ buffer \in Seq(Unit) /\ Data \in Seq(Unit)
    BY <1>1, HeadParts DEF Course, Books, IInv, TypeOK, ServerTypeOK, Data
  <2>2. Joined \in Seq(Unit)
    BY <2>1, JoinUnits DEF Joined
  <2>3. LastCommand(Joined) \in Nat
    BY <1>1, <2>2, LastCommandType
  <2>4. \A n \in Nat : 3 * n \in Nat
    OBVIOUS
  <2> QED BY <1>1, <2>1, <2>3, <2>4 DEF CmdUnits
<1>4. ASSUME "stale" \notin tainted
      PROVE  /\ fed' = mid /\ fed' >= fed /\ fed' % CmdUnits = 0
             /\ mode = "psync" => /\ offset' <= fed' \/ offset' = fed' + 1
                                  /\ tainted = {} => offset' >= fed'
  <2>1. PICK from \in Nat \ {0} : from <= first + 1 /\ buffer = HistUnits(from, first) /\ Position(from)
    BY <1>2, <1>4 DEF Buffered
  <2>2. PICK bin : bin = Joined
    OBVIOUS
  <2>3. bin = HistUnits(from, mid) /\ from <= mid + 1
    BY <1>2, <2>1, <2>2, JoinedIs
  <2>4. /\ from < mid /\ Len(bin) = mid - from + 1
        /\ mid = CmdUnits * LastCommand(bin) /\ mid % CmdUnits = 0
    BY <1>1, <2>2, <2>3, CommandsEnd
  <2>5. fed' = mid /\ fed' % CmdUnits = 0
    BY <1>1, <2>2, <2>4
  <2>6. mode = "psync" => offset' = offset + (mid - from + 1)
    BY <1>1, <2>2, <2>4
  <2>7. CASE /\ from = fed + 1
             /\ mode = "psync" => offset <= fed \/ (offset = from /\ fed % CmdUnits = 0)
    <3>1. mode = "psync" /\ tainted = {} => offset >= fed
      BY <2>1 DEF Position
    <3> QED BY <1>3, <2>4, <2>5, <2>6, <2>7, <3>1
  <2>8. CASE from = fed /\ offset = from /\ mode = "psync"
    BY <1>3, <2>4, <2>5, <2>6, <2>8
  <2> QED BY <2>1, <2>7, <2>8 DEF Position
<1>5. ASSUME "stale" \notin tainted PROVE Buffered(mid)'
  <2>1. PICK next \in Nat \ {0} : next = mid + 1
    OBVIOUS
  <2>2. buffer' = HistUnits(next, mid)
    <3>1. next - 1 = mid /\ HistUnits(next, next - 1) = <<>>
      BY <2>1, HistNothing
    <3> QED BY <1>1, <3>1
  <2>3. Position(next)'
    BY <1>1, <1>4, <1>5, <2>1 DEF Position
  <2> QED BY <2>1, <2>2, <2>3 DEF Buffered
<1>6. Known'
  BY <1>1, <1>4 DEF Known
<1> QED BY <1>1, <1>2, <1>3, <1>4, <1>5, <1>6, CourseRead

LEMMA CourseStream ==
    ASSUME IInv, Course,
           \/ InfoLoading \/ InfoLoadingEof \/ CastReplication \/ InfoTimeout
           \/ InfoTcpQuiet \/ InfoTcpBuffer \/ InfoTcpCommands \/ InfoTcpFailed \/ Generic
    PROVE  Course'
<1>1. CASE InfoTcpFailed
  BY <1>1, CourseStop DEF InfoTcpFailed
<1> QED BY <1>1, CourseQuiet, CourseTimeout, CourseTcpQuiet, CourseTcpBuffer, CourseTcpCommands

-----------------------------------------------------------------------------
(* Losing the master and coming back.                                       *)

LEMMA CourseAway ==
    ASSUME IInv, Course, mb # <<>>, state \in {"stream", "reconnect"}, where # "down",
           Continue(<<Plain("new_connection")>>), state' = "reconnect", Hangup,
           UNCHANGED <<mode, runid, offset, buffer, file, ghostVars>>
    PROVE  Course'
<1> DEFINE m == Plain("new_connection")
<1>1. Continue(<<m>>) /\ m \in Message /\ m.t = "new_connection" /\ where' = "idle"
  BY PlainMessage DEF Casts, Continue
<1> HIDE DEF m
<1>2. Carried'
  BY <1>1, CarriesNothing DEF Greeting, Resting, Answering, Receives
<1>3. Peer'
  BY <1>1, PeerGone
<1>4. Books'
  <2>1. ModesOK(mb', mode')
    BY <1>1, ModesCast DEF Course, IInv
  <2> QED BY <2>1, BooksKept DEF Course, ghostVars
<1>5. Known'
  BY KnownKept DEF Course, Receives, ghostVars
<1> QED BY <1>1, <1>2, <1>3, <1>4, <1>5 DEF Course, Reads, Flows

\* A request goes out on the way back.
LEMMA CourseDial ==
    ASSUME IInv, Course, mb # <<>>, state = "reconnect", where # "down", where' \in {"reAuth", "rePing"},
           mb' = Tail(mb), UNCHANGED <<stateVars, file, ghostVars>>, Peer'
    PROVE  Course'
<1>1. Carried'
  BY CarriesNothing DEF Greeting, Resting, Answering, Receives, stateVars
<1>2. Books'
  <2>1. ModesOK(mb', mode')
    BY ModesTail DEF Course, IInv, stateVars
  <2> QED BY <2>1, BooksKept DEF Course, stateVars, ghostVars
<1>3. Known'
  BY KnownKept DEF Course, Receives, stateVars, ghostVars
<1> QED BY <1>1, <1>2, <1>3 DEF Course, Reads, Flows, stateVars

LEMMA CourseReconnect ==
    ASSUME IInv, Course,
           \/ InfoTcpClosed \/ InfoTcpError \/ Reconnect \/ ReconnectRefused
           \/ ReAuthOk \/ ReAuthThrows \/ RePong \/ ReconnectFailed
    PROVE  Course'
<1>0. IInv /\ TypeOK /\ (mb # <<>> => Tail(mb) \in Seq(Message) /\ Head(mb) = mb[1] /\ 1 \in DOMAIN mb
                         /\ \A i \in DOMAIN Tail(mb) : i + 1 \in DOMAIN mb /\ Tail(mb)[i] = mb[i + 1])
  <2>1. TypeOK /\ mb \in Seq(Message)
    BY DEF IInv, TypeOK, ServerTypeOK
  <2>2. mb # <<>> => Tail(mb) \in Seq(Message)
    BY <2>1, HeadParts
  <2> QED BY <2>1, <2>2, TailMessages
<1>1. CASE InfoTcpClosed
  <2>1. /\ where = "idle" /\ mb # <<>> /\ Head(mb).t = "tcp_closed"
        /\ Continue(<<Plain("new_connection")>>) /\ state' = "reconnect" /\ Hangup
        /\ UNCHANGED <<mode, runid, offset, buffer, file, ghostVars>>
    BY <1>1 DEF InfoTcpClosed, Handles
  <2>2. state \in {"stream", "reconnect"}
    BY <1>0, <2>1 DEF IInv, SocketOK, NoneOf, SocketMsgs
  <2> QED BY <2>1, <2>2, CourseAway
<1>2. CASE InfoTcpError \/ ReconnectFailed
  BY <1>2, CourseStop DEF InfoTcpError, ReconnectFailed
<1>3. CASE ReconnectRefused \/ ReAuthThrows
  <2>1. mb # <<>> /\ where # "down" /\ state = "reconnect" /\ Retry
    BY <1>3 DEF ReconnectRefused, ReAuthThrows, Handles, Received, IInv, PlaceOK
  <2> QED BY <2>1, CourseAway DEF Retry
<1>4. CASE Reconnect
  <2>1. /\ where = "idle" /\ mb # <<>> /\ state = "reconnect" /\ where' \in {"reAuth", "rePing"}
        /\ mb' = Tail(mb) /\ Open(FirstRequest) /\ UNCHANGED <<stateVars, file, ghostVars>>
    BY <1>4 DEF Reconnect, Handles
  <2>2. \A i \in DOMAIN mb' : RecvResult(mb'[i]) # "pong"
    BY <1>0, <2>1 DEF IInv, AwayOK
  <2>3. FirstRequest.c \notin {"PSYNC", "SYNC"}
    BY DEF FirstRequest, Request
  <2>4. peerOpen' = TRUE /\ net' = <<>> /\ mphase' = "cmd" /\ req' = FirstRequest
    BY <2>1 DEF Open
  <2>5. Peer'
    BY <2>2, <2>3, <2>4 DEF Peer, Away
  <2> QED BY <2>1, <2>5, CourseDial
<1>5. CASE ReAuthOk
  <2>1. /\ where = "reAuth" /\ mb # <<>> /\ state = "reconnect" /\ where' = "rePing"
        /\ mb' = Tail(mb) /\ Send(Request("PING")) /\ UNCHANGED <<stateVars, file, ghostVars>>
    BY <1>5 DEF ReAuthOk, Received, IInv, PlaceOK
  <2>2. /\ \A i \in DOMAIN mb' : RecvResult(mb'[i]) # "pong"
        /\ \A i \in DOMAIN net : net[i].k # "pong"
    BY <1>0, <2>1 DEF IInv, AwayOK
  <2>3. Away /\ req.c \notin {"PSYNC", "SYNC"} /\ (peerOpen <=> mphase # "none") /\ (~peerOpen => req.c = "none")
    BY <2>1, Zenon DEF Course, Peer, Answering
  <2>4. /\ peerOpen' = peerOpen /\ net' = net /\ mphase' = mphase
        /\ req' = (IF peerOpen THEN Request("PING") ELSE req) /\ Request("PING").c = "PING"
    BY <2>1 DEF Send, Request
  <2>5. Peer'
    BY <2>1, <2>2, <2>3, <2>4 DEF Peer, Away
  <2> QED BY <2>1, <2>5, CourseDial
<1>6. CASE RePong
  <2> DEFINE m == Plain("repl")
  <2>1. /\ where = "rePing" /\ mb # <<>> /\ state = "reconnect" /\ Result = "pong"
        /\ Continue(<<m>>) /\ state' = "reconnect2" /\ UNCHANGED masterVars
        /\ mode' = mode /\ runid' = runid /\ offset' = offset /\ buffer' = buffer /\ fed' = fed
        /\ tainted' = tainted \cup (IF buffer = <<>> THEN {} ELSE {"stale"})
        /\ acked' = -1
    BY <1>6 DEF RePong, Received, IInv, PlaceOK
  <2>2. m \in Message /\ m.t = "repl"
    BY PlainMessage DEF Casts
  <2> HIDE DEF m
  <2>3. RecvResult(mb[1]) = "pong" /\ 1 \in DOMAIN mb
    BY <1>0, <2>1 DEF Result
  <2>4. net = <<>> /\ req.c = "none" /\ Away
    BY <2>1, <2>3 DEF Course, Peer
  <2>5. NoneOf(Tail(mb), Casts)
    <3>1. \A j \in DOMAIN mb : j > 1 => mb[j].t \notin SocketMsgs \cup Casts
      BY <2>1, <2>3 DEF IInv, AwayOK
    <3>2. \A i \in DOMAIN Tail(mb) : i + 1 > 1
      BY <1>0, <2>1
    <3> QED BY <1>0, <2>1, <3>1, <3>2 DEF NoneOf
  <2>6. where' = "idle" /\ net' = <<>> /\ Away' /\ req'.c = "none"
    BY <2>1, <2>4 DEF Continue, masterVars, Away
  <2>7. Carried'
    BY <1>0, <2>1, <2>2, <2>5, <2>6, CarriesRest DEF Receives
  <2>8. Peer'
    BY <2>1, <2>4, <2>6, PeerSame DEF Course, masterVars
  <2>9. Books'
    <3>1. ModesOK(mb', mode')
      BY <1>0, <2>1, <2>2, ModesCast DEF Course
    <3>2. fed \in Nat
      BY DEF Course, Books, IInv, TypeOK, ServerTypeOK
    <3> QED BY <2>1, <3>1, <3>2 DEF Books, ModesOK
  <2>10. Known'
    <3>1. tainted \subseteq tainted'
      BY <2>1
    <3> QED BY <2>1, <3>1 DEF Course, Known, Receives
  <2> QED BY <2>1, <2>6, <2>7, <2>8, <2>9, <2>10 DEF Course, Reads, Flows
<1> QED BY <1>1, <1>2, <1>3, <1>4, <1>5, <1>6

-----------------------------------------------------------------------------
(* What the socket delivers, and what others send.                          *)

\* A message that carries no units and is no answer.
LEMMA CourseAdd ==
    ASSUME IInv, Course, where # "down", NEW m \in Message, mb' = Append(mb, m),
           m.t \in {"tcp_closed", "tcp_error", "shutdown", "noise"},
           UNCHANGED <<where, stateVars, file, fed, tainted, acked>>,
           UNCHANGED <<hist, mphase, mpos, peerOpen, req, net>>
    PROVE  Course'
<1>1. PICK box \in Seq(Message) : box = mb
  BY DEF IInv, TypeOK, ServerTypeOK
<1>2. m.t \notin Casts /\ m.t # "tcp" /\ m.t \notin {"psync", "sync"} /\ RecvResult(m) = "error"
  BY DEF Casts, RecvResult
<1>3. \A i \in DOMAIN mb' : mb'[i] = m \/ (i \in DOMAIN mb /\ mb'[i] = mb[i])
  <2>1. \A i \in DOMAIN Append(box, m) : Append(box, m)[i] = m \/ (i \in DOMAIN box /\ Append(box, m)[i] = box[i])
    BY AddOne
  <2> QED BY <1>1, <2>1
<1>4. Carried'
  <2> SUFFICES ASSUME NEW h \in Seq(Unit), NEW all \in Seq(Unit), Held(h)', all = h \o net'
               PROVE  Underway(all)'
    BY DEF Carried
  <2>1. Held(h)
    BY <1>2, HeldAdd DEF IInv, stateVars
  <2>2. Underway(all)
    BY <2>1 DEF Course, Carried
  <2> QED BY <2>2, UnderwaySame DEF stateVars
<1>5. Peer'
  BY <1>2, <1>3, Zenon DEF Course, Peer, Answering, Away, stateVars
<1>6. Reads'
  BY <1>2, <1>3 DEF Course, Reads
<1>7. Books'
  <2>1. ModesOK(box, mode)
    BY <1>1 DEF Course, Books, ModesOK
  <2>2. ModesOK(Append(box, m), mode)
    BY <1>2, <2>1, ModesAdd
  <2>3. ModesOK(mb', mode')
    BY <1>1, <2>2 DEF stateVars
  <2> QED BY <2>3, BooksKept DEF Course, Books, stateVars
<1>8. Known'
  BY KnownKept DEF Course, stateVars, Receives
<1>9. Flows'
  <2> SUFFICES ASSUME state = "stream" PROVE Flows'
    BY DEF Flows, stateVars
  <2>1. PICK first \in Nat, last \in Nat :
              Spans(mb, first, last) /\ Ahead(net, last) /\ ("stale" \notin tainted => Buffered(first))
    BY DEF Course, Flows
  <2>2. Spans(Append(box, m), first, last)
    BY <1>1, <1>2, <2>1, SpansAppend
  <2>3. Ahead(net, last)'
    BY <2>1 DEF Ahead, HistEnd
  <2>4. "stale" \notin tainted' => Buffered(first)'
    BY <2>1, BufferedSame DEF stateVars
  <2>5. req'.c = "none"
    BY DEF Course, Flows
  <2> QED BY <1>1, <2>2, <2>3, <2>4, <2>5, FlowsIs
<1> QED BY <1>4, <1>5, <1>6, <1>7, <1>8, <1>9 DEF Course

\* A read takes the front of what is in flight.
LEMMA ReadIs ==
    ASSUME IInv, DeliverData
    PROVE  \E size \in 1 .. Len(net), chunk, rest \in Seq(Unit), m \in Message :
              /\ m = Msg("tcp", chunk, 0) /\ m.t = "tcp" /\ m.data = chunk /\ mb' = Append(mb, m)
              /\ chunk = SubSeq(net, 1, size) /\ rest = SubSeq(net, size + 1, Len(net))
              /\ chunk \o rest = net /\ net' = rest
              /\ Len(chunk) = size /\ Len(rest) = Len(net) - size
              /\ chunk[1] = net[1] /\ \A i \in 1 .. Len(rest) : rest[i] = net[size + i]
<1>1. net \in Seq(Unit) /\ mb \in Seq(Message) /\ Len(net) \in Nat
  BY DEF IInv, TypeOK, MasterTypeOK, ServerTypeOK
<1>2. PICK size \in ChunkSizes :
          /\ net' = SubSeq(net, size + 1, Len(net))
          /\ mb' = Append(mb, Msg("tcp", SubSeq(net, 1, size), 0))
  BY DEF DeliverData, Deliver
<1>3. size \in 1 .. Len(net)
  BY <1>1, <1>2, BufferAssumption DEF ChunkSizes
<1>4. PICK chunk, rest : chunk = SubSeq(net, 1, size) /\ rest = SubSeq(net, size + 1, Len(net))
  OBVIOUS
<1>5. chunk \in Seq(Unit) /\ Len(chunk) = size /\ \A i \in 1 .. size : chunk[i] = net[i]
  BY <1>1, <1>3, <1>4, FrontUnits
<1>6. rest \in Seq(Unit) /\ Len(rest) = Len(net) - size /\ \A i \in 1 .. Len(net) - size : rest[i] = net[size + i]
  BY <1>1, <1>3, <1>4, BackUnits
<1>7. chunk \o rest = net
  BY <1>1, <1>3, <1>4, SplitUnits
<1>8. PICK m : m = Msg("tcp", chunk, 0)
  OBVIOUS
<1>9. m \in Message /\ m.t = "tcp" /\ m.data = chunk
  BY <1>5, <1>8 DEF Msg, Message, SocketMsgs
<1>10. chunk[1] = net[1]
  BY <1>3, <1>5
<1>11. /\ mb' = Append(mb, m) /\ net' = rest
       /\ \A i \in 1 .. Len(rest) : rest[i] = net[size + i]
  BY <1>2, <1>4, <1>6, <1>8
<1>12. size \in 1 .. Len(net) /\ chunk \in Seq(Unit) /\ rest \in Seq(Unit) /\ m \in Message
  BY <1>3, <1>5, <1>6, <1>9
<1> QED BY <1>4, <1>5, <1>6, <1>7, <1>8, <1>9, <1>10, <1>11, <1>12, Zenon

\* Where the socket may be active.
LEMMA ListensWhere ==
    ASSUME IInv, sock = "active"
    PROVE  /\ where \in Receiving \/ (where = "idle" /\ state = "stream")
           /\ where \in Receiving /\ state # "reconnect" => NoneOf(mb, SocketMsgs)
           /\ state = "reconnect" => where \in {"reAuth", "rePing"}
           /\ state = "stream" => where = "idle"
<1>1. where \in Places
  BY DEF IInv, TypeOK, ServerTypeOK
<1>2. CASE state # "reconnect"
  BY <1>1, <1>2 DEF IInv, SocketOK, PlaceOK, Places, Receiving
<1>3. CASE state = "reconnect"
  BY <1>1, <1>3 DEF IInv, AwayOK, PlaceOK, Places, Receiving
<1> QED BY <1>2, <1>3

LEMMA CourseData == ASSUME IInv, Course, DeliverData PROVE Course'
<1>1. PICK size \in 1 .. Len(net), chunk \in Seq(Unit), rest \in Seq(Unit), m \in Message :
          /\ m = Msg("tcp", chunk, 0) /\ m.t = "tcp" /\ m.data = chunk /\ mb' = Append(mb, m)
          /\ chunk = SubSeq(net, 1, size) /\ rest = SubSeq(net, size + 1, Len(net))
          /\ chunk \o rest = net /\ net' = rest
          /\ Len(chunk) = size /\ Len(rest) = Len(net) - size
          /\ chunk[1] = net[1] /\ \A i \in 1 .. Len(rest) : rest[i] = net[size + i]
  BY ReadIs
<1>2. /\ sock = "active" /\ UNCHANGED <<where, stateVars, file, ghostVars>>
      /\ UNCHANGED <<hist, mphase, mpos, peerOpen, req>>
  BY DEF DeliverData, Deliver
<1>3. PICK box \in Seq(Message) : box = mb
  BY DEF IInv, TypeOK, ServerTypeOK
<1>4. \A i \in DOMAIN mb' : mb'[i] = m \/ (i \in DOMAIN mb /\ mb'[i] = mb[i])
  <2>1. \A i \in DOMAIN Append(box, m) : Append(box, m)[i] = m \/ (i \in DOMAIN box /\ Append(box, m)[i] = box[i])
    BY AddOne
  <2> QED BY <1>1, <1>3, <2>1
<1>5. PICK flight \in Seq(Unit) : flight = net /\ Len(flight) \in Nat
  BY DEF IInv, TypeOK, MasterTypeOK
<1>6. Carried'
  <2>1. CASE where = "idle" \/ state = "reconnect"
    <3>1. ~Greeting' /\ ~Resting' /\ ~Answering' /\ ~Receives'
      BY <1>2, <2>1, ListensWhere DEF Greeting, Resting, Answering, Receives, Receiving, stateVars
    <3> QED BY <3>1, CarriesNothing
  <2>2. CASE where # "idle" /\ state # "reconnect"
    <3>1. NoneOf(mb, {"tcp"})
      BY <1>2, <2>2, ListensWhere, NoSocket
    <3> SUFFICES ASSUME NEW h \in Seq(Unit), NEW all \in Seq(Unit), Held(h)', all = h \o net'
                 PROVE  Underway(all)'
      BY DEF Carried
    <3>2. Kept' = Kept
      BY <1>2 DEF Kept, stateVars
    <3>3. h = Kept \o chunk
      <4>1. ~NoneOf(mb', {"tcp"})
        <5>1. Len(box) + 1 \in DOMAIN Append(box, m) /\ Append(box, m)[Len(box) + 1] = m
          BY AddOne
        <5> QED BY <1>1, <1>3, <5>1 DEF NoneOf
      <4>2. where' # "idle"
        BY <1>2, <2>2
      <4>3. PICK i \in DOMAIN mb' : mb'[i].t = "tcp" /\ h = Kept' \o mb'[i].data
        BY <4>1, <4>2 DEF Held
      <4>4. mb'[i] = m
        BY <1>4, <3>1, <4>3 DEF NoneOf
      <4> QED BY <1>1, <3>2, <4>3, <4>4
    <3>4. PICK kept \in Seq(Unit) : kept = Kept
      <4>1. file \in Seq(Unit) /\ <<>> \in Seq(Unit)
        BY DEF IInv, TypeOK, ServerTypeOK
      <4>2. Kept \in Seq(Unit)
        BY <4>1 DEF Kept
      <4> QED BY <4>2
    <3>5. all = kept \o flight
      <4>1. all = (kept \o chunk) \o rest
        BY <1>1, <3>3, <3>4
      <4> DEFINE Regroups(x, y, z) == (x \o y) \o z = x \o (y \o z)
      <4>2. \A x, y, z \in Seq(Unit) : Regroups(x, y, z)
        BY JoinThree
      <4>3. chunk \o rest = flight
        BY <1>1, <1>5
      <4> HIDE DEF Regroups
      <4>4. Regroups(kept, chunk, rest)
        BY <4>2
      <4> QED BY <4>1, <4>3, <4>4 DEF Regroups
    <3>6. Held(kept)
      BY <2>2, <3>1, <3>4 DEF Held
    <3>7. Underway(all)
      BY <1>5, <3>5, <3>6 DEF Course, Carried
    <3> QED BY <1>2, <3>7, UnderwaySame DEF stateVars
  <2> QED BY <2>1, <2>2
<1>7. Peer'
  <2>1. where = "rePing" => /\ \A k \in DOMAIN net' : net'[k].k = "pong" => k = Len(net') /\ req'.c = "none"
                            /\ \A i \in DOMAIN mb' : RecvResult(mb'[i]) = "pong" => net' = <<>> /\ req'.c = "none"
    <3> SUFFICES ASSUME where = "rePing"
                 PROVE  /\ \A k \in 1 .. Len(rest) : rest[k].k = "pong" => k = Len(rest) /\ req.c = "none"
                        /\ \A i \in DOMAIN mb' : RecvResult(mb'[i]) = "pong" => rest = <<>> /\ req.c = "none"
      <4>1. net' = rest /\ req' = req
        BY <1>1, <1>2
      <4>2. DOMAIN rest = 1 .. Len(rest)
        OBVIOUS
      <4> QED BY <4>1, <4>2
    <3>1. /\ \A k \in 1 .. Len(flight) : flight[k].k = "pong" => k = Len(flight) /\ req.c = "none"
          /\ \A i \in DOMAIN mb : RecvResult(mb[i]) = "pong" => flight = <<>> /\ req.c = "none"
      BY <1>5 DEF Course, Peer
    <3>2. size \in 1 .. Len(flight) /\ Len(rest) = Len(flight) - size
      BY <1>1, <1>5
    <3>3. ASSUME NEW k \in 1 .. Len(rest), rest[k].k = "pong" PROVE k = Len(rest) /\ req.c = "none"
      <4>1. size + k \in 1 .. Len(flight) /\ flight[size + k].k = "pong"
        BY <1>1, <1>5, <3>2, <3>3
      <4> QED BY <3>1, <3>2, <4>1
    <3>4. ASSUME NEW i \in DOMAIN mb', RecvResult(mb'[i]) = "pong" PROVE rest = <<>> /\ req.c = "none"
      <4>1. flight # <<>>
        BY <3>2
      <4>2. mb'[i] = m
        BY <1>4, <3>1, <3>4, <4>1
      <4>3. ChunkResult(chunk) = "pong"
        BY <1>1, <3>4, <4>2 DEF RecvResult
      <4>4. flight[1].k = "pong"
        BY <1>1, <1>5, <4>3, LineIs
      <4>5. 1 = Len(flight) /\ req.c = "none"
        BY <1>5, <3>1, <3>2, <4>4
      <4>6. Len(rest) = 0
        BY <3>2, <4>5
      <4> QED BY <4>5, <4>6
    <3> QED BY <3>3, <3>4
  <2>2. req'.c \in {"PSYNC", "SYNC"} => Answering'
    BY <1>2 DEF Course, Peer, Answering, stateVars
  <2>3. where' \in {"reAuth", "rePing"} => Away'
    BY <1>2 DEF Course, Peer, Away
  <2> QED BY <1>2, <2>1, <2>2, <2>3, Zenon DEF Course, Peer
<1>8. Reads'
  <2>1. m.data # <<>>
    BY <1>1
  <2> QED BY <1>2, <1>4, <2>1 DEF Course, Reads
<1>9. Books'
  <2>1. ModesOK(box, mode)
    BY <1>3 DEF Course, Books, ModesOK
  <2>2. ModesOK(Append(box, m), mode)
    BY <1>1, <2>1, ModesAdd
  <2>3. ModesOK(mb', mode')
    BY <1>1, <1>2, <1>3, <2>2 DEF stateVars
  <2>4. /\ fed' = fed /\ runid' = runid /\ buffer' = buffer /\ acked' = acked /\ tainted' = tainted
        /\ mode' = mode /\ state' = state
    BY <1>2 DEF stateVars, ghostVars
  <2>5. where # "down"
    BY <1>2, ListensWhere DEF Receiving
  <2> QED BY <2>3, <2>4, <2>5, BooksKept DEF Course, Books
<1>10. Known'
  BY <1>2, KnownKept DEF Course, stateVars, ghostVars, Receives
<1>11. Flows'
  <2> SUFFICES ASSUME state = "stream" PROVE Flows'
    BY <1>2 DEF Flows, stateVars
  <2>1. PICK first \in Nat, last \in Nat :
              Spans(mb, first, last) /\ Ahead(net, last) /\ ("stale" \notin tainted => Buffered(first))
    BY DEF Course, Flows
  <2>2. PICK to \in Nat : /\ last <= to /\ to <= HistEnd /\ flight = HistUnits(last + 1, to)
                          /\ mphase = "online" => to = mpos
    BY <1>5, <2>1 DEF Ahead
  <2>3. PICK from \in Nat \ {0} : from = last + 1 /\ from <= to + 1
    BY <2>2
  <2>4. Len(flight) = to - from + 1
    BY <2>2, <2>3, HistUnitsAre
  <2>5. size \in 0 .. to - from + 1
    BY <1>1, <1>5, <2>4
  <2>6. /\ SubSeq(HistUnits(from, to), 1, size) = HistUnits(from, from + size - 1)
        /\ SubSeq(HistUnits(from, to), size + 1, to - from + 1) = HistUnits(from + size, to)
    BY <2>3, <2>5, HistFront
  <2>7. PICK mid \in Nat : mid = last + size
    BY <2>5
  <2>8. from + size - 1 = mid /\ from + size = mid + 1 /\ last <= mid /\ mid <= to
    BY <2>3, <2>5, <2>7
  <2>9. chunk = HistUnits(last + 1, mid) /\ rest = HistUnits(mid + 1, to)
    BY <1>1, <1>5, <2>2, <2>3, <2>4, <2>6, <2>8
  <2>10. Spans(Append(box, m), first, mid)
    BY <1>1, <1>3, <2>1, <2>8, <2>9, SpansAppend
  <2>11. Ahead(rest, mid)
    BY <2>1, <2>2, <2>8, <2>9 DEF Ahead
  <2>12. Ahead(rest, mid)'
    BY <1>2, <2>11, AheadSame
  <2>13. Ahead(net, mid)'
    BY <1>1, <2>12
  <2>14. "stale" \notin tainted' => Buffered(first)'
    BY <1>2, <2>1, BufferedSame DEF stateVars, ghostVars
  <2>15. req'.c = "none"
    BY <1>2 DEF Course, Flows
  <2> QED BY <1>1, <1>3, <2>10, <2>13, <2>14, <2>15, FlowsIs
<1> QED BY <1>6, <1>7, <1>8, <1>9, <1>10, <1>11 DEF Course

LEMMA CourseDeliver ==
    ASSUME IInv, Course, DeliverData \/ DeliverClosed \/ DeliverError \/ Disturb
    PROVE  Course'
<1>1. CASE DeliverClosed \/ DeliverError
  <2>1. PICK type \in {"tcp_closed", "tcp_error"} : mb' = Append(mb, Plain(type))
    BY <1>1 DEF DeliverClosed, DeliverError, Deliver
  <2>2. /\ UNCHANGED <<where, stateVars, file, fed, tainted, acked>>
        /\ UNCHANGED <<hist, mphase, mpos, peerOpen, req, net>>
    BY <1>1 DEF DeliverClosed, DeliverError, Deliver, masterVars, ghostVars
  <2>3. PICK m : m = Plain(type)
    OBVIOUS
  <2>4. m \in Message /\ m.t = type
    BY <2>3, MakePlain DEF SocketMsgs, Plain, Msg
  <2>5. where # "down"
    BY <1>1, ListensWhere DEF DeliverClosed, DeliverError, Receiving
  <2> QED BY <2>1, <2>2, <2>3, <2>4, <2>5, CourseAdd
<1>2. CASE Disturb
  <2>1. PICK type \in {"shutdown", "noise"} : mb' = Append(mb, Plain(type))
    BY <1>2 DEF Disturb
  <2>2. /\ UNCHANGED <<where, stateVars, file, fed, tainted, acked>>
        /\ UNCHANGED <<hist, mphase, mpos, peerOpen, req, net>>
    BY <1>2 DEF Disturb, ghostVars
  <2>3. PICK m : m = Plain(type)
    OBVIOUS
  <2>4. m \in Message /\ m.t = type
    BY <2>3, MakePlain DEF OtherMsgs, Plain, Msg
  <2>5. where # "down"
    BY <1>2 DEF Disturb
  <2> QED BY <2>1, <2>2, <2>3, <2>4, <2>5, CourseAdd
<1> QED BY <1>1, <1>2, CourseData

-----------------------------------------------------------------------------
(* Every step.                                                              *)

LEMMA CourseInit == Init => Course
<1> SUFFICES ASSUME Init PROVE Course
  OBVIOUS
<1>1. /\ where = "down" /\ state = "undefined" /\ mb = <<>> /\ mode = "undefined" /\ runid = NoRunId
      /\ buffer = <<>> /\ tainted = {} /\ fed = 0 /\ acked = -1
      /\ mphase = "none" /\ peerOpen = FALSE /\ req.c = "none" /\ net = <<>>
  BY DEF Init, MasterInit, NoRequest, Request
<1>2. Carried
  BY <1>1 DEF Carried, Underway, Greeting, Resting, Answering, Receives
<1>3. Peer /\ Reads /\ Books /\ Known /\ Flows
  BY <1>1 DEF Peer, Reads, Books, Known, Flows
<1> QED BY <1>2, <1>3 DEF Course

LEMMA CourseSame == ASSUME IInv, Course, UNCHANGED vars PROVE Course'
<1>1. UNCHANGED serverVars /\ UNCHANGED masterVars
  BY DEF vars
<1>2. UNCHANGED <<mup, mrun, hist, mphase, mpos, peerOpen, req, net, faults>>
  BY <1>1 DEF masterVars
<1>3. Carried'
  <2> SUFFICES ASSUME NEW h \in Seq(Unit), NEW all \in Seq(Unit), Held(h)', all = h \o net'
               PROVE  Underway(all)'
    BY DEF Carried
  <2>1. Held(h)
    BY <1>1, HeldSame
  <2>2. Underway(all)
    BY <1>2, <2>1 DEF Course, Carried
  <2>3. where' = where
    BY <1>1 DEF serverVars, procVars
  <2> QED BY <1>1, <1>2, <2>2, <2>3, PhaseSame, UnderwaySame
<1>4. where' = where /\ mb' = mb /\ fed' = fed /\ tainted' = tainted /\ acked' = acked /\ buffer' = buffer
  BY <1>1 DEF serverVars, procVars, stateVars, ghostVars
<1>5. Peer'
  BY <1>1, <1>2, <1>4, PhaseSame, Zenon DEF Course, Peer, Away
<1>6. Reads' /\ Books' /\ Known'
  BY <1>1, <1>4, PhaseSame DEF Course, Reads, Books, Known
<1>7. Flows'
  <2>1. state' = state /\ offset' = offset /\ mode' = mode
    BY <1>1 DEF serverVars, stateVars
  <2>2. CASE state # "stream"
    BY <2>1, <2>2 DEF Flows
  <2>3. CASE state = "stream"
    <3>1. PICK first \in Nat, last \in Nat :
                Spans(mb, first, last) /\ Ahead(net, last) /\ ("stale" \notin tainted => Buffered(first))
      BY <2>3 DEF Course, Flows
    <3>2. Ahead(net, last)'
      BY <1>2, <3>1 DEF Ahead, HistEnd
    <3>3. "stale" \notin tainted' => Buffered(first)'
      BY <1>4, <2>1, <3>1, BufferedSame
    <3>4. Spans(mb', first, last) /\ req'.c = "none"
      BY <1>2, <1>4, <2>3, <3>1 DEF Course, Flows
    <3> QED BY <3>2, <3>3, <3>4, FlowsIs
  <2> QED BY <2>2, <2>3
<1> QED BY <1>3, <1>5, <1>6, <1>7 DEF Course

LEMMA CourseNext == IInv /\ IInv' /\ Course /\ [Next]_vars => Course'
<1> SUFFICES ASSUME IInv, IInv', Course, [Next]_vars PROVE Course'
  OBVIOUS
<1>1. CASE UNCHANGED vars
  BY <1>1, CourseSame
<1>2. CASE Master \/ (World /\ ~(DeliverError \/ DiskFailed \/ Disturb \/ Killed))
  <2>1. MasterSteps /\ UNCHANGED serverVars
    BY <1>2 DEF Master, World, MasterSteps, Unserved
  <2> QED BY <2>1, CourseMaster DEF IInv
<1>3. CASE DiskFailed \/ Killed
  BY <1>3, CourseDie DEF DiskFailed, Killed
<1>4. CASE Start
  BY <1>4, CourseStart
<1>5. CASE Handler
  <2>1. CASE CallShutdown
    BY <2>1, CourseStop DEF CallShutdown
  <2>2. CASE Boot \/ BootRefused \/ BootAuthOk \/ BootPong \/ BootLoading \/ BootFailed
    BY <2>2, CourseBoot
  <2>3. CASE CastRepl \/ CastCapa \/ CastPsync \/ CastSync \/ CastPsyncPayload \/ CastRst
             \/ RecvPort \/ RecvCapa
    BY <2>3, CourseHandshake
  <2>4. CASE RecvContinue \/ RecvFullResync \/ RecvBulk \/ RecvFailed
             \/ SaveBuffering \/ SavePayload \/ LoadRdb \/ LoadFailed
    BY <2>4, CourseSync
  <2>5. CASE InfoLoading \/ InfoLoadingEof \/ CastReplication \/ InfoTimeout
             \/ InfoTcpQuiet \/ InfoTcpBuffer \/ InfoTcpCommands \/ InfoTcpFailed \/ Generic
    BY <2>5, CourseStream
  <2>6. CASE InfoTcpClosed \/ InfoTcpError \/ Reconnect \/ ReconnectRefused
             \/ ReAuthOk \/ ReAuthThrows \/ RePong \/ ReconnectFailed
    BY <2>6, CourseReconnect
  <2> QED BY <1>5, <2>1, <2>2, <2>3, <2>4, <2>5, <2>6 DEF Handler
<1>6. CASE InfoTimeout
  BY <1>6, CourseStream
<1>7. CASE DeliverData \/ DeliverClosed \/ DeliverError \/ Disturb
  BY <1>7, CourseDeliver
<1> QED BY <1>1, <1>2, <1>3, <1>4, <1>5, <1>6, <1>7 DEF Next, World

\* Between the master and the callback no unit is lost, doubled or moved: at every
\* moment of a synchronisation, a stream and a reconnection, whatever the server has
\* read, saved or buffered joins up with what is still on its way (Course).
THEOREM InCourse == Spec => []Course
<1>1. Spec => []IInv
  BY Protocol
<1>2. Init => Course
  BY CourseInit
<1>3. IInv /\ IInv' /\ Course /\ [Next]_vars => Course'
  BY CourseNext
<1> QED BY <1>1, <1>2, <1>3, PTL DEF Spec

-----------------------------------------------------------------------------
(* What that says of the properties of the stream.                          *)

\* Something is always held, so that Carried speaks of the units in flight.
LEMMA HeldSome ==
    ASSUME IInv, where # "idle"
    PROVE  \E h \in Seq(Unit) : Held(h)
<1>1. mb \in Seq(Message) /\ file \in Seq(Unit) /\ <<>> \in Seq(Unit)
  BY DEF IInv, TypeOK, ServerTypeOK
<1>2. PICK kept \in Seq(Unit) : kept = Kept
  <2>1. Kept \in Seq(Unit)
    BY <1>1 DEF Kept
  <2> QED BY <2>1
<1>3. CASE NoneOf(mb, {"tcp"})
  <2>1. Held(kept)
    BY <1>2, <1>3 DEF Held
  <2> QED BY <2>1
<1>4. CASE ~NoneOf(mb, {"tcp"})
  <2>1. PICK i \in DOMAIN mb : mb[i].t = "tcp"
    BY <1>4 DEF NoneOf
  <2>2. mb[i] \in Message
    BY <1>1
  <2>3. PICK data \in Seq(Unit) : data = mb[i].data
    BY <2>2, MessageParts
  <2>4. kept \o data \in Seq(Unit)
    BY JoinUnits
  <2>5. Held(kept \o data)
    BY <1>2, <2>1, <2>3 DEF Held
  <2> QED BY <2>4, <2>5
<1> QED BY <1>3, <1>4

\* A partial resynchronisation is never asked from beyond what was received, so
\* that none can skip a command (handle_cast/2's psync clause sends the run id and
\* offset that handle_info/2 has kept across the connections).
THEOREM SkipsNothing == Spec => []NeverSkips
<1>1. IInv /\ Course => NeverSkips
  <2> SUFFICES ASSUME IInv, Course, req.c = "PSYNC", req.runid = mrun, tainted = {}
               PROVE  req.offset <= fed + 1
    BY DEF NeverSkips
  <2>1. Answering
    BY DEF Course, Peer
  <2>2. PICK h \in Seq(Unit) : Held(h)
    BY <2>1, HeldSome DEF Answering
  <2>3. PICK all : all = h \o net
    OBVIOUS
  <2>4. all \in Seq(Unit)
    BY <2>3, JoinUnits DEF IInv, TypeOK, MasterTypeOK
  <2>5. Answers(all)
    BY <2>1, <2>2, <2>3, <2>4 DEF Course, Carried, Underway
  <2>6. Asks(all)
    BY <2>5 DEF Answers, Lost, Refused, Continued, FullSynced, Bulk
  <2>7. mode = "psync" /\ req.runid = runid /\ req.offset = offset
    BY <2>6 DEF Asks
  <2>8. runid # NoRunId /\ offset \in Int /\ fed \in Int
    BY <2>7 DEF IInv, TypeOK, MasterTypeOK, ServerTypeOK, NoRunId
  <2>9. ~Receives
    BY <2>1 DEF Answering, Receives
  <2>10. offset <= fed \/ offset = fed + 1
    BY <2>7, <2>8, <2>9 DEF Course, Known
  <2> QED BY <2>7, <2>8, <2>10
<1> QED BY <1>1, Protocol, InCourse, PTL

\* The offset that PSYNC and the heartbeat report is where the callback's knowledge
\* ends, or one unit further, however the commands were cut into reads.
THEOREM HonestOffset == Spec => []OffsetHonest
<1>1. IInv /\ Course => OffsetHonest
  <2> SUFFICES ASSUME IInv, Course, tainted = {}
               PROVE  /\ state = "stream" /\ mode = "psync" => offset - fed \in {0, 1}
                      /\ acked <= fed + 1
    BY DEF OffsetHonest
  <2>1. offset \in Int /\ fed \in Int
    BY DEF IInv, TypeOK, ServerTypeOK
  <2>2. ASSUME state = "stream", mode = "psync" PROVE offset - fed \in {0, 1}
    <3>1. runid # NoRunId /\ ~Receives
      BY <2>2 DEF Course, Books, Receives
    <3>2. (offset <= fed \/ offset = fed + 1) /\ offset >= fed
      BY <2>2, <3>1 DEF Course, Known
    <3> QED BY <2>1, <3>2
  <2>3. acked <= fed + 1
    BY DEF Course, Books
  <2> QED BY <2>2, <2>3
<1> QED BY <1>1, Protocol, InCourse, PTL

\* The partial results of flattening the first n parts of s.
Partials(s, G, n) ==
    /\ G = [i \in 1 .. n |-> G[i]]
    /\ G[1] = s[1]
    /\ \A i \in 2 .. n : G[i] = G[i - 1] \o s[i]

\* FlattenSeq of a non-empty sequence, from its partial results.
LEMMA FlattenIs ==
    ASSUME NEW s, NEW n \in Nat \ {0}, n = Len(s), NEW G, Partials(s, G, n)
    PROVE  FlattenSeq(s) = G[n]
<1>0. /\ G = [i \in 1 .. n |-> G[i]] /\ G[1] = s[1]
      /\ \A i \in 2 .. n : G[i] = G[i - 1] \o s[i]
  BY Zenon DEF Partials
<1> DEFINE Rec(f) == [i \in 1 .. Len(s) |-> IF i = 1 THEN s[i] ELSE f[i - 1] \o s[i]]
           F == CHOOSE f : f = Rec(f)
<1>1. FlattenSeq(s) = F[n]
  BY DEF FlattenSeq
<1>2. G = Rec(G)
  <2>1. \A i \in 1 .. n : i = 1 \/ i \in 2 .. n
    OBVIOUS
  <2>2. \A i \in 1 .. n : G[i] = IF i = 1 THEN s[i] ELSE G[i - 1] \o s[i]
    BY <1>0, <2>1
  <2>3. Rec(G) = [i \in 1 .. n |-> IF i = 1 THEN s[i] ELSE G[i - 1] \o s[i]]
    OBVIOUS
  <2>4. G = [i \in 1 .. n |-> G[i]]
    BY <1>0
  <2>5. [i \in 1 .. n |-> G[i]] = [i \in 1 .. n |-> IF i = 1 THEN s[i] ELSE G[i - 1] \o s[i]]
    BY <2>2, Zenon
  <2> QED BY <2>3, <2>4, <2>5
<1>3. F = Rec(F)
  BY <1>2
<1>4. \A i \in 1 .. n : F[i] = IF i = 1 THEN s[i] ELSE F[i - 1] \o s[i]
  BY <1>3
<1> HIDE DEF F
<1> DEFINE bad == {i \in 1 .. n : F[i] # G[i]}
<1>5. bad = {}
  <2> SUFFICES ASSUME bad # {} PROVE FALSE
    OBVIOUS
  <2>0. bad \subseteq Nat /\ \A i : i \in bad <=> i \in 1 .. n /\ F[i] # G[i]
    OBVIOUS
  <2> HIDE DEF bad
  <2>1. PICK m \in bad : \A i \in bad : m <= i
    BY <2>0, LeastElement
  <2>2. m \in 1 .. n /\ F[m] # G[m]
    BY <2>0
  <2>3. 1 \in 1 .. n /\ F[1] = s[1]
    BY <1>4
  <2>4. m \in 2 .. n
    BY <1>0, <2>2, <2>3
  <2>5. m - 1 \in 1 .. n /\ ~(m <= m - 1)
    BY <2>4
  <2>6. F[m - 1] = G[m - 1]
    BY <2>0, <2>1, <2>5
  <2>7. F[m] = F[m - 1] \o s[m]
    <3>1. m # 1
      BY <2>4
    <3> QED BY <1>4, <2>2, <3>1, Zenon
  <2>8. G[m] = G[m - 1] \o s[m]
    BY <1>0, <2>4
  <2> QED BY <1>0, <2>2, <2>3, <2>6, <2>7, <2>8
<1> QED BY <1>1, <1>5

\* The data of a mailbox whose messages follow one another is one stretch.
DataOf(box) == [i \in DOMAIN box |-> IF box[i].t = "tcp" THEN box[i].data ELSE <<>>]

LEMMA SpansData ==
    ASSUME NEW box \in Seq(Message), NEW first \in Nat, NEW last \in Nat, Spans(box, first, last)
    PROVE  first <= last /\ FlattenSeq(DataOf(box)) = HistUnits(first + 1, last)
<1>1. PICK e \in [0 .. Len(box) -> Nat] : Ends(box, e) /\ e[0] = first /\ e[Len(box)] = last
  BY DEF Spans
<1>2. PICK n \in Nat : n = Len(box)
  OBVIOUS
<1>3. DOMAIN DataOf(box) = 1 .. n /\ Len(DataOf(box)) = n
  BY <1>2 DEF DataOf
<1>4. \A i \in 0 .. n : e[i] \in Nat
  BY <1>2
<1>5. ASSUME NEW i \in 1 .. n
      PROVE  e[i - 1] <= e[i] /\ DataOf(box)[i] = HistUnits(e[i - 1] + 1, e[i])
  <2>1. CASE box[i].t = "tcp"
    BY <1>1, <1>2, <2>1 DEF Ends, DataOf
  <2>2. CASE box[i].t # "tcp"
    <3>1. e[i] = e[i - 1] /\ DataOf(box)[i] = <<>>
      BY <1>1, <1>2, <2>2 DEF Ends, DataOf
    <3>2. PICK at \in Nat : at = e[i]
      BY <1>4
    <3>3. PICK next \in Nat \ {0} : next = at + 1
      OBVIOUS
    <3>4. HistUnits(next, next - 1) = <<>> /\ next - 1 = at
      BY <3>3, HistNothing
    <3> QED BY <3>1, <3>2, <3>3, <3>4
  <2> QED BY <2>1, <2>2
<1>6. \A i \in 0 .. n : first <= e[i]
  <2> DEFINE bad == {i \in 0 .. n : ~(first <= e[i])}
  <2> SUFFICES ASSUME bad # {} PROVE FALSE
    OBVIOUS
  <2>0. bad \subseteq Nat /\ \A i : i \in bad <=> i \in 0 .. n /\ ~(first <= e[i])
    OBVIOUS
  <2> HIDE DEF bad
  <2>1. PICK m \in bad : \A i \in bad : m <= i
    BY <2>0, LeastElement
  <2>2. m \in 0 .. n /\ ~(first <= e[m]) /\ m # 0
    BY <1>1, <2>0
  <2>3. m \in 1 .. n /\ m - 1 \in 0 .. n /\ first <= e[m - 1]
    <3>1. m \in 1 .. n /\ m - 1 \in 0 .. n /\ ~(m <= m - 1)
      BY <2>2
    <3> QED BY <2>0, <2>1, <3>1
  <2>4. e[m - 1] <= e[m]
    BY <1>5, <2>3
  <2>5. e[m - 1] \in Nat /\ e[m] \in Nat
    BY <1>4, <2>2, <2>3
  <2> QED BY <2>2, <2>3, <2>4, <2>5
<1>7. CASE n = 0
  <2>1. DataOf(box) = <<>>
    BY <1>3, <1>7
  <2>2. FlattenSeq(DataOf(box)) = <<>>
    BY <2>1 DEF FlattenSeq
  <2>3. PICK next \in Nat \ {0} : next = first + 1
    OBVIOUS
  <2>4. HistUnits(next, next - 1) = <<>> /\ next - 1 = first
    BY <2>3, HistNothing
  <2> QED BY <1>1, <1>2, <1>7, <2>2, <2>3, <2>4
<1>8. CASE n # 0
  <2> DEFINE G == [i \in 1 .. n |-> HistUnits(first + 1, e[i])]
  <2>1. G \in [1 .. n -> Seq(Unit)]
    <3>1. first + 1 \in Nat \ {0}
      OBVIOUS
    <3>2. ASSUME NEW i \in 1 .. n PROVE HistUnits(first + 1, e[i]) \in Seq(Unit)
      <4>1. PICK to \in Nat : to = e[i]
        BY <1>4
      <4>2. HistUnits(first + 1, to) \in Seq(Unit)
        BY <3>1, HistUnitsType
      <4> QED BY <4>1, <4>2
    <3> QED BY <3>2
  <2>2. \A i \in 1 .. n : G[i] = HistUnits(first + 1, e[i])
    OBVIOUS
  <2>3. G[1] = DataOf(box)[1]
    <3>1. 1 \in 1 .. n
      BY <1>8
    <3>2. DataOf(box)[1] = HistUnits(e[1 - 1] + 1, e[1])
      BY <1>5, <3>1
    <3> QED BY <1>1, <2>2, <3>1, <3>2
  <2>4. ASSUME NEW i \in 2 .. n PROVE G[i] = G[i - 1] \o DataOf(box)[i]
    <3>1. i \in 1 .. n /\ i - 1 \in 1 .. n
      OBVIOUS
    <3>2. PICK a \in Nat, b \in Nat : a = e[i - 1] /\ b = e[i]
      BY <1>4, <3>1
    <3>3. first <= a /\ a <= b /\ DataOf(box)[i] = HistUnits(a + 1, b)
      BY <1>5, <1>6, <3>1, <3>2
    <3>4. PICK from \in Nat \ {0} : from = first + 1 /\ from <= a + 1
      BY <3>3
    <3>5. HistUnits(from, a) \o HistUnits(a + 1, b) = HistUnits(from, b)
      BY <3>3, <3>4, HistJoin
    <3>6. G[i] = HistUnits(from, b) /\ G[i - 1] = HistUnits(from, a)
      BY <2>2, <3>1, <3>2, <3>4
    <3> QED BY <3>3, <3>5, <3>6
  <2>5. n \in Nat \ {0}
    BY <1>8
  <2> HIDE DEF G
  <2>6. FlattenSeq(DataOf(box)) = G[n]
    <3>1. G = [i \in 1 .. n |-> G[i]]
      BY <2>1
    <3>2. Partials(DataOf(box), G, n)
      BY <2>3, <2>4, <3>1, Zenon DEF Partials
    <3> QED BY <1>3, <2>5, <3>2, FlattenIs
  <2> QED BY <1>1, <1>2, <1>6, <2>2, <2>5, <2>6
<1> QED BY <1>7, <1>8

\* While the server streams, what it has buffered, what is in its mailbox and what is
\* in flight is exactly the master's history from where the callback's knowledge ends
\* to what the master has sent (buffer/3, recv_sock/1's leftover of +CONTINUE, and the
\* one-shot active socket neither lose nor double a unit).
THEOREM WithoutGap == Spec => []NoGap
<1>1. IInv /\ Course => NoGap
  <2> SUFFICES ASSUME IInv, Course, state = "stream", "stale" \notin tainted
               PROVE  \E from \in {fed, fed + 1} :
                          LET to == from + Len(InFlight) - 1
                          IN  /\ InFlight # <<>> => from > 0 /\ InFlight = HistUnits(from, to)
                              /\ to <= HistEnd
                              /\ peerOpen => to = mpos
    BY DEF NoGap
  <2>1. PICK first \in Nat, last \in Nat :
              Spans(mb, first, last) /\ Ahead(net, last) /\ ("stale" \notin tainted => Buffered(first))
    BY DEF Course, Flows
  <2>2. PICK from \in Nat \ {0} : from <= first + 1 /\ buffer = HistUnits(from, first) /\ Position(from)
    BY <2>1 DEF Buffered
  <2>3. PICK to \in Nat : /\ last <= to /\ to <= HistEnd /\ net = HistUnits(last + 1, to)
                          /\ mphase = "online" => to = mpos
    BY <2>1 DEF Ahead
  <2>4. first <= last /\ MailboxData = HistUnits(first + 1, last)
    <3>1. PICK box \in Seq(Message) : box = mb
      BY DEF IInv, TypeOK, ServerTypeOK
    <3>2. first <= last /\ FlattenSeq(DataOf(box)) = HistUnits(first + 1, last)
      BY <2>1, <3>1, SpansData
    <3>3. MailboxData = FlattenSeq(DataOf(box))
      BY <3>1 DEF MailboxData, DataOf
    <3> QED BY <3>2, <3>3
  <2>5. InFlight = HistUnits(from, to)
    <3>1. HistUnits(from, first) \o HistUnits(first + 1, last) = HistUnits(from, last)
      BY <2>2, <2>4, HistJoin
    <3>2. from <= last + 1
      BY <2>2, <2>4
    <3>3. HistUnits(from, last) \o HistUnits(last + 1, to) = HistUnits(from, to)
      BY <2>3, <3>2, HistJoin
    <3>4. InFlight = (buffer \o MailboxData) \o net
      BY DEF InFlight
    <3> QED BY <2>2, <2>3, <2>4, <3>1, <3>3, <3>4
  <2>6. from <= to + 1
    BY <2>2, <2>3, <2>4
  <2>7. Len(InFlight) = to - from + 1
    BY <2>5, <2>6, HistUnitsAre
  <2>8. to = from + Len(InFlight) - 1
    BY <2>7
  <2>9. from \in {fed, fed + 1}
    BY <2>2 DEF Position
  <2>10. peerOpen => to = mpos
    BY <2>1, <2>3 DEF Course, Peer, Ahead
  <2> QED BY <2>3, <2>5, <2>8, <2>9, <2>10
<1> QED BY <1>1, Protocol, InCourse, PTL

-----------------------------------------------------------------------------
(* The invariant: what the events so far say, and what of a snapshot is     *)
(* still in the mailbox.                                                    *)

KeyEvent(num, at)  == [ev |-> "loading", n |-> num, r |-> at]
EofEvent(size, at) == [ev |-> "eof", n |-> size, r |-> at]

KeyMsg(m, num, at)  == m.t = "loading" /\ m.n = num /\ m.data[1].r = at
EofMsg(m, size, at) == m.t = "loading_eof" /\ m.data[1].n = size /\ m.data[1].r = at

\* The last events are the first `done` keys of the snapshot at position `at`.
EndsWith(story, done, at) ==
    /\ done <= Len(story)
    /\ \A i \in 1 .. done : story[Len(story) - done + i] = KeyEvent(i, at)
    /\ done < Len(story) => story[Len(story) - done].ev # "loading"

\* The other `left` keys of it are in a mailbox from message `first` on, then its end,
\* then the cast that begins the stream.
Queued(box, first, done, left, at) ==
    /\ first + left + 1 \in DOMAIN box
    /\ \A i \in 1 .. left : KeyMsg(box[first + i - 1], done + i, at)
    /\ EofMsg(box[first + left], done + left, at)
    /\ box[first + left + 1].t = "replication"
    /\ \A i \in DOMAIN box : box[i].t \in Keys => first <= i /\ i <= first + left

\* The socket is silent until that is handled.
Silent == where = "idle" /\ state = "stream" /\ sock # "active" /\ NoneOf(mb, SocketMsgs)

Feeding ==
    /\ Silent
    /\ \E first \in Nat \ {0}, done \in Nat, left \in Nat, at \in Nat :
          /\ Queued(mb, first, done, left, at)
          /\ EndsWith(events, done, at)
          /\ tainted = {} => fed = at

\* No key is in the mailbox; the last event says how far the callback is.
Latest == events[Len(events)]

Rested ==
    /\ NoneOf(mb, Keys)
    /\ events = <<>> => state # "stream" /\ (runid = NoRunId \/ Receives)
    /\ events # <<>> =>
          /\ Latest.ev # "loading"
          /\ tainted = {} => fed = (IF Latest.ev = "eof" THEN Latest.r ELSE CmdUnits * Latest.n)

Story ==
    /\ events \in Seq(Event)
    /\ SnapshotWhole
    /\ where = "down" \/ Rested \/ Feeding

-----------------------------------------------------------------------------
(* A story goes on.                                                         *)

\* The two halves of SnapshotWhole.
EofWhole(story, e) ==
    story[e].ev = "eof" =>
        LET size == story[e].n
        IN  /\ size < e
            /\ \A i \in 1 .. size : story[e - size - 1 + i] = KeyEvent(i, story[e].r)
            /\ size + 1 < e => story[e - size - 1].ev # "loading"

KeyFollowed(story, i) ==
    story[i].ev = "loading" =>
        story[i + 1].ev = "eof" \/ story[i + 1] = KeyEvent(story[i].n + 1, story[i].r)

Whole(story) ==
    /\ \A e \in DOMAIN story : EofWhole(story, e)
    /\ \A i \in 1 .. Len(story) - 1 : KeyFollowed(story, i)

LEMMA WholeIs == SnapshotWhole <=> Whole(events)
BY DEF SnapshotWhole, Whole, EofWhole, KeyFollowed, KeyEvent

LEMMA EventParts ==
    ASSUME NEW num, NEW at
    PROVE  /\ KeyEvent(num, at).ev = "loading" /\ EofEvent(num, at).ev = "eof"
           /\ KeyEvent(num, at).n = num /\ EofEvent(num, at).n = num
           /\ KeyEvent(num, at).r = at /\ EofEvent(num, at).r = at
BY DEF KeyEvent, EofEvent

LEMMA NextKey ==
    ASSUME NEW story, NEW i, NEW num, NEW at,
           story[i] = KeyEvent(num, at), story[i + 1] = KeyEvent(num + 1, at)
    PROVE  KeyFollowed(story, i)
BY EventParts DEF KeyFollowed

LEMMA JoinEvents ==
    ASSUME NEW a \in Seq(Event), NEW b \in Seq(Event)
    PROVE  /\ a \o b \in Seq(Event)
           /\ Len(a \o b) = Len(a) + Len(b)
           /\ \A i \in 1 .. Len(a) : (a \o b)[i] = a[i]
           /\ \A i \in 1 .. Len(b) : (a \o b)[Len(a) + i] = b[i]
           /\ DOMAIN (a \o b) = 1 .. Len(a) + Len(b)
OBVIOUS

LEMMA AddEvent ==
    ASSUME NEW story \in Seq(Event), NEW event \in Event
    PROVE  /\ Append(story, event) \in Seq(Event)
           /\ Len(Append(story, event)) = Len(story) + 1
           /\ \A i \in 1 .. Len(story) : Append(story, event)[i] = story[i]
           /\ Append(story, event)[Len(story) + 1] = event
           /\ Append(story, event) # <<>>
OBVIOUS

\* What has been told stays as it was.
LEMMA WholeKept ==
    ASSUME NEW story \in Seq(Event), NEW longer \in Seq(Event), Whole(story),
           Len(longer) >= Len(story), \A i \in 1 .. Len(story) : longer[i] = story[i]
    PROVE  /\ \A e \in 1 .. Len(story) : EofWhole(longer, e)
           /\ \A i \in 1 .. Len(story) - 1 : KeyFollowed(longer, i)
<1>0. Len(story) \in Nat /\ DOMAIN story = 1 .. Len(story)
  OBVIOUS
<1>1. ASSUME NEW e \in 1 .. Len(story), longer[e].ev = "eof"
      PROVE  EofWhole(longer, e)
  <2>1. story[e] = longer[e] /\ story[e] \in Event
    OBVIOUS
  <2>2. PICK size \in Nat, at \in Nat : size = story[e].n /\ at = story[e].r
    BY <2>1 DEF Event
  <2>3. /\ size < e
        /\ \A i \in 1 .. size : story[e - size - 1 + i] = KeyEvent(i, at)
        /\ size + 1 < e => story[e - size - 1].ev # "loading"
    BY <1>0, <1>1, <2>1, <2>2 DEF Whole, EofWhole
  <2>4. ASSUME NEW i \in 1 .. size PROVE longer[e - size - 1 + i] = KeyEvent(i, at)
    <3>1. e - size - 1 + i \in 1 .. Len(story)
      BY <1>0, <2>3
    <3> QED BY <2>3, <3>1
  <2>5. ASSUME size + 1 < e PROVE longer[e - size - 1].ev # "loading"
    <3>1. e - size - 1 \in 1 .. Len(story)
      BY <1>0, <2>5
    <3> QED BY <2>3, <2>5, <3>1
  <2> QED BY <2>1, <2>2, <2>3, <2>4, <2>5 DEF EofWhole
<1>2. \A e \in 1 .. Len(story) : EofWhole(longer, e)
  BY <1>1 DEF EofWhole
<1>3. ASSUME NEW i \in 1 .. Len(story) - 1 PROVE KeyFollowed(longer, i)
  <2>1. i \in 1 .. Len(story) /\ i + 1 \in 1 .. Len(story)
    BY <1>0
  <2>2. longer[i] = story[i] /\ longer[i + 1] = story[i + 1]
    BY <2>1
  <2> QED BY <1>3, <2>2 DEF Whole, KeyFollowed
<1> QED BY <1>2, <1>3

\* The next key of a snapshot, and its end.
LEMMA WholeKey ==
    ASSUME NEW story \in Seq(Event), NEW done \in Nat, NEW at \in Nat, Whole(story),
           EndsWith(story, done, at), NEW longer, longer = Append(story, KeyEvent(done + 1, at))
    PROVE  longer \in Seq(Event) /\ Whole(longer) /\ EndsWith(longer, done + 1, at)
<1> DEFINE n == Len(story)
<1>0. n \in Nat /\ KeyEvent(done + 1, at) \in Event
  BY DEF KeyEvent, Event
<1>1. /\ longer \in Seq(Event) /\ Len(longer) = n + 1
      /\ \A i \in 1 .. n : longer[i] = story[i]
      /\ longer[n + 1] = KeyEvent(done + 1, at)
  BY <1>0, AddEvent
<1>2. /\ \A e \in 1 .. n : EofWhole(longer, e)
      /\ \A i \in 1 .. n - 1 : KeyFollowed(longer, i)
  <2>1. Len(longer) >= Len(story)
    BY <1>0, <1>1
  <2>2. \A i \in 1 .. Len(story) : longer[i] = story[i]
    BY <1>1
  <2> QED BY <1>1, <2>1, <2>2, WholeKept
<1>3. done <= n /\ \A i \in 1 .. done : story[n - done + i] = KeyEvent(i, at)
  BY DEF EndsWith
<1>4. done < n => story[n - done].ev # "loading"
  BY DEF EndsWith
<1> HIDE DEF n
<1>5. EofWhole(longer, n + 1)
  BY <1>1 DEF EofWhole, KeyEvent
<1>6. ASSUME n \in 1 .. n PROVE KeyFollowed(longer, n)
  <2>1. CASE done = 0
    BY <1>0, <1>1, <1>4, <1>6, <2>1 DEF KeyFollowed
  <2>2. CASE done # 0
    <3>1. done \in 1 .. done /\ n - done + done = n
      BY <1>0, <2>2
    <3>2. longer[n] = KeyEvent(done, at) /\ longer[n + 1] = KeyEvent(done + 1, at)
      BY <1>1, <1>3, <1>6, <3>1
    <3> QED BY <3>2, NextKey, Zenon
  <2> QED BY <2>1, <2>2
<1>7. Whole(longer)
  <2>1. DOMAIN longer = 1 .. n + 1 /\ Len(longer) - 1 = n
    BY <1>0, <1>1
  <2>2. \A e \in 1 .. n + 1 : e \in 1 .. n \/ e = n + 1
    BY <1>0
  <2>3. \A i \in 1 .. n : i \in 1 .. n - 1 \/ i = n
    BY <1>0
  <2> QED BY <1>2, <1>5, <1>6, <2>1, <2>2, <2>3 DEF Whole
<1>8. EndsWith(longer, done + 1, at)
  <2>1. done + 1 <= Len(longer)
    BY <1>0, <1>1, <1>3
  <2>2. ASSUME NEW i \in 1 .. done + 1
        PROVE  longer[Len(longer) - (done + 1) + i] = KeyEvent(i, at)
    <3>1. Len(longer) - (done + 1) + i = n - done + i
      BY <1>0, <1>1
    <3>2. CASE i = done + 1
      <4>1. n - done + i = n + 1
        BY <1>0, <3>2
      <4> QED BY <1>1, <3>1, <3>2, <4>1
    <3>3. CASE i # done + 1
      <4>1. i \in 1 .. done /\ n - done + i \in 1 .. n
        BY <1>0, <1>3, <3>3
      <4> QED BY <1>1, <1>3, <3>1, <4>1
    <3> QED BY <3>2, <3>3
  <2>3. ASSUME done + 1 < Len(longer) PROVE longer[Len(longer) - (done + 1)].ev # "loading"
    <3>1. Len(longer) - (done + 1) = n - done /\ n - done \in 1 .. n /\ done < n
      BY <1>0, <1>1, <2>3
    <3> QED BY <1>1, <1>4, <3>1
  <2> QED BY <2>1, <2>2, <2>3 DEF EndsWith
<1> QED BY <1>1, <1>7, <1>8

\* A story whose last event is the end of a snapshot with `done` keys.
EndsInEof(story, done, at) ==
    /\ story \in Seq(Event) /\ Whole(story) /\ story # <<>>
    /\ story[Len(story)] = EofEvent(done, at)

LEMMA WholeEof ==
    ASSUME NEW story \in Seq(Event), NEW done \in Nat, NEW at \in Nat, Whole(story),
           EndsWith(story, done, at), NEW longer, longer = Append(story, EofEvent(done, at))
    PROVE  EndsInEof(longer, done, at)
<1> DEFINE n == Len(story)
<1>0. n \in Nat /\ EofEvent(done, at) \in Event
  BY DEF EofEvent, Event
<1>1. /\ longer \in Seq(Event) /\ Len(longer) = n + 1 /\ longer # <<>>
      /\ \A i \in 1 .. n : longer[i] = story[i]
      /\ longer[n + 1] = EofEvent(done, at)
  BY <1>0, AddEvent
<1>2. /\ \A e \in 1 .. n : EofWhole(longer, e)
      /\ \A i \in 1 .. n - 1 : KeyFollowed(longer, i)
  <2>1. Len(longer) >= Len(story)
    BY <1>0, <1>1
  <2>2. \A i \in 1 .. Len(story) : longer[i] = story[i]
    BY <1>1
  <2> QED BY <1>1, <2>1, <2>2, WholeKept
<1>3. /\ done <= n /\ \A i \in 1 .. done : story[n - done + i] = KeyEvent(i, at)
      /\ done < n => story[n - done].ev # "loading"
  BY DEF EndsWith
<1> HIDE DEF n
<1>4. EofWhole(longer, n + 1)
  <2>1. longer[n + 1].n = done /\ longer[n + 1].r = at /\ done < n + 1
    BY <1>0, <1>1, <1>3 DEF EofEvent
  <2>2. ASSUME NEW i \in 1 .. done PROVE longer[(n + 1) - done - 1 + i] = KeyEvent(i, at)
    <3>1. (n + 1) - done - 1 + i = n - done + i /\ n - done + i \in 1 .. n
      BY <1>0, <1>3
    <3> QED BY <1>1, <1>3, <3>1
  <2>3. ASSUME done + 1 < n + 1 PROVE longer[(n + 1) - done - 1].ev # "loading"
    <3>1. (n + 1) - done - 1 = n - done /\ n - done \in 1 .. n /\ done < n
      BY <1>0, <2>3
    <3> QED BY <1>1, <1>3, <3>1
  <2> QED BY <2>1, <2>2, <2>3 DEF EofWhole
<1>5. KeyFollowed(longer, n)
  BY <1>1 DEF KeyFollowed, EofEvent
<1>6. Whole(longer)
  <2>1. DOMAIN longer = 1 .. n + 1 /\ Len(longer) - 1 = n
    BY <1>0, <1>1
  <2>2. \A e \in 1 .. n + 1 : e \in 1 .. n \/ e = n + 1
    BY <1>0
  <2>3. \A i \in 1 .. n : i \in 1 .. n - 1 \/ i = n
    BY <1>0
  <2> QED BY <1>2, <1>4, <1>5, <2>1, <2>2, <2>3 DEF Whole
<1> QED BY <1>1, <1>6 DEF EndsInEof

\* Commands may follow anything but a key.
LEMMA WholeStream ==
    ASSUME NEW story \in Seq(Event), Whole(story),
           story # <<>> => story[Len(story)].ev # "loading",
           NEW more \in Seq(Event), \A i \in 1 .. Len(more) : more[i].ev = "stream",
           NEW longer, longer = story \o more
    PROVE  longer \in Seq(Event) /\ Whole(longer)
<1> DEFINE n == Len(story)
           k == Len(more)
<1>0. n \in Nat /\ k \in Nat /\ (n # 0 => story # <<>>)
  OBVIOUS
<1>1. /\ longer \in Seq(Event) /\ Len(longer) = n + k /\ DOMAIN longer = 1 .. n + k
      /\ \A i \in 1 .. n : longer[i] = story[i]
      /\ \A i \in 1 .. k : longer[n + i] = more[i]
  BY JoinEvents
<1>2. /\ \A e \in 1 .. n : EofWhole(longer, e)
      /\ \A i \in 1 .. n - 1 : KeyFollowed(longer, i)
  <2>1. Len(longer) >= Len(story)
    BY <1>0, <1>1
  <2>2. \A i \in 1 .. Len(story) : longer[i] = story[i]
    BY <1>1
  <2> QED BY <1>1, <2>1, <2>2, WholeKept
<1>3. n # 0 => longer[n].ev # "loading"
  BY <1>0, <1>1
<1> HIDE DEF n, k
<1>4. ASSUME NEW e \in n + 1 .. n + k PROVE longer[e].ev = "stream"
  <2>1. e - n \in 1 .. k /\ n + (e - n) = e
    BY <1>0
  <2> QED BY <1>1, <2>1 DEF k
<1>5. \A e \in 1 .. n + k : EofWhole(longer, e)
  <2>1. \A e \in 1 .. n + k : e \in 1 .. n \/ e \in n + 1 .. n + k
    BY <1>0
  <2> QED BY <1>2, <1>4, <2>1 DEF EofWhole
<1>6. \A i \in 1 .. (n + k) - 1 : KeyFollowed(longer, i)
  <2>1. \A i \in 1 .. (n + k) - 1 : i \in 1 .. n - 1 \/ (i = n /\ n # 0) \/ i \in n + 1 .. n + k
    BY <1>0
  <2> QED BY <1>2, <1>3, <1>4, <2>1 DEF KeyFollowed
<1> QED BY <1>1, <1>5, <1>6 DEF Whole

-----------------------------------------------------------------------------
(* A snapshot on its way through the mailbox.                               *)

\* What is in front of it is taken.
LEMMA QueuedTail ==
    ASSUME NEW box \in Seq(Message), box # <<>>,
           NEW first \in Nat \ {0}, NEW done \in Nat, NEW left \in Nat, NEW at \in Nat,
           Queued(box, first, done, left, at), box[1].t \notin Keys
    PROVE  first - 1 \in Nat \ {0} /\ Queued(Tail(box), first - 1, done, left, at)
<1>0. /\ Len(box) \in Nat /\ DOMAIN box = 1 .. Len(box)
      /\ Tail(box) \in Seq(Message) /\ DOMAIN Tail(box) = 1 .. Len(box) - 1
      /\ \A i \in 1 .. Len(box) - 1 : Tail(box)[i] = box[i + 1]
  OBVIOUS
<1>1. /\ first + left + 1 \in 1 .. Len(box)
      /\ \A i \in 1 .. left : KeyMsg(box[first + i - 1], done + i, at)
      /\ EofMsg(box[first + left], done + left, at)
      /\ box[first + left + 1].t = "replication"
      /\ \A i \in 1 .. Len(box) : box[i].t \in Keys => first <= i /\ i <= first + left
  BY <1>0 DEF Queued
<1>2. first # 1
  <2>1. CASE left = 0
    <3>1. first + left = first
      BY <2>1
    <3> QED BY <1>1, <3>1 DEF EofMsg, Keys
  <2>2. CASE left # 0
    <3>1. 1 \in 1 .. left /\ first + 1 - 1 = first
      BY <2>2
    <3> QED BY <1>1, <3>1 DEF KeyMsg, Keys
  <2> QED BY <2>1, <2>2
<1> DEFINE place == first - 1
<1>3. place \in Nat \ {0} /\ first = place + 1
  BY <1>2
<1> HIDE DEF place
<1>4. place + left + 1 \in 1 .. Len(box) - 1 /\ place + left \in 1 .. Len(box) - 1
  BY <1>0, <1>1, <1>3
<1>5. ASSUME NEW i \in 1 .. left PROVE KeyMsg(Tail(box)[place + i - 1], done + i, at)
  <2>1. place + i - 1 \in 1 .. Len(box) - 1 /\ (place + i - 1) + 1 = first + i - 1
    BY <1>0, <1>3, <1>4
  <2>2. Tail(box)[place + i - 1] = box[first + i - 1]
    BY <1>0, <2>1
  <2> QED BY <1>1, <2>2
<1>6. Tail(box)[place + left] = box[first + left] /\ Tail(box)[place + left + 1] = box[first + left + 1]
  <2>1. (place + left) + 1 = first + left /\ (place + left + 1) + 1 = first + left + 1
    BY <1>3
  <2> QED BY <1>0, <1>4, <2>1
<1>7. ASSUME NEW i \in 1 .. Len(box) - 1, Tail(box)[i].t \in Keys
      PROVE  place <= i /\ i <= place + left
  <2>1. i + 1 \in 1 .. Len(box) /\ box[i + 1].t \in Keys
    BY <1>0, <1>7
  <2>2. first <= i + 1 /\ i + 1 <= first + left
    BY <1>1, <2>1
  <2> QED BY <1>3, <2>2
<1>8. Queued(Tail(box), place, done, left, at)
  BY <1>0, <1>1, <1>4, <1>5, <1>6, <1>7 DEF Queued
<1> QED BY <1>3, <1>8 DEF place

\* The first message is a key, or the end.
LEMMA QueuedKey ==
    ASSUME NEW box \in Seq(Message), box # <<>>,
           NEW first \in Nat \ {0}, NEW done \in Nat, NEW left \in Nat, NEW at \in Nat,
           Queued(box, first, done, left, at), box[1].t = "loading"
    PROVE  /\ KeyMsg(box[1], done + 1, at)
           /\ left - 1 \in Nat /\ Queued(Tail(box), 1, done + 1, left - 1, at)
<1>0. /\ Len(box) \in Nat /\ DOMAIN box = 1 .. Len(box) /\ 1 \in 1 .. Len(box)
      /\ Tail(box) \in Seq(Message) /\ DOMAIN Tail(box) = 1 .. Len(box) - 1
      /\ \A i \in 1 .. Len(box) - 1 : Tail(box)[i] = box[i + 1]
  OBVIOUS
<1>1. /\ first + left + 1 \in 1 .. Len(box)
      /\ \A i \in 1 .. left : KeyMsg(box[first + i - 1], done + i, at)
      /\ EofMsg(box[first + left], done + left, at)
      /\ box[first + left + 1].t = "replication"
      /\ \A i \in 1 .. Len(box) : box[i].t \in Keys => first <= i /\ i <= first + left
  BY <1>0 DEF Queued
<1>2. first = 1
  BY <1>0, <1>1 DEF Keys
<1>3. left # 0
  <2>1. left = 0 => first + left = 1
    BY <1>2
  <2> QED BY <1>1, <2>1 DEF EofMsg
<1> DEFINE rest == left - 1
<1>4. rest \in Nat /\ left = rest + 1
  BY <1>3
<1> HIDE DEF rest
<1>5. KeyMsg(box[1], done + 1, at)
  <2>1. 1 \in 1 .. left /\ first + 1 - 1 = 1
    BY <1>2, <1>4
  <2> QED BY <1>1, <2>1
<1>6. 1 + rest + 1 \in 1 .. Len(box) - 1 /\ 1 + rest \in 1 .. Len(box) - 1
  BY <1>0, <1>1, <1>2, <1>4
<1>7. ASSUME NEW i \in 1 .. rest PROVE KeyMsg(Tail(box)[1 + i - 1], (done + 1) + i, at)
  <2>1. /\ 1 + i - 1 \in 1 .. Len(box) - 1 /\ (1 + i - 1) + 1 = first + (i + 1) - 1
        /\ i + 1 \in 1 .. left /\ (done + 1) + i = done + (i + 1)
    BY <1>0, <1>2, <1>4, <1>6
  <2>2. Tail(box)[1 + i - 1] = box[first + (i + 1) - 1]
    BY <1>0, <2>1
  <2> QED BY <1>1, <2>1, <2>2
<1>8. /\ Tail(box)[1 + rest] = box[first + left] /\ Tail(box)[1 + rest + 1] = box[first + left + 1]
      /\ (done + 1) + rest = done + left
  <2>1. /\ (1 + rest) + 1 = first + left /\ (1 + rest + 1) + 1 = first + left + 1
        /\ (done + 1) + rest = done + left
    BY <1>2, <1>4
  <2> QED BY <1>0, <1>6, <2>1
<1>9. ASSUME NEW i \in 1 .. Len(box) - 1, Tail(box)[i].t \in Keys
      PROVE  1 <= i /\ i <= 1 + rest
  <2>1. i + 1 \in 1 .. Len(box) /\ box[i + 1].t \in Keys
    BY <1>0, <1>9
  <2>2. i + 1 <= first + left
    BY <1>1, <2>1
  <2> QED BY <1>2, <1>4, <2>2
<1>10. Queued(Tail(box), 1, done + 1, rest, at)
  BY <1>0, <1>1, <1>6, <1>7, <1>8, <1>9 DEF Queued
<1> QED BY <1>4, <1>5, <1>10 DEF rest

LEMMA QueuedEof ==
    ASSUME NEW box \in Seq(Message), box # <<>>,
           NEW first \in Nat \ {0}, NEW done \in Nat, NEW left \in Nat, NEW at \in Nat,
           Queued(box, first, done, left, at), box[1].t = "loading_eof"
    PROVE  EofMsg(box[1], done, at) /\ NoneOf(Tail(box), Keys)
<1>0. /\ Len(box) \in Nat /\ DOMAIN box = 1 .. Len(box) /\ 1 \in 1 .. Len(box)
      /\ DOMAIN Tail(box) = 1 .. Len(box) - 1
      /\ \A i \in 1 .. Len(box) - 1 : Tail(box)[i] = box[i + 1]
  OBVIOUS
<1>1. /\ \A i \in 1 .. left : KeyMsg(box[first + i - 1], done + i, at)
      /\ EofMsg(box[first + left], done + left, at)
      /\ \A i \in 1 .. Len(box) : box[i].t \in Keys => first <= i /\ i <= first + left
  BY <1>0 DEF Queued
<1>2. first = 1
  BY <1>0, <1>1 DEF Keys
<1>3. left = 0
  <2>1. left # 0 => 1 \in 1 .. left /\ first + 1 - 1 = 1
    BY <1>2
  <2> QED BY <1>1, <2>1 DEF KeyMsg
<1>4. first + left = 1 /\ done + left = done
  BY <1>2, <1>3
<1>5. ASSUME NEW i \in 1 .. Len(box) - 1 PROVE Tail(box)[i].t \notin Keys
  <2>1. i + 1 \in 1 .. Len(box) /\ ~(i + 1 <= 1) /\ Tail(box)[i] = box[i + 1]
    BY <1>0
  <2> QED BY <1>1, <1>4, <2>1
<1> QED BY <1>0, <1>1, <1>4, <1>5 DEF NoneOf

\* Another message arrives behind it.
LEMMA QueuedAdded ==
    ASSUME NEW box \in Seq(Message), NEW m \in Message, m.t \notin Keys,
           NEW first \in Nat \ {0}, NEW done \in Nat, NEW left \in Nat, NEW at \in Nat,
           Queued(box, first, done, left, at)
    PROVE  Queued(Append(box, m), first, done, left, at)
<1>0. /\ Len(box) \in Nat /\ DOMAIN box = 1 .. Len(box)
      /\ DOMAIN Append(box, m) = 1 .. Len(box) + 1
      /\ \A i \in 1 .. Len(box) : Append(box, m)[i] = box[i]
      /\ Append(box, m)[Len(box) + 1] = m
  OBVIOUS
<1>1. /\ first + left + 1 \in 1 .. Len(box)
      /\ \A i \in 1 .. left : KeyMsg(box[first + i - 1], done + i, at)
      /\ EofMsg(box[first + left], done + left, at)
      /\ box[first + left + 1].t = "replication"
      /\ \A i \in 1 .. Len(box) : box[i].t \in Keys => first <= i /\ i <= first + left
  BY <1>0 DEF Queued
<1>2. ASSUME NEW i \in 1 .. left PROVE KeyMsg(Append(box, m)[first + i - 1], done + i, at)
  <2>1. first + i - 1 \in 1 .. Len(box)
    BY <1>0, <1>1
  <2> QED BY <1>0, <1>1, <2>1
<1>3. first + left \in 1 .. Len(box) /\ first + left + 1 \in 1 .. Len(box) + 1
  BY <1>0, <1>1
<1>4. ASSUME NEW i \in 1 .. Len(box) + 1, Append(box, m)[i].t \in Keys
      PROVE  first <= i /\ i <= first + left
  <2>1. i \in 1 .. Len(box)
    BY <1>0, <1>4
  <2> QED BY <1>0, <1>1, <1>4, <2>1
<1> QED BY <1>0, <1>1, <1>2, <1>3, <1>4 DEF Queued

\* The casts are behind the keys.
LEMMA QueuedHead ==
    ASSUME NEW box \in Seq(Message), box # <<>>,
           NEW first \in Nat \ {0}, NEW done \in Nat, NEW left \in Nat, NEW at \in Nat,
           Queued(box, first, done, left, at), AtMostOne(box, Casts)
    PROVE  box[1].t \notin Casts
<1>1. /\ first + left + 1 \in DOMAIN box /\ box[first + left + 1].t \in Casts
      /\ first + left + 1 # 1 /\ 1 \in DOMAIN box
  BY DEF Queued, Casts
<1> QED BY <1>1 DEF AtMostOne

-----------------------------------------------------------------------------
(* Steps that leave the story as it is.                                     *)

LEMMA StoryDie == ASSUME Story, Die PROVE Story'
<1>1. events' = events /\ where' = "down"
  BY DEF Die, ghostVars
<1> QED BY <1>1 DEF Story, SnapshotWhole

LEMMA RestedKept ==
    ASSUME Rested, NoneOf(mb', Keys), events' = events, fed' = fed, tainted' = {} => tainted = {},
           state' # "stream" \/ state = "stream",
           Receives' \/ (runid' = runid /\ ~Receives)
    PROVE  Rested'
<1>1. Latest' = Latest
  BY DEF Latest
<1>2. events' = <<>> => state' # "stream" /\ (runid' = NoRunId \/ Receives')
  BY DEF Rested
<1>3. events' # <<>> => /\ Latest'.ev # "loading"
                        /\ tainted' = {} => fed' = (IF Latest'.ev = "eof" THEN Latest'.r
                                                     ELSE CmdUnits * Latest'.n)
  BY <1>1, Zenon DEF Rested
<1> QED BY <1>2, <1>3 DEF Rested

LEMMA StoryRests ==
    ASSUME Story, events' = events, Rested'
    PROVE  Story'
BY DEF Story, SnapshotWhole

\* The first message is taken and others that are no keys may follow it.
LEMMA KeylessTail ==
    ASSUME TypeOK, NoneOf(mb, Keys), mb # <<>>
    PROVE  /\ NoneOf(Tail(mb), Keys) /\ Head(mb).t \notin Keys
           /\ \A next \in Seq(Message) : NoneOf(next, Keys) => NoneOf(Tail(mb) \o next, Keys)
<1>1. mb \in Seq(Message) /\ Tail(mb) \in Seq(Message)
  BY HeadParts DEF TypeOK, ServerTypeOK
<1> QED BY <1>1, TailNone, ConcatNone

LEMMA KeylessCast ==
    ASSUME TypeOK, NoneOf(mb, Keys), mb # <<>>, NEW m \in Message, m.t \notin Keys
    PROVE  NoneOf(Tail(mb) \o <<m>>, Keys)
<1>1. <<m>> \in Seq(Message) /\ NoneOf(<<m>>, Keys)
  BY OneMessage DEF NoneOf
<1> QED BY <1>1, KeylessTail

LEMMA StoryIs ==
    ASSUME events' \in Seq(Event), Whole(events'), Rested' \/ Feeding'
    PROVE  Story'
<1>1. SnapshotWhole'
  BY DEF SnapshotWhole, Whole, EofWhole, KeyFollowed, KeyEvent
<1> QED BY <1>1 DEF Story

LEMMA StoryFeeds ==
    ASSUME Story, events' = events, Feeding'
    PROVE  Story'
BY DEF Story, SnapshotWhole

-----------------------------------------------------------------------------
(* While a snapshot is in the mailbox.                                      *)

LEMMA FeedingHead ==
    ASSUME IInv, Feeding
    PROVE  /\ mb \in Seq(Message) /\ mb # <<>> /\ Head(mb) = mb[1] /\ Tail(mb) \in Seq(Message)
           /\ Head(mb).t \notin Casts /\ Head(mb).t \notin SocketMsgs
           /\ NoneOf(Tail(mb), SocketMsgs)
<1>1. PICK first \in Nat \ {0}, done \in Nat, left \in Nat, at \in Nat :
              Queued(mb, first, done, left, at)
  BY DEF Feeding
<1>2. PICK box \in Seq(Message) : box = mb
  BY DEF IInv, TypeOK, ServerTypeOK
<1>3. box # <<>>
  BY <1>1, <1>2 DEF Queued
<1>4. AtMostOne(box, Casts) /\ NoneOf(box, SocketMsgs)
  BY <1>2 DEF IInv, NeverWedged, Feeding, Silent
<1>5. box[1].t \notin Casts
  BY <1>1, <1>2, <1>3, <1>4, QueuedHead
<1>6. /\ Head(box) = box[1] /\ Tail(box) \in Seq(Message)
      /\ NoneOf(Tail(box), SocketMsgs) /\ Head(box).t \notin SocketMsgs
  BY <1>3, <1>4, TailMessages, TailNone, TakeMessage
<1> QED BY <1>2, <1>3, <1>5, <1>6

\* A message in front of the snapshot is dropped.
LEMMA FeedingDrop ==
    ASSUME IInv, Story, Feeding, where' = "idle", mb' = Tail(mb), Head(mb).t \notin Keys,
           UNCHANGED <<state, sock, events, fed, tainted>>
    PROVE  Story'
<1>1. /\ mb \in Seq(Message) /\ mb # <<>> /\ Head(mb) = mb[1] /\ NoneOf(Tail(mb), SocketMsgs)
  BY FeedingHead
<1>2. PICK first \in Nat \ {0}, done \in Nat, left \in Nat, at \in Nat :
              /\ Queued(mb, first, done, left, at) /\ EndsWith(events, done, at)
              /\ tainted = {} => fed = at
  BY DEF Feeding
<1>3. PICK box \in Seq(Message) : box = mb
  BY <1>1
<1>4. first - 1 \in Nat \ {0} /\ Queued(Tail(box), first - 1, done, left, at)
  BY <1>1, <1>2, <1>3, QueuedTail
<1>5. Queued(mb', first - 1, done, left, at) /\ EndsWith(events', done, at) /\ (tainted' = {} => fed' = at)
  BY <1>2, <1>3, <1>4
<1>6. Silent'
  BY <1>1 DEF Feeding, Silent
<1>7. Feeding'
  BY <1>4, <1>5, <1>6 DEF Feeding
<1> QED BY <1>7, StoryFeeds

LEMMA FeedingAdd ==
    ASSUME IInv, Story, Feeding, NEW m \in Message, m.t \notin Keys, m.t \notin SocketMsgs,
           mb' = Append(mb, m), UNCHANGED <<where, state, sock, events, fed, tainted>>
    PROVE  Story'
<1>1. PICK first \in Nat \ {0}, done \in Nat, left \in Nat, at \in Nat :
              /\ Queued(mb, first, done, left, at) /\ EndsWith(events, done, at)
              /\ tainted = {} => fed = at
  BY DEF Feeding
<1>2. PICK box \in Seq(Message) : box = mb
  BY FeedingHead
<1>3. Queued(Append(box, m), first, done, left, at) /\ NoneOf(Append(box, m), SocketMsgs)
  BY <1>1, <1>2, QueuedAdded, AddOther DEF Feeding, Silent
<1>4. Queued(mb', first, done, left, at) /\ EndsWith(events', done, at) /\ (tainted' = {} => fed' = at)
  BY <1>1, <1>2, <1>3
<1>5. Silent'
  BY <1>2, <1>3 DEF Feeding, Silent
<1>6. Feeding'
  BY <1>4, <1>5 DEF Feeding
<1> QED BY <1>6, StoryFeeds

LEMMA StorySame ==
    ASSUME Story, UNCHANGED <<where, mb, sock, state, runid, events, fed, tainted>>
    PROVE  Story'
<1>1. Receives' <=> Receives
  BY DEF Receives
<1>2. Rested => Rested'
  BY <1>1, Zenon DEF Rested, Latest, NoneOf
<1>3. Feeding => Feeding'
  BY Zenon DEF Feeding, Silent, NoneOf
<1> QED BY <1>2, <1>3 DEF Story, SnapshotWhole

LEMMA StoryKey == ASSUME IInv, Story, Feeding, InfoLoading PROVE Story'
<1>1. /\ mb \in Seq(Message) /\ mb # <<>> /\ Head(mb) = mb[1] /\ NoneOf(Tail(mb), SocketMsgs)
  BY FeedingHead
<1>2. /\ Head(mb).t = "loading" /\ where' = "idle" /\ mb' = Tail(mb) \o <<>>
      /\ events' = Append(events, KeyEvent(Head(mb).n, Head(mb).data[1].r))
      /\ UNCHANGED <<state, sock, fed, tainted>>
  BY DEF InfoLoading, Handles, Continue, stateVars, KeyEvent
<1>3. PICK first \in Nat \ {0}, done \in Nat, left \in Nat, at \in Nat :
              /\ Queued(mb, first, done, left, at) /\ EndsWith(events, done, at)
              /\ tainted = {} => fed = at
  BY DEF Feeding
<1>4. PICK box \in Seq(Message) : box = mb
  BY <1>1
<1>5. /\ KeyMsg(box[1], done + 1, at) /\ left - 1 \in Nat
      /\ Queued(Tail(box), 1, done + 1, left - 1, at)
  BY <1>1, <1>2, <1>3, <1>4, QueuedKey
<1>6. mb' = Tail(box) /\ NoneOf(mb', SocketMsgs)
  <2>1. Tail(box) \in Seq(Message)
    BY <1>1, <1>4, TakeMessage
  <2>2. Tail(box) \o <<>> = Tail(box)
    BY <2>1
  <2> QED BY <1>1, <1>2, <1>4, <2>2
<1>7. events' = Append(events, KeyEvent(done + 1, at))
  BY <1>1, <1>2, <1>4, <1>5 DEF KeyMsg
<1>8. events \in Seq(Event) /\ Whole(events)
  BY WholeIs DEF Story
<1>9. events' \in Seq(Event) /\ Whole(events') /\ EndsWith(events', done + 1, at)
  BY <1>3, <1>7, <1>8, WholeKey
<1>10. Feeding'
  <2>1. Silent'
    BY <1>2, <1>6 DEF Feeding, Silent
  <2>2. 1 \in Nat \ {0} /\ done + 1 \in Nat
    OBVIOUS
  <2>3. Queued(mb', 1, done + 1, left - 1, at) /\ (tainted' = {} => fed' = at)
    BY <1>2, <1>3, <1>5, <1>6
  <2> QED BY <1>5, <1>9, <2>1, <2>2, <2>3 DEF Feeding
<1> QED BY <1>9, <1>10, StoryIs

LEMMA StoryEof == ASSUME IInv, Story, Feeding, InfoLoadingEof PROVE Story'
<1>1. /\ mb \in Seq(Message) /\ mb # <<>> /\ Head(mb) = mb[1]
  BY FeedingHead
<1>2. /\ Head(mb).t = "loading_eof" /\ where' = "idle" /\ mb' = Tail(mb) \o <<>>
      /\ events' = Append(events, EofEvent(Head(mb).data[1].n, Head(mb).data[1].r))
      /\ UNCHANGED <<state, sock, fed, tainted>>
  BY DEF InfoLoadingEof, Handles, Continue, stateVars, EofEvent
<1>3. PICK first \in Nat \ {0}, done \in Nat, left \in Nat, at \in Nat :
              /\ Queued(mb, first, done, left, at) /\ EndsWith(events, done, at)
              /\ tainted = {} => fed = at
  BY DEF Feeding
<1>4. PICK box \in Seq(Message) : box = mb
  BY <1>1
<1>5. EofMsg(box[1], done, at) /\ NoneOf(Tail(box), Keys)
  BY <1>1, <1>2, <1>3, <1>4, QueuedEof
<1>6. mb' = Tail(box)
  <2>1. Tail(box) \in Seq(Message)
    BY <1>1, <1>4, TakeMessage
  <2>2. Tail(box) \o <<>> = Tail(box)
    BY <2>1
  <2> QED BY <1>2, <1>4, <2>2
<1>7. events' = Append(events, EofEvent(done, at))
  BY <1>1, <1>2, <1>4, <1>5 DEF EofMsg
<1>8. events \in Seq(Event) /\ Whole(events)
  BY WholeIs DEF Story
<1>9. /\ events' \in Seq(Event) /\ Whole(events') /\ events' # <<>>
      /\ events'[Len(events')] = EofEvent(done, at)
  <2>1. PICK longer : longer = events'
    OBVIOUS
  <2>2. PICK told : told = events
    OBVIOUS
  <2>3. told \in Seq(Event) /\ Whole(told) /\ EndsWith(told, done, at) /\ longer = Append(told, EofEvent(done, at))
    BY <1>3, <1>7, <1>8, <2>1, <2>2
  <2>4. EndsInEof(longer, done, at)
    BY <2>3, WholeEof
  <2> QED BY <2>1, <2>4 DEF EndsInEof
<1>10. Rested'
  <2>1. Latest' = EofEvent(done, at)
    BY <1>9 DEF Latest
  <2>2. Latest'.ev = "eof" /\ Latest'.r = at
    BY <2>1, EventParts
  <2> QED BY <1>2, <1>3, <1>5, <1>6, <1>9, <2>2 DEF Rested
<1> QED BY <1>9, <1>10, StoryIs

-----------------------------------------------------------------------------
(* The snapshot in the dump file.                                           *)

LEMMA SnapshotKeys ==
    ASSUME TypeOK, Loadable(file), NEW at \in Nat, Synced(file \o net, at),
           NEW z \in Nat, z = EofAt(file)
    PROVE  /\ z \in 2 .. Len(file)
           /\ \A i \in 2 .. z - 1 : file[i].n = i - 1 /\ file[i].r = at
           /\ file[z].n = z - 2 /\ file[z].r = at
<1> DEFINE all == file \o net
<1>1. file \in Seq(Unit) /\ net \in Seq(Unit)
  BY DEF TypeOK, ServerTypeOK, MasterTypeOK
<1>2. z \in 2 .. Len(file) /\ EndsAt(file, z)
  BY DEF Loadable, EofAt
<1>3. /\ Len(file) \in Nat /\ Len(net) \in Nat /\ Len(all) = Len(file) + Len(net)
      /\ \A i \in 1 .. Len(file) : all[i] = file[i]
  BY <1>1, JoinUnits
<1>4. PICK y \in Int, size \in Nat : Wire(all, at, y, size)
  BY DEF Synced, SyncedAt
<1>5. ASSUME NEW i \in 1 .. z PROVE WireUnit(file[i], i, at, y, size)
  <2>1. i \in 1 .. Len(all) /\ all[i] = file[i]
    BY <1>2, <1>3
  <2> HIDE DEF all
  <2> QED BY <1>4, <2>1 DEF Wire
<1> HIDE DEF all
<1>6. ASSUME NEW i \in 1 .. z, file[i].k \in {"magic", "key", "dkey", "eof"}
      PROVE  ~(i > y /\ file[i] = HistUnit(at + i - y)) /\ file[i] # Mk("lf", 0)
  <2>1. ASSUME i > y PROVE HistUnit(at + i - y).k \in {"lf", "body", "head"}
    <3>1. at + i - y \in Nat \ {0}
      BY <2>1
    <3> QED BY <3>1, HistUnitIs
  <2>2. Mk("lf", 0).k = "lf"
    BY DEF Mk
  <2> QED BY <1>6, <2>1, <2>2
<1>7. z = y /\ file[z].n = size /\ file[z].r = at
  <2>1. z \in 1 .. z /\ file[z].k = "eof"
    BY <1>2 DEF EndsAt
  <2>2. WireUnit(file[z], z, at, y, size)
    BY <1>5, <2>1
  <2>3. ~(z > y /\ file[z] = HistUnit(at + z - y)) /\ file[z] # Mk("lf", 0)
    BY <1>6, <2>1
  <2> QED BY <2>1, <2>2, <2>3 DEF WireUnit, IsKey
<1>8. size = z - 2
  <2>1. 1 \in 1 .. z /\ file[1].k = "magic"
    BY <1>2 DEF EndsAt
  <2>2. WireUnit(file[1], 1, at, y, size)
    BY <1>5, <2>1
  <2>3. ~(1 > y /\ file[1] = HistUnit(at + 1 - y)) /\ file[1] # Mk("lf", 0)
    BY <1>6, <2>1
  <2> QED BY <1>7, <2>1, <2>2, <2>3 DEF WireUnit, IsKey
<1>9. ASSUME NEW i \in 2 .. z - 1 PROVE file[i].n = i - 1 /\ file[i].r = at
  <2>1. i \in 1 .. z /\ i # y /\ IsKey(file[i])
    BY <1>2, <1>7 DEF EndsAt
  <2>2. WireUnit(file[i], i, at, y, size)
    BY <1>5, <2>1
  <2>3. file[i].k \in {"key", "dkey"}
    BY <2>1 DEF IsKey
  <2>4. ~(i > y /\ file[i] = HistUnit(at + i - y)) /\ file[i] # Mk("lf", 0)
    BY <1>6, <2>1, <2>3
  <2>5. i >= y - size /\ file[i].n = i - (y - size) + 1 /\ file[i].r = at
    BY <2>1, <2>2, <2>3, <2>4 DEF WireUnit
  <2> QED BY <1>7, <1>8, <2>5
<1> QED BY <1>2, <1>7, <1>8, <1>9

\* A snapshot is put behind what a mailbox holds.
LEMMA QueuedBehind ==
    ASSUME NEW box \in Seq(Message), NoneOf(box, Keys),
           NEW keys \in Seq(Message), NEW end \in Message, NEW go \in Message,
           NEW n \in Nat, n = Len(box), NEW left \in Nat, left = Len(keys), NEW at \in Nat,
           \A i \in 1 .. left : KeyMsg(keys[i], 0 + i, at),
           EofMsg(end, 0 + left, at), go.t = "replication"
    PROVE  /\ Queued(box \o ((keys \o <<end>>) \o <<go>>), n + 1, 0, left, at)
           /\ NoneOf(box, SocketMsgs) => NoneOf(box \o ((keys \o <<end>>) \o <<go>>), SocketMsgs)
<1> DEFINE a == keys \o <<end>>
           b == a \o <<go>>
           longer == box \o b
<1>1. /\ a \in Seq(Message) /\ Len(a) = left + 1 /\ \A i \in 1 .. left : a[i] = keys[i]
      /\ a[left + 1] = end
  OBVIOUS
<1> HIDE DEF a
<1>2. /\ b \in Seq(Message) /\ Len(b) = left + 2 /\ \A i \in 1 .. left + 1 : b[i] = a[i]
      /\ b[left + 2] = go
  BY <1>1
<1> HIDE DEF b
<1>3. /\ DOMAIN longer = 1 .. n + left + 2 /\ DOMAIN box = 1 .. n
      /\ \A i \in 1 .. n : longer[i] = box[i]
      /\ \A i \in 1 .. left + 2 : longer[n + i] = b[i]
  BY <1>2
<1> HIDE DEF longer
<1>4. ASSUME NEW i \in 1 .. left PROVE longer[n + i] = keys[i]
  <2>1. i \in 1 .. left + 2 /\ i \in 1 .. left + 1
    OBVIOUS
  <2> QED BY <1>1, <1>2, <1>3, <2>1
<1>5. longer[n + left + 1] = end /\ longer[n + left + 2] = go
  <2>1. /\ n + left + 1 = n + (left + 1) /\ left + 1 \in 1 .. left + 2 /\ left + 1 \in 1 .. left + 1
        /\ n + left + 2 = n + (left + 2) /\ left + 2 \in 1 .. left + 2
    OBVIOUS
  <2> QED BY <1>1, <1>2, <1>3, <2>1
<1>6. ASSUME NEW i \in 1 .. n + left + 2
      PROVE  \/ i \in 1 .. n /\ longer[i] = box[i]
             \/ n + 1 <= i /\ i <= n + 1 + left /\ longer[i].t \in Keys
             \/ longer[i].t = "replication"
  <2>1. CASE i \in 1 .. n
    BY <1>3, <2>1
  <2>2. CASE n + 1 <= i /\ i < n + 1 + left
    <3>1. i - n \in 1 .. left /\ n + (i - n) = i
      BY <2>2
    <3>2. longer[i] = keys[i - n] /\ keys[i - n].t = "loading"
      BY <1>4, <3>1 DEF KeyMsg
    <3> QED BY <2>2, <3>2 DEF Keys
  <2>3. CASE i = n + left + 1
    <3>1. longer[i].t = "loading_eof" /\ n + 1 <= i /\ i <= n + 1 + left
      BY <1>5, <2>3 DEF EofMsg
    <3> QED BY <3>1 DEF Keys
  <2>4. CASE i = n + left + 2
    BY <1>5, <2>4
  <2>5. i \in 1 .. n \/ (n + 1 <= i /\ i < n + 1 + left) \/ i = n + left + 1 \/ i = n + left + 2
    OBVIOUS
  <2> QED BY <2>1, <2>2, <2>3, <2>4, <2>5
<1>7. Queued(longer, n + 1, 0, left, at)
  <2>1. /\ (n + 1) + left + 1 = n + left + 2 /\ (n + 1) + left = n + left + 1
        /\ (n + 1) + left + 1 \in 1 .. n + left + 2
    OBVIOUS
  <2>2. ASSUME NEW i \in 1 .. left PROVE KeyMsg(longer[(n + 1) + i - 1], 0 + i, at)
    <3>1. (n + 1) + i - 1 = n + i
      OBVIOUS
    <3> QED BY <1>4, <3>1
  <2>3. \A i \in DOMAIN longer : longer[i].t \in Keys => n + 1 <= i /\ i <= (n + 1) + left
    BY <1>3, <1>6 DEF NoneOf, Keys
  <2> QED BY <1>3, <1>5, <2>1, <2>2, <2>3 DEF Queued
<1>8. NoneOf(box, SocketMsgs) => NoneOf(longer, SocketMsgs)
  BY <1>3, <1>6 DEF NoneOf, Keys, SocketMsgs
<1> QED BY <1>7, <1>8 DEF longer, b, a

\* What the NIF sends is the whole of it.
LEMMA QueuedLoaded ==
    ASSUME TypeOK, Loadable(file), NEW at \in Nat, Synced(file \o net, at),
           NEW box \in Seq(Message), NoneOf(box, Keys)
    PROVE  \E first \in Nat \ {0}, left \in Nat :
              /\ Queued(box \o (LoadMessages \o <<Plain("replication")>>), first, 0, left, at)
              /\ NoneOf(box, SocketMsgs) =>
                    NoneOf(box \o (LoadMessages \o <<Plain("replication")>>), SocketMsgs)
<1> DEFINE go == Plain("replication")
           end == Msg("loading_eof", <<file[EofAt(file)]>>, 0)
<1>1. PICK z \in Nat : z = EofAt(file)
  BY DEF Loadable, EofAt, TypeOK, ServerTypeOK
<1>2. /\ z \in 2 .. Len(file)
      /\ \A i \in 2 .. z - 1 : file[i].n = i - 1 /\ file[i].r = at
      /\ file[z].n = z - 2 /\ file[z].r = at
  BY <1>1, SnapshotKeys
<1>3. PICK left \in Nat, n \in Nat : z = left + 2 /\ n = Len(box)
  <2>1. z - 2 \in Nat /\ z = (z - 2) + 2 /\ Len(box) \in Nat
    BY <1>2
  <2> QED BY <2>1
<1> DEFINE keys == [i \in 1 .. left |-> Msg("loading", <<file[i + 1]>>, i)]
<1>4. go \in Message /\ go.t = "replication"
  BY PlainMessage DEF Casts
<1>5. /\ keys \in Seq(Message) /\ end \in Message /\ LoadMessages = keys \o <<end>>
  <2>1. EofAt(file) \in 2 .. Len(file) /\ EofAt(file) - 2 = left
    BY <1>1, <1>2, <1>3
  <2>2. keys \in Seq(Message) /\ <<end>> \in Seq(Message)
    BY <2>1, LoadMessagesType
  <2>3. end \in Message
    <3> HIDE DEF end
    <3>1. <<end>>[1] \in Message
      BY <2>2
    <3> QED BY <3>1
  <2> QED BY <2>1, <2>2, <2>3 DEF LoadMessages
<1>6. /\ Len(keys) = left
      /\ \A i \in 1 .. left : keys[i] = Msg("loading", <<file[i + 1]>>, i)
  OBVIOUS
<1>7. ASSUME NEW i \in 1 .. left PROVE KeyMsg(keys[i], 0 + i, at)
  <2>1. i + 1 \in 2 .. z - 1
    BY <1>3
  <2>2. file[i + 1].r = at
    BY <1>2, <2>1
  <2>3. /\ keys[i].t = "loading" /\ keys[i].n = i /\ keys[i].data = <<file[i + 1]>>
    BY <1>6 DEF Msg
  <2> HIDE DEF keys
  <2>4. keys[i].data[1] = file[i + 1]
    BY <2>3
  <2> QED BY <2>2, <2>3, <2>4 DEF KeyMsg
<1>8. EofMsg(end, 0 + left, at)
  <2>1. end.t = "loading_eof" /\ end.data = <<file[z]>>
    BY <1>1 DEF Msg
  <2> HIDE DEF end
  <2>2. end.data[1] = file[z]
    BY <2>1
  <2> QED BY <1>2, <1>3, <2>1, <2>2 DEF EofMsg
<1> HIDE DEF keys, end, go
<1>9. /\ Queued(box \o ((keys \o <<end>>) \o <<go>>), n + 1, 0, left, at)
      /\ NoneOf(box, SocketMsgs) => NoneOf(box \o ((keys \o <<end>>) \o <<go>>), SocketMsgs)
  BY <1>3, <1>4, <1>5, <1>6, <1>7, <1>8, QueuedBehind
<1>10. n + 1 \in Nat \ {0}
  OBVIOUS
<1> QED BY <1>5, <1>9, <1>10 DEF go

-----------------------------------------------------------------------------
(* While there is none.                                                     *)

LEMMA StoryLoad == ASSUME IInv, Course, Story, Rested, LoadRdb PROVE Story' /\ Feeding'
<1>1. /\ where = "idle" /\ mb # <<>> /\ Head(mb).t = "load_rdb" /\ state = "payload" /\ Loadable(file)
      /\ where' = "idle" /\ mb' = Tail(mb) \o (LoadMessages \o <<Plain("replication")>>)
      /\ state' = "stream" /\ sock' = sock /\ events' = events
      /\ fed' = file[1].r + Len(AfterEof(file))
      /\ tainted' = (IF AfterEof(file) = <<>> THEN {} ELSE {"lost"})
                      \cup (IF buffer = <<>> THEN {} ELSE {"stale"})
  BY DEF LoadRdb, Handles, Continue
<1>2. Held(CastHead(Head(mb))) /\ CastHead(Head(mb)) = file
  BY <1>1, TookCast DEF CastHead, Casts
<1>3. TypeOK /\ file \in Seq(Unit) /\ net \in Seq(Unit) /\ Tail(mb) \in Seq(Message)
  BY <1>1, HeadParts DEF IInv, TypeOK, ServerTypeOK, MasterTypeOK
<1>4. Loads(file \o net)
  <2>1. file \o net \in Seq(Unit)
    BY <1>3, JoinUnits
  <2> QED BY <1>1, <1>2, <1>3, <2>1 DEF Course, Carried, Underway, Receives
<1>5. PICK at \in Nat : Synced(file \o net, at)
  BY <1>4 DEF Loads
<1>6. file[1].r = at /\ \E last \in Nat : last = at + Len(AfterEof(file))
  BY <1>1, <1>3, <1>5, SnapshotPlaced
<1>7. tainted' = {} => fed' = at
  <2>1. tainted' = {} => AfterEof(file) = <<>>
    BY <1>1
  <2>2. AfterEof(file) = <<>> => Len(AfterEof(file)) = 0
    OBVIOUS
  <2>3. at + 0 = at
    OBVIOUS
  <2> QED BY <1>1, <1>6, <2>1, <2>2, <2>3
<1>8. sock # "active" /\ NoneOf(mb, SocketMsgs)
  BY <1>1 DEF IInv, SocketOK
<1>9. NoneOf(Tail(mb), SocketMsgs) /\ NoneOf(Tail(mb), Keys)
  <2>1. mb \in Seq(Message)
    BY <1>3 DEF TypeOK, ServerTypeOK
  <2> QED BY <1>1, <1>8, <2>1, TailNone DEF Rested
<1>10. PICK first \in Nat \ {0}, left \in Nat :
              /\ Queued(mb', first, 0, left, at)
              /\ NoneOf(mb', SocketMsgs)
  <2>1. PICK box \in Seq(Message) : box = Tail(mb)
    BY <1>3
  <2>2. \E first \in Nat \ {0}, left \in Nat :
              /\ Queued(box \o (LoadMessages \o <<Plain("replication")>>), first, 0, left, at)
              /\ NoneOf(box, SocketMsgs) =>
                    NoneOf(box \o (LoadMessages \o <<Plain("replication")>>), SocketMsgs)
    BY <1>1, <1>3, <1>5, <1>9, <2>1, QueuedLoaded
  <2> QED BY <1>1, <1>9, <2>1, <2>2
<1>11. EndsWith(events', 0, at)
  <2>1. PICK told \in Seq(Event) : told = events
    BY DEF Story
  <2>2. 0 < Len(told) => told[Len(told) - 0].ev # "loading"
    <3>1. 0 < Len(told) => told # <<>> /\ Len(told) - 0 = Len(told)
      OBVIOUS
    <3> QED BY <2>1, <3>1 DEF Rested, Latest
  <2>3. 0 <= Len(told) /\ 1 .. 0 = {}
    OBVIOUS
  <2>4. EndsWith(told, 0, at)
    BY <2>2, <2>3 DEF EndsWith
  <2> QED BY <1>1, <2>1, <2>4
<1>12. Silent'
  BY <1>1, <1>8, <1>10 DEF Silent
<1>13. Feeding'
  BY <1>7, <1>10, <1>11, <1>12 DEF Feeding
<1> QED BY <1>1, <1>13, StoryFeeds

\* What follows +CONTINUE is put behind the mailbox, and is no key.
LEMMA ContinueKeyless ==
    ASSUME IInv, Course, Rested, RecvContinue
    PROVE  /\ NoneOf(mb', Keys)
           /\ Continued(Head(mb).data \o net)
<1> DEFINE data == Head(mb).data
           m1 == Msg("tcp", Tail(data), 0)
           m2 == Plain("replication")
<1>1. /\ where = "reply" /\ mb # <<>> /\ Result = "continue" /\ state \in Loading
      /\ mb' = Tail(mb) \o <<m1, m2>>
  BY DEF RecvContinue, Received, Continue
<1>2. state = "load"
  BY <1>1, LineFirst
<1>3. /\ data \in Seq(Unit) /\ data # <<>>
      /\ data[1].k = "continue" => Continued(data \o net)
  BY <1>1, <1>2, AnswerTaken
<1>4. data[1].k = "continue"
  <2>1. Result = ChunkResult(data)
    BY <1>1, <1>2, SyncTaken DEF Loading
  <2> QED BY <1>1, <2>1, LineIs
<1>5. m1 \in Message /\ m1.t = "tcp"
  <2>1. Tail(data) \in Seq(Unit)
    BY <1>3, TailUnits
  <2> QED BY <2>1, MakeMessage DEF SocketMsgs, Msg
<1>6. m2 \in Message /\ m2.t = "replication"
  BY PlainMessage DEF Casts
<1> HIDE DEF m1, m2
<1>7. <<m1, m2>> \in Seq(Message) /\ \A i \in DOMAIN <<m1, m2>> : <<m1, m2>>[i] \in {m1, m2}
  BY <1>5, <1>6
<1>8. NoneOf(<<m1, m2>>, Keys)
  BY <1>5, <1>6, <1>7 DEF NoneOf, Keys
<1>9. NoneOf(mb', Keys)
  BY <1>1, <1>7, <1>8, KeylessTail DEF IInv, Rested
<1> QED BY <1>3, <1>4, <1>9

LEMMA StoryContinue == ASSUME IInv, Course, Story, Rested, RecvContinue PROVE Story'
<1>1. /\ fed' = (IF offset < fed THEN offset ELSE fed) /\ tainted' = tainted /\ events' = events
      /\ where = "reply" /\ mb # <<>> /\ Result = "continue" /\ state \in Loading
  BY DEF RecvContinue, Received
<1>2. state = "load"
  BY <1>1, LineFirst
<1>3. NoneOf(mb', Keys) /\ Continued(Head(mb).data \o net)
  BY ContinueKeyless
<1>4. mode = "psync" /\ runid # NoRunId /\ ~Receives
  BY <1>2, <1>3 DEF Continued, Receives
<1>5. events # <<>>
  BY <1>4 DEF Rested
<1>6. tainted = {} => fed' = fed
  <2>1. tainted = {} => offset >= fed
    BY <1>4 DEF Course, Known
  <2>2. offset \in Int /\ fed \in Int
    BY DEF IInv, TypeOK, ServerTypeOK
  <2> QED BY <1>1, <2>1, <2>2
<1>7. Rested'
  <2>1. Latest' = Latest
    BY <1>1 DEF Latest
  <2> QED BY <1>1, <1>3, <1>5, <1>6, <2>1 DEF Rested
<1> QED BY <1>1, <1>7, StoryRests

Steady ==
    /\ events' = events /\ fed' = fed /\ (tainted' = {} => tainted = {})
    /\ state' # "stream" \/ state = "stream"
    /\ Receives' \/ (runid' = runid /\ ~Receives)

LEMMA RestedTail ==
    ASSUME TypeOK, Story, Rested, mb # <<>>, mb' = Tail(mb), Steady
    PROVE  Story'
BY KeylessTail, RestedKept, StoryRests DEF Steady, Rested

LEMMA RestedCast ==
    ASSUME TypeOK, Story, Rested, mb # <<>>, NEW type \in Casts, Continue(<<Plain(type)>>), Steady
    PROVE  Story'
<1>1. Plain(type) \in Message /\ Plain(type).t \notin Keys
  BY PlainMessage DEF Casts, Keys
<1>2. NoneOf(mb', Keys)
  BY <1>1, KeylessCast DEF Continue, Rested
<1> QED BY <1>2, RestedKept, StoryRests DEF Steady

LEMMA SteadyState ==
    ASSUME UNCHANGED stateVars, UNCHANGED ghostVars
    PROVE  Steady
BY Zenon DEF Steady, stateVars, ghostVars, Receives

LEMMA StoryAsk ==
    ASSUME TypeOK, Story, Rested, mb # <<>>, NEW request, AskOrFail(request)
    PROVE  Story'
<1>1. CASE Ask(request)
  BY <1>1, SteadyState, RestedTail DEF Ask
<1>2. CASE Stop
  BY <1>2, StoryDie DEF Stop
<1> QED BY <1>1, <1>2 DEF AskOrFail

LEMMA StoryHandshake ==
    ASSUME IInv, Story, Rested,
           \/ BootAuthOk \/ BootPong \/ BootLoading \/ CastRepl \/ CastCapa \/ CastPsync \/ CastSync
           \/ CastPsyncPayload \/ CastRst \/ RecvPort \/ RecvCapa \/ RecvFullResync \/ RecvBulk
           \/ SaveBuffering \/ SavePayload \/ Reconnect \/ ReconnectRefused \/ ReAuthOk
           \/ ReAuthThrows \/ RePong \/ InfoTcpClosed \/ CastReplication \/ Generic
    PROVE  Story'
<1>0. TypeOK /\ PlaceOK
  BY DEF IInv
<1>1. CASE BootAuthOk \/ ReAuthOk \/ SaveBuffering \/ Reconnect \/ CastReplication
  <2>1. mb # <<>> /\ mb' = Tail(mb) /\ UNCHANGED stateVars /\ UNCHANGED ghostVars
    BY <1>1 DEF BootAuthOk, ReAuthOk, SaveBuffering, Reconnect, CastReplication, Received, Handles
  <2> QED BY <1>0, <2>1, SteadyState, RestedTail
<1>2. CASE BootLoading
  <2>1. mb # <<>> /\ mb' = Tail(mb) /\ UNCHANGED stateVars /\ UNCHANGED ghostVars
    BY <1>2 DEF BootLoading, Received
  <2> QED BY <1>0, <2>1, SteadyState, RestedTail
<1>3. CASE BootPong \/ RePong
  <2>1. /\ where \in {"bootPing", "rePing"} /\ mb # <<>> /\ Continue(<<Plain("repl")>>)
        /\ state' \in {"list", "reconnect2"} /\ runid' = runid /\ events' = events /\ fed' = fed
        /\ tainted \subseteq tainted'
    BY <1>3 DEF BootPong, RePong, Received, ghostVars
  <2>2. ~Receives
    BY <1>0, <2>1 DEF PlaceOK, Receives
  <2>3. Steady
    BY <2>1, <2>2 DEF Steady
  <2> QED BY <1>0, <2>1, <2>3, RestedCast DEF Casts
<1>4. CASE CastRepl
  BY <1>0, <1>4, StoryAsk DEF CastRepl, Handles
<1>5. CASE CastCapa
  BY <1>0, <1>5, StoryAsk DEF CastCapa, Handles
<1>6. CASE CastPsync
  BY <1>0, <1>6, StoryAsk DEF CastPsync, Handles
<1>7. CASE CastSync
  BY <1>0, <1>7, StoryAsk DEF CastSync, Handles
<1>8. CASE CastPsyncPayload
  <2>1. CASE mode = "psync"
    BY <1>0, <1>8, <2>1, SteadyState, RestedTail DEF CastPsyncPayload, Handles
  <2>2. CASE mode # "psync"
    BY <1>8, <2>2, StoryDie DEF CastPsyncPayload, Stop
  <2> QED BY <2>1, <2>2
<1>9. CASE CastRst
  <2>1. mode \in {"psync", "sync"}
    BY <1>0, <1>9 DEF CastRst, PlaceOK, TypeOK, ServerTypeOK, Modes
  <2>2. Steady
    BY <1>9 DEF CastRst, Steady, Receives, ghostVars
  <2> QED BY <1>0, <1>9, <2>1, <2>2, RestedCast DEF CastRst, Handles, Casts
<1>10. CASE RecvPort
  <2>1. PICK type \in {"capa", "rst"} : Continue(<<Plain(type)>>) /\ state' # "stream"
    BY <1>10 DEF RecvPort
  <2>2. Steady
    BY <1>10, <2>1 DEF RecvPort, Steady, Receives, ghostVars
  <2> QED BY <1>0, <1>10, <2>1, <2>2, RestedCast DEF RecvPort, Received, Casts
<1>11. CASE RecvCapa
  <2>1. Steady
    BY <1>11 DEF RecvCapa, Steady, Receives, ghostVars
  <2> QED BY <1>0, <1>11, <2>1, RestedCast DEF RecvCapa, Received, Casts
<1>12. CASE RecvFullResync
  <2>1. Steady
    BY <1>12 DEF RecvFullResync, Steady, Receives, ghostVars
  <2> QED BY <1>0, <1>12, <2>1, RestedCast DEF RecvFullResync, Received, Casts
<1>13. CASE RecvBulk
  <2> DEFINE m == Msg("save_rdb", Head(mb).data, IF state = "buffering" THEN 1 ELSE 0)
  <2>1. mb # <<>> /\ mb' = Tail(mb) \o <<m>>
    BY <1>13 DEF RecvBulk, Received, Continue
  <2>2. m \in Message /\ m.t \notin Keys
    BY <1>0, <2>1, HeadParts, MakeMessage DEF Casts, Msg, Keys
  <2>3. Steady
    BY <1>13 DEF RecvBulk, Steady, Receives, ghostVars
  <2> HIDE DEF m
  <2>4. NoneOf(mb', Keys)
    BY <1>0, <2>1, <2>2, KeylessCast DEF Rested
  <2> QED BY <2>3, <2>4, RestedKept, StoryRests DEF Steady
<1>14. CASE SavePayload
  <2>1. Steady
    BY <1>14, SteadyState DEF SavePayload
  <2> QED BY <1>0, <1>14, <2>1, RestedCast DEF SavePayload, Handles, Casts
<1>15. CASE ReconnectRefused \/ ReAuthThrows \/ InfoTcpClosed
  <2>1. /\ mb # <<>> /\ Continue(<<Plain("new_connection")>>) /\ state' = "reconnect"
        /\ runid' = runid /\ UNCHANGED ghostVars
    BY <1>15 DEF ReconnectRefused, ReAuthThrows, InfoTcpClosed, Retry, Handles, Received
  <2>2. state \in {"stream", "reconnect"}
    <3>1. mb \in Seq(Message)
      BY <1>0 DEF TypeOK, ServerTypeOK
    <3>2. CASE InfoTcpClosed
      <4>1. where = "idle" /\ 1 \in DOMAIN mb /\ mb[1].t = "tcp_closed"
        BY <2>1, <3>1, <3>2, TailMessages DEF InfoTcpClosed, Handles
      <4> QED BY <4>1 DEF IInv, SocketOK, NoneOf, SocketMsgs
    <3> QED BY <1>0, <1>15, <3>2 DEF ReconnectRefused, ReAuthThrows, Received, PlaceOK
  <2>3. Steady
    BY <2>1, <2>2 DEF Steady, Receives, ghostVars
  <2> QED BY <1>0, <2>1, <2>3, RestedCast DEF Casts
<1>16. CASE Generic
  <2>1. mb # <<>> /\ mb' = Tail(mb) /\ UNCHANGED stateVars /\ UNCHANGED ghostVars
    BY <1>0, <1>16, HeadParts DEF Generic, Continue
  <2> QED BY <1>0, <2>1, SteadyState, RestedTail
<1> QED
  BY <1>1, <1>2, <1>3, <1>4, <1>5, <1>6, <1>7, <1>8, <1>9, <1>10, <1>11, <1>12, <1>13, <1>14,
     <1>15, <1>16

-----------------------------------------------------------------------------
(* The commands in a stretch of the history.                                *)

\* Flattening sequences of numbers gives a sequence of numbers.
Flattens(s, G, n) ==
    /\ G \in [1 .. n -> Seq(Nat)]
    /\ G[1] = s[1]
    /\ \A i \in 2 .. n : G[i] = G[i - 1] \o s[i]

LEMMA FlattensMore ==
    ASSUME NEW s \in Seq(Seq(Nat)), NEW n \in Nat \ {0}, n + 1 \in DOMAIN s, NEW G, Flattens(s, G, n)
    PROVE  \E F : Flattens(s, F, n + 1)
<1> DEFINE F == [i \in 1 .. n + 1 |-> IF i = n + 1 THEN G[n] \o s[n + 1] ELSE G[i]]
<1>1. s[n + 1] \in Seq(Nat) /\ \A i \in 1 .. n : G[i] \in Seq(Nat)
  BY DEF Flattens
<1>2. G[n] \o s[n + 1] \in Seq(Nat)
  <2>1. PICK a \in Seq(Nat), b \in Seq(Nat) : a = G[n] /\ b = s[n + 1]
    BY <1>1
  <2>2. a \o b \in Seq(Nat)
    OBVIOUS
  <2> QED BY <2>1, <2>2
<1>3. \A i \in 1 .. n + 1 : i = n + 1 \/ i \in 1 .. n
  OBVIOUS
<1>4. F \in [1 .. n + 1 -> Seq(Nat)]
  BY <1>1, <1>2, <1>3
<1>5. /\ F[n + 1] = G[n] \o s[n + 1]
      /\ \A i \in 1 .. n : F[i] = G[i]
  <2>1. n + 1 \in 1 .. n + 1 /\ \A i \in 1 .. n : i # n + 1 /\ i \in 1 .. n + 1
    OBVIOUS
  <2>2. \A i \in 1 .. n + 1 : F[i] = IF i = n + 1 THEN G[n] \o s[n + 1] ELSE G[i]
    BY Zenon
  <2> HIDE DEF F
  <2> QED BY <2>1, <2>2
<1> HIDE DEF F
<1>6. F[1] = s[1]
  BY <1>5 DEF Flattens
<1>7. ASSUME NEW i \in 2 .. n + 1 PROVE F[i] = F[i - 1] \o s[i]
  <2>1. CASE i = n + 1
    <3>1. i - 1 = n /\ n \in 1 .. n
      BY <2>1
    <3> QED BY <1>5, <2>1, <3>1
  <2>2. CASE i # n + 1
    <3>1. i \in 2 .. n /\ i \in 1 .. n /\ i - 1 \in 1 .. n
      BY <2>2
    <3>2. G[i] = G[i - 1] \o s[i]
      BY <3>1 DEF Flattens
    <3> QED BY <1>5, <3>1, <3>2
  <2> QED BY <2>1, <2>2
<1> QED BY <1>4, <1>6, <1>7 DEF Flattens

LEMMA FlattensIs ==
    ASSUME NEW s, NEW n \in Nat \ {0}, Len(s) = n, NEW G, Flattens(s, G, n)
    PROVE  FlattenSeq(s) \in Seq(Nat) /\ FlattenSeq(s) = G[n]
<1>1. G = [i \in 1 .. n |-> G[i]]
  BY DEF Flattens
<1>2. Partials(s, G, n)
  BY <1>1, Zenon DEF Flattens, Partials
<1>3. FlattenSeq(s) = G[n]
  BY <1>2, FlattenIs
<1>4. G[n] \in Seq(Nat)
  BY DEF Flattens
<1> QED BY <1>3, <1>4

LEMMA FlattenNumbers ==
    ASSUME NEW s \in Seq(Seq(Nat)), s # <<>>
    PROVE  FlattenSeq(s) \in Seq(Nat)
<1>1. PICK n \in Nat \ {0} : n = Len(s) /\ DOMAIN s = 1 .. n
  OBVIOUS
<1> DEFINE bad == {m \in 1 .. n : \A G : ~Flattens(s, G, m)}
<1>2. bad = {}
  <2> SUFFICES ASSUME bad # {} PROVE FALSE
    OBVIOUS
  <2>0. bad \subseteq Nat /\ \A i : i \in bad <=> i \in 1 .. n /\ \A G : ~Flattens(s, G, i)
    OBVIOUS
  <2> HIDE DEF bad
  <2>1. PICK m \in bad : \A i \in bad : m <= i
    BY <2>0, LeastElement
  <2>2. m \in 1 .. n /\ \A G : ~Flattens(s, G, m)
    BY <2>0
  <2>3. m # 1
    <3>1. s[1] \in Seq(Nat) /\ 2 .. 1 = {}
      BY <1>1
    <3>2. Flattens(s, [i \in 1 .. 1 |-> s[1]], 1)
      BY <3>1 DEF Flattens
    <3> QED BY <2>2, <3>2
  <2>4. PICK k \in Nat \ {0} : m = k + 1
    <3>1. m - 1 \in Nat \ {0} /\ m = (m - 1) + 1
      BY <2>2, <2>3
    <3> QED BY <3>1
  <2>5. k \in 1 .. n /\ ~(m <= k)
    BY <2>2, <2>4
  <2>6. PICK G : Flattens(s, G, k)
    BY <2>0, <2>1, <2>5
  <2>7. k + 1 \in DOMAIN s
    BY <1>1, <2>2, <2>4
  <2> QED BY <2>2, <2>4, <2>6, <2>7, FlattensMore
<1>3. n \in 1 .. n
  OBVIOUS
<1>4. PICK G : Flattens(s, G, n)
  BY <1>2, <1>3
<1> QED BY <1>1, <1>4, FlattensIs

\* The numbers of the commands that a stretch starts with.
HeadsOf(bin) == [i \in 1 .. Len(bin) |-> IF bin[i].k = "head" THEN <<bin[i].n>> ELSE <<>>]

LEMMA CommandsType ==
    ASSUME NEW bin \in Seq(Unit), bin # <<>>
    PROVE  Commands(bin) \in Seq(Nat)
<1>1. Len(bin) \in Nat \ {0}
  OBVIOUS
<1>2. ASSUME NEW i \in 1 .. Len(bin)
      PROVE  (IF bin[i].k = "head" THEN <<bin[i].n>> ELSE <<>>) \in Seq(Nat)
  <2>1. bin[i].n \in Nat
    <3>1. bin[i] \in Unit
      OBVIOUS
    <3> QED BY <3>1 DEF Unit
  <2>2. <<>> \in Seq(Nat) /\ <<bin[i].n>> \in Seq(Nat)
    BY <2>1
  <2> QED BY <2>2
<1>3. HeadsOf(bin) \in Seq(Seq(Nat)) /\ Len(HeadsOf(bin)) = Len(bin)
  BY <1>1, <1>2 DEF HeadsOf
<1>4. HeadsOf(bin) # <<>>
  BY <1>1, <1>3
<1> QED BY <1>3, <1>4, FlattenNumbers DEF Commands, HeadsOf

Counting(c, k) == [j \in 1 .. k |-> c + j]

LEMMA CountOn ==
    ASSUME NEW c \in Nat, NEW k \in Nat
    PROVE  /\ Counting(c, k) \in Seq(Nat) /\ Len(Counting(c, k)) = k
           /\ \A j \in 1 .. k : Counting(c, k)[j] = c + j
           /\ Counting(c, k) \o <<c + k + 1>> = Counting(c, k + 1)
           /\ Counting(c, k) \o <<>> = Counting(c, k)
<1>1. /\ Counting(c, k) \in Seq(Nat) /\ Len(Counting(c, k)) = k
      /\ \A j \in 1 .. k : Counting(c, k)[j] = c + j
  BY DEF Counting
<1>2. /\ Counting(c, k + 1) \in Seq(Nat) /\ Len(Counting(c, k + 1)) = k + 1
      /\ \A j \in 1 .. k + 1 : Counting(c, k + 1)[j] = c + j
  BY DEF Counting
<1> DEFINE a == Counting(c, k)
           b == Counting(c, k + 1)
           d == a \o <<c + k + 1>>
<1>3. a \in Seq(Nat) /\ Len(a) = k /\ b \in Seq(Nat) /\ Len(b) = k + 1
  BY <1>1, <1>2
<1>4. \A j \in 1 .. k + 1 : j \in 1 .. k \/ j = k + 1
  OBVIOUS
<1> HIDE DEF a, b, d
<1>5. /\ d \in Seq(Nat) /\ Len(d) = k + 1
      /\ \A j \in 1 .. k : d[j] = a[j]
      /\ d[k + 1] = c + k + 1
  <2>1. PICK x \in Nat : x = c + k + 1
    OBVIOUS
  <2>2. d = Append(a, x)
    BY <1>3, <2>1 DEF d
  <2>3. /\ Append(a, x) \in Seq(Nat) /\ Len(Append(a, x)) = Len(a) + 1
        /\ \A j \in 1 .. Len(a) : Append(a, x)[j] = a[j]
        /\ Append(a, x)[Len(a) + 1] = x
    BY <1>3
  <2> QED BY <1>3, <2>1, <2>2, <2>3
<1>6. \A j \in 1 .. k + 1 : d[j] = b[j]
  <2>1. (\A j \in 1 .. k : a[j] = c + j) /\ (\A j \in 1 .. k + 1 : b[j] = c + j)
    BY <1>1, <1>2 DEF a, b
  <2>2. c + k + 1 = c + (k + 1)
    OBVIOUS
  <2> QED BY <1>4, <1>5, <2>1, <2>2
<1>7. d = b
  BY <1>3, <1>5, <1>6
<1>8. a \o <<>> = a
  BY <1>3
<1> QED BY <1>1, <1>7, <1>8 DEF a, b, d

\* A stretch that starts where command c ended, or with the last unit of c, starts the
\* commands c + 1 and on, up to its last.
LEMMA CommandsAre ==
    ASSUME NEW c \in Nat, NEW from \in Nat \ {0}, from = CmdUnits * c + 1 \/ from = CmdUnits * c,
           NEW to \in Nat, from <= to + 1, NEW bin, bin = HistUnits(from, to), Parsable(bin)
    PROVE  \E k \in Nat \ {0} : LastCommand(bin) = c + k /\ Commands(bin) = Counting(c, k)
<1>1. /\ from < to /\ LastCommand(bin) \in Nat /\ to = 3 * LastCommand(bin)
      /\ CmdUnits = 3
  BY CommandsEnd DEF CmdUnits
<1>2. PICK n \in Nat \ {0} : n = to - from + 1
  BY <1>1
<1>3. Len(bin) = n /\ \A i \in 1 .. n : bin[i] = HistUnit(from + i - 1)
  BY <1>2, HistUnitsAre
<1>4. PICK last \in Nat : last = LastCommand(bin)
  BY <1>1
<1>5. PICK k \in Nat \ {0} : last = c + k
  <2>1. 3 * c < 3 * last
    BY <1>1, <1>4
  <2>2. last - c \in Nat \ {0}
    BY <2>1
  <2> QED BY <2>2
<1>6. ASSUME NEW i \in 1 .. n
      PROVE  /\ bin[i].n \in Nat /\ bin[i].n >= c
             /\ \/ from + i - 1 = 3 * bin[i].n /\ bin[i].k = "lf"
                \/ from + i - 1 = 3 * bin[i].n - 1 /\ bin[i].k = "body"
                \/ from + i - 1 = 3 * bin[i].n - 2 /\ bin[i].k = "head"
  <2>1. PICK p \in Nat \ {0} : p = from + i - 1
    OBVIOUS
  <2>2. PICK m \in Nat : m = HistUnit(p).n
    BY HistUnitIs
  <2>3. /\ \/ p = 3 * m /\ HistUnit(p).k = "lf"
           \/ p = 3 * m - 1 /\ HistUnit(p).k = "body"
           \/ p = 3 * m - 2 /\ HistUnit(p).k = "head"
    BY <1>1, <2>2, HistUnitIs
  <2>4. bin[i] = HistUnit(p)
    BY <1>3, <2>1
  <2>5. p >= 3 * c
    BY <1>1, <2>1
  <2>6. m >= c
    BY <2>3, <2>5
  <2> QED BY <2>1, <2>2, <2>3, <2>4, <2>6
<1> DEFINE s == HeadsOf(bin)
           G == [i \in 1 .. n |-> Counting(c, bin[i].n - c)]
<1>7. Len(s) = n /\ \A i \in 1 .. n : s[i] = IF bin[i].k = "head" THEN <<bin[i].n>> ELSE <<>>
  <2>1. DOMAIN s = 1 .. n /\ \A i \in 1 .. n : s[i] = IF bin[i].k = "head" THEN <<bin[i].n>> ELSE <<>>
    BY <1>3 DEF HeadsOf
  <2>2. Len(s) = n
    BY <1>2, <1>3 DEF HeadsOf
  <2> QED BY <2>1, <2>2
<1>8. \A i \in 1 .. n : G[i] = Counting(c, bin[i].n - c)
  OBVIOUS
<1>9. G \in [1 .. n -> Seq(Nat)]
  <2>1. ASSUME NEW i \in 1 .. n PROVE Counting(c, bin[i].n - c) \in Seq(Nat)
    <3>1. PICK num \in Nat : num = bin[i].n - c
      BY <1>6
    <3>2. Counting(c, num) \in Seq(Nat)
      BY CountOn
    <3> QED BY <3>1, <3>2
  <2> QED BY <2>1
<1> HIDE DEF s, G
<1>10. Counting(c, 0) = <<>>
  BY DEF Counting
<1>11. G[1] = s[1]
  <2>1. 1 \in 1 .. n /\ from + 1 - 1 = from
    OBVIOUS
  <2>2. PICK m \in Nat : m = bin[1].n
    BY <1>6, <2>1
  <2>3. CASE from = 3 * c + 1
    <3>1. m = c + 1 /\ bin[1].k = "head"
      BY <1>6, <2>1, <2>2, <2>3
    <3>2. Counting(c, 0) \o <<c + 0 + 1>> = Counting(c, 0 + 1)
      BY CountOn
    <3>3. Counting(c, 1) = <<c + 1>>
      BY <1>10, <3>2
    <3>4. m - c = 1
      BY <3>1
    <3>5. s[1] = <<c + 1>>
      BY <1>7, <2>1, <2>2, <3>1
    <3>6. G[1] = Counting(c, 1)
      BY <1>8, <2>1, <2>2, <3>4
    <3> QED BY <3>3, <3>5, <3>6
  <2>4. CASE from = 3 * c
    <3>1. m = c /\ bin[1].k = "lf"
      BY <1>6, <2>1, <2>2, <2>4
    <3>2. m - c = 0
      BY <3>1
    <3> QED BY <1>7, <1>8, <1>10, <2>1, <2>2, <3>1, <3>2
  <2> QED BY <1>1, <2>3, <2>4
<1>12. ASSUME NEW i \in 2 .. n PROVE G[i] = G[i - 1] \o s[i]
  <2>1. i \in 1 .. n /\ i - 1 \in 1 .. n
    OBVIOUS
  <2>2. PICK m \in Nat, l \in Nat : m = bin[i].n /\ l = bin[i - 1].n /\ m >= c /\ l >= c
    BY <1>6, <2>1
  <2>3. /\ \/ from + i - 1 = 3 * m /\ bin[i].k = "lf"
           \/ from + i - 1 = 3 * m - 1 /\ bin[i].k = "body"
           \/ from + i - 1 = 3 * m - 2 /\ bin[i].k = "head"
        /\ \/ from + (i - 1) - 1 = 3 * l
           \/ from + (i - 1) - 1 = 3 * l - 1
           \/ from + (i - 1) - 1 = 3 * l - 2
    BY <1>6, <2>1, <2>2
  <2>4. PICK num \in Nat : num = l - c
    BY <2>2
  <2>5. G[i - 1] = Counting(c, num)
    BY <1>8, <2>1, <2>2, <2>4
  <2>6. CASE bin[i].k = "head"
    <3>1. m = l + 1
      BY <2>3, <2>6
    <3>2. s[i] = <<c + num + 1>>
      <4>1. c + num + 1 = m
        BY <2>2, <2>4, <3>1
      <4> QED BY <1>7, <2>1, <2>2, <2>6, <4>1
    <3>3. G[i] = Counting(c, num + 1)
      <4>1. m - c = num + 1
        BY <2>2, <2>4, <3>1
      <4> QED BY <1>8, <2>1, <2>2, <4>1
    <3> QED BY <2>5, <3>2, <3>3, CountOn
  <2>7. CASE bin[i].k # "head"
    <3>1. m = l
      BY <2>3, <2>7
    <3>2. s[i] = <<>> /\ G[i] = Counting(c, num)
      BY <1>7, <1>8, <2>1, <2>2, <2>4, <2>7, <3>1
    <3> QED BY <2>5, <3>2, CountOn
  <2> QED BY <2>6, <2>7
<1>13. FlattenSeq(s) = G[n]
  <2>1. Flattens(s, G, n)
    BY <1>9, <1>11, <1>12 DEF Flattens
  <2> QED BY <1>7, <2>1, FlattensIs
<1>14. G[n] = Counting(c, k)
  <2>1. n \in 1 .. n /\ from + n - 1 = to
    BY <1>2
  <2>2. PICK m \in Nat : m = bin[n].n
    BY <1>6, <2>1
  <2>3. /\ \/ to = 3 * m
           \/ to = 3 * m - 1
           \/ to = 3 * m - 2
    BY <1>6, <2>1, <2>2
  <2>4. m = last
    BY <1>1, <1>4, <2>3
  <2>5. m - c = k
    BY <1>5, <2>4
  <2> QED BY <1>8, <2>1, <2>2, <2>5
<1>15. Commands(bin) = FlattenSeq(s)
  BY DEF Commands, HeadsOf, s
<1> QED BY <1>4, <1>5, <1>13, <1>14, <1>15

\* What the callback has seen ends with command c: what the server parses next are the
\* commands from c + 1 on.
LEMMA CommandsTold ==
    ASSUME IInv, Course, InfoTcpCommands, tainted = {}
    PROVE  \E c \in Nat, k \in Nat \ {0} :
              fed = CmdUnits * c /\ fed' = CmdUnits * (c + k) /\ Commands(Joined) = Counting(c, k)
<1>1. /\ where = "idle" /\ mb # <<>> /\ state = "stream" /\ Head(mb).t = "tcp"
      /\ Parsable(Joined) /\ fed' = CmdUnits * LastCommand(Joined)
  BY DEF InfoTcpCommands, InfoTcp, Handles
<1>2. PICK first \in Nat, mid \in Nat, last \in Nat :
              /\ first <= mid /\ Data = HistUnits(first + 1, mid)
              /\ "stale" \notin tainted => Buffered(first)
  BY <1>1, TookData
<1>3. PICK from \in Nat \ {0} : from <= first + 1 /\ buffer = HistUnits(from, first) /\ Position(from)
  BY <1>2 DEF Buffered
<1>4. PICK bin : bin = Joined
  OBVIOUS
<1>5. bin = HistUnits(from, mid) /\ from <= mid + 1
  BY <1>2, <1>3, <1>4, JoinedIs
<1>6. fed \in Nat /\ fed % CmdUnits = 0 /\ (from = fed + 1 \/ from = fed)
  <2>1. fed \in Nat
    BY DEF Course, Books, IInv, TypeOK, ServerTypeOK
  <2> QED BY <1>3, <2>1 DEF Position
<1>7. PICK c \in Nat : fed = CmdUnits * c
  <2>1. \A x \in Nat : x % 3 = 0 => x = 3 * (x \div 3) /\ x \div 3 \in Nat
    OBVIOUS
  <2> QED BY <1>6, <2>1 DEF CmdUnits
<1>8. PICK k \in Nat \ {0} : LastCommand(bin) = c + k /\ Commands(bin) = Counting(c, k)
  BY <1>1, <1>4, <1>5, <1>6, <1>7, CommandsAre
<1> QED BY <1>1, <1>4, <1>7, <1>8

LEMMA StreamEventsAre ==
    ASSUME NEW cmds \in Seq(Nat)
    PROVE  /\ StreamEvents(cmds) \in Seq(Event) /\ Len(StreamEvents(cmds)) = Len(cmds)
           /\ \A i \in 1 .. Len(cmds) : /\ StreamEvents(cmds)[i].ev = "stream"
                                        /\ StreamEvents(cmds)[i].n = cmds[i]
<1>1. ASSUME NEW i \in 1 .. Len(cmds) PROVE [ev |-> "stream", n |-> cmds[i], r |-> 0] \in Event
  <2>1. cmds[i] \in Nat
    OBVIOUS
  <2> QED BY <2>1 DEF Event
<1> QED BY <1>1 DEF StreamEvents

\* What a step that parses commands adds to the story.
LEMMA CommandsAdd ==
    ASSUME IInv, Story, Rested, InfoTcpCommands
    PROVE  \E more \in Seq(Event) :
              /\ events' = events \o more /\ events' \in Seq(Event) /\ events # <<>>
              /\ Whole(events')
              /\ Len(more) = Len(Commands(Joined))
              /\ \A i \in 1 .. Len(more) : more[i].ev = "stream" /\ more[i].n = Commands(Joined)[i]
<1>1. /\ where = "idle" /\ mb # <<>> /\ state = "stream" /\ Parsable(Joined)
      /\ events' = events \o StreamEvents(Commands(Joined))
  BY DEF InfoTcpCommands, InfoTcp, Handles
<1>2. Joined \in Seq(Unit) /\ Joined # <<>>
  <2>1. buffer \in Seq(Unit) /\ Data \in Seq(Unit)
    BY <1>1, HeadParts DEF IInv, TypeOK, ServerTypeOK, Data
  <2> QED BY <1>1, <2>1, JoinUnits DEF Joined, Parsable
<1>3. Commands(Joined) \in Seq(Nat)
  BY <1>2, CommandsType
<1>4. PICK more \in Seq(Event) :
              /\ more = StreamEvents(Commands(Joined))
              /\ Len(more) = Len(Commands(Joined))
              /\ \A i \in 1 .. Len(more) : more[i].ev = "stream" /\ more[i].n = Commands(Joined)[i]
  BY <1>3, StreamEventsAre
<1>5. events \in Seq(Event) /\ Whole(events)
  BY WholeIs DEF Story
<1>6. events # <<>> /\ events[Len(events)].ev # "loading"
  BY <1>1 DEF Rested, Latest
<1>7. events' \in Seq(Event) /\ Whole(events')
  BY <1>1, <1>4, <1>5, <1>6, WholeStream
<1> QED BY <1>1, <1>4, <1>6, <1>7

LEMMA StoryCommands == ASSUME IInv, Course, Story, Rested, InfoTcpCommands PROVE Story'
<1>1. /\ where' = "idle" /\ mb # <<>> /\ mb' = Tail(mb) /\ state' = "stream" /\ tainted' = tainted
  BY DEF InfoTcpCommands, InfoTcp, Handles
<1>2. PICK more \in Seq(Event) :
              /\ events' = events \o more /\ events' \in Seq(Event) /\ events # <<>>
              /\ Whole(events')
              /\ Len(more) = Len(Commands(Joined))
              /\ \A i \in 1 .. Len(more) : more[i].ev = "stream" /\ more[i].n = Commands(Joined)[i]
  BY CommandsAdd
<1>3. NoneOf(mb', Keys)
  BY <1>1, KeylessTail DEF IInv, Rested
<1>4. events \in Seq(Event) /\ Len(events) \in Nat \ {0}
  BY <1>2 DEF Story
<1>5. /\ Len(events') = Len(events) + Len(more) /\ events' # <<>>
      /\ Len(more) = 0 => events'[Len(events')] = events[Len(events)]
      /\ Len(more) # 0 => events'[Len(events')] = more[Len(more)]
  <2>1. PICK a \in Seq(Event), b \in Seq(Event), c \in Seq(Event) : a = events /\ b = more /\ c = a \o b
    BY <1>2, <1>4
  <2>2. /\ Len(c) = Len(a) + Len(b) /\ c # <<>>
        /\ Len(b) = 0 => c[Len(c)] = a[Len(a)]
        /\ Len(b) # 0 => c[Len(c)] = b[Len(b)]
    BY <1>4, <2>1, JoinEvents
  <2> QED BY <1>2, <2>1, <2>2
<1>6. Latest'.ev # "loading"
  <2>1. CASE Len(more) = 0
    BY <1>2, <1>5, <2>1 DEF Rested, Latest
  <2>2. CASE Len(more) # 0
    <3>1. Len(more) \in 1 .. Len(more)
      BY <2>2
    <3> QED BY <1>2, <1>5, <2>2, <3>1 DEF Latest
  <2> QED BY <2>1, <2>2
<1>7. ASSUME tainted = {} PROVE Latest'.ev = "stream" /\ fed' = CmdUnits * Latest'.n
  <2>1. PICK c \in Nat, k \in Nat \ {0} :
              fed' = CmdUnits * (c + k) /\ Commands(Joined) = Counting(c, k)
    BY <1>7, CommandsTold
  <2>2. Len(more) = k /\ k \in 1 .. k /\ Counting(c, k)[k] = c + k
    <3>1. k \in 1 .. k
      OBVIOUS
    <3>2. Len(Counting(c, k)) = k /\ \A j \in 1 .. k : Counting(c, k)[j] = c + j
      BY CountOn
    <3> QED BY <1>2, <2>1, <3>1, <3>2
  <2>3. more[k].ev = "stream" /\ more[k].n = c + k
    BY <1>2, <2>1, <2>2
  <2> QED BY <1>5, <2>1, <2>2, <2>3 DEF Latest
<1>8. Rested'
  BY <1>1, <1>3, <1>5, <1>6, <1>7 DEF Rested
<1> QED BY <1>2, <1>8, StoryIs

\* Without a loss the newline that is skipped is none that the callback has not seen.
LEMMA StoryQuiet == ASSUME IInv, Course, Story, Rested, InfoTcpQuiet PROVE Story'
<1>1. /\ where = "idle" /\ mb # <<>> /\ mb' = Tail(mb) /\ state = "stream" /\ state' = "stream"
      /\ events' = events /\ tainted' = tainted
      /\ fed' = (IF Data = <<HistUnit(fed + 1)>> THEN fed + 1 ELSE fed)
  BY DEF InfoTcpQuiet, InfoTcp, Handles
<1>2. ASSUME tainted = {} PROVE fed' = fed
  <2>1. fed % CmdUnits = 0
    BY <1>1, <1>2 DEF Course, Flows, Buffered, Position
  <2>2. Course'
    BY CourseTcpQuiet
  <2>3. fed' % CmdUnits = 0
    BY <1>1, <1>2, <2>2 DEF Course, Flows, Buffered, Position
  <2>4. fed \in Nat
    BY DEF Course, Books, IInv, TypeOK, ServerTypeOK
  <2>5. fed' # fed + 1
    BY <2>1, <2>3, <2>4 DEF CmdUnits
  <2> QED BY <1>1, <2>5
<1>3. NoneOf(mb', Keys)
  BY <1>1, KeylessTail DEF IInv, Rested
<1>4. Latest' = Latest
  BY <1>1 DEF Latest
<1>5. Rested'
  BY <1>1, <1>2, <1>3, <1>4 DEF Rested
<1> QED BY <1>1, <1>5, StoryRests

LEMMA StoryBuffer == ASSUME IInv, Story, Rested, InfoTcpBuffer PROVE Story'
<1>1. /\ mb # <<>> /\ mb' = Tail(mb) /\ Steady
  BY DEF InfoTcpBuffer, InfoTcp, Handles, Steady, Receives
<1> QED BY <1>1, RestedTail DEF IInv

-----------------------------------------------------------------------------
(* The other steps.                                                         *)

\* A message that is no key comes in.
LEMMA RestedAdd ==
    ASSUME IInv, Story, Rested, NEW m \in Message, m.t \notin Keys, mb' = Append(mb, m),
           UNCHANGED <<stateVars, events, fed, tainted>>
    PROVE  Story'
<1>1. NoneOf(mb', Keys)
  BY AddOther DEF IInv, TypeOK, ServerTypeOK, Rested
<1>2. Steady
  BY Zenon DEF Steady, stateVars, Receives
<1> QED BY <1>1, <1>2, RestedKept, StoryRests DEF Steady

\* What comes from outside is put behind the mailbox, and is no key.
LEMMA AddsOne ==
    ASSUME IInv, DeliverData \/ DeliverClosed \/ DeliverError \/ Disturb
    PROVE  /\ UNCHANGED <<where, stateVars, events, fed, tainted>>
           /\ \E m \in Message : m.t \notin Keys /\ mb' = Append(mb, m)
<1>1. CASE Disturb
  <2>1. PICK type \in {"shutdown", "noise"} : mb' = Append(mb, Plain(type))
    BY <1>1 DEF Disturb
  <2>2. Plain(type) \in Message /\ Plain(type).t \notin Keys
    BY MakePlain DEF Plain, Msg, Keys, OtherMsgs
  <2> QED BY <1>1, <2>1, <2>2 DEF Disturb, ghostVars
<1>2. CASE DeliverData
  <2>1. PICK size \in ChunkSizes : Deliver(Msg("tcp", SubSeq(net, 1, size), 0))
    BY <1>2 DEF DeliverData
  <2>2. size \in 1 .. Len(net)
    BY BufferAssumption DEF ChunkSizes, IInv, TypeOK, MasterTypeOK
  <2>3. SubSeq(net, 1, size) \in Seq(Unit)
    BY <2>2, PartType DEF IInv, TypeOK, MasterTypeOK
  <2>4. Msg("tcp", SubSeq(net, 1, size), 0) \in Message
    BY <2>3, MakeMessage DEF SocketMsgs
  <2> QED BY <2>1, <2>4 DEF Deliver, Msg, Keys, ghostVars
<1>3. CASE DeliverClosed \/ DeliverError
  <2>1. PICK type \in {"tcp_closed", "tcp_error"} : Deliver(Plain(type))
    BY <1>3 DEF DeliverClosed, DeliverError
  <2>2. Plain(type) \in Message /\ Plain(type).t \notin Keys
    BY MakePlain DEF Plain, Msg, Keys, SocketMsgs
  <2> QED BY <2>1, <2>2 DEF Deliver, ghostVars
<1> QED BY <1>1, <1>2, <1>3

LEMMA StoryAdd ==
    ASSUME IInv, Story, where # "down", DeliverData \/ DeliverClosed \/ DeliverError \/ Disturb
    PROVE  Story'
<1>1. CASE Rested
  BY <1>1, AddsOne, RestedAdd
<1>2. CASE Feeding
  <2>1. Disturb
    BY <1>2 DEF Feeding, Silent, DeliverData, DeliverClosed, DeliverError
  <2>2. PICK type \in {"shutdown", "noise"} : mb' = Append(mb, Plain(type))
    BY <2>1 DEF Disturb
  <2>3. Plain(type) \in Message /\ Plain(type).t \notin Keys /\ Plain(type).t \notin SocketMsgs
    BY MakePlain DEF Plain, Msg, Keys, SocketMsgs, OtherMsgs
  <2>4. UNCHANGED <<where, sock, state, events, fed, tainted>>
    BY <2>1 DEF Disturb, ghostVars, stateVars
  <2> QED BY <1>2, <2>2, <2>3, <2>4, FeedingAdd
<1> QED BY <1>1, <1>2 DEF Story

LEMMA StoryStart == ASSUME IInv, Course, Story, Start PROVE Story'
<1>1. /\ where = "down" /\ events' = <<>> /\ mb' = mb /\ state' = state /\ runid' = runid
  BY DEF Start, stateVars
<1>2. mb = <<>> /\ state = "undefined" /\ runid = NoRunId
  BY <1>1 DEF IInv, PlaceOK, Course, Books
<1>3. Rested'
  BY <1>1, <1>2 DEF Rested, NoneOf
<1>4. <<>> \in Seq(Event) /\ Whole(<<>>)
  BY DEF Whole
<1> QED BY <1>1, <1>3, <1>4, StoryIs

LEMMA StoryStop ==
    ASSUME Story,
           \/ BootRefused \/ BootFailed \/ RecvFailed \/ LoadFailed \/ InfoTcpFailed \/ InfoTcpError
           \/ ReconnectFailed \/ CallShutdown \/ DiskFailed \/ Killed
    PROVE  Story'
<1>1. Die
  BY DEF BootRefused, BootFailed, RecvFailed, LoadFailed, InfoTcpFailed, InfoTcpError,
         ReconnectFailed, CallShutdown, DiskFailed, Killed, Stop
<1> QED BY <1>1, StoryDie

\* The steps of the server itself while no key is in its mailbox.
LEMMA RestedStep ==
    ASSUME IInv, Course, Story, Rested, Handler \/ InfoTimeout
    PROVE  Story'
<1>1. CASE Boot
  <2>1. mb' = mb /\ UNCHANGED stateVars /\ UNCHANGED ghostVars
    BY <1>1 DEF Boot
  <2>2. NoneOf(mb', Keys)
    BY <2>1 DEF Rested
  <2> QED BY <2>1, <2>2, SteadyState, RestedKept, StoryRests DEF Steady
<1>2. CASE InfoTimeout
  BY <1>2, StorySame DEF InfoTimeout, procVars, stateVars
<1>3. CASE \/ BootRefused \/ BootFailed \/ RecvFailed \/ LoadFailed \/ InfoTcpFailed \/ InfoTcpError
           \/ ReconnectFailed \/ CallShutdown
  BY <1>3, StoryStop
<1>4. CASE \/ BootAuthOk \/ BootPong \/ BootLoading \/ CastRepl \/ CastCapa \/ CastPsync \/ CastSync
           \/ CastPsyncPayload \/ CastRst \/ RecvPort \/ RecvCapa \/ RecvFullResync \/ RecvBulk
           \/ SaveBuffering \/ SavePayload \/ Reconnect \/ ReconnectRefused \/ ReAuthOk
           \/ ReAuthThrows \/ RePong \/ InfoTcpClosed \/ CastReplication \/ Generic
  BY <1>4, StoryHandshake
<1>5. CASE InfoLoading \/ InfoLoadingEof
  <2>1. mb # <<>> /\ Head(mb).t \in Keys
    BY <1>5 DEF InfoLoading, InfoLoadingEof, Handles, Keys
  <2> QED BY <2>1, KeylessTail DEF IInv, Rested
<1>6. CASE InfoTcpQuiet \/ InfoTcpBuffer \/ InfoTcpCommands
  BY <1>6, StoryQuiet, StoryBuffer, StoryCommands
<1> QED BY <1>1, <1>2, <1>3, <1>4, <1>5, <1>6, StoryContinue, StoryLoad DEF Handler

\* While one is, the server only takes what is in front of it or the key itself.
LEMMA FeedingActs ==
    ASSUME IInv, Feeding, Handler \/ InfoTimeout
    PROVE  CallShutdown \/ InfoLoading \/ InfoLoadingEof \/ Generic
<1>1. /\ where = "idle" /\ state = "stream"
      /\ mb # <<>> /\ Head(mb).t \notin Casts /\ Head(mb).t \notin SocketMsgs
  BY FeedingHead DEF Feeding, Silent
<1>2. ~InfoTimeout
  BY <1>1 DEF InfoTimeout
<1>3. ~\/ Boot \/ BootRefused \/ BootAuthOk \/ BootPong \/ BootLoading \/ BootFailed
       \/ RecvPort \/ RecvCapa \/ RecvContinue \/ RecvFullResync \/ RecvBulk \/ RecvFailed
       \/ ReAuthOk \/ ReAuthThrows \/ RePong \/ ReconnectFailed
  BY <1>1 DEF Boot, BootRefused, BootAuthOk, BootPong, BootLoading, BootFailed, RecvPort, RecvCapa,
              RecvContinue, RecvFullResync, RecvBulk, RecvFailed, ReAuthOk, ReAuthThrows, RePong,
              ReconnectFailed, Received
<1>4. ~(CastPsync \/ CastSync \/ CastPsyncPayload)
  BY <1>1 DEF CastPsync, CastSync, CastPsyncPayload, Handles, Loading
<1>5. ~\/ CastRepl \/ CastCapa \/ CastRst \/ SaveBuffering \/ SavePayload \/ LoadRdb \/ LoadFailed
       \/ CastReplication \/ InfoTcpQuiet \/ InfoTcpBuffer \/ InfoTcpCommands \/ InfoTcpFailed
       \/ InfoTcpClosed \/ InfoTcpError \/ Reconnect \/ ReconnectRefused
  BY <1>1 DEF CastRepl, CastCapa, CastRst, SaveBuffering, SavePayload, LoadRdb, LoadFailed,
              CastReplication, InfoTcpQuiet, InfoTcpBuffer, InfoTcpCommands, InfoTcp, InfoTcpFailed,
              InfoTcpClosed, InfoTcpError, Reconnect, ReconnectRefused, Handles, Casts, SocketMsgs
<1> QED BY <1>2, <1>3, <1>4, <1>5 DEF Handler

LEMMA FeedingStep ==
    ASSUME IInv, Course, Story, Feeding, Handler \/ InfoTimeout
    PROVE  Story'
<1>1. CASE CallShutdown
  BY <1>1, StoryStop
<1>2. CASE InfoLoading
  BY <1>2, StoryKey
<1>3. CASE InfoLoadingEof
  BY <1>3, StoryEof
<1>4. CASE Generic
  <2>1. /\ Head(mb).t \notin Keys /\ where' = "idle" /\ mb' = Tail(mb) \o <<>>
        /\ UNCHANGED <<state, sock, events, fed, tainted>>
    BY <1>4 DEF Generic, Expected, ExpectedCast, ExpectedInfo, Keys, Continue, stateVars, ghostVars
  <2>2. Tail(mb) \o <<>> = Tail(mb)
    BY FeedingHead
  <2> QED BY <2>1, <2>2, FeedingDrop
<1> QED BY <1>1, <1>2, <1>3, <1>4, FeedingActs

\* A process that is down takes no step of its own.
LEMMA DownActs == ASSUME IInv, where = "down" PROVE ~(Handler \/ InfoTimeout \/ Disturb)
<1>1. mb = <<>> /\ state = "undefined"
  BY DEF IInv, PlaceOK
<1> QED
  BY <1>1 DEF Handler, InfoTimeout, Disturb, Boot, BootRefused, BootAuthOk, BootPong, BootLoading,
              BootFailed, RecvPort, RecvCapa, RecvContinue, RecvFullResync, RecvBulk, RecvFailed,
              ReAuthOk, ReAuthThrows, RePong, ReconnectFailed, Received, CastPsync, CastSync,
              CastPsyncPayload, CastRepl, CastCapa, CastRst, SaveBuffering, SavePayload, LoadRdb,
              LoadFailed, CastReplication, InfoTcpQuiet, InfoTcpBuffer, InfoTcpCommands, InfoTcp,
              InfoTcpFailed, InfoTcpClosed, InfoTcpError, Reconnect, ReconnectRefused, InfoLoading,
              InfoLoadingEof, CallShutdown, Generic, Handles

LEMMA StoryDown ==
    ASSUME IInv, Story, where = "down",
           Handler \/ InfoTimeout \/ DeliverData \/ DeliverClosed \/ DeliverError \/ Disturb
    PROVE  Story'
<1>1. where' = where /\ events' = events
  BY DownActs DEF DeliverData, DeliverClosed, DeliverError, Deliver, ghostVars
<1> QED BY <1>1 DEF Story, SnapshotWhole

LEMMA StoryNext == IInv /\ Course /\ Story /\ [Next]_vars => Story'
<1> SUFFICES ASSUME IInv, Course, Story, [Next]_vars PROVE Story'
  OBVIOUS
<1>1. CASE UNCHANGED vars
  BY <1>1, StorySame DEF vars, serverVars, procVars, stateVars, ghostVars
<1>2. CASE Master \/ (World /\ ~(DeliverError \/ DiskFailed \/ Disturb \/ Killed))
  <2>1. UNCHANGED serverVars
    BY <1>2 DEF Master, World, Unserved
  <2> QED BY <2>1, StorySame DEF serverVars, procVars, stateVars, ghostVars
<1>3. CASE DiskFailed \/ Killed
  BY <1>3, StoryStop
<1>4. CASE Start
  BY <1>4, StoryStart
<1>5. CASE Handler \/ InfoTimeout
  BY <1>5, StoryDown, RestedStep, FeedingStep DEF Story
<1>6. CASE DeliverData \/ DeliverClosed \/ DeliverError \/ Disturb
  BY <1>6, StoryDown, StoryAdd
<1> QED BY <1>1, <1>2, <1>3, <1>4, <1>5, <1>6 DEF Next, World

LEMMA StoryInit == Init => Story
<1> SUFFICES ASSUME Init PROVE Story
  OBVIOUS
<1>1. events = <<>> /\ where = "down"
  BY DEF Init
<1>2. <<>> \in Seq(Event) /\ Whole(<<>>)
  BY DEF Whole
<1>3. SnapshotWhole
  BY <1>1, <1>2, WholeIs, Zenon
<1> QED BY <1>1, <1>2, <1>3 DEF Story

-----------------------------------------------------------------------------
(* What the callback is told.                                               *)

\* What the events say and what the mailbox still holds of a snapshot fit at every
\* moment (rdb_load/1's messages, handle_info/2's clauses for them and for tcp data).
THEOREM StoryKept == Spec => []Story
<1>1. Spec => [](IInv /\ Course)
  BY Protocol, InCourse, PTL
<1>2. Init => Story
  BY StoryInit
<1>3. IInv /\ Course /\ Story /\ [Next]_vars => Story'
  BY StoryNext
<1> QED BY <1>1, <1>2, <1>3, PTL DEF Spec

\* The callback receives {loading, eof} only after all the keys of its snapshot, in
\* order and with nothing between them: what rdb:load/2 posts to the server's own
\* mailbox before the cast of replication is told before anything of the stream is.
THEOREM ToldWhole == Spec => []SnapshotWhole
<1>1. Story => SnapshotWhole
  BY DEF Story
<1> QED BY <1>1, StoryKept, PTL

\* Only four steps change what the callback has received.
LEMMA EventsSame ==
    ASSUME [Next]_vars, ~(InfoTcpCommands \/ Start \/ InfoLoading \/ InfoLoadingEof)
    PROVE  events' = events
<1>1. CASE UNCHANGED vars
  BY <1>1 DEF vars, serverVars, ghostVars
<1>2. CASE Master \/ (World /\ ~(DeliverError \/ DiskFailed \/ Disturb \/ Killed))
  <2>1. UNCHANGED serverVars
    BY <1>2 DEF Master, World, Unserved
  <2> QED BY <2>1 DEF serverVars, ghostVars
<1>3. CASE \/ BootRefused \/ BootFailed \/ RecvFailed \/ LoadFailed \/ InfoTcpFailed \/ InfoTcpError
           \/ ReconnectFailed \/ CallShutdown \/ DiskFailed \/ Killed
  BY <1>3 DEF BootRefused, BootFailed, RecvFailed, LoadFailed, InfoTcpFailed, InfoTcpError,
              ReconnectFailed, CallShutdown, DiskFailed, Killed, Stop, Die, ghostVars
<1>4. CASE DeliverData \/ DeliverClosed \/ DeliverError \/ Disturb \/ InfoTimeout
  BY <1>4 DEF DeliverData, DeliverClosed, DeliverError, Deliver, Disturb, InfoTimeout, ghostVars
<1>5. CASE \/ CastRepl \/ CastCapa \/ CastPsync \/ CastSync \/ CastPsyncPayload \/ RecvPort
  BY <1>5 DEF CastRepl, CastCapa, CastPsync, CastSync, CastPsyncPayload, RecvPort, AskOrFail, Ask,
              Stop, Die, ghostVars
<1>6. CASE \/ Boot \/ BootAuthOk \/ BootPong \/ BootLoading \/ CastRst
           \/ RecvCapa \/ RecvContinue \/ RecvFullResync \/ RecvBulk
  BY <1>6 DEF Boot, BootAuthOk, BootPong, BootLoading, CastRst, RecvCapa, RecvContinue,
              RecvFullResync, RecvBulk, ghostVars
<1>7. CASE SaveBuffering \/ SavePayload \/ LoadRdb \/ CastReplication \/ Generic
           \/ InfoTcpQuiet \/ InfoTcpBuffer \/ InfoTcpClosed
  BY <1>7 DEF SaveBuffering, SavePayload, LoadRdb, CastReplication, Generic, InfoTcpQuiet,
              InfoTcpBuffer, InfoTcpClosed, ghostVars
<1>8. CASE Reconnect \/ ReconnectRefused \/ ReAuthOk \/ ReAuthThrows \/ RePong
  BY <1>8 DEF Reconnect, ReconnectRefused, Retry, ReAuthOk, ReAuthThrows, RePong, ghostVars
<1> QED BY <1>1, <1>2, <1>3, <1>4, <1>5, <1>6, <1>7, <1>8 DEF Next, Handler, World

LEMMA OnceStep ==
    ASSUME IInv, Course, Story, [Next]_vars, tainted = {},
           NEW i \in Len(events) .. Len(events') - 1, events'[i + 1].ev = "stream"
    PROVE  /\ i > 0
           /\ \/ /\ events'[i].ev = "stream"
                 /\ events'[i + 1].n = events'[i].n + 1
              \/ /\ events'[i].ev = "eof"
                 /\ CmdUnits * (events'[i + 1].n - 1) = events'[i].r
<1>0. events \in Seq(Event) /\ Len(events) \in Nat /\ i \in Int
  BY DEF Story
<1>1. events' # events
  <2>1. events' = events => Len(events) .. Len(events') - 1 = {}
    BY <1>0
  <2> QED BY <2>1
<1>2. ASSUME NEW event \in Event, events' = Append(events, event), event.ev # "stream" PROVE FALSE
  <2>1. /\ Len(events') = Len(events) + 1 /\ events'[Len(events) + 1] = event
    BY <1>0, <1>2, AddEvent
  <2>2. i = Len(events)
    BY <1>0, <2>1
  <2> QED BY <1>2, <2>1, <2>2
<1>3. CASE InfoTcpCommands
  <2>1. Rested
    <3>1. where = "idle" /\ mb # <<>> /\ Head(mb).t = "tcp"
      BY <1>3 DEF InfoTcpCommands, InfoTcp, Handles
    <3> QED BY <3>1, FeedingHead DEF Story, SocketMsgs
  <2>2. PICK more \in Seq(Event) :
              /\ events' = events \o more /\ events' \in Seq(Event) /\ events # <<>>
              /\ Len(more) = Len(Commands(Joined))
              /\ \A j \in 1 .. Len(more) : more[j].ev = "stream" /\ more[j].n = Commands(Joined)[j]
    BY <1>3, <2>1, CommandsAdd
  <2>3. PICK c \in Nat, k \in Nat \ {0} :
              fed = CmdUnits * c /\ Commands(Joined) = Counting(c, k)
    BY <1>3, CommandsTold
  <2>4. Len(more) = k /\ \A j \in 1 .. k : more[j].ev = "stream" /\ more[j].n = c + j
    <3>1. Len(Counting(c, k)) = k /\ \A j \in 1 .. k : Counting(c, k)[j] = c + j
      BY CountOn
    <3> QED BY <2>2, <2>3, <3>1
  <2>5. PICK n \in Nat \ {0} : n = Len(events)
    BY <1>0, <2>2
  <2>6. /\ Len(events') = n + k
        /\ \A j \in 1 .. n : events'[j] = events[j]
        /\ \A j \in 1 .. k : events'[n + j] = more[j]
    <3>1. PICK a \in Seq(Event), b \in Seq(Event) : a = events /\ b = more
      BY <1>0, <2>2
    <3>2. /\ Len(a \o b) = Len(a) + Len(b)
          /\ \A j \in 1 .. Len(a) : (a \o b)[j] = a[j]
          /\ \A j \in 1 .. Len(b) : (a \o b)[Len(a) + j] = b[j]
      BY JoinEvents
    <3>3. events' = a \o b /\ Len(a) = n /\ Len(b) = k
      BY <2>2, <2>4, <2>5, <3>1
    <3> QED BY <3>1, <3>2, <3>3
  <2>7. i \in n .. n + k - 1 /\ i > 0
    BY <2>5, <2>6
  <2>8. events'[i + 1].n = c + (i - n) + 1
    <3>1. PICK j \in 1 .. k : j = i - n + 1
      BY <2>7
    <3>2. events'[n + j] = more[j] /\ n + j = i + 1
      BY <2>6, <3>1
    <3>3. more[j].n = c + j
      BY <2>4
    <3> QED BY <3>1, <3>2, <3>3
  <2>9. CASE i = n
    <3>1. events'[i] = Latest
      <4>1. n \in 1 .. n
        OBVIOUS
      <4> QED BY <2>5, <2>6, <2>9, <4>1 DEF Latest
    <3>2. Latest.ev # "loading" /\ fed = (IF Latest.ev = "eof" THEN Latest.r ELSE CmdUnits * Latest.n)
      BY <2>1, <2>2 DEF Rested
    <3>3. Latest \in Event
      <4>1. n \in 1 .. n
        OBVIOUS
      <4> QED BY <1>0, <2>5, <4>1 DEF Latest
    <3>4. Latest.ev \in {"eof", "stream"} /\ Latest.n \in Nat
      BY <3>2, <3>3 DEF Event
    <3>5. events'[i + 1].n = c + 1
      BY <2>8, <2>9
    <3>6. CASE Latest.ev = "eof"
      BY <2>3, <2>7, <3>1, <3>2, <3>5, <3>6 DEF CmdUnits
    <3>7. CASE Latest.ev = "stream"
      <4>1. PICK l \in Nat : l = Latest.n
        BY <3>4
      <4>2. 3 * l = 3 * c
        BY <2>3, <3>2, <3>7, <4>1 DEF CmdUnits
      <4>3. l = c
        BY <4>2
      <4> QED BY <2>7, <3>1, <3>5, <3>7, <4>1, <4>3
    <3> QED BY <3>4, <3>6, <3>7
  <2>10. CASE i # n
    <3>1. PICK j \in 1 .. k : j = i - n
      BY <2>7, <2>10
    <3>2. events'[n + j] = more[j] /\ n + j = i
      BY <2>6, <3>1
    <3>3. more[j].ev = "stream" /\ more[j].n = c + j
      BY <2>4
    <3> QED BY <2>7, <2>8, <3>1, <3>2, <3>3
  <2> QED BY <2>9, <2>10
<1>4. CASE Start
  <2>1. Len(events) .. Len(events') - 1 = {}
    <3>1. Len(events') = 0
      BY <1>4 DEF Start
    <3> QED BY <1>0, <3>1
  <2> QED BY <2>1
<1>5. CASE InfoLoading \/ InfoLoadingEof
  <2>1. Feeding
    <3>1. where = "idle" /\ mb # <<>> /\ Head(mb).t \in Keys
      BY <1>5 DEF InfoLoading, InfoLoadingEof, Handles, Keys
    <3> QED BY <3>1, KeylessTail DEF Story, Rested, IInv
  <2>2. events' \in Seq(Event)
    BY <1>5, <2>1, StoryKey, StoryEof DEF Story
  <2>3. PICK event : events' = Append(events, event) /\ event.ev # "stream"
    BY <1>5 DEF InfoLoading, InfoLoadingEof
  <2>4. event \in Event
    <3>1. events'[Len(events) + 1] = event /\ Len(events') = Len(events) + 1
      BY <1>0, <2>3
    <3> QED BY <1>0, <2>2, <3>1
  <2> QED BY <1>2, <2>3, <2>4
<1>6. CASE ~(InfoTcpCommands \/ Start \/ InfoLoading \/ InfoLoadingEof)
  BY <1>1, <1>6, EventsSame
<1> QED BY <1>3, <1>4, <1>5, <1>6

\* As long as nothing was lost or kept from an earlier connection, the callback receives
\* each command after its snapshot exactly once and in order, across reconnections,
\* buffered reads and partial resynchronisations (handle_info/2's clauses for tcp data,
\* buffer/3, redis:parse/1).
THEOREM ToldOnce == Spec => ExactlyOnce
<1>1. IInv /\ Course /\ Story /\ [Next]_vars =>
         [tainted = {} =>
            \A i \in Len(events) .. Len(events') - 1 :
                events'[i + 1].ev = "stream" =>
                    /\ i > 0
                    /\ \/ /\ events'[i].ev = "stream"
                          /\ events'[i + 1].n = events'[i].n + 1
                       \/ /\ events'[i].ev = "eof"
                          /\ CmdUnits * (events'[i + 1].n - 1) = events'[i].r]_vars
  BY OnceStep
<1>2. Spec => [](IInv /\ Course /\ Story)
  BY Protocol, InCourse, StoryKept, PTL
<1> QED BY <1>1, <1>2, PTL DEF Spec, ExactlyOnce

-----------------------------------------------------------------------------
(* The snapshot that answers SYNC can be loaded.                            *)

\* A read of less than the buffer has taken all there was.
NotFull(data) == Len(data) # BUFFER

\* The answer to SYNC begins with a line of reply, or with the snapshot's first one.
Opens(units) == units[1].k \in {"len"} \cup DOMAIN ReplyResult

\* The dump file begins like a dump.
Dump(units) == units # <<>> /\ units[1].k = "magic"

FirstRead(data) ==
    Opens(data) /\ (NotFull(data) /\ data[1].k = "len" => Loadable(AfterNewline(data)))
NextRead(data) == NotFull(data) => Loadable(file \o data)

\* The answer to SYNC is still in flight, or in the mailbox.
AnswerOK ==
    where = "reply" /\ state = "load" =>
        /\ NoneOf(mb, {"tcp"}) =>
              (mphase = "online" => net # <<>>) /\ (net # <<>> => Opens(net))
        /\ \A i \in DOMAIN mb : mb[i].t = "tcp" => FirstRead(mb[i].data)

\* The dump file waits for more.
PiecesOK ==
    where = "reply" /\ state = "buffering" =>
        /\ Dump(file)
        /\ \A i \in DOMAIN mb : mb[i].t = "tcp" => NextRead(mb[i].data)

\* What rdb:save/3 is to put in the dump file makes a beginning, and the last piece a whole.
Starts(m) == m.n = 0 /\ m.data # <<>> /\ m.data[1].k = "len" /\ (state = "buffering" => Len(m.data) > 1)
GoesOn(m) == m.n = 1 /\ Dump(file)
SavesOK ==
    where = "idle" => \A i \in DOMAIN mb :
        /\ mb[i].t = "save_rdb" =>
              /\ Starts(mb[i]) \/ GoesOn(mb[i])
              /\ state = "payload" => Loadable(Save(file, mb[i].data, mb[i].n))
        /\ mb[i].t = "load_rdb" => Loadable(file)

Parcel ==
    mode # "psync" /\ peerOpen =>
        /\ where = "reply" => state # "payload"
        /\ AnswerOK
        /\ PiecesOK
        /\ SavesOK

\* A stretch of units that begins in a snapshot, on a connection that holds.
LEMMA SyncedBegins ==
    ASSUME NEW s \in Seq(Unit), NEW at, Synced(s, at), s # <<>>, s[1].k \in {"len", "magic"},
           TypeOK, mphase # "none"
    PROVE  \E z \in Int, size \in Nat :
              /\ Wire(s, at, z, size) /\ at \in Nat
              /\ z <= Len(s)
              /\ s[1].k = "len" => z = size + 3
              /\ s[1].k = "magic" => z = size + 2
<1>1. PICK z \in Int, size \in Nat :
          /\ Wire(s, at, z, size)
          /\ mphase = "online" => z <= Len(s)
          /\ mphase = "bgsave" => Len(s) < z - size - 2
  BY DEF Synced, SyncedAt
<1>2. at \in Nat /\ mphase \in {"bgsave", "online"}
  BY DEF Synced, SyncedAt, TypeOK, MasterTypeOK
<1>3. Len(s) \in Nat \ {0}
  OBVIOUS
<1>4. WireUnit(s[1], 1, at, z, size)
  <2>1. 1 \in 1 .. Len(s)
    BY <1>3
  <2> QED BY <1>1, <2>1 DEF Wire
<1>5. ~(1 > z /\ s[1] = HistUnit(at + 1 - z)) /\ s[1] # Mk("lf", 0)
  <2>1. ASSUME 1 > z PROVE HistUnit(at + 1 - z).k \in {"lf", "body", "head"}
    <3>1. at + 1 - z \in Nat \ {0}
      BY <1>2, <2>1
    <3> QED BY <3>1, HistUnitIs
  <2>2. Mk("lf", 0).k = "lf"
    BY DEF Mk
  <2> QED BY <2>1, <2>2
<1>6. /\ s[1].k = "len" => 1 = z - size - 2
      /\ s[1].k = "magic" => 1 = z - size - 1
  BY <1>4, <1>5 DEF WireUnit, IsKey
<1>7. mphase = "online"
  BY <1>1, <1>2, <1>3, <1>6
<1>8. /\ s[1].k = "len" => z = size + 3
      /\ s[1].k = "magic" => z = size + 2
  BY <1>6
<1> QED BY <1>1, <1>2, <1>7, <1>8

LEMMA WireMagic ==
    ASSUME NEW t \in Seq(Unit), NEW at \in Nat, NEW size \in Nat, Wire(t, at, size + 2, size),
           size + 2 <= Len(t)
    PROVE  t[1].k = "magic" /\ Loadable(t)
<1>1. PICK n \in Nat : n = Len(t) /\ size + 2 <= n
  OBVIOUS
<1>2. ASSUME NEW i \in 1 .. size + 2 PROVE WireUnit(t[i], i, at, size + 2, size)
  BY <1>1 DEF Wire
<1>3. t[1].k = "magic"
  <2>1. 1 \in 1 .. size + 2
    OBVIOUS
  <2>2. WireUnit(t[1], 1, at, size + 2, size)
    BY <1>2, <2>1
  <2> QED BY <2>2 DEF WireUnit
<1>4. t[size + 2].k = "eof"
  <2>1. size + 2 \in 1 .. size + 2
    OBVIOUS
  <2>2. WireUnit(t[size + 2], size + 2, at, size + 2, size)
    BY <1>2, <2>1
  <2> QED BY <2>2 DEF WireUnit
<1>5. ASSUME NEW i \in 2 .. (size + 2) - 1 PROVE IsKey(t[i])
  <2>1. i \in 1 .. size + 2
    OBVIOUS
  <2>2. WireUnit(t[i], i, at, size + 2, size)
    BY <1>2, <2>1
  <2> QED BY <2>2 DEF WireUnit
<1>6. EndsAt(t, size + 2)
  BY <1>3, <1>4, <1>5 DEF EndsAt
<1>7. size + 2 \in 2 .. Len(t)
  BY <1>1
<1> QED BY <1>3, <1>6, <1>7 DEF Loadable

\* A dump that is begun and of which nothing is outstanding is whole.
LEMMA WholeDump ==
    ASSUME NEW s \in Seq(Unit), NEW at, Synced(s, at), Dump(s), TypeOK, mphase # "none"
    PROVE  Loadable(s)
<1>1. PICK z \in Int, size \in Nat :
          Wire(s, at, z, size) /\ at \in Nat /\ z <= Len(s) /\ z = size + 2
  BY SyncedBegins DEF Dump
<1> QED BY <1>1, WireMagic

\* rdb:save/3 drops the length in front of the signature.
LEMMA LenDropped ==
    ASSUME NEW s \in Seq(Unit), s # <<>>, s[1].k = "len"
    PROVE  /\ AfterNewline(s) = SubSeq(s, 2, Len(s)) /\ AfterNewline(s) \in Seq(Unit)
           /\ Len(AfterNewline(s)) = Len(s) - 1
           /\ \A i \in 1 .. Len(s) - 1 : AfterNewline(s)[i] = s[i + 1]
<1> DEFINE nl == {i \in 1 .. Len(s) : s[i].k \in NewlineEnd}
           end == CHOOSE i \in nl : \A j \in nl : i <= j
<1>1. Len(s) \in Nat \ {0}
  OBVIOUS
<1>2. 1 \in nl /\ \A j \in nl : 1 <= j
  BY <1>1 DEF NewlineEnd
<1>3. end \in nl /\ \A j \in nl : end <= j
  BY <1>2
<1>4. end = 1
  <2>1. end \in Nat
    BY <1>3
  <2> QED BY <1>2, <1>3, <2>1
<1>5. AfterNewline(s) = SubSeq(s, 1 + end, Len(s))
  BY <1>2 DEF AfterNewline
<1> HIDE DEF nl, end
<1>6. AfterNewline(s) = SubSeq(s, 1 + 1, Len(s))
  BY <1>4, <1>5
<1>7. PICK k \in 0 .. Len(s) : k = 1
  BY <1>1
<1>8. PICK t : t = SubSeq(s, k + 1, Len(s))
  OBVIOUS
<1>9. /\ t \in Seq(Unit) /\ Len(t) = Len(s) - k
      /\ \A i \in 1 .. Len(s) - k : t[i] = s[k + i]
  BY <1>8, BackUnits
<1>10. k + 1 = 2 /\ 1 + 1 = 2 /\ \A i \in 1 .. Len(s) - 1 : k + i = i + 1
  BY <1>1, <1>7
<1>11. AfterNewline(s) = t /\ t = SubSeq(s, 2, Len(s))
  BY <1>6, <1>8, <1>10
<1> QED BY <1>7, <1>9, <1>10, <1>11

LEMMA WholeRead ==
    ASSUME NEW s \in Seq(Unit), NEW at, Synced(s, at), s # <<>>, s[1].k = "len", TypeOK,
           mphase # "none"
    PROVE  Loadable(AfterNewline(s)) /\ Len(s) > 1 /\ s[2].k = "magic"
<1>1. PICK z \in Int, size \in Nat :
          Wire(s, at, z, size) /\ at \in Nat /\ z <= Len(s) /\ z = size + 3
  BY SyncedBegins
<1>2. PICK t \in Seq(Unit), n \in Nat :
          /\ t = AfterNewline(s) /\ n = Len(s) /\ Len(t) = n - 1
          /\ \A i \in 1 .. n - 1 : t[i] = s[i + 1]
  BY LenDropped
<1>3. Wire(t, at, size + 2, size)
  <2>1. Len(t) = Len(s) - 1 /\ \A i \in 1 .. Len(t) : t[i] = s[1 + i]
    BY <1>2
  <2>2. Wire(t, at, z - 1, size)
    BY <1>1, <2>1, WireDrop
  <2>3. z - 1 = size + 2
    BY <1>1
  <2> QED BY <2>2, <2>3
<1>4. size + 2 <= Len(t) /\ n > 1
  BY <1>1, <1>2
<1>5. t[1].k = "magic" /\ Loadable(t)
  BY <1>1, <1>3, <1>4, WireMagic
<1>6. 1 \in 1 .. n - 1 /\ t[1] = s[2]
  <2>1. 1 \in 1 .. n - 1
    BY <1>4
  <2>2. t[1] = s[1 + 1]
    BY <1>2, <2>1
  <2> QED BY <2>1, <2>2
<1> QED BY <1>2, <1>4, <1>5, <1>6

\* Where there is nothing to say.
LEMMA ParcelElsewhere ==
    ASSUME IInv', ~(where' = "reply" /\ state' \in Loading),
           ~(where' = "idle" /\ state' \in {"payload", "buffering"})
    PROVE  Parcel'
<1>1. ASSUME where' = "idle", NEW i \in DOMAIN mb', mb'[i].t \in {"save_rdb", "load_rdb"}
      PROVE  FALSE
  <2>1. mb'[i].t \in Casts
    BY <1>1 DEF Casts
  <2>2. CASE state' = "reconnect"
    BY <1>1, <2>1, <2>2 DEF IInv, AwayOK
  <2>3. CASE state' # "reconnect"
    <3>1. Expected(mb[i])'
      BY <1>1, <2>1, <2>3 DEF IInv, NeverWedged
    <3> QED BY <1>1, <3>1 DEF Expected, ExpectedCast, ExpectedInfo
  <2> QED BY <2>2, <2>3
<1>2. SavesOK'
  BY <1>1 DEF SavesOK
<1>3. (where' = "reply" => state' # "payload") /\ AnswerOK' /\ PiecesOK'
  BY DEF AnswerOK, PiecesOK, Loading
<1> QED BY <1>2, <1>3 DEF Parcel

\* Steps of the master: only the answer in flight can change.
LEMMA ParcelServer ==
    ASSUME Parcel, UNCHANGED serverVars, peerOpen' => peerOpen,
           mode # "psync" /\ peerOpen /\ peerOpen' /\ where = "reply" /\ state = "load" /\ NoneOf(mb, {"tcp"})
             => (mphase' = "online" => net' # <<>>) /\ (net' # <<>> => Opens(net'))
    PROVE  Parcel'
<1>1. UNCHANGED <<where, mb, state, mode, file>>
  BY DEF serverVars, procVars, stateVars
<1> SUFFICES ASSUME mode # "psync", peerOpen, peerOpen'
             PROVE  (where' = "reply" => state' # "payload") /\ AnswerOK' /\ PiecesOK' /\ SavesOK'
  BY <1>1 DEF Parcel
<1>2. (where = "reply" => state # "payload") /\ AnswerOK /\ PiecesOK /\ SavesOK
  BY DEF Parcel
<1>3. PiecesOK'
  BY <1>1, <1>2, Zenon DEF PiecesOK, NextRead
<1>4. SavesOK'
  BY <1>1, <1>2, Zenon DEF SavesOK, Starts, GoesOn
<1>5. AnswerOK'
  <2>1. ASSUME where = "reply", state = "load"
        PROVE  /\ NoneOf(mb, {"tcp"}) => (mphase' = "online" => net' # <<>>) /\ (net' # <<>> => Opens(net'))
               /\ \A i \in DOMAIN mb : mb[i].t = "tcp" => FirstRead(mb[i].data)
    BY <1>2, <2>1 DEF AnswerOK
  <2>2. mb' = mb /\ where' = where /\ state' = state
    BY <1>1
  <2> QED BY <2>1, <2>2, Zenon DEF AnswerOK
<1> QED BY <1>1, <1>2, <1>3, <1>4, <1>5

LEMMA OpensWith ==
    ASSUME NEW s \in Seq(Unit), s # <<>> => Opens(s), NEW t \in Seq(Unit), s = <<>> /\ t # <<>> => Opens(t)
    PROVE  /\ s \o t # <<>> => Opens(s \o t)
           /\ s # <<>> \/ t # <<>> => s \o t # <<>>
<1>1. CASE s = <<>>
  <2>1. s \o t = t
    BY <1>1, JoinNothing
  <2> QED BY <1>1, <2>1
<1>2. CASE s # <<>>
  BY <1>2, TailOfJoin DEF Opens
<1> QED BY <1>1, <1>2

LEMMA OpensLine ==
    ASSUME NEW u \in Unit, u.k \in DOMAIN ReplyResult
    PROVE  <<u>> \in Seq(Unit) /\ <<u>> # <<>> /\ Opens(<<u>>)
BY DEF Opens

LEMMA ParcelMaster ==
    ASSUME IInv, IInv', Parcel, MasterSteps, UNCHANGED serverVars, "keepalive" \notin Faults
    PROVE  Parcel'
<1>0. net \in Seq(Unit)
  BY DEF IInv, TypeOK, MasterTypeOK
<1>1. peerOpen' => peerOpen
  BY DEF MasterSteps, MReply, MFullSync, MContinue, MSendRdb, MFlush, MBoot, MLoaded, MWrite,
         MRefuse, MKeepalive, MDrop, MCrash, Cut
<1> SUFFICES ASSUME mode # "psync", peerOpen, where = "reply", state = "load", NoneOf(mb, {"tcp"}),
                    peerOpen'
             PROVE  (mphase' = "online" => net' # <<>>) /\ (net' # <<>> => Opens(net'))
  BY <1>1, ParcelServer
<1>2. (mphase = "online" => net # <<>>) /\ (net # <<>> => Opens(net))
  BY DEF Parcel, AnswerOK
<1>3. ASSUME NEW u \in Unit, u.k \in DOMAIN ReplyResult, net' = Append(net, u)
      PROVE  net' # <<>> /\ Opens(net')
  <2>1. net' = net \o <<u>>
    BY <1>0, <1>3, AppendUnit
  <2>2. <<u>> \in Seq(Unit) /\ <<u>> # <<>> /\ Opens(<<u>>)
    BY <1>3, OpensLine
  <2>3. net \o <<u>> # <<>>
    BY <1>0, <1>2, <2>2, OpensWith
  <2> QED BY <1>0, <1>2, <2>1, <2>2, <2>3, OpensWith
<1>4. CASE MReply \/ MRefuse
  <2>1. PICK kind \in {"ok", "pong", "loading", "err", "unrecognized"} : net' = Append(net, Mk(kind, 0))
    BY <1>4, MasterAssumption DEF MReply, MRefuse, Answer
  <2>2. PICK u : u = Mk(kind, 0)
    OBVIOUS
  <2>3. u \in Unit /\ u.k \in DOMAIN ReplyResult
    BY <2>2 DEF Mk, Unit, ReplyKinds, ReplyResult
  <2> QED BY <1>3, <2>1, <2>2, <2>3
<1>5. CASE MFullSync
  <2>1. mphase' = "bgsave"
    BY <1>5 DEF MFullSync
  <2>2. CASE net' = net
    BY <1>2, <2>1, <2>2
  <2>3. CASE net' = Append(net, FullResync(mrun, HistEnd))
    <3>1. PICK u : u = FullResync(mrun, HistEnd)
      OBVIOUS
    <3>2. u \in Unit /\ u.k \in DOMAIN ReplyResult
      <4>1. HistEnd \in Nat /\ mrun \in Nat
        BY HistEndIs DEF IInv, TypeOK, MasterTypeOK
      <4> QED BY <3>1, <4>1 DEF FullResync, Unit, ReplyKinds, ReplyResult
    <3> QED BY <1>3, <2>3, <3>1, <3>2
  <2> QED BY <1>5, <2>2, <2>3 DEF MFullSync, Answer
<1>6. CASE MContinue
  <2>1. PICK u : u = Mk("continue", 0)
    OBVIOUS
  <2>2. u \in Unit /\ u.k \in DOMAIN ReplyResult
    BY <2>1 DEF Mk, Unit, ReplyKinds, ReplyResult
  <2>3. net' = Append(net, u)
    BY <1>6, <2>1 DEF MContinue, Answer
  <2> QED BY <1>3, <2>2, <2>3
<1>7. CASE MSendRdb
  <2>1. PICK keys \in Snapshots : net' = net \o Payload(keys, mpos)
    BY <1>7 DEF MSendRdb
  <2>2. keys \in Seq({"key", "dkey"}) /\ mpos \in Nat
    BY MasterAssumption DEF IInv, TypeOK, MasterTypeOK
  <2>3. PICK p : p = Payload(keys, mpos)
    OBVIOUS
  <2>4. p \in Seq(Unit) /\ p # <<>> /\ Opens(p)
    <3>1. p \in Seq(Unit) /\ Len(p) = Len(keys) + 3 /\ p[1] = [k |-> "len", n |-> 0, r |-> mpos]
      BY <2>2, <2>3, PayloadIs
    <3>2. Len(keys) \in Nat
      BY <2>2
    <3>3. Len(p) # 0
      BY <3>1, <3>2
    <3> QED BY <3>1, <3>3 DEF Opens
  <2> QED BY <1>0, <1>2, <2>1, <2>3, <2>4, OpensWith
<1>8. CASE MFlush
  <2>1. /\ net' = net \o HistUnits(mpos + 1, HistEnd) /\ mpos < HistEnd
        /\ net # <<>>
    BY <1>2, <1>8 DEF MFlush
  <2>2. mpos + 1 \in Nat \ {0} /\ HistEnd \in Nat /\ mpos + 1 <= HistEnd + 1
    BY <2>1, HistEndIs DEF IInv, TypeOK, MasterTypeOK
  <2>3. PICK h \in Seq(Unit) : h = HistUnits(mpos + 1, HistEnd)
    BY <2>2, HistUnitsAre
  <2> QED BY <1>0, <1>2, <2>1, <2>3, OpensWith
<1>9. CASE MBoot \/ MLoaded \/ MWrite
  BY <1>2, <1>9 DEF MBoot, MLoaded, MWrite
<1>10. CASE MDrop \/ MCrash \/ MKeepalive
  BY <1>10 DEF MDrop, MCrash, MKeepalive, Cut, Fault
<1> QED BY <1>4, <1>5, <1>6, <1>7, <1>8, <1>9, <1>10 DEF MasterSteps

\* A message that is neither data nor a cast.
LEMMA ParcelAdd ==
    ASSUME IInv, Parcel, NEW m \in Message, mb' = Append(mb, m),
           m.t \notin {"tcp", "save_rdb", "load_rdb"},
           UNCHANGED <<where, state, mode, file, net, mphase, peerOpen>>
    PROVE  Parcel'
<1>1. PICK box \in Seq(Message) : box = mb
  BY DEF IInv, TypeOK, ServerTypeOK
<1>2. \A i \in DOMAIN mb' : mb'[i] = m \/ (i \in DOMAIN mb /\ mb'[i] = mb[i])
  <2>1. \A i \in DOMAIN Append(box, m) : Append(box, m)[i] = m \/ (i \in DOMAIN box /\ Append(box, m)[i] = box[i])
    BY AddOne
  <2> QED BY <1>1, <2>1
<1>3. NoneOf(mb', {"tcp"}) => NoneOf(mb, {"tcp"})
  <2>1. \A i \in DOMAIN box : i \in DOMAIN Append(box, m) /\ Append(box, m)[i] = box[i]
    BY AddOne
  <2> QED BY <1>1, <2>1 DEF NoneOf
<1> SUFFICES ASSUME mode # "psync", peerOpen
             PROVE  (where' = "reply" => state' # "payload") /\ AnswerOK' /\ PiecesOK' /\ SavesOK'
  BY DEF Parcel
<1>4. (where = "reply" => state # "payload") /\ AnswerOK /\ PiecesOK /\ SavesOK
  BY DEF Parcel
<1>5. PiecesOK'
  BY <1>2, <1>4, Zenon DEF PiecesOK, NextRead
<1>6. SavesOK'
  BY <1>2, <1>4 DEF SavesOK, Starts, GoesOn
<1>7. AnswerOK'
  BY <1>2, <1>3, <1>4, Zenon DEF AnswerOK
<1> QED BY <1>4, <1>5, <1>6, <1>7

\* A message is handled or dropped.
LEMMA ParcelDrop ==
    ASSUME IInv, Parcel, where = "idle", where' = "idle", mb # <<>>, mb' = Tail(mb),
           UNCHANGED <<state, mode, file, peerOpen>>
    PROVE  Parcel'
<1>1. PICK box \in Seq(Message) : box = mb
  BY DEF IInv, TypeOK, ServerTypeOK
<1>2. \A i \in DOMAIN mb' : i + 1 \in DOMAIN mb /\ mb'[i] = mb[i + 1]
  BY <1>1, TailMessages
<1> SUFFICES ASSUME mode # "psync", peerOpen PROVE SavesOK'
  BY DEF Parcel, AnswerOK, PiecesOK
<1>3. SavesOK
  BY DEF Parcel
<1> QED BY <1>2, <1>3 DEF SavesOK, Starts, GoesOn

\* Steps that end elsewhere.
LEMMA ParcelOther ==
    ASSUME IInv', 
           \/ Start \/ Boot \/ BootRefused \/ BootAuthOk \/ BootPong \/ BootLoading \/ BootFailed
           \/ CastRepl \/ CastCapa \/ CastRst \/ RecvPort \/ RecvCapa \/ RecvContinue \/ RecvFailed
           \/ LoadRdb \/ LoadFailed \/ CastReplication
           \/ InfoTcpQuiet \/ InfoTcpBuffer \/ InfoTcpCommands \/ InfoTcpFailed \/ InfoTimeout
           \/ InfoTcpClosed \/ InfoTcpError \/ Reconnect \/ ReconnectRefused \/ ReAuthOk
           \/ ReAuthThrows \/ RePong \/ ReconnectFailed \/ CallShutdown \/ DiskFailed \/ Killed
    PROVE  Parcel'
<1> SUFFICES \/ where' \notin {"reply", "idle"}
             \/ state' \notin Loading
             \/ where' = "idle" /\ state' = "load"
  BY ParcelElsewhere DEF Loading
<1>1. ASSUME Die PROVE where' = "down"
  BY <1>1 DEF Die
<1>2. CASE \/ BootRefused \/ BootFailed \/ RecvFailed \/ LoadFailed \/ InfoTcpFailed \/ InfoTcpError
           \/ ReconnectFailed \/ CallShutdown \/ DiskFailed \/ Killed
  <2>1. Die
    BY <1>2 DEF BootRefused, BootFailed, RecvFailed, LoadFailed, InfoTcpFailed, InfoTcpError,
         ReconnectFailed, CallShutdown, DiskFailed, Killed, Stop
  <2> QED BY <1>1, <2>1
<1>3. CASE Start \/ Boot \/ BootAuthOk \/ BootLoading \/ Reconnect \/ ReAuthOk
  BY <1>3 DEF Start, Boot, BootAuthOk, BootLoading, Reconnect, ReAuthOk
<1>4. CASE CastRepl \/ CastCapa
  <2>1. state \notin Loading /\ (Die \/ state' = state)
    BY <1>4 DEF CastRepl, CastCapa, AskOrFail, Ask, Stop, stateVars, Loading
  <2> QED BY <1>1, <2>1
<1>5. CASE BootPong \/ RecvPort \/ RecvContinue \/ LoadRdb \/ InfoTcpClosed \/ RePong
  BY <1>5 DEF BootPong, RecvPort, RecvContinue, LoadRdb, InfoTcpClosed, RePong, Loading
<1>6. CASE ReconnectRefused \/ ReAuthThrows
  BY <1>6 DEF ReconnectRefused, ReAuthThrows, Retry, Loading
<1>7. CASE CastRst \/ RecvCapa
  BY <1>7 DEF CastRst, RecvCapa, Continue
<1>8. CASE CastReplication \/ InfoTimeout
  BY <1>8 DEF CastReplication, InfoTimeout, stateVars, Loading
<1>9. CASE InfoTcpQuiet \/ InfoTcpBuffer \/ InfoTcpCommands
  BY <1>9 DEF InfoTcpQuiet, InfoTcpBuffer, InfoTcpCommands, InfoTcp, Loading
<1> QED BY <1>2, <1>3, <1>4, <1>5, <1>6, <1>7, <1>8, <1>9

\* A read takes all there is, or fills the buffer.
LEMMA ParcelData ==
    ASSUME IInv, IInv', Course, Parcel, ~Fragment, DeliverData
    PROVE  Parcel'
<1>1. PICK size \in 1 .. Len(net), chunk \in Seq(Unit), rest \in Seq(Unit), m \in Message :
          /\ m = Msg("tcp", chunk, 0) /\ m.t = "tcp" /\ m.data = chunk /\ mb' = Append(mb, m)
          /\ chunk = SubSeq(net, 1, size) /\ rest = SubSeq(net, size + 1, Len(net))
          /\ chunk \o rest = net /\ net' = rest
          /\ Len(chunk) = size /\ Len(rest) = Len(net) - size
          /\ chunk[1] = net[1] /\ \A i \in 1 .. Len(rest) : rest[i] = net[size + i]
  BY ReadIs
<1>2. /\ sock = "active" /\ UNCHANGED <<where, stateVars, file>> /\ mphase' = mphase /\ peerOpen' = peerOpen
  BY DEF DeliverData, Deliver
<1>3. PICK box \in Seq(Message) : box = mb
  BY DEF IInv, TypeOK, ServerTypeOK
<1>4. /\ \A i \in DOMAIN mb' : mb'[i] = m \/ (i \in DOMAIN mb /\ mb'[i] = mb[i])
      /\ ~NoneOf(mb', {"tcp"})
  <2>1. /\ \A i \in DOMAIN Append(box, m) : Append(box, m)[i] = m \/ (i \in DOMAIN box /\ Append(box, m)[i] = box[i])
        /\ Len(box) + 1 \in DOMAIN Append(box, m) /\ Append(box, m)[Len(box) + 1] = m
    BY AddOne
  <2>2. mb' = Append(box, m) /\ mb = box
    BY <1>1, <1>3
  <2>3. ~NoneOf(Append(box, m), {"tcp"})
    BY <1>1, <2>1 DEF NoneOf
  <2> QED BY <2>1, <2>2, <2>3, Zenon
<1>5. PICK flight \in Seq(Unit), n \in Nat : flight = net /\ n = Len(flight)
  BY DEF IInv, TypeOK, MasterTypeOK
<1>6. NotFull(chunk) => chunk = flight
  <2>1. PICK taken \in ChunkSizes : net' = SubSeq(net, taken + 1, Len(net))
    BY DEF DeliverData
  <2>2. taken = (IF n < BUFFER THEN n ELSE BUFFER) /\ taken \in 1 .. n
    <3>1. ChunkSizes = {IF n < BUFFER THEN n ELSE BUFFER} \ {0}
      BY <1>5 DEF ChunkSizes
    <3>2. PICK most \in Nat : most = (IF n < BUFFER THEN n ELSE BUFFER) /\ most <= n
      BY BufferAssumption
    <3>3. taken = most /\ taken # 0
      BY <3>1, <3>2
    <3>4. taken \in 1 .. n
      BY <3>2, <3>3
    <3> QED BY <3>2, <3>3, <3>4
  <2>3. Len(SubSeq(flight, taken + 1, n)) = n - taken
    BY <1>5, <2>2, BackUnits
  <2>4. size \in 1 .. n /\ n - taken = n - size /\ Len(chunk) = size
    BY <1>1, <1>5, <2>1, <2>3
  <2>5. taken = size
    BY <2>2, <2>4
  <2>6. NotFull(chunk) => size = n
    BY <2>2, <2>4, <2>5 DEF NotFull
  <2>7. SubSeq(flight, 1, n) = flight
    BY <1>5
  <2>8. chunk = SubSeq(flight, 1, size)
    BY <1>1, <1>5, Zenon
  <2> QED BY <2>6, <2>7, <2>8, Zenon
<1>7. CASE ~(where = "reply" /\ state \in Loading)
  <2>1. where = "idle" => state = "stream"
    BY <1>2, ListensWhere DEF Receiving
  <2> QED BY <1>2, <1>7, <2>1, ParcelElsewhere DEF stateVars
<1>8. CASE where = "reply" /\ state \in Loading
  <2> SUFFICES ASSUME mode # "psync", peerOpen
               PROVE  (where' = "reply" => state' # "payload") /\ AnswerOK' /\ PiecesOK' /\ SavesOK'
    BY <1>2 DEF Parcel, stateVars
  <2>1. state # "payload" /\ AnswerOK /\ PiecesOK
    BY <1>8 DEF Parcel
  <2>2. NoneOf(mb, {"tcp"})
    BY <1>2, <1>8, ListensWhere, NoSocket DEF Receiving, Loading
  <2>3. mphase # "none" /\ TypeOK
    BY DEF Course, Peer, IInv
  <2>4. PICK kept \in Seq(Unit) : kept = Kept /\ kept = (IF state = "buffering" THEN file ELSE <<>>)
    BY <1>8, EmptySeqs DEF Kept, IInv, TypeOK, ServerTypeOK
  <2>5. PICK all \in Seq(Unit) : all = kept \o flight
    BY JoinUnits
  <2>6. Underway(all)
    <3>1. Held(kept)
      BY <1>8, <2>2, <2>4 DEF Held
    <3> QED BY <1>5, <2>5, <3>1 DEF Course, Carried
  <2>7. \A i \in DOMAIN mb' : mb'[i].t = "tcp" => mb'[i] = m
    BY <1>4, <2>2 DEF NoneOf
  <2>8. SavesOK' /\ state' = state /\ where' = where /\ file' = file
    BY <1>2, <1>8 DEF SavesOK, stateVars
  <2>9. CASE state = "load"
    <3>1. all = flight
      BY <2>4, <2>5, <2>9, JoinNothing
    <3>2. Opens(chunk) /\ flight # <<>> /\ chunk[1] = flight[1]
      <4>1. flight # <<>>
        BY <1>1, <1>5
      <4> QED BY <1>1, <1>5, <1>8, <2>1, <2>2, <2>9, <4>1 DEF AnswerOK, Opens
    <3>3. ASSUME NotFull(chunk), chunk[1].k = "len" PROVE Loadable(AfterNewline(chunk))
      <4>1. chunk = flight /\ flight[1].k = "len"
        BY <1>6, <3>2, <3>3
      <4>2. Answers(flight)
        BY <1>8, <2>6, <2>9, <3>1 DEF Underway, Answering
      <4>3. Bulk(flight)
        BY <3>2, <4>1, <4>2 DEF Answers, Asks, Lost, Refused, Continued, FullSynced
      <4>4. PICK at \in Nat : Synced(flight, at)
        BY <4>3 DEF Bulk
      <4> QED BY <2>3, <3>2, <4>1, <4>4, WholeRead
    <3>4. FirstRead(chunk)
      BY <3>2, <3>3 DEF FirstRead
    <3>5. AnswerOK'
      BY <1>1, <1>4, <2>7, <3>4 DEF AnswerOK
    <3> QED BY <2>8, <2>9, <3>5 DEF PiecesOK
  <2>10. CASE state = "buffering"
    <3>1. all = file \o flight /\ Dump(file) /\ file \in Seq(Unit)
      BY <1>8, <2>1, <2>4, <2>5, <2>10 DEF PiecesOK
    <3>2. Dump(all)
      BY <3>1, TailOfJoin DEF Dump
    <3>3. ASSUME NotFull(chunk) PROVE Loadable(file \o chunk)
      <4>1. file \o chunk = all
        BY <1>6, <3>1, <3>3
      <4>2. PICK at \in Nat : Synced(all, at)
        BY <2>6, <2>10 DEF Underway, Receives, Loads
      <4> QED BY <2>3, <3>2, <4>1, <4>2, WholeDump
    <3>4. NextRead(m.data)'
      BY <1>1, <2>8, <3>3 DEF NextRead
    <3>5. PiecesOK'
      BY <2>7, <2>8, <3>1, <3>4 DEF PiecesOK
    <3> QED BY <2>8, <2>10, <3>5 DEF AnswerOK
  <2> QED BY <1>8, <2>1, <2>9, <2>10 DEF Loading
<1> QED BY <1>7, <1>8

\* A request goes out behind an answer that has been read to the end.
LEMMA ParcelAsk ==
    ASSUME IInv, IInv', Course, CastPsync \/ CastSync \/ CastPsyncPayload
    PROVE  Parcel'
<1>1. CASE Die
  BY <1>1, ParcelElsewhere DEF Die
<1>2. CASE CastPsyncPayload /\ ~Die
  <2>1. /\ mb # <<>> /\ Head(mb).t = "psync" /\ mode' = mode /\ (mode = "psync" \/ Stop)
    BY <1>2 DEF CastPsyncPayload, Handles, Stop, stateVars
  <2>2. mode = "psync"
    BY <1>2, <2>1 DEF Stop
  <2> QED BY <2>1, <2>2 DEF Parcel
<1>3. CASE (CastPsync \/ CastSync) /\ ~Die
  <2>1. /\ where = "idle" /\ mb # <<>> /\ Head(mb).t \in {"psync", "sync"} /\ state = "load"
        /\ \E request : Ask(request)
    BY <1>3 DEF CastPsync, CastSync, Handles, AskOrFail, Stop
  <2>2. /\ where' = "reply" /\ mb' = Tail(mb) /\ state' = "load" /\ net' = net /\ mphase' = mphase
    BY <2>1 DEF Ask, Send, stateVars
  <2>3. net = <<>> /\ Away /\ NoneOf(Tail(mb), {"tcp"})
    BY <2>1, RestsTaken DEF Resting, Casts
  <2>4. AnswerOK'
    BY <2>2, <2>3 DEF AnswerOK, Away, NoneOf
  <2> QED BY <2>2, <2>4 DEF Parcel, PiecesOK, SavesOK
<1> QED BY <1>1, <1>2, <1>3

\* The full resynchronisation of psync mode.
LEMMA ParcelFullResync ==
    ASSUME IInv, Course, Course', RecvFullResync
    PROVE  Parcel'
<1>1. PICK m : m = Plain("psync")
  OBVIOUS
<1>2. m \in Message /\ m.t = "psync"
  BY <1>1, PlainMessage DEF Casts
<1>3. mb # <<>> /\ mb' = Tail(mb) \o <<m>> /\ Tail(mb) \in Seq(Message)
  BY <1>1, HeadParts DEF RecvFullResync, Received, Continue, IInv
<1>4. PICK box \in Seq(Message) : box = Tail(mb)
  BY <1>3
<1>5. Len(box) + 1 \in DOMAIN mb' /\ mb'[Len(box) + 1] = m
  BY <1>2, <1>3, <1>4, AddOne
<1>6. mode' = "psync"
  BY <1>2, <1>5 DEF Course, Books
<1> QED BY <1>6 DEF Parcel

\* A cast behind what is left in the mailbox.
LEMMA CastBehind ==
    ASSUME TypeOK, mb # <<>>, NEW m \in Message, Continue(<<m>>), NoneOf(Tail(mb), Casts)
    PROVE  \A i \in DOMAIN mb' : mb'[i].t \in Casts => mb'[i] = m
<1>1. Tail(mb) \in Seq(Message)
  BY HeadParts
<1>2. mb' = Append(Tail(mb), m)
  BY <1>1, AddOne DEF Continue
<1> QED BY <1>1, <1>2, AddFirst

\* A piece has been received.
LEMMA ParcelBulk ==
    ASSUME IInv, Course, Parcel, RecvBulk
    PROVE  Parcel'
<1>0. PICK data, num, m :
          data = Head(mb).data /\ num = (IF state = "buffering" THEN 1 ELSE 0) /\ m = Msg("save_rdb", data, num)
  OBVIOUS
<1>1. /\ where = "reply" /\ mb # <<>> /\ Result \in {"load_stream", "load_buffer"} /\ state \in Loading
      /\ Continue(<<m>>) /\ state' = (IF Result = "load_stream" THEN "payload" ELSE "buffering")
      /\ UNCHANGED masterVars /\ mode' = mode /\ file' = file
  BY <1>0 DEF RecvBulk, Received
<1>2. PICK old : old = data
  OBVIOUS
<1>3. /\ old \in Seq(Unit) /\ old # <<>> /\ NoneOf(Tail(mb), Casts)
      /\ Result = ChunkResult(old)
  BY <1>0, <1>1, <1>2, SyncTaken
<1>4. /\ m \in Message /\ m.t = "save_rdb" /\ m.data = old /\ m.n = num
      /\ num = (IF state = "buffering" THEN 1 ELSE 0)
  <2>1. num \in Nat /\ data \in Seq(Unit)
    BY <1>0, <1>2, <1>3
  <2>2. m \in Message
    BY <1>0, <2>1, MakeMessage DEF Casts
  <2> QED BY <1>0, <1>2, <2>2 DEF Msg
<1>5. \A i \in DOMAIN mb' : mb'[i].t \in Casts => mb'[i] = m
  BY <1>1, <1>3, <1>4, CastBehind DEF IInv
<1>6. \E i \in DOMAIN mb : mb[i].t = "tcp" /\ mb[i].data = old
  <2>1. mb \in Seq(Message) /\ Head(mb).t = "tcp"
    BY <1>1, ReplyIs DEF IInv, TypeOK, ServerTypeOK
  <2>2. Head(mb) = mb[1] /\ 1 \in DOMAIN mb
    BY <1>1, <2>1, TailMessages
  <2> QED BY <1>0, <1>2, <2>1, <2>2
<1>7. /\ old[1].k \notin DOMAIN ReplyResult
      /\ Result = "load_stream" => NotFull(old)
      /\ Result = "load_buffer" => Len(old) > 1
  BY <1>1, <1>3, BufferAssumption DEF ChunkResult, ReplyResult, NotFull
<1> SUFFICES ASSUME mode # "psync", peerOpen PROVE SavesOK'
  BY <1>1 DEF Parcel, AnswerOK, PiecesOK, Continue, masterVars
<1>8. state # "payload" /\ AnswerOK /\ PiecesOK
  BY <1>1 DEF Parcel
<1>9. Starts(m)' \/ GoesOn(m)'
  <2>1. CASE state = "load"
    <3>1. FirstRead(old)
      BY <1>1, <1>6, <1>8, <2>1 DEF AnswerOK
    <3>2. old[1].k = "len"
      BY <1>7, <3>1 DEF FirstRead, Opens
    <3> QED BY <1>1, <1>3, <1>4, <1>7, <2>1, <3>2 DEF Starts
  <2>2. CASE state = "buffering"
    BY <1>1, <1>4, <1>8, <2>2 DEF GoesOn, PiecesOK, Dump
  <2> QED BY <1>1, <1>8, <2>1, <2>2 DEF Loading
<1>10. state' = "payload" => Loadable(Save(file, old, num))
  <2> SUFFICES ASSUME state' = "payload" PROVE Loadable(Save(file, old, num))
    OBVIOUS
  <2>0. NotFull(old)
    BY <1>1, <1>7
  <2>1. CASE state = "load"
    <3>1. FirstRead(old)
      BY <1>1, <1>6, <1>8, <2>1 DEF AnswerOK
    <3>2. Loadable(AfterNewline(old))
      BY <1>7, <2>0, <3>1 DEF FirstRead, Opens
    <3> QED BY <1>4, <2>1, <3>2 DEF Save
  <2>2. CASE state = "buffering"
    <3>1. NextRead(old)
      BY <1>1, <1>6, <1>8, <2>2 DEF PiecesOK
    <3>2. Loadable(file \o old)
      BY <2>0, <3>1 DEF NextRead
    <3> QED BY <1>4, <2>2, <3>2 DEF Save
  <2> QED BY <1>1, <1>8, <2>1, <2>2 DEF Loading
<1>11. ASSUME NEW i \in DOMAIN mb', mb'[i].t \in {"save_rdb", "load_rdb"} PROVE mb'[i] = m
  BY <1>5, <1>11 DEF Casts
<1>12. m.t # "load_rdb"
  BY <1>4
<1>13. state' = "payload" => Loadable(Save(file', m.data, m.n))
  BY <1>1, <1>4, <1>10
<1>14. \A i \in DOMAIN mb' :
          /\ mb'[i].t = "save_rdb" =>
                /\ Starts(m)' \/ GoesOn(m)'
                /\ mb'[i] = m
                /\ state' = "payload" => Loadable(Save(file', m.data, m.n))
          /\ mb'[i].t # "load_rdb"
  BY <1>9, <1>11, <1>12, <1>13
<1> QED BY <1>14 DEF SavesOK, Starts, GoesOn

\* A piece is saved.
LEMMA ParcelSave ==
    ASSUME IInv, Course, Parcel, SaveBuffering \/ SavePayload
    PROVE  Parcel'
<1>1. /\ where = "idle" /\ mb # <<>> /\ Head(mb).t = "save_rdb" /\ state \in {"buffering", "payload"}
      /\ state' = state /\ UNCHANGED masterVars /\ mode' = mode /\ file' = Saved
  BY DEF SaveBuffering, SavePayload, Handles, stateVars
<1> SUFFICES ASSUME mode # "psync", peerOpen
             PROVE  (where' = "reply" => state' # "payload") /\ AnswerOK' /\ PiecesOK' /\ SavesOK'
  BY <1>1 DEF Parcel, masterVars
<1>2. /\ Held(CastHead(Head(mb)))
      /\ NoneOf(Tail(mb), Casts) /\ NoneOf(Tail(mb), {"tcp"})
  BY <1>1, TookCast, NoSocket DEF Casts
<1>3. PICK data \in Seq(Unit), num \in Nat : data = Head(mb).data /\ num = Head(mb).n
  BY <1>1, HeadParts DEF IInv
<1>4. /\ Starts(Head(mb)) \/ GoesOn(Head(mb))
      /\ state = "payload" => Loadable(Saved)
  <2>1. Head(mb) = mb[1] /\ 1 \in DOMAIN mb
    BY <1>1, TailMessages DEF IInv, TypeOK, ServerTypeOK
  <2>2. SavesOK
    BY DEF Parcel
  <2> QED BY <1>1, <2>1, <2>2 DEF SavesOK, Saved
<1>5. CASE SaveBuffering
  <2>1. where' = "reply" /\ mb' = Tail(mb) /\ state = "buffering"
    BY <1>5 DEF SaveBuffering
  <2>2. file \in Seq(Unit) /\ net \in Seq(Unit)
    BY DEF IInv, TypeOK, MasterTypeOK, ServerTypeOK
  <2>3. Dump(Saved)
    <3>1. CASE GoesOn(Head(mb))
      <4>1. Saved = file \o data /\ file # <<>> /\ file[1].k = "magic"
        BY <1>3, <3>1 DEF Saved, Save, GoesOn, Dump
      <4> QED BY <2>2, <4>1, TailOfJoin DEF Dump
    <3>2. CASE Starts(Head(mb))
      <4>1. num = 0 /\ data # <<>> /\ data[1].k = "len" /\ Len(data) > 1
        BY <1>3, <2>1, <3>2 DEF Starts
      <4>2. Saved = AfterNewline(data) /\ CastHead(Head(mb)) = data
        BY <1>1, <1>3, <4>1 DEF Saved, Save, CastHead
      <4>3. PICK all \in Seq(Unit) : all = data \o net
        BY <2>2, JoinUnits
      <4>4. Underway(all)
        BY <1>2, <4>2, <4>3 DEF Course, Carried
      <4>5. PICK at \in Nat : Synced(all, at)
        BY <2>1, <4>4 DEF Underway, Receives, Loads
      <4>6. PICK n \in Nat : n = Len(data) /\ n > 1
        BY <4>1
      <4>7. all # <<>> /\ all[1] = data[1]
        BY <2>2, <4>1, <4>3, TailOfJoin
      <4>8. all[2] = data[2]
        <5>1. 2 \in 1 .. Len(data)
          BY <4>6
        <5> QED BY <2>2, <4>3, <5>1, JoinUnits
      <4>9. all[2].k = "magic"
        <5>1. TypeOK /\ mphase # "none"
          BY DEF IInv, Course, Peer
        <5> QED BY <4>1, <4>5, <4>7, <5>1, WholeRead
      <4>10. PICK cut \in Seq(Unit) :
                /\ cut = AfterNewline(data) /\ Len(cut) = n - 1
                /\ \A i \in 1 .. n - 1 : cut[i] = data[i + 1]
        BY <4>1, <4>6, LenDropped
      <4>11. Len(cut) # 0 /\ cut[1] = data[2]
        <5>1. 1 \in 1 .. n - 1 /\ 1 + 1 = 2 /\ n - 1 # 0
          BY <4>6
        <5>2. cut[1] = data[1 + 1]
          BY <4>10, <5>1
        <5> QED BY <4>10, <5>1, <5>2
      <4> QED BY <4>2, <4>8, <4>9, <4>10, <4>11 DEF Dump
    <3> QED BY <1>4, <3>1, <3>2
  <2>4. PiecesOK'
    BY <1>1, <1>2, <2>1, <2>3 DEF PiecesOK, NoneOf, Dump
  <2> QED BY <1>1, <2>1, <2>4 DEF AnswerOK, SavesOK
<1>6. CASE SavePayload
  <2> DEFINE m == Plain("load_rdb")
  <2>1. Continue(<<m>>) /\ state = "payload"
    BY <1>6 DEF SavePayload
  <2>2. m \in Message /\ m.t = "load_rdb"
    BY PlainMessage DEF Casts
  <2> HIDE DEF m
  <2>3. \A i \in DOMAIN mb' : mb'[i].t \in Casts => mb'[i] = m
    BY <1>1, <1>2, <2>1, <2>2, CastBehind DEF IInv
  <2>4. \A i \in DOMAIN mb' : mb'[i].t # "save_rdb"
    BY <2>2, <2>3 DEF Casts
  <2>5. SavesOK'
    BY <1>1, <1>4, <2>1, <2>4 DEF SavesOK
  <2> QED BY <2>1, <2>5 DEF AnswerOK, PiecesOK, Continue
<1> QED BY <1>5, <1>6

LEMMA ParcelNext ==
    ASSUME ~Fragment, "keepalive" \notin Faults
    PROVE  IInv /\ IInv' /\ Course /\ Course' /\ Parcel /\ [Next]_vars => Parcel'
<1> SUFFICES ASSUME IInv, IInv', Course, Course', Parcel, [Next]_vars PROVE Parcel'
  OBVIOUS
<1>1. CASE UNCHANGED vars
  <2>1. UNCHANGED serverVars /\ peerOpen' = peerOpen /\ mphase' = mphase /\ net' = net
    BY <1>1 DEF vars, masterVars
  <2>2. mode # "psync" /\ peerOpen /\ where = "reply" /\ state = "load" /\ NoneOf(mb, {"tcp"})
             => (mphase = "online" => net # <<>>) /\ (net # <<>> => Opens(net))
    BY DEF Parcel, AnswerOK
  <2> QED BY <2>1, <2>2, ParcelServer
<1>2. CASE Master \/ (World /\ ~(DeliverError \/ DiskFailed \/ Disturb \/ Killed))
  <2>1. MasterSteps /\ UNCHANGED serverVars
    BY <1>2 DEF Master, World, MasterSteps, Unserved
  <2> QED BY <2>1, ParcelMaster
<1>3. CASE DeliverData
  BY <1>3, ParcelData
<1>4. CASE DeliverClosed \/ DeliverError
  BY <1>4 DEF DeliverClosed, DeliverError, masterVars, Parcel
<1>5. CASE Disturb
  <2>1. PICK type \in {"shutdown", "noise"} : mb' = Append(mb, Plain(type))
    BY <1>5 DEF Disturb
  <2>2. PICK m : m = Plain(type)
    OBVIOUS
  <2>3. m \in Message /\ m.t = type
    BY <2>2, MakePlain DEF OtherMsgs, Plain, Msg
  <2>4. UNCHANGED <<where, state, mode, file, net, mphase, peerOpen>>
    BY <1>5 DEF Disturb, stateVars
  <2> QED BY <2>1, <2>2, <2>3, <2>4, ParcelAdd
<1>6. CASE CastPsync \/ CastSync \/ CastPsyncPayload
  BY <1>6, ParcelAsk
<1>7. CASE RecvFullResync
  BY <1>7, ParcelFullResync
<1>8. CASE RecvBulk \/ SaveBuffering \/ SavePayload
  BY <1>8, ParcelBulk, ParcelSave
<1>9. CASE InfoLoading \/ InfoLoadingEof \/ Generic
  <2>1. /\ where = "idle" /\ where' = "idle" /\ mb # <<>> /\ mb' = Tail(mb) \o <<>>
        /\ UNCHANGED <<state, mode, file, peerOpen>>
    BY <1>9 DEF InfoLoading, InfoLoadingEof, Generic, Handles, Continue, masterVars, stateVars
  <2>2. Tail(mb) \o <<>> = Tail(mb)
    <3>1. Tail(mb) \in Seq(Message)
      BY <2>1, HeadParts DEF IInv
    <3> QED BY <3>1
  <2> QED BY <2>1, <2>2, ParcelDrop
<1>10. CASE \/ Start \/ Boot \/ BootRefused \/ BootAuthOk \/ BootPong \/ BootLoading \/ BootFailed
            \/ CastRepl \/ CastCapa \/ CastRst \/ RecvPort \/ RecvCapa \/ RecvContinue \/ RecvFailed
            \/ LoadRdb \/ LoadFailed \/ CastReplication
            \/ InfoTcpQuiet \/ InfoTcpBuffer \/ InfoTcpCommands \/ InfoTcpFailed \/ InfoTimeout
            \/ InfoTcpClosed \/ InfoTcpError \/ Reconnect \/ ReconnectRefused \/ ReAuthOk
            \/ ReAuthThrows \/ RePong \/ ReconnectFailed \/ CallShutdown \/ DiskFailed \/ Killed
  BY <1>10, ParcelOther
<1> QED BY <1>1, <1>2, <1>3, <1>4, <1>5, <1>6, <1>7, <1>8, <1>9, <1>10 DEF Next, World, Handler

LEMMA ParcelInit == Init => Parcel
BY DEF Init, Parcel, AnswerOK, PiecesOK, SavesOK

\* The snapshot that answers SYNC is loaded: whatever its size, and however many
\* pieces it fills the read buffer with, what rdb:save/3 has put together is a whole
\* dump when load_rdb is handled (handle_recv/2, rdb:save/3).  It takes reads that are
\* not cut short, a master that does not keep the connection alive with newlines
\* before its payload, and SYNC: a payload that is read together with the +FULLRESYNC
\* line is dropped.
THEOREM ReceivedLoads ==
    ~Fragment /\ "keepalive" \notin Faults => (Spec => []PayloadLoads)
<1> SUFFICES ASSUME ~Fragment, "keepalive" \notin Faults
             PROVE  Spec => []PayloadLoads
  OBVIOUS
<1>1. Init => Parcel
  BY ParcelInit
<1>2. IInv /\ IInv' /\ Course /\ Course' /\ Parcel /\ [Next]_vars => Parcel'
  BY ParcelNext
<1>3. IInv /\ Parcel => PayloadLoads
  <2> SUFFICES ASSUME IInv, Parcel, mode # "psync", where = "idle", mb # <<>>, Head(mb).t = "load_rdb", peerOpen
               PROVE  Loadable(file)
    BY DEF PayloadLoads
  <2>1. Head(mb) = mb[1] /\ 1 \in DOMAIN mb
    BY TailMessages DEF IInv, TypeOK, ServerTypeOK
  <2> QED BY <2>1 DEF Parcel, SavesOK
<1> QED BY <1>1, <1>2, <1>3, Protocol, InCourse, PTL DEF Spec

-----------------------------------------------------------------------------
(* The callback's promise, kept step by step.                               *)

\* Some key, or the end of the snapshot, is still in the mailbox.
LEMMA QueuedStill ==
    ASSUME NEW box \in Seq(Message),
           NEW first \in Nat \ {0}, NEW done \in Nat, NEW left \in Nat, NEW at \in Nat,
           Queued(box, first, done, left, at)
    PROVE  ~NoneOf(box, Keys)
<1>1. first + left + 1 \in 1 .. Len(box) /\ EofMsg(box[first + left], done + left, at)
  BY DEF Queued
<1>2. first + left \in DOMAIN box
  BY <1>1
<1> QED BY <1>1, <1>2 DEF EofMsg, NoneOf, Keys

LEMMA PhaseRest == ASSUME where # "down", NoneOf(mb, Keys) PROVE Phase = "rest"
BY DEF Phase, Keys

LEMMA PhaseFeeding == ASSUME IInv, Feeding PROVE Phase = "snapshot" /\ where = "idle"
<1>1. ~NoneOf(mb, Keys)
  BY QueuedStill DEF Feeding, IInv, TypeOK, ServerTypeOK
<1> QED BY <1>1 DEF Phase, Keys, Feeding, Silent

LEMMA PhaseFeedingNext == ASSUME IInv', Feeding' PROVE Phase' = "snapshot"
<1>1. PICK first \in Nat \ {0}, done \in Nat, left \in Nat, at \in Nat :
              Queued(mb', first, done, left, at)
  BY DEF Feeding
<1>2. PICK box \in Seq(Message) : box = mb'
  BY DEF IInv, TypeOK, ServerTypeOK
<1>3. ~NoneOf(box, Keys)
  BY <1>1, <1>2, QueuedStill
<1>4. where' = "idle"
  BY DEF Feeding, Silent
<1> QED BY <1>2, <1>3, <1>4 DEF Phase, Keys, NoneOf

\* The last event tells whether keys have been told that are not ended yet.
LEMMA KeysOpen ==
    ASSUME events \in Seq(Event), NEW done \in Nat, NEW at \in Nat, EndsWith(events, done, at)
    PROVE  /\ Feed!Open <=> done > 0
           /\ done > 0 => Feed!Last.n = done /\ Feed!Last.r = at
<1>1. Len(events) \in Nat /\ (events = <<>> <=> Len(events) = 0)
  OBVIOUS
<1>2. CASE done > 0
  <2>1. done \in 1 .. done /\ Len(events) - done + done = Len(events) /\ Len(events) # 0
    BY <1>1, <1>2 DEF EndsWith
  <2>2. events[Len(events)] = KeyEvent(done, at)
    BY <2>1 DEF EndsWith
  <2> QED BY <1>1, <1>2, <2>1, <2>2, EventParts DEF Feed!Open, Feed!Last
<1>3. CASE done = 0
  <2>1. Len(events) # 0 => 0 < Len(events) /\ Len(events) - 0 = Len(events)
    BY <1>1
  <2>2. Len(events) # 0 => events[Len(events)].ev # "loading"
    BY <1>3, <2>1 DEF EndsWith
  <2> QED BY <1>1, <1>3, <2>2 DEF Feed!Open, Feed!Last
<1> QED BY <1>2, <1>3

LEMMA AddedIs ==
    ASSUME events \in Seq(Event), NEW event \in Event, events' = Append(events, event)
    PROVE  event \in Feed!Added
<1>1. /\ Len(events) \in Nat /\ Len(events') = Len(events) + 1 /\ events'[Len(events) + 1] = event
  BY AddEvent
<1>2. Len(events) + 1 \in Len(events) + 1 .. Len(events')
  BY <1>1
<1> QED BY <1>1, <1>2 DEF Feed!Added

LEMMA FeedKey == ASSUME IInv, IInv', Story, Feeding, InfoLoading PROVE Feed!Key
<1>1. /\ mb \in Seq(Message) /\ mb # <<>> /\ Head(mb) = mb[1]
  BY FeedingHead
<1>2. /\ Head(mb).t = "loading" /\ where' = "idle" /\ mb' = Tail(mb) \o <<>> /\ tainted' = tainted
      /\ events' = Append(events, KeyEvent(Head(mb).n, Head(mb).data[1].r))
  BY DEF InfoLoading, Handles, Continue, KeyEvent
<1>3. PICK first \in Nat \ {0}, done \in Nat, left \in Nat, at \in Nat :
              Queued(mb, first, done, left, at) /\ EndsWith(events, done, at)
  BY DEF Feeding
<1>4. PICK box \in Seq(Message) : box = mb
  BY <1>1
<1>5. /\ KeyMsg(box[1], done + 1, at) /\ left - 1 \in Nat
      /\ Queued(Tail(box), 1, done + 1, left - 1, at)
  BY <1>1, <1>2, <1>3, <1>4, QueuedKey
<1>6. mb' = Tail(box) /\ Tail(box) \in Seq(Message)
  <2>1. Tail(box) \in Seq(Message)
    BY <1>1, <1>4, TakeMessage
  <2>2. Tail(box) \o <<>> = Tail(box)
    BY <2>1
  <2> QED BY <1>2, <1>4, <2>1, <2>2
<1>7. Phase = "snapshot" /\ Phase' = "snapshot"
  <2>1. 1 \in Nat \ {0} /\ done + 1 \in Nat
    OBVIOUS
  <2>2. ~NoneOf(mb', Keys)
    BY <1>5, <1>6, <2>1, QueuedStill
  <2>3. Phase' = "snapshot"
    BY <1>2, <2>2 DEF Phase, Keys, NoneOf
  <2> QED BY <2>3, PhaseFeeding
<1> DEFINE key == KeyEvent(done + 1, at)
<1>8. events' = Append(events, key)
  BY <1>1, <1>2, <1>4, <1>5 DEF KeyMsg
<1>9. key \in Event /\ key.ev = "loading" /\ key.n = done + 1 /\ key.r = at
  BY DEF KeyEvent, Event
<1>10. events \in Seq(Event)
  BY DEF Story
<1> HIDE DEF key
<1>11. key \in Feed!Added
  BY <1>8, <1>9, <1>10, AddedIs
<1>12. /\ Feed!Open => key.n = Feed!Last.n + 1 /\ key.r = Feed!Last.r
       /\ ~Feed!Open => key.n = 1
  BY <1>3, <1>9, <1>10, KeysOpen
<1> QED BY <1>2, <1>7, <1>8, <1>9, <1>11, <1>12 DEF Feed!Key

LEMMA FeedEof == ASSUME IInv, Story, Feeding, InfoLoadingEof PROVE Feed!Eof
<1>1. /\ mb \in Seq(Message) /\ mb # <<>> /\ Head(mb) = mb[1]
  BY FeedingHead
<1>2. /\ Head(mb).t = "loading_eof" /\ where' = "idle" /\ mb' = Tail(mb) \o <<>> /\ tainted' = tainted
      /\ events' = Append(events, EofEvent(Head(mb).data[1].n, Head(mb).data[1].r))
  BY DEF InfoLoadingEof, Handles, Continue, EofEvent
<1>3. PICK first \in Nat \ {0}, done \in Nat, left \in Nat, at \in Nat :
              Queued(mb, first, done, left, at) /\ EndsWith(events, done, at)
  BY DEF Feeding
<1>4. PICK box \in Seq(Message) : box = mb
  BY <1>1
<1>5. EofMsg(box[1], done, at) /\ NoneOf(Tail(box), Keys)
  BY <1>1, <1>2, <1>3, <1>4, QueuedEof
<1>6. mb' = Tail(box)
  <2>1. Tail(box) \in Seq(Message)
    BY <1>1, <1>4, TakeMessage
  <2>2. Tail(box) \o <<>> = Tail(box)
    BY <2>1
  <2> QED BY <1>2, <1>4, <2>2
<1>7. Phase = "snapshot" /\ Phase' = "rest"
  <2>1. Phase' = "rest"
    BY <1>2, <1>5, <1>6 DEF Phase, Keys, NoneOf
  <2> QED BY <2>1, PhaseFeeding
<1> DEFINE eof == EofEvent(done, at)
<1>8. events' = Append(events, eof)
  BY <1>1, <1>2, <1>4, <1>5 DEF EofMsg
<1>9. eof \in Event /\ eof.ev = "eof" /\ eof.n = done /\ eof.r = at
  BY DEF EofEvent, Event
<1>10. events \in Seq(Event)
  BY DEF Story
<1> HIDE DEF eof
<1>11. eof \in Feed!Added
  BY <1>8, <1>9, <1>10, AddedIs
<1>12. /\ Feed!Open => eof.n = Feed!Last.n /\ eof.r = Feed!Last.r
       /\ ~Feed!Open => eof.n = 0
  BY <1>3, <1>9, <1>10, KeysOpen
<1> QED BY <1>2, <1>7, <1>8, <1>9, <1>11, <1>12 DEF Feed!Eof

\* The commands of a read, after damage or not.
LEMMA FeedCommands ==
    ASSUME IInv, Course, Story, Rested, InfoTcpCommands
    PROVE  Feed!Commands \/ Feed!Garbled
<1>1. /\ where = "idle" /\ where' = "idle" /\ mb # <<>> /\ mb' = Tail(mb) /\ tainted' = tainted
      /\ events' = events \o StreamEvents(Commands(Joined))
  BY DEF InfoTcpCommands, InfoTcp, Handles
<1>2. Phase = "rest" /\ Phase' = "rest"
  <2>1. NoneOf(mb, Keys) /\ NoneOf(mb', Keys)
    BY <1>1, KeylessTail DEF IInv, Rested
  <2> QED BY <1>1, <2>1 DEF Phase, Keys, NoneOf
<1>3. PICK more \in Seq(Event) :
              /\ events' = events \o more /\ events' \in Seq(Event) /\ events # <<>>
              /\ Len(more) = Len(Commands(Joined))
              /\ \A i \in 1 .. Len(more) : more[i].ev = "stream" /\ more[i].n = Commands(Joined)[i]
  BY CommandsAdd
<1>4. events \in Seq(Event) /\ Len(events) \in Nat /\ Len(more) \in Nat
  BY DEF Story
<1>5. /\ Len(events') = Len(events) + Len(more)
      /\ DOMAIN events = 1 .. Len(events) /\ DOMAIN events' = 1 .. Len(events) + Len(more)
      /\ \A i \in 1 .. Len(events) : events'[i] = events[i]
      /\ \A i \in 1 .. Len(more) : events'[Len(events) + i] = more[i]
  <2>1. PICK a \in Seq(Event), b \in Seq(Event) : a = events /\ b = more /\ events' = a \o b
    BY <1>3, <1>4
  <2>2. /\ Len(a \o b) = Len(a) + Len(b) /\ DOMAIN (a \o b) = 1 .. Len(a) + Len(b)
        /\ \A i \in 1 .. Len(a) : (a \o b)[i] = a[i]
        /\ \A i \in 1 .. Len(b) : (a \o b)[Len(a) + i] = b[i]
    BY JoinEvents
  <2>3. DOMAIN a = 1 .. Len(a)
    OBVIOUS
  <2> QED BY <2>1, <2>2, <2>3
<1>6. ~Feed!Open
  BY <1>3 DEF Feed!Open, Feed!Last, Rested, Latest
<1>7. CASE tainted # {}
  <2>1. \A i \in DOMAIN events : i \in DOMAIN events' /\ events'[i] = events[i]
    BY <1>4, <1>5
  <2>2. ASSUME NEW event \in Feed!Added PROVE event.ev = "stream"
    <3>1. PICK i \in Len(events) + 1 .. Len(events') : event = events'[i]
      BY DEF Feed!Added
    <3>2. PICK j \in 1 .. Len(more) : i = Len(events) + j
      <4>1. i - Len(events) \in 1 .. Len(more) /\ i = Len(events) + (i - Len(events))
        BY <1>4, <1>5, <3>1
      <4> QED BY <4>1
    <3> QED BY <1>3, <1>5, <3>1, <3>2
  <2> QED BY <1>1, <1>2, <1>3, <1>6, <1>7, <2>1, <2>2 DEF Feed!Garbled
<1>8. CASE tainted = {}
  <2>1. PICK c \in Nat, k \in Nat \ {0} :
              fed = CmdUnits * c /\ Commands(Joined) = Counting(c, k)
    BY <1>8, CommandsTold
  <2>2. Len(Counting(c, k)) = k /\ \A j \in 1 .. k : Counting(c, k)[j] = c + j
    BY CountOn
  <2>3. fed = Feed!Reached
    BY <1>3, <1>8 DEF Feed!Reached, Feed!Last, Rested, Latest
  <2>4. Feed!Reached % CmdUnits = 0 /\ Feed!Reached \div CmdUnits = c
    <3>1. (3 * c) % 3 = 0 /\ (3 * c) \div 3 = c
      OBVIOUS
    <3> QED BY <2>1, <2>3, <3>1 DEF CmdUnits
  <2>5. Feed!More = k
    BY <1>3, <1>4, <1>5, <2>1, <2>2 DEF Feed!More
  <2>6. StreamEvents(Commands(Joined)) = [i \in 1 .. k |-> [ev |-> "stream", n |-> c + i, r |-> 0]]
    <3>1. StreamEvents(Commands(Joined))
             = [i \in 1 .. k |-> [ev |-> "stream", n |-> Counting(c, k)[i], r |-> 0]]
      BY <2>1, <2>2 DEF StreamEvents
    <3> QED BY <2>2, <3>1
  <2>7. events' = events \o [i \in 1 .. Feed!More |->
                        [ev |-> "stream", n |-> Feed!Reached \div CmdUnits + i, r |-> 0]]
    BY <1>1, <2>4, <2>5, <2>6
  <2> QED BY <1>1, <1>2, <1>3, <1>6, <1>8, <2>4, <2>7 DEF Feed!Commands
<1> QED BY <1>7, <1>8

\* Only three steps say that something is lost, or no longer.
LEMMA TaintSame ==
    ASSUME [Next]_vars, ~(LoadRdb \/ RePong \/ Start)
    PROVE  tainted' = tainted
<1>1. CASE UNCHANGED vars
  BY <1>1 DEF vars, serverVars, ghostVars
<1>2. CASE Master \/ (World /\ ~(DeliverError \/ DiskFailed \/ Disturb \/ Killed))
  <2>1. UNCHANGED serverVars
    BY <1>2 DEF Master, World, Unserved
  <2> QED BY <2>1 DEF serverVars, ghostVars
<1>3. CASE \/ BootRefused \/ BootFailed \/ RecvFailed \/ LoadFailed \/ InfoTcpFailed \/ InfoTcpError
           \/ ReconnectFailed \/ CallShutdown \/ DiskFailed \/ Killed
  BY <1>3 DEF BootRefused, BootFailed, RecvFailed, LoadFailed, InfoTcpFailed, InfoTcpError,
              ReconnectFailed, CallShutdown, DiskFailed, Killed, Stop, Die, ghostVars
<1>4. CASE DeliverData \/ DeliverClosed \/ DeliverError \/ Disturb \/ InfoTimeout
  BY <1>4 DEF DeliverData, DeliverClosed, DeliverError, Deliver, Disturb, InfoTimeout, ghostVars
<1>5. CASE \/ CastRepl \/ CastCapa \/ CastPsync \/ CastSync \/ CastPsyncPayload \/ RecvPort
  BY <1>5 DEF CastRepl, CastCapa, CastPsync, CastSync, CastPsyncPayload, RecvPort, AskOrFail, Ask,
              Stop, Die, ghostVars
<1>6. CASE \/ Boot \/ BootAuthOk \/ BootPong \/ BootLoading \/ CastRst
           \/ RecvCapa \/ RecvContinue \/ RecvFullResync \/ RecvBulk
  BY <1>6 DEF Boot, BootAuthOk, BootPong, BootLoading, CastRst, RecvCapa, RecvContinue,
              RecvFullResync, RecvBulk, ghostVars
<1>7. CASE SaveBuffering \/ SavePayload \/ InfoLoading \/ InfoLoadingEof \/ CastReplication \/ Generic
  BY <1>7 DEF SaveBuffering, SavePayload, InfoLoading, InfoLoadingEof, CastReplication, Generic,
              ghostVars
<1>8. CASE InfoTcpQuiet \/ InfoTcpBuffer \/ InfoTcpCommands \/ InfoTcpClosed
  BY <1>8 DEF InfoTcpQuiet, InfoTcpBuffer, InfoTcpCommands, InfoTcp, InfoTcpClosed, ghostVars
<1>9. CASE Reconnect \/ ReconnectRefused \/ ReAuthOk \/ ReAuthThrows
  BY <1>9 DEF Reconnect, ReconnectRefused, Retry, ReAuthOk, ReAuthThrows, ghostVars
<1> QED BY <1>1, <1>2, <1>3, <1>4, <1>5, <1>6, <1>7, <1>8, <1>9 DEF Next, Handler, World

\* Only the load of a snapshot puts keys in the mailbox.
LEMMA StaysRested ==
    ASSUME IInv, Course, Story, Story', Rested, where # "down", where' # "down",
           [Next]_vars, ~LoadRdb
    PROVE  NoneOf(mb', Keys)
<1>1. CASE mb' = mb
  BY <1>1 DEF Rested
<1>2. CASE mb # <<>> /\ mb' = Tail(mb)
  BY <1>2, KeylessTail DEF IInv, Rested
<1>3. CASE DeliverData \/ DeliverClosed \/ DeliverError \/ Disturb
  BY <1>3, AddsOne, AddOther DEF IInv, TypeOK, ServerTypeOK, Rested
<1>4. CASE where' # "idle" \/ state' # "stream"
  BY <1>4 DEF Story, Rested, Feeding, Silent
<1>5. CASE UNCHANGED vars \/ Master \/ (World /\ ~(DeliverError \/ DiskFailed \/ Disturb \/ Killed))
  <2>1. UNCHANGED serverVars
    BY <1>5 DEF vars, Master, World, Unserved
  <2> QED BY <1>1, <2>1 DEF serverVars, procVars
<1>6. CASE \/ BootRefused \/ BootFailed \/ RecvFailed \/ LoadFailed \/ InfoTcpFailed \/ InfoTcpError
           \/ ReconnectFailed \/ CallShutdown \/ DiskFailed \/ Killed
  BY <1>6 DEF BootRefused, BootFailed, RecvFailed, LoadFailed, InfoTcpFailed, InfoTcpError,
              ReconnectFailed, CallShutdown, DiskFailed, Killed, Stop, Die
<1>7. CASE InfoTimeout \/ Boot \/ Start
  BY <1>1, <1>7 DEF InfoTimeout, Boot, Start, procVars
<1>8. CASE \/ BootAuthOk \/ BootLoading \/ SaveBuffering \/ Reconnect \/ ReAuthOk \/ CastReplication
           \/ Generic \/ InfoTcpQuiet \/ InfoTcpBuffer \/ InfoTcpCommands
  <2>1. mb # <<>> /\ (mb' = Tail(mb) \/ mb' = Tail(mb) \o <<>>)
    BY <1>8 DEF BootAuthOk, BootLoading, SaveBuffering, Reconnect, ReAuthOk, CastReplication,
                Generic, InfoTcpQuiet, InfoTcpBuffer, InfoTcpCommands, InfoTcp, Received, Handles,
                Continue
  <2>2. Tail(mb) \o <<>> = Tail(mb)
    BY <2>1, HeadParts DEF IInv
  <2> QED BY <1>2, <2>1, <2>2
<1>9. CASE CastRepl \/ CastCapa \/ CastPsync \/ CastSync \/ CastPsyncPayload
  BY <1>2, <1>9 DEF CastRepl, CastCapa, CastPsync, CastSync, CastPsyncPayload, AskOrFail, Ask,
                    Handles, Stop, Die
<1>10. CASE \/ BootPong \/ CastRst \/ RecvPort \/ RecvCapa \/ RecvFullResync \/ RecvBulk \/ SavePayload
            \/ ReconnectRefused \/ ReAuthThrows \/ RePong \/ InfoTcpClosed
  <2>1. state' # "stream"
    BY <1>10 DEF BootPong, CastRst, RecvPort, RecvCapa, RecvFullResync, RecvBulk, SavePayload,
                 ReconnectRefused, ReAuthThrows, RePong, InfoTcpClosed, Retry, stateVars
  <2> QED BY <1>4, <2>1
<1>11. CASE RecvContinue
  BY <1>11, ContinueKeyless
<1>12. CASE InfoLoading \/ InfoLoadingEof
  <2>1. mb # <<>> /\ Head(mb).t \in Keys
    BY <1>12 DEF InfoLoading, InfoLoadingEof, Handles, Keys
  <2> QED BY <2>1, KeylessTail DEF IInv, Rested
<1> QED
  BY <1>3, <1>5, <1>6, <1>7, <1>8, <1>9, <1>10, <1>11, <1>12 DEF Next, Handler, World

\* They stay there until they are told.
LEMMA StaysFeeding ==
    ASSUME IInv, Feeding, where' # "down", [Next]_vars, ~InfoLoading, ~InfoLoadingEof
    PROVE  ~NoneOf(mb', Keys)
<1>1. PICK box \in Seq(Message) : box = mb /\ box # <<>> /\ ~NoneOf(box, Keys)
  BY FeedingHead, QueuedStill DEF Feeding
<1>2. CASE UNCHANGED vars \/ Master \/ (World /\ ~(DeliverError \/ DiskFailed \/ Disturb \/ Killed))
  <2>1. UNCHANGED serverVars
    BY <1>2 DEF vars, Master, World, Unserved
  <2> QED BY <1>1, <2>1 DEF serverVars, procVars
<1>3. CASE DeliverData \/ DeliverClosed \/ DeliverError \/ Disturb
  <2>1. PICK m \in Message : mb' = Append(box, m)
    BY <1>1, <1>3, AddsOne
  <2> QED BY <1>1, <2>1, AddOne DEF NoneOf
<1>4. CASE DiskFailed \/ Killed \/ CallShutdown
  BY <1>4 DEF DiskFailed, Killed, CallShutdown, Stop, Die
<1>5. CASE Start
  BY <1>5, PhaseFeeding DEF Start
<1>6. CASE Generic
  <2>1. Head(box).t \notin Keys /\ mb' = Tail(box) \o <<>>
    BY <1>1, <1>6 DEF Generic, Expected, ExpectedCast, ExpectedInfo, Keys, Continue
  <2>2. Tail(box) \o <<>> = Tail(box)
    BY <1>1, TakeMessage
  <2> QED BY <1>1, <2>1, <2>2, TailSome
<1> QED BY <1>2, <1>3, <1>4, <1>5, <1>6, FeedingActs DEF Next, World

LEMMA FeedLoad == ASSUME IInv, IInv', Course, Story, Rested, LoadRdb PROVE Feed!Load
<1>1. where = "idle" /\ events' = events
  BY DEF LoadRdb, Handles
<1>2. Phase = "rest"
  BY <1>1, PhaseRest DEF Rested
<1>3. Phase' = "snapshot"
  BY StoryLoad, PhaseFeedingNext
<1> QED BY <1>1, <1>2, <1>3 DEF Feed!Load

\* A step of the system is one of the callback's, or none that it could notice.
LEMMA FeedStep ==
    ASSUME IInv, IInv', Course, Story, Story', [Next]_vars
    PROVE  [Feed!Next]_Feed!vars
<1> DEFINE Others == ~\/ LoadRdb \/ RePong \/ Start \/ InfoTcpCommands \/ InfoLoading \/ InfoLoadingEof
<1>1. Others => events' = events /\ tainted' = tainted
  BY EventsSame, TaintSame
<1>2. Others /\ Phase' = Phase => UNCHANGED Feed!vars
  BY <1>1 DEF Feed!vars
<1>3. CASE Start
  <2>1. where = "down" /\ where' = "boot" /\ mb' = mb /\ events' = <<>> /\ tainted' = {}
    BY <1>3 DEF Start
  <2>2. mb = <<>>
    BY <2>1 DEF IInv, PlaceOK
  <2>3. Phase = "down" /\ Phase' = "rest"
    BY <2>1, <2>2 DEF Phase, NoneOf
  <2> QED BY <2>1, <2>3 DEF Feed!Start, Feed!Next
<1>4. CASE where = "down" /\ ~Start
  <2>1. ~(Handler \/ InfoTimeout \/ Disturb)
    BY <1>4, DownActs
  <2>2. Others
    BY <1>4, <2>1 DEF Handler
  <2>3. where' = "down"
    <3>1. CASE UNCHANGED vars \/ Master \/ (World /\ ~(DeliverError \/ DiskFailed \/ Disturb \/ Killed))
      <4>1. UNCHANGED serverVars
        BY <3>1 DEF vars, Master, World, Unserved
      <4> QED BY <1>4, <4>1 DEF serverVars, procVars
    <3>2. CASE DeliverData \/ DeliverClosed \/ DeliverError
      BY <1>4, <3>2 DEF DeliverData, DeliverClosed, DeliverError, Deliver
    <3>3. CASE DiskFailed \/ Killed
      BY <3>3 DEF DiskFailed, Killed, Die
    <3> QED BY <1>4, <2>1, <3>1, <3>2, <3>3 DEF Next, World
  <2> QED BY <1>2, <1>4, <2>2, <2>3 DEF Phase
<1>5. CASE where # "down" /\ where' = "down"
  <2>1. Others
    BY <1>5 DEF LoadRdb, RePong, Start, InfoTcpCommands, InfoTcp, InfoLoading, InfoLoadingEof, Continue
  <2>2. Phase # "down" /\ Phase' = "down"
    BY <1>5 DEF Phase
  <2> QED BY <1>1, <2>1, <2>2 DEF Feed!End, Feed!Next
<1>6. CASE where # "down" /\ where' # "down" /\ Rested
  <2>1. ~Start /\ ~InfoLoading /\ ~InfoLoadingEof
    <3>1. InfoLoading \/ InfoLoadingEof => mb # <<>> /\ Head(mb).t \in Keys
      BY DEF InfoLoading, InfoLoadingEof, Handles, Keys
    <3>2. mb # <<>> => Head(mb).t \notin Keys
      BY <1>6, KeylessTail DEF IInv, Rested
    <3> QED BY <1>6, <3>1, <3>2 DEF Start
  <2>2. CASE LoadRdb
    BY <1>6, <2>2, FeedLoad DEF Feed!Next
  <2>3. CASE InfoTcpCommands
    BY <1>6, <2>3, FeedCommands DEF Feed!Next
  <2>4. CASE ~LoadRdb
    <3>1. NoneOf(mb', Keys)
      BY <1>6, <2>4, StaysRested
    <3>2. Phase = "rest" /\ Phase' = "rest"
      BY <1>6, <3>1 DEF Phase, Keys, NoneOf, Rested
    <3>3. CASE RePong
      <4>1. events' = events /\ tainted \subseteq tainted'
        BY <3>3 DEF RePong
      <4>2. CASE tainted' # {}
        BY <3>2, <4>1, <4>2 DEF Feed!Damage, Feed!Next
      <4>3. CASE tainted' = {}
        <5>1. tainted = {}
          BY <4>1, <4>3
        <5> QED BY <3>2, <4>1, <4>3, <5>1 DEF Feed!vars
      <4> QED BY <4>2, <4>3
    <3> QED BY <1>2, <2>1, <2>3, <2>4, <3>2, <3>3
  <2> QED BY <2>2, <2>4
<1>7. CASE where # "down" /\ where' # "down" /\ Feeding
  <2>1. ~Start /\ ~LoadRdb /\ ~RePong /\ ~InfoTcpCommands
    <3>1. where = "idle" /\ Head(mb).t \notin Casts /\ Head(mb).t \notin SocketMsgs
      BY <1>7, FeedingHead, PhaseFeeding
    <3> QED BY <3>1 DEF Start, LoadRdb, RePong, InfoTcpCommands, InfoTcp, Handles, Received, Casts,
                        SocketMsgs
  <2>2. CASE InfoLoading
    BY <1>7, <2>2, FeedKey DEF Feed!Next
  <2>3. CASE InfoLoadingEof
    BY <1>7, <2>3, FeedEof DEF Feed!Next
  <2>4. CASE ~InfoLoading /\ ~InfoLoadingEof
    <3>1. ~NoneOf(mb', Keys)
      BY <1>7, <2>4, StaysFeeding
    <3>2. Phase = "snapshot"
      BY <1>7, PhaseFeeding
    <3>3. Phase' = "snapshot"
      BY <1>7, <3>1 DEF Phase, Keys, NoneOf
    <3> QED BY <1>2, <2>1, <2>4, <3>2, <3>3
  <2> QED BY <2>2, <2>3, <2>4
<1> QED BY <1>3, <1>4, <1>5, <1>6, <1>7 DEF Story

\* EslaverServer keeps the promise of CallbackFeed: for every buffer, cut of the reads,
\* number of keys, commands, disturbances and restarts, each step of the server, the
\* master and the connection tells the callback what CallbackFeed allows next, or
\* nothing (handle_info/2 and the casts that lead to its clauses).
THEOREM FeedKept == Spec => FeedsCallback
<1>1. Init => Feed!Init
  BY DEF Init, Phase, Feed!Init
<1>2. IInv /\ IInv' /\ Course /\ Story /\ Story' /\ [Next]_vars => [Feed!Next]_Feed!vars
  BY FeedStep
<1>3. Spec => [](IInv /\ Course /\ Story)
  BY Protocol, InCourse, StoryKept, PTL
<1> QED BY <1>1, <1>2, <1>3, PTL DEF Spec, FeedsCallback, Feed!Spec

=============================================================================
