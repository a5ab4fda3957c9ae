---------------------------- MODULE SupervisionProofs ----------------------------
(***************************************************************************)
(* The supervisor gives up exactly after a burst, the heartbeat is in      *)
(* time, and a socket is left open at most once for each sleep: for every  *)
(* restart intensity, timeout and length of the run.                       *)
(***************************************************************************)
EXTENDS Supervision, SequenceTheorems, TLAPS

-------------------------------------------------------------------------------
(* Types                                                                    *)

LEMMA TypeInit == Init => TypeOK
BY DEF Init, TypeOK, Places

LEMMA EndType ==
    ASSUME TypeOK, End
    PROVE  TypeOK'
<1>1. ends' \in Seq(Nat)
  BY DEF TypeOK, End
<1>2. sup' \in {"up", "down"}
  BY DEF TypeOK, End
<1> QED BY <1>1, <1>2 DEF TypeOK, End, Places

\* The steps of the process that do not end it.
Moves == Connect \/ Awake \/ Pong \/ Streams \/ Data \/ Heartbeat \/ LostStream
         \/ (Loading /\ boot) \/ (Refused /\ ~boot)

LEMMA MoveType ==
    ASSUME TypeOK, PlaceOK, Moves
    PROVE  TypeOK'
<1> USE SupervisionAssumption DEF TypeOK, Places, GoTo
<1>1. CASE Connect BY <1>1 DEF Connect
<1>2. CASE Awake BY <1>2 DEF Awake
<1>3. CASE Pong BY <1>3 DEF Pong
<1>4. CASE Streams BY <1>4 DEF Streams
<1>5. CASE Data BY <1>5 DEF Data
<1>6. CASE Heartbeat BY <1>6 DEF Heartbeat
<1>7. CASE LostStream BY <1>7 DEF LostStream, PlaceOK
<1>8. CASE Loading /\ boot BY <1>8 DEF Loading
<1>9. CASE Refused /\ ~boot BY <1>9 DEF Refused
<1> QED BY <1>1, <1>2, <1>3, <1>4, <1>5, <1>6, <1>7, <1>8, <1>9 DEF Moves

\* What is remembered at a restart: its own time, then the latest restarts before it.
LEMMA Remembered ==
    ASSUME NEW n \in 0 .. Len(recent), recent \in Seq(Nat), now \in Nat,
           NEW times, times = <<now>> \o SubSeq(recent, 1, n)
    PROVE  /\ times \in Seq(Nat) /\ Len(times) = n + 1
           /\ times[1] = now
           /\ \A k \in 2 .. n + 1 : times[k] = recent[k - 1]
<1> DEFINE old == SubSeq(recent, 1, n)
<1>1. \A i \in 1 .. n : recent[i] \in Nat
  OBVIOUS
<1>2. old \in Seq(Nat) /\ Len(old) = n /\ \A i \in 1 .. n : old[i] = recent[i]
  BY <1>1, SubSeqProperties
<1>3. <<now>> \in Seq(Nat) /\ Len(<<now>>) = 1 /\ <<now>>[1] = now
  OBVIOUS
<1> HIDE DEF old
<1>4. /\ <<now>> \o old \in Seq(Nat) /\ Len(<<now>> \o old) = n + 1
      /\ \A i \in 1 .. 1 + n : (<<now>> \o old)[i] = IF i <= 1 THEN <<now>>[i] ELSE old[i - 1]
  BY <1>2, <1>3, ConcatProperties
<1> QED BY <1>2, <1>3, <1>4 DEF old

LEMMA RestartType ==
    ASSUME TypeOK, Restart
    PROVE  TypeOK'
<1>1. PICK n \in 0 .. Len(recent) :
        /\ recent' = <<now>> \o SubSeq(recent, 1, n)
        /\ IF n >= MaxR
           THEN sup' = "down" /\ UNCHANGED <<procVars, joined>>
           ELSE /\ proc' = "connect" /\ boot' = TRUE /\ due' = now /\ sockets' = 0 /\ joined' = now
                /\ UNCHANGED sup
  BY DEF Restart
<1>2. recent' \in Seq(Nat)
  BY <1>1, Remembered DEF TypeOK
<1>3. UNCHANGED <<now, master, heard, acked, ends>>
  BY DEF Restart
<1>4. CASE n >= MaxR
  <2>1. sup' = "down" /\ proc' = proc /\ boot' = boot /\ due' = due /\ sockets' = sockets /\ joined' = joined
    BY <1>1, <1>4 DEF procVars
  <2> QED BY <1>2, <1>3, <2>1 DEF TypeOK
<1>5. CASE ~(n >= MaxR)
  BY <1>1, <1>2, <1>3, <1>5 DEF TypeOK, Places
<1> QED BY <1>4, <1>5

\* Time and the master.
Outside == Tick \/ \E m \in {"up", "loading", "refusing", "silent"} : MasterBecomes(m)

LEMMA OutsideType ==
    ASSUME TypeOK, Outside
    PROVE  TypeOK'
<1>1. CASE Tick
  BY <1>1 DEF Tick, TypeOK, procVars, historyVars
<1>2. CASE \E m \in {"up", "loading", "refusing", "silent"} : MasterBecomes(m)
  BY <1>2 DEF MasterBecomes, TypeOK, procVars, historyVars
<1> QED BY <1>1, <1>2 DEF Outside

\* A step is one of these.
LEMMA Steps == Next => (proc # "down" /\ End) \/ Moves \/ Restart \/ Outside
BY DEF Next, Moves, Outside, Refused, Loading, LostWaiting, Ends

-------------------------------------------------------------------------------
(* The clock of one process: places, timer, sockets                         *)

ClockOK == PlaceOK /\ TimerOK /\ LeakOK

\* One socket more is one sleep more.
LEMMA OneMore == ASSUME NEW n \in Nat PROVE (n + 1) * Sleep = n * Sleep + Sleep
BY SupervisionAssumption

LEMMA OneLess == ASSUME NEW n \in Nat, n >= 1 PROVE (n - 1) * Sleep <= n * Sleep
<1>1. n - 1 \in Nat /\ (n - 1) + 1 = n
  OBVIOUS
<1>2. n * Sleep = (n - 1) * Sleep + Sleep
  BY <1>1, OneMore
<1>3. (n - 1) * Sleep \in Int /\ n * Sleep \in Int
  BY SupervisionAssumption
<1> QED BY <1>2, <1>3, SupervisionAssumption

LEMMA ClockInit == Init => ClockOK
BY SupervisionAssumption DEF Init, ClockOK, PlaceOK, TimerOK, LeakOK

LEMMA EndClock ==
    ASSUME TypeOK, ClockOK, End
    PROVE  ClockOK'
BY DEF TypeOK, ClockOK, PlaceOK, TimerOK, LeakOK, End

LEMMA MoveClock ==
    ASSUME TypeOK, ClockOK, Moves
    PROVE  ClockOK'
<1> USE SupervisionAssumption DEF GoTo
<1>0. sockets * Sleep \in Nat /\ (sockets + 1) * Sleep = sockets * Sleep + Sleep
  BY OneMore DEF TypeOK
<1>1. CASE Connect
  <2>1. ~boot \/ sockets' * Sleep + joined' <= now' + Sleep
    BY <1>0, <1>1 DEF Connect, TypeOK, ClockOK, LeakOK
  <2> QED BY <1>1, <2>1 DEF Connect, TypeOK, ClockOK, PlaceOK, TimerOK, LeakOK
<1>2. CASE Awake
  BY <1>0, <1>2 DEF Awake, TypeOK, ClockOK, PlaceOK, TimerOK, LeakOK
<1>3. CASE Pong
  BY <1>0, <1>3 DEF Pong, TypeOK, ClockOK, PlaceOK, TimerOK, LeakOK
<1>4. CASE Streams
  BY <1>0, <1>4 DEF Streams, TypeOK, ClockOK, PlaceOK, TimerOK, LeakOK
<1>5. CASE Data
  BY <1>0, <1>5 DEF Data, TypeOK, ClockOK, PlaceOK, TimerOK, LeakOK
<1>6. CASE Heartbeat
  BY <1>0, <1>6 DEF Heartbeat, TypeOK, ClockOK, PlaceOK, TimerOK, LeakOK
<1>7. CASE LostStream
  BY <1>0, <1>7 DEF LostStream, TypeOK, ClockOK, PlaceOK, TimerOK, LeakOK
<1>8. CASE Loading /\ boot
  BY <1>0, <1>8 DEF Loading, TypeOK, ClockOK, PlaceOK, TimerOK, LeakOK
<1>9. CASE Refused /\ ~boot
  BY <1>0, <1>9 DEF Refused, TypeOK, ClockOK, PlaceOK, TimerOK, LeakOK
<1> QED BY <1>1, <1>2, <1>3, <1>4, <1>5, <1>6, <1>7, <1>8, <1>9 DEF Moves

LEMMA RestartClock ==
    ASSUME TypeOK, ClockOK, Restart
    PROVE  ClockOK'
<1>1. now' = now /\ heard' = heard /\ acked' = acked /\ proc = "down"
  BY DEF Restart
<1>2. CASE UNCHANGED <<procVars, joined>>
  BY <1>1, <1>2 DEF procVars, ClockOK, PlaceOK, TimerOK, LeakOK
<1>3. CASE proc' = "connect" /\ boot' = TRUE /\ sockets' = 0 /\ joined' = now
  <2>1. sockets' * Sleep = 0
    BY <1>3, SupervisionAssumption
  <2> QED BY <1>1, <1>3, <2>1 DEF TypeOK, ClockOK, PlaceOK, TimerOK, LeakOK
<1> QED BY <1>2, <1>3 DEF Restart

LEMMA OutsideClock ==
    ASSUME TypeOK, ClockOK, Outside
    PROVE  ClockOK'
<1>0. sockets * Sleep \in Nat
  BY SupervisionAssumption DEF TypeOK
<1>1. CASE Tick
  BY <1>0, <1>1, SupervisionAssumption
     DEF Tick, Urgent, procVars, historyVars, TypeOK, ClockOK, PlaceOK, TimerOK, LeakOK
<1>2. ASSUME NEW m, MasterBecomes(m) PROVE ClockOK'
  BY <1>2 DEF MasterBecomes, procVars, historyVars, ClockOK, PlaceOK, TimerOK, LeakOK
<1> QED BY <1>1, <1>2 DEF Outside

-------------------------------------------------------------------------------
(* The supervisor's memory                                                  *)

BurstOK == MemoryOK /\ EndsOrdered /\ GaveUp

\* One end more.
LEMMA OneEndMore ==
    ASSUME TypeOK, End
    PROVE  /\ Len(ends') = Len(ends) + 1 /\ ends'[Len(ends) + 1] = now
           /\ \A k \in 1 .. Len(ends) : ends'[k] = ends[k]
           /\ now' = now /\ recent' = recent /\ proc' = "down"
BY AppendProperties DEF TypeOK, End

LEMMA BurstInit == Init => BurstOK
<1> SUFFICES ASSUME Init PROVE BurstOK
  OBVIOUS
<1>1. sup = "up" /\ proc = "connect" /\ recent = << >> /\ ends = << >> /\ Len(ends) = 0 /\ Len(recent) = 0
  BY DEF Init
<1>2. Handled = 0 /\ 1 .. Handled - MaxR = {}
  BY <1>1, SupervisionAssumption DEF Handled
<1>3. MemoryOK
  BY <1>1, <1>2 DEF MemoryOK
<1> QED BY <1>1, <1>3 DEF BurstOK, EndsOrdered, GaveUp

LEMMA EndBurst ==
    ASSUME TypeOK, BurstOK, proc # "down", End
    PROVE  BurstOK'
<1>0. Len(ends) \in Nat /\ Len(recent) \in Nat
  BY DEF TypeOK
<1>1. sup = "up" /\ Handled = Len(ends) /\ Handled' = Len(ends) /\ Len(ends) \in Nat
  <2>1. sup = "up"
    BY DEF BurstOK, GaveUp, TypeOK
  <2>2. Handled' = Len(ends') - 1
    BY OneEndMore DEF Handled
  <2>3. Handled = Len(ends)
    BY DEF Handled
  <2> QED BY <1>0, <2>1, <2>2, <2>3, OneEndMore
<1>2. EndsOrdered'
  <2>1. \A j \in 1 .. Len(ends) : ends[j] \in Nat /\ ends[j] <= now
    BY DEF BurstOK, EndsOrdered, TypeOK
  <2>2. \A j \in 1 .. Len(ends') : j \in 1 .. Len(ends) \/ j = Len(ends) + 1
    BY OneEndMore, <1>0
  <2>3. now \in Nat
    BY DEF TypeOK
  <2>4. \A j \in 1 .. Len(ends') : ends'[j] <= now
    BY OneEndMore, <2>1, <2>2, <2>3
  <2>5. ASSUME NEW i \in 1 .. Len(ends'), NEW j \in 1 .. Len(ends'), i <= j
        PROVE  ends'[i] <= ends'[j]
    <3>1. CASE j \in 1 .. Len(ends)
      <4>1. i \in 1 .. Len(ends)
        BY <2>5, <3>1, <1>0
      <4>2. ends[i] <= ends[j]
        BY <2>5, <3>1, <4>1 DEF BurstOK, EndsOrdered
      <4> QED BY <3>1, <4>1, <4>2, OneEndMore
    <3>2. CASE j = Len(ends) + 1
      BY <2>4, <2>5, <3>2, OneEndMore
    <3> QED BY <3>1, <3>2, <2>2, <2>5
  <2> QED BY <2>4, <2>5, OneEndMore DEF EndsOrdered
<1>3. ends' # << >>
  BY OneEndMore, <1>1
<1>4. MemoryOK'
  <2>0. /\ Len(recent) <= Len(ends)
        /\ \A k \in 1 .. Len(recent) : recent[k] = ends[Len(ends) + 1 - k]
    BY <1>1 DEF BurstOK, MemoryOK
  <2>1. \A k \in 1 .. Len(recent) : recent[k] = ends'[Len(ends) + 1 - k]
    <3> TAKE k \in 1 .. Len(recent)
    <3>1. Len(ends) + 1 - k \in 1 .. Len(ends)
      BY <1>0, <2>0
    <3> QED BY <2>0, <3>1, OneEndMore
  <2>2. \A j \in 1 .. Len(ends) - Len(recent) : now - ends'[j] > MaxT
    BY OneEndMore, <1>1 DEF BurstOK, MemoryOK, TypeOK
  <2>3. \A k \in 1 .. Len(ends) - MaxR : ends'[k + MaxR] - ends'[k] > MaxT
    BY OneEndMore, <1>1, SupervisionAssumption DEF BurstOK, MemoryOK, TypeOK
  <2>4. Len(recent) <= Len(ends) /\ ends'[Len(ends')] = now
    BY OneEndMore, <1>1 DEF BurstOK, MemoryOK, TypeOK
  <2> QED BY OneEndMore, <1>1, <1>3, <2>1, <2>2, <2>3, <2>4 DEF MemoryOK
<1>5. GaveUp'
  <2>1. CASE boot /\ ends = << >>
    BY OneEndMore, <2>1 DEF GaveUp
  <2>2. CASE ~(boot /\ ends = << >>)
    BY <1>1, <2>2 DEF GaveUp, End
  <2> QED BY <2>1, <2>2
<1> QED BY <1>2, <1>4, <1>5 DEF BurstOK

LEMMA RestartBurst ==
    ASSUME TypeOK, BurstOK, Restart
    PROVE  BurstOK'
<1> DEFINE L == Len(ends)
<1>1. PICK n \in 0 .. Len(recent) :
        /\ \A k \in 1 .. n : InPeriod(recent[k])
        /\ n < Len(recent) => ~InPeriod(recent[n + 1])
        /\ recent' = <<now>> \o SubSeq(recent, 1, n)
        /\ IF n >= MaxR
           THEN sup' = "down" /\ UNCHANGED <<procVars, joined>>
           ELSE /\ proc' = "connect" /\ boot' = TRUE /\ due' = now /\ sockets' = 0 /\ joined' = now
                /\ UNCHANGED sup
  BY DEF Restart
<1>2. sup = "up" /\ proc = "down" /\ now' = now /\ ends' = ends /\ Handled = L - 1
  BY DEF Restart, Handled
<1>3. /\ L \in Nat /\ L >= 1 /\ Len(recent) \in Nat /\ Len(recent) <= L - 1
      /\ now \in Nat /\ ends[L] = now
      /\ \A k \in 1 .. L : ends[k] \in Nat
  BY <1>2 DEF BurstOK, MemoryOK, TypeOK
<1>4. \A k \in 1 .. Len(recent) : recent[k] = ends[L - k]
  <2> TAKE k \in 1 .. Len(recent)
  <2>1. Handled + 1 - k = L - k
    BY <1>2, <1>3
  <2>2. recent[k] = ends[Handled + 1 - k]
    BY <1>2 DEF BurstOK, MemoryOK
  <2> QED BY <2>1, <2>2
<1>5. EndsOrdered'
  BY <1>2 DEF BurstOK, EndsOrdered
<1>6. CASE n >= MaxR
  <2>1. L - MaxR \in 1 .. L - MaxR
    BY <1>1, <1>3, <1>6, SupervisionAssumption
  <2>2. ends[(L - MaxR) + MaxR] - ends[L - MaxR] <= MaxT
    <3>1. (L - MaxR) + MaxR = L
      BY <1>3, SupervisionAssumption
    <3>2. CASE MaxR = 0
      BY <3>1, <3>2, <1>3, SupervisionAssumption
    <3>3. CASE MaxR # 0
      <4>1. MaxR \in 1 .. n /\ MaxR \in 1 .. Len(recent)
        BY <1>1, <1>3, <1>6, <3>3, SupervisionAssumption
      <4>2. now - ends[L - MaxR] <= MaxT
        BY <1>1, <1>4, <4>1 DEF InPeriod
      <4> QED BY <3>1, <4>2, <1>3
    <3> QED BY <3>2, <3>3
  <2>3. Burst'
    BY <1>2, <2>1, <2>2 DEF Burst
  <2>4. sup' = "down" /\ proc' = "down"
    BY <1>1, <1>2, <1>6 DEF procVars
  <2> QED BY <1>5, <2>3, <2>4 DEF BurstOK, MemoryOK, GaveUp
<1>7. CASE ~(n >= MaxR)
  <2>1. n \in Nat /\ n < MaxR /\ sup' = "up" /\ proc' = "connect"
    BY <1>1, <1>2, <1>3, <1>7, SupervisionAssumption
  <2>2. Handled' = L
    BY <1>2, <2>1 DEF Handled
  <2>3. /\ Len(recent') = n + 1 /\ recent'[1] = now
        /\ \A k \in 2 .. n + 1 : recent'[k] = recent[k - 1]
    BY <1>1, Remembered DEF TypeOK
  <2>4. \A k \in 1 .. n + 1 : recent'[k] = ends[L + 1 - k]
    <3> TAKE k \in 1 .. n + 1
    <3>1. CASE k = 1
      BY <2>1, <2>3, <3>1, <1>3
    <3>2. CASE k # 1
      <4>1. k \in 2 .. n + 1 /\ k - 1 \in 1 .. Len(recent) /\ L - (k - 1) = L + 1 - k
        BY <1>1, <1>3, <2>1, <3>2
      <4> QED BY <2>3, <1>4, <4>1
    <3> QED BY <3>1, <3>2
  <2>5. \A j \in 1 .. L - (n + 1) : now - ends[j] > MaxT
    <3> TAKE j \in 1 .. L - (n + 1)
    <3>1. CASE n = Len(recent)
      <4>1. j \in 1 .. (L - 1) - Len(recent)
        BY <3>1, <1>3, <2>1
      <4> QED BY <4>1, <1>2 DEF BurstOK, MemoryOK
    <3>2. CASE n < Len(recent)
      <4>1. n + 1 \in 1 .. Len(recent) /\ ~(now - recent[n + 1] <= MaxT)
        BY <1>1, <1>3, <2>1, <3>2 DEF InPeriod
      <4>2. recent[n + 1] = ends[L - (n + 1)]
        BY <1>4, <4>1
      <4>3. j \in 1 .. L /\ L - (n + 1) \in 1 .. L /\ j <= L - (n + 1)
        BY <1>3, <2>1
      <4>4. ends[j] <= ends[L - (n + 1)]
        BY <4>3 DEF BurstOK, EndsOrdered
      <4>5. ends[j] \in Nat /\ ends[L - (n + 1)] \in Nat
        BY <1>3, <4>3
      <4>6. ~(now - ends[L - (n + 1)] <= MaxT)
        BY <4>1, <4>2
      <4>7. \A a, b, t, max \in Nat : a <= b /\ ~(t - b <= max) => t - a > max
        OBVIOUS
      <4>8. now \in Nat /\ MaxT \in Nat
        BY <1>3, SupervisionAssumption
      <4> QED BY <4>4, <4>5, <4>6, <4>7, <4>8
    <3> QED BY <3>1, <3>2, <1>1
  <2>6. \A k \in 1 .. L - MaxR : ends[k + MaxR] - ends[k] > MaxT
    <3> TAKE k \in 1 .. L - MaxR
    <3>1. CASE k + MaxR = L
      <4>1. k \in 1 .. L - (n + 1)
        BY <3>1, <2>1, <1>3, SupervisionAssumption
      <4> QED BY <4>1, <2>5, <3>1, <1>3
    <3>2. CASE k + MaxR # L
      <4>1. k \in 1 .. (L - 1) - MaxR
        BY <3>2, <1>3, SupervisionAssumption
      <4> QED BY <4>1, <1>2 DEF BurstOK, MemoryOK
    <3> QED BY <3>1, <3>2
  <2>7. n + 1 <= L
    BY <1>1, <1>3
  <2>8. MemoryOK'
    BY <1>2, <2>1, <2>2, <2>3, <2>4, <2>5, <2>6, <2>7 DEF MemoryOK
  <2> QED BY <1>5, <2>1, <2>8 DEF BurstOK, GaveUp
<1> QED BY <1>6, <1>7

LEMMA MoveBurst ==
    ASSUME TypeOK, BurstOK, Moves
    PROVE  BurstOK'
<1>1. proc # "down" /\ proc' # "down" /\ UNCHANGED <<now, sup, recent, ends>>
  BY DEF Moves, GoTo, Connect, Awake, Pong, Streams, Data, Heartbeat, LostStream, Loading, Refused
<1>2. Handled' = Handled
  BY <1>1 DEF Handled
<1> QED BY <1>1, <1>2 DEF BurstOK, MemoryOK, EndsOrdered, GaveUp

LEMMA OutsideBurst ==
    ASSUME TypeOK, BurstOK, Outside
    PROVE  BurstOK'
<1>1. UNCHANGED <<sup, recent, proc, ends>>
  BY DEF Outside, Tick, MasterBecomes, procVars, historyVars
<1>2. Handled' = Handled
  BY <1>1 DEF Handled
<1>3. GaveUp'
  BY <1>1 DEF BurstOK, GaveUp, Burst
<1>4. CASE now' = now
  BY <1>1, <1>2, <1>3, <1>4 DEF BurstOK, MemoryOK, EndsOrdered
<1>5. CASE Tick
  <2>1. now \in Nat /\ now' = now + 1 /\ (sup = "up" => proc # "down")
    BY <1>5 DEF Tick, Urgent, TypeOK
  <2>2. Len(ends) \in Nat /\ Len(recent) \in Nat /\ \A j \in 1 .. Len(ends) : ends[j] \in Nat
    BY DEF TypeOK
  <2>3. EndsOrdered'
    BY <1>1, <2>1, <2>2 DEF BurstOK, EndsOrdered
  <2>4. MemoryOK'
    <3> SUFFICES ASSUME sup = "up" PROVE MemoryOK'
      BY <1>1 DEF MemoryOK
    <3>1. Handled = Len(ends) /\ proc # "down"
      BY <2>1 DEF Handled
    <3>2. \A j \in 1 .. Handled - Len(recent) : now' - ends[j] > MaxT
      BY <2>1, <2>2, <3>1, SupervisionAssumption DEF BurstOK, MemoryOK
    <3> QED BY <1>1, <1>2, <3>1, <3>2 DEF BurstOK, MemoryOK
  <2> QED BY <1>3, <2>3, <2>4 DEF BurstOK
<1> QED BY <1>4, <1>5 DEF Outside, MasterBecomes

-------------------------------------------------------------------------------
(* The theorems                                                             *)

LEMMA InvInit == Init => IInv
BY TypeInit, ClockInit, BurstInit DEF IInv, ClockOK, BurstOK

LEMMA InvNext == IInv /\ [Next]_vars => IInv'
<1> SUFFICES ASSUME IInv, [Next]_vars PROVE IInv'
  OBVIOUS
<1>0. TypeOK /\ ClockOK /\ BurstOK /\ PlaceOK
  BY DEF IInv, ClockOK, BurstOK
<1>1. CASE proc # "down" /\ End
  BY <1>0, <1>1, EndType, EndClock, EndBurst DEF IInv, ClockOK, BurstOK
<1>2. CASE Moves
  BY <1>0, <1>2, MoveType, MoveClock, MoveBurst DEF IInv, ClockOK, BurstOK
<1>3. CASE Restart
  BY <1>0, <1>3, RestartType, RestartClock, RestartBurst DEF IInv, ClockOK, BurstOK
<1>4. CASE Outside
  BY <1>0, <1>4, OutsideType, OutsideClock, OutsideBurst DEF IInv, ClockOK, BurstOK
<1>5. CASE UNCHANGED vars
  BY <1>5 DEF vars, procVars, historyVars, IInv, TypeOK, PlaceOK, TimerOK, LeakOK,
       MemoryOK, Handled, EndsOrdered, GaveUp, Burst
<1> QED BY <1>1, <1>2, <1>3, <1>4, <1>5, Steps

\* Whatever the master does, and however often the process ends, the clock of the
\* process and the memory of the supervisor agree with what has happened.
THEOREM Supervised == Spec => []IInv
BY InvInit, InvNext, PTL DEF Spec

LEMMA InvGivesUp == IInv => GivesUpAfterBurst
<1> SUFFICES ASSUME IInv PROVE GivesUpAfterBurst
  OBVIOUS
<1>1. sup = "down" => Burst \/ Len(ends) = 1
  BY DEF IInv, GaveUp
<1>2. ASSUME proc # "down" PROVE ~Burst
  <2>1. sup = "up" /\ Handled = Len(ends)
    BY <1>2 DEF IInv, GaveUp, TypeOK, Handled
  <2>2. \A k \in 1 .. Len(ends) - MaxR : ends[k + MaxR] - ends[k] > MaxT
    BY <2>1 DEF IInv, MemoryOK
  <2>3. \A k \in 1 .. Len(ends) - MaxR : ends[k + MaxR] \in Nat /\ ends[k] \in Nat
    BY SupervisionAssumption DEF IInv, TypeOK
  <2> QED BY <2>2, <2>3, SupervisionAssumption DEF Burst
<1> QED BY <1>1, <1>2 DEF GivesUpAfterBurst

\* eslaver_sup gives up exactly when the process ended MaxR + 1 times within MaxT, or
\* could not start at all: never for ends that are further apart, however many.
THEOREM GivesUp == Spec => []GivesUpAfterBurst
BY Supervised, InvGivesUp, PTL

LEMMA InvAcks == IInv => AcksSilence
BY DEF IInv, TimerOK, AcksSilence, TypeOK

\* A master that has been silent for ReplTimeout hears the heartbeat of a streaming
\* process in that instant.
THEOREM Acks == Spec => []AcksSilence
BY Supervised, InvAcks, PTL

LEMMA InvLeaks == IInv => LeaksSlowly
<1> SUFFICES ASSUME IInv, boot PROVE sockets * Sleep <= (now - joined) + Sleep
  BY DEF LeaksSlowly
<1>1. sockets * Sleep \in Nat /\ now \in Nat /\ joined \in Nat /\ due \in Nat /\ Sleep \in Nat
  BY SupervisionAssumption DEF IInv, TypeOK
<1>2. proc \in {"connect", "ping", "asleep"}
  BY DEF IInv, PlaceOK
<1> QED BY <1>1, <1>2 DEF IInv, LeakOK

\* However long the master goes on loading, init/1 has one socket open for each second
\* that it has tried, and no more.
THEOREM Leaks == Spec => []LeaksSlowly
BY Supervised, InvLeaks, PTL
===============================================================================
