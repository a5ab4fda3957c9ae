------------------------------- MODULE Supervision -------------------------------
(***************************************************************************)
(* eslaver_sup.erl and the waits of eslaver_server.erl, with a clock: how  *)
(* often the process may end, how long it waits for whom, when the         *)
(* heartbeat comes.  What is said on the wire is in EslaverServer; here an *)
(* answer is one step, and no password is configured.                      *)
(***************************************************************************)
EXTENDS Naturals, Sequences

CONSTANTS
  MaxR, MaxT,    \* restart intensity: 3 within 10 seconds
  ReplTimeout,   \* ?REPL_TIMEOUT, a second
  Sleep,         \* timer:sleep(1000)
  MaxNow         \* bound on the clock

ASSUME SupervisionAssumption ==
  MaxR \in Nat /\ MaxT \in Nat /\ ReplTimeout \in Nat \ {0} /\ Sleep \in Nat \ {0} /\ MaxNow \in Nat

VARIABLES
  now,
  sup,       \* the supervisor is "up", or "down" for good
  recent,    \* times of the restarts it remembers, the latest first
  proc,      \* "down", "connect" (about to), "ping" and "handshake" (in recv_sock/1),
             \* "asleep" (in timer:sleep/1), "stream"
  boot,      \* the process is in init/1: the supervisor waits for it
  due,       \* when the sleep or the heartbeat timer ends
  sockets,   \* sockets that the process has open
  master,    \* "up", "loading", "refusing", "silent" (accepts, and says nothing)
  \* History.
  joined,    \* when this process connected first, or streamed last
  heard,     \* when the master last sent data
  acked,     \* when the last ACK was sent
  ends       \* when the process ended

procVars == <<proc, boot, due, sockets>>
historyVars == <<joined, heard, acked, ends>>
vars == <<now, sup, recent, procVars, master, historyVars>>

Places == {"down", "connect", "ping", "handshake", "asleep", "stream"}

TypeOK ==
  /\ now \in Nat /\ sup \in {"up", "down"} /\ recent \in Seq(Nat)
  /\ proc \in Places /\ boot \in BOOLEAN /\ due \in Nat /\ sockets \in Nat
  /\ master \in {"up", "loading", "refusing", "silent"}
  /\ joined \in Nat /\ heard \in Nat /\ acked \in Nat /\ ends \in Seq(Nat)

\* eslaver:start/2 starts the supervisor, and that the process.
Init ==
  /\ now = 0 /\ sup = "up" /\ recent = << >>
  /\ proc = "connect" /\ boot = TRUE /\ due = 0 /\ sockets = 0
  /\ master \in {"up", "loading", "refusing", "silent"}
  /\ joined = 0 /\ heard = 0 /\ acked = 0 /\ ends = << >>

-------------------------------------------------------------------------------
(* The process                                                             *)

\* It ends for whatever reason; its sockets close with it.  If init/1 fails at the very
\* first start, so does the supervisor's.
End ==
  /\ proc' = "down" /\ boot' = FALSE /\ sockets' = 0
  /\ ends' = Append(ends, now)
  /\ sup' = IF boot /\ ends = << >> THEN "down" ELSE sup
  /\ UNCHANGED <<now, recent, due, master, joined, heard, acked>>

GoTo(place, time, n) ==
  /\ proc' = place /\ due' = time /\ sockets' = n
  /\ UNCHANGED <<now, sup, recent, master, ends>>

\* initial/0: a refused connection is thrown, which ends init/1, and is retried later
\* by handle_cast(new_connection).
Refused ==
  /\ proc = "connect" /\ master = "refusing"
  /\ IF boot THEN End
     ELSE GoTo("asleep", now + Sleep, sockets) /\ UNCHANGED <<boot, joined, heard, acked>>

\* Mutant: it connects only when no other socket is open.
ConnectAlone ==
  /\ proc = "connect" /\ master # "refusing" /\ sockets = 0
  /\ GoTo("ping", due, sockets + 1) /\ UNCHANGED <<boot, joined, heard, acked>>

Connect ==
  /\ proc = "connect" /\ master # "refusing"
  /\ GoTo("ping", due, sockets + 1) /\ UNCHANGED <<boot, joined, heard, acked>>

\* Mutant: the attempt is repeated at once.
LoadingAtOnce ==
  /\ proc = "ping" /\ master = "loading"
  /\ IF boot THEN GoTo("asleep", now, sockets) /\ UNCHANGED <<boot, joined, heard, acked>>
     ELSE End

\* {ok, loading, _}: init/1 sleeps and tries again, on a new socket; new_connection has
\* no clause for it.
Loading ==
  /\ proc = "ping" /\ master = "loading"
  /\ IF boot THEN GoTo("asleep", now + Sleep, sockets) /\ UNCHANGED <<boot, joined, heard, acked>>
     ELSE End

Awake ==
  /\ proc = "asleep" /\ now >= due
  /\ GoTo("connect", due, sockets) /\ UNCHANGED <<boot, joined, heard, acked>>

\* {ok, pong, _}: init/1 or new_connection is done.
Pong ==
  /\ proc = "ping" /\ master = "up"
  /\ boot' = FALSE
  /\ GoTo("handshake", due, sockets) /\ UNCHANGED <<joined, heard, acked>>

\* The last answer of the handshake: handle_cast(replication) sets the timer.
Streams ==
  /\ proc = "handshake" /\ master = "up"
  /\ joined' = now
  /\ GoTo("stream", now + ReplTimeout, sockets) /\ UNCHANGED <<boot, heard, acked>>

\* The connection ends while recv_sock/1 waits for it, or any other message comes, the
\* call of stop/0 among them.
LostWaiting == proc \in {"ping", "handshake"} /\ End

\* Mutant: data puts the heartbeat off by another period.
DataPutsOff ==
  /\ proc = "stream" /\ master = "up"
  /\ heard' = now
  /\ GoTo("stream", now + 2 * ReplTimeout, sockets) /\ UNCHANGED <<boot, joined, acked>>

\* handle_info({tcp, ...}): the timer starts again.
Data ==
  /\ proc = "stream" /\ master = "up"
  /\ heard' = now
  /\ GoTo("stream", now + ReplTimeout, sockets) /\ UNCHANGED <<boot, joined, acked>>

\* handle_info(timeout): REPLCONF ACK.
Heartbeat ==
  /\ proc = "stream" /\ now >= due
  /\ acked' = now
  /\ GoTo("stream", now + ReplTimeout, sockets) /\ UNCHANGED <<boot, joined, heard>>

\* Mutant: both of its calls of gen_tcp:close/1 close a socket.
LostStreamTwo ==
  /\ proc = "stream"
  /\ GoTo("connect", due, sockets - 2) /\ UNCHANGED <<boot, joined, heard, acked>>

\* handle_info(tcp_closed): it closes the socket that it knows, and connects again.
LostStream ==
  /\ proc = "stream"
  /\ GoTo("connect", due, sockets - 1) /\ UNCHANGED <<boot, joined, heard, acked>>

\* stop/0 ends it while it streams, as does a callback that raises; an exit signal does
\* in its sleep too.
Ends == proc \in {"asleep", "stream"} /\ End

-------------------------------------------------------------------------------
(* The supervisor                                                          *)

\* Mutant: restarts are remembered one second less.
InPeriodLess(t) == now - t < MaxT

\* The restarts that count.
InPeriod(t) == now - t <= MaxT

\* one_for_one, permanent: the process is started again whatever it ended from, also
\* stop/0, but a supervisor that has to do so too often ends instead.  Of the restarts
\* it remembers, latest first, it keeps those up to the first that is too old.
Restart ==
  /\ sup = "up" /\ proc = "down"
  /\ \E n \in 0 .. Len(recent) :
       /\ \A k \in 1 .. n : InPeriod(recent[k])
       /\ n < Len(recent) => ~InPeriod(recent[n + 1])
       /\ recent' = <<now>> \o SubSeq(recent, 1, n)
       /\ IF n >= MaxR
          THEN sup' = "down" /\ UNCHANGED <<procVars, joined>>
          ELSE /\ proc' = "connect" /\ boot' = TRUE /\ due' = now /\ sockets' = 0 /\ joined' = now
               /\ UNCHANGED sup
  /\ UNCHANGED <<now, master, heard, acked, ends>>

-------------------------------------------------------------------------------
(* Time and the master                                                     *)

\* Time does not pass a timer, nor what is done at once.
Urgent ==
  \/ proc = "connect"
  \/ proc \in {"asleep", "stream"} /\ now >= due
  \/ proc = "down" /\ sup = "up"

Tick ==
  /\ ~Urgent /\ now < MaxNow /\ now' = now + 1
  /\ UNCHANGED <<sup, recent, procVars, master, historyVars>>

MasterBecomes(m) ==
  /\ master # m /\ master' = m
  /\ UNCHANGED <<now, sup, recent, procVars, historyVars>>

Next ==
  \/ Refused \/ Connect \/ Loading \/ Awake \/ Pong \/ Streams
  \/ LostWaiting \/ Data \/ Heartbeat \/ LostStream \/ Ends
  \/ Restart \/ Tick
  \/ \E m \in {"up", "loading", "refusing", "silent"} : MasterBecomes(m)

\* The process and the supervisor are scheduled, timers fire, time passes; a master that
\* goes on being up answers.
Fairness ==
  /\ WF_vars(Refused) /\ WF_vars(Connect) /\ WF_vars(Loading) /\ WF_vars(Awake)
  /\ WF_vars(Pong) /\ WF_vars(Streams) /\ WF_vars(Heartbeat) /\ WF_vars(Restart) /\ WF_vars(Tick)

Spec == Init /\ [][Next]_vars /\ Fairness

-------------------------------------------------------------------------------
(* Properties                                                              *)

\* MaxR + 1 ends within MaxT.
Burst == \E k \in 1 .. Len(ends) - MaxR : ends[k + MaxR] - ends[k] <= MaxT

\* The supervisor gives up exactly after a burst of ends, calls of stop/0 among them, or
\* when the first start fails; so it takes a master that refuses a few connections in
\* the restarts after one end, and no number of connections lost while streaming.
GivesUpAfterBurst ==
  /\ sup = "down" => Burst \/ Len(ends) = 1
  /\ proc # "down" => ~Burst

\* While it streams, the master hears from the process at the latest ReplTimeout after it
\* last said something itself; data that keeps coming faster puts the ACK off forever.
AcksSilence ==
  proc = "stream" => now <= joined + ReplTimeout \/ now <= heard + ReplTimeout \/ now <= acked + ReplTimeout

\* Retries after LOADING leave a socket open, at most one for each Sleep that init/1 took;
\* what they left stays open for as long as the process lives.
LeaksSlowly == boot => sockets * Sleep <= (now - joined) + Sleep

\* Why they hold: the inductive invariant.
\* A connection that is used is open, and init/1 is nowhere else than it may be.
PlaceOK ==
  /\ proc \in {"ping", "handshake", "stream"} => sockets >= 1
  /\ boot => proc \in {"connect", "ping", "asleep"}

\* The timer runs from the last thing said, and no step passes it.
TimerOK ==
  proc = "stream" => now <= due /\ due \in {joined + ReplTimeout, heard + ReplTimeout, acked + ReplTimeout}

\* Each socket left open took a sleep.
LeakOK ==
  /\ joined <= now
  /\ boot /\ proc = "connect" => sockets * Sleep + joined <= now
  /\ boot /\ proc = "ping" => sockets * Sleep + joined <= now + Sleep
  /\ boot /\ proc = "asleep" => sockets * Sleep + joined <= due /\ due <= now + Sleep

\* The ends that the supervisor has answered with a restart.
Handled == IF proc = "down" THEN Len(ends) - 1 ELSE Len(ends)

\* What the supervisor remembers are the latest of these; what it forgot is too old.
MemoryOK ==
  sup = "up" =>
    /\ proc = "down" => ends # << >> /\ ends[Len(ends)] = now
    /\ Len(recent) <= Handled
    /\ \A k \in 1 .. Len(recent) : recent[k] = ends[Handled + 1 - k]
    /\ \A j \in 1 .. Handled - Len(recent) : now - ends[j] > MaxT
    /\ \A k \in 1 .. Handled - MaxR : ends[k + MaxR] - ends[k] > MaxT

EndsOrdered ==
  /\ \A j \in 1 .. Len(ends) : ends[j] <= now
  /\ \A i, j \in 1 .. Len(ends) : i <= j => ends[i] <= ends[j]

GaveUp == sup = "down" => proc = "down" /\ (Burst \/ Len(ends) = 1)

\* A timer that has not passed, a socket for every sleep, and a memory that holds every
\* end within MaxT: the state of the process and of its supervisor fit together.
IInv == TypeOK /\ PlaceOK /\ TimerOK /\ LeakOK /\ MemoryOK /\ EndsOrdered /\ GaveUp

\* Unless it is taken down by a burst, a process that has ended or lost its connection
\* streams again when the master comes back and stays, also one that stop/0 has ended (the
\* clock's bound may end its sleep); a master that accepts the connection and stays
\* silent keeps it in recv_sock/1, which has no timeout.
ComesBack ==
  []<>(\/ proc = "stream" \/ sup = "down" \/ master # "up"
       \/ proc = "asleep" /\ now = MaxNow)
===============================================================================
