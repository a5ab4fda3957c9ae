---------------------------- MODULE CallbackFeed ----------------------------
(***************************************************************************)
(* What a callback of eslaver can count on, without regard to sockets,     *)
(* reads, mailboxes and reconnections: snapshots told key by key, and      *)
(* between them the commands of the master, one after the other.           *)
(***************************************************************************)
EXTENDS Integers, Sequences

CONSTANT CmdUnits   \* units of the history that a command takes

VARIABLES
    phase,     \* "down" (no process), "rest" or "snapshot" (one is being told)
    events,    \* what the callback has received from this process
    damaged    \* units were lost, or kept from an earlier connection

vars == <<phase, events, damaged>>

Init ==
    /\ phase = "down"
    /\ events = <<>>
    /\ damaged = FALSE

-----------------------------------------------------------------------------
Last == events[Len(events)]

\* How many events a step adds, and which.
More  == Len(events') - Len(events)
Added == {events'[i] : i \in Len(events) + 1 .. Len(events')}

\* Keys that have been told and not ended yet: those of the snapshot taken at Last.r.
Open == events # <<>> /\ Last.ev = "loading"

\* Where in the history the callback is.
Reached == IF Last.ev = "eof" THEN Last.r ELSE CmdUnits * Last.n

-----------------------------------------------------------------------------
Start ==
    /\ phase = "down" /\ phase' = "rest"
    /\ events' = <<>>
    /\ damaged' = FALSE

End ==
    /\ phase # "down" /\ phase' = "down"
    /\ UNCHANGED <<events, damaged>>

\* A snapshot is loaded; what lies in front of it no longer matters.
Load ==
    /\ phase = "rest" /\ phase' = "snapshot"
    /\ damaged' \in BOOLEAN
    /\ UNCHANGED events

\* The keys of a snapshot come in order, from the first on.
Key ==
    /\ phase = "snapshot"
    /\ \E key \in Added :
          /\ events' = Append(events, key)
          /\ key.ev = "loading"
          /\ Open => key.n = Last.n + 1 /\ key.r = Last.r
          /\ ~Open => key.n = 1
    /\ UNCHANGED <<phase, damaged>>

\* It ends behind the last of its keys, and says how many they are.
Eof ==
    /\ phase = "snapshot" /\ phase' = "rest"
    /\ \E eof \in Added :
          /\ events' = Append(events, eof)
          /\ eof.ev = "eof"
          /\ Open => eof.n = Last.n /\ eof.r = Last.r
          /\ ~Open => eof.n = 0
    /\ UNCHANGED damaged

\* The next commands of the master, none left out and none told again.
Commands ==
    /\ phase = "rest" /\ ~Open /\ events # <<>>
    /\ ~damaged
    /\ Reached % CmdUnits = 0
    /\ events' = events \o
          [i \in 1 .. More |-> [ev |-> "stream", n |-> Reached \div CmdUnits + i, r |-> 0]]
    /\ UNCHANGED <<phase, damaged>>

\* After some damage, any commands; but nothing that could be taken for a snapshot's.
Garbled ==
    /\ phase = "rest" /\ ~Open /\ events # <<>>
    /\ damaged
    /\ \A i \in DOMAIN events : i \in DOMAIN events' /\ events'[i] = events[i]
    /\ \A event \in Added : event.ev = "stream"
    /\ UNCHANGED <<phase, damaged>>

Damage ==
    /\ phase = "rest"
    /\ damaged' = TRUE
    /\ UNCHANGED <<phase, events>>

Next == Start \/ End \/ Load \/ Key \/ Eof \/ Commands \/ Garbled \/ Damage

Spec == Init /\ [][Next]_vars
=============================================================================
