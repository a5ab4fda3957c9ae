--------------------------- MODULE EslaverClaims ---------------------------
(***************************************************************************)
(* What the repository's README and TODO say of the server, as properties  *)
(* of EslaverServer.  Each is violated; the README of this project tells   *)
(* how.                                                                    *)
(***************************************************************************)
EXTENDS EslaverServer

Survives == where' # "down"

\* TODO:12 "[DONE] handle "LOADING" status from master server": a LOADING answer
\* to the ping does not end the process (init retries; handle_cast's
\* new_connection clause has no branch for it).
LoadingHandled ==
    [][ \A place \in {"bootPing", "rePing"} :
          Received(place) /\ Result = "loading" => Survives ]_vars

\* README.md:24 "Same behaviour like any redis slave server": no command is
\* applied twice in a row of commands, across reconnections too.
NoCommandTwice ==
    \A i \in 1 .. Len(events) - 1 :
        events[i].ev = "stream" /\ events[i + 1].ev = "stream"
            => events[i].n < events[i + 1].n

=============================================================================
