-------------------------- MODULE MCEslaverServer --------------------------
(* Small instances of EslaverServer, and of the claims about it, for TLC.   *)
EXTENDS EslaverClaims

\* Disturbances.
Anything  == FaultKinds
Drops     == {"drop"}
Boots     == {"boot"}
Live      == {"drop", "boot", "shutdown"}
RefusalsAndNoise == {"drop", "boot", "refuse", "noise"}

\* Snapshots.
OneKey    == {<<"key">>}
EmptyOnly == {<<>>}
UpToTwo   == {<<>>, <<"key">>, <<"key", "dkey">>}
BelowAtOrTwice == {<<>>, <<"key">>, <<"key", "key", "key", "key", "key">>}

\* Masters that know the capa option, and that may not.
Knows     == {"ok"}
MayKnow   == {"ok", "unrecognized"}
=============================================================================
