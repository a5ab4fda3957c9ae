----------------------------- MODULE MCSupervision -----------------------------
(***************************************************************************)
(* Two restarts within three seconds, a clock of six.                      *)
(***************************************************************************)
EXTENDS Supervision
===============================================================================
