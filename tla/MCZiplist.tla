------------------------------ MODULE MCZiplist ------------------------------
(***************************************************************************)
(* Ziplist on bytes of 16 values: an entry of 14 bytes is a long one.      *)
(* The texts: an empty string; one whose entry crosses that length when    *)
(* the field in front of it grows; one that is long by itself, with a      *)
(* length of five bytes; an immediate integer, and one of two bytes.       *)
(***************************************************************************)
EXTENDS Ziplist

AString(n) == [int |-> FALSE, val |-> 0, chars |-> [i \in 1 .. n |-> (i + 10) % ByteValues]]
AnInteger(v) == [int |-> TRUE, val |-> v, chars |-> << >>]

MCElements == {AString(0), AString(10), AString(22), AnInteger(1), AnInteger(-9)}
===============================================================================
