--------------------------------- MODULE MCLzf ---------------------------------
(***************************************************************************)
(* Lzf on bytes of eight values: runs of two literals, a reference of      *)
(* three bytes from a length of five on; blocks of up to eight bytes of    *)
(* two values, and longer ones of one byte and another at regular places.  *)
(***************************************************************************)
EXTENDS LzfDecompress

MCInputs == UNION {[1 .. n -> {0, 1}] : n \in 0 .. 8}
            \cup {[i \in 1 .. n |-> IF i % period = 0 THEN 1 ELSE 0] : n \in 9 .. 18, period \in {1, 2, 3, 5}}
===============================================================================
