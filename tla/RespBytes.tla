------------------------------- MODULE RespBytes -------------------------------
(***************************************************************************)
(* The bytes of redis.erl and rio.c: digits are the numbers 0 to 9; the    *)
(* other ones the protocol knows have names; an upper case letter is one   *)
(* from UpperFrom on.                                                      *)
(***************************************************************************)
EXTENDS Integers

Hyphen == 10
Star == 12
Dollar == 13
CR == 14
LF == 15
LowerFrom == 20
UpperFrom == 30
===============================================================================
