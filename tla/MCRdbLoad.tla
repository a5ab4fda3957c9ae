----------------------------- MODULE MCRdbLoad -----------------------------
(* A small instance of RdbLoad: one record of any shape, followed by a plain *)
(* string that is read wrong if the reads before it got out of step.         *)
EXTENDS RdbLoad

MCWords == {"", "abc", "nul"}
MCInts  == {"7"}
MCNuls  == {"nul"}

Contents ==
    [t \in Types |->
        CASE t = "STRING" -> {<<text>> : text \in Texts}
          [] t = "HASH" -> {<<>>, <<"abc", "7">>, <<"abc", "7", "nul", "">>}
          [] t \in {"HASH_ZIPLIST", "HASH_ZIPMAP"} -> {<<"abc", "7">>}
          [] t = "LIST" -> {<<>>, <<"abc">>, <<"7">>, <<"abc", "nul">>, <<"abc", "7", "nul">>,
                            <<"abc", "nul", "abc">>}
          [] t = "SET_INTSET" -> {<<"7">>}
          [] OTHER -> {<<"abc", "7">>}]

RecordsOf(t) ==
    [type : {t}, select : BOOLEAN, expire : {"none", "past", "future"},
     secs : BOOLEAN, key : {"abc", "7"}, val : Contents[t]]

Sentinel == [type |-> "STRING", select |-> TRUE, expire |-> "none", secs |-> FALSE,
             key |-> "abc", val |-> <<"abc">>]

MCSaves == {<<>>} \cup {<<rec, Sentinel>> : rec \in UNION {RecordsOf(t) : t \in Types}}
=============================================================================
