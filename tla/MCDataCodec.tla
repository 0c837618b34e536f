----------------------------- MODULE MCDataCodec -----------------------------
(* Instance of DataCodec for TLC: two keys, and values that hold a tab and   *)
(* the other key, an "=" or nothing.                                        *)
EXTENDS DataCodec

TheChars == {"\t", "=", " ", "U", "T", "N", "x", "y"} \cup {Digits[i] : i \in 1..10}
TheKeys == {<<"U">>, <<"T">>}
TheCount == <<"N">>
TheValues ==
  {<< >>, <<"x">>, <<"\t", "U", "=", "x">>, <<"x", "\t", "T">>, <<"x", "=", "y", "=">>, <<"=", "\t">>}
=============================================================================
