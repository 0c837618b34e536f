------------------------------ MODULE MCDbInit ------------------------------
(* Instance of DbInit for TLC: three processes and the four tables.         *)
EXTENDS DbInit

TheTables == <<"session", "author", "channel", "location">>
=============================================================================
