------------------------------ MODULE MCFatDir ------------------------------
(* A directory tree two levels deep on two clusters.                        *)
EXTENDS FatDir
AliasOf == [l \in Long |-> <<"b1", "b2">>]
=============================================================================
