------------------------------ MODULE MCWallet ------------------------------
(* The instance of Wallet that TLC checks.  One of the names is the text of *)
(* the other account's address; the second account has two keys, so that    *)
(* signing passes the limit of the count.                                   *)
EXTENDS Wallet

MCNames == {"alice", "GOD2"}
MCAddress == [GOD1 |-> 1, GOD2 |-> 2]
MCWifs == <<<<"k1">>, <<"k1", "k2">>>>
=============================================================================
