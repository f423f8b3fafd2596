--------------------------- MODULE MCScriptEngine ---------------------------
(***************************************************************************)
(* Small instances of ScriptEngine.  Amounts have four bits and one        *)
(* decimal digit in base 2.                                                *)
(***************************************************************************)
EXTENDS ScriptEngine, TLC

\* 0 is the sender, 1 another live account, 2 a destroyed one, 3 is unknown.
MCAccounts == 0 .. 3
MCFound == <<"live", "destroyed", "none">> @@ (0 :> "live")
MCVerified == <<"NoMatchingSigs", "InsufficientThreshold", "Ok">> @@ (0 :> "Ok")

MCAmounts == {-1, 2}

MCArgLists ==
    { <<>>,
      <<Account(1), Amount(2)>>,
      <<Amount(1), Amount(1), Amount(1), Amount(1)>> }
=============================================================================
