-------------------------- MODULE MCPaperAuthority --------------------------
(***************************************************************************)
(* An instance of PaperAuthority for TLC.                                  *)
(***************************************************************************)
EXTENDS PaperAuthority

\* A long and a short order compete for one symbol.
OneSymbol == [t \in Trades |-> "BTC"]
LongAndShort == [t \in Trades |-> IF t = "t1" THEN "LONG" ELSE "SHORT"]
=============================================================================
