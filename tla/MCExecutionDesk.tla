--------------------------- MODULE MCExecutionDesk ---------------------------
(***************************************************************************)
(* With an amount step of 4, half of 8 units is one step, while half of 6  *)
(* (an estimate) and half of 4 (filled in part) are rounded to nothing:    *)
(* that partial close is refused.  At the low price the float product of 8 *)
(* is too small, and 4 are sold.  At one price the time stop may fire, at  *)
(* the other the partial close and after it the take profit; the other     *)
(* full closes differ from these two in their name only.                   *)
(***************************************************************************)
EXTENDS ExecutionDesk

MCTriggers == [r \in CloseReasons |->
    CASE r \in {"partial_close", "take_profit"} -> {"high"}
      [] r = "time_stop" -> {"low"}
      [] OTHER -> {}]

MCShaved == {<<8, "low">>}

\* One check that fires at any price.
AnyPrice == [r \in CloseReasons |-> IF r = "time_stop" THEN Prices ELSE {}]
=============================================================================
