--------------------------- MODULE PositionManager ---------------------------
(***************************************************************************)
(* src/quant_hedge_ai/agents/execution/position_manager.py: the watcher    *)
(* thread (_tick) and the advisor loop (update_price_and_check) run the    *)
(* same checks on the same Position objects; the lock covers only the dict *)
(* of positions, never a check or a close.                                 *)
(*                                                                         *)
(* A pass over one position is: update_price, then liquidation defense,    *)
(* time stop, aging, break-even, partial close, trailing, TP and SL.       *)
(* Stops and targets are not computed: Triggers says at which prices a     *)
(* check may fire, so aging, break-even, update_market_data and the        *)
(* trailing update, which only move stop and target, are no steps.         *)
(***************************************************************************)
EXTENDS OrderRoute

CONSTANTS
    Shaved,      \* <<quantity, price>> pairs whose float product is below their product
    Triggers,    \* [CloseReasons -> SUBSET Prices]: where a check may fire
    MaxPasses    \* bound: passes over a position

ASSUME PositionAssumption ==
    /\ Shaved \subseteq Nat \X Prices
    /\ Triggers \in [CloseReasons -> SUBSET Prices]
    /\ MaxPasses \in Nat

VARIABLES
    paper,       \* paper_mode, or no exchange; fixed
    tracked,     \* decisions whose position is in _positions
    opened,      \* pos.opened_at, with the symbol its key: how often one was added
    qty,         \* pos.qty
    closed,      \* pos.closed
    partialDone, \* pos.partial_done
    price,       \* pos.current_price
    late,        \* [Decisions -> [Threads -> orders submitted after the position was closed]]
    passes       \* passes so far

book == <<paper, tracked, opened, qty, closed, partialDone, price, late, passes>>

BookTypeOK ==
    /\ paper \in BOOLEAN
    /\ tracked \subseteq Decisions
    /\ opened \in [Decisions -> Nat]
    /\ qty \in [Decisions -> 0..MaxQty]
    /\ closed \in [Decisions -> BOOLEAN]
    /\ partialDone \in [Decisions -> BOOLEAN]
    /\ price \in [Decisions -> Prices \cup {None}]
    /\ late \in [Decisions -> [Threads -> Nat]]
    /\ passes \in 0..MaxPasses

BookInit ==
    /\ paper \in BOOLEAN
    /\ tracked = {}
    /\ opened = [d \in Decisions |-> 0]
    /\ qty = [d \in Decisions |-> 0]
    /\ closed = [d \in Decisions |-> FALSE]
    /\ partialDone = [d \in Decisions |-> FALSE]
    /\ price = [d \in Decisions |-> None]
    /\ late = [d \in Decisions |-> [t \in Threads |-> 0]]
    /\ passes = 0

\* add_position: a new Position under a new key.
AddPosition(d, q) ==
    /\ tracked' = tracked \cup {d}
    /\ opened' = [opened EXCEPT ![d] = @ + 1]
    /\ qty' = [qty EXCEPT ![d] = q]
    /\ closed' = [closed EXCEPT ![d] = FALSE]
    /\ partialDone' = [partialDone EXCEPT ![d] = FALSE]
    /\ price' = [price EXCEPT ![d] = None]
    /\ UNCHANGED <<paper, late, passes>>

(***************************************************************************)
(* A pass                                                                  *)
(***************************************************************************)

\* A position that is not closed is taken up, and its price asked for.  By
\* the time the price is there the position may be closed.
BeginPass(t, d) ==
    /\ pc[t] = "idle" /\ d \in tracked /\ ~closed[d]
    /\ passes < MaxPasses /\ passes' = passes + 1
    /\ pc' = [pc EXCEPT ![t] = "price"]
    /\ job' = [job EXCEPT ![t] = [NoJob EXCEPT !.decision = d]]
    /\ UNCHANGED <<intents, held, net, unsold, paper, tracked, opened, qty, closed,
                   partialDone, price, late>>

\* update_price; all the checks are still to be made.  In paper mode the
\* watcher has no price.
UpdatePrice(t, x) ==
    /\ pc[t] = "price" /\ (t = Advisor \/ ~paper)
    /\ price' = [price EXCEPT ![job[t].decision] = x]
    /\ pc' = [pc EXCEPT ![t] = "check"]
    /\ job' = [job EXCEPT ![t].left = CloseReasons]
    /\ UNCHANGED <<intents, held, net, unsold, paper, tracked, opened, qty, closed,
                   partialDone, late, passes>>

\* The watcher's fetch_ticker failed, or there is no exchange: the last price
\* stays and only the time stop is checked, or nothing if there is none.
NoPrice(t) ==
    /\ pc[t] = "price" /\ t = Watcher
    /\ pc' = [pc EXCEPT ![t] = "check"]
    /\ job' = [job EXCEPT ![t].left =
                   IF price[job[t].decision] = None THEN {} ELSE {"time_stop"}]
    /\ UNCHANGED <<intents, held, net, unsold, book>>

\* The checks that follow the one with reason r.
Following(r) ==
    CASE r = "liquidation_defense" -> CloseReasons \ {"liquidation_defense"}
      [] r = "time_stop" -> {"partial_close", "trailing_stop", "take_profit", "stop_loss"}
      [] r = "partial_close" -> {"trailing_stop", "take_profit", "stop_loss"}
      [] r = "trailing_stop" -> {"take_profit", "stop_loss"}
      [] OTHER -> {}

\* Faulty variant: _close_position does not look at pos.closed.
FireClosed(t, r) ==
    LET d == job[t].decision IN
    /\ pc[t] = "check" /\ r \in job[t].left
    /\ price[d] \in Triggers[r]
    /\ r = "partial_close" => ~partialDone[d]
    /\ pc' = [pc EXCEPT ![t] = "send"]
    /\ job' = [job EXCEPT ![t].left = @ \cap Following(r), ![t].reason = r,
                          ![t].qty = IF r = "partial_close" THEN qty[d] \div 2 ELSE 0]
    /\ UNCHANGED <<intents, held, net, unsold, book>>

\* The next check that fires, those before it having changed nothing:
\* _send_close_order is entered for half of the position or all of it.
Fire(t, r) ==
    LET d == job[t].decision IN
    /\ pc[t] = "check" /\ r \in job[t].left
    /\ ~closed[d] /\ price[d] \in Triggers[r]
    /\ r = "partial_close" => ~partialDone[d]
    /\ pc' = [pc EXCEPT ![t] = "send"]
    /\ job' = [job EXCEPT ![t].left = @ \cap Following(r), ![t].reason = r,
                          ![t].qty = IF r = "partial_close" THEN qty[d] \div 2 ELSE 0]
    /\ UNCHANGED <<intents, held, net, unsold, book>>

\* No check that is left fires.
EndPass(t) ==
    /\ pc[t] = "check"
    /\ pc' = [pc EXCEPT ![t] = "idle"]
    /\ job' = [job EXCEPT ![t] = NoJob]
    /\ UNCHANGED <<intents, held, net, unsold, book>>

\* Back from _send_close_order, with the checks that are left or none.
Continue(t, left) ==
    /\ pc' = [pc EXCEPT ![t] = IF left = {} THEN "idle" ELSE "check"]
    /\ job' = [job EXCEPT ![t] = IF left = {} THEN NoJob
                 ELSE [NoJob EXCEPT !.decision = job[t].decision, !.left = left]]

(***************************************************************************)
(* _send_close_order                                                       *)
(***************************************************************************)

\* qty_override or pos.qty, read now: the other thread may have changed it since.
Requested(t) == IF job[t].qty # 0 THEN job[t].qty ELSE qty[job[t].decision]

\* authorize_order divides Decimal(str(qty * price)) by the price and rounds
\* down to the precision: where the float product is too small, an exact
\* multiple of the precision loses a whole step.
Normalized(q, x) ==
    IF q % AmountStep = 0 /\ <<q, x>> \in Shaved THEN Short(q, AmountStep)
    ELSE (q \div AmountStep) * AmountStep

\* pos.current_price; a check runs only after the first price.
Amount(t) == Normalized(Requested(t), price[job[t].decision])

\* NON_POSITIVE_AMOUNT, ABOVE_AUTHORIZED_EXPOSURE or PRECISION_COLLAPSE.
Authorized(t) ==
    /\ Requested(t) > 0
    /\ Requested(t) <= qty[job[t].decision]
    /\ Amount(t) > 0

CloseIntent(t) ==
    LET d == job[t].decision IN
    [decision |-> d, opened |-> opened[d], reason |-> job[t].reason,
     amount |-> Amount(t), price |-> price[d]]

Closing(t) == pc[t] = "send" /\ job[t].reason \in CloseReasons

\* Denied: by the authority or for want of market data, or for the quantity.
SendDenied(t) ==
    /\ Closing(t) /\ ~paper
    /\ Refused(t)
    /\ UNCHANGED book

SendPaper(t) ==
    /\ Closing(t) /\ paper
    /\ ReturnWith(t, "paper")
    /\ UNCHANGED <<intents, held, net, unsold, book>>

SendFirst(t) ==
    LET d == job[t].decision IN
    /\ Closing(t) /\ ~paper /\ Authorized(t)
    /\ SubmitFirst(t, CloseIntent(t))
    /\ late' = IF closed[d] THEN [late EXCEPT ![d][t] = @ + 1] ELSE late
    /\ UNCHANGED <<paper, tracked, opened, qty, closed, partialDone, price, passes>>

SendRepeated(t) ==
    /\ Closing(t) /\ ~paper /\ Authorized(t)
    /\ SubmitRecorded(t, CloseIntent(t)) \/ SubmitFails(t, CloseIntent(t))
    /\ UNCHANGED book

(***************************************************************************)
(* After the close order                                                   *)
(***************************************************************************)

\* Faulty variant: an unclear result counts as a close.
ConfirmedUnclear(mode) == mode \in {"live", "paper", "live_ambiguous"}

\* _close_position believes only these results.
Confirmed(mode) == mode \in {"live", "paper"}

\* Faulty variant: the half is taken off twice, for the order and for the check.
ReturnPartialTwice(t) ==
    LET d == job[t].decision IN
    /\ pc[t] = "return" /\ job[t].reason = "partial_close"
    /\ qty' = [qty EXCEPT ![d] = @ - 2 * job[t].qty]
    /\ partialDone' = [partialDone EXCEPT ![d] = TRUE]
    /\ LeftOut(d, Short(job[t].qty, job[t].filled))
    /\ Continue(t, job[t].left)
    /\ UNCHANGED <<intents, held, net, paper, tracked, opened, closed, price, late, passes>>

\* _check_partial_close does not look at the result: half is booked as sold.
ReturnPartial(t) ==
    LET d == job[t].decision IN
    /\ pc[t] = "return" /\ job[t].reason = "partial_close"
    /\ qty' = [qty EXCEPT ![d] = @ - job[t].qty]
    /\ partialDone' = [partialDone EXCEPT ![d] = TRUE]
    /\ LeftOut(d, Short(job[t].qty, job[t].filled))
    /\ Continue(t, job[t].left)
    /\ UNCHANGED <<intents, held, net, paper, tracked, opened, closed, price, late, passes>>

\* The position is closed, and listed and reported as such, perhaps a second time.
ReturnClosed(t) ==
    /\ pc[t] = "return" /\ job[t].reason \in FullReasons
    /\ Confirmed(job[t].mode)
    /\ closed' = [closed EXCEPT ![job[t].decision] = TRUE]
    /\ Continue(t, {})
    /\ UNCHANGED <<intents, held, net, unsold, paper, tracked, opened, qty, partialDone,
                   price, late, passes>>

\* The position stays open, and the pass goes on.
ReturnOpen(t) ==
    /\ pc[t] = "return" /\ job[t].reason \in FullReasons
    /\ ~Confirmed(job[t].mode)
    /\ Continue(t, job[t].left)
    /\ UNCHANGED <<intents, held, net, unsold, book>>

PositionStep(t) ==
    \/ \E d \in Decisions : BeginPass(t, d)
    \/ \E x \in Prices : UpdatePrice(t, x)
    \/ \E r \in CloseReasons : Fire(t, r)
    \/ NoPrice(t) \/ EndPass(t) \/ SendDenied(t) \/ SendPaper(t) \/ SendFirst(t) \/ SendRepeated(t)
    \/ ReturnPartial(t) \/ ReturnClosed(t) \/ ReturnOpen(t)
==============================================================================
