------------------------ MODULE PaperPortfolioLedger ------------------------
(***************************************************************************)
(* The accounting core of the paper portfolio,                             *)
(* src/paper_trading/paper_portfolio_ledger.py: project replays the events *)
(* of one epoch into a portfolio state, and refuses a history that is not  *)
(* a legal one. The events are those of src/paper_trading/ledger_events.py *)
(* with the payload that the accounting reads. Amounts are integers: the   *)
(* rounding of floats, and overflow to infinity, are left out.             *)
(***************************************************************************)
EXTENDS Integers, Sequences, SequencesExt, Functions

\* The make_*_event constructors.
EpochCreated(seq, capital) ==
    [type |-> "EPOCH_CREATED", seq |-> seq, trade |-> "epoch", capital |-> capital]
PositionOpened(seq, t, symbol, side, principal, price, fee) ==
    [type |-> "POSITION_OPENED", seq |-> seq, trade |-> t, symbol |-> symbol, side |-> side,
     principal |-> principal, price |-> price, fee |-> fee]
PositionClosed(seq, t, price, fee) ==
    [type |-> "POSITION_CLOSED", seq |-> seq, trade |-> t, price |-> price, fee |-> fee]
PositionUnresolved(seq, t) ==
    [type |-> "POSITION_UNRESOLVED", seq |-> seq, trade |-> t]

\* _event_id: one id for each kind of event of each trade.
EventId(e) == <<e.type, e.trade>>

NoTrades == [t \in {} |-> 0]

\* PaperPortfolioState; ok is FALSE once project has raised.
EmptyState ==
    [ok |-> TRUE, epoch |-> FALSE, capital |-> 0, cash |-> 0, reserved |-> 0,
     unresolved |-> 0, realized |-> 0, fees |-> 0, open |-> NoTrades, lost |-> NoTrades,
     closed |-> {}, seq |-> 0, seen |-> {}]

\* gross_pnl, derived from the entry and the exit price alone.
GrossPnl(pos, exit) ==
    LET move == IF pos.side = "LONG" THEN exit - pos.price ELSE pos.price - exit
    IN (pos.principal * move) \div pos.price

With(f, t, v) == [x \in DOMAIN f \cup {t} |-> IF x = t THEN v ELSE f[x]]
Without(f, t) == Restrict(f, DOMAIN f \ {t})

\* The checks of _apply that every event is subject to.
InOrder(s, e) ==
    /\ EventId(e) \notin s.seen
    /\ s.epoch <=> e.type # "EPOCH_CREATED"
    /\ e.seq = s.seq + 1

CashAfterOpen(s, e) == s.cash - e.principal - e.fee

\* Faulty variant: the entry fee is charged again at the close.
CashAfterCloseTwice(s, e) ==
    LET pos == s.open[e.trade]
    IN s.cash + pos.principal + GrossPnl(pos, e.price) - e.fee - pos.fee

CashAfterClose(s, e) ==
    LET pos == s.open[e.trade] IN s.cash + pos.principal + GrossPnl(pos, e.price) - e.fee

\* Whether _apply returns a state rather than raise a LedgerReplayError.
Accepts(s, e) ==
    /\ InOrder(s, e)
    /\ CASE e.type = "EPOCH_CREATED" -> e.capital > 0
         [] e.type = "POSITION_OPENED" ->
                /\ e.trade \notin DOMAIN s.open \cup DOMAIN s.lost \cup s.closed
                /\ e.principal > 0 /\ e.price > 0 /\ e.fee >= 0
                /\ CashAfterOpen(s, e) >= 0
         [] e.type = "POSITION_CLOSED" ->
                /\ e.trade \in DOMAIN s.open
                /\ e.price > 0 /\ e.fee >= 0
                /\ CashAfterClose(s, e) >= 0
         [] e.type = "POSITION_UNRESOLVED" -> e.trade \in DOMAIN s.open

ApplyEpochCreated(s, e) == [s EXCEPT !.epoch = TRUE, !.capital = e.capital, !.cash = e.capital]

ApplyPositionOpened(s, e) ==
    [s EXCEPT !.cash = CashAfterOpen(s, e),
              !.reserved = @ + e.principal,
              !.fees = @ + e.fee,
              !.open = With(@, e.trade, [symbol |-> e.symbol, side |-> e.side,
                                         principal |-> e.principal, price |-> e.price,
                                         fee |-> e.fee])]

ApplyPositionClosed(s, e) ==
    LET pos == s.open[e.trade] IN
    [s EXCEPT !.cash = CashAfterClose(s, e),
              !.reserved = @ - pos.principal,
              !.fees = @ + e.fee,
              !.realized = @ + GrossPnl(pos, e.price) - pos.fee - e.fee,
              !.open = Without(@, e.trade),
              !.closed = @ \cup {e.trade}]

\* The principal moves aside; realized PnL is untouched, the outcome unknown.
ApplyPositionUnresolved(s, e) ==
    LET pos == s.open[e.trade] IN
    [s EXCEPT !.reserved = @ - pos.principal,
              !.unresolved = @ + pos.principal,
              !.open = Without(@, e.trade),
              !.lost = With(@, e.trade, pos)]

Applied(s, e) ==
    LET next == CASE e.type = "EPOCH_CREATED" -> ApplyEpochCreated(s, e)
                  [] e.type = "POSITION_OPENED" -> ApplyPositionOpened(s, e)
                  [] e.type = "POSITION_CLOSED" -> ApplyPositionClosed(s, e)
                  [] e.type = "POSITION_UNRESOLVED" -> ApplyPositionUnresolved(s, e)
    IN [next EXCEPT !.seq = e.seq, !.seen = @ \cup {EventId(e)}]

\* _apply; an error ends the replay.
Apply(s, e) == IF s.ok /\ Accepts(s, e) THEN Applied(s, e) ELSE [s EXCEPT !.ok = FALSE]

\* project
Project(events) ==
    LET after[k \in 0..Len(events)] ==
            IF k = 0 THEN EmptyState ELSE Apply(after[k - 1], events[k])
    IN after[Len(events)]

(***************************************************************************)
(* What the accounts of a state must satisfy                               *)
(***************************************************************************)

Total(positions, Amount(_)) == SumFunction([t \in DOMAIN positions |-> Amount(positions[t])])
PrincipalOf(pos) == pos.principal
FeeOf(pos) == pos.fee

\* Money is neither made nor lost: cash is never negative, what is reserved
\* is the principal of the open positions and what is unresolved that of the
\* unresolved ones, and together they are the initial capital plus the
\* realized PnL, less the entry fees of the positions without an outcome.
AccountsBalance(s) ==
    /\ s.cash >= 0
    /\ s.reserved = Total(s.open, PrincipalOf)
    /\ s.unresolved = Total(s.lost, PrincipalOf)
    /\ s.cash + s.reserved + s.unresolved =
            s.capital + s.realized - Total(s.open, FeeOf) - Total(s.lost, FeeOf)

=============================================================================
