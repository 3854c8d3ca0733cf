--------------------------- MODULE PaperAuthority ---------------------------
(***************************************************************************)
(* Paper trading with the ledger as authority: MexcSimulator under         *)
(* PPL_AUTHORITY (src/paper_trading/mexc_simulator.py) opens and closes    *)
(* positions through PPLAuthorityRuntime                                   *)
(* (src/paper_trading/ppl_authority_runtime.py), which validates each      *)
(* event against the replay of the epoch before it makes it durable, and   *)
(* after a restart rebuilds the simulator's memory from the events.        *)
(*                                                                         *)
(* The event store appears here as what DurableEventStore shows of it: a   *)
(* log of events of which a prefix, firm, survives a power failure if the  *)
(* directory entry of its file does, and an append that may fail before or *)
(* after its event has become visible. Only the append that creates the    *)
(* file, and one that finds its event there, sync the entry. The store's   *)
(* directories are taken to exist and to be durable before the first bind: *)
(* what their creation can lose is the subject of DurableEventStore. The   *)
(* simulator's lock admits one operation at a time, so a single program    *)
(* counter is enough for the ordering thread and the monitor thread; what  *)
(* comes between the steps of an operation is a failure or a crash.        *)
(***************************************************************************)
EXTENDS PaperPortfolioLedger, FiniteSets

CONSTANTS
    Trades,          \* order ids, each the trade id of at most one position
    SymbolOf,        \* [Trades -> symbols]
    SideOf,          \* [Trades -> {"LONG", "SHORT"}]
    Capital,         \* initial_virtual_capital of the manifest
    Principal,       \* size of a position
    Required,        \* size * 1.01, the capital an order needs
    EntryPrice, EntryFee, ExitFee,
    ExitPrices,      \* prices the monitor may see
    None,            \* no trade
    MaxIOFaults,     \* bound: failing appends and fsyncs
    MaxShortWrites,  \* bound: appends that leave a fragment
    MaxCrashes       \* bound: process crashes and power failures

ASSUME TradesAssumption ==
    /\ None \notin Trades
    /\ DOMAIN SymbolOf = Trades
    /\ SideOf \in [Trades -> {"LONG", "SHORT"}]
ASSUME AmountsAssumption ==
    /\ Capital \in Nat \ {0} /\ Principal \in Nat \ {0} /\ EntryPrice \in Nat \ {0}
    /\ EntryFee \in Nat /\ ExitFee \in Nat /\ Required \in Nat
    /\ ExitPrices \subseteq Nat \ {0}
    /\ Principal % EntryPrice = 0
    /\ MaxIOFaults \in Nat /\ MaxShortWrites \in Nat /\ MaxCrashes \in Nat

VARIABLES
    log,       \* the epoch's events, as every load sees them
    replay,    \* replay[k] is the projection of the first k events: the last
               \* one is what every _reload computes
    firm,      \* how many of them survive a power failure ...
    entry,     \* ... "synced", or "unsynced": the file may be lost as a whole
    corrupt,   \* a fragment is in the store: every load and append raises
    up,        \* the simulator has started
    positions, \* _positions: trades in the order they entered the dict
    capital,   \* _capital
    queue,     \* trades the monitor has still to look at in this tick
    pc, cur,   \* where the operation in progress is, and its trade
    event,     \* the event it appends
    plan,      \* positions the restart plan calls UNRESOLVED_REQUIRED
    expired,   \* trades whose recovery_eligible_until has passed
    issued,    \* orders placed so far
    filled,    \* orders reported FILLED
    failed,    \* orders whose placement raised
    settled,   \* positions reported closed
    exposed,   \* trades with a report that was made while entry was unsynced
    compat,    \* ids of the events in the compatibility file, in order
    pending,   \* a thread is about to call sync_compatibility
    budget     \* what is left of each bound

store == <<log, replay, firm, entry, corrupt>>
memory == <<up, positions, capital>>
operation == <<pc, cur, event, plan>>
orders == <<issued, filled, failed, settled, exposed>>
downstream == <<compat, pending>>
vars == <<log, replay, firm, entry, corrupt, up, positions, capital, queue, pc, cur, event, plan, expired,
          issued, filled, failed, settled, exposed, compat, pending, budget>>

Faults == {"io", "short_write", "crash"}
NoEvent == [type |-> "NONE", seq |-> 0, trade |-> None]
Ledger == IF replay = <<>> THEN EmptyState ELSE Last(replay)
Stored(id) == {i \in 1..Len(log) : EventId(log[i]) = id}
Prefix(k) == SubSeq(log, 1, k)
Ids(events) == {EventId(events[i]) : i \in 1..Len(events)}

\* The members of seq at the given indices, in their order.
Picked(seq, indices) ==
    LET upto[k \in 0..Len(seq)] ==
            IF k = 0 THEN <<>>
            ELSE IF k \in indices THEN Append(upto[k - 1], seq[k])
            ELSE upto[k - 1]
    IN upto[Len(seq)]

\* The type invariant.
TypeOK ==
    /\ Len(replay) = Len(log) /\ firm \in 0..Len(log)
    /\ entry \in {"synced", "unsynced"}
    /\ corrupt \in BOOLEAN /\ up \in BOOLEAN /\ pending \in BOOLEAN
    /\ positions \in Seq(Trades)
    /\ \A i, j \in 1..Len(positions) :
            SymbolOf[positions[i]] = SymbolOf[positions[j]] => i = j
    /\ queue \in Seq(Trades)
    /\ capital \in Nat
    /\ pc \in {"idle", "append", "sync", "confirm", "opened", "closed", "recover"}
    /\ cur \in Trades \cup {None}
    /\ plan \subseteq Trades
    /\ expired \subseteq Trades
    /\ issued \subseteq Trades
    /\ filled \subseteq issued /\ failed \subseteq issued /\ settled \subseteq issued
    /\ exposed \subseteq issued
    /\ budget \in [Faults -> Nat]

Init ==
    /\ log = <<>> /\ replay = <<>> /\ firm = 0 /\ entry = "unsynced"
    /\ corrupt = FALSE
    /\ up = FALSE /\ positions = <<>> /\ capital = 0 /\ queue = <<>>
    /\ pc = "idle" /\ cur = None /\ event = NoEvent /\ plan = {}
    /\ expired = {}
    /\ issued = {} /\ filled = {} /\ failed = {} /\ settled = {}
    /\ exposed = {}
    /\ compat = <<>> /\ pending = FALSE
    /\ budget = [f \in Faults |->
                    CASE f = "io" -> MaxIOFaults
                      [] f = "short_write" -> MaxShortWrites
                      [] f = "crash" -> MaxCrashes]

Spend(f) ==
    /\ budget[f] > 0
    /\ budget' = [budget EXCEPT ![f] = @ - 1]

\* The operation appends e next.
StartAppend(t, e) ==
    /\ pc' = "append" /\ cur' = t /\ event' = e

\* The operation is over.
Finish == pc' = "idle" /\ cur' = None /\ event' = NoEvent /\ plan' = {}

\* A report is exposed if the entry of the epoch's file is not synced.
Report(t) == exposed' = IF entry = "synced" THEN exposed ELSE exposed \cup {t}

\* An exception leaves the operation: memory stays as it was, a failed order
\* is known as such, a failed bind leaves the process down, and the monitor
\* gives up the rest of its tick.
Abort ==
    /\ Finish
    /\ failed' = IF event.type = "POSITION_OPENED" THEN failed \cup {cur} ELSE failed
    /\ queue' = IF event.type = "POSITION_CLOSED" THEN <<>> ELSE queue
    /\ UNCHANGED <<issued, filled, settled, exposed>>

(***************************************************************************)
(* PPLAuthorityRuntime.bind and MexcSimulator.start                        *)
(***************************************************************************)

\* The epoch is created if the store has none, else replayed and the
\* restart plan made.
BindLoad ==
    /\ pc = "idle" /\ ~up /\ ~corrupt
    /\ \/ /\ log = <<>>
          /\ StartAppend(None, EpochCreated(1, Capital))
          /\ plan' = {}
       \/ /\ log # <<>>
          /\ pc' = "recover" /\ cur' = None /\ event' = NoEvent
          /\ plan' = {t \in DOMAIN Ledger.open : t \in expired}
    /\ UNCHANGED <<store, memory, queue, expired, orders, downstream, budget>>

\* One POSITION_UNRESOLVED for each position whose window has closed.
BindUnresolved(t) ==
    /\ pc = "recover"
    /\ t \in plan
    /\ StartAppend(t, PositionUnresolved(Len(log) + 1, t))
    /\ plan' = plan \ {t}
    /\ UNCHANGED <<store, memory, queue, expired, orders, downstream, budget>>

\* The open positions of the replay, in the order they were opened.
Restored ==
    LET StillOpen(e) == e.type = "POSITION_OPENED" /\ e.trade \in DOMAIN Ledger.open
        opens == Picked(log, {i \in 1..Len(log) : StillOpen(log[i])})
    IN [i \in 1..Len(opens) |-> opens[i].trade]

\* The simulator takes over capital and open positions.
BindDone ==
    /\ pc = "recover" /\ plan = {}
    /\ up' = TRUE
    /\ capital' = Ledger.cash
    /\ positions' = Restored
    /\ Finish
    /\ pending' = TRUE
    /\ UNCHANGED <<store, queue, expired, orders, compat, budget>>

(***************************************************************************)
(* place_market_order and _fill_market_ppl_authority                       *)
(***************************************************************************)

\* Faulty variant: only the simulator's memory is asked.
OccupiedInMemory(s) == \E i \in 1..Len(positions) : SymbolOf[positions[i]] = s

\* Faulty variant: only the ledger is asked.
OccupiedInLedger(s) == \E t \in DOMAIN Ledger.open : SymbolOf[t] = s

\* A position is open on the symbol, in memory or in the ledger.
Occupied(s) ==
    \/ \E i \in 1..Len(positions) : SymbolOf[positions[i]] = s
    \/ \E t \in DOMAIN Ledger.open : SymbolOf[t] = s

\* place_market_order refuses before it asks for the lock: admissions are
\* frozen or not granted, there is no price, or it is stale.
OrderTurnedDown(t) ==
    /\ up /\ t \notin issued
    /\ issued' = issued \cup {t}
    /\ UNCHANGED <<store, memory, operation, queue, expired, filled, failed, settled,
                   exposed, downstream, budget>>

OrderRejected(t) ==
    /\ pc = "idle" /\ up /\ t \notin issued
    /\ ~corrupt
    /\ Occupied(SymbolOf[t]) \/ capital < Required
    /\ issued' = issued \cup {t}
    /\ UNCHANGED <<store, memory, operation, queue, expired, filled, failed, settled,
                   exposed, downstream, budget>>

\* consistent_view raises on a store with a fragment in it.
OrderRaises(t) ==
    /\ pc = "idle" /\ up /\ t \notin issued
    /\ corrupt
    /\ issued' = issued \cup {t}
    /\ failed' = failed \cup {t}
    /\ UNCHANGED <<store, memory, operation, queue, expired, filled, settled,
                   exposed, downstream, budget>>

OrderAccepted(t) ==
    /\ pc = "idle" /\ up /\ t \notin issued
    /\ ~corrupt
    /\ ~Occupied(SymbolOf[t]) /\ capital >= Required
    /\ issued' = issued \cup {t}
    /\ StartAppend(t, PositionOpened(Len(log) + 1, t, SymbolOf[t], SideOf[t],
                                     Principal, EntryPrice, EntryFee))
    /\ UNCHANGED <<store, memory, plan, queue, expired, filled, failed, settled,
                   exposed, downstream, budget>>

\* The OPEN is durable: it enters the simulator's memory.
OrderFilled ==
    /\ pc = "opened"
    /\ positions' = Append(positions, cur)
    /\ capital' = Ledger.cash
    /\ filled' = filled \cup {cur}
    /\ Report(cur)
    /\ Finish
    /\ pending' = TRUE
    /\ UNCHANGED <<store, up, queue, expired, issued, failed, settled, compat, budget>>

(***************************************************************************)
(* _append_semantically_validated: the replay, then the durable store      *)
(***************************************************************************)

\* Faulty variant: the event is not replayed before it is written.
ValidUnchecked(e) == TRUE

\* project(self._events + (event,)) does not raise.
Valid(e) == Accepts(Ledger, e)

Known == Stored(EventId(event)) # {}

\* A new event is refused before it is written: LedgerReplayError.
AppendRefused ==
    /\ pc = "append" /\ ~Known
    /\ ~Valid(event)
    /\ Abort
    /\ UNCHANGED <<store, memory, expired, downstream, budget>>

AppendWrite ==
    /\ pc = "append" /\ ~Known
    /\ Valid(event)
    /\ log' = Append(log, event)
    /\ replay' = Append(replay, Apply(Ledger, event))
    /\ pc' = "sync"
    /\ UNCHANGED <<firm, entry, corrupt, memory, queue, cur, event, plan, expired, orders,
                   downstream, budget>>

\* A retry: the store compares the events and confirms the one it has.
AppendKnown ==
    /\ pc = "append" /\ Known
    /\ \A i \in Stored(EventId(event)) : log[i] = event
    /\ pc' = "confirm"
    /\ UNCHANGED <<store, memory, queue, cur, event, plan, expired, orders, downstream, budget>>

\* OSError, and the log is as it was, or a fragment is left in it.
AppendFails ==
    /\ pc = "append"
    /\ \/ Spend("io") /\ UNCHANGED corrupt
       \/ ~Known /\ Spend("short_write") /\ corrupt' = TRUE
    /\ Abort
    /\ UNCHANGED <<log, replay, firm, entry, memory, expired, downstream>>

\* Where the operation goes on after its append.
Continue ==
    CASE event.type = "POSITION_OPENED" -> "opened"
      [] event.type = "POSITION_CLOSED" -> "closed"
      [] event.type = "POSITION_UNRESOLVED" -> "recover"
      [] event.type = "EPOCH_CREATED" -> "recover"

\* Faulty variant: the event is taken for durable without fsync.
AppendSyncSkipped ==
    /\ pc = "sync"
    /\ pc' = Continue
    /\ UNCHANGED <<store, memory, queue, cur, event, plan, expired, orders, downstream, budget>>

\* The file is synced and, if this append created it, its entry.
AppendSync ==
    /\ pc = "sync"
    /\ firm' = Len(log)
    /\ entry' = IF event.type = "EPOCH_CREATED" THEN "synced" ELSE entry
    /\ pc' = Continue
    /\ UNCHANGED <<log, replay, corrupt, memory, queue, cur, event, plan, expired, orders,
                   downstream, budget>>

\* The event is there already, from this operation's first attempt or an
\* earlier operation: the store syncs the file and its entry.
AppendConfirm ==
    /\ pc = "confirm"
    /\ firm' = Len(log)
    /\ entry' = "synced"
    /\ pc' = Continue
    /\ UNCHANGED <<log, replay, corrupt, memory, queue, cur, event, plan, expired, orders,
                   downstream, budget>>

\* An fsync fails, and the event is visible and not durable, or the reload
\* after the append does. An OPEN is tried once more as it is, and found;
\* everything else, and the second attempt, raises.
AppendSyncFails ==
    /\ pc \in {"sync", "confirm"}
    /\ Spend("io")
    /\ \/ UNCHANGED <<firm, entry>>
       \/ /\ firm' = Len(log)
          /\ entry' = IF pc = "confirm" \/ event.type = "EPOCH_CREATED" THEN "synced" ELSE entry
    /\ \/ /\ pc = "sync" /\ event.type = "POSITION_OPENED"
          /\ pc' = "confirm"
          /\ UNCHANGED <<cur, event, plan, queue, orders>>
       \/ /\ pc = "confirm" \/ event.type # "POSITION_OPENED"
          /\ Abort
    /\ UNCHANGED <<log, replay, corrupt, memory, expired, downstream>>

(***************************************************************************)
(* _monitor_loop, _check_positions, _close_position_ppl_authority          *)
(***************************************************************************)

\* Faulty variant: the first exception ends the monitor's thread.
MonitorTickUntilFault ==
    /\ budget["io"] = MaxIOFaults
    /\ pc = "idle" /\ up /\ queue = <<>> /\ positions # <<>>
    /\ queue' = positions
    /\ UNCHANGED <<store, memory, operation, expired, orders, downstream, budget>>

MonitorTick ==
    /\ pc = "idle" /\ up /\ queue = <<>> /\ positions # <<>>
    /\ queue' = positions
    /\ UNCHANGED <<store, memory, operation, expired, orders, downstream, budget>>

\* No price, or neither take-profit, stop-loss nor timeout is due.
MonitorPass ==
    /\ pc = "idle" /\ up /\ queue # <<>>
    /\ queue' = Tail(queue)
    /\ UNCHANGED <<store, memory, operation, expired, orders, downstream, budget>>

\* The CLOSE that an earlier attempt has written, or a new one.
CloseEvent(t, price) ==
    LET written == Stored(<<"POSITION_CLOSED", t>>) IN
    IF written = {} THEN PositionClosed(Len(log) + 1, t, price, ExitFee)
    ELSE log[CHOOSE i \in written : TRUE]

\* _positions.pop
WithoutPosition(t) == Picked(positions, {i \in 1..Len(positions) : positions[i] # t})

\* Faulty variant: the position leaves the memory before the CLOSE is durable.
MonitorCloseMemoryFirst(t) ==
    /\ pc = "idle" /\ up /\ queue # <<>> /\ t = Head(queue)
    /\ ~corrupt
    /\ \E price \in ExitPrices : StartAppend(t, CloseEvent(t, price))
    /\ positions' = WithoutPosition(t)
    /\ queue' = Tail(queue)
    /\ UNCHANGED <<store, up, capital, plan, expired, orders, downstream, budget>>

\* The position's exit is due at the price the monitor sees.
MonitorClose(t) ==
    /\ pc = "idle" /\ up /\ queue # <<>> /\ t = Head(queue)
    /\ ~corrupt
    /\ \E price \in ExitPrices : StartAppend(t, CloseEvent(t, price))
    /\ queue' = Tail(queue)
    /\ UNCHANGED <<store, memory, plan, expired, orders, downstream, budget>>

PositionSettled ==
    /\ pc = "closed"
    /\ positions' = WithoutPosition(cur)
    /\ capital' = Ledger.cash
    /\ settled' = settled \cup {cur}
    /\ Report(cur)
    /\ Finish
    /\ pending' = TRUE
    /\ UNCHANGED <<store, up, queue, expired, issued, filled, failed, compat, budget>>

(***************************************************************************)
(* sync_compatibility                                                      *)
(***************************************************************************)

Lifecycle(e) == e.type # "EPOCH_CREATED"

\* Faulty variant: rows are not recognised by their projection id.
MissingRowsAll == Picked(log, {i \in 1..Len(log) : Lifecycle(log[i])})

\* The events without a row in the compatibility file.
MissingRows ==
    Picked(log, {i \in 1..Len(log) : Lifecycle(log[i]) /\ ~Contains(compat, EventId(log[i]))})

\* Outside the simulator's lock; a corrupt store makes it raise, which is
\* swallowed.
SyncCompatibility ==
    /\ pending
    /\ pending' = FALSE
    /\ compat' = IF corrupt THEN compat
                 ELSE compat \o [i \in 1..Len(MissingRows) |-> EventId(MissingRows[i])]
    /\ UNCHANGED <<store, memory, operation, queue, expired, orders, budget>>

(***************************************************************************)
(* Time and crashes                                                        *)
(***************************************************************************)

\* Time passes the position's recovery_eligible_until. Only a bind looks at it,
\* with one value of now, so it is enough to let time pass before a bind.
Time(t) ==
    /\ pc = "idle" /\ ~up
    /\ t \in DOMAIN Ledger.open \ expired
    /\ expired' = expired \cup {t}
    /\ UNCHANGED <<store, memory, operation, queue, orders, downstream, budget>>

Down ==
    /\ up' = FALSE /\ positions' = <<>> /\ capital' = 0 /\ queue' = <<>>
    /\ Finish
    /\ pending' = FALSE

\* The process dies; what it was appending may be left as a fragment.
ProcessCrash ==
    /\ up \/ pc # "idle"
    /\ Spend("crash")
    /\ Down
    /\ corrupt' \in {corrupt} \cup (IF pc = "append" /\ ~Known THEN {TRUE} ELSE {})
    /\ UNCHANGED <<log, replay, firm, entry, expired, orders, compat>>

\* The host dies: the file is lost with its entry, or events beyond the
\* durable prefix are, the first of them leaving a fragment or not. A file
\* left without a record is refused like one with a fragment.
PowerFailure ==
    /\ Spend("crash")
    /\ Down
    /\ \/ /\ entry = "unsynced"
          /\ log' = <<>> /\ replay' = <<>> /\ firm' = 0 /\ corrupt' = FALSE
          /\ UNCHANGED entry
       \/ \E k \in firm..Len(log) :
          /\ log' = Prefix(k)
          /\ replay' = SubSeq(replay, 1, k)
          /\ firm' = k
          /\ corrupt' \in {corrupt} \cup (IF k < Len(log) THEN {TRUE} ELSE {})
          /\ k = 0 /\ log # <<>> => corrupt'
          /\ entry' = IF k > 0 \/ corrupt' THEN "synced" ELSE entry
    /\ UNCHANGED <<expired, orders, compat>>

-----------------------------------------------------------------------------

Work ==
    \/ BindLoad \/ (\E t \in Trades : BindUnresolved(t)) \/ BindDone
    \/ OrderFilled \/ AppendRefused \/ AppendWrite \/ AppendKnown \/ AppendSync
    \/ AppendConfirm \/ PositionSettled

Order(t) == OrderTurnedDown(t) \/ OrderRejected(t) \/ OrderRaises(t) \/ OrderAccepted(t)

Next ==
    \/ Work \/ AppendFails \/ AppendSyncFails
    \/ \E t \in Trades : Order(t) \/ MonitorClose(t) \/ Time(t)
    \/ MonitorTick \/ MonitorPass \/ SyncCompatibility
    \/ ProcessCrash \/ PowerFailure

Spec == Init /\ [][Next]_vars

\* An operation goes on, the process is restarted, time passes, the monitor
\* ticks, and a price is available again and again for a position it reaches.
FairSpec ==
    /\ Spec
    /\ WF_vars(Work) /\ WF_vars(MonitorTick) /\ WF_vars(MonitorPass)
    /\ \A t \in Trades : WF_vars(Time(t)) /\ SF_vars(MonitorClose(t))

(***************************************************************************)
(* Properties                                                              *)
(***************************************************************************)

\* The epoch can always be replayed, from nothing, to the state the runtime
\* works with: an event that the projection refuses is never written,
\* whatever failed before, so it cannot poison the epoch.
EpochReplayable == Ledger.ok /\ Ledger = Project(log)

\* Over all orders, closes, retries, crashes and restarts the accounts of
\* the replayed ledger balance: no fee is charged twice, no principal is
\* released twice, and an unresolved outcome is neither zero nor cash.
LedgerBalances == Ledger.epoch => AccountsBalance(Ledger)

\* At most one position is open on a symbol, also when an OPEN has reached
\* the store and not the simulator's memory.
OneOpenPerSymbol ==
    \A t, u \in DOMAIN Ledger.open : SymbolOf[t] = SymbolOf[u] => t = u

\* Durable first: a position reported filled or closed is so in the part of
\* the ledger that survives a power failure, unless the report was exposed
\* by a creation of the epoch's file that was interrupted and never confirmed.
ReportedDurable ==
    LET Survives(type, t) == entry = "synced" /\ <<type, t>> \in Ids(Prefix(firm)) IN
    /\ \A t \in filled \ exposed : Survives("POSITION_OPENED", t)
    /\ \A t \in settled \ exposed : Survives("POSITION_CLOSED", t)

InMemory == {positions[i] : i \in 1..Len(positions)}

\* Between operations the simulator's memory is the ledger's: it monitors
\* only positions whose OPEN is written and that were not given up; an open
\* position it does not monitor is one whose order failed; and if there is
\* none, nor a CLOSE still to be confirmed, its capital is the ledger's cash.
MemoryFollowsLedger ==
    LET open == DOMAIN Ledger.open IN
    up /\ pc = "idle" =>
        /\ InMemory \subseteq open \cup Ledger.closed
        /\ open \ InMemory \subseteq failed
        /\ InMemory = open => capital = Ledger.cash

\* The compatibility file has each event once, and the end of a position only
\* after its beginning, however often it is synchronised.
CompatibilityOnce ==
    \A i, j \in 1..Len(compat) :
        /\ compat[i] = compat[j] => i = j
        /\ compat[i][2] = compat[j][2] /\ compat[j][1] = "POSITION_OPENED" => j <= i

\* Closing some position at some price would overdraw the cash: the ledger
\* refuses it, and the monitor gives up its tick at that position.
Overdrawn ==
    \E t \in DOMAIN Ledger.open, price \in ExitPrices :
        ~Accepts(Ledger, PositionClosed(Len(log) + 1, t, price, ExitFee))

\* A filled position is closed or declared unresolved in the end, through
\* failures and restarts, unless its report was exposed, the store is corrupt
\* or a loss larger than the free cash blocks the monitor.
PositionsResolve ==
    \A t \in Trades :
        t \in filled ~>
            t \in Ledger.closed \cup DOMAIN Ledger.lost \cup exposed \/ corrupt \/ Overdrawn

=============================================================================
