# Formal models of the crypto-ia-terminal trading core

TLA+ models of the parts of this repository that move money or decide what is
durable, the TLC configurations that check them on small instances, and TLAPS
proofs of their safety properties for every value of the constants.

## 1. The system

The repository is a Python trading terminal: an advisor loop produces decisions,
an execution engine turns them into exchange orders, a position manager closes
positions, a paper simulator plays the same game with virtual capital, and a
layer of supervision, governance and reporting surrounds them. Most of its lines
are indicators, dashboards, reports and one-off tools. The core logic whose
mistakes are hard to see in a test is in the durable protocols:

| Part | State it keeps | Operations | Interacts with | What is hard | What makes it correct |
|---|---|---|---|---|---|
| Order intent protocol (`quant_hedge_ai/agents/execution/order_intent_protocol.py`) | an append-only JSONL journal, digest locks, a flock, one RLock per journal object | `submit`, `reconcile`, `append_transition` | called by the execution engine and the position manager, calls the exchange | threads, coordinators and processes on one file; crash between record and request; lost answers; failed fsync; torn lines | an intent is sent once, only after it is durably recorded; the journal is true of the exchange; states move along the table; every call returns |
| Durable event store (`paper_trading/durable_event_store.py`) | one file per epoch in a directory, a flock | `append`, `load_epoch` | used by the authority runtime and the shadow bridge | a crash between any two system calls; durability of directories and entries; retries | what is acknowledged survives a power failure; no accepted append makes the store unreadable |
| Paper portfolio ledger (`paper_trading/paper_portfolio_ledger.py`, `ledger_events.py`) | none: a projection of an event sequence | `project` | used by the authority runtime and the simulator | accounting over open, close and unresolved positions | money is conserved, cash is never negative, illegal histories are refused |
| Authority runtime (`paper_trading/ppl_authority_runtime.py`, `ppl_recovery.py`) | events and projection of one epoch | `bind`, `commit_open`, `commit_close`, `sync_compatibility` | store, ledger, simulator | failures after an event is visible; restart in the middle of a recovery | the epoch can always be replayed; restart loses no position |
| MEXC simulator (`paper_trading/mexc_simulator.py`) | positions and capital in memory | `start`, `place_market_order`, the monitor thread | authority runtime | memory and ledger drift apart on failures and retries | one position per symbol; what is reported is durable; every position ends |
| Compatibility projection (`paper_trading/ppl_compatibility.py`) | a derived JSONL file | `project_ppl_to_legacy_jsonl` | read by the legacy reports | repeated and late synchronisation | each event once, in order |
| Execution engine (`execution_engine.py`, `decision_identity.py`, `order_authorization.py`) | the decision journal: the last readable record of each decision id and the intent it is bound to | `persist`, `bind_intent`, `create_order`, `create_futures_order`, `authorize_order` | advisor loop, order intents, position manager | a decision placed again after a crash, at another price; a binding lost to a torn line; an order executed whose answer is lost | a decision leads to one entry order; only an acknowledged order becomes a position |
| Position manager (`position_manager.py`) | open positions in memory: quantity, closed, partial close done, last price | `add_position`, watcher tick, `update_price_and_check`, `_send_close_order` | advisor loop, order intents | two threads work on one position without a lock; results that are ignored; partial fills; quantities that go through a float product; intents that contain the price, so that a retry is another intent | a closed position was acknowledged as closed; a thread sends at most one order after the close; the exchange holds no more of a position than the book and the known shortfalls say |
| Shadow ledger and cutover (`legacy_ppl_bridge.py`, `ppl_shadow.py`, `paper_epoch.py`) | a shadow epoch | observe open and close, gate | simulator, store | lost or reordered observations | the shadow equals the legacy portfolio when the gate opens |
| Tracking and boot gate (`system/pending_order_tracker.py`, `position_reconciler.py`, `boot_gate.py`) | orders by status | track, reconcile, `check` | cold start, exchange | unknown orders at start | no trading while an order's fate is unknown |
| Operating states (`system/state_machine.py`, `cold_start/`, `core/runtime_state_machine.py`) | current state, persisted | transitions | everything | illegal sequences, restart | only legal transitions |
| Kill switches and circuit breakers (`supervision/`, `risk/`) | switch and breaker states | trip, back off, resume | execution | time-outs racing with resets | a tripped switch stays tripped until it is reset |
| Operator decisions (`observability/operator_decisions/durable_store.py`) | a SQLite file with the event journal and an index of commands; an anchor file with the last accepted checkpoint | `admit`, `rebuild_command_index`, `project` | signing authorities outside the process | a commit whose answer is lost; statements that expire between two attempts; projections that read and accept in separate steps; a journal file that is restored or altered | answers are true; one event for each key and command; a refusal as expired is final; the anchor never goes back |

`PROJECT.json` lists the same parts as components, with the ones that are only
presentation or numerical code.

## 2. Modules

### OrderIntentProtocol

Threads (`Workers`) call `submit` and `reconcile` on coordinators; each
coordinator has its own journal object, all of them on one file. The journal is
kept as what a replay of it gives: `latest` (the last parsable record of each
digest, what every reader sees), `durable` (the same for the part fsync has
covered), and `tail`, which says whether the file ends in a fragment.
`digestLock`, `flock` and `journalLock` are the three kinds of lock. The
exchange is `calls`, `placed`, `refused` (what was sent and what became of it)
and `foreign` (orders under one of our ids that we did not place).

`submit` is the sequence SubmitCalled, AcquireDigestLock, AcquireFlock, Check...,
then two appends, Mutate, MutationAnswer and a last append; `append_transition` is
AppendValidate, AppendWrite and one of the Sync actions, because another journal
object, or a crash, can come between these. The flock is released with the sync of
SUBMISSION_STARTED, as in the code. `reconcile` takes the digest lock and no
flock, reads, looks up, and appends. FlockFails, ReadRaises, AppendWriteFails,
AppendShortWrite, AppendSyncFails and ReconcileLookupFails are the failing
system calls and callbacks; ProcessCrash leaves what was written, PowerFailure takes back any of
the records fsync has not covered.

The digest of an intent stands for the intent; `ClientOrderId` is an arbitrary
function of it, so ids may collide. A rejection answer is taken to be true: how
`mutate` classifies exception texts is not modelled. Two details of replay are
simplified: `find_by_client_order_id` returns the first record it meets, so when
two digests with one id are both in the journal either answer of the check is
allowed; and a power failure takes records back per digest, as the whole
unsynced suffix of that digest.

### SubmitOnce

What the coordinator promises, without journal, locks or failures: an intent is
sent at most once and never under an id already used, the exchange decides once,
and what is durably known is true and final. `ImplementsSubmitOnce` is the
refinement: `sent` is `calls`, `fate` what the exchange has decided (`Fate`), `known`
the settled part of `durable` (`Meaning`).

### DurableEventStore

Processes append and load events. A file is the sequence of its whole records,
a flag for a trailing fragment, the number of records that fsync has covered
(`synced`) and whether its directory entry is durable (`linked`). The files are at
the bottom of a hierarchy of `Depth` directories that may be missing (`root/epochs`,
`root` and what is above): `made` says how many of them there are, `firm` whose entry in
the directory above is durable. `append` is one action per system call that matters.
`_ensure_directories` is EnsureLook (is the deepest there? the next one up?), EnsureFound,
EnsureMkdir (`mkdir(parents=True)` makes one directory after the other, and another process,
a crash or an error can come between), EnsureMade (which entries are to be synced: of
those this call found missing, or of every ancestor if none was and there is no file
yet) and EnsureSync, one fsync each. Then come LockExclusive, one of the
Scan actions (`_scan_store` with its verdict), Open, Write, SyncFile, SyncEntry, or
ConfirmFile and ConfirmEntry for an event that is already there. The ghost `halfMade`
records that a call found some of the directories and not all, and these not durable: such
a call syncs what it adds and trusts what it found, which is finding 5 below, and
ConfirmedDurable and DirectoryFirst are stated for the rest. Ancestors above directory 1
have been there for long, and so have those that exist at the start. `load_epoch`
looks for the file before it takes the lock (LoadCall) and scans under it (Load).
An fsync is taken to cover every earlier write to the file, also one whose own
fsync had failed, which is what `_durably_confirm_existing` relies on.

### PaperPortfolioLedger

`project` as a recursive function over the events: `Accepts` has the refusals,
`Applied` the effects, amounts are integers. `AccountsBalance` states what the
accounts of any replayed state must satisfy. RECOVERY_COMPLETED is left out
(nothing in the authority runtime appends it), as are float rounding, schema versions
and `equity()`.

### PaperAuthority

Extends the ledger with the authority mode of the simulator. Of the store it keeps
the log, the prefix `firm` that survives a power failure, whether the entry of the file
is synced, and whether a fragment makes every load raise: what
DurableEventStore shows of an append. The store's directories are taken to exist and to be
durable before the first bind: what their creation can lose is in DurableEventStore
alone. `replay[k]` is the projection of the first
k events, so that the state every `_reload` computes is at hand; `EpochReplayable`
checks it against `Project(log)`. The simulator's lock admits one operation at a
time, so one program counter is enough for the ordering and the monitor thread;
a failure or crash can come between its steps. An append is refused by the replay
(AppendRefused), written (AppendWrite), synced (AppendSync) or, when the event
is there, confirmed (AppendConfirm); a failing OPEN is repeated once, a failing CLOSE at the next
tick of the monitor with the event of the first attempt. `exposed` remembers the
trades reported while the entry of the file was not durable (finding 4 below).
The monitor's order of work is `queue`; prices come from `ExitPrices`, whether an
exit is due is the environment's choice. Time passes only while the process is
down, since only a bind compares it with the recovery windows. Left out: the legacy authority mode, the
admission records, limit and stop orders (refused in this mode), the manifest and its checks, torn
rows in the compatibility file.

### OperatorDecisionStore

`journal` and `index` are the two tables, `intact` says that no event row was
altered. A request stands for the fingerprint of candidate, owner transfer and
approval; a head hash stands for the events that it chains, so that comparing
hashes is comparing sequences (`Extends`). `admit` is one BEGIN IMMEDIATE
transaction and has one action per way through it: AdmitReplay, AdmitConverge,
AdmitNew, AdmitExpired; the refusals that write nothing are no steps. Whether the
answer reaches the caller makes no difference to the model: `replies` holds it and
the caller may call again. RebuildCommandIndex keeps only the commands that brought
an event. `project` is ProjectRead, ProjectAnchor (or ProjectRefuse) and
ProjectAccept (or ProjectFails), since `_read_events_verified`, `_load_anchor` and
`_accept_checkpoint` are separate transactions. `_accept_checkpoint` repeats the
comparison with the anchor for number and length only; the ghost `raced` records
that the anchor moved in between, and AvailableExtends is stated for the runs in
which it did not. Restore puts back a copy of the journal file with its index,
DamageEvent and DamageIndex alter rows. A row of `command_results` that somebody deletes
is not noticed by `_verify_index`, and its command could then bring a second
event; such a deletion is not among the faults of the model.

### OrderRoute, PositionManager, ExecutionDesk

Three layers of one model, from a decision to the end of its position.

OrderRoute is what the callers of `OrderIntentCoordinator.submit` see, in the states
that OrderIntentProtocol explains: an intent is its digest, it is sent once, a second
caller with the same intent waits and gets the recorded outcome. Execute is the
exchange; Acknowledge, Reject, AnswerLost and OutcomeRaises are what `mutate` and
the journal make of it. A market order is filled wholly or in part (`filled`, a multiple of
the precision), a reduceOnly one with no more than is held. `held` is the exchange's
position in the symbol, `net` the part of it that each decision's own orders explain, and
`unsold` adds up what acknowledged or booked orders of a decision left out: the unfilled part
of an acknowledged full close or of a booked partial close, and what an entry ordered beyond
what was booked. All decisions are on one symbol and one side.

PositionManager has the two threads. A pass is BeginPass, UpdatePrice or NoPrice,
any of the checks in their order (Fire, with the checks that are still to come in
`job.left`), EndPass. `_send_close_order` reads the quantity when it is called, so
the other thread may have changed it since the check. ReturnPartial reduces the
quantity whatever the result was, as `_check_partial_close` does. The amount of a close is
what `authorize_order` makes of it: it floors `Decimal(str(qty * price)) / price` to the
precision, and where the float product comes out too small an exact multiple of the
precision loses a whole step (0.7 at 3.0 with a precision of 0.1 gives 0.6). The parameter
`Shaved` says for which quantities and prices this happens. A position's key is its symbol and
`opened_at`; `opened` counts how often a decision's position was added, so that one added
again after a crash has other intents. At which prices a check may fire is
the parameter `Triggers`; aging, break-even, `update_market_data` and the trailing
update only move stops and targets and are therefore no steps of their own.
The two assignments of ReturnPartial are one step.

ExecutionDesk adds the decision journal and the entry: Persist, PlaceEntry
(authorize and `bind_intent`), PlaceRefused, PlacePaper, SubmitEntry, ReturnEntry, and
Crash. A torn write of the decision journal swallows the line after it; `swallowed` lists the
decisions whose binding was lost this way, which OneOrderPerDecision excepts.
A process places a decision once, and after a restart a persisted decision may be
placed again: `recover_pending_decisions` exists for this purpose, although nothing calls it
at run time yet. The quantity of a new position is what
`_build_position_from_execution` finds in the exchange's answer, the ordered or the filled
amount, or else its estimate `effective_size / entry_price` (`Estimates`, any even number of
units): always the estimate when the acknowledgement comes from the intent journal, which
keeps no answer. Ordered amounts are multiples of the precision; the fallback precision of a failed
`load_markets` is left out.

HoldingsAccounted has no exception for ambiguous answers, denied partial closes, races or
crashes; it excepts decisions whose binding was swallowed. It says that the exchange holds at
most the book's quantity, or one step of the precision if the position is closed, plus
`unsold`. It is one-sided on purpose: the exchange can hold less than the book says, since a close
whose answer was lost may have been executed, both threads may have sold, and an
estimate may exceed what was bought; the code then sends reduceOnly orders that take what is
there. A residue at the exchange that nobody manages is the harmful direction.

### MC modules

MCOrderIntent, MCDurableEventStore, MCPaperAuthority, MCOperatorDecisionStore and
MCExecutionDesk give the constants of the specifications their values.

### Proof modules

OrderIntentProtocol_proofs, OrderIntentTruth_proofs, DurableEventStore_proofs,
PaperPortfolioLedger_proofs, PaperAuthority_proofs, OperatorDecisionStore_proofs,
ExecutionDesk_proofs and ExecutionDeskBook_proofs hold the theorems; see section 4.
OrderIntentTruth_proofs builds on OrderIntentProtocol_proofs, PaperAuthority_proofs on
PaperPortfolioLedger_proofs and ExecutionDeskBook_proofs on ExecutionDesk_proofs.

Definitions whose comment begins with "Faulty variant" are plausible bugs of the
definition that follows them. No specification uses them; each shows that a
property would notice the bug.

## 3. Runs

All runs end because calls, faults and crashes are bounded, so deadlock is not
checked: a state in which all of them are used up is a legal end. That no call
gets stuck is the liveness property CallsReturn of the modules with locks;
OperatorDecisionStore and ExecutionDesk model none that is held across steps.

| Run | Instance | Shows |
|---|---|---|
| `order_intent` | 2 threads, 1 coordinator, 2 intents, 3 calls, 1 I/O fault, 1 short write, 1 crash, 1 foreign order; threads symmetric | AtMostOnceSubmission, JournalTruthful, ResultTruthful, OnlyAllowedTransitions, ImplementsSubmitOnce |
| `order_intent_two` | 2 certified coordinators on one file and one that is not certified, colliding ids | at-most-once and durable-first with only the flock between coordinators; OneIntentPerClientOrderId; JournalTruthful; CallsReturn |
| `order_intent_lookup` | 3 calls, 1 failing lookup | violation: LookupFailureRecorded |
| `order_intent_torn` | 2 calls, 1 short write | violation: DurableBeforeNetwork |
| `order_intent_race` | 2 coordinators, 3 calls | violation: OnlyAllowedTransitions |
| `event_store` | 2 processes, 2 epochs, 4 events with colliding ids and numbers, root and epochs directory missing or there, 3 calls, one fault of each kind | ConfirmedDurable, NeverInvalidRecords, DirectoryFirst, CallsReturn |
| `event_store_ack` | one epoch of two events, one directory | violation: AckedDurable |
| `event_store_dirs` | the same with two directories | violation: AckedReachable |
| `paper_authority` | a long and a short order for one symbol, exit prices that win for one and lose for the other and at which closing the short position can overdraw the cash, 2 I/O faults, 1 short write, 2 crashes | EpochReplayable, LedgerBalances, OneOpenPerSymbol, ReportedDurable, MemoryFollowsLedger, CompatibilityOnce, PositionsResolve |
| `operator_decisions` | 2 commands (symmetric), 3 requests of which two have one key, expiries at 1 and 2, 2 projections (symmetric), 2 attestations, 1 restore or alteration | RepliesJournaled, OneEventEach, ExpiredIsFinal, AvailableExtends, AnchorMonotone |
| `execution_desk` | 1 decision of 8 units at a precision of 4, an estimate of 6, a float error for 8 at one of 2 prices, 2 threads, 4 intents, 2 passes, 1 failing write, 1 crash, live and paper | OneOrderPerDecision, ClosedAcknowledged, OneLateOrder, HoldingsAccounted |
| `execution_desk_identity` | the same without faults, one check that fires at both prices | violation: OneCloseIdentity |

Why the bounds are enough for the cases that matter: two threads are what a race
needs, three calls are submit, a competing or repeated submit and a reconcile
(or two reconciles); a fault and a crash can hit every step, and
in `paper_authority` the second I/O fault lets a retry fail too and the second crash hits
the restart after the first. With the liveness property that run has one symbol and so one
open position at a time; what its safety properties say of several is left to the theorems,
which hold for any trades and symbols. The two processes of `event_store` can be in the middle
of their first append together, with every split of the two directories between them;
the third call is a retry or the next event. In `operator_decisions` the
second attestation lets one projection overtake another one, and a restore
lets the journal grow differently after it. In `execution_desk` the four intents are
an entry, a partial close, a close and a late order of the other thread; half of 8
is one step, half of the estimate 6 or of an entry filled for 4 is rounded to nothing, so that a
partial close is made or refused, and at the low price the close of 8 sells 4;
one failing write tears the decision journal, and the crash makes its consequence
possible (the decision is placed again). Every action fires in some passing run.

Fairness. CallsReturn assumes that a thread which is not blocked is scheduled
(weak fairness of its own steps) and nothing of the environment: the exchange
may never decide, since the client's time-out lets MutationAnswer happen at any time.
Weak fairness is enough for the locks because calls are bounded. PositionsResolve assumes that
operations go on, that the process is restarted after a crash (a supervisor
restarts it), that the monitor ticks, that time passes, and strong fairness of
MonitorClose: a position that the monitor reaches again and again has its price
available and its exit due at some time, as the time-out of every position guarantees.
It excepts a corrupt store (deliberately fail-closed), exposed reports, and a
close that the ledger refuses because the loss exceeds the free cash.

### What the violations show

1. `order_intent_lookup`: a failing lookup on an intent in
   RECONCILED_NOT_FOUND_PENDING asks for RECONCILE_REQUIRED, which
   `_ALLOWED_TRANSITIONS` forbids; the exception leaves `reconcile` and nothing is
   recorded, where ADR-0020 says the read failure is.
2. `order_intent_torn`: after a failed append that left a fragment, the next line
   is glued to it. It is synced and the call goes on, but no replay can read it, so
   a request can be sent without a readable SUBMISSION_STARTED.
3. `order_intent_race`: validation and write are atomic only within one journal
   object; two coordinators on one path can write contradictory transitions.
4. `event_store_ack`: if the creation of an epoch file is interrupted before the
   directory is synced, the next append does not know, and acknowledges
   an event that a power failure can still take with the file.
   `ConfirmedDurable` is the part of the promise that does hold.
5. `event_store_dirs`: an append that finds `root` and not `root/epochs`, because another
   process is between the two mkdirs or died there, syncs `root` only and skips the
   confirmation of all ancestors; its event is acknowledged while the entry of `root`
   itself is not durable. The comments in `_ensure_directories` say that every new directory entry
   is persisted before an event can report success.
6. `execution_desk_identity`: the intent of a close contains the price, so a close that is
   tried again after a lost answer is another intent and a second order, where the
   comment in `_send_close_order` says that the same tracked position always yields the same
   close identity.

## 4. Proofs

### OrderIntentProtocol_proofs

Proved, for all threads, coordinators, intents and
bounds,

* `TypeCorrect`: `Spec => []TypeOK`;
* `SafetyInvariant`, and from it `AtMostOnce` (AtMostOnceSubmission), `DurableFirst`
  (DurableBeforeNetwork) and `NoIdShared` (OneIntentPerClientOrderId).

Assumptions: the named ones of OrderIntentProtocol; for the safety theorems also
`SingleProcess` (all coordinators live in one operating-system process) and
`MaxShortWrites = 0`. Both exclude only the way a fragment comes to be in front of a live
thread's record, which run `order_intent_torn` shows to break the property: with one
process a crash that leaves a fragment also kills every thread, and the first
line after it is one whose loss the invariant tolerates, an INTENT_RECORDED
of a thread that has not sent anything, or the outcome of an intent already past
SUBMISSION_STARTED.

The argument. AtMostOnceSubmission is not inductive: nothing in it prevents two
threads from both being about to send. The invariant `SafetyInv` adds

* `FlockInv`: a thread between the check and the sync of SUBMISSION_STARTED holds
  the flock, so there is at most one;
* `RegisterInv`: while it registers an intent, that intent has not left, no other
  intent with its id is recorded, and SUBMISSION_STARTED is written after a whole line;
* `PastInv`: a thread that appends an outcome or reconciles works on an intent
  at or past SUBMISSION_STARTED;
* `MutateInv`: for an intent about to be sent nothing was sent before, and only one
  thread is sending it;
* `UniqueLeaving`: of the intents with one client order id at most one was sent or is
  about to be;
* DurableBeforeNetwork and AtMostOnceSubmission themselves.

Each part has a lemma per kind of step (QuietStep, ReturnStep, PastStep, RegisterStep,
WriteStep, StartedStep, OutcomeStep, MutateStep, CrashStep) and `NextSafety` puts
them together, one step per action.

### OrderIntentTruth_proofs

Over the same model and on top of SafetyInv:

* `JournalIsTrue` (JournalTruthful) and `AnswersAreTrue` (ResultTruthful), under
  `SingleProcess`, `MaxShortWrites = 0` and `VerifyMatch` (reconcile is given a
  `verify_match` callback; without it an order that is not ours, found under our id,
  is taken for ours);
* `TransitionsAllowed` (OnlyAllowedTransitions), under `OneCoordinator` alone: with
  two coordinators run `order_intent_race` shows it to fail;
* `Implements` (ImplementsSubmitOnce), under `OneCoordinator`, `MaxShortWrites = 0`
  and `VerifyMatch`.

A settled record is true only because of what its writer knew when it asked for the
record, possibly steps before, and because nobody sends or decides again. `TruthInv`
therefore says "true of the exchange" of four things at once: of what the exchange has
decided (`DecidedInv`), of what readers see and of what fsync has covered
(`RecordsInv`), of what a thread is about to write (`PendingInv`) and of what it
answered (`AnswersInv`). `JournalInv` adds that a thread between validation and write
holds the lock of its journal object, so that what it validated against is still the
latest record (`WriterInv`), and that a durably settled state is what readers see
(`SettledInv`).

The refinement is a step simulation (`StepRefines`): each step of the protocol is a
Send, a Decide or a Learn of SubmitOnce, or leaves its three variables alone. The
request leaving is the Send, the exchange's answer the Decide, the sync of an outcome
the Learn; a power failure is a stutter, since it cannot take back what is durable.

### DurableEventStore_proofs

`TypeCorrect`, `RecordsValid` (NeverInvalidRecords), `DirectoryDurableFirst`
(DirectoryFirst) and `ConfirmationsDurable` (ConfirmedDurable), for all
processes, epochs, events, depths of the hierarchy and bounds, from the three named
assumptions of the module (events have their fields, there is at least one directory, bounds are
numbers). One invariant, `StoreInv`, carries all
four:

* `FilesInv`: a record with sequence number n stands at place n of its own epoch's
  file, no id is in the store twice, a file that does not exist has no content, and
  where there is a file DirectoryFirst holds: the entry of the epochs directory is durable,
  and all entries above it unless `halfMade`;
* `CallsInv`: what a process has established where it is: inside the lock nobody else
  is; between scan and write its event still is the next one and its id new (`Fresh`);
  from the write on the event is in the file (`Written`); after the fsync it is
  covered; and the process that writes the first record of a file knows that it
  created the file, so that it will sync the entry. While it ensures the directories:
  those between the one it is about to sync and the deepest are durable already, and, unless
  the hierarchy was found half made, so are those it does not sync, because it found them
  durable or there is a file, and DirectoryFirst of that file applies.

The knowledge of having created the file is what makes ConfirmedDurable inductive for the first event of an
epoch, and its absence for later events is finding 4.

### PaperPortfolioLedger_proofs

`ReplayBalances`: for every sequence of events of any length, in any order,
accepted or refused, `AccountsBalance(Project(events))`. `ReplayIncremental`: projecting a
history and one more event is applying the event to the projection of the history.
Both are inductions over data, done without an induction theorem: a claim that
fails for some length fails for a least one (`Least`, from the well-ordering of the
naturals stated for sets), which contradicts the step. The same way the sum over
a finite set of positions is shown to be independent of the order in which it is
formed (`SumsExist`, `SumsAgree`), to grow by what is added and to shrink by what is taken
away (`SumAdds`); `ApplySound` then has one lemma per event type.

### PaperAuthority_proofs

All seven safety properties of run `paper_authority`, for any trades, symbols, prices, amounts
and bounds: `TypeCorrect`, `Replayable` (EpochReplayable), `AlwaysBalanced` (LedgerBalances),
`OnePosition` (OneOpenPerSymbol), `ReportsDurable` (ReportedDurable), `MemoryIsLedger`
(MemoryFollowsLedger), `CompatibilityRight` (CompatibilityOnce). Assumptions: the two named ones of
the module; the principal is a multiple of the entry price, which makes quantities
whole, as the model's integers need.

`AuthorityInv` has ten parts, of which these carry the argument:

* `EventsInv`: `replay[k]` is one application of event k to `replay[k - 1]`, every one
  of them is a sound ledger state (`GoodState`: never refused, balanced, one open position
  per symbol, the ids seen so far). A power failure cuts log and replay at `firm`, and
  the invariant holds of each prefix already, which is why it is stated for all k;
* `OperationInv`, `OpenInv`, `CloseInv`: where the event of the operation in progress is
  (not yet in the log, in the log, in the firm part), that the symbol of an OPEN
  stays free until its event is written, and that a CLOSE is of a position in memory;
* `FollowsInv`: MemoryFollowsLedger weakened to hold in the middle of an operation;
* `ReportInv`, `CompatInv`: the same for reports and the compatibility file.

The rows that a synchronisation adds and the positions that a restart takes up are
chosen by a recursive function (`Picked`) whose result is characterised once
(`PickedIs`): the entries that satisfy the condition, each once, in the order of the log.

### OperatorDecisionStore_proofs

All six properties of the run, for all commands, requests, projectors, expiries
and bounds, from the named assumptions of the module (the constants have their
types, and None is neither an entry nor a checkpoint): `TypeCorrect`, `AnswersTrue`
(RepliesJournaled), `EventsUnique` (OneEventEach), `ExpiredFinal`
(ExpiredIsFinal), `AvailableGrows` (AvailableExtends) and `AnchorForward`
(AnchorMonotone). None of them is inductive alone.

* `TypeInv` adds to TypeOK that the attestations are finitely many, so that
  they can be numbered, and that a projection under way has an attestation.
* `AdmitInv` adds to the three properties of `admit` that decision ids below
  `nextId` are the used ones, that the command of every event has a row in the index
  (what keeps a command from bringing a second event; rebuild and restore must
  keep it), and that an expired request stays expired.
* `ProjectionInv` adds to AvailableExtends that a projection which waits to be
  accepted continues the anchor it was compared with. Together with the
  transitivity of `Extends` this gives the step of ProjectAccept.

### ExecutionDesk_proofs

`TypeCorrect`, `OneEntryOrder` (OneOrderPerDecision), `ClosedMeansClosed`
(ClosedAcknowledged) and `LateOrders` (OneLateOrder), for all decisions, sizes,
prices, triggers and bounds, from the named assumptions of OrderRoute,
PositionManager and ExecutionDesk. The two threads are fixed, as in the code.

* Already the types need an argument: quantities stay in `0..MaxQty` although
  both threads may take a half off one position. `PartialInv` says that before a
  partial close is done each of the pending halves is at most half, and after it at
  most one is pending. `JobInv` says what a thread may be working on: an
  entry is of a decision that is placed and not tracked, so that a position is never
  replaced while a thread works on it.
* `LateInv`: a thread that sent an order after the close has no further one
  to send, since a check fires only on an open position.
* `AckInv`: an order under way is the one of its thread's job, and a full close
  reported as live has been acknowledged; ACKNOWLEDGED is final.
* `EntryInv`: the entry order of a decision, sent or about to be, is the intent that
  the decision journal binds it to, or its record was swallowed. A crash loses the jobs
  and keeps the journal, so that a second placement finds the binding.

The steps are sorted by what they do to the thread that takes them (Resting, Returning,
Sending, Firing, Executing, Placing), and each invariant has one case per action.

### ExecutionDeskBook_proofs

`HoldingsRight` (HoldingsAccounted), for any number of decisions on the symbol, any sizes,
estimates, precision, float errors (`Shaved`), prices, triggers and bounds, from the same
assumptions as above. The property compares exchange and book at every moment, also while
orders are half-way; `BookInv` therefore works with `Exposure(d)`, which is `net` less
`unsold` plus what partial closes have sold and not yet booked, and says

* `CountOK`: the exposure is at most the book's quantity; while a full close is at the
  exchange, the exposure before its fill exceeds its amount by at most one step; and once a full
  close is acknowledged, the exposure is at most one step. One step is what flooring and the
  float product together can take off an amount (`Normalized`), and an acknowledged order that
  was filled in part has the rest in `unsold`;
* `EntryOK`: what the exchange holds of a decision is at most what its one entry order
  asked for, and nothing was bought before it was executed. This uses that there is only one
  (EntryInv of ExecutionDesk_proofs), hence the exception for swallowed bindings;
* `OrderOK` and `IntentOK`: nothing is filled before the exchange has executed, a full close takes
  what the book says, and no close is of a position that is still to be added, so that an
  acknowledgement of an earlier life of the position does not count for a later one.

A closed position has an acknowledged full close (AckInv), which gives the bound of one
step. Crashes and ambiguous answers need no exception: they stop tracking, or leave the book
above the exchange.

### Only model-checked

Liveness: CallsReturn of the two modules with locks and PositionsResolve; fairness and
ENABLED are outside the prover. The violation runs, by their nature. Every
invariant, action property and refinement of the passing runs is also a theorem.
The safety theorems about OrderIntentProtocol have the hypotheses named with them. Run
`order_intent_two` satisfies them but for `OneCoordinator`; `order_intent` satisfies all but
`MaxShortWrites = 0` and shows that its properties survive one fragment there.
DurableBeforeNetwork does not, as `order_intent_torn` shows, and `order_intent_race` shows
what two coordinators do to OnlyAllowedTransitions.

## 5. Plan

Done: OrderIntentProtocol, SubmitOnce, DurableEventStore, PaperPortfolioLedger,
PaperAuthority, OperatorDecisionStore, OrderRoute, PositionManager, ExecutionDesk;
the safety properties of all of them proved.

Next, in this order:

1. An abstract log specification that DurableEventStore implements for confirmed
   events and that PaperAuthority uses, with the step simulation.
2. The safety theorems of OrderIntentProtocol for several processes, with a weaker
   assumption on fragments than that there are none.
3. `ShadowBridge` (`legacy_ppl_bridge.py`, `ppl_shadow.py`) over PaperPortfolioLedger:
   the shadow follows the legacy portfolio or is known to be degraded.
4. The circuit breakers and kill switches, as small machines with time-outs.

## 6. Not modelled, and why

The repository has about 250,000 lines of Python. The models cover the
protocols above, some 4,000 lines of them; by far the most of the rest has no
state that a model checker could say something about. In particular:

Indicators, signals, back-tests, dashboards, reports and notifications: numerical
code or I/O without protocol state. JSON encoding, canonical digests and message
texts: data that no property distinguishes. Float rounding: the ledger works with
integers here, so a property about cents lost to rounding is out of reach. File
permissions and symlink checks: read-only refusals at start-up. The archived code
(`_ARCHIVE_2026`), tests and tools are no part of the running system. Boot gate and
pending-order tracker (`system/boot_gate.py`, `pending_order_tracker.py`) are not
called by the running system, so there is no composition to check; the position
reconciler compares two lists of symbols, by symbol only and without normalising
them ("BTC/USDT" against "BTC/USD:USD"). State machines of warm-up and
operation, circuit breakers and kill switches are not modelled yet. The two event
buses persist nothing.
