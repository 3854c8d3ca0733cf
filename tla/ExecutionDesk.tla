---------------------------- MODULE ExecutionDesk ----------------------------
(***************************************************************************)
(* From a decision to a closed position: the advisor loop persists a       *)
(* decision (decision_identity.py), ExecutionEngine.create_futures_order   *)
(* binds it to one order intent and submits it, the position is added to   *)
(* PositionManager, and both threads manage it from then on.               *)
(*                                                                         *)
(* The decision journal is an append-only file whose last readable record  *)
(* of an id counts; a fragment left by a failed write swallows the line    *)
(* that is appended next.  A process crash loses everything in memory, the *)
(* positions too; after it a recovered decision may be placed once more.   *)
(***************************************************************************)
EXTENDS PositionManager

CONSTANTS
    Sizes,       \* what a decision may buy
    Estimates,   \* what effective_size / entry_price may be where the answer has no quantity
    MaxFaults,   \* bound: failing writes of the two journals
    MaxCrashes   \* bound: crashes

ASSUME DeskAssumption ==
    /\ Sizes \subseteq 1..MaxQty /\ Estimates \subseteq 1..MaxQty
    /\ \A q \in Sizes : q % AmountStep = 0
    /\ AmountStep % 2 = 0 /\ \A q \in Estimates : q % 2 = 0
    /\ MaxFaults \in Nat /\ MaxCrashes \in Nat

VARIABLES
    lifecycle,  \* [Decisions -> what the last readable record says]
    bound,      \* [Decisions -> bound_intent_digest]
    torn,       \* the decision journal ends in a fragment without newline
    swallowed,  \* decisions whose BOUND record was lost to a fragment
    placed,     \* decisions that this process has handed to the engine
    faults, crashes

identity == <<lifecycle, bound, torn, swallowed>>
process == <<placed, faults, crashes>>
vars == <<route, book, identity, process>>

\* The type invariant.
TypeOK ==
    /\ RouteTypeOK /\ BookTypeOK
    /\ lifecycle \in [Decisions -> {"none", "CREATED", "BOUND"}]
    /\ bound \in [Decisions -> Intents \cup {None}]
    /\ torn \in BOOLEAN
    /\ swallowed \subseteq Decisions
    /\ placed \subseteq Decisions
    /\ faults \in 0..MaxFaults
    /\ crashes \in 0..MaxCrashes

Init ==
    /\ RouteInit /\ BookInit
    /\ lifecycle = [d \in Decisions |-> "none"]
    /\ bound = [d \in Decisions |-> None]
    /\ torn = FALSE /\ swallowed = {} /\ placed = {}
    /\ faults = 0 /\ crashes = 0

(***************************************************************************)
(* DecisionIdentityJournal                                                 *)
(***************************************************************************)

\* _append_unlocked, seen by every later reader: the record, or nothing when
\* it is glued to a fragment, which its newline ends.
Appended(d, state, i) ==
    /\ IF torn THEN UNCHANGED <<lifecycle, bound>>
       ELSE /\ lifecycle' = [lifecycle EXCEPT ![d] = state]
            /\ bound' = [bound EXCEPT ![d] = i]
    /\ torn' = FALSE

\* The write stops in the middle of the line, and the caller gets an error.
\* (A complete line that could not be synced is Appended, and then Refused.)
AppendTorn ==
    /\ faults < MaxFaults /\ faults' = faults + 1
    /\ torn' = TRUE
    /\ UNCHANGED <<lifecycle, bound, swallowed>>

\* persist of an id that has no record; for one that has, it changes nothing.
Persist(d) ==
    /\ pc[Advisor] = "idle" /\ lifecycle[d] = "none"
    /\ \/ Appended(d, "CREATED", None) /\ UNCHANGED <<swallowed, faults>>
       \/ AppendTorn
    /\ UNCHANGED <<route, book, placed, crashes>>

(***************************************************************************)
(* create_futures_order                                                    *)
(***************************************************************************)

EntryIntent(d, q, x) ==
    [decision |-> d, opened |-> 0, reason |-> "entry", amount |-> q, price |-> x]

\* Faulty variant: a decision that is bound to another intent is bound again.
BindIntentAgain(d, i) ==
    /\ lifecycle[d] # "none"
    /\ Appended(d, "BOUND", i)
    /\ swallowed' = IF torn THEN swallowed \cup {d} ELSE swallowed

\* bind_intent: the first intent is recorded, the same one accepted again,
\* and any other refused.
BindIntent(d, i) ==
    /\ lifecycle[d] # "none"
    /\ \/ /\ bound[d] = None
          /\ Appended(d, "BOUND", i)
          /\ swallowed' = IF torn THEN swallowed \cup {d} ELSE swallowed
       \/ bound[d] = i /\ UNCHANGED identity

Entering(t) == pc[t] = "send" /\ job[t].reason = "entry"

\* The price is read, the order authorized and the decision bound.
PlaceEntry(d, q, x) ==
    /\ pc[Advisor] = "idle" /\ ~paper /\ d \notin placed
    /\ BindIntent(d, EntryIntent(d, q, x))
    /\ placed' = placed \cup {d}
    /\ pc' = [pc EXCEPT ![Advisor] = "send"]
    /\ job' = [job EXCEPT ![Advisor] = [NoJob EXCEPT
            !.decision = d, !.reason = "entry", !.intent = EntryIntent(d, q, x)]]
    /\ UNCHANGED <<intents, held, net, unsold, book, faults, crashes>>

\* Refused without a submission: the binding is not possible or its write fails.
PlaceRefused(d) ==
    /\ pc[Advisor] = "idle" /\ ~paper /\ d \notin placed
    /\ placed' = placed \cup {d}
    /\ \/ UNCHANGED <<identity, faults>>
       \/ lifecycle[d] = "CREATED" /\ AppendTorn
    /\ UNCHANGED <<route, book, crashes>>

\* Without an exchange the order exists only on paper.
PlacePaper(d, q) ==
    /\ pc[Advisor] = "idle" /\ paper /\ d \notin placed
    /\ placed' = placed \cup {d}
    /\ AddPosition(d, q)
    /\ UNCHANGED <<route, identity, faults, crashes>>

SubmitEntry(t) ==
    LET i == job[t].intent IN
    /\ Entering(t)
    /\ SubmitFirst(t, i) \/ SubmitRecorded(t, i) \/ SubmitFails(t, i) \/ Refused(t)
    /\ UNCHANGED <<book, identity, process>>

\* The quantity that _build_position_from_execution finds in the answer (what
\* was ordered, or what was filled), or computes; a recorded result has none.
Booked(t) ==
    Estimates \cup
    (IF job[t].filled > 0 THEN {job[t].intent.amount, job[t].filled} ELSE {})

\* _register_position_from_execution: only an acknowledged order is tracked.
ReturnEntry(t) ==
    LET d == job[t].decision IN
    /\ pc[t] = "return" /\ job[t].reason = "entry"
    /\ \/ /\ job[t].mode = "live"
          /\ \E q \in Booked(t) :
                AddPosition(d, q) /\ LeftOut(d, Short(job[t].intent.amount, q))
       \/ job[t].mode # "live" /\ UNCHANGED <<book, unsold>>
    /\ Continue(t, {})
    /\ UNCHANGED <<intents, held, net, identity, process>>

(***************************************************************************)
(* The process dies and is started again.  What was under way at the       *)
(* exchange stays as it is; nobody asks.                                   *)
(***************************************************************************)

Crash ==
    /\ crashes < MaxCrashes /\ crashes' = crashes + 1
    /\ pc' = [t \in Threads |-> "idle"]
    /\ job' = [t \in Threads |-> NoJob]
    /\ tracked' = {} /\ placed' = {}
    /\ qty' = [d \in Decisions |-> 0]
    /\ closed' = [d \in Decisions |-> FALSE]
    /\ partialDone' = [d \in Decisions |-> FALSE]
    /\ price' = [d \in Decisions |-> None]
    /\ late' = [d \in Decisions |-> [t \in Threads |-> 0]]
    /\ UNCHANGED <<intents, held, net, unsold, paper, opened, passes, identity, faults>>

EntryStep ==
    \/ \E d \in Decisions : Persist(d) \/ PlaceRefused(d)
    \/ \E d \in Decisions, q \in Sizes :
           PlacePaper(d, q) \/ \E x \in Prices : PlaceEntry(d, q, x)
    \/ \E t \in Threads : SubmitEntry(t) \/ ReturnEntry(t)

\* A failing write of the order intent journal after the exchange was called.
OrderJournalFails(t) ==
    /\ faults < MaxFaults /\ faults' = faults + 1
    /\ OutcomeRaises(t)
    /\ UNCHANGED <<book, identity, placed, crashes>>

Next ==
    \/ EntryStep
    \/ \E t \in Threads : OrderJournalFails(t)
    \/ \E t \in Threads : ExchangeStep(t) /\ UNCHANGED <<book, identity, process>>
    \/ \E t \in Threads : PositionStep(t) /\ UNCHANGED <<identity, process>>
    \/ Crash

Spec == Init /\ [][Next]_vars

(***************************************************************************)
(* Properties                                                              *)
(***************************************************************************)

\* Intents for which create_order has been called.
Sent == UNION {intents[s] : s \in IntentStates \ {"INTENT_RECORDED"}}

\* One decision never leads to two entry orders: not when it is placed again
\* after a crash, at another price, after an unclear answer or a refusal -
\* unless the record of its binding was swallowed by a fragment.
OneOrderPerDecision ==
    \A i, j \in Sent :
        /\ i.reason = "entry" /\ j.reason = "entry"
        /\ i.decision = j.decision /\ i.decision \notin swallowed
        => i = j

\* A position is marked as closed only if the exchange acknowledged an order
\* of this position that closes all of it: never for a refusal, an unclear answer, or because
\* of the acknowledgement of a partial close.
ClosedAcknowledged ==
    \A d \in tracked : closed[d] /\ ~paper =>
        \E i \in intents["ACKNOWLEDGED"] :
            i.decision = d /\ i.opened = opened[d] /\ i.reason \in FullReasons

\* After a position is closed, each thread submits at most one more order
\* for it, the one it had decided on before it could see the close.
OneLateOrder == \A d \in Decisions : \A t \in Threads : late[d][t] <= 1

\* However the threads interleave, answers get lost, orders are filled in part
\* and the process dies: the exchange never holds more of a tracked position
\* than the book says, or of a closed one more than one step of the precision,
\* but for what acknowledged orders and bookings have left out - unless the
\* record of the decision's binding was swallowed by a fragment.
HoldingsAccounted ==
    \A d \in tracked \ swallowed : ~paper =>
        net[d] <= unsold[d] + (IF closed[d] THEN AmountStep ELSE qty[d])

\* The comment in _send_close_order: the same tracked position always yields
\* the same close identity (for one reason), so that a close which is tried
\* again is recognised and never sent as a second order.
OneCloseIdentity ==
    \A i, j \in Sent :
        /\ i.reason \in FullReasons /\ j.reason = i.reason
        /\ i.decision = j.decision /\ i.opened = j.opened
        => i = j
==============================================================================
