------------------------------ MODULE OrderRoute ------------------------------
(***************************************************************************)
(* The way of an order from ExecutionEngine or PositionManager to the      *)
(* exchange: both hand an intent to one OrderIntentCoordinator.submit,     *)
(* whose mutate callback makes one call of create_order.                   *)
(*                                                                         *)
(* Of the coordinator only its outcome is modelled here (OrderIntent-      *)
(* Protocol has its journal, locks and crashes): the journal state of each *)
(* intent, and that a second caller with the same intent waits for the     *)
(* first.  An intent is its digest: decision or position, reason, amount   *)
(* and price.  The exchange holds one position per account and symbol; one *)
(* symbol is modelled, and an order that closes is reduceOnly.  All orders *)
(* are market orders: what is not filled at once is cancelled.             *)
(***************************************************************************)
EXTENDS Integers, FiniteSets

CONSTANTS
    Decisions,  \* decision ids; the position a decision opens has its name
    Prices,     \* prices, as far as they tell intents apart
    Advisor, Watcher, \* the advisor loop's thread and PositionManager's own
    AmountStep, \* the exchange's amount precision, in units of which a half is one too
    MaxQty,     \* bound: units of one position
    MaxIntents, \* bound: intents in the journal
    None        \* no decision, no intent, no result

ASSUME RouteAssumption ==
    /\ AmountStep \in Nat \ {0} /\ MaxQty \in Nat \ {0} /\ MaxIntents \in Nat
    /\ Advisor # Watcher

Threads == {Advisor, Watcher}

FullReasons == {"liquidation_defense", "time_stop", "trailing_stop",
                "take_profit", "stop_loss"}
CloseReasons == FullReasons \cup {"partial_close"}
Reasons == CloseReasons \cup {"entry"}
Intents == [decision: Decisions, opened: Nat, reason: Reasons,
            amount: 1..MaxQty, price: Prices]

IntentStates == {"INTENT_RECORDED", "SUBMISSION_STARTED", "ACKNOWLEDGED",
                 "EXPLICITLY_REJECTED", "RECONCILE_REQUIRED"}
Modes == {"live", "live_ambiguous", "live_failed", "rejected", "paper"}
Places == {"idle", "price", "check", "send", "wait", "executed", "return"}

ASSUME NoneAssumption ==
    None \notin Decisions \cup Prices \cup Reasons \cup Modes /\ None \notin Intents

VARIABLES
    pc,       \* where each thread is: idle, in a pass, or on the way to the exchange
    job,      \* its decision or position, checks left, reason, quantity, intent,
              \* what the exchange filled of it, result
    intents,  \* [IntentStates -> SUBSET Intents]: the order intent journal
    held,     \* what the exchange holds of the symbol
    net,      \* of this, what each decision's own orders bought and have not sold
    unsold    \* of this, what acknowledged or booked closes, or an entry's booking, left out

route == <<pc, job, intents, held, net, unsold>>

NoJob == [decision |-> None, left |-> {}, reason |-> None, qty |-> 0,
          intent |-> None, filled |-> 0, mode |-> None]

Jobs == [decision: Decisions \cup {None}, left: SUBSET CloseReasons,
         reason: Reasons \cup {None}, qty: 0..MaxQty,
         intent: Intents \cup {None}, filled: 0..MaxQty, mode: Modes \cup {None}]

RouteTypeOK ==
    /\ pc \in [Threads -> Places]
    /\ job \in [Threads -> Jobs]
    /\ intents \in [IntentStates -> SUBSET Intents]
    /\ held \in Nat
    /\ net \in [Decisions -> Int]
    /\ unsold \in [Decisions -> Nat]

RouteInit ==
    /\ pc = [t \in Threads |-> "idle"]
    /\ job = [t \in Threads |-> NoJob]
    /\ intents = [s \in IntentStates |-> {}]
    /\ held = 0
    /\ net = [d \in Decisions |-> 0]
    /\ unsold = [d \in Decisions |-> 0]

AllIntents == UNION {intents[s] : s \in IntentStates}

Known(i) == i \in AllIntents

\* The digest lock: the thread that submits i has not returned from mutate yet.
Locked(i) == \E t \in Threads : pc[t] \in {"wait", "executed"} /\ job[t].intent = i

ReturnWith(t, mode) ==
    /\ pc' = [pc EXCEPT ![t] = "return"]
    /\ job' = [job EXCEPT ![t].mode = mode]

\* What an order or a booking for n units leaves out if it covers only m.
Short(n, m) == IF n > m THEN n - m ELSE 0

\* The exchange keeps n more units of d than book or acknowledgement say.
LeftOut(d, n) == unsold' = [unsold EXCEPT ![d] = @ + n]

\* The intent t submits has this outcome; an acknowledged full close may have
\* been filled in part only, and nobody looks.
Outcome(t, to) ==
    LET i == job[t].intent IN
    /\ intents' = [intents EXCEPT !["SUBMISSION_STARTED"] = @ \ {i}, ![to] = @ \cup {i}]
    /\ IF to = "ACKNOWLEDGED" /\ i.reason \in FullReasons
       THEN LeftOut(i.decision, Short(i.amount, job[t].filled))
       ELSE UNCHANGED unsold

(***************************************************************************)
(* submit                                                                  *)
(***************************************************************************)

\* First submission: recorded, started, and then mutate is called.
SubmitFirst(t, i) ==
    /\ pc[t] = "send" /\ ~Known(i)
    /\ Cardinality(AllIntents) < MaxIntents
    /\ intents' = [intents EXCEPT !["SUBMISSION_STARTED"] = @ \cup {i}]
    /\ pc' = [pc EXCEPT ![t] = "wait"]
    /\ job' = [job EXCEPT ![t].intent = i]
    /\ UNCHANGED <<held, net, unsold>>

\* Faulty variant: the caller gets the recorded state itself.
RecordedState(i) == CHOOSE s \in IntentStates : i \in intents[s]

\* The mode of the result that _typed_result_from_record leads to.
RecordedMode(i) ==
    IF i \in intents["ACKNOWLEDGED"] THEN "live"
    ELSE IF i \in intents["RECONCILE_REQUIRED"] THEN "live_ambiguous"
    ELSE "live_failed"

\* The intent is known: what is recorded is the result, and nothing is sent.
SubmitRecorded(t, i) ==
    /\ pc[t] = "send" /\ Known(i) /\ ~Locked(i)
    /\ ReturnWith(t, RecordedMode(i))
    /\ UNCHANGED <<intents, held, net, unsold>>

\* The journal fails after INTENT_RECORDED: nothing is sent, then or later.
SubmitFails(t, i) ==
    /\ pc[t] = "send" /\ ~Known(i)
    /\ Cardinality(AllIntents) < MaxIntents
    /\ intents' = [intents EXCEPT !["INTENT_RECORDED"] = @ \cup {i}]
    /\ ReturnWith(t, "live_failed")
    /\ UNCHANGED <<held, net, unsold>>

\* Refused before the journal: authority, authorization, adapter or lock.
Refused(t) ==
    /\ pc[t] = "send"
    /\ ReturnWith(t, "rejected")
    /\ UNCHANGED <<intents, held, net, unsold>>

(***************************************************************************)
(* The exchange, and what mutate makes of its answer                       *)
(***************************************************************************)

\* How much of it may be filled: a reduceOnly order takes no more than is held.
Fillable(i) == IF i.reason = "entry" \/ i.amount <= held THEN i.amount ELSE held

\* The order is executed, all of it or some; nobody here knows yet.
Execute(t, f) ==
    LET i == job[t].intent
        change == IF i.reason = "entry" THEN f ELSE -f IN
    /\ pc[t] = "wait"
    /\ f \in 1..Fillable(i) /\ f % AmountStep = 0
    /\ held' = held + change
    /\ net' = [net EXCEPT ![i.decision] = @ + change]
    /\ pc' = [pc EXCEPT ![t] = "executed"]
    /\ job' = [job EXCEPT ![t].filled = f]
    /\ UNCHANGED <<intents, unsold>>

Acknowledge(t) ==
    /\ pc[t] = "executed"
    /\ Outcome(t, "ACKNOWLEDGED")
    /\ ReturnWith(t, "live")
    /\ UNCHANGED <<held, net>>

Reject(t) ==
    /\ pc[t] = "wait"
    /\ Outcome(t, "EXPLICITLY_REJECTED")
    /\ ReturnWith(t, "live_failed")
    /\ UNCHANGED <<held, net>>

\* A timeout or an unknown error, whether the order was executed or not.
AnswerLost(t) ==
    /\ pc[t] \in {"wait", "executed"}
    /\ Outcome(t, "RECONCILE_REQUIRED")
    /\ ReturnWith(t, "live_ambiguous")
    /\ UNCHANGED <<held, net>>

\* The outcome cannot be written, or not synced: the exception ends the
\* order and the pass it belongs to, and its result reaches nobody.
OutcomeRaises(t) ==
    /\ pc[t] \in {"wait", "executed"}
    /\ \/ UNCHANGED <<intents, unsold>>
       \/ \E to \in {"RECONCILE_REQUIRED",
                   IF pc[t] = "wait" THEN "EXPLICITLY_REJECTED" ELSE "ACKNOWLEDGED"} :
              Outcome(t, to)
    /\ pc' = [pc EXCEPT ![t] = "idle"]
    /\ job' = [job EXCEPT ![t] = NoJob]
    /\ UNCHANGED <<held, net>>

ExchangeStep(t) ==
    \/ \E f \in 1..MaxQty : Execute(t, f)
    \/ Acknowledge(t) \/ Reject(t) \/ AnswerLost(t)
==============================================================================
