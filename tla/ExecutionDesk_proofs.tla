--------------------------- MODULE ExecutionDesk_proofs ---------------------------
(***************************************************************************)
(* Proofs about ExecutionDesk, for any decisions, sizes, prices, triggers  *)
(* and bounds.                                                             *)
(***************************************************************************)
EXTENDS ExecutionDesk, TLAPS

(***************************************************************************)
(* Type correctness                                                        *)
(***************************************************************************)

\* What a thread is doing: an entry is of a decision placed and not tracked
\* yet, everything else of a tracked position; an order has a price.
JobOK(t) ==
    /\ pc[t] = "idle" => job[t] = NoJob
    /\ pc[t] \in {"price", "check"} => job[t].reason = None
    /\ pc[t] # "idle" => job[t].decision \in Decisions
    /\ pc[t] # "idle" /\ job[t].reason # "entry" => job[t].decision \in tracked
    /\ job[t].reason = "entry" =>
        /\ t = Advisor /\ job[t].decision \in placed \ tracked
        /\ job[t].intent \in Intents /\ job[t].intent.reason = "entry"
    /\ job[t].reason \in CloseReasons => price[job[t].decision] \in Prices
    /\ pc[t] \in {"wait", "executed"} => job[t].intent \in Intents

JobInv ==
    /\ tracked \subseteq placed
    /\ \A t \in Threads : JobOK(t)

\* The halves that both threads may still take off a position are there.
PartialInv ==
    \A t \in Threads : job[t].reason = "partial_close" =>
        /\ job[t].qty <= qty[job[t].decision]
        /\ ~partialDone[job[t].decision] => 2 * job[t].qty <= qty[job[t].decision]
        /\ partialDone[job[t].decision] =>
            \A u \in Threads \ {t} :
                ~(job[u].reason = "partial_close" /\ job[u].decision = job[t].decision)

TypeInv == TypeOK /\ JobInv /\ PartialInv

\* Rounding gives no more than was asked for, and at most one step less.
LEMMA RoundedDown ==
    ASSUME NEW q \in Nat, NEW x
    PROVE  /\ Normalized(q, x) \in Nat /\ Normalized(q, x) <= q
           /\ q <= Normalized(q, x) + AmountStep
<1>1. AmountStep \in Nat /\ AmountStep > 0
  BY RouteAssumption
<1>2. q = (q \div AmountStep) * AmountStep + (q % AmountStep)
      /\ q % AmountStep \in Nat /\ q \div AmountStep \in Nat /\ q % AmountStep < AmountStep
  BY <1>1, Z3
<1>3. (q \div AmountStep) * AmountStep \in Nat
  BY <1>1, <1>2, Z3
<1>4. CASE q % AmountStep = 0 /\ <<q, x>> \in Shaved
  <2>1. Normalized(q, x) = Short(q, AmountStep)
    BY <1>4 DEF Normalized
  <2>2. QED
    BY <1>1, <2>1 DEF Short
<1>5. CASE ~(q % AmountStep = 0 /\ <<q, x>> \in Shaved)
  <2>1. Normalized(q, x) = (q \div AmountStep) * AmountStep
    BY <1>5 DEF Normalized
  <2> DEFINE n == (q \div AmountStep) * AmountStep
  <2> DEFINE r == q % AmountStep
  <2>2. q = n + r /\ r \in Nat /\ r < AmountStep /\ n \in Nat
    BY <1>2, <1>3
  <2> HIDE DEF n, r
  <2>3. n <= q /\ q <= n + AmountStep
    BY <1>1, <2>2
  <2>4. QED
    BY <2>1, <2>2, <2>3 DEF n
<1>6. QED
  BY <1>4, <1>5

\* What a booking leaves out.
LEMMA ShortType ==
    ASSUME NEW n \in Nat, NEW m \in Nat
    PROVE  Short(n, m) \in Nat /\ n <= m + Short(n, m)
BY DEF Short

\* What is left out is counted.
LEMMA LeftOutType ==
    ASSUME RouteTypeOK, NEW d \in Decisions, NEW n \in Nat, LeftOut(d, n)
    PROVE  unsold' \in [Decisions -> Nat]
BY DEF RouteTypeOK, LeftOut

\* The record of an idle thread.
LEMMA NoJobType ==
    /\ NoJob \in Jobs /\ NoJob.reason = None /\ NoJob.decision = None
    /\ NoJob.left = {} /\ NoJob.qty = 0 /\ NoJob.intent = None /\ NoJob.mode = None
    /\ NoJob.filled = 0
    /\ None \notin Reasons /\ None \notin CloseReasons /\ None # "entry"
    /\ None # "partial_close"
BY RouteAssumption, NoneAssumption DEF NoJob, Jobs, Reasons, CloseReasons, FullReasons

\* The fields of a thread's record.
LEMMA JobType ==
    ASSUME RouteTypeOK, NEW t \in Threads
    PROVE  /\ job[t] \in Jobs /\ pc[t] \in Places
           /\ job[t].decision \in Decisions \cup {None}
           /\ job[t].left \subseteq CloseReasons
           /\ job[t].reason \in Reasons \cup {None}
           /\ job[t].qty \in 0..MaxQty
           /\ job[t].intent \in Intents \cup {None}
           /\ job[t].filled \in 0..MaxQty
           /\ job[t].mode \in Modes \cup {None}
BY DEF RouteTypeOK, Jobs

\* A reason is an entry or a close, not both.
LEMMA ReasonKinds ==
    /\ Reasons = CloseReasons \cup {"entry"} /\ "entry" \notin CloseReasons
    /\ CloseReasons = FullReasons \cup {"partial_close"} /\ "partial_close" \notin FullReasons
BY DEF Reasons, CloseReasons, FullReasons

\* In the initial state nobody does anything.
LEMMA InitType == Init => TypeInv
<1>1. SUFFICES ASSUME Init PROVE TypeInv
  OBVIOUS
<1>2. RouteTypeOK
  <2>1. pc \in [Threads -> Places] /\ job \in [Threads -> Jobs]
    BY <1>1, NoJobType DEF Init, RouteInit, Places
  <2>2. intents \in [IntentStates -> SUBSET Intents]
    BY <1>1 DEF Init, RouteInit
  <2>3. held \in Nat /\ net \in [Decisions -> Int]
    BY <1>1 DEF Init, RouteInit
  <2>4. unsold \in [Decisions -> Nat]
    BY <1>1 DEF Init, RouteInit
  <2>5. QED
    BY <2>1, <2>2, <2>3, <2>4 DEF RouteTypeOK
<1>3. BookTypeOK
  BY <1>1, RouteAssumption, PositionAssumption DEF Init, BookInit, BookTypeOK
<1>4. TypeOK
  <2>1. /\ lifecycle \in [Decisions -> {"none", "CREATED", "BOUND"}]
        /\ bound \in [Decisions -> Intents \cup {None}]
    BY <1>1 DEF Init
  <2>2. torn \in BOOLEAN /\ swallowed \subseteq Decisions /\ placed \subseteq Decisions
    BY <1>1 DEF Init
  <2>3. faults \in 0..MaxFaults /\ crashes \in 0..MaxCrashes
    BY <1>1, DeskAssumption DEF Init
  <2>4. QED
    BY <1>2, <1>3, <2>1, <2>2, <2>3 DEF TypeOK
<1>5. \A t \in Threads : pc[t] = "idle" /\ job[t] = NoJob
  BY <1>1 DEF Init, RouteInit
<1>6. tracked = {}
  BY <1>1 DEF Init, BookInit
<1>7. JobInv
  BY <1>5, <1>6, NoJobType DEF JobInv, JobOK
<1>8. PartialInv
  BY <1>5, NoJobType DEF PartialInv
<1>9. QED
  BY <1>4, <1>7, <1>8 DEF TypeInv

\* A crash leaves nobody at work.
LEMMA CrashType ==
    ASSUME TypeInv, Crash
    PROVE  TypeInv'
<1>1. RouteTypeOK'
  BY NoJobType DEF TypeInv, TypeOK, Crash, RouteTypeOK, Places
<1>2. BookTypeOK'
  BY RouteAssumption DEF TypeInv, TypeOK, Crash, BookTypeOK
<1>3. TypeOK'
  BY <1>1, <1>2, DeskAssumption DEF TypeInv, TypeOK, Crash, identity
<1>4. \A t \in Threads : pc'[t] = "idle" /\ job'[t] = NoJob
  BY DEF Crash
<1>5. JobInv'
  BY <1>4, NoJobType DEF JobInv, JobOK, Crash
<1>6. PartialInv'
  BY <1>4, NoJobType DEF PartialInv
<1>7. QED
  BY <1>3, <1>5, <1>6 DEF TypeInv

\* A thread's place and record are replaced.
LEMMA Replaced ==
    ASSUME RouteTypeOK, NEW t \in Threads, NEW x \in Places, NEW y \in Jobs,
           pc' = [pc EXCEPT ![t] = x], job' = [job EXCEPT ![t] = y]
    PROVE  /\ pc' \in [Threads -> Places] /\ job' \in [Threads -> Jobs]
           /\ pc'[t] = x /\ job'[t] = y
           /\ \A u \in Threads \ {t} : pc'[u] = pc[u] /\ job'[u] = job[u]
BY DEF RouteTypeOK

\* A step in which thread t changes only what it does itself, its new record
\* being in order, keeps everybody's record in order.
LEMMA OwnJob ==
    ASSUME TypeInv, NEW t \in Threads,
           \A u \in Threads \ {t} : pc'[u] = pc[u] /\ job'[u] = job[u],
           tracked' = tracked, placed \subseteq placed',
           \A d \in Decisions : price[d] \in Prices => price'[d] \in Prices,
           JobOK(t)'
    PROVE  JobInv'
<1>1. ASSUME NEW u \in Threads \ {t} PROVE JobOK(u)'
  <2>1. JobOK(u) /\ job'[u] = job[u] /\ pc'[u] = pc[u]
    BY DEF TypeInv, JobInv
  <2>2. job[u].reason \in CloseReasons => job[u].decision \in Decisions
    BY <2>1, NoJobType DEF JobOK
  <2>3. QED
    BY <2>1, <2>2 DEF JobOK
<1>2. QED
  BY <1>1 DEF TypeInv, JobInv

\* And so it does with the quantities, unless it begins or ends a partial close.
LEMMA OwnStep ==
    ASSUME TypeInv, NEW t \in Threads,
           \A u \in Threads \ {t} : pc'[u] = pc[u] /\ job'[u] = job[u],
           tracked' = tracked, placed \subseteq placed',
           \A d \in Decisions : price[d] \in Prices => price'[d] \in Prices,
           qty' = qty, partialDone' = partialDone,
           JobOK(t)',
           job'[t].reason = "partial_close" =>
               /\ job[t].reason = "partial_close"
               /\ job'[t].decision = job[t].decision /\ job'[t].qty = job[t].qty
    PROVE  JobInv' /\ PartialInv'
<1>1. JobInv'
  BY OwnJob
<1>2. PartialInv'
  BY DEF TypeInv, PartialInv
<1>3. QED
  BY <1>1, <1>2

\* ReturnWith, of a thread that has an order to make.
LEMMA ReturnWithType ==
    ASSUME TypeInv, NEW t \in Threads, NEW mode \in Modes, ReturnWith(t, mode),
           pc[t] \in {"send", "wait", "executed"},
           UNCHANGED <<tracked, placed, price, qty, partialDone>>
    PROVE  /\ pc' \in [Threads -> Places] /\ job' \in [Threads -> Jobs]
           /\ JobInv' /\ PartialInv'
<1> DEFINE y == [job[t] EXCEPT !.mode = mode]
<1>1. RouteTypeOK
  BY DEF TypeInv, TypeOK
<1>2. y \in Jobs
  BY <1>1, JobType DEF Jobs
<1>3. pc' = [pc EXCEPT ![t] = "return"] /\ job' = [job EXCEPT ![t] = y]
  BY DEF ReturnWith
<1>4. "return" \in Places
  BY DEF Places
<1>5. /\ pc' \in [Threads -> Places] /\ job' \in [Threads -> Jobs]
      /\ pc'[t] = "return" /\ job'[t] = y
      /\ \A u \in Threads \ {t} : pc'[u] = pc[u] /\ job'[u] = job[u]
  BY <1>1, <1>2, <1>3, <1>4, Replaced
<1>6. /\ y.reason = job[t].reason /\ y.decision = job[t].decision
      /\ y.intent = job[t].intent /\ y.qty = job[t].qty
  BY <1>1, JobType DEF Jobs
<1>7. JobOK(t)
  BY DEF TypeInv, JobInv
<1>8. JobOK(t)'
  BY <1>5, <1>6, <1>7 DEF JobOK
<1>9. QED
  BY <1>5, <1>6, <1>8, OwnStep

\* The end of a pass, or of an order with the checks that are left.
LEMMA ContinueType ==
    ASSUME TypeInv, NEW t \in Threads, NEW left \in SUBSET CloseReasons,
           Continue(t, left),
           left # {} => job[t].decision \in tracked,
           UNCHANGED <<tracked, placed, price>>
    PROVE  /\ pc' \in [Threads -> Places] /\ job' \in [Threads -> Jobs]
           /\ job'[t].reason = None
           /\ \A u \in Threads \ {t} : pc'[u] = pc[u] /\ job'[u] = job[u]
           /\ JobInv'
           /\ qty' = qty /\ partialDone' = partialDone => PartialInv'
<1> DEFINE y == IF left = {} THEN NoJob
                ELSE [NoJob EXCEPT !.decision = job[t].decision, !.left = left]
<1> DEFINE x == IF left = {} THEN "idle" ELSE "check"
<1>1. RouteTypeOK /\ tracked \subseteq Decisions
  BY DEF TypeInv, TypeOK, BookTypeOK
<1>2. y \in Jobs /\ y.reason = None
  BY <1>1, JobType, NoJobType DEF NoJob, Jobs
<1>3. x \in Places
  BY DEF Places
<1>4. pc' = [pc EXCEPT ![t] = x] /\ job' = [job EXCEPT ![t] = y]
  BY DEF Continue
<1> HIDE DEF x, y
<1>5. /\ pc' \in [Threads -> Places] /\ job' \in [Threads -> Jobs]
      /\ pc'[t] = x /\ job'[t] = y
      /\ \A u \in Threads \ {t} : pc'[u] = pc[u] /\ job'[u] = job[u]
  BY <1>1, <1>2, <1>3, <1>4, Replaced
<1>6. /\ x \in {"idle", "check"}
      /\ x = "idle" => y = NoJob
      /\ x # "idle" => y.decision \in tracked
  BY NoJobType DEF x, y, NoJob
<1>7. JobOK(t)'
  BY <1>1, <1>2, <1>5, <1>6, NoJobType DEF JobOK
<1>8. JobInv'
  BY <1>5, <1>7, OwnJob
<1>9. qty' = qty /\ partialDone' = partialDone => PartialInv'
  BY <1>2, <1>5, NoJobType DEF TypeInv, PartialInv
<1>10. QED
  BY <1>2, <1>5, <1>8, <1>9

\* A step of the route alone keeps the other types.
LEMMA RouteStepType ==
    ASSUME TypeInv, UNCHANGED <<book, identity, process>>, RouteTypeOK', JobInv', PartialInv'
    PROVE  TypeInv'
<1>1. TypeOK'
  BY DEF TypeInv, TypeOK, BookTypeOK, book, identity, process
<1>2. QED
  BY <1>1 DEF TypeInv

\* The outcome of an order that is under way.
LEMMA OutcomeType ==
    ASSUME RouteTypeOK, NEW t \in Threads, job[t].intent \in Intents,
           NEW to \in IntentStates, Outcome(t, to)
    PROVE  intents' \in [IntentStates -> SUBSET Intents] /\ unsold' \in [Decisions -> Nat]
<1> DEFINE i == job[t].intent
<1>1. intents' \in [IntentStates -> SUBSET Intents]
  <2>1. intents' = [intents EXCEPT !["SUBMISSION_STARTED"] = @ \ {i}, ![to] = @ \cup {i}]
    BY DEF Outcome
  <2>2. QED
    BY <2>1 DEF RouteTypeOK
<1>2. i.amount \in Nat /\ job[t].filled \in Nat /\ i.decision \in Decisions
  BY JobType, RouteAssumption DEF Intents
<1>3. Short(i.amount, job[t].filled) \in Nat
  BY <1>2, ShortType
<1>4. unsold' \in [Decisions -> Nat]
  BY <1>2, <1>3, LeftOutType DEF Outcome, RouteTypeOK
<1>5. QED
  BY <1>1, <1>4

\* The first submission of an intent.
LEMMA SubmitFirstType ==
    ASSUME TypeInv, NEW t \in Threads, NEW i \in Intents,
           SubmitFirst(t, i),
           job[t].reason = "entry" => i.reason = "entry",
           UNCHANGED <<tracked, placed, price, qty, partialDone>>
    PROVE  RouteTypeOK' /\ JobInv' /\ PartialInv'
<1> DEFINE y == [job[t] EXCEPT !.intent = i]
<1>1. RouteTypeOK /\ JobOK(t) /\ pc[t] = "send"
  BY DEF TypeInv, TypeOK, JobInv, SubmitFirst
<1>2. /\ y \in Jobs /\ y.intent = i /\ y.reason = job[t].reason
      /\ y.decision = job[t].decision /\ y.qty = job[t].qty
  BY <1>1, JobType DEF Jobs
<1>3. pc' = [pc EXCEPT ![t] = "wait"] /\ job' = [job EXCEPT ![t] = y]
  BY DEF SubmitFirst
<1>4. "wait" \in Places
  BY DEF Places
<1> HIDE DEF y
<1>5. /\ pc' \in [Threads -> Places] /\ job' \in [Threads -> Jobs]
      /\ pc'[t] = "wait" /\ job'[t] = y
      /\ \A u \in Threads \ {t} : pc'[u] = pc[u] /\ job'[u] = job[u]
  BY <1>1, <1>2, <1>3, <1>4, Replaced
<1>6. JobOK(t)'
  BY <1>1, <1>2, <1>5 DEF JobOK
<1>7. JobInv' /\ PartialInv'
  BY <1>2, <1>5, <1>6, OwnStep
<1>8. intents' \in [IntentStates -> SUBSET Intents]
  BY <1>1 DEF SubmitFirst, RouteTypeOK, IntentStates
<1>9. held' \in Nat /\ net' \in [Decisions -> Int]
  BY <1>1 DEF SubmitFirst, RouteTypeOK
<1>10. unsold' \in [Decisions -> Nat]
  BY <1>1 DEF SubmitFirst, RouteTypeOK
<1>11. QED
  BY <1>5, <1>7, <1>8, <1>9, <1>10 DEF RouteTypeOK

\* A submission that sends nothing.
LEMMA SubmitOtherType ==
    ASSUME TypeInv, NEW t \in Threads, NEW i \in Intents,
           SubmitRecorded(t, i) \/ SubmitFails(t, i) \/ Refused(t),
           UNCHANGED <<tracked, placed, price, qty, partialDone>>
    PROVE  RouteTypeOK' /\ JobInv' /\ PartialInv'
<1>1. RouteTypeOK /\ pc[t] \in {"send", "wait", "executed"}
  BY DEF TypeInv, TypeOK, SubmitRecorded, SubmitFails, Refused
<1>2. PICK mode \in Modes : ReturnWith(t, mode)
  <2>1. RecordedMode(i) \in Modes /\ "live_failed" \in Modes /\ "rejected" \in Modes
    BY DEF RecordedMode, Modes
  <2>2. QED
    BY <2>1 DEF SubmitRecorded, SubmitFails, Refused
<1>3. /\ pc' \in [Threads -> Places] /\ job' \in [Threads -> Jobs]
      /\ JobInv' /\ PartialInv'
  BY <1>1, <1>2, ReturnWithType
<1>4. intents' \in [IntentStates -> SUBSET Intents]
  BY <1>1 DEF SubmitRecorded, SubmitFails, Refused, RouteTypeOK, IntentStates
<1>5. held' \in Nat /\ net' \in [Decisions -> Int]
  BY <1>1 DEF SubmitRecorded, SubmitFails, Refused, RouteTypeOK
<1>6. unsold' \in [Decisions -> Nat]
  BY <1>1 DEF SubmitRecorded, SubmitFails, Refused, RouteTypeOK
<1>7. QED
  BY <1>3, <1>4, <1>5, <1>6 DEF RouteTypeOK

\* The exchange, and what is made of its answer.
LEMMA ExchangeType ==
    ASSUME TypeInv, NEW t \in Threads, ExchangeStep(t),
           UNCHANGED <<book, identity, process>>
    PROVE  TypeInv'
<1> DEFINE i == job[t].intent
<1>1. RouteTypeOK /\ JobOK(t) /\ pc[t] \in {"wait", "executed"} /\ i \in Intents
  BY DEF TypeInv, TypeOK, JobInv, JobOK, ExchangeStep, Execute, Acknowledge, Reject, AnswerLost
<1>2. UNCHANGED <<tracked, placed, price, qty, partialDone>>
  BY DEF book, process
<1>3. ASSUME NEW f \in 1..MaxQty, Execute(t, f) PROVE TypeInv'
  <2> DEFINE y == [job[t] EXCEPT !.filled = f]
  <2>1. /\ y \in Jobs /\ y.reason = job[t].reason /\ y.decision = job[t].decision
        /\ y.qty = job[t].qty /\ y.intent = job[t].intent
    BY <1>1, RouteAssumption, JobType DEF Jobs
  <2>2. /\ pc' = [pc EXCEPT ![t] = "executed"] /\ job' = [job EXCEPT ![t] = y]
        /\ "executed" \in Places
    BY <1>3 DEF Execute, Places
  <2> HIDE DEF y
  <2>3. /\ pc' \in [Threads -> Places] /\ job' \in [Threads -> Jobs]
        /\ pc'[t] = "executed" /\ job'[t] = y
        /\ \A u \in Threads \ {t} : pc'[u] = pc[u] /\ job'[u] = job[u]
    BY <1>1, <2>1, <2>2, Replaced
  <2>4. JobOK(t)'
    BY <1>1, <1>2, <1>3, <2>1, <2>3 DEF JobOK, Execute
  <2>5. JobInv' /\ PartialInv'
    BY <1>2, <2>1, <2>3, <2>4, OwnStep
  <2>6. i.amount \in Nat /\ i.decision \in Decisions /\ held \in Nat /\ f \in Nat
    BY <1>1, RouteAssumption DEF Intents, RouteTypeOK
  <2>7. f <= Fillable(i)
    BY <1>3 DEF Execute
  <2>8. i.reason # "entry" => f <= held
    BY <2>6, <2>7 DEF Fillable
  <2>9. held' \in Nat /\ net' \in [Decisions -> Int]
    <3> DEFINE change == IF i.reason = "entry" THEN f ELSE -f
    <3>1. held' = held + change /\ net' = [net EXCEPT ![i.decision] = @ + change]
      BY <1>3 DEF Execute
    <3>2. held' \in Nat /\ change \in Int
      BY <2>6, <2>8, <3>1
    <3> HIDE DEF change
    <3>3. net' \in [Decisions -> Int]
      BY <1>1, <2>6, <3>1, <3>2 DEF RouteTypeOK
    <3>4. QED
      BY <3>2, <3>3
  <2>10. RouteTypeOK'
    BY <1>1, <1>3, <2>3, <2>9 DEF Execute, RouteTypeOK
  <2>11. QED
    BY <2>5, <2>10, RouteStepType
<1>4. CASE Acknowledge(t) \/ Reject(t) \/ AnswerLost(t)
  <2>1. PICK mode \in Modes : ReturnWith(t, mode)
    BY <1>4 DEF Acknowledge, Reject, AnswerLost, Modes
  <2>2. PICK to \in IntentStates : Outcome(t, to)
    BY <1>4 DEF Acknowledge, Reject, AnswerLost, IntentStates
  <2>3. intents' \in [IntentStates -> SUBSET Intents] /\ unsold' \in [Decisions -> Nat]
    BY <1>1, <2>2, OutcomeType
  <2>4. /\ pc' \in [Threads -> Places] /\ job' \in [Threads -> Jobs]
        /\ JobInv' /\ PartialInv'
    BY <1>1, <1>2, <2>1, ReturnWithType
  <2>5. held' \in Nat /\ net' \in [Decisions -> Int]
    BY <1>1, <1>4 DEF Acknowledge, Reject, AnswerLost, RouteTypeOK
  <2>6. RouteTypeOK'
    BY <2>3, <2>4, <2>5 DEF RouteTypeOK
  <2>7. QED
    BY <2>4, <2>6, RouteStepType
<1>5. QED
  BY <1>3, <1>4 DEF ExchangeStep

\* The journal of intents fails after the exchange was called.
LEMMA OrderJournalFailsType ==
    ASSUME TypeInv, NEW t \in Threads, OrderJournalFails(t)
    PROVE  TypeInv'
<1>1. RouteTypeOK /\ JobOK(t) /\ OutcomeRaises(t) /\ job[t].intent \in Intents
  BY DEF TypeInv, TypeOK, JobInv, JobOK, OrderJournalFails, OutcomeRaises
<1>2. UNCHANGED <<tracked, placed, price, qty, partialDone>>
  BY DEF OrderJournalFails, book
<1>3. Continue(t, {})
  BY <1>1 DEF OutcomeRaises, Continue
<1>4. /\ pc' \in [Threads -> Places] /\ job' \in [Threads -> Jobs]
      /\ JobInv' /\ PartialInv'
  BY <1>2, <1>3, ContinueType
<1>5. intents' \in [IntentStates -> SUBSET Intents] /\ unsold' \in [Decisions -> Nat]
  <2>1. CASE UNCHANGED <<intents, unsold>>
    BY <1>1, <2>1 DEF RouteTypeOK
  <2>2. CASE \E to \in IntentStates : Outcome(t, to)
    BY <1>1, <2>2, OutcomeType
  <2>3. QED
    BY <1>1, <2>1, <2>2 DEF OutcomeRaises, IntentStates
<1>6. RouteTypeOK'
  BY <1>1, <1>4, <1>5 DEF OutcomeRaises, RouteTypeOK
<1>7. faults' \in 0..MaxFaults
  BY DeskAssumption DEF TypeInv, TypeOK, OrderJournalFails
<1>8. TypeOK'
  BY <1>6, <1>7 DEF TypeInv, TypeOK, BookTypeOK, OrderJournalFails, book, identity
<1>9. QED
  BY <1>4, <1>8 DEF TypeInv

\* A step of the positions keeps the types of the journal of decisions.
LEMMA PositionStepType ==
    ASSUME TypeInv, UNCHANGED <<identity, process>>,
           RouteTypeOK', BookTypeOK', JobInv', PartialInv'
    PROVE  TypeInv'
<1>1. TypeOK'
  BY DEF TypeInv, TypeOK, identity, process
<1>2. QED
  BY <1>1 DEF TypeInv

\* The pass up to the checks.
LEMMA PassType ==
    ASSUME TypeInv, NEW t \in Threads, UNCHANGED <<identity, process>>,
           \/ \E d \in Decisions : BeginPass(t, d)
           \/ \E x \in Prices : UpdatePrice(t, x)
           \/ NoPrice(t) \/ EndPass(t)
    PROVE  TypeInv'
<1>1. RouteTypeOK /\ BookTypeOK /\ JobOK(t) /\ tracked \subseteq Decisions
  BY DEF TypeInv, TypeOK, JobInv, BookTypeOK
<1>2. placed' = placed
  BY DEF process
<1>3. ASSUME NEW d \in Decisions, BeginPass(t, d) PROVE TypeInv'
  <2> DEFINE y == [NoJob EXCEPT !.decision = d]
  <2>1. y \in Jobs /\ y.reason = None /\ y.decision = d /\ "price" \in Places
    BY NoJobType DEF NoJob, Jobs, Places
  <2>2. pc' = [pc EXCEPT ![t] = "price"] /\ job' = [job EXCEPT ![t] = y] /\ d \in tracked
    BY <1>3 DEF BeginPass
  <2> HIDE DEF y
  <2>3. /\ pc' \in [Threads -> Places] /\ job' \in [Threads -> Jobs]
        /\ pc'[t] = "price" /\ job'[t] = y
        /\ \A u \in Threads \ {t} : pc'[u] = pc[u] /\ job'[u] = job[u]
    BY <1>1, <2>1, <2>2, Replaced
  <2>4. UNCHANGED <<tracked, price, qty, partialDone, intents, held, net, unsold,
                    paper, opened, closed, late>>
    BY <1>3 DEF BeginPass
  <2>5. JobOK(t)'
    BY <1>3, <2>1, <2>2, <2>3, <2>4, NoJobType DEF JobOK
  <2>6. JobInv' /\ PartialInv'
    BY <1>2, <2>1, <2>3, <2>4, <2>5, OwnStep, NoJobType
  <2>7. RouteTypeOK'
    BY <1>1, <2>3, <2>4 DEF RouteTypeOK
  <2>8. passes' \in 0..MaxPasses
    BY <1>1, <1>3, PositionAssumption DEF BeginPass, BookTypeOK
  <2>9. BookTypeOK'
    BY <1>1, <2>4, <2>8 DEF BookTypeOK
  <2>10. QED
    BY <2>6, <2>7, <2>9, PositionStepType
<1>4. ASSUME NEW x \in Prices \cup {None}, NEW left \in SUBSET CloseReasons,
             pc[t] = "price", pc' = [pc EXCEPT ![t] = "check"],
             job' = [job EXCEPT ![t].left = left],
             price' = IF x = None THEN price ELSE [price EXCEPT ![job[t].decision] = x],
             UNCHANGED <<intents, held, net, unsold, paper, tracked, opened, qty, closed,
                         partialDone, late, passes>>
      PROVE  TypeInv'
  <2> DEFINE y == [job[t] EXCEPT !.left = left]
  <2>1. /\ y \in Jobs /\ y.reason = None /\ y.decision = job[t].decision
        /\ job[t].decision \in tracked /\ job[t].decision \in Decisions /\ "check" \in Places
    BY <1>1, <1>4, JobType, NoJobType DEF Jobs, Places, JobOK
  <2>2. job' = [job EXCEPT ![t] = y]
    BY <1>4
  <2> HIDE DEF y
  <2>3. /\ pc' \in [Threads -> Places] /\ job' \in [Threads -> Jobs]
        /\ pc'[t] = "check" /\ job'[t] = y
        /\ \A u \in Threads \ {t} : pc'[u] = pc[u] /\ job'[u] = job[u]
    BY <1>1, <1>4, <2>1, <2>2, Replaced
  <2>4. price' \in [Decisions -> Prices \cup {None}]
    BY <1>1, <1>4, <2>1 DEF BookTypeOK
  <2>5. \A d \in Decisions : price[d] \in Prices => price'[d] \in Prices
    BY <1>1, <1>4, <2>1 DEF BookTypeOK
  <2>6. JobOK(t)'
    <3>1. tracked' = tracked
      BY <1>4
    <3>2. QED
      BY <2>1, <2>3, <3>1, NoJobType DEF JobOK
  <2>7. JobInv' /\ PartialInv'
    BY <1>2, <1>4, <2>1, <2>3, <2>5, <2>6, OwnStep, NoJobType
  <2>8. RouteTypeOK'
    BY <1>1, <1>4, <2>3 DEF RouteTypeOK
  <2>9. BookTypeOK'
    BY <1>1, <1>4, <2>4 DEF BookTypeOK
  <2>10. QED
    BY <2>7, <2>8, <2>9, PositionStepType
<1>5. ASSUME NEW x \in Prices, UpdatePrice(t, x) PROVE TypeInv'
  <2>1. x # None /\ CloseReasons \in SUBSET CloseReasons
    BY NoneAssumption
  <2>2. QED
    BY <1>4, <1>5, <2>1 DEF UpdatePrice
<1>6. CASE NoPrice(t)
  <2>1. {"time_stop"} \in SUBSET CloseReasons /\ {} \in SUBSET CloseReasons
    BY DEF CloseReasons, FullReasons
  <2>2. QED
    BY <1>4, <1>6, <2>1 DEF NoPrice, book
<1>7. CASE EndPass(t)
  <2>1. Continue(t, {}) /\ {} \in SUBSET CloseReasons
    BY <1>7 DEF EndPass, Continue
  <2>2. UNCHANGED <<intents, held, net, unsold, tracked, price, qty, partialDone, book>>
    BY <1>7 DEF EndPass, book
  <2>3. /\ pc' \in [Threads -> Places] /\ job' \in [Threads -> Jobs]
        /\ JobInv' /\ PartialInv'
    BY <1>2, <2>1, <2>2, ContinueType
  <2>4. RouteTypeOK' /\ BookTypeOK'
    BY <1>1, <2>2, <2>3 DEF RouteTypeOK, BookTypeOK, book
  <2>5. QED
    BY <2>3, <2>4, PositionStepType
<1>8. QED
  BY <1>3, <1>5, <1>6, <1>7

\* A check that fires.
LEMMA FireType ==
    ASSUME TypeInv, NEW t \in Threads, NEW r \in CloseReasons, Fire(t, r),
           UNCHANGED <<identity, process>>
    PROVE  TypeInv'
<1> DEFINE d == job[t].decision
<1> DEFINE q == IF r = "partial_close" THEN qty[d] \div 2 ELSE 0
<1> DEFINE y == [job[t] EXCEPT !.left = @ \cap Following(r), !.reason = r, !.qty = q]
<1>1. /\ RouteTypeOK /\ BookTypeOK /\ pc[t] = "check" /\ job[t].reason = None
      /\ d \in tracked /\ d \in Decisions
  BY NoJobType DEF TypeInv, TypeOK, JobInv, JobOK, Fire
<1>2. UNCHANGED <<tracked, placed, price, qty, partialDone, book, intents, held, net, unsold>>
  BY DEF Fire, book, process
<1>3. qty[d] \in 0..MaxQty /\ partialDone[d] \in BOOLEAN
  BY <1>1 DEF BookTypeOK
<1>4. q \in 0..MaxQty /\ 2 * q <= qty[d] /\ q <= qty[d]
  BY <1>3, RouteAssumption
<1>5. price[d] \in Prices
  BY PositionAssumption DEF Fire
<1>6. pc' = [pc EXCEPT ![t] = "send"] /\ job' = [job EXCEPT ![t] = y]
  BY DEF Fire
<1>7. /\ y \in Jobs /\ y.decision = d /\ y.reason = r /\ y.qty = q /\ "send" \in Places
      /\ r \in Reasons
  <2> HIDE DEF q
  <2>1. r \in Reasons /\ job[t].left \cap Following(r) \subseteq CloseReasons
    BY <1>1, JobType, ReasonKinds
  <2>2. y \in Jobs
    BY <1>1, <1>4, <2>1, JobType DEF Jobs
  <2>3. y.decision = d /\ y.reason = r /\ y.qty = q
    BY <1>1, JobType DEF Jobs
  <2>4. QED
    BY <2>1, <2>2, <2>3 DEF Places
<1>8. r = "partial_close" => ~partialDone[d]
  BY DEF Fire
<1> HIDE DEF y, q
<1>9. /\ pc' \in [Threads -> Places] /\ job' \in [Threads -> Jobs]
      /\ pc'[t] = "send" /\ job'[t] = y
      /\ \A u \in Threads \ {t} : pc'[u] = pc[u] /\ job'[u] = job[u]
  BY <1>1, <1>6, <1>7, Replaced
<1>10. JobOK(t)'
  BY <1>1, <1>2, <1>5, <1>7, <1>9, ReasonKinds DEF JobOK
<1>11. JobInv'
  BY <1>2, <1>9, <1>10, OwnJob
<1>12. PartialInv'
  <2>1. ASSUME NEW u \in Threads, job'[u].reason = "partial_close"
        PROVE  /\ job'[u].qty <= qty'[job'[u].decision]
               /\ ~partialDone'[job'[u].decision] => 2 * job'[u].qty <= qty'[job'[u].decision]
               /\ partialDone'[job'[u].decision] =>
                   \A v \in Threads \ {u} :
                     ~(job'[v].reason = "partial_close" /\ job'[v].decision = job'[u].decision)
    <3>1. CASE u = t
      BY <1>2, <1>4, <1>7, <1>8, <1>9, <2>1, <3>1
    <3>2. CASE u # t
      BY <1>2, <1>7, <1>8, <1>9, <2>1, <3>2 DEF TypeInv, PartialInv
    <3>3. QED
      BY <3>1, <3>2
  <2>2. QED
    BY <2>1 DEF PartialInv
<1>13. RouteTypeOK' /\ BookTypeOK'
  BY <1>1, <1>2, <1>9 DEF RouteTypeOK, BookTypeOK, book
<1>14. QED
  BY <1>11, <1>12, <1>13, PositionStepType

\* The intent of an authorized close.
LEMMA CloseIntentType ==
    ASSUME TypeInv, NEW t \in Threads, Closing(t), Authorized(t)
    PROVE  /\ CloseIntent(t) \in Intents
           /\ CloseIntent(t).decision = job[t].decision
           /\ CloseIntent(t).opened = opened[job[t].decision]
           /\ CloseIntent(t).reason = job[t].reason
           /\ CloseIntent(t).amount = Amount(t)
           /\ job[t].reason \in CloseReasons
<1>1. /\ job[t].decision \in Decisions /\ job[t].reason \in CloseReasons
      /\ price[job[t].decision] \in Prices
  BY DEF TypeInv, JobInv, JobOK, Closing
<1>2. job[t].qty \in 0..MaxQty /\ qty[job[t].decision] \in 0..MaxQty
  BY <1>1, JobType DEF TypeInv, TypeOK, BookTypeOK
<1>3. Requested(t) \in Nat /\ Requested(t) <= MaxQty
  BY <1>2, RouteAssumption DEF Requested
<1>4. Amount(t) \in 1..MaxQty
  BY <1>3, RoundedDown, RouteAssumption DEF Authorized, Amount
<1>5. opened[job[t].decision] \in Nat
  BY <1>1 DEF TypeInv, TypeOK, BookTypeOK
<1>6. QED
  BY <1>1, <1>4, <1>5, ReasonKinds DEF CloseIntent, Intents

\* _send_close_order.
LEMMA SendType ==
    ASSUME TypeInv, NEW t \in Threads, UNCHANGED <<identity, process>>,
           SendDenied(t) \/ SendPaper(t) \/ SendFirst(t) \/ SendRepeated(t)
    PROVE  TypeInv'
<1>1. RouteTypeOK /\ BookTypeOK
  BY DEF TypeInv, TypeOK
<1>2. UNCHANGED <<tracked, placed, price, qty, partialDone, paper, opened, closed, passes>>
  BY DEF SendDenied, SendPaper, SendFirst, SendRepeated, book, process
<1>3. job[t].reason \in CloseReasons /\ pc[t] = "send"
  BY DEF SendDenied, SendPaper, SendFirst, SendRepeated, Closing
<1>4. CASE SendFirst(t)
  <2>1. /\ CloseIntent(t) \in Intents /\ job[t].reason # "entry"
        /\ SubmitFirst(t, CloseIntent(t))
    BY <1>3, <1>4, CloseIntentType, ReasonKinds DEF SendFirst
  <2>2. RouteTypeOK' /\ JobInv' /\ PartialInv'
    BY <1>2, <2>1, SubmitFirstType
  <2>3. late' \in [Decisions -> [Threads -> Nat]]
    <3>1. job[t].decision \in Decisions
      BY <1>3 DEF TypeInv, JobInv, JobOK
    <3>2. late[job[t].decision] \in [Threads -> Nat]
      BY <1>1, <3>1 DEF BookTypeOK
    <3>3. [late[job[t].decision] EXCEPT ![t] = @ + 1] \in [Threads -> Nat]
      BY <3>2
    <3>4. \/ late' = late
          \/ late' = [late EXCEPT ![job[t].decision] =
                         [late[job[t].decision] EXCEPT ![t] = @ + 1]]
      BY <1>4 DEF SendFirst
    <3>5. QED
      BY <1>1, <3>1, <3>3, <3>4 DEF BookTypeOK
  <2>4. QED
    BY <1>1, <1>2, <2>2, <2>3, PositionStepType DEF BookTypeOK
<1>5. CASE SendDenied(t) \/ SendRepeated(t)
  <2>1. PICK i \in Intents : SubmitRecorded(t, i) \/ SubmitFails(t, i) \/ Refused(t)
    <3>1. CASE SendRepeated(t)
      BY <3>1, CloseIntentType DEF SendRepeated
    <3>2. CASE SendDenied(t)
      <4>1. \E i : i \in Intents
        <5>1. /\ job[t].decision \in Decisions /\ price[job[t].decision] \in Prices
              /\ job[t].reason \in Reasons /\ 1 \in 1..MaxQty
          BY <1>3, ReasonKinds, RouteAssumption DEF TypeInv, JobInv, JobOK
        <5>2. [decision |-> job[t].decision, opened |-> 0, reason |-> job[t].reason,
               amount |-> 1, price |-> price[job[t].decision]] \in Intents
          BY <5>1 DEF Intents
        <5>3. QED
          BY <5>2
      <4>2. QED
        BY <3>2, <4>1 DEF SendDenied
    <3>3. QED
      BY <1>5, <3>1, <3>2
  <2>2. RouteTypeOK' /\ JobInv' /\ PartialInv'
    BY <1>2, <2>1, SubmitOtherType
  <2>3. late' = late
    BY <1>5 DEF SendDenied, SendRepeated, book
  <2>4. QED
    BY <1>1, <1>2, <2>2, <2>3, PositionStepType DEF BookTypeOK
<1>6. CASE SendPaper(t)
  <2>1. ReturnWith(t, "paper") /\ "paper" \in Modes
    BY <1>6 DEF SendPaper, Modes
  <2>2. /\ pc' \in [Threads -> Places] /\ job' \in [Threads -> Jobs]
        /\ JobInv' /\ PartialInv'
    BY <1>2, <1>3, <2>1, ReturnWithType
  <2>3. RouteTypeOK' /\ BookTypeOK'
    BY <1>1, <1>6, <2>2 DEF SendPaper, RouteTypeOK, BookTypeOK, book
  <2>4. QED
    BY <2>2, <2>3, PositionStepType
<1>7. QED
  BY <1>4, <1>5, <1>6

\* After the close order.
LEMMA ReturnType ==
    ASSUME TypeInv, NEW t \in Threads, UNCHANGED <<identity, process>>,
           ReturnPartial(t) \/ ReturnClosed(t) \/ ReturnOpen(t)
    PROVE  TypeInv'
<1> DEFINE d == job[t].decision
<1>1. /\ RouteTypeOK /\ BookTypeOK /\ d \in tracked /\ d \in Decisions
      /\ pc[t] = "return" /\ job[t].reason \in CloseReasons
  BY ReasonKinds DEF TypeInv, TypeOK, JobInv, JobOK, ReturnPartial, ReturnClosed, ReturnOpen
<1>2. UNCHANGED <<tracked, placed, price, intents, held, net, paper, opened, late, passes>>
  BY DEF ReturnPartial, ReturnClosed, ReturnOpen, book, process
<1>3. job[t].left \in SUBSET CloseReasons /\ {} \in SUBSET CloseReasons
  BY <1>1, JobType
<1>4. /\ pc' \in [Threads -> Places] /\ job' \in [Threads -> Jobs]
      /\ job'[t].reason = None
      /\ \A u \in Threads \ {t} : pc'[u] = pc[u] /\ job'[u] = job[u]
      /\ JobInv'
      /\ qty' = qty /\ partialDone' = partialDone => PartialInv'
  <2>1. PICK left \in SUBSET CloseReasons : Continue(t, left)
    BY <1>3 DEF ReturnPartial, ReturnClosed, ReturnOpen
  <2>2. QED
    BY <1>1, <1>2, <2>1, ContinueType
<1>5. unsold' \in [Decisions -> Nat]
  <2>1. job[t].qty \in Nat /\ job[t].filled \in Nat
    BY <1>1, JobType, RouteAssumption
  <2>2. Short(job[t].qty, job[t].filled) \in Nat
    BY <2>1, ShortType
  <2>3. QED
    BY <1>1, <2>2, LeftOutType DEF ReturnPartial, ReturnClosed, ReturnOpen, RouteTypeOK
<1>6. RouteTypeOK'
  BY <1>1, <1>2, <1>4, <1>5 DEF RouteTypeOK
<1>7. CASE ReturnPartial(t)
  <2>1. /\ job[t].reason = "partial_close" /\ closed' = closed
        /\ qty' = [qty EXCEPT ![d] = qty[d] - job[t].qty]
        /\ partialDone' = [partialDone EXCEPT ![d] = TRUE]
    BY <1>7 DEF ReturnPartial
  <2>2. job[t].qty \in 0..MaxQty /\ \A e \in Decisions : qty[e] \in 0..MaxQty
    BY <1>1, JobType DEF BookTypeOK
  <2>3. job[t].qty <= qty[d]
    BY <2>1 DEF TypeInv, PartialInv
  <2>4. qty' \in [Decisions -> 0..MaxQty] /\ partialDone' \in [Decisions -> BOOLEAN]
    BY <1>1, <2>1, <2>2, <2>3, RouteAssumption DEF BookTypeOK
  <2>5. BookTypeOK'
    BY <1>1, <1>2, <2>1, <2>4 DEF BookTypeOK
  <2>6. PartialInv'
    <3>1. SUFFICES ASSUME NEW u \in Threads, job'[u].reason = "partial_close"
          PROVE  /\ job'[u].qty <= qty'[job'[u].decision]
                 /\ ~partialDone'[job'[u].decision] => 2 * job'[u].qty <= qty'[job'[u].decision]
                 /\ partialDone'[job'[u].decision] =>
                     \A v \in Threads \ {u} :
                       ~(job'[v].reason = "partial_close" /\ job'[v].decision = job'[u].decision)
      BY DEF PartialInv
    <3>2. u # t /\ job'[u] = job[u]
      BY <1>4, <3>1, NoJobType
    <3>3. job[u].qty \in 0..MaxQty /\ job[u].decision \in Decisions
      BY <1>1, <3>1, <3>2, JobType, NoJobType DEF TypeInv, JobInv, JobOK
    <3>4. CASE job[u].decision = d
      <4>1. ~partialDone[d]
        BY <2>1, <3>1, <3>2, <3>4 DEF TypeInv, PartialInv
      <4>2. 2 * job[t].qty <= qty[d] /\ 2 * job[u].qty <= qty[d]
        BY <2>1, <3>1, <3>2, <3>4, <4>1 DEF TypeInv, PartialInv
      <4>3. qty'[d] = qty[d] - job[t].qty /\ partialDone'[d] = TRUE
        BY <1>1, <2>1 DEF BookTypeOK
      <4>4. job[u].qty <= qty'[d]
        BY <1>1, <2>2, <3>3, <4>2, <4>3
      <4>5. \A v \in Threads \ {u} : v = t
        BY <3>2 DEF Threads
      <4>6. QED
        BY <1>4, <3>2, <3>4, <4>3, <4>4, <4>5, NoJobType
    <3>5. CASE job[u].decision # d
      <4>1. /\ qty'[job[u].decision] = qty[job[u].decision]
            /\ partialDone'[job[u].decision] = partialDone[job[u].decision]
        BY <1>1, <2>1, <3>3, <3>5 DEF BookTypeOK
      <4>2. QED
        BY <1>4, <3>1, <3>2, <4>1, NoJobType DEF TypeInv, PartialInv
    <3>6. QED
      BY <3>4, <3>5
  <2>7. QED
    BY <1>4, <1>6, <2>5, <2>6, PositionStepType
<1>8. CASE ReturnClosed(t) \/ ReturnOpen(t)
  <2>1. qty' = qty /\ partialDone' = partialDone
    BY <1>8 DEF ReturnClosed, ReturnOpen, book
  <2>2. closed' \in [Decisions -> BOOLEAN]
    BY <1>1, <1>8 DEF ReturnClosed, ReturnOpen, BookTypeOK, book
  <2>3. BookTypeOK'
    BY <1>1, <1>2, <2>1, <2>2 DEF BookTypeOK
  <2>4. QED
    BY <1>4, <1>6, <2>1, <2>3, PositionStepType
<1>9. QED
  BY <1>7, <1>8

\* A new position, while no thread is placing an order for an entry.
LEMMA AddPositionType ==
    ASSUME TypeInv, NEW d \in Decisions \ tracked, NEW q \in 0..MaxQty, AddPosition(d, q),
           placed' = placed \cup {d},
           \A u \in Threads :
               \/ pc'[u] = "idle" /\ job'[u] = NoJob
               \/ pc'[u] = pc[u] /\ job'[u] = job[u] /\ job[u].reason # "entry"
    PROVE  BookTypeOK' /\ JobInv' /\ PartialInv'
<1>1. BookTypeOK /\ RouteTypeOK /\ d \in Decisions /\ d \notin tracked
  BY DEF TypeInv, TypeOK
<1>2. /\ tracked' = tracked \cup {d} /\ qty' \in [Decisions -> 0..MaxQty]
      /\ price' \in [Decisions -> Prices \cup {None}]
      /\ closed' \in [Decisions -> BOOLEAN] /\ partialDone' \in [Decisions -> BOOLEAN]
      /\ opened' \in [Decisions -> Nat]
  BY <1>1 DEF AddPosition, BookTypeOK
<1>3. BookTypeOK'
  BY <1>1, <1>2 DEF AddPosition, BookTypeOK
<1>4. \A e \in Decisions : e # d => /\ qty'[e] = qty[e] /\ price'[e] = price[e]
                                    /\ partialDone'[e] = partialDone[e]
  BY <1>1 DEF AddPosition, BookTypeOK
<1>5. ASSUME NEW u \in Threads, job'[u].reason \in CloseReasons
      PROVE  /\ pc'[u] = pc[u] /\ job'[u] = job[u] /\ job[u].decision \in Decisions
             /\ job[u].decision \in tracked /\ job[u].decision # d
  <2>1. pc'[u] = pc[u] /\ job'[u] = job[u] /\ job[u].reason \in CloseReasons
    BY <1>5, NoJobType
  <2>2. JobOK(u) /\ pc[u] # "idle" /\ job[u].reason # "entry"
    BY <2>1, NoJobType, ReasonKinds DEF TypeInv, JobInv, JobOK
  <2>3. QED
    BY <1>1, <2>1, <2>2 DEF JobOK
<1>6. ASSUME NEW u \in Threads PROVE JobOK(u)'
  <2>1. CASE pc'[u] = "idle" /\ job'[u] = NoJob
    BY <2>1, NoJobType DEF JobOK
  <2>2. CASE pc'[u] = pc[u] /\ job'[u] = job[u] /\ job[u].reason # "entry"
    <3>1. JobOK(u)
      BY DEF TypeInv, JobInv
    <3>2. job'[u].reason \in CloseReasons => price'[job'[u].decision] \in Prices
      BY <1>4, <1>5, <2>2, <3>1 DEF JobOK
    <3>3. QED
      BY <1>2, <2>2, <3>1, <3>2 DEF JobOK
  <2>3. QED
    BY <2>1, <2>2
<1>7. JobInv'
  BY <1>2, <1>6 DEF TypeInv, JobInv
<1>8. PartialInv'
  <2>1. \A u \in Threads : job'[u].reason = "partial_close" =>
          /\ job'[u] = job[u]
          /\ qty'[job[u].decision] = qty[job[u].decision]
          /\ partialDone'[job[u].decision] = partialDone[job[u].decision]
    BY <1>4, <1>5, ReasonKinds
  <2>2. QED
    BY <2>1 DEF TypeInv, PartialInv
<1>9. QED
  BY <1>3, <1>7, <1>8

\* Writes of the journal of decisions.
LEMMA AppendedType ==
    ASSUME TypeInv, NEW d \in Decisions, NEW state \in {"CREATED", "BOUND"},
           NEW i \in Intents \cup {None}, Appended(d, state, i)
    PROVE  /\ lifecycle' \in [Decisions -> {"none", "CREATED", "BOUND"}]
           /\ bound' \in [Decisions -> Intents \cup {None}]
           /\ torn' \in BOOLEAN
BY DEF TypeInv, TypeOK, Appended

\* A write that is torn.
LEMMA AppendTornType ==
    ASSUME TypeInv, AppendTorn
    PROVE  /\ lifecycle' = lifecycle /\ bound' = bound /\ torn' \in BOOLEAN
           /\ swallowed' = swallowed /\ faults' \in 0..MaxFaults
<1>1. faults' \in 0..MaxFaults
  BY DeskAssumption DEF TypeInv, TypeOK, AppendTorn
<1>2. QED
  BY <1>1 DEF AppendTorn

\* Persisting a decision, and refusing to place it.
LEMMA PersistType ==
    ASSUME TypeInv, NEW d \in Decisions, Persist(d) \/ PlaceRefused(d)
    PROVE  TypeInv'
<1>1. UNCHANGED <<route, book>> /\ crashes' = crashes /\ placed \subseteq placed'
      /\ placed' \subseteq Decisions
  BY DEF Persist, PlaceRefused, TypeInv, TypeOK
<1>2. /\ lifecycle' \in [Decisions -> {"none", "CREATED", "BOUND"}]
      /\ bound' \in [Decisions -> Intents \cup {None}] /\ torn' \in BOOLEAN
      /\ swallowed' \subseteq Decisions /\ faults' \in 0..MaxFaults
  <2>1. CASE AppendTorn
    BY <2>1, AppendTornType DEF TypeInv, TypeOK
  <2>2. CASE Appended(d, "CREATED", None) /\ UNCHANGED <<swallowed, faults>>
    BY <2>2, AppendedType DEF TypeInv, TypeOK
  <2>3. CASE UNCHANGED <<identity, faults>>
    BY <2>3 DEF TypeInv, TypeOK, identity
  <2>4. QED
    BY <2>1, <2>2, <2>3 DEF Persist, PlaceRefused
<1>3. RouteTypeOK' /\ BookTypeOK'
  BY <1>1 DEF TypeInv, TypeOK, RouteTypeOK, BookTypeOK, route, book
<1>4. TypeOK'
  BY <1>1, <1>2, <1>3 DEF TypeInv, TypeOK
<1>5. JobInv'
  BY <1>1 DEF TypeInv, JobInv, JobOK, route, book
<1>6. PartialInv'
  BY <1>1 DEF TypeInv, PartialInv, route, book
<1>7. QED
  BY <1>4, <1>5, <1>6 DEF TypeInv

\* The intent of an entry.
LEMMA EntryIntentType ==
    ASSUME NEW d \in Decisions, NEW q \in Sizes, NEW x \in Prices
    PROVE  /\ EntryIntent(d, q, x) \in Intents /\ EntryIntent(d, q, x).reason = "entry"
           /\ EntryIntent(d, q, x).decision = d
BY DeskAssumption DEF EntryIntent, Intents, Reasons

\* Placing an entry.
LEMMA PlaceEntryType ==
    ASSUME TypeInv, NEW d \in Decisions, NEW q \in Sizes, NEW x \in Prices,
           PlaceEntry(d, q, x)
    PROVE  TypeInv'
<1> DEFINE i == EntryIntent(d, q, x)
<1> DEFINE y == [NoJob EXCEPT !.decision = d, !.reason = "entry", !.intent = i]
<1>1. /\ RouteTypeOK /\ BookTypeOK /\ Advisor \in Threads /\ d \notin placed
      /\ i \in Intents /\ i.reason = "entry"
  BY EntryIntentType DEF TypeInv, TypeOK, PlaceEntry, Threads
<1> HIDE DEF i
<1>2. /\ y \in Jobs /\ y.reason = "entry" /\ y.decision = d /\ y.intent = i
      /\ "send" \in Places
  BY <1>1, NoJobType DEF NoJob, Jobs, Places, Reasons
<1>3. pc' = [pc EXCEPT ![Advisor] = "send"] /\ job' = [job EXCEPT ![Advisor] = y]
  BY DEF PlaceEntry, i
<1> HIDE DEF y
<1>4. /\ pc' \in [Threads -> Places] /\ job' \in [Threads -> Jobs]
      /\ pc'[Advisor] = "send" /\ job'[Advisor] = y
      /\ \A u \in Threads \ {Advisor} : pc'[u] = pc[u] /\ job'[u] = job[u]
  BY <1>1, <1>2, <1>3, Replaced
<1>5. UNCHANGED <<intents, held, net, unsold, book, faults, crashes>>
      /\ placed' = placed \cup {d}
  BY DEF PlaceEntry
<1>6. UNCHANGED <<tracked, price, qty, partialDone>>
  BY <1>5 DEF book
<1>7. d \notin tracked
  BY <1>1 DEF TypeInv, JobInv
<1>8. JobOK(Advisor)'
  BY <1>1, <1>2, <1>4, <1>5, <1>6, <1>7, ReasonKinds DEF JobOK
<1>9. JobInv' /\ PartialInv'
  <2>1. job'[Advisor].reason # "partial_close"
    BY <1>2, <1>4
  <2>2. QED
    BY <1>1, <1>4, <1>5, <1>6, <1>8, <2>1, OwnStep
<1>10. /\ lifecycle' \in [Decisions -> {"none", "CREATED", "BOUND"}]
       /\ bound' \in [Decisions -> Intents \cup {None}] /\ torn' \in BOOLEAN
       /\ swallowed' \subseteq Decisions
  <2>1. BindIntent(d, i)
    BY DEF PlaceEntry, i
  <2>2. CASE Appended(d, "BOUND", i) /\ swallowed' = IF torn THEN swallowed \cup {d} ELSE swallowed
    BY <1>1, <2>2, AppendedType DEF TypeInv, TypeOK
  <2>3. CASE UNCHANGED identity
    BY <2>3 DEF TypeInv, TypeOK, identity
  <2>4. QED
    BY <2>1, <2>2, <2>3 DEF BindIntent
<1>11. RouteTypeOK' /\ BookTypeOK'
  BY <1>1, <1>4, <1>5 DEF RouteTypeOK, BookTypeOK, book
<1>12. TypeOK'
  BY <1>5, <1>10, <1>11 DEF TypeInv, TypeOK
<1>13. QED
  BY <1>9, <1>12 DEF TypeInv

\* A position on paper.
LEMMA PlacePaperType ==
    ASSUME TypeInv, NEW d \in Decisions, NEW q \in Sizes, PlacePaper(d, q)
    PROVE  TypeInv'
<1>1. /\ d \in Decisions \ tracked /\ q \in 0..MaxQty /\ AddPosition(d, q)
      /\ placed' = placed \cup {d} /\ UNCHANGED <<route, identity, faults, crashes>>
  BY DeskAssumption, RouteAssumption DEF PlacePaper, TypeInv, JobInv
<1>2. \A u \in Threads : pc'[u] = pc[u] /\ job'[u] = job[u]
  BY <1>1 DEF route
<1>3. \A u \in Threads : job[u].reason # "entry"
  <2>1. pc[Advisor] = "idle"
    BY DEF PlacePaper
  <2>2. QED
    BY <2>1, NoJobType DEF TypeInv, JobInv, JobOK
<1>4. BookTypeOK' /\ JobInv' /\ PartialInv'
  BY <1>1, <1>2, <1>3, AddPositionType
<1>5. RouteTypeOK'
  BY <1>1 DEF TypeInv, TypeOK, RouteTypeOK, route
<1>6. TypeOK'
  BY <1>1, <1>4, <1>5 DEF TypeInv, TypeOK, identity
<1>7. QED
  BY <1>4, <1>6 DEF TypeInv

\* The submission of an entry.
LEMMA SubmitEntryType ==
    ASSUME TypeInv, NEW t \in Threads, SubmitEntry(t)
    PROVE  TypeInv'
<1>1. job[t].intent \in Intents /\ job[t].intent.reason = "entry"
  BY DEF SubmitEntry, Entering, TypeInv, JobInv, JobOK
<1>2. UNCHANGED <<tracked, placed, price, qty, partialDone>>
      /\ UNCHANGED <<book, identity, process>>
  BY DEF SubmitEntry, book, process
<1>3. CASE SubmitFirst(t, job[t].intent)
  <2>1. RouteTypeOK' /\ JobInv' /\ PartialInv'
    BY <1>1, <1>2, <1>3, SubmitFirstType
  <2>2. QED
    BY <1>2, <2>1, RouteStepType
<1>4. CASE SubmitRecorded(t, job[t].intent) \/ SubmitFails(t, job[t].intent) \/ Refused(t)
  <2>1. RouteTypeOK' /\ JobInv' /\ PartialInv'
    BY <1>1, <1>2, <1>4, SubmitOtherType
  <2>2. QED
    BY <1>2, <2>1, RouteStepType
<1>5. QED
  BY <1>3, <1>4 DEF SubmitEntry

\* The quantity that is booked for an entry.
LEMMA BookedType ==
    ASSUME RouteTypeOK, NEW t \in Threads, job[t].intent \in Intents, NEW q \in Booked(t)
    PROVE  q \in 0..MaxQty /\ job[t].intent.amount \in Nat
<1>1. job[t].intent.amount \in 1..MaxQty /\ job[t].filled \in 0..MaxQty
  BY JobType DEF Intents
<1>2. QED
  BY <1>1, RouteAssumption, DeskAssumption DEF Booked

\* What becomes of an entry.
LEMMA ReturnEntryType ==
    ASSUME TypeInv, NEW t \in Threads, ReturnEntry(t)
    PROVE  TypeInv'
<1> DEFINE d == job[t].decision
<1>1. /\ RouteTypeOK /\ BookTypeOK /\ t = Advisor /\ d \in Decisions /\ d \in placed \ tracked
      /\ job[t].intent \in Intents
  BY DEF ReturnEntry, TypeInv, TypeOK, JobInv, JobOK
<1>2. Continue(t, {}) /\ UNCHANGED <<intents, held, net, identity, process>>
  BY DEF ReturnEntry
<1>3. pc' = [pc EXCEPT ![t] = "idle"] /\ job' = [job EXCEPT ![t] = NoJob]
  BY <1>2 DEF Continue
<1>4. /\ pc' \in [Threads -> Places] /\ job' \in [Threads -> Jobs]
      /\ pc'[t] = "idle" /\ job'[t] = NoJob
      /\ \A u \in Threads \ {t} : pc'[u] = pc[u] /\ job'[u] = job[u]
  BY <1>1, <1>3, Replaced, NoJobType DEF Places
<1>5. unsold' \in [Decisions -> Nat] => RouteTypeOK'
  BY <1>1, <1>2, <1>4 DEF RouteTypeOK
<1>6. CASE UNCHANGED <<book, unsold>>
  <2>1. UNCHANGED <<tracked, placed, price, qty, partialDone>> /\ {} \in SUBSET CloseReasons
    BY <1>2, <1>6 DEF book, process
  <2>2. JobInv' /\ PartialInv'
    BY <1>2, <2>1, ContinueType
  <2>3. BookTypeOK' /\ unsold' \in [Decisions -> Nat]
    BY <1>1, <1>6 DEF BookTypeOK, RouteTypeOK, book
  <2>4. QED
    BY <1>2, <1>5, <2>2, <2>3, PositionStepType
<1>7. ASSUME NEW q \in Booked(t), AddPosition(d, q), LeftOut(d, Short(job[t].intent.amount, q))
      PROVE  TypeInv'
  <2>1. q \in 0..MaxQty /\ job[t].intent.amount \in Nat /\ placed' = placed \cup {d}
    BY <1>1, <1>2, BookedType DEF process
  <2>2. \A u \in Threads \ {t} : job[u].reason # "entry"
    BY <1>1 DEF TypeInv, JobInv, JobOK
  <2>3. BookTypeOK' /\ JobInv' /\ PartialInv'
    BY <1>1, <1>4, <1>7, <2>1, <2>2, AddPositionType
  <2>4. unsold' \in [Decisions -> Nat]
    <3>1. q \in Nat
      BY <2>1, RouteAssumption
    <3>2. Short(job[t].intent.amount, q) \in Nat
      BY <2>1, <3>1, ShortType
    <3>3. QED
      BY <1>1, <1>7, <3>2, LeftOutType
  <2>5. QED
    BY <1>2, <1>5, <2>3, <2>4, PositionStepType
<1>8. QED
  BY <1>6, <1>7 DEF ReturnEntry

\* Stuttering changes nothing.
LEMMA StutterType ==
    ASSUME TypeInv, UNCHANGED vars
    PROVE  TypeInv'
<1>1. RouteTypeOK' /\ BookTypeOK'
  BY DEF TypeInv, TypeOK, RouteTypeOK, BookTypeOK, vars, route, book
<1>2. TypeOK'
  BY <1>1 DEF TypeInv, TypeOK, vars, identity, process
<1>3. JobInv' /\ PartialInv'
  BY DEF TypeInv, JobInv, JobOK, PartialInv, vars, route, book, process
<1>4. QED
  BY <1>2, <1>3 DEF TypeInv

\* Every step keeps the types.
LEMMA NextType == TypeInv /\ [Next]_vars => TypeInv'
<1>1. SUFFICES ASSUME TypeInv, [Next]_vars PROVE TypeInv'
  OBVIOUS
<1>2. CASE EntryStep
  BY <1>1, <1>2, PersistType, PlacePaperType, PlaceEntryType, SubmitEntryType,
     ReturnEntryType DEF EntryStep
<1>3. ASSUME NEW t \in Threads, OrderJournalFails(t) PROVE TypeInv'
  BY <1>1, <1>3, OrderJournalFailsType
<1>4. ASSUME NEW t \in Threads, ExchangeStep(t), UNCHANGED <<book, identity, process>>
      PROVE  TypeInv'
  BY <1>1, <1>4, ExchangeType
<1>5. ASSUME NEW t \in Threads, PositionStep(t), UNCHANGED <<identity, process>>
      PROVE  TypeInv'
  BY <1>1, <1>5, PassType, FireType, SendType, ReturnType DEF PositionStep
<1>6. CASE Crash
  BY <1>1, <1>6, CrashType
<1>7. CASE UNCHANGED vars
  BY <1>1, <1>7, StutterType
<1>8. QED
  BY <1>1, <1>2, <1>3, <1>4, <1>5, <1>6, <1>7 DEF Next

\* Every reachable state is well typed, for all constants; in particular a
\* position that both threads halve at once is never reduced below zero.
THEOREM TypeCorrect == Spec => []TypeOK
<1>1. TypeInv => TypeOK
  BY DEF TypeInv
<1>2. QED
  BY <1>1, InitType, NextType, PTL DEF Spec

(***************************************************************************)
(* What each kind of step makes of the thread that takes it                *)
(***************************************************************************)

\* Only t moves.
Alone(t) == \A u \in Threads \ {t} : pc'[u] = pc[u] /\ job'[u] = job[u]

\* These steps leave a thread without an order to make.
Rests(t) ==
    \/ \E d \in Decisions : BeginPass(t, d)
    \/ \E x \in Prices : UpdatePrice(t, x)
    \/ NoPrice(t) \/ EndPass(t)
    \/ ReturnPartial(t) \/ ReturnClosed(t) \/ ReturnOpen(t) \/ ReturnEntry(t)
    \/ OutcomeRaises(t)

\* A thread without an order.
LEMMA Resting ==
    ASSUME TypeInv, NEW t \in Threads, Rests(t)
    PROVE  /\ Alone(t) /\ pc'[t] \in {"idle", "price", "check"} /\ job'[t].reason = None
           /\ job'[t].filled = 0 \/ (pc[t] = "price" /\ job'[t].filled = job[t].filled)
<1>1. RouteTypeOK /\ JobOK(t)
  BY DEF TypeInv, TypeOK, JobInv
<1>2. ASSUME NEW left, Continue(t, left)
      PROVE  /\ Alone(t) /\ pc'[t] \in {"idle", "check"} /\ job'[t].reason = None
             /\ job'[t].filled = 0
  BY <1>1, <1>2, NoJobType DEF Continue, Alone, RouteTypeOK, NoJob
<1>3. ASSUME NEW left, pc[t] = "price", pc' = [pc EXCEPT ![t] = "check"],
             job' = [job EXCEPT ![t].left = left]
      PROVE  /\ Alone(t) /\ pc'[t] = "check" /\ job'[t].reason = None
             /\ job'[t].filled = job[t].filled
  BY <1>1, <1>3, JobType DEF Alone, RouteTypeOK, JobOK, Jobs
<1>4. ASSUME NEW d \in Decisions, BeginPass(t, d)
      PROVE  Alone(t) /\ pc'[t] = "price" /\ job'[t].reason = None /\ job'[t].filled = 0
  BY <1>1, <1>4, NoJobType DEF BeginPass, Alone, RouteTypeOK, NoJob
<1>5. CASE EndPass(t) \/ OutcomeRaises(t)
  <2>1. Continue(t, {})
    BY <1>5 DEF EndPass, OutcomeRaises, Continue
  <2>2. QED
    BY <1>2, <2>1
<1>6. CASE NoPrice(t) \/ \E x \in Prices : UpdatePrice(t, x)
  <2>1. pc[t] = "price"
    BY <1>6 DEF NoPrice, UpdatePrice
  <2>2. QED
    BY <1>3, <1>6, <2>1 DEF NoPrice, UpdatePrice
<1>7. CASE ReturnPartial(t) \/ ReturnClosed(t) \/ ReturnOpen(t) \/ ReturnEntry(t)
  BY <1>2, <1>7 DEF ReturnPartial, ReturnClosed, ReturnOpen, ReturnEntry
<1>8. QED
  BY <1>4, <1>5, <1>6, <1>7 DEF Rests

\* A thread that gets a result.
LEMMA Returning ==
    ASSUME TypeInv, NEW t \in Threads, NEW mode, ReturnWith(t, mode)
    PROVE  /\ Alone(t) /\ pc'[t] = "return" /\ job'[t].mode = mode
           /\ job'[t].reason = job[t].reason /\ job'[t].decision = job[t].decision
           /\ job'[t].intent = job[t].intent /\ job'[t].filled = job[t].filled
           /\ job'[t].qty = job[t].qty
<1>1. RouteTypeOK
  BY DEF TypeInv, TypeOK
<1>2. QED
  BY <1>1, JobType DEF ReturnWith, Alone, RouteTypeOK, Jobs

\* A thread whose order is under way.
LEMMA Sending ==
    ASSUME TypeInv, NEW t \in Threads, NEW i, SubmitFirst(t, i)
    PROVE  /\ Alone(t) /\ pc'[t] = "wait" /\ job'[t].intent = i
           /\ job'[t].reason = job[t].reason /\ job'[t].decision = job[t].decision
           /\ job'[t].qty = job[t].qty /\ job'[t].filled = job[t].filled
<1>1. RouteTypeOK
  BY DEF TypeInv, TypeOK
<1>2. QED
  BY <1>1, JobType DEF SubmitFirst, Alone, RouteTypeOK, Jobs

\* A thread that is about to close.
LEMMA Firing ==
    ASSUME TypeInv, NEW t \in Threads, NEW r \in CloseReasons, Fire(t, r)
    PROVE  /\ Alone(t) /\ pc'[t] = "send" /\ job'[t].reason = r
           /\ job'[t].decision = job[t].decision /\ ~closed[job[t].decision]
           /\ job'[t].filled = job[t].filled /\ (r \in FullReasons => job'[t].qty = 0)
<1>1. RouteTypeOK
  BY DEF TypeInv, TypeOK
<1>2. QED
  BY <1>1, JobType, ReasonKinds DEF Fire, Alone, RouteTypeOK, Jobs

\* A thread whose order is executed.
LEMMA Executing ==
    ASSUME TypeInv, NEW t \in Threads, NEW f \in 1..MaxQty, Execute(t, f)
    PROVE  /\ Alone(t) /\ pc'[t] = "executed" /\ pc[t] = "wait" /\ job'[t].filled = f
           /\ job'[t].reason = job[t].reason /\ job'[t].decision = job[t].decision
           /\ job'[t].intent = job[t].intent /\ job'[t].qty = job[t].qty
<1>1. RouteTypeOK
  BY DEF TypeInv, TypeOK
<1>2. QED
  BY <1>1, JobType DEF Execute, Alone, RouteTypeOK, Jobs

\* The advisor loop places an entry.
LEMMA Placing ==
    ASSUME TypeInv, NEW d \in Decisions, NEW q \in Sizes, NEW x \in Prices,
           PlaceEntry(d, q, x)
    PROVE  /\ Advisor \in Threads /\ Alone(Advisor) /\ pc'[Advisor] = "send"
           /\ job'[Advisor].reason = "entry" /\ job'[Advisor].decision = d
           /\ job'[Advisor].intent = EntryIntent(d, q, x) /\ job'[Advisor].filled = 0
BY DEF PlaceEntry, Alone, TypeInv, TypeOK, RouteTypeOK, Threads, NoJob

(***************************************************************************)
(* Orders after the close                                                  *)
(***************************************************************************)

\* A thread that has sent an order after the close sends no other one.
LateInv ==
    /\ \A d \in Decisions : closed[d] => d \in tracked
    /\ \A d \in Decisions, t \in Threads :
        /\ late[d][t] <= 1
        /\ late[d][t] = 1 => closed[d] /\ ~(Closing(t) /\ job[t].decision = d)


\* A step after which t has no order to make, or one for an open position.
LEMMA LateStep ==
    ASSUME TypeInv, TypeInv', LateInv, NEW t \in Threads, Alone(t), late' = late,
           \A d \in Decisions : closed[d] => closed'[d],
           \A d \in Decisions : closed'[d] => d \in tracked',
           Closing(t)' => ~closed[job'[t].decision]
    PROVE  LateInv'
<1>1. ASSUME NEW d \in Decisions, NEW u \in Threads
      PROVE  /\ late'[d][u] <= 1
             /\ late'[d][u] = 1 => closed'[d] /\ ~(Closing(u)' /\ job'[u].decision = d)
  <2>1. CASE u = t
    BY <2>1 DEF LateInv
  <2>2. CASE u # t
    BY <2>2 DEF LateInv, Alone, Closing
  <2>3. QED
    BY <2>1, <2>2
<1>2. QED
  BY <1>1 DEF LateInv

\* Steps that concern neither positions nor orders.
LEMMA LateUnchanged ==
    ASSUME LateInv, UNCHANGED <<pc, job, late, closed, tracked>>
    PROVE  LateInv'
BY DEF LateInv, Closing

\* A new position is not closed, and was not before.
LEMMA LateAdd ==
    ASSUME TypeInv, LateInv, NEW d \in Decisions \ tracked, NEW q, AddPosition(d, q)
    PROVE  /\ late' = late
           /\ \A e \in Decisions : closed[e] => closed'[e]
           /\ \A e \in Decisions : closed'[e] => e \in tracked'
BY DEF LateInv, AddPosition, TypeInv, TypeOK, BookTypeOK

\* An order sent by a thread that wants to close.
LEMMA LateSendFirst ==
    ASSUME TypeInv, TypeInv', LateInv, NEW t \in Threads, SendFirst(t)
    PROVE  LateInv'
<1> DEFINE d == job[t].decision
<1>1. /\ Closing(t) /\ SubmitFirst(t, CloseIntent(t))
      /\ closed' = closed /\ tracked' = tracked
      /\ late' = IF closed[d] THEN [late EXCEPT ![d][t] = @ + 1] ELSE late
  BY DEF SendFirst
<1>2. Alone(t) /\ pc'[t] = "wait"
  BY <1>1, Sending
<1>3. ~Closing(t)'
  BY <1>2 DEF Closing
<1>4. \A e \in Decisions : closed[e] => e \in tracked
  BY DEF LateInv
<1>5. CASE ~closed[d]
  BY <1>1, <1>2, <1>3, <1>4, <1>5, LateStep
<1>6. CASE closed[d]
  <2>1. d \in Decisions /\ late \in [Decisions -> [Threads -> Nat]]
    BY <1>1 DEF TypeInv, TypeOK, BookTypeOK, JobInv, JobOK, Closing
  <2>2. late[d][t] = 0
    <3>1. late[d][t] \in Nat
      BY <2>1
    <3>2. late[d][t] <= 1 /\ late[d][t] # 1
      BY <1>1, <2>1 DEF LateInv
    <3>3. QED
      BY <3>1, <3>2
  <2>3. late' = [late EXCEPT ![d] = [late[d] EXCEPT ![t] = 1]]
    BY <1>1, <1>6, <2>1, <2>2
  <2>4. ASSUME NEW e \in Decisions, NEW u \in Threads
        PROVE  late'[e][u] = IF e = d /\ u = t THEN 1 ELSE late[e][u]
    BY <2>1, <2>3
  <2>5. ASSUME NEW e \in Decisions, NEW u \in Threads
        PROVE  /\ late'[e][u] <= 1
               /\ late'[e][u] = 1 => closed'[e] /\ ~(Closing(u)' /\ job'[u].decision = e)
    <3>1. CASE u = t
      BY <1>1, <1>3, <1>6, <2>4, <3>1 DEF LateInv
    <3>2. CASE u # t
      BY <1>1, <1>2, <2>4, <3>2 DEF LateInv, Alone, Closing
    <3>3. QED
      BY <3>1, <3>2
  <2>6. QED
    BY <1>1, <1>4, <2>5 DEF LateInv
<1>7. QED
  BY <1>5, <1>6

\* Every step keeps the invariant.
LEMMA NextLate == TypeInv /\ TypeInv' /\ LateInv /\ [Next]_vars => LateInv'
<1>1. SUFFICES ASSUME TypeInv, TypeInv', LateInv, [Next]_vars PROVE LateInv'
  OBVIOUS
<1>2. \A d \in Decisions : closed[d] => d \in tracked
  BY <1>1 DEF LateInv
<1>3. ASSUME NEW t \in Threads, Alone(t), UNCHANGED <<late, closed, tracked>>, ~Closing(t)'
      PROVE  LateInv'
  BY <1>1, <1>2, <1>3, LateStep
<1>4. ASSUME NEW t \in Threads, NEW mode, ReturnWith(t, mode), UNCHANGED <<late, closed, tracked>>
      PROVE  LateInv'
  <2>1. Alone(t) /\ ~Closing(t)'
    BY <1>1, <1>4, Returning DEF Closing
  <2>2. QED
    BY <1>3, <1>4, <2>1
<1>5. ASSUME NEW t \in Threads, Rests(t) PROVE Alone(t) /\ ~Closing(t)'
  BY <1>1, <1>5, Resting DEF Closing
<1>6. CASE EntryStep
  <2>1. ASSUME NEW d \in Decisions, Persist(d) \/ PlaceRefused(d) PROVE LateInv'
    BY <1>1, <2>1, LateUnchanged DEF Persist, PlaceRefused, route, book
  <2>2. ASSUME NEW d \in Decisions, NEW q \in Sizes, NEW x \in Prices, PlaceEntry(d, q, x)
        PROVE  LateInv'
    <3>1. Advisor \in Threads /\ Alone(Advisor) /\ ~Closing(Advisor)'
      BY <1>1, <2>2, Placing, ReasonKinds DEF Closing
    <3>2. QED
      BY <1>3, <2>2, <3>1 DEF PlaceEntry, book
  <2>3. ASSUME NEW d \in Decisions, NEW q \in Sizes, PlacePaper(d, q) PROVE LateInv'
    <3>1. d \in Decisions \ tracked /\ AddPosition(d, q) /\ UNCHANGED <<pc, job>>
      BY <1>1, <2>3 DEF PlacePaper, TypeInv, JobInv, route
    <3>2. /\ late' = late
          /\ \A e \in Decisions : closed[e] => closed'[e]
          /\ \A e \in Decisions : closed'[e] => e \in tracked'
      BY <1>1, <3>1, LateAdd
    <3>3. /\ Advisor \in Threads /\ Alone(Advisor) /\ ~Closing(Advisor)'
      BY <2>3, <3>1 DEF PlacePaper, Threads, Alone, Closing
    <3>4. QED
      BY <1>1, <3>2, <3>3, LateStep
  <2>4. ASSUME NEW t \in Threads, SubmitEntry(t) PROVE LateInv'
    <3>1. UNCHANGED <<late, closed, tracked>>
      BY <2>4 DEF SubmitEntry, book
    <3>2. CASE SubmitFirst(t, job[t].intent)
      <4>1. Alone(t) /\ ~Closing(t)'
        BY <1>1, <3>2, Sending DEF Closing
      <4>2. QED
        BY <1>3, <3>1, <4>1
    <3>3. CASE SubmitRecorded(t, job[t].intent) \/ SubmitFails(t, job[t].intent) \/ Refused(t)
      BY <1>4, <3>1, <3>3 DEF SubmitRecorded, SubmitFails, Refused
    <3>4. QED
      BY <2>4, <3>2, <3>3 DEF SubmitEntry
  <2>5. ASSUME NEW t \in Threads, ReturnEntry(t) PROVE LateInv'
    <3>1. Alone(t) /\ ~Closing(t)'
      BY <1>5, <2>5 DEF Rests
    <3>2. CASE UNCHANGED book
      BY <1>3, <3>1, <3>2 DEF book
    <3>3. ASSUME NEW q, AddPosition(job[t].decision, q) PROVE LateInv'
      <4>1. job[t].decision \in Decisions \ tracked
        BY <1>1, <2>5 DEF ReturnEntry, TypeInv, JobInv, JobOK
      <4>2. /\ late' = late
            /\ \A e \in Decisions : closed[e] => closed'[e]
            /\ \A e \in Decisions : closed'[e] => e \in tracked'
        BY <1>1, <3>3, <4>1, LateAdd
      <4>3. QED
        BY <1>1, <3>1, <4>2, LateStep
    <3>4. QED
      BY <2>5, <3>2, <3>3 DEF ReturnEntry
  <2>6. QED
    BY <1>6, <2>1, <2>2, <2>3, <2>4, <2>5 DEF EntryStep
<1>7. ASSUME NEW t \in Threads, OrderJournalFails(t) PROVE LateInv'
  <2>1. Alone(t) /\ ~Closing(t)'
    BY <1>5, <1>7 DEF OrderJournalFails, Rests
  <2>2. QED
    BY <1>3, <1>7, <2>1 DEF OrderJournalFails, book
<1>8. ASSUME NEW t \in Threads, ExchangeStep(t), UNCHANGED <<book, identity, process>>
      PROVE  LateInv'
  <2>1. UNCHANGED <<late, closed, tracked>>
    BY <1>8 DEF book
  <2>2. ASSUME NEW f \in 1..MaxQty, Execute(t, f) PROVE LateInv'
    <3>1. Alone(t) /\ ~Closing(t)'
      BY <1>1, <2>2, Executing DEF Closing
    <3>2. QED
      BY <1>3, <2>1, <3>1
  <2>3. CASE Acknowledge(t) \/ Reject(t) \/ AnswerLost(t)
    BY <1>4, <2>1, <2>3 DEF Acknowledge, Reject, AnswerLost
  <2>4. QED
    BY <1>8, <2>2, <2>3 DEF ExchangeStep
<1>9. ASSUME NEW t \in Threads, PositionStep(t) PROVE LateInv'
  <2>1. CASE \/ \E d \in Decisions : BeginPass(t, d)
             \/ \E x \in Prices : UpdatePrice(t, x)
             \/ NoPrice(t) \/ EndPass(t) \/ ReturnPartial(t) \/ ReturnOpen(t)
    <3>1. Alone(t) /\ ~Closing(t)'
      BY <1>5, <2>1 DEF Rests
    <3>2. UNCHANGED <<late, closed, tracked>>
      BY <2>1 DEF BeginPass, UpdatePrice, NoPrice, EndPass, ReturnPartial, ReturnOpen, book
    <3>3. QED
      BY <1>3, <3>1, <3>2
  <2>2. CASE ReturnClosed(t)
    <3>1. Alone(t) /\ ~Closing(t)'
      BY <1>5, <2>2 DEF Rests
    <3>2. /\ late' = late /\ tracked' = tracked
          /\ closed' = [closed EXCEPT ![job[t].decision] = TRUE]
      BY <2>2 DEF ReturnClosed
    <3>3. job[t].decision \in tracked /\ closed \in [Decisions -> BOOLEAN]
      BY <1>1, <2>2, ReasonKinds DEF ReturnClosed, TypeInv, TypeOK, BookTypeOK, JobInv, JobOK
    <3>4. /\ \A e \in Decisions : closed[e] => closed'[e]
          /\ \A e \in Decisions : closed'[e] => e \in tracked'
      BY <1>2, <3>2, <3>3
    <3>5. QED
      BY <1>1, <3>1, <3>2, <3>4, LateStep
  <2>3. ASSUME NEW r \in CloseReasons, Fire(t, r) PROVE LateInv'
    <3>1. Alone(t) /\ ~closed[job'[t].decision]
      BY <1>1, <2>3, Firing
    <3>2. UNCHANGED <<late, closed, tracked>>
      BY <2>3 DEF Fire, book
    <3>3. QED
      BY <1>1, <1>2, <3>1, <3>2, LateStep
  <2>4. CASE SendFirst(t)
    BY <1>1, <2>4, LateSendFirst
  <2>5. CASE SendDenied(t) \/ SendPaper(t) \/ SendRepeated(t)
    <3>1. UNCHANGED <<late, closed, tracked>>
      BY <2>5 DEF SendDenied, SendPaper, SendRepeated, book
    <3>2. QED
      BY <1>4, <2>5, <3>1 DEF SendDenied, SendPaper, SendRepeated, Refused, SubmitRecorded,
                              SubmitFails
  <2>6. QED
    BY <1>9, <2>1, <2>2, <2>3, <2>4, <2>5 DEF PositionStep
<1>10. CASE Crash
  BY <1>10 DEF Crash, LateInv
<1>11. CASE UNCHANGED vars
  BY <1>1, <1>11, LateUnchanged DEF vars, route, book
<1>12. QED
  BY <1>1, <1>6, <1>7, <1>8, <1>9, <1>10, <1>11 DEF Next

\* After a position is closed each thread submits at most one more order for
\* it, although no lock is held from the check to the order.
THEOREM LateOrders == Spec => []OneLateOrder
<1>1. Init => LateInv
  BY DEF Init, RouteInit, BookInit, LateInv
<1>2. LateInv => OneLateOrder
  BY DEF LateInv, OneLateOrder
<1>3. QED
  BY <1>1, <1>2, InitType, NextType, NextLate, PTL DEF Spec

(***************************************************************************)
(* Closed positions                                                        *)
(***************************************************************************)

\* Acknowledged orders that close all of the position of d.
FullyClosed(d) ==
    \E i \in intents["ACKNOWLEDGED"] :
        i.decision = d /\ i.opened = opened[d] /\ i.reason \in FullReasons

\* An order under way is of its job, and a close reported as live was
\* acknowledged.
AckOK(t) ==
    /\ pc[t] \in {"wait", "executed"} =>
        \/ job[t].reason = "entry" /\ job[t].intent.reason = "entry"
        \/ /\ job[t].reason \in CloseReasons
           /\ job[t].intent.decision = job[t].decision
           /\ job[t].intent.opened = opened[job[t].decision]
           /\ job[t].intent.reason = job[t].reason
    /\ pc[t] = "return" /\ job[t].reason \in FullReasons /\ job[t].mode = "live" =>
        FullyClosed(job[t].decision)
    /\ pc[t] = "return" /\ job[t].mode = "paper" => paper

AckInv ==
    /\ \A t \in Threads : AckOK(t)
    /\ ClosedAcknowledged

\* A step of t that acknowledges no less than before, and closes a position
\* only if that is right.
LEMMA AckStep ==
    ASSUME TypeInv, AckInv, NEW t \in Threads, Alone(t), paper' = paper,
           \A d \in tracked : opened'[d] = opened[d],
           intents["ACKNOWLEDGED"] \subseteq intents'["ACKNOWLEDGED"],
           \A d \in tracked' : closed'[d] =>
               d \in tracked /\ (closed[d] \/ paper \/ FullyClosed(d)),
           AckOK(t)'
    PROVE  AckInv'
<1>1. \A d \in tracked : FullyClosed(d) => FullyClosed(d)'
  BY DEF FullyClosed
<1>2. ASSUME NEW u \in Threads \ {t} PROVE AckOK(u)'
  <2>1. AckOK(u) /\ JobOK(u) /\ pc'[u] = pc[u] /\ job'[u] = job[u]
    BY DEF AckInv, Alone, TypeInv, JobInv
  <2>2. job[u].reason \in CloseReasons /\ pc[u] \in {"wait", "executed", "return"} =>
            job[u].decision \in tracked
    BY <2>1, ReasonKinds DEF JobOK
  <2>3. QED
    BY <1>1, <2>1, <2>2, ReasonKinds DEF AckOK
<1>3. ClosedAcknowledged'
  BY <1>1 DEF AckInv, ClosedAcknowledged, FullyClosed
<1>4. QED
  BY <1>2, <1>3 DEF AckInv

\* What is recorded as acknowledged stays so.
LEMMA AckMoves ==
    ASSUME TypeInv, NEW t \in Threads, NEW to \in IntentStates, Outcome(t, to)
    PROVE  /\ intents["ACKNOWLEDGED"] \subseteq intents'["ACKNOWLEDGED"]
           /\ intents'["ACKNOWLEDGED"] \subseteq intents["ACKNOWLEDGED"] \cup
                (IF to = "ACKNOWLEDGED" THEN {job[t].intent} ELSE {})
           /\ to = "ACKNOWLEDGED" => job[t].intent \in intents'["ACKNOWLEDGED"]
BY DEF TypeInv, TypeOK, RouteTypeOK, Outcome, IntentStates

\* The submissions that record a new intent acknowledge nothing.
LEMMA AckNew ==
    ASSUME TypeInv, NEW t, NEW i, SubmitFirst(t, i) \/ SubmitFails(t, i)
    PROVE  intents'["ACKNOWLEDGED"] = intents["ACKNOWLEDGED"]
BY DEF TypeInv, TypeOK, RouteTypeOK, SubmitFirst, SubmitFails, IntentStates

\* A new position is open.
LEMMA AckAdd ==
    ASSUME TypeInv, NEW d \in Decisions \ tracked, NEW q, AddPosition(d, q)
    PROVE  /\ paper' = paper /\ \A e \in tracked : opened'[e] = opened[e]
           /\ \A e \in tracked' : closed'[e] => e \in tracked /\ closed[e]
BY DEF AddPosition, TypeInv, TypeOK, BookTypeOK

\* The submission of an entry.
LEMMA AckSubmitEntry ==
    ASSUME TypeInv, AckInv, NEW t \in Threads, SubmitEntry(t)
    PROVE  AckInv'
<1>1. UNCHANGED <<paper, opened, closed, tracked>> /\ job[t].reason = "entry"
      /\ job[t].intent.reason = "entry"
  BY DEF SubmitEntry, Entering, book, TypeInv, JobInv, JobOK
<1>2. CASE SubmitFirst(t, job[t].intent)
  <2>1. /\ Alone(t) /\ pc'[t] = "wait" /\ job'[t].intent = job[t].intent
        /\ job'[t].reason = job[t].reason
    BY <1>2, Sending
  <2>2. AckOK(t)'
    BY <1>1, <2>1 DEF AckOK
  <2>3. QED
    BY <1>1, <1>2, <2>1, <2>2, AckStep, AckNew
<1>3. CASE SubmitRecorded(t, job[t].intent) \/ SubmitFails(t, job[t].intent) \/ Refused(t)
  <2>1. PICK mode : ReturnWith(t, mode) /\ mode \in {"live", "live_ambiguous", "live_failed", "rejected"}
    BY <1>3 DEF SubmitRecorded, SubmitFails, Refused, RecordedMode
  <2>2. Alone(t) /\ pc'[t] = "return" /\ job'[t].mode = mode /\ job'[t].reason = "entry"
    BY <1>1, <2>1, Returning
  <2>3. AckOK(t)'
    BY <2>1, <2>2, ReasonKinds DEF AckOK
  <2>4. intents["ACKNOWLEDGED"] \subseteq intents'["ACKNOWLEDGED"]
    BY <1>3, AckNew DEF SubmitRecorded, Refused
  <2>5. QED
    BY <1>1, <2>2, <2>3, <2>4, AckStep
<1>4. QED
  BY <1>2, <1>3 DEF SubmitEntry

\* _send_close_order.
LEMMA AckSend ==
    ASSUME TypeInv, AckInv, NEW t \in Threads,
           SendDenied(t) \/ SendPaper(t) \/ SendFirst(t) \/ SendRepeated(t)
    PROVE  AckInv'
<1>1. UNCHANGED <<paper, opened, closed, tracked>>
  BY DEF SendDenied, SendPaper, SendFirst, SendRepeated, book
<1>2. CASE SendFirst(t)
  <2>1. /\ SubmitFirst(t, CloseIntent(t))
        /\ CloseIntent(t).decision = job[t].decision
        /\ CloseIntent(t).opened = opened[job[t].decision]
        /\ CloseIntent(t).reason = job[t].reason /\ job[t].reason \in CloseReasons
    BY <1>2, CloseIntentType DEF SendFirst
  <2>2. /\ Alone(t) /\ pc'[t] = "wait" /\ job'[t].intent = CloseIntent(t)
        /\ job'[t].reason = job[t].reason /\ job'[t].decision = job[t].decision
    BY <2>1, Sending
  <2>3. AckOK(t)'
    BY <1>1, <2>1, <2>2 DEF AckOK
  <2>4. QED
    BY <1>1, <2>1, <2>2, <2>3, AckStep, AckNew
<1>3. ASSUME NEW mode \in {"live", "live_ambiguous", "live_failed", "rejected", "paper"},
             ReturnWith(t, mode),
             intents["ACKNOWLEDGED"] \subseteq intents'["ACKNOWLEDGED"],
             mode = "live" /\ job[t].reason \in FullReasons => FullyClosed(job[t].decision),
             mode = "paper" => paper
      PROVE  AckInv'
  <2>1. /\ Alone(t) /\ pc'[t] = "return" /\ job'[t].mode = mode
        /\ job'[t].reason = job[t].reason /\ job'[t].decision = job[t].decision
    BY <1>3, Returning
  <2>2. FullyClosed(job[t].decision) => FullyClosed(job[t].decision)'
    BY <1>1, <1>3, <2>1 DEF FullyClosed
  <2>3. AckOK(t)'
    BY <1>1, <1>3, <2>1, <2>2 DEF AckOK
  <2>4. QED
    BY <1>1, <1>3, <2>1, <2>3, AckStep
<1>4. CASE SendDenied(t)
  BY <1>3, <1>4 DEF SendDenied, Refused
<1>5. CASE SendPaper(t)
  BY <1>3, <1>5 DEF SendPaper
<1>6. CASE SendRepeated(t)
  <2>1. /\ CloseIntent(t).decision = job[t].decision
        /\ CloseIntent(t).opened = opened[job[t].decision]
        /\ CloseIntent(t).reason = job[t].reason
    BY <1>6, CloseIntentType DEF SendRepeated
  <2>2. CASE SubmitFails(t, CloseIntent(t))
    <3>1. ReturnWith(t, "live_failed") /\ intents'["ACKNOWLEDGED"] = intents["ACKNOWLEDGED"]
      BY <2>2, AckNew DEF SubmitFails
    <3>2. QED
      BY <1>3, <3>1
  <2>3. CASE SubmitRecorded(t, CloseIntent(t))
    <3>1. ReturnWith(t, RecordedMode(CloseIntent(t))) /\ intents' = intents
      BY <2>3 DEF SubmitRecorded
    <3>2. /\ RecordedMode(CloseIntent(t)) \in {"live", "live_ambiguous", "live_failed"}
          /\ RecordedMode(CloseIntent(t)) = "live" =>
                CloseIntent(t) \in intents["ACKNOWLEDGED"]
      BY DEF RecordedMode
    <3>3. RecordedMode(CloseIntent(t)) = "live" /\ job[t].reason \in FullReasons =>
              FullyClosed(job[t].decision)
      BY <2>1, <3>2 DEF FullyClosed
    <3>4. QED
      BY <1>3, <3>1, <3>2, <3>3
  <2>4. QED
    BY <1>6, <2>2, <2>3 DEF SendRepeated
<1>7. QED
  BY <1>2, <1>4, <1>5, <1>6

\* The exchange, and what is made of its answer.
LEMMA AckExchange ==
    ASSUME TypeInv, AckInv, NEW t \in Threads, ExchangeStep(t), UNCHANGED book
    PROVE  AckInv'
<1>1. UNCHANGED <<paper, opened, closed, tracked>> /\ AckOK(t)
  BY DEF book, AckInv
<1>2. ASSUME NEW f \in 1..MaxQty, Execute(t, f) PROVE AckInv'
  <2>1. /\ Alone(t) /\ pc'[t] = "executed" /\ pc[t] = "wait" /\ intents' = intents
        /\ job'[t].reason = job[t].reason /\ job'[t].decision = job[t].decision
        /\ job'[t].intent = job[t].intent
    BY <1>2, Executing DEF Execute
  <2>2. AckOK(t)'
    BY <1>1, <2>1 DEF AckOK
  <2>3. QED
    BY <1>1, <2>1, <2>2, AckStep
<1>3. CASE Acknowledge(t)
  <2>1. ReturnWith(t, "live") /\ Outcome(t, "ACKNOWLEDGED")
        /\ pc[t] = "executed"
    BY <1>3 DEF Acknowledge
  <2>2. /\ Alone(t) /\ pc'[t] = "return" /\ job'[t].mode = "live"
        /\ job'[t].reason = job[t].reason /\ job'[t].decision = job[t].decision
    BY <2>1, Returning
  <2>3. /\ intents["ACKNOWLEDGED"] \subseteq intents'["ACKNOWLEDGED"]
        /\ job[t].intent \in intents'["ACKNOWLEDGED"]
    BY <2>1, AckMoves DEF IntentStates
  <2>4. job[t].reason \in FullReasons => FullyClosed(job[t].decision)'
    BY <1>1, <2>1, <2>2, <2>3, ReasonKinds DEF AckOK, FullyClosed
  <2>5. AckOK(t)'
    BY <2>2, <2>4 DEF AckOK
  <2>6. QED
    BY <1>1, <2>2, <2>3, <2>5, AckStep
<1>4. CASE Reject(t) \/ AnswerLost(t)
  <2>1. PICK mode \in {"live_failed", "live_ambiguous"} : ReturnWith(t, mode)
    BY <1>4 DEF Reject, AnswerLost
  <2>2. PICK to \in IntentStates : Outcome(t, to)
    BY <1>4 DEF Reject, AnswerLost, IntentStates
  <2>3. Alone(t) /\ pc'[t] = "return" /\ job'[t].mode = mode
    BY <2>1, Returning
  <2>4. AckOK(t)'
    BY <2>1, <2>3 DEF AckOK
  <2>5. QED
    BY <1>1, <2>2, <2>3, <2>4, AckStep, AckMoves
<1>5. QED
  BY <1>2, <1>3, <1>4 DEF ExchangeStep

\* Every step keeps the invariant.
LEMMA NextAck == TypeInv /\ AckInv /\ [Next]_vars => AckInv'
<1>1. SUFFICES ASSUME TypeInv, AckInv, [Next]_vars PROVE AckInv'
  OBVIOUS
<1>2. ASSUME NEW t \in Threads, Rests(t) PROVE Alone(t) /\ AckOK(t)'
  BY <1>1, <1>2, Resting DEF AckOK
<1>3. ASSUME UNCHANGED <<pc, job, intents, paper, opened, closed, tracked>> PROVE AckInv'
  BY <1>1, <1>3 DEF AckInv, AckOK, FullyClosed, ClosedAcknowledged
<1>4. CASE EntryStep
  <2>1. ASSUME NEW d \in Decisions, Persist(d) \/ PlaceRefused(d) PROVE AckInv'
    BY <1>3, <2>1 DEF Persist, PlaceRefused, route, book
  <2>2. ASSUME NEW d \in Decisions, NEW q \in Sizes, NEW x \in Prices, PlaceEntry(d, q, x)
        PROVE  AckInv'
    <3>1. Advisor \in Threads /\ Alone(Advisor) /\ pc'[Advisor] = "send"
      BY <1>1, <2>2, Placing
    <3>2. AckOK(Advisor)'
      BY <3>1 DEF AckOK
    <3>3. UNCHANGED <<intents, paper, opened, closed, tracked>>
      BY <2>2 DEF PlaceEntry, book
    <3>4. QED
      BY <1>1, <3>1, <3>2, <3>3, AckStep
  <2>3. ASSUME NEW d \in Decisions, NEW q \in Sizes, PlacePaper(d, q) PROVE AckInv'
    <3>1. /\ d \in Decisions \ tracked /\ AddPosition(d, q) /\ UNCHANGED <<pc, job, intents>>
          /\ pc[Advisor] = "idle" /\ Advisor \in Threads
      BY <1>1, <2>3 DEF PlacePaper, TypeInv, JobInv, route, Threads
    <3>2. Alone(Advisor) /\ AckOK(Advisor)'
      BY <3>1 DEF Alone, AckOK
    <3>3. QED
      BY <1>1, <3>1, <3>2, AckAdd, AckStep
  <2>4. ASSUME NEW t \in Threads, SubmitEntry(t) PROVE AckInv'
    BY <1>1, <2>4, AckSubmitEntry
  <2>5. ASSUME NEW t \in Threads, ReturnEntry(t) PROVE AckInv'
    <3>1. Alone(t) /\ AckOK(t)' /\ intents' = intents
      BY <1>2, <2>5 DEF Rests, ReturnEntry
    <3>2. CASE UNCHANGED book
      BY <1>1, <3>1, <3>2, AckStep DEF book
    <3>3. ASSUME NEW q, AddPosition(job[t].decision, q) PROVE AckInv'
      <4>1. job[t].decision \in Decisions \ tracked
        BY <1>1, <2>5 DEF ReturnEntry, TypeInv, JobInv, JobOK
      <4>2. QED
        BY <1>1, <3>1, <3>3, <4>1, AckAdd, AckStep
    <3>4. QED
      BY <2>5, <3>2, <3>3 DEF ReturnEntry
  <2>6. QED
    BY <1>4, <2>1, <2>2, <2>3, <2>4, <2>5 DEF EntryStep
<1>5. ASSUME NEW t \in Threads, OrderJournalFails(t) PROVE AckInv'
  <2>1. Alone(t) /\ AckOK(t)' /\ UNCHANGED <<paper, opened, closed, tracked>>
    BY <1>2, <1>5 DEF OrderJournalFails, Rests, book
  <2>2. intents["ACKNOWLEDGED"] \subseteq intents'["ACKNOWLEDGED"]
    <3>1. CASE UNCHANGED <<intents, unsold>>
      BY <3>1
    <3>2. CASE \E to \in IntentStates : Outcome(t, to)
      BY <1>1, <3>2, AckMoves
    <3>3. QED
      BY <1>5, <3>1, <3>2 DEF OrderJournalFails, OutcomeRaises, IntentStates
  <2>3. QED
    BY <1>1, <2>1, <2>2, AckStep
<1>6. ASSUME NEW t \in Threads, ExchangeStep(t), UNCHANGED <<book, identity, process>>
      PROVE  AckInv'
  BY <1>1, <1>6, AckExchange
<1>7. ASSUME NEW t \in Threads, PositionStep(t) PROVE AckInv'
  <2>1. CASE \/ \E d \in Decisions : BeginPass(t, d)
             \/ \E x \in Prices : UpdatePrice(t, x)
             \/ NoPrice(t) \/ EndPass(t) \/ ReturnPartial(t) \/ ReturnOpen(t)
    <3>1. Alone(t) /\ AckOK(t)'
      BY <1>2, <2>1 DEF Rests
    <3>2. UNCHANGED <<intents, paper, opened, closed, tracked>>
      BY <2>1 DEF BeginPass, UpdatePrice, NoPrice, EndPass, ReturnPartial, ReturnOpen, book
    <3>3. QED
      BY <1>1, <3>1, <3>2, AckStep
  <2>2. CASE ReturnClosed(t)
    <3>1. Alone(t) /\ AckOK(t)'
      BY <1>2, <2>2 DEF Rests
    <3>2. /\ UNCHANGED <<intents, paper, opened, tracked>>
          /\ closed' = [closed EXCEPT ![job[t].decision] = TRUE]
          /\ pc[t] = "return" /\ job[t].reason \in FullReasons /\ job[t].mode \in {"live", "paper"}
      BY <2>2 DEF ReturnClosed, Confirmed
    <3>3. paper \/ FullyClosed(job[t].decision)
      BY <1>1, <3>2 DEF AckInv, AckOK
    <3>4. closed \in [Decisions -> BOOLEAN] /\ tracked \subseteq Decisions
      BY <1>1 DEF TypeInv, TypeOK, BookTypeOK
    <3>5. \A d \in tracked' : closed'[d] =>
              d \in tracked /\ (closed[d] \/ paper \/ FullyClosed(d))
      BY <3>2, <3>3, <3>4
    <3>6. QED
      BY <1>1, <3>1, <3>2, <3>5, AckStep
  <2>3. ASSUME NEW r \in CloseReasons, Fire(t, r) PROVE AckInv'
    <3>1. Alone(t) /\ pc'[t] = "send"
      BY <1>1, <2>3, Firing
    <3>2. UNCHANGED <<intents, paper, opened, closed, tracked>> /\ AckOK(t)'
      BY <2>3, <3>1 DEF Fire, book, AckOK
    <3>3. QED
      BY <1>1, <3>1, <3>2, AckStep
  <2>4. CASE SendDenied(t) \/ SendPaper(t) \/ SendFirst(t) \/ SendRepeated(t)
    BY <1>1, <2>4, AckSend
  <2>5. QED
    BY <1>7, <2>1, <2>2, <2>3, <2>4 DEF PositionStep
<1>8. CASE Crash
  <2>1. \A t \in Threads : pc'[t] = "idle"
    BY <1>8 DEF Crash
  <2>2. \A t \in Threads : AckOK(t)'
    BY <2>1 DEF AckOK
  <2>3. QED
    BY <1>8, <2>2 DEF Crash, AckInv, ClosedAcknowledged
<1>9. CASE UNCHANGED vars
  BY <1>3, <1>9 DEF vars, route, book
<1>10. QED
  BY <1>1, <1>4, <1>5, <1>6, <1>7, <1>8, <1>9 DEF Next

\* A position is marked as closed only after the exchange acknowledged an
\* order that closes all of it.
THEOREM ClosedMeansClosed == Spec => []ClosedAcknowledged
<1>1. Init => AckInv
  BY DEF Init, RouteInit, BookInit, AckInv, AckOK, ClosedAcknowledged
<1>2. AckInv => ClosedAcknowledged
  BY DEF AckInv
<1>3. QED
  BY <1>1, <1>2, InitType, NextType, NextAck, PTL DEF Spec

(***************************************************************************)
(* One entry order for each decision                                       *)
(***************************************************************************)

\* The decision journal binds the decision of i to i, or has lost its record.
BoundTo(i) == i.decision \in swallowed \/ bound[i.decision] = i

\* The entry order of a decision, sent or about to be, is the one that the
\* decision journal binds it to.
EntryInv ==
    /\ \A d \in Decisions : lifecycle[d] = "none" => bound[d] = None
    /\ \A t \in Threads : job[t].reason = "entry" => BoundTo(job[t].intent)
    /\ \A i \in Sent : i.reason = "entry" => BoundTo(i)

\* A step of t that sends at most an order that is bound, and binds nothing.
LEMMA EntryStepInv ==
    ASSUME EntryInv, NEW t \in Threads, Alone(t), UNCHANGED identity,
           job'[t].reason = "entry" => BoundTo(job'[t].intent),
           \A i \in Sent' : i \in Sent \/ (i.reason = "entry" => BoundTo(i))
    PROVE  EntryInv'
BY DEF EntryInv, Alone, BoundTo, identity

\* Intents that are sent, in terms of the journal.
LEMMA SentType ==
    ASSUME TypeInv
    PROVE  Sent \subseteq Intents
BY DEF TypeInv, TypeOK, RouteTypeOK, Sent

\* The outcome of an order makes no other one sent.
LEMMA SentMoves ==
    ASSUME TypeInv, NEW t \in Threads, NEW to \in IntentStates, Outcome(t, to)
    PROVE  Sent' \subseteq Sent \cup {job[t].intent}
<1>1. intents \in [IntentStates -> SUBSET Intents]
  BY DEF TypeInv, TypeOK, RouteTypeOK
<1>2. \A s \in IntentStates : intents'[s] \subseteq intents[s] \cup {job[t].intent}
  BY <1>1 DEF Outcome
<1>3. QED
  BY <1>2 DEF Sent

\* A first submission makes one order sent, a failing one none.
LEMMA SentNew ==
    ASSUME TypeInv, NEW t, NEW i
    PROVE  /\ SubmitFirst(t, i) => Sent' \subseteq Sent \cup {i}
           /\ SubmitFails(t, i) => Sent' = Sent
<1>1. intents \in [IntentStates -> SUBSET Intents]
  BY DEF TypeInv, TypeOK, RouteTypeOK
<1>2. ASSUME SubmitFirst(t, i) PROVE Sent' \subseteq Sent \cup {i}
  <2>1. \A s \in IntentStates : intents'[s] \subseteq intents[s] \cup {i}
    BY <1>1, <1>2 DEF SubmitFirst
  <2>2. QED
    BY <2>1 DEF Sent
<1>3. ASSUME SubmitFails(t, i) PROVE Sent' = Sent
  <2>1. \A s \in IntentStates \ {"INTENT_RECORDED"} : intents'[s] = intents[s]
    BY <1>1, <1>3 DEF SubmitFails
  <2>2. QED
    BY <2>1 DEF Sent
<1>4. QED
  BY <1>2, <1>3

\* An order under way whose intent is an entry is bound.
LEMMA UnderWayBound ==
    ASSUME AckInv, EntryInv, NEW t \in Threads, pc[t] \in {"wait", "executed"}
    PROVE  job[t].intent.reason = "entry" => BoundTo(job[t].intent)
BY ReasonKinds DEF AckInv, AckOK, EntryInv

\* Persisting a decision binds nothing and unbinds nothing.
LEMMA EntryPersist ==
    ASSUME TypeInv, EntryInv, NEW d \in Decisions, Persist(d) \/ PlaceRefused(d)
    PROVE  EntryInv'
<1>1. UNCHANGED <<job, intents>>
  BY DEF Persist, PlaceRefused, route
<1>2. /\ bound' = bound /\ swallowed' = swallowed
      /\ \A e \in Decisions : lifecycle'[e] = "none" => lifecycle[e] = "none"
  <2>1. CASE Persist(d) /\ Appended(d, "CREATED", None) /\ UNCHANGED <<swallowed, faults>>
    <3>1. bound[d] = None
      BY <2>1 DEF Persist, EntryInv
    <3>2. QED
      BY <2>1, <3>1 DEF Appended, TypeInv, TypeOK
  <2>2. CASE AppendTorn \/ UNCHANGED <<identity, faults>>
    BY <2>2 DEF AppendTorn, identity
  <2>3. QED
    BY <2>1, <2>2 DEF Persist, PlaceRefused
<1>3. Sent' = Sent
  BY <1>1 DEF Sent
<1>4. QED
  BY <1>1, <1>2, <1>3 DEF EntryInv, BoundTo

\* Placing a decision again finds the intent it is bound to, or is the first time.
LEMMA EntryPlace ==
    ASSUME TypeInv, EntryInv, NEW d \in Decisions, NEW q \in Sizes, NEW x \in Prices,
           PlaceEntry(d, q, x)
    PROVE  EntryInv'
<1> DEFINE i == EntryIntent(d, q, x)
<1>1. /\ Advisor \in Threads /\ Alone(Advisor) /\ job'[Advisor].intent = i
      /\ i \in Intents /\ i.decision = d
  BY Placing, EntryIntentType
<1>2. BindIntent(d, i) /\ intents' = intents
  BY DEF PlaceEntry
<1>3. \A u \in Threads \ {Advisor} : job'[u] = job[u] /\ job[u].reason # "entry"
  BY <1>1 DEF Alone, TypeInv, JobInv, JobOK
<1>4. Sent' = Sent /\ Sent \subseteq Intents
  BY <1>2, SentType DEF Sent
<1> HIDE DEF i
<1>5. CASE bound[d] = i /\ UNCHANGED identity
  <2>1. BoundTo(i)'
    BY <1>1, <1>5 DEF BoundTo, identity
  <2>2. QED
    BY <1>1, <1>3, <1>4, <1>5, <2>1 DEF EntryInv, BoundTo, identity
<1>6. CASE /\ bound[d] = None /\ Appended(d, "BOUND", i)
           /\ swallowed' = IF torn THEN swallowed \cup {d} ELSE swallowed
  <2>1. /\ bound \in [Decisions -> Intents \cup {None}]
        /\ lifecycle \in [Decisions -> {"none", "CREATED", "BOUND"}] /\ torn \in BOOLEAN
    BY DEF TypeInv, TypeOK
  <2>2. swallowed \subseteq swallowed'
    BY <1>6
  <2>3. /\ d \in swallowed' \/ bound'[d] = i
        /\ \A e \in Decisions : e # d => bound'[e] = bound[e]
        /\ \A e \in Decisions : lifecycle'[e] = "none" => bound'[e] = None
    BY <1>2, <1>6, <2>1 DEF Appended, EntryInv, BindIntent
  <2>4. ASSUME NEW j \in Sent, j.reason = "entry" PROVE BoundTo(j)'
    <3>1. j \in Intents /\ j.decision \in Decisions /\ j # None
      BY <1>4, NoneAssumption DEF Intents
    <3>2. j.decision \in swallowed \/ bound[j.decision] = j
      BY <2>4 DEF EntryInv, BoundTo
    <3>3. QED
      BY <1>6, <2>2, <2>3, <3>1, <3>2 DEF BoundTo
  <2>5. BoundTo(i)'
    BY <1>1, <2>3 DEF BoundTo
  <2>6. \A u \in Threads : job'[u].reason = "entry" => job'[u].intent = i
    BY <1>1, <1>3
  <2>7. QED
    BY <1>4, <2>3, <2>4, <2>5, <2>6 DEF EntryInv, BoundTo
<1>7. QED
  BY <1>2, <1>5, <1>6 DEF BindIntent

\* Every step keeps the invariant.
LEMMA NextEntry == TypeInv /\ AckInv /\ EntryInv /\ [Next]_vars => EntryInv'
<1>1. SUFFICES ASSUME TypeInv, AckInv, EntryInv, [Next]_vars PROVE EntryInv'
  OBVIOUS
<1>2. ASSUME NEW t \in Threads, Rests(t) PROVE Alone(t) /\ job'[t].reason # "entry"
  BY <1>1, <1>2, Resting, NoJobType
<1>3. ASSUME NEW t \in Threads, NEW mode, ReturnWith(t, mode), UNCHANGED identity,
             \A i \in Sent' : i \in Sent \/ (i.reason = "entry" => BoundTo(i))
      PROVE  EntryInv'
  <2>1. Alone(t) /\ job'[t].reason = job[t].reason /\ job'[t].intent = job[t].intent
    BY <1>1, <1>3, Returning
  <2>2. job'[t].reason = "entry" => BoundTo(job'[t].intent)
    BY <1>1, <2>1 DEF EntryInv
  <2>3. QED
    BY <1>1, <1>3, <2>1, <2>2, EntryStepInv
<1>4. ASSUME UNCHANGED <<job, intents, identity>> PROVE EntryInv'
  BY <1>1, <1>4 DEF EntryInv, BoundTo, Sent, identity
<1>5. CASE EntryStep
  <2>1. ASSUME NEW d \in Decisions, NEW q \in Sizes, PlacePaper(d, q) PROVE EntryInv'
    BY <1>4, <2>1 DEF PlacePaper, route
  <2>2. ASSUME NEW t \in Threads, SubmitEntry(t) PROVE EntryInv'
    <3>1. UNCHANGED identity /\ BoundTo(job[t].intent)
      BY <1>1, <2>2 DEF SubmitEntry, Entering, EntryInv
    <3>2. CASE SubmitFirst(t, job[t].intent)
      <4>1. Alone(t) /\ job'[t].intent = job[t].intent
        BY <1>1, <3>2, Sending
      <4>2. Sent' \subseteq Sent \cup {job[t].intent}
        BY <1>1, <3>2, SentNew
      <4>3. QED
        BY <1>1, <3>1, <4>1, <4>2, EntryStepInv
    <3>3. CASE SubmitFails(t, job[t].intent)
      <4>1. Sent' = Sent
        BY <1>1, <3>3, SentNew
      <4>2. QED
        BY <1>3, <3>1, <3>3, <4>1 DEF SubmitFails
    <3>4. CASE SubmitRecorded(t, job[t].intent) \/ Refused(t)
      <4>1. Sent' = Sent
        BY <3>4 DEF SubmitRecorded, Refused, Sent
      <4>2. QED
        BY <1>3, <3>1, <3>4, <4>1 DEF SubmitRecorded, Refused
    <3>5. QED
      BY <2>2, <3>2, <3>3, <3>4 DEF SubmitEntry
  <2>3. ASSUME NEW t \in Threads, ReturnEntry(t) PROVE EntryInv'
    <3>1. Alone(t) /\ job'[t].reason # "entry"
      BY <1>2, <2>3 DEF Rests
    <3>2. UNCHANGED identity /\ Sent' = Sent
      BY <2>3 DEF ReturnEntry, Sent
    <3>3. QED
      BY <1>1, <3>1, <3>2, EntryStepInv
  <2>4. QED
    BY <1>1, <1>5, <2>1, <2>2, <2>3, EntryPersist, EntryPlace DEF EntryStep
<1>6. ASSUME NEW t \in Threads, OrderJournalFails(t) PROVE EntryInv'
  <2>1. /\ Alone(t) /\ job'[t].reason # "entry" /\ UNCHANGED identity
        /\ pc[t] \in {"wait", "executed"}
    BY <1>2, <1>6 DEF OrderJournalFails, Rests, OutcomeRaises
  <2>2. Sent' \subseteq Sent \cup {job[t].intent}
    <3>1. CASE UNCHANGED <<intents, unsold>>
      BY <3>1 DEF Sent
    <3>2. CASE \E to \in IntentStates : Outcome(t, to)
      BY <1>1, <3>2, SentMoves
    <3>3. QED
      BY <1>6, <3>1, <3>2 DEF OrderJournalFails, OutcomeRaises, IntentStates
  <2>3. job[t].intent.reason = "entry" => BoundTo(job[t].intent)
    BY <1>1, <2>1, UnderWayBound
  <2>4. QED
    BY <1>1, <2>1, <2>2, <2>3, EntryStepInv
<1>7. ASSUME NEW t \in Threads, ExchangeStep(t), UNCHANGED <<book, identity, process>>
      PROVE  EntryInv'
  <2>1. job[t].intent.reason = "entry" => BoundTo(job[t].intent)
    BY <1>1, <1>7, UnderWayBound DEF ExchangeStep, Execute, Acknowledge, Reject, AnswerLost
  <2>2. ASSUME NEW f \in 1..MaxQty, Execute(t, f) PROVE EntryInv'
    <3>1. /\ Alone(t) /\ job'[t].reason = job[t].reason /\ job'[t].intent = job[t].intent
      BY <1>1, <2>2, Executing
    <3>2. job'[t].reason = "entry" => BoundTo(job'[t].intent)
      BY <1>1, <3>1 DEF EntryInv
    <3>3. Sent' = Sent
      BY <2>2 DEF Execute, Sent
    <3>4. QED
      BY <1>1, <1>7, <3>1, <3>2, <3>3, EntryStepInv
  <2>3. CASE Acknowledge(t) \/ Reject(t) \/ AnswerLost(t)
    <3>1. PICK to \in IntentStates : Outcome(t, to)
      BY <2>3 DEF Acknowledge, Reject, AnswerLost, IntentStates
    <3>2. Sent' \subseteq Sent \cup {job[t].intent}
      BY <1>1, <3>1, SentMoves
    <3>3. PICK mode : ReturnWith(t, mode)
      BY <2>3 DEF Acknowledge, Reject, AnswerLost
    <3>4. QED
      BY <1>3, <1>7, <2>1, <3>2, <3>3
  <2>4. QED
    BY <1>7, <2>2, <2>3 DEF ExchangeStep
<1>8. ASSUME NEW t \in Threads, PositionStep(t), UNCHANGED <<identity, process>>
      PROVE  EntryInv'
  <2>1. CASE \/ \E d \in Decisions : BeginPass(t, d)
             \/ \E x \in Prices : UpdatePrice(t, x)
             \/ NoPrice(t) \/ EndPass(t)
             \/ ReturnPartial(t) \/ ReturnClosed(t) \/ ReturnOpen(t)
    <3>1. Alone(t) /\ job'[t].reason # "entry"
      BY <1>2, <2>1 DEF Rests
    <3>2. Sent' = Sent
      BY <2>1 DEF BeginPass, UpdatePrice, NoPrice, EndPass, ReturnPartial, ReturnClosed,
                  ReturnOpen, Sent
    <3>3. QED
      BY <1>1, <1>8, <3>1, <3>2, EntryStepInv
  <2>2. ASSUME NEW r \in CloseReasons, Fire(t, r) PROVE EntryInv'
    <3>1. Alone(t) /\ job'[t].reason # "entry"
      BY <1>1, <2>2, Firing, ReasonKinds
    <3>2. Sent' = Sent
      BY <2>2 DEF Fire, Sent
    <3>3. QED
      BY <1>1, <1>8, <3>1, <3>2, EntryStepInv
  <2>3. CASE SendFirst(t)
    <3>1. /\ SubmitFirst(t, CloseIntent(t))
          /\ CloseIntent(t).reason # "entry" /\ job[t].reason # "entry"
      BY <1>1, <2>3, CloseIntentType, ReasonKinds DEF SendFirst
    <3>2. Alone(t) /\ job'[t].reason # "entry"
      BY <1>1, <3>1, Sending
    <3>3. Sent' \subseteq Sent \cup {CloseIntent(t)}
      BY <1>1, <3>1, SentNew
    <3>4. QED
      BY <1>1, <1>8, <3>1, <3>2, <3>3, EntryStepInv
  <2>4. CASE SendDenied(t) \/ SendPaper(t) \/ SendRepeated(t)
    <3>1. Sent' = Sent
      <4>1. CASE SubmitFails(t, CloseIntent(t))
        BY <1>1, <4>1, SentNew
      <4>2. CASE intents' = intents
        BY <4>2 DEF Sent
      <4>3. QED
        BY <2>4, <4>1, <4>2 DEF SendDenied, SendPaper, SendRepeated, Refused, SubmitRecorded
    <3>2. PICK mode : ReturnWith(t, mode)
      BY <2>4 DEF SendDenied, SendPaper, SendRepeated, Refused, SubmitRecorded, SubmitFails
    <3>3. QED
      BY <1>3, <1>8, <3>1, <3>2
  <2>5. QED
    BY <1>8, <2>1, <2>2, <2>3, <2>4 DEF PositionStep
<1>9. CASE Crash
  <2>1. \A t \in Threads : job'[t].reason # "entry"
    BY <1>9, NoJobType DEF Crash
  <2>2. UNCHANGED identity /\ Sent' = Sent
    BY <1>9 DEF Crash, Sent
  <2>3. QED
    BY <1>1, <2>1, <2>2 DEF EntryInv, BoundTo, identity
<1>10. CASE UNCHANGED vars
  BY <1>4, <1>10 DEF vars, route
<1>11. QED
  BY <1>1, <1>5, <1>6, <1>7, <1>8, <1>9, <1>10 DEF Next

\* Orders that the journal binds their decision to are one for each decision.
LEMMA EntryUnique == EntryInv => OneOrderPerDecision
<1>1. SUFFICES ASSUME EntryInv, NEW i \in Sent, NEW j \in Sent,
                      i.reason = "entry", j.reason = "entry",
                      i.decision = j.decision, i.decision \notin swallowed
               PROVE  i = j
  BY DEF OneOrderPerDecision
<1>2. bound[i.decision] = i /\ bound[j.decision] = j
  BY <1>1 DEF EntryInv, BoundTo
<1>3. QED
  BY <1>1, <1>2

\* A decision leads to one entry order, over any number of crashes and any
\* prices, unless a fragment swallowed the record of its binding.
THEOREM OneEntryOrder == Spec => []OneOrderPerDecision
<1>1. Init => AckInv /\ EntryInv
  <2>1. SUFFICES ASSUME Init PROVE AckInv /\ EntryInv
    OBVIOUS
  <2>2. AckInv
    BY <2>1 DEF Init, RouteInit, BookInit, AckInv, AckOK, ClosedAcknowledged
  <2>3. \A t \in Threads : job[t].reason # "entry"
    BY <2>1, NoJobType DEF Init, RouteInit
  <2>4. Sent = {}
    BY <2>1 DEF Init, RouteInit, Sent
  <2>5. QED
    BY <2>1, <2>2, <2>3, <2>4 DEF Init, EntryInv
<1>2. QED
  BY <1>1, InitType, NextType, NextAck, NextEntry, EntryUnique, PTL DEF Spec

===================================================================================
