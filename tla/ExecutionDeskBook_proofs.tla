----------------------- MODULE ExecutionDeskBook_proofs -----------------------
(***************************************************************************)
(* The exchange holds no more of a position than the book and what is left *)
(* out of it account for, for any decisions on the symbol, sizes,          *)
(* estimates, prices, float products, triggers, precision and bounds.      *)
(***************************************************************************)
EXTENDS ExecutionDesk_proofs

(***************************************************************************)
(* The invariant                                                           *)
(***************************************************************************)

\* What a partial close of t has sold of d, and is still to be booked.
Sold(t, d) ==
    IF job[t].reason = "partial_close" /\ job[t].decision = d THEN job[t].filled ELSE 0

\* What the exchange holds of d, by the orders and bookings made so far.
Exposure(d) == net[d] - unsold[d] + Sold(Advisor, d) + Sold(Watcher, d)

\* A full close takes what the book says; nothing is filled before the
\* exchange has executed; an order that is acknowledged has been sent.
OrderOK(t) ==
    /\ job[t].reason = "entry" =>
        job[t].intent.decision = job[t].decision /\ job[t].intent.opened = 0
    /\ job[t].reason \in FullReasons => job[t].qty = 0
    /\ pc[t] \in {"idle", "price", "check", "send", "wait"} => job[t].filled = 0
    /\ pc[t] \in {"wait", "executed"} => job[t].intent \in Sent
    /\ pc[t] = "return" /\ job[t].mode = "live" /\ job[t].reason = "entry" =>
        job[t].intent \in Sent

\* No close is of a position that is still to be added.
IntentOK(i) == i.opened <= opened[i.decision]

\* What is bought for d is what its one entry order bought.
EntryOK(d) ==
    d \notin swallowed =>
        /\ net[d] > 0 => \E i \in Sent :
                             i.reason = "entry" /\ i.decision = d /\ net[d] <= i.amount
        /\ \A t \in Threads :
             pc[t] = "wait" /\ job[t].reason = "entry" /\ job[t].decision = d => net[d] <= 0

Counted(d) == d \in tracked /\ d \notin swallowed /\ ~paper

\* A full close of d is at the exchange.
Closes(t, d) ==
    pc[t] \in {"wait", "executed"} /\ job[t].reason \in FullReasons /\ job[t].decision = d

\* An acknowledged order closes all of the position of d.
Closer(i, d) == i.reason \in FullReasons /\ i.decision = d /\ i.opened = opened[d]

\* The book has all of it; an order that closes d leaves at most one step of
\* what it is not filled for, and an acknowledged one at most one step.
CountOK(d) ==
    Counted(d) =>
        /\ Exposure(d) <= qty[d]
        /\ \A t \in Threads : Closes(t, d) =>
              Exposure(d) + job[t].filled <= job[t].intent.amount + AmountStep
        /\ \A i \in intents["ACKNOWLEDGED"] : Closer(i, d) => Exposure(d) <= AmountStep

BookInv ==
    /\ \A t \in Threads : OrderOK(t)
    /\ \A i \in AllIntents : IntentOK(i)
    /\ \A d \in Decisions : EntryOK(d)
    /\ \A d \in Decisions : CountOK(d)

(***************************************************************************)
(* Facts about single states and steps                                     *)
(***************************************************************************)

\* All counts are integers.
CountTyped ==
    \A d \in Decisions :
        /\ net[d] \in Int /\ unsold[d] \in Nat /\ qty[d] \in Nat
        /\ \A t \in Threads : job[t].filled \in Nat /\ job[t].qty \in Nat /\ Sold(t, d) \in Nat
        /\ Exposure(d) \in Int

\* In well-typed states they are, before a step and after it.
LEMMA CountTypes == TypeInv => CountTyped
<1>1. SUFFICES ASSUME TypeInv, NEW d \in Decisions
      PROVE  /\ net[d] \in Int /\ unsold[d] \in Nat /\ qty[d] \in Nat
             /\ \A t \in Threads : job[t].filled \in Nat /\ job[t].qty \in Nat
                                   /\ Sold(t, d) \in Nat
             /\ Exposure(d) \in Int
  BY DEF CountTyped
<1>2. RouteTypeOK /\ BookTypeOK
  BY <1>1 DEF TypeInv, TypeOK
<1>3. net[d] \in Int /\ unsold[d] \in Nat
  BY <1>2 DEF RouteTypeOK
<1>4. qty[d] \in Nat
  BY <1>2, RouteAssumption DEF BookTypeOK
<1>5. \A t \in Threads : job[t].filled \in Nat /\ job[t].qty \in Nat
  BY <1>2, JobType, RouteAssumption
<1>6. \A t \in Threads : Sold(t, d) \in Nat
  BY <1>5 DEF Sold
<1>7. Advisor \in Threads /\ Watcher \in Threads
  BY DEF Threads
<1>8. Exposure(d) \in Int
  BY <1>3, <1>6, <1>7 DEF Exposure
<1>9. QED
  BY <1>3, <1>4, <1>5, <1>6, <1>8

\* The same after a step.
LEMMA CountTypesNext == TypeInv' => CountTyped'
BY CountTypes, PTL

\* How the count of d changes in a step of t.
LEMMA CountChange ==
    ASSUME TypeInv, TypeInv', NEW t \in Threads, Alone(t), NEW d \in Decisions
    PROVE  Exposure(d)' = Exposure(d) + (net'[d] - net[d]) - (unsold'[d] - unsold[d])
                          + (Sold(t, d)' - Sold(t, d))
<1>1. /\ net[d] \in Int /\ unsold[d] \in Int /\ net'[d] \in Int /\ unsold'[d] \in Int
      /\ \A u \in Threads : Sold(u, d) \in Int /\ Sold(u, d)' \in Int
  BY CountTypes, CountTypesNext DEF CountTyped
<1>2. \A u \in Threads \ {t} : Sold(u, d)' = Sold(u, d)
  BY DEF Alone, Sold
<1>3. Advisor \in Threads /\ Watcher \in Threads /\ Advisor # Watcher
  BY RouteAssumption DEF Threads
<1>4. CASE t = Advisor
  <2>1. Sold(Watcher, d)' = Sold(Watcher, d)
    BY <1>2, <1>3, <1>4
  <2>2. QED
    BY <1>1, <1>3, <1>4, <2>1 DEF Exposure
<1>5. CASE t = Watcher
  <2>1. Sold(Advisor, d)' = Sold(Advisor, d)
    BY <1>2, <1>3, <1>5
  <2>2. QED
    BY <1>1, <1>3, <1>5, <2>1 DEF Exposure
<1>6. QED
  BY <1>4, <1>5 DEF Threads

\* A step of t after which no more of d is exposed, and the orders of t and
\* new acknowledgements agree with that.
LEMMA CountStep ==
    ASSUME TypeInv, TypeInv', NEW t \in Threads, Alone(t), NEW d \in Decisions, CountOK(d),
           Counted(d)' => Counted(d), opened'[d] = opened[d],
           Counted(d) => /\ Exposure(d)' <= Exposure(d)
                         /\ Exposure(d)' <= qty'[d]
                         /\ Closes(t, d)' => Exposure(d)' + job'[t].filled
                                                 <= job'[t].intent.amount + AmountStep
                         /\ \A i \in intents'["ACKNOWLEDGED"] :
                                \/ i \in intents["ACKNOWLEDGED"]
                                \/ Closer(i, d) => Exposure(d)' <= AmountStep
    PROVE  CountOK(d)'
<1>1. SUFFICES ASSUME Counted(d)'
               PROVE  /\ Exposure(d)' <= qty'[d]
                      /\ \A u \in Threads : Closes(u, d)' =>
                            Exposure(d)' + job'[u].filled <= job'[u].intent.amount + AmountStep
                      /\ \A i \in intents'["ACKNOWLEDGED"] :
                            Closer(i, d)' => Exposure(d)' <= AmountStep
  BY DEF CountOK
<1>2. Counted(d)
  BY <1>1
<1>3. /\ Exposure(d) \in Int /\ Exposure(d)' \in Int /\ AmountStep \in Nat
      /\ \A u \in Threads : job[u].filled \in Nat
  BY CountTypes, CountTypesNext, RouteAssumption DEF CountTyped
<1>4. ASSUME NEW u \in Threads, Closes(u, d)'
      PROVE  Exposure(d)' + job'[u].filled <= job'[u].intent.amount + AmountStep
  <2>1. CASE u = t
    BY <1>2, <1>4, <2>1
  <2>2. CASE u # t
    <3>1. job'[u] = job[u] /\ Closes(u, d)
      BY <1>4, <2>2 DEF Alone, Closes
    <3>2. job[u].intent.amount \in Nat
      <4>1. job[u].intent \in Intents
        BY <3>1 DEF TypeInv, JobInv, JobOK, Closes
      <4>2. QED
        BY <4>1, RouteAssumption DEF Intents
    <3>3. Exposure(d) + job[u].filled <= job[u].intent.amount + AmountStep
      BY <1>2, <3>1 DEF CountOK
    <3>4. QED
      BY <1>2, <1>3, <3>1, <3>2, <3>3
  <2>3. QED
    BY <2>1, <2>2
<1>5. ASSUME NEW i \in intents'["ACKNOWLEDGED"], Closer(i, d)'
      PROVE  Exposure(d)' <= AmountStep
  <2>1. Closer(i, d)
    BY <1>5 DEF Closer
  <2>2. CASE i \in intents["ACKNOWLEDGED"]
    <3>1. Exposure(d) <= AmountStep
      BY <1>2, <2>1, <2>2 DEF CountOK
    <3>2. QED
      BY <1>2, <1>3, <3>1
  <2>3. CASE i \notin intents["ACKNOWLEDGED"]
    BY <1>2, <1>5, <2>1, <2>3
  <2>4. QED
    BY <2>2, <2>3
<1>6. QED
  BY <1>2, <1>4, <1>5

\* A step of t that buys nothing for d and sends no entry of d.
LEMMA EntryStepOK ==
    ASSUME TypeInv, TypeInv', NEW t \in Threads, Alone(t), NEW d \in Decisions, EntryOK(d),
           swallowed \subseteq swallowed', Sent \subseteq Sent',
           net'[d] <= net[d],
           ~(pc'[t] = "wait" /\ job'[t].reason = "entry" /\ job'[t].decision = d)
    PROVE  EntryOK(d)'
<1>1. SUFFICES ASSUME d \notin swallowed'
               PROVE  /\ net'[d] > 0 => \E i \in Sent' :
                            i.reason = "entry" /\ i.decision = d /\ net'[d] <= i.amount
                      /\ \A u \in Threads :
                            pc'[u] = "wait" /\ job'[u].reason = "entry" /\ job'[u].decision = d
                                => net'[d] <= 0
  BY DEF EntryOK
<1>2. d \notin swallowed /\ net[d] \in Int /\ net'[d] \in Int
  BY <1>1, CountTypes, CountTypesNext DEF CountTyped
<1>3. ASSUME net'[d] > 0
      PROVE  \E i \in Sent' : i.reason = "entry" /\ i.decision = d /\ net'[d] <= i.amount
  <2>1. PICK i \in Sent : i.reason = "entry" /\ i.decision = d /\ net[d] <= i.amount
    BY <1>2, <1>3 DEF EntryOK
  <2>2. i.amount \in Nat
    BY SentType, RouteAssumption DEF Intents
  <2>3. net'[d] <= i.amount
    BY <1>2, <2>1, <2>2
  <2>4. QED
    BY <2>1, <2>3
<1>4. ASSUME NEW u \in Threads, pc'[u] = "wait", job'[u].reason = "entry", job'[u].decision = d
      PROVE  net'[d] <= 0
  <2>1. u # t /\ pc[u] = "wait" /\ job[u] = job'[u]
    BY <1>4 DEF Alone
  <2>2. net[d] <= 0
    BY <1>2, <1>4, <2>1 DEF EntryOK
  <2>3. QED
    BY <1>2, <2>2
<1>5. QED
  BY <1>3, <1>4

\* The other thread's order stays as it is.
LEMMA OthersOK ==
    ASSUME NEW t \in Threads, Alone(t), \A u \in Threads : OrderOK(u), OrderOK(t)',
           Sent \subseteq Sent'
    PROVE  \A u \in Threads : OrderOK(u)'
<1>1. ASSUME NEW u \in Threads \ {t} PROVE OrderOK(u)'
  <2>1. OrderOK(u) /\ pc'[u] = pc[u] /\ job'[u] = job[u]
    BY DEF Alone
  <2>2. QED
    BY <2>1 DEF OrderOK
<1>2. QED
  BY <1>1

\* What a partial close has sold is counted until it is booked.
LEMMA SoldStep ==
    ASSUME TypeInv, TypeInv', NEW t \in Threads, NEW d \in Decisions,
           \/ job'[t].filled = 0 \/ job'[t].reason # "partial_close"
           \/ /\ job'[t].filled = job[t].filled /\ job'[t].reason = job[t].reason
              /\ job'[t].decision = job[t].decision
    PROVE  Sold(t, d)' <= Sold(t, d)
<1>1. Sold(t, d) \in Nat
  BY CountTypes DEF CountTyped
<1>2. Sold(t, d)' = 0 \/ Sold(t, d)' = Sold(t, d)
  BY DEF Sold
<1>3. QED
  BY <1>1, <1>2

(***************************************************************************)
(* Steps that change neither the counts nor the book's quantities          *)
(***************************************************************************)

\* A step of t after which it has no order at the exchange.
LEMMA QuietStep ==
    ASSUME TypeInv, TypeInv', BookInv, NEW t \in Threads, Alone(t),
           UNCHANGED <<net, unsold, paper, tracked, opened, qty>>,
           swallowed \subseteq swallowed',
           intents'["ACKNOWLEDGED"] = intents["ACKNOWLEDGED"],
           Sent \subseteq Sent',
           \A i \in AllIntents' : i \in AllIntents \/ IntentOK(i),
           pc'[t] \notin {"wait", "executed"},
           \/ job'[t].filled = 0 \/ job'[t].reason # "partial_close"
           \/ /\ job'[t].filled = job[t].filled /\ job'[t].reason = job[t].reason
              /\ job'[t].decision = job[t].decision,
           OrderOK(t)'
    PROVE  BookInv'
<1>1. \A u \in Threads : OrderOK(u)'
  BY OthersOK DEF BookInv
<1>2. \A i \in AllIntents' : IntentOK(i)'
  BY DEF BookInv, IntentOK
<1>3. ASSUME NEW d \in Decisions PROVE EntryOK(d)'
  <2>1. net'[d] <= net[d]
    BY CountTypes DEF CountTyped
  <2>2. QED
    BY <2>1, EntryStepOK DEF BookInv
<1>4. ASSUME NEW d \in Decisions PROVE CountOK(d)'
  <2>1. /\ net[d] \in Int /\ unsold[d] \in Int /\ qty[d] \in Int /\ Exposure(d) \in Int
        /\ Sold(t, d) \in Int /\ Sold(t, d)' \in Int
    BY CountTypes, CountTypesNext DEF CountTyped
  <2>2. Exposure(d)' = Exposure(d) + (net'[d] - net[d]) - (unsold'[d] - unsold[d])
                       + (Sold(t, d)' - Sold(t, d))
    BY CountChange
  <2>3. Exposure(d)' <= Exposure(d) /\ Exposure(d)' \in Int
    BY <2>1, <2>2, SoldStep
  <2>4. Counted(d) => Exposure(d) <= qty[d]
    BY DEF BookInv, CountOK
  <2>5. Counted(d) => Exposure(d)' <= qty'[d]
    BY <2>1, <2>3, <2>4
  <2>6. ~Closes(t, d)'
    BY DEF Closes
  <2>7. Counted(d)' => Counted(d)
    BY DEF Counted
  <2>8. QED
    BY <2>3, <2>5, <2>6, <2>7, CountStep DEF BookInv
<1>5. QED
  BY <1>1, <1>2, <1>3, <1>4 DEF BookInv

\* A thread that does without an order.
LEMMA RestOK ==
    ASSUME TypeInv, BookInv, NEW t \in Threads, Rests(t)
    PROVE  /\ Alone(t) /\ OrderOK(t)' /\ pc'[t] \notin {"wait", "executed"}
           /\ job'[t].reason # "partial_close" /\ job'[t].reason # "entry"
<1>1. /\ Alone(t) /\ pc'[t] \in {"idle", "price", "check"} /\ job'[t].reason = None
      /\ job'[t].filled = 0 \/ (pc[t] = "price" /\ job'[t].filled = job[t].filled)
  BY Resting
<1>2. job'[t].filled = 0
  BY <1>1 DEF BookInv, OrderOK
<1>3. None # "entry" /\ None \notin FullReasons /\ None # "partial_close"
  BY NoJobType, ReasonKinds
<1>4. QED
  BY <1>1, <1>2, <1>3 DEF OrderOK

\* A thread that gets a result without having sent an order.
LEMMA ReturnOK ==
    ASSUME TypeInv, BookInv, NEW t \in Threads, pc[t] = "send", NEW mode, ReturnWith(t, mode),
           Sent \subseteq Sent',
           mode = "live" /\ job[t].reason = "entry" => job[t].intent \in Sent
    PROVE  /\ Alone(t) /\ OrderOK(t)' /\ pc'[t] = "return" /\ job'[t].filled = 0
<1>1. /\ Alone(t) /\ pc'[t] = "return" /\ job'[t].mode = mode
      /\ job'[t].reason = job[t].reason /\ job'[t].decision = job[t].decision
      /\ job'[t].intent = job[t].intent /\ job'[t].filled = job[t].filled
      /\ job'[t].qty = job[t].qty
  BY Returning
<1>2. OrderOK(t)
  BY DEF BookInv
<1>3. job'[t].filled = 0
  BY <1>1, <1>2 DEF OrderOK
<1>4. OrderOK(t)'
  BY <1>1, <1>2 DEF OrderOK
<1>5. QED
  BY <1>1, <1>3, <1>4

\* How the journal changes when an intent is recorded.
LEMMA RecordIntent ==
    ASSUME TypeInv, NEW t, NEW i, SubmitFirst(t, i) \/ SubmitFails(t, i)
    PROVE  /\ AllIntents' = AllIntents \cup {i} /\ Sent \subseteq Sent'
           /\ SubmitFirst(t, i) => i \in Sent'
<1>1. intents \in [IntentStates -> SUBSET Intents]
  BY DEF TypeInv, TypeOK, RouteTypeOK
<1>2. PICK s0 \in IntentStates : intents' = [intents EXCEPT ![s0] = @ \cup {i}]
  BY DEF SubmitFirst, SubmitFails, IntentStates
<1>3. /\ \A s \in IntentStates : intents[s] \subseteq intents'[s]
      /\ i \in intents'[s0] /\ \A s \in IntentStates : intents'[s] \subseteq intents[s] \cup {i}
  BY <1>1, <1>2
<1>4. AllIntents' = AllIntents \cup {i} /\ Sent \subseteq Sent'
  BY <1>3 DEF AllIntents, Sent
<1>5. ASSUME SubmitFirst(t, i) PROVE i \in Sent'
  <2>1. i \in intents'["SUBMISSION_STARTED"]
    BY <1>1, <1>5 DEF SubmitFirst, IntentStates
  <2>2. QED
    BY <2>1 DEF Sent, IntentStates
<1>6. QED
  BY <1>4, <1>5

\* A submission that sends nothing.
LEMMA SubmitNothing ==
    ASSUME TypeInv, TypeInv', BookInv, NEW t \in Threads, NEW i, IntentOK(i),
           SubmitRecorded(t, i) \/ SubmitFails(t, i) \/ Refused(t),
           job[t].reason = "entry" => job[t].intent = i,
           UNCHANGED <<book, identity>>
    PROVE  BookInv'
<1>1. UNCHANGED <<net, unsold, paper, tracked, opened, qty, swallowed>> /\ pc[t] = "send"
  BY DEF SubmitRecorded, SubmitFails, Refused, book, identity
<1>2. /\ intents'["ACKNOWLEDGED"] = intents["ACKNOWLEDGED"] /\ Sent \subseteq Sent'
      /\ \A j \in AllIntents' : j \in AllIntents \/ IntentOK(j)
  <2>1. CASE SubmitFails(t, i)
    BY <2>1, AckNew, RecordIntent
  <2>2. CASE intents' = intents
    BY <2>2 DEF Sent, AllIntents
  <2>3. QED
    BY <2>1, <2>2 DEF SubmitRecorded, Refused
<1>3. PICK mode : /\ ReturnWith(t, mode)
                  /\ mode = "live" => i \in Sent
  <2>1. RecordedMode(i) = "live" => i \in Sent
    BY DEF RecordedMode, Sent, IntentStates
  <2>2. QED
    BY <2>1 DEF SubmitRecorded, SubmitFails, Refused
<1>4. /\ Alone(t) /\ OrderOK(t)' /\ pc'[t] = "return" /\ job'[t].filled = 0
  BY <1>1, <1>2, <1>3, ReturnOK
<1>5. QED
  BY <1>1, <1>2, <1>4, QuietStep

(***************************************************************************)
(* Steps of an order                                                       *)
(***************************************************************************)

\* An order leaves: the first entry of its decision, or for a full close
\* what the book says up to one step.
LEMMA SubmitFirstOK ==
    ASSUME TypeInv, TypeInv', BookInv, EntryInv, NEW t \in Threads, NEW i \in Intents,
           SubmitFirst(t, i), IntentOK(i),
           UNCHANGED <<paper, tracked, opened, qty>>, UNCHANGED identity,
           job[t].reason = "entry" => job[t].intent = i,
           job[t].reason \in FullReasons => qty[job[t].decision] <= i.amount + AmountStep
    PROVE  BookInv'
<1>1. /\ Alone(t) /\ pc'[t] = "wait" /\ job'[t].intent = i
      /\ job'[t].reason = job[t].reason /\ job'[t].decision = job[t].decision
      /\ job'[t].qty = job[t].qty /\ job'[t].filled = job[t].filled
  BY Sending
<1>2. OrderOK(t) /\ job[t].filled = 0 /\ UNCHANGED <<net, unsold>> /\ ~Known(i)
  BY DEF BookInv, OrderOK, SubmitFirst
<1>3. AllIntents' = AllIntents \cup {i} /\ Sent \subseteq Sent' /\ i \in Sent'
  BY RecordIntent
<1>4. \A u \in Threads : OrderOK(u)'
  <2>1. OrderOK(t)'
    BY <1>1, <1>2, <1>3 DEF OrderOK
  <2>2. QED
    BY <1>1, <1>3, <2>1, OthersOK DEF BookInv
<1>5. \A j \in AllIntents' : IntentOK(j)'
  BY <1>3 DEF BookInv, IntentOK
<1>6. ASSUME NEW d \in Decisions PROVE EntryOK(d)'
  <2>1. net[d] \in Int /\ net'[d] = net[d]
    BY <1>2, CountTypes DEF CountTyped
  <2>2. CASE ~(job[t].reason = "entry" /\ job[t].decision = d)
    BY <1>1, <1>3, <1>6, <2>1, <2>2, EntryStepOK DEF BookInv, identity
  <2>3. CASE job[t].reason = "entry" /\ job[t].decision = d /\ d \notin swallowed
    <3>1. i.decision = d /\ bound[d] = i
      BY <1>2, <2>3 DEF OrderOK, EntryInv, BoundTo
    <3>2. ASSUME net[d] > 0 PROVE FALSE
      <4>1. PICK j \in Sent : j.reason = "entry" /\ j.decision = d
        BY <1>6, <2>3, <3>2 DEF BookInv, EntryOK
      <4>2. bound[d] = j
        BY <2>3, <4>1 DEF EntryInv, BoundTo
      <4>3. Known(j)
        BY <4>1 DEF Known, AllIntents, Sent
      <4>4. QED
        BY <1>2, <3>1, <4>2, <4>3
    <3>3. net'[d] <= 0
      BY <2>1, <3>2
    <3>4. QED
      BY <2>1, <3>3 DEF EntryOK
  <2>4. CASE d \in swallowed
    BY <2>4 DEF EntryOK, identity
  <2>5. QED
    BY <2>2, <2>3, <2>4
<1>7. ASSUME NEW d \in Decisions PROVE CountOK(d)'
  <2>1. /\ net[d] \in Int /\ unsold[d] \in Int /\ qty[d] \in Int /\ Exposure(d) \in Int
        /\ Sold(t, d) \in Int /\ Sold(t, d)' \in Int
    BY CountTypes, CountTypesNext DEF CountTyped
  <2>2. Exposure(d)' = Exposure(d) + (net'[d] - net[d]) - (unsold'[d] - unsold[d])
                       + (Sold(t, d)' - Sold(t, d))
    BY <1>1, CountChange
  <2>3. Exposure(d)' <= Exposure(d) /\ Exposure(d)' \in Int
    BY <1>1, <1>2, <2>1, <2>2, SoldStep
  <2>4. Counted(d) => Exposure(d) <= qty[d]
    BY DEF BookInv, CountOK
  <2>5. Counted(d) => Exposure(d)' <= qty'[d]
    BY <2>1, <2>3, <2>4
  <2>6. ASSUME Counted(d), Closes(t, d)'
        PROVE  Exposure(d)' + job'[t].filled <= job'[t].intent.amount + AmountStep
    <3>1. job'[t].filled = 0 /\ job'[t].intent = i /\ qty[d] <= i.amount + AmountStep
      BY <1>1, <1>2, <2>6 DEF Closes
    <3>2. i.amount \in Nat /\ AmountStep \in Nat
      BY RouteAssumption DEF Intents
    <3>3. QED
      BY <2>1, <2>3, <2>5, <2>6, <3>1, <3>2
  <2>7. (Counted(d)' => Counted(d)) /\ opened'[d] = opened[d]
    BY DEF Counted, identity
  <2>8. intents'["ACKNOWLEDGED"] = intents["ACKNOWLEDGED"]
    BY AckNew
  <2>9. QED
    BY <1>1, <2>3, <2>5, <2>6, <2>7, <2>8, CountStep DEF BookInv
<1>8. QED
  BY <1>4, <1>5, <1>6, <1>7 DEF BookInv

\* The intent of an order at the exchange.
LEMMA UnderWay ==
    ASSUME TypeInv, AckInv, BookInv, NEW t \in Threads, pc[t] \in {"wait", "executed"}
    PROVE  /\ job[t].intent \in Intents /\ job[t].intent \in Sent
           /\ job[t].intent.decision = job[t].decision /\ job[t].decision \in Decisions
           /\ job[t].intent.amount \in Nat /\ job[t].intent.reason = job[t].reason
           /\ job[t].reason \in Reasons
<1>1. JobOK(t) /\ AckOK(t) /\ OrderOK(t)
  BY DEF TypeInv, JobInv, AckInv, BookInv
<1>2. job[t].intent \in Intents /\ job[t].intent \in Sent /\ job[t].decision \in Decisions
  BY <1>1 DEF JobOK, OrderOK
<1>3. job[t].intent.decision = job[t].decision /\ job[t].intent.reason = job[t].reason
      /\ job[t].reason \in Reasons
  BY <1>1, ReasonKinds DEF AckOK, OrderOK
<1>4. job[t].intent.amount \in Nat
  BY <1>2, RouteAssumption DEF Intents
<1>5. QED
  BY <1>2, <1>3, <1>4

\* The exchange executes an order, in whole or in part.
LEMMA ExecuteOK ==
    ASSUME TypeInv, TypeInv', AckInv, BookInv, NEW t \in Threads, NEW f \in 1..MaxQty,
           Execute(t, f), UNCHANGED <<book, identity>>
    PROVE  BookInv'
<1> DEFINE i == job[t].intent
<1> DEFINE e == job[t].decision
<1>1. /\ Alone(t) /\ pc'[t] = "executed" /\ pc[t] = "wait" /\ job'[t].filled = f
      /\ job'[t].reason = job[t].reason /\ job'[t].decision = job[t].decision
      /\ job'[t].intent = job[t].intent /\ job'[t].qty = job[t].qty
  BY Executing
<1>2. /\ i \in Intents /\ i \in Sent /\ i.decision = e /\ e \in Decisions
      /\ i.amount \in Nat /\ i.reason = job[t].reason /\ job[t].reason \in Reasons
  BY <1>1, UnderWay
<1>3. /\ UNCHANGED <<unsold, intents, paper, tracked, opened, qty, swallowed>>
      /\ Sent' = Sent /\ AllIntents' = AllIntents
  BY DEF Execute, book, identity, Sent, AllIntents
<1>4. f \in Nat /\ f > 0
  BY RouteAssumption
<1>5. /\ net'[e] = net[e] + (IF i.reason = "entry" THEN f ELSE -f)
      /\ \A d \in Decisions : d # e => net'[d] = net[d]
  <2>1. net \in [Decisions -> Int]
    BY DEF TypeInv, TypeOK, RouteTypeOK
  <2>2. net' = [net EXCEPT ![e] = @ + (IF i.reason = "entry" THEN f ELSE -f)]
    BY <1>2 DEF Execute
  <2>3. QED
    BY <1>2, <2>1, <2>2
<1>6. OrderOK(t) /\ JobOK(t) /\ job[t].filled = 0
  BY <1>1 DEF BookInv, OrderOK, TypeInv, JobInv
<1>7. \A u \in Threads : OrderOK(u)'
  <2>1. OrderOK(t)'
    BY <1>1, <1>2, <1>3, <1>6 DEF OrderOK
  <2>2. QED
    BY <1>1, <1>3, <2>1, OthersOK DEF BookInv
<1>8. \A j \in AllIntents' : IntentOK(j)'
  BY <1>3 DEF BookInv, IntentOK
<1>9. ASSUME NEW d \in Decisions PROVE EntryOK(d)'
  <2>1. net[d] \in Int /\ net'[d] \in Int
    BY CountTypes, CountTypesNext DEF CountTyped
  <2>2. CASE d # e \/ i.reason # "entry"
    <3>1. net'[d] <= net[d]
      BY <1>4, <1>5, <2>1, <2>2
    <3>2. QED
      BY <1>1, <1>3, <1>9, <3>1, EntryStepOK DEF BookInv
  <2>3. CASE d = e /\ i.reason = "entry" /\ d \notin swallowed
    <3>1. net[d] <= 0
      <4>1. EntryOK(d)
        BY <1>9 DEF BookInv
      <4>2. pc[t] = "wait" /\ job[t].reason = "entry" /\ job[t].decision = d
        BY <1>1, <1>2, <2>3
      <4>3. QED
        BY <2>3, <4>1, <4>2 DEF EntryOK
    <3>2. f <= i.amount
      BY <1>2, <1>4, <2>3 DEF Execute, Fillable
    <3>3. net'[d] <= i.amount
      BY <1>2, <1>4, <1>5, <2>1, <2>3, <3>1, <3>2
    <3>4. \A u \in Threads : ~(pc'[u] = "wait" /\ job'[u].reason = "entry")
      BY <1>1, <1>2, <1>6, <2>3 DEF TypeInv, JobInv, JobOK, Alone
    <3>5. QED
      BY <1>2, <1>3, <2>3, <3>3, <3>4 DEF EntryOK
  <2>4. CASE d \in swallowed
    BY <1>3, <2>4 DEF EntryOK
  <2>5. QED
    BY <2>2, <2>3, <2>4
<1>10. ASSUME NEW d \in Decisions PROVE CountOK(d)'
  <2>1. /\ net[d] \in Int /\ net'[d] \in Int /\ unsold[d] \in Int /\ qty[d] \in Int
        /\ Exposure(d) \in Int /\ Sold(t, d) \in Int /\ Sold(t, d)' \in Int
    BY CountTypes, CountTypesNext DEF CountTyped
  <2>2. Exposure(d)' = Exposure(d) + (net'[d] - net[d]) - (unsold'[d] - unsold[d])
                       + (Sold(t, d)' - Sold(t, d))
    BY <1>1, CountChange
  <2>3. Sold(t, d) = 0
    BY <1>6 DEF Sold
  <2>4. Counted(d) => Exposure(d) <= qty[d]
    BY DEF BookInv, CountOK
  <2>5. (Counted(d)' => Counted(d)) /\ opened'[d] = opened[d]
        /\ intents'["ACKNOWLEDGED"] = intents["ACKNOWLEDGED"]
    BY <1>3 DEF Counted
  <2>6. CASE d = e /\ job[t].reason = "entry"
    <3>1. ~Counted(d)'
      BY <1>3, <1>6, <2>6 DEF Counted, JobOK
    <3>2. QED
      BY <3>1 DEF CountOK
  <2>7. CASE d = e /\ job[t].reason \in FullReasons
    <3>1. Sold(t, d)' = 0 /\ net'[d] = net[d] - f
      BY <1>1, <1>2, <1>4, <1>5, <2>1, <2>7, ReasonKinds DEF Sold
    <3>2. Exposure(d)' = Exposure(d) - f
      BY <1>3, <1>4, <2>1, <2>2, <2>3, <3>1
    <3>3. Counted(d) => Exposure(d) + job[t].filled <= i.amount + AmountStep
      BY <1>1, <2>7 DEF BookInv, CountOK, Closes
    <3>4. Counted(d) => Exposure(d) <= i.amount + AmountStep
      BY <1>6, <2>1, <3>3
    <3>5. AmountStep \in Nat
      BY RouteAssumption
    <3>6. Counted(d) => /\ Exposure(d)' <= Exposure(d) /\ Exposure(d)' <= qty'[d]
                        /\ Exposure(d)' + job'[t].filled <= job'[t].intent.amount + AmountStep
      BY <1>1, <1>2, <1>3, <1>4, <2>1, <2>4, <3>2, <3>4, <3>5
    <3>7. QED
      BY <1>1, <1>10, <2>5, <3>6, CountStep DEF BookInv
  <2>8. CASE d # e \/ job[t].reason = "partial_close"
    <3>1. Exposure(d)' = Exposure(d)
      <4>1. CASE d # e
        <5>1. Sold(t, d)' = 0 /\ net'[d] = net[d]
          BY <1>1, <1>5, <4>1 DEF Sold
        <5>2. QED
          BY <1>3, <2>1, <2>2, <2>3, <5>1
      <4>2. CASE d = e /\ job[t].reason = "partial_close"
        <5>1. Sold(t, d)' = f /\ net'[d] = net[d] - f
          BY <1>1, <1>2, <1>4, <1>5, <2>1, <4>2 DEF Sold
        <5>2. QED
          BY <1>3, <1>4, <2>1, <2>2, <2>3, <5>1
      <4>3. QED
        BY <2>8, <4>1, <4>2
    <3>2. ~Closes(t, d)'
      BY <1>1, <2>8, ReasonKinds DEF Closes
    <3>3. Counted(d) => Exposure(d)' <= Exposure(d) /\ Exposure(d)' <= qty'[d]
      BY <1>3, <2>1, <2>4, <3>1
    <3>4. QED
      BY <1>1, <1>10, <2>5, <3>2, <3>3, CountStep DEF BookInv
  <2>9. QED
    BY <1>2, <2>6, <2>7, <2>8, ReasonKinds
<1>11. QED
  BY <1>7, <1>8, <1>9, <1>10 DEF BookInv

\* The outcome of an order is recorded.
LEMMA OutcomeOK ==
    ASSUME TypeInv, TypeInv', AckInv, BookInv, NEW t \in Threads,
           pc[t] \in {"wait", "executed"},
           NEW to \in IntentStates \ {"INTENT_RECORDED"}, Outcome(t, to),
           net' = net, UNCHANGED <<book, identity>>,
           Alone(t), pc'[t] \notin {"wait", "executed"},
           \/ job'[t].filled = 0 \/ job'[t].reason # "partial_close"
           \/ /\ job'[t].filled = job[t].filled /\ job'[t].reason = job[t].reason
              /\ job'[t].decision = job[t].decision,
           Sent \subseteq Sent' => OrderOK(t)'
    PROVE  BookInv'
<1> DEFINE i == job[t].intent
<1>1. /\ i \in Intents /\ i \in Sent /\ i.decision = job[t].decision /\ i.decision \in Decisions
      /\ i.amount \in Nat /\ i.reason = job[t].reason
  BY UnderWay
<1>2. UNCHANGED <<paper, tracked, opened, qty, swallowed>>
  BY DEF book, identity
<1>3. Sent \subseteq Sent' /\ AllIntents' \subseteq AllIntents
  <2>1. intents \in [IntentStates -> SUBSET Intents]
    BY DEF TypeInv, TypeOK, RouteTypeOK
  <2>2. /\ \A s \in IntentStates : intents'[s] \subseteq intents[s] \cup {i}
        /\ \A s \in IntentStates : intents[s] \subseteq intents'[s] \cup {i}
        /\ i \in intents'[to]
    BY <2>1 DEF Outcome
  <2>3. QED
    BY <1>1, <2>2 DEF Sent, AllIntents
<1>4. \A u \in Threads : OrderOK(u)'
  BY <1>3, OthersOK DEF BookInv
<1>5. \A j \in AllIntents' : IntentOK(j)'
  BY <1>2, <1>3 DEF BookInv, IntentOK
<1>6. ASSUME NEW d \in Decisions PROVE EntryOK(d)'
  <2>1. net'[d] <= net[d]
    BY CountTypes DEF CountTyped
  <2>2. QED
    BY <1>2, <1>3, <1>6, <2>1, EntryStepOK DEF BookInv
<1>7. job[t].filled \in Nat /\ Short(i.amount, job[t].filled) \in Nat
      /\ i.amount <= job[t].filled + Short(i.amount, job[t].filled)
  <2>1. job[t].filled \in Nat
    BY <1>1, CountTypes DEF CountTyped
  <2>2. QED
    BY <1>1, <2>1, ShortType
<1>8. ASSUME NEW d \in Decisions
      PROVE  /\ unsold'[d] >= unsold[d]
             /\ to = "ACKNOWLEDGED" /\ i.reason \in FullReasons /\ i.decision = d =>
                    unsold'[d] = unsold[d] + Short(i.amount, job[t].filled)
  <2>1. unsold \in [Decisions -> Nat]
    BY DEF TypeInv, TypeOK, RouteTypeOK
  <2>2. CASE to = "ACKNOWLEDGED" /\ i.reason \in FullReasons
    <3>1. unsold' = [unsold EXCEPT ![i.decision] = @ + Short(i.amount, job[t].filled)]
      BY <2>2 DEF Outcome, LeftOut
    <3>2. QED
      BY <1>1, <1>7, <2>1, <3>1
  <2>3. CASE ~(to = "ACKNOWLEDGED" /\ i.reason \in FullReasons)
    <3>1. unsold' = unsold
      BY <2>3 DEF Outcome
    <3>2. QED
      BY <2>1, <2>3, <3>1
  <2>4. QED
    BY <2>2, <2>3
<1>9. ASSUME NEW d \in Decisions PROVE CountOK(d)'
  <2>1. /\ net[d] \in Int /\ unsold[d] \in Int /\ unsold'[d] \in Int /\ qty[d] \in Int
        /\ Exposure(d) \in Int /\ Sold(t, d) \in Int /\ Sold(t, d)' \in Int
    BY CountTypes, CountTypesNext DEF CountTyped
  <2>2. Exposure(d)' = Exposure(d) + (net'[d] - net[d]) - (unsold'[d] - unsold[d])
                       + (Sold(t, d)' - Sold(t, d))
    BY CountChange
  <2>3. /\ Exposure(d)' <= Exposure(d) - (unsold'[d] - unsold[d])
        /\ Exposure(d)' <= Exposure(d) /\ Exposure(d)' \in Int
    BY <1>8, <2>1, <2>2, SoldStep
  <2>4. Counted(d) => Exposure(d) <= qty[d]
    BY DEF BookInv, CountOK
  <2>5. Counted(d) => Exposure(d)' <= qty'[d]
    BY <1>2, <2>1, <2>3, <2>4
  <2>6. ~Closes(t, d)'
    BY DEF Closes
  <2>7. (Counted(d)' => Counted(d)) /\ opened'[d] = opened[d]
    BY <1>2 DEF Counted
  <2>8. ASSUME Counted(d), NEW j \in intents'["ACKNOWLEDGED"],
               j \notin intents["ACKNOWLEDGED"], Closer(j, d)
        PROVE  Exposure(d)' <= AmountStep
    <3>1. j = i /\ to = "ACKNOWLEDGED"
      BY <2>8, AckMoves
    <3>2. Closes(t, d) /\ i.reason \in FullReasons /\ i.decision = d
      BY <1>1, <2>8, <3>1 DEF Closer, Closes
    <3>3. Exposure(d) + job[t].filled <= i.amount + AmountStep
      BY <2>8, <3>2 DEF BookInv, CountOK
    <3>4. unsold'[d] = unsold[d] + Short(i.amount, job[t].filled)
      BY <1>8, <3>1, <3>2
    <3>5. AmountStep \in Nat
      BY RouteAssumption
    <3>6. QED
      BY <1>1, <1>7, <2>1, <2>3, <3>3, <3>4, <3>5
  <2>9. QED
    BY <2>3, <2>5, <2>6, <2>7, <2>8, CountStep DEF BookInv
<1>10. QED
  BY <1>4, <1>5, <1>6, <1>9 DEF BookInv

(***************************************************************************)
(* Steps of the book                                                       *)
(***************************************************************************)

\* A partial close is booked: its quantity leaves the book, and what it has
\* not sold of that is left out.
LEMMA ReturnPartialOK ==
    ASSUME TypeInv, TypeInv', BookInv, NEW t \in Threads, ReturnPartial(t), UNCHANGED identity
    PROVE  BookInv'
<1> DEFINE e == job[t].decision
<1> DEFINE n == Short(job[t].qty, job[t].filled)
<1>1. /\ Alone(t) /\ OrderOK(t)' /\ pc'[t] \notin {"wait", "executed"}
      /\ job'[t].reason # "partial_close" /\ job'[t].reason # "entry"
  BY RestOK DEF Rests
<1>2. /\ UNCHANGED <<intents, net, paper, tracked, opened, swallowed>>
      /\ job[t].reason = "partial_close" /\ pc[t] = "return"
      /\ qty' = [qty EXCEPT ![e] = @ - job[t].qty]
      /\ unsold' = [unsold EXCEPT ![e] = @ + n]
  BY DEF ReturnPartial, LeftOut, identity
<1>3. Sent' = Sent /\ AllIntents' = AllIntents
  BY <1>2 DEF Sent, AllIntents
<1>4. e \in Decisions
  BY <1>2 DEF TypeInv, JobInv, JobOK
<1>5. \A u \in Threads : OrderOK(u)'
  BY <1>1, <1>3, OthersOK DEF BookInv
<1>6. \A j \in AllIntents' : IntentOK(j)'
  BY <1>2, <1>3 DEF BookInv, IntentOK
<1>7. ASSUME NEW d \in Decisions PROVE EntryOK(d)'
  <2>1. net'[d] <= net[d]
    BY <1>2, CountTypes DEF CountTyped
  <2>2. QED
    BY <1>1, <1>2, <1>3, <1>7, <2>1, EntryStepOK DEF BookInv
<1>8. /\ job[t].filled \in Nat /\ job[t].qty \in Nat /\ n \in Nat
      /\ job[t].qty <= job[t].filled + n
  <2>1. job[t].filled \in Nat /\ job[t].qty \in Nat
    BY <1>4, CountTypes DEF CountTyped
  <2>2. QED
    BY <2>1, ShortType
<1> HIDE DEF n
<1>9. /\ unsold'[e] = unsold[e] + n /\ qty'[e] = qty[e] - job[t].qty
      /\ \A d \in Decisions : d # e => unsold'[d] = unsold[d] /\ qty'[d] = qty[d]
  <2>1. unsold \in [Decisions -> Nat] /\ qty \in [Decisions -> 0..MaxQty]
    BY DEF TypeInv, TypeOK, RouteTypeOK, BookTypeOK
  <2>2. QED
    BY <1>2, <1>4, <2>1
<1>10. ASSUME NEW d \in Decisions PROVE CountOK(d)'
  <2>1. /\ net[d] \in Int /\ unsold[d] \in Int /\ unsold'[d] \in Int /\ qty[d] \in Int
        /\ qty'[d] \in Int /\ Exposure(d) \in Int /\ Sold(t, d) \in Int
    BY CountTypes, CountTypesNext DEF CountTyped
  <2>2. Exposure(d)' = Exposure(d) + (net'[d] - net[d]) - (unsold'[d] - unsold[d])
                       + (Sold(t, d)' - Sold(t, d))
    BY <1>1, CountChange
  <2>3. Sold(t, d)' = 0 /\ Sold(t, d) = IF d = e THEN job[t].filled ELSE 0
    BY <1>1, <1>2 DEF Sold
  <2>4. Counted(d) => Exposure(d) <= qty[d]
    BY DEF BookInv, CountOK
  <2>5. Exposure(d)' <= Exposure(d) /\ (Exposure(d) <= qty[d] => Exposure(d)' <= qty'[d])
    <3>1. CASE d = e
      <4>a. net'[d] - net[d] = 0
        BY <1>2, <2>1
      <4>b. unsold'[d] - unsold[d] = n
        BY <1>8, <1>9, <2>1, <3>1
      <4>c. Sold(t, d)' - Sold(t, d) = -job[t].filled
        BY <1>8, <2>3, <3>1
      <4>1. Exposure(d)' = Exposure(d) - n - job[t].filled
        BY <1>8, <2>1, <2>2, <4>a, <4>b, <4>c
      <4>2. QED
        BY <1>8, <1>9, <2>1, <3>1, <4>1
    <3>2. CASE d # e
      BY <1>2, <1>9, <2>1, <2>2, <2>3, <3>2
    <3>3. QED
      BY <3>1, <3>2
  <2>6. ~Closes(t, d)'
    BY <1>1 DEF Closes
  <2>7. (Counted(d)' => Counted(d)) /\ opened'[d] = opened[d]
    BY <1>2 DEF Counted
  <2>8. QED
    BY <1>1, <1>2, <2>4, <2>5, <2>6, <2>7, CountStep DEF BookInv
<1>11. QED
  BY <1>5, <1>6, <1>7, <1>10 DEF BookInv

\* A position is added for no less than was bought, but for what the booking
\* leaves out.
LEMMA AddOK ==
    ASSUME TypeInv, TypeInv', BookInv, NEW t \in Threads, Alone(t),
           NEW d \in Decisions \ tracked, NEW q \in Nat, AddPosition(d, q),
           UNCHANGED <<intents, net, identity>>,
           \A e \in Decisions : e # d => unsold'[e] = unsold[e],
           pc'[t] \notin {"wait", "executed"}, job'[t].reason # "partial_close", OrderOK(t)',
           ~paper /\ d \notin swallowed => net[d] <= q + unsold'[d]
    PROVE  BookInv'
<1>1. /\ tracked' = tracked \cup {d} /\ paper' = paper /\ swallowed' = swallowed
      /\ qty'[d] = q /\ opened'[d] = opened[d] + 1
      /\ \A e \in Decisions : opened[e] \in Nat
      /\ \A e \in Decisions : e # d => qty'[e] = qty[e] /\ opened'[e] = opened[e]
  BY DEF AddPosition, TypeInv, TypeOK, BookTypeOK, identity
<1>2. Sent' = Sent /\ AllIntents' = AllIntents /\ AllIntents \subseteq Intents
  BY DEF Sent, AllIntents, TypeInv, TypeOK, RouteTypeOK
<1>3. \A u \in Threads : OrderOK(u)'
  BY <1>2, OthersOK DEF BookInv
<1>4. ASSUME NEW i \in AllIntents PROVE IntentOK(i)'
  <2>1. i.opened \in Nat /\ i.decision \in Decisions
    BY <1>2 DEF Intents
  <2>2. i.opened <= opened[i.decision]
    BY DEF BookInv, IntentOK
  <2>3. i.opened <= opened'[i.decision]
    BY <1>1, <2>1, <2>2
  <2>4. QED
    BY <2>3 DEF IntentOK
<1>5. ASSUME NEW e \in Decisions PROVE EntryOK(e)'
  <2>1. net'[e] <= net[e]
    BY CountTypes DEF CountTyped
  <2>2. QED
    BY <1>1, <1>2, <1>5, <2>1, EntryStepOK DEF BookInv
<1>6. \A u \in Threads \ {t} : job'[u] = job[u] /\ pc'[u] = pc[u] /\ JobOK(u)
  BY DEF Alone, TypeInv, JobInv
<1>7. ASSUME NEW e \in Decisions, e # d PROVE CountOK(e)'
  <2>1. /\ net[e] \in Int /\ unsold[e] \in Int /\ qty[e] \in Int /\ Exposure(e) \in Int
        /\ Sold(t, e) \in Int /\ Sold(t, e)' \in Int
    BY CountTypes, CountTypesNext DEF CountTyped
  <2>2. Exposure(e)' = Exposure(e) + (net'[e] - net[e]) - (unsold'[e] - unsold[e])
                       + (Sold(t, e)' - Sold(t, e))
    BY CountChange
  <2>3. Exposure(e)' <= Exposure(e) /\ Exposure(e)' \in Int
    BY <1>7, <2>1, <2>2, SoldStep
  <2>4. Counted(e) => Exposure(e) <= qty[e]
    BY DEF BookInv, CountOK
  <2>5. Counted(e) => Exposure(e)' <= qty'[e]
    BY <1>1, <1>7, <2>1, <2>3, <2>4
  <2>6. ~Closes(t, e)'
    BY DEF Closes
  <2>7. (Counted(e)' => Counted(e)) /\ opened'[e] = opened[e]
    BY <1>1, <1>7 DEF Counted
  <2>8. QED
    BY <1>7, <2>3, <2>5, <2>6, <2>7, CountStep DEF BookInv
<1>8. CountOK(d)'
  <2>1. SUFFICES ASSUME Counted(d)'
                 PROVE  /\ Exposure(d)' <= qty'[d]
                        /\ \A u \in Threads : ~Closes(u, d)'
                        /\ \A i \in intents'["ACKNOWLEDGED"] : ~Closer(i, d)'
    BY DEF CountOK
  <2>2. \A u \in Threads : Sold(u, d)' = 0 /\ ~Closes(u, d)'
    <3>1. ASSUME NEW u \in Threads \ {t} PROVE Sold(u, d)' = 0 /\ ~Closes(u, d)'
      <4>1. job[u].reason \in CloseReasons => pc[u] # "idle"
        BY <1>6, NoJobType DEF JobOK
      <4>2. job[u].reason \in CloseReasons => job[u].decision # d
        BY <1>6, <4>1, ReasonKinds DEF JobOK
      <4>3. QED
        BY <1>6, <4>2, ReasonKinds DEF Sold, Closes
    <3>2. Sold(t, d)' = 0 /\ ~Closes(t, d)'
      BY DEF Sold, Closes
    <3>3. QED
      BY <3>1, <3>2
  <2>3. net[d] \in Int /\ net'[d] = net[d] /\ unsold'[d] \in Int
    BY CountTypes, CountTypesNext DEF CountTyped
  <2>4. Sold(Advisor, d)' = 0 /\ Sold(Watcher, d)' = 0
    BY <2>2 DEF Threads
  <2>5. net[d] <= q + unsold'[d]
    BY <1>1, <2>1 DEF Counted
  <2>6. Exposure(d)' <= qty'[d]
    BY <1>1, <2>3, <2>4, <2>5 DEF Exposure
  <2>7. ASSUME NEW i \in intents["ACKNOWLEDGED"] PROVE ~Closer(i, d)'
    <3>1. i \in AllIntents
      BY DEF AllIntents, IntentStates
    <3>2. i.opened <= opened[i.decision] /\ i.opened \in Nat
      BY <1>2, <3>1 DEF BookInv, IntentOK, Intents
    <3>3. i.decision = d => i.opened # opened'[d]
      BY <1>1, <3>2
    <3>4. QED
      BY <3>3 DEF Closer
  <2>8. QED
    BY <2>2, <2>6, <2>7
<1>9. QED
  BY <1>2, <1>3, <1>4, <1>5, <1>7, <1>8 DEF BookInv

\* The entry that comes back as acknowledged bought no more than it was for.
LEMMA ReturnEntryOK ==
    ASSUME TypeInv, TypeInv', EntryInv, BookInv, NEW t \in Threads, ReturnEntry(t)
    PROVE  BookInv'
<1> DEFINE d == job[t].decision
<1> DEFINE i == job[t].intent
<1>1. /\ Alone(t) /\ OrderOK(t)' /\ pc'[t] \notin {"wait", "executed"}
      /\ job'[t].reason # "partial_close" /\ job'[t].reason # "entry"
  BY RestOK DEF Rests
<1>2. /\ UNCHANGED <<intents, net, identity>> /\ pc[t] = "return" /\ job[t].reason = "entry"
  BY DEF ReturnEntry
<1>3. /\ d \in Decisions \ tracked /\ i \in Intents /\ i.reason = "entry" /\ i.decision = d
      /\ RouteTypeOK
  BY <1>2 DEF TypeInv, TypeOK, JobInv, JobOK, BookInv, OrderOK
<1>4. CASE job[t].mode # "live" /\ UNCHANGED <<book, unsold>>
  <2>1. UNCHANGED <<net, unsold, paper, tracked, opened, qty, swallowed>>
        /\ Sent' = Sent /\ AllIntents' = AllIntents
    BY <1>2, <1>4 DEF book, identity, Sent, AllIntents
  <2>2. QED
    BY <1>1, <1>2, <2>1, QuietStep
<1>5. ASSUME job[t].mode = "live", NEW q \in Booked(t), AddPosition(d, q),
             LeftOut(d, Short(i.amount, q))
      PROVE  BookInv'
  <2>1. i \in Sent
    BY <1>2, <1>5 DEF BookInv, OrderOK
  <2>2. q \in Nat /\ i.amount \in Nat
    BY <1>3, <1>5, BookedType, RouteAssumption
  <2>3. Short(i.amount, q) \in Nat /\ i.amount <= q + Short(i.amount, q)
    BY <2>2, ShortType
  <2>4. /\ unsold'[d] = unsold[d] + Short(i.amount, q) /\ unsold[d] \in Nat
        /\ \A e \in Decisions : e # d => unsold'[e] = unsold[e]
    BY <1>3, <1>5 DEF LeftOut, RouteTypeOK
  <2>5. ASSUME d \notin swallowed PROVE net[d] <= q + unsold'[d]
    <3>1. net[d] \in Int
      BY <1>3, CountTypes DEF CountTyped
    <3>2. net[d] > 0 => net[d] <= i.amount
      <4>1. SUFFICES ASSUME net[d] > 0 PROVE net[d] <= i.amount
        OBVIOUS
      <4>2. PICK j \in Sent : j.reason = "entry" /\ j.decision = d /\ net[d] <= j.amount
        BY <1>3, <2>5, <4>1 DEF BookInv, EntryOK
      <4>3. bound[d] = j /\ bound[d] = i
        BY <1>3, <2>1, <2>5, <4>2 DEF EntryInv, BoundTo
      <4>4. QED
        BY <4>2, <4>3
    <3>3. QED
      BY <2>2, <2>3, <2>4, <3>1, <3>2
  <2>6. QED
    BY <1>1, <1>2, <1>3, <1>5, <2>2, <2>4, <2>5, AddOK
<1>6. QED
  BY <1>4, <1>5 DEF ReturnEntry

(***************************************************************************)
(* All steps                                                               *)
(***************************************************************************)

\* Steps of the advisor loop up to the entry's submission.
LEMMA EntryStepsOK ==
    ASSUME TypeInv, TypeInv', EntryInv, BookInv, EntryStep
    PROVE  BookInv'
<1>1. Advisor \in Threads
  BY DEF Threads
<1>2. ASSUME NEW d \in Decisions, Persist(d) \/ PlaceRefused(d) PROVE BookInv'
  <2>1. UNCHANGED <<route, book>> /\ pc[Advisor] = "idle" /\ swallowed' = swallowed
    BY <1>2 DEF Persist, PlaceRefused, AppendTorn, identity
  <2>2. UNCHANGED <<pc, job, intents, net, unsold, paper, tracked, opened, qty, swallowed>>
        /\ Sent' = Sent /\ AllIntents' = AllIntents
    BY <2>1 DEF route, book, Sent, AllIntents
  <2>3. Alone(Advisor) /\ OrderOK(Advisor)'
    BY <1>1, <2>2 DEF Alone, BookInv, OrderOK
  <2>4. QED
    BY <1>1, <2>1, <2>2, <2>3, QuietStep
<1>3. ASSUME NEW d \in Decisions, NEW q \in Sizes, PlacePaper(d, q) PROVE BookInv'
  <2>1. /\ UNCHANGED <<route, identity>> /\ pc[Advisor] = "idle" /\ paper
        /\ AddPosition(d, q) /\ d \in Decisions \ tracked /\ q \in Nat
    BY <1>3, DeskAssumption, RouteAssumption DEF PlacePaper, TypeInv, JobInv
  <2>2. UNCHANGED <<pc, job, intents, net, unsold>>
    BY <2>1 DEF route
  <2>3. Sent' = Sent
    BY <2>2 DEF Sent
  <2>4. /\ Alone(Advisor) /\ OrderOK(Advisor)' /\ pc'[Advisor] = "idle"
        /\ job'[Advisor].reason # "partial_close"
    BY <1>1, <2>1, <2>2, <2>3, NoJobType DEF Alone, BookInv, OrderOK, TypeInv, JobInv, JobOK
  <2>5. QED
    BY <1>1, <2>1, <2>2, <2>4, AddOK
<1>4. ASSUME NEW d \in Decisions, NEW q \in Sizes, NEW x \in Prices, PlaceEntry(d, q, x)
      PROVE  BookInv'
  <2>1. /\ Alone(Advisor) /\ pc'[Advisor] = "send"
        /\ job'[Advisor].reason = "entry" /\ job'[Advisor].decision = d
        /\ job'[Advisor].intent = EntryIntent(d, q, x) /\ job'[Advisor].filled = 0
    BY <1>4, Placing
  <2>2. /\ UNCHANGED <<intents, net, unsold, book>> /\ swallowed \subseteq swallowed'
    BY <1>4 DEF PlaceEntry, BindIntent, identity
  <2>3. UNCHANGED <<paper, tracked, opened, qty>> /\ Sent' = Sent /\ AllIntents' = AllIntents
    BY <2>2 DEF book, Sent, AllIntents
  <2>4. OrderOK(Advisor)'
    BY <2>1, ReasonKinds DEF OrderOK, EntryIntent
  <2>5. QED
    BY <1>1, <2>1, <2>2, <2>3, <2>4, QuietStep
<1>5. ASSUME NEW t \in Threads, SubmitEntry(t) PROVE BookInv'
  <2> DEFINE i == job[t].intent
  <2>1. UNCHANGED <<book, identity>> /\ job[t].reason = "entry" /\ i \in Intents
    BY <1>5 DEF SubmitEntry, Entering, TypeInv, JobInv, JobOK
  <2>2. UNCHANGED <<paper, tracked, opened, qty>>
    BY <2>1 DEF book
  <2>3. IntentOK(i)
    <3>1. i.opened = 0 /\ i.decision \in Decisions
      BY <2>1 DEF BookInv, OrderOK, Intents
    <3>2. opened[i.decision] \in Nat
      BY <3>1 DEF TypeInv, TypeOK, BookTypeOK
    <3>3. QED
      BY <3>1, <3>2 DEF IntentOK
  <2>4. CASE SubmitFirst(t, i)
    BY <2>1, <2>2, <2>3, <2>4, SubmitFirstOK, ReasonKinds
  <2>5. CASE SubmitRecorded(t, i) \/ SubmitFails(t, i) \/ Refused(t)
    BY <2>1, <2>3, <2>5, SubmitNothing
  <2>6. QED
    BY <1>5, <2>4, <2>5 DEF SubmitEntry
<1>6. QED
  BY <1>2, <1>3, <1>4, <1>5, ReturnEntryOK DEF EntryStep

\* _send_close_order.
LEMMA SendOK ==
    ASSUME TypeInv, TypeInv', EntryInv, BookInv, NEW t \in Threads, UNCHANGED identity,
           SendDenied(t) \/ SendPaper(t) \/ SendFirst(t) \/ SendRepeated(t)
    PROVE  BookInv'
<1> DEFINE d == job[t].decision
<1>1. /\ Closing(t) /\ pc[t] = "send" /\ job[t].reason \in CloseReasons
      /\ job[t].reason # "entry" /\ d \in Decisions
  BY ReasonKinds DEF SendDenied, SendPaper, SendFirst, SendRepeated, Closing, TypeInv, JobInv,
                     JobOK
<1>2. IntentOK(CloseIntent(t))
  <2>1. opened[d] \in Nat
    BY <1>1 DEF TypeInv, TypeOK, BookTypeOK
  <2>2. QED
    BY <2>1 DEF IntentOK, CloseIntent
<1>3. CASE SendDenied(t) \/ SendRepeated(t)
  BY <1>1, <1>2, <1>3, SubmitNothing DEF SendDenied, SendRepeated
<1>4. CASE SendPaper(t)
  <2>1. ReturnWith(t, "paper") /\ UNCHANGED <<intents, net, unsold, book>>
    BY <1>4 DEF SendPaper
  <2>2. UNCHANGED <<paper, tracked, opened, qty, swallowed>> /\ Sent' = Sent
        /\ AllIntents' = AllIntents
    BY <2>1 DEF book, identity, Sent, AllIntents
  <2>3. Alone(t) /\ OrderOK(t)' /\ pc'[t] = "return" /\ job'[t].filled = 0
    BY <1>1, <2>1, <2>2, ReturnOK
  <2>4. QED
    BY <2>1, <2>2, <2>3, QuietStep
<1>5. CASE SendFirst(t)
  <2>1. /\ CloseIntent(t) \in Intents /\ CloseIntent(t).amount = Amount(t)
        /\ SubmitFirst(t, CloseIntent(t)) /\ UNCHANGED <<paper, tracked, opened, qty>>
    BY <1>5, CloseIntentType DEF SendFirst
  <2>2. job[t].reason \in FullReasons => qty[d] <= Amount(t) + AmountStep
    <3>1. SUFFICES ASSUME job[t].reason \in FullReasons PROVE qty[d] <= Amount(t) + AmountStep
      OBVIOUS
    <3>2. job[t].qty = 0
      BY <3>1 DEF BookInv, OrderOK
    <3>3. Requested(t) = qty[d]
      BY <3>2 DEF Requested
    <3>4. qty[d] \in Nat
      BY <1>1, CountTypes DEF CountTyped
    <3>5. QED
      BY <3>3, <3>4, RoundedDown DEF Amount
  <2>3. QED
    BY <1>1, <1>2, <2>1, <2>2, SubmitFirstOK
<1>6. QED
  BY <1>3, <1>4, <1>5

\* The exchange, and what is made of its answer.
LEMMA ExchangeOK ==
    ASSUME TypeInv, TypeInv', AckInv, BookInv, NEW t \in Threads,
           ExchangeStep(t) \/ OutcomeRaises(t), UNCHANGED <<book, identity>>
    PROVE  BookInv'
<1>1. CASE \E f \in 1..MaxQty : Execute(t, f)
  BY <1>1, ExecuteOK
<1>2. CASE Acknowledge(t) \/ Reject(t) \/ AnswerLost(t)
  <2> PICK mode : ReturnWith(t, mode)
    BY <1>2 DEF Acknowledge, Reject, AnswerLost
  <2>1. PICK to \in IntentStates \ {"INTENT_RECORDED"} : Outcome(t, to)
    BY <1>2 DEF Acknowledge, Reject, AnswerLost, IntentStates
  <2>2. net' = net /\ pc[t] \in {"wait", "executed"}
    BY <1>2 DEF Acknowledge, Reject, AnswerLost
  <2>3. /\ Alone(t) /\ pc'[t] = "return" /\ job'[t].mode = mode
        /\ job'[t].reason = job[t].reason /\ job'[t].decision = job[t].decision
        /\ job'[t].intent = job[t].intent /\ job'[t].filled = job[t].filled
        /\ job'[t].qty = job[t].qty
    BY Returning
  <2>4. OrderOK(t)
    BY DEF BookInv
  <2>5. Sent \subseteq Sent' => OrderOK(t)'
    BY <2>2, <2>3, <2>4 DEF OrderOK
  <2>6. QED
    BY <2>1, <2>2, <2>3, <2>5, OutcomeOK
<1>3. CASE OutcomeRaises(t)
  <2>1. /\ Alone(t) /\ OrderOK(t)' /\ pc'[t] \notin {"wait", "executed"}
        /\ job'[t].reason # "partial_close"
    BY <1>3, RestOK DEF Rests
  <2>2. net' = net /\ pc[t] \in {"wait", "executed"}
    BY <1>3 DEF OutcomeRaises
  <2>3. CASE UNCHANGED <<intents, unsold>>
    <3>1. UNCHANGED <<paper, tracked, opened, qty, swallowed>> /\ Sent' = Sent
          /\ AllIntents' = AllIntents
      BY <2>3 DEF book, identity, Sent, AllIntents
    <3>2. QED
      BY <2>1, <2>2, <2>3, <3>1, QuietStep
  <2>4. CASE \E to \in IntentStates \ {"INTENT_RECORDED"} : Outcome(t, to)
    BY <2>1, <2>2, <2>4, OutcomeOK
  <2>5. QED
    BY <1>3, <2>3, <2>4 DEF OutcomeRaises, IntentStates
<1>4. QED
  BY <1>1, <1>2, <1>3 DEF ExchangeStep

\* A crash forgets the book and the orders under way.
LEMMA CrashOK ==
    ASSUME TypeInv, BookInv, Crash
    PROVE  BookInv'
<1>1. /\ \A t \in Threads : pc'[t] = "idle" /\ job'[t] = NoJob
      /\ UNCHANGED <<net, opened, swallowed>> /\ tracked' = {}
      /\ Sent' = Sent /\ AllIntents' = AllIntents
  BY DEF Crash, identity, Sent, AllIntents
<1>2. \A t \in Threads : OrderOK(t)'
  BY <1>1, NoJobType, ReasonKinds DEF OrderOK
<1>3. \A i \in AllIntents' : IntentOK(i)'
  BY <1>1 DEF BookInv, IntentOK
<1>4. \A d \in Decisions : EntryOK(d)'
  BY <1>1 DEF BookInv, EntryOK
<1>5. \A d \in Decisions : CountOK(d)'
  BY <1>1 DEF CountOK, Counted
<1>6. QED
  BY <1>2, <1>3, <1>4, <1>5 DEF BookInv

\* Every step keeps the invariant.
LEMMA NextBook ==
    TypeInv /\ TypeInv' /\ AckInv /\ EntryInv /\ BookInv /\ [Next]_vars => BookInv'
<1>1. SUFFICES ASSUME TypeInv, TypeInv', AckInv, EntryInv, BookInv, [Next]_vars PROVE BookInv'
  OBVIOUS
<1>2. CASE EntryStep
  BY <1>1, <1>2, EntryStepsOK
<1>3. ASSUME NEW t \in Threads, OrderJournalFails(t) PROVE BookInv'
  BY <1>1, <1>3, ExchangeOK DEF OrderJournalFails
<1>4. ASSUME NEW t \in Threads, ExchangeStep(t), UNCHANGED <<book, identity, process>>
      PROVE  BookInv'
  BY <1>1, <1>4, ExchangeOK
<1>5. ASSUME NEW t \in Threads, PositionStep(t), UNCHANGED <<identity, process>>
      PROVE  BookInv'
  <2>1. CASE \/ \E d \in Decisions : BeginPass(t, d)
             \/ \E x \in Prices : UpdatePrice(t, x)
             \/ NoPrice(t) \/ EndPass(t) \/ ReturnClosed(t) \/ ReturnOpen(t)
    <3>1. /\ Alone(t) /\ OrderOK(t)' /\ pc'[t] \notin {"wait", "executed"}
          /\ job'[t].reason # "partial_close"
      BY <1>1, <2>1, RestOK DEF Rests
    <3>2. UNCHANGED <<intents, net, unsold, paper, tracked, opened, qty, swallowed>>
      BY <1>5, <2>1 DEF BeginPass, UpdatePrice, NoPrice, EndPass, ReturnClosed, ReturnOpen,
                        book, identity
    <3>3. Sent' = Sent /\ AllIntents' = AllIntents
      BY <3>2 DEF Sent, AllIntents
    <3>4. QED
      BY <1>1, <3>1, <3>2, <3>3, QuietStep
  <2>2. ASSUME NEW r \in CloseReasons, Fire(t, r) PROVE BookInv'
    <3>1. /\ Alone(t) /\ pc'[t] = "send" /\ job'[t].reason = r
          /\ job'[t].filled = job[t].filled /\ (r \in FullReasons => job'[t].qty = 0)
      BY <1>1, <2>2, Firing
    <3>2. UNCHANGED <<intents, net, unsold, paper, tracked, opened, qty, swallowed>>
          /\ pc[t] = "check"
      BY <1>5, <2>2 DEF Fire, book, identity
    <3>3. job'[t].filled = 0 /\ Sent' = Sent /\ AllIntents' = AllIntents
      BY <1>1, <3>1, <3>2 DEF BookInv, OrderOK, Sent, AllIntents
    <3>4. OrderOK(t)'
      BY <3>1, <3>3, ReasonKinds DEF OrderOK
    <3>5. QED
      BY <1>1, <3>1, <3>2, <3>3, <3>4, QuietStep
  <2>3. CASE SendDenied(t) \/ SendPaper(t) \/ SendFirst(t) \/ SendRepeated(t)
    BY <1>1, <1>5, <2>3, SendOK
  <2>4. CASE ReturnPartial(t)
    BY <1>1, <1>5, <2>4, ReturnPartialOK
  <2>5. QED
    BY <1>5, <2>1, <2>2, <2>3, <2>4 DEF PositionStep
<1>6. CASE Crash
  BY <1>1, <1>6, CrashOK
<1>7. CASE UNCHANGED vars
  <2>1. UNCHANGED <<pc, job, intents, net, unsold, paper, tracked, opened, qty, swallowed>>
    BY <1>7 DEF vars, route, book, identity
  <2>2. Sent' = Sent /\ AllIntents' = AllIntents
    BY <2>1 DEF Sent, AllIntents
  <2>3. \A d \in Decisions : Exposure(d)' = Exposure(d)
    BY <2>1 DEF Exposure, Sold
  <2>4. (\A t \in Threads : OrderOK(t)') /\ (\A i \in AllIntents' : IntentOK(i)')
    BY <1>1, <2>1, <2>2 DEF BookInv, OrderOK, IntentOK
  <2>5. \A d \in Decisions : EntryOK(d)'
    BY <1>1, <2>1, <2>2 DEF BookInv, EntryOK
  <2>6. \A d \in Decisions : CountOK(d)'
    BY <1>1, <2>1, <2>3 DEF BookInv, CountOK, Counted, Closes, Closer
  <2>7. QED
    BY <2>4, <2>5, <2>6 DEF BookInv
<1>8. QED
  BY <1>1, <1>2, <1>3, <1>4, <1>5, <1>6, <1>7 DEF Next

\* The counts bound what the exchange holds.
LEMMA CountBounds == TypeInv /\ AckInv /\ BookInv => HoldingsAccounted
<1>1. SUFFICES ASSUME TypeInv, AckInv, BookInv, NEW d \in tracked \ swallowed, ~paper
               PROVE  net[d] <= unsold[d] + (IF closed[d] THEN AmountStep ELSE qty[d])
  BY DEF HoldingsAccounted
<1>2. d \in Decisions /\ Counted(d) /\ CountOK(d) /\ AmountStep \in Nat
  BY <1>1, RouteAssumption DEF TypeInv, TypeOK, BookTypeOK, Counted, BookInv
<1>3. /\ net[d] \in Int /\ unsold[d] \in Nat /\ qty[d] \in Nat /\ Exposure(d) \in Int
      /\ Sold(Advisor, d) \in Nat /\ Sold(Watcher, d) \in Nat
  BY <1>1, <1>2, CountTypes DEF CountTyped, Threads
<1>4. net[d] <= unsold[d] + Exposure(d)
  BY <1>3 DEF Exposure
<1>5. CASE closed[d]
  <2>1. PICK i \in intents["ACKNOWLEDGED"] : Closer(i, d)
    BY <1>1, <1>5 DEF AckInv, ClosedAcknowledged, Closer
  <2>2. Exposure(d) <= AmountStep
    BY <1>2, <2>1 DEF CountOK
  <2>3. QED
    BY <1>2, <1>3, <1>4, <1>5, <2>2
<1>6. CASE ~closed[d]
  <2>1. Exposure(d) <= qty[d]
    BY <1>2 DEF CountOK
  <2>2. QED
    BY <1>3, <1>4, <1>6, <2>1
<1>7. QED
  BY <1>5, <1>6

\* The exchange never holds more of a tracked position than the book says, or
\* of a closed one more than one step of the precision, but for what orders
\* and bookings have left out: for all constants, and whatever the threads,
\* the answers, partial fills and crashes do.
THEOREM HoldingsRight == Spec => []HoldingsAccounted
<1>1. Init => AckInv /\ EntryInv /\ BookInv
  <2>1. SUFFICES ASSUME Init PROVE AckInv /\ EntryInv /\ BookInv
    OBVIOUS
  <2>2. /\ \A t \in Threads : pc[t] = "idle" /\ job[t] = NoJob
        /\ tracked = {} /\ \A d \in Decisions : net[d] = 0
        /\ Sent = {} /\ AllIntents = {}
    BY <2>1 DEF Init, RouteInit, BookInit, Sent, AllIntents
  <2>3. AckInv
    BY <2>2 DEF AckInv, AckOK, ClosedAcknowledged
  <2>4. EntryInv
    BY <2>1, <2>2, NoJobType DEF Init, EntryInv
  <2>5. \A t \in Threads : OrderOK(t)
    BY <2>2, NoJobType, ReasonKinds DEF OrderOK
  <2>6. \A d \in Decisions : EntryOK(d) /\ CountOK(d)
    BY <2>2 DEF EntryOK, CountOK, Counted
  <2>7. QED
    BY <2>2, <2>3, <2>4, <2>5, <2>6 DEF BookInv
<1>2. QED
  BY <1>1, InitType, NextType, NextAck, NextEntry, NextBook, CountBounds, PTL DEF Spec
===============================================================================
