---------------------- MODULE OrderIntentProtocol_proofs ----------------------
(***************************************************************************)
(* Proofs about OrderIntentProtocol, for any number of threads,            *)
(* coordinators, intents, calls, I/O faults, crashes and foreign orders.   *)
(***************************************************************************)
EXTENDS OrderIntentProtocol, TLAPS

(***************************************************************************)
(* Type correctness                                                        *)
(***************************************************************************)

\* A map of locks of which one thread's are released still maps to holders.
LEMMA ReleasedType ==
    ASSUME NEW S, NEW lock \in [S -> Holders], NEW w \in Workers
    PROVE  Released(lock, w) \in [S -> Holders]
BY DEF Released, Holders

\* Every outcome of _typed_result_from_record is a SubmissionOutcome.
LEMMA ResultTypes ==
    ASSUME NEW s \in IntentState
    PROVE  /\ TypedResult(s) \in SubmissionOutcome
           /\ s \notin {"INTENT_RECORDED", "SUBMISSION_STARTED", "CANCELLED"} =>
                AppendedResult(s) \in SubmissionOutcome
BY DEF IntentState, TypedResult, AppendedResult, SubmissionOutcome

\* Taking one from a budget leaves natural numbers.
LEMMA SpendType ==
    ASSUME NEW f \in Faults, budget \in [Faults -> Nat], Spend(f)
    PROVE  budget' \in [Faults -> Nat]
BY DEF Spend

\* Returning from a call keeps the types of the thread and lock variables.
LEMMA ReturnType ==
    ASSUME TypeOK, NEW w \in Workers,
           NEW o \in SubmissionOutcome \cup {NoResult, Raised}, Return(w, o)
    PROVE  /\ pc' \in [Workers -> PC] /\ arg' \in [Workers -> Digests]
           /\ todo' \in [Workers -> Records]
           /\ ret' \in [Workers -> SubmissionOutcome \cup {NoResult, Raised}]
           /\ digestLock' \in [Coordinators \X Digests -> Holders]
           /\ flock' \in Holders
           /\ journalLock' \in [Coordinators -> Holders]
<1>1. digestLock' \in [Coordinators \X Digests -> Holders]
  BY ReleasedType DEF Return, TypeOK
<1>2. journalLock' \in [Coordinators -> Holders]
  BY ReleasedType DEF Return, TypeOK
<1>3. QED
  BY <1>1, <1>2 DEF Return, TypeOK, PC, Records, Holders

\* So does going on at another label.
LEMMA GotoType ==
    ASSUME TypeOK, NEW w \in Workers, NEW l \in PC, NEW s \in Records, Goto(w, l, s)
    PROVE  /\ pc' \in [Workers -> PC] /\ arg' \in [Workers -> Digests]
           /\ todo' \in [Workers -> Records]
           /\ ret' \in [Workers -> SubmissionOutcome \cup {NoResult, Raised}]
BY DEF Goto, TypeOK

\* Killing threads, too.
LEMMA KilledType ==
    ASSUME TypeOK, NEW W \in SUBSET Workers, Killed(W)
    PROVE  /\ pc' \in [Workers -> PC] /\ arg' \in [Workers -> Digests]
           /\ todo' \in [Workers -> Records]
           /\ ret' \in [Workers -> SubmissionOutcome \cup {NoResult, Raised}]
           /\ digestLock' \in [Coordinators \X Digests -> Holders]
           /\ flock' \in Holders
           /\ journalLock' \in [Coordinators -> Holders]
           /\ tail' \in {"clean", "torn"}
BY DEF Killed, TypeOK, PC, Records, Holders

\* An append writes only states that submit and reconcile append. TypeOK does
\* not say so; the type of what the call returns depends on it.
AppendableState == {"INTENT_RECORDED", "SUBMISSION_STARTED", "ACKNOWLEDGED",
    "EXPLICITLY_REJECTED", "RECONCILE_REQUIRED", "RECONCILED_FOUND",
    "RECONCILED_NOT_FOUND_PENDING", "COLLISION"}
TodoOK == \A w \in Workers : pc[w] \in {"validate", "write", "sync"} => todo[w] \in AppendableState

\* The inductive form of type correctness.
TypeInv == TypeOK /\ TodoOK

\* The initial state has the types: an empty journal, no lock held.
THEOREM InitTypeInv == Init => TypeInv
<1> SUFFICES ASSUME Init PROVE TypeInv
  OBVIOUS
<1>1. arg \in [Workers -> Digests]
  <2>1. (CHOOSE d \in Digests : TRUE) \in Digests
    BY IntentAssumption, Zenon
  <2>2. QED
    BY <2>1 DEF Init
<1>2. budget \in [Faults -> Nat]
  BY BoundsAssumption DEF Init, Faults
<1>3. QED
  BY <1>1, <1>2 DEF Init, TypeInv, TypeOK, TodoOK, Records, Holders, PC

\* No step of a thread, a fault, the exchange or a crash breaks a type.
THEOREM NextTypeInv == TypeInv /\ [Next]_vars => TypeInv'
<1> SUFFICES ASSUME TypeInv, [Next]_vars PROVE TypeInv'
  OBVIOUS
<1> TypeOK /\ TodoOK
  BY DEF TypeInv
<1>1. ASSUME NEW w \in Workers, NEW d \in Digests, Call(w, d) PROVE TypeInv'
  <2>1. budget' \in [Faults -> Nat]
    BY <1>1, SpendType
       DEF Call, SubmitRefused, SubmitCalled, ReconcileRefused, ReconcileCalled, Faults, TypeOK
  <2>2. QED
    BY <1>1, <2>1
       DEF Call, SubmitRefused, SubmitCalled, ReconcileRefused, ReconcileCalled,
           TypeInv, TypeOK, TodoOK, PC, SubmissionOutcome, journal, locks, exchange
<1>2. ASSUME NEW d \in Digests, Exchange(d) PROVE TypeInv'
  <2>1. budget' \in [Faults -> Nat]
    BY <1>2, SpendType DEF Exchange, ExchangePlaces, ExchangeRefuses, ForeignOrder, Faults, TypeOK
  <2>2. QED
    BY <1>2, <2>1 DEF Exchange, ExchangePlaces, ExchangeRefuses, ForeignOrder,
           TypeInv, TypeOK, TodoOK, journal, locks, threads
<1>3. ASSUME NEW c \in Coordinators, ProcessCrash(c) PROVE TypeInv'
  <2> DEFINE W == {w \in Workers : ProcessOf[CoordinatorOf[w]] = ProcessOf[c]}
  <2>1. Killed(W) /\ Spend("crash") /\ UNCHANGED <<latest, durable, exchange>>
    BY <1>3 DEF ProcessCrash
  <2>2. W \in SUBSET Workers
    OBVIOUS
  <2> HIDE DEF W
  <2>3. budget' \in [Faults -> Nat]
    BY <2>1, SpendType DEF Faults, TypeOK
  <2>4. TypeOK'
    BY <2>1, <2>2, <2>3, KilledType DEF TypeOK, exchange
  <2>5. TodoOK'
    BY <2>1, <2>2 DEF TodoOK, TypeOK, Killed
  <2>6. QED
    BY <2>4, <2>5 DEF TypeInv
<1>4. ASSUME PowerFailure PROVE TypeInv'
  <2>1. Killed(Workers) /\ Spend("crash") /\ UNCHANGED exchange
    BY <1>4 DEF PowerFailure
  <2>2. latest' \in [Digests -> Records] /\ durable' \in [Digests -> Records]
    BY <1>4 DEF PowerFailure, TypeOK
  <2>3. budget' \in [Faults -> Nat]
    BY <2>1, SpendType DEF Faults, TypeOK
  <2>4. TypeOK'
    BY <2>1, <2>2, <2>3, KilledType DEF TypeOK, exchange
  <2>5. TodoOK'
    BY <2>1 DEF TodoOK, TypeOK, Killed
  <2>6. QED
    BY <2>4, <2>5 DEF TypeInv
<1>5. CASE UNCHANGED vars
  BY <1>5 DEF TypeInv, TypeOK, TodoOK, vars
<1>6. ASSUME NEW w \in Workers, Step(w) \/ Fault(w) PROVE TypeInv'
  <2>1. CASE AcquireDigestLock(w)
    <3>1. budget' \in [Faults -> Nat]
      BY <2>1 DEF AcquireDigestLock, TypeOK
    <3>2. QED
      BY <2>1, <3>1, ThreadsAssumption
         DEF AcquireDigestLock, Goto, TypeInv, TypeOK, TodoOK, AppendableState, IntentState,
         PC, Records, Holders, journal, locks, exchange
  <2>2. CASE AcquireFlock(w)
    <3>1. budget' \in [Faults -> Nat]
      BY <2>2 DEF AcquireFlock, TypeOK
    <3>2. QED
      BY <2>2, <3>1 DEF AcquireFlock, Goto, TypeInv, TypeOK, TodoOK, AppendableState, IntentState,
         PC, Records, Holders, journal, locks, exchange
  <2>3. CASE CheckNew(w)
    <3>1. budget' \in [Faults -> Nat]
      BY <2>3 DEF CheckNew, TypeOK
    <3>2. QED
      BY <2>3, <3>1 DEF CheckNew, Goto, TypeInv, TypeOK, TodoOK, AppendableState, IntentState,
         PC, Records, Holders, journal, locks, exchange
  <2>4. CASE CheckCollision(w)
    <3>1. budget' \in [Faults -> Nat]
      BY <2>4 DEF CheckCollision, TypeOK
    <3>2. PICK o \in SubmissionOutcome \cup {NoResult, Raised} : Return(w, o)
      BY <2>4 DEF CheckCollision, SubmissionOutcome
    <3>3. TodoOK'
      BY <2>4 DEF CheckCollision, AppendRaises, Return, TodoOK, TypeOK
    <3>4. QED
      BY <2>4, <3>1, <3>2, <3>3, ReturnType
         DEF CheckCollision, TypeInv, TypeOK, Records, journal, exchange
  <2>5. CASE CheckExisting(w)
    <3>1. budget' \in [Faults -> Nat]
      BY <2>5 DEF CheckExisting, TypeOK
    <3>2. PICK o \in SubmissionOutcome \cup {NoResult, Raised} : Return(w, o)
      BY <2>5, ResultTypes DEF CheckExisting, TypeOK, Records
    <3>3. TodoOK'
      BY <2>5 DEF CheckExisting, AppendRaises, Return, TodoOK, TypeOK
    <3>4. QED
      BY <2>5, <3>1, <3>2, <3>3, ReturnType
         DEF CheckExisting, TypeInv, TypeOK, Records, journal, exchange
  <2>6. CASE AppendValidate(w)
    <3>1. budget' \in [Faults -> Nat]
      BY <2>6 DEF AppendValidate, TypeOK
    <3>2. QED
      BY <2>6, <3>1, ThreadsAssumption
         DEF AppendValidate, Goto, TypeInv, TypeOK, TodoOK, AppendableState, IntentState,
         PC, Records, Holders, journal, locks, exchange
  <2>7. CASE AppendInvalid(w)
    <3>1. budget' \in [Faults -> Nat]
      BY <2>7 DEF AppendInvalid, TypeOK
    <3>2. PICK o \in SubmissionOutcome \cup {NoResult, Raised} : Return(w, o)
      BY <2>7 DEF AppendInvalid, AppendRaises, SubmissionOutcome
    <3>3. TodoOK'
      BY <2>7 DEF AppendInvalid, AppendRaises, Return, TodoOK, TypeOK
    <3>4. QED
      BY <2>7, <3>1, <3>2, <3>3, ReturnType
         DEF AppendInvalid, TypeInv, TypeOK, Records, journal, exchange
  <2>8. CASE AppendWriteFails(w)
    <3>1. budget' \in [Faults -> Nat]
      BY <2>8, SpendType DEF AppendWriteFails, Faults, TypeOK
    <3>2. PICK o \in SubmissionOutcome \cup {NoResult, Raised} : Return(w, o)
      BY <2>8 DEF AppendWriteFails, AppendRaises, SubmissionOutcome
    <3>3. TodoOK'
      BY <2>8 DEF AppendWriteFails, AppendRaises, Return, TodoOK, TypeOK
    <3>4. QED
      BY <2>8, <3>1, <3>2, <3>3, ReturnType
         DEF AppendWriteFails, TypeInv, TypeOK, Records, journal, exchange
  <2>9. CASE AppendShortWrite(w)
    <3>1. budget' \in [Faults -> Nat]
      BY <2>9, SpendType DEF AppendShortWrite, Faults, TypeOK
    <3>2. PICK o \in SubmissionOutcome \cup {NoResult, Raised} : Return(w, o)
      BY <2>9 DEF AppendShortWrite, AppendRaises, SubmissionOutcome
    <3>3. TodoOK'
      BY <2>9 DEF AppendShortWrite, AppendRaises, Return, TodoOK, TypeOK
    <3>4. QED
      BY <2>9, <3>1, <3>2, <3>3, ReturnType
         DEF AppendShortWrite, TypeInv, TypeOK, Records, journal, exchange
  <2>10. CASE AppendSyncFails(w)
    <3>1. budget' \in [Faults -> Nat]
      BY <2>10, SpendType DEF AppendSyncFails, Faults, TypeOK
    <3>2. PICK o \in SubmissionOutcome \cup {NoResult, Raised} : Return(w, o)
      BY <2>10 DEF AppendSyncFails, AppendRaises, SubmissionOutcome
    <3>3. TodoOK'
      BY <2>10 DEF AppendSyncFails, AppendRaises, Return, TodoOK, TypeOK
    <3>4. QED
      BY <2>10, <3>1, <3>2, <3>3, ReturnType
         DEF AppendSyncFails, TypeInv, TypeOK, Records, journal, exchange
  <2>11. CASE FlockFails(w)
    <3>1. budget' \in [Faults -> Nat]
      BY <2>11, SpendType DEF FlockFails, Faults, TypeOK
    <3>2. PICK o \in SubmissionOutcome \cup {NoResult, Raised} : Return(w, o)
      BY <2>11 DEF FlockFails, SubmissionOutcome
    <3>3. TodoOK'
      BY <2>11 DEF FlockFails, AppendRaises, Return, TodoOK, TypeOK
    <3>4. QED
      BY <2>11, <3>1, <3>2, <3>3, ReturnType
         DEF FlockFails, TypeInv, TypeOK, Records, journal, exchange
  <2>12. CASE AppendWrite(w)
    <3>1. budget' \in [Faults -> Nat]
      BY <2>12 DEF AppendWrite, TypeOK
    <3>2. QED
      BY <2>12, <3>1 DEF AppendWrite, Goto, TypeInv, TypeOK, TodoOK, AppendableState, IntentState,
         PC, Records, Holders, journal, locks, exchange
  <2>13. CASE Mutate(w)
    <3>1. budget' \in [Faults -> Nat]
      BY <2>13 DEF Mutate, TypeOK
    <3>2. QED
      BY <2>13, <3>1 DEF Mutate, Goto, TypeInv, TypeOK, TodoOK, AppendableState, IntentState,
         PC, Records, Holders, journal, locks, exchange
  <2>14. CASE MutationAnswer(w)
    <3>1. budget' \in [Faults -> Nat]
      BY <2>14 DEF MutationAnswer, TypeOK
    <3>2. QED
      BY <2>14, <3>1
         DEF MutationAnswer, Goto, TypeInv, TypeOK, TodoOK, AppendableState, IntentState,
         PC, Records, Holders, journal, locks, exchange
  <2>15. CASE ReconcileRead(w)
    <3>1. budget' \in [Faults -> Nat]
      BY <2>15 DEF ReconcileRead, TypeOK
    <3>2. QED
      BY <2>15, <3>1
         DEF ReconcileRead, Goto, TypeInv, TypeOK, TodoOK, AppendableState, IntentState,
         PC, Records, Holders, journal, locks, exchange
  <2>16. CASE ReconcileLookup(w)
    <3>1. budget' \in [Faults -> Nat]
      BY <2>16 DEF ReconcileLookup, TypeOK
    <3>2. QED
      BY <2>16, <3>1
         DEF ReconcileLookup, Goto, TypeInv, TypeOK, TodoOK, AppendableState, IntentState,
         PC, Records, Holders, journal, locks, exchange, LookupVerdict
  <2>17. CASE ReconcileLookupFails(w)
    <3>1. budget' \in [Faults -> Nat]
      BY <2>17, SpendType DEF ReconcileLookupFails, Faults, TypeOK
    <3>2. QED
      BY <2>17, <3>1
         DEF ReconcileLookupFails, Goto, TypeInv, TypeOK, TodoOK, AppendableState, IntentState,
         PC, Records, Holders, journal, locks, exchange
  <2>18. CASE ReconcileNothing(w)
    <3>1. budget' \in [Faults -> Nat]
      BY <2>18 DEF ReconcileNothing, TypeOK
    <3>2. PICK o \in SubmissionOutcome \cup {NoResult, Raised} : Return(w, o)
      BY <2>18, ResultTypes DEF ReconcileNothing, TypeOK, Records, SubmissionOutcome
    <3>3. TodoOK'
      BY <2>18 DEF ReconcileNothing, AppendRaises, Return, TodoOK, TypeOK
    <3>4. QED
      BY <2>18, <3>1, <3>2, <3>3, ReturnType
         DEF ReconcileNothing, TypeInv, TypeOK, Records, journal, exchange
  <2>19. CASE SyncIntentRecorded(w)
    <3>1. journalLock' \in [Coordinators -> Holders]
      BY <2>19, ReleasedType DEF SyncIntentRecorded, TypeOK
    <3>2. QED
      BY <2>19, <3>1
         DEF SyncIntentRecorded, Goto, TypeInv, TypeOK, TodoOK, AppendableState, IntentState, PC,
         Records, Holders, exchange
  <2>20. CASE SyncSubmissionStarted(w)
    <3>1. journalLock' \in [Coordinators -> Holders]
      BY <2>20, ReleasedType DEF SyncSubmissionStarted, TypeOK
    <3>2. QED
      BY <2>20, <3>1
         DEF SyncSubmissionStarted, Goto, TypeInv, TypeOK, TodoOK, AppendableState, IntentState,
         PC,
         Records, Holders, exchange
  <2>21. CASE SyncOutcome(w)
    <3>1. budget' \in [Faults -> Nat]
      BY <2>21 DEF SyncOutcome, TypeOK
    <3>2. PICK o \in SubmissionOutcome \cup {NoResult, Raised} : Return(w, o)
      BY <2>21, ResultTypes DEF SyncOutcome, TodoOK, AppendableState, IntentState
    <3>3. TodoOK'
      BY <2>21 DEF SyncOutcome, AppendRaises, Return, TodoOK, TypeOK
    <3>4. QED
      BY <2>21, <3>1, <3>2, <3>3, ReturnType
         DEF SyncOutcome, TypeInv, TypeOK, Records, journal, exchange
  <2>22. CASE ReadRaises(w)
    <3>1. budget' \in [Faults -> Nat]
      BY <2>22, SpendType DEF ReadRaises, Faults, TypeOK
    <3>2. PICK o \in SubmissionOutcome \cup {NoResult, Raised} : Return(w, o)
      BY <2>22 DEF ReadRaises
    <3>3. TodoOK'
      BY <2>22 DEF ReadRaises, Return, TodoOK, TypeOK
    <3>4. QED
      BY <2>22, <3>1, <3>2, <3>3, ReturnType
         DEF ReadRaises, TypeInv, TypeOK, Records, journal, exchange
  <2>23. QED
    BY <1>6, <2>22, <2>1, <2>2, <2>3, <2>4, <2>5, <2>6, <2>7, <2>8, <2>9, <2>10, <2>11, <2>12,
       <2>13, <2>14, <2>15, <2>16, <2>17, <2>18, <2>19, <2>20, <2>21 DEF Step, Fault
<1>7. QED
  BY <1>1, <1>2, <1>3, <1>4, <1>5, <1>6 DEF Next

\* Type correctness of the protocol.
THEOREM TypeCorrect == Spec => []TypeOK
<1>1. Spec => []TypeInv
  BY InitTypeInv, NextTypeInv, PTL DEF Spec
<1>2. TypeInv => TypeOK
  BY DEF TypeInv
<1>3. QED
  BY <1>1, <1>2, PTL

(***************************************************************************)
(* At most one submission per intent                                       *)
(*                                                                         *)
(* The assumptions: one process (ADR-0020's single-writer requirement) and *)
(* no failing write that leaves a fragment behind. A crash may leave one.  *)
(***************************************************************************)

SingleProcess == \A b, c \in Coordinators : ProcessOf[b] = ProcessOf[c]

Registering == {"INTENT_RECORDED", "SUBMISSION_STARTED"}
Appending(w) == pc[w] \in {"validate", "write", "sync"}

\* The thread has found its intent new and is registering it under the flock.
Registers(w) == Appending(w) /\ todo[w] \in Registering

\* The thread's intent has been submitted: it is past the registration.
Past(w) ==
    \/ pc[w] \in {"mutate", "await", "lookup"}
    \/ Appending(w) /\ todo[w] \notin Registering

\* The intent has left for the exchange or is about to.
Leaving(d) == calls[d] > 0 \/ \E w \in Workers : pc[w] = "mutate" /\ arg[w] = d

\* The flock really guards the check-and-register section.
FlockInv == \A w \in Workers : pc[w] = "check" \/ Registers(w) => flock = w

\* While an intent is being registered it has not left, no intent with its id
\* is recorded, and its records are written after whole lines.
RegisterInv ==
    \A w \in Workers : Registers(w) =>
        /\ ~Leaving(arg[w])
        /\ ~CidTaken(arg[w])
        /\ todo[w] = "INTENT_RECORDED" /\ pc[w] # "sync" => latest[arg[w]] = NoRecord
        /\ todo[w] = "SUBMISSION_STARTED" \/ pc[w] = "sync" => tail = "clean"
        /\ todo[w] = "SUBMISSION_STARTED" /\ pc[w] = "sync" => latest[arg[w]] \in Started

PastInv == \A w \in Workers : Past(w) => latest[arg[w]] \in Started

\* An intent about to leave has not left, and only one thread is sending it.
MutateInv ==
    \A w \in Workers : pc[w] = "mutate" =>
        /\ calls[arg[w]] = 0
        /\ \A v \in Workers : pc[v] = "mutate" /\ arg[v] = arg[w] => v = w

UniqueLeaving ==
    \A d, e \in Digests :
        Leaving(d) /\ Leaving(e) /\ ClientOrderId[d] = ClientOrderId[e] => d = e

\* The inductive invariant.
SafetyInv ==
    /\ FlockInv /\ RegisterInv /\ PastInv /\ MutateInv
    /\ DurableBeforeNetwork /\ UniqueLeaving /\ AtMostOnceSubmission
    /\ budget["short_write"] = 0

\* Nothing is sent, recorded or locked at the start.
LEMMA InitSafety ==
    ASSUME MaxShortWrites = 0, Init
    PROVE  SafetyInv
BY DEF Init, SafetyInv, FlockInv, RegisterInv, PastInv, MutateInv, DurableBeforeNetwork,
       UniqueLeaving, AtMostOnceSubmission, Leaving, Registers, Past, Appending, Faults

\* A step that leaves journal and exchange alone and takes one thread to a
\* place outside registration and submission: a call begins, waits for a
\* lock, fails or returns.
LEMMA QuietStep ==
    ASSUME TypeInv, SafetyInv, NEW w \in Workers,
           UNCHANGED <<latest, durable, tail, calls>>,
           budget'["short_write"] = 0,
           pc' \in [Workers -> PC], arg' \in [Workers -> Digests], todo' \in [Workers -> Records],
           \A v \in Workers \ {w} :
               /\ pc'[v] = pc[v] /\ todo'[v] = todo[v] /\ arg'[v] = arg[v]
               /\ flock = v => flock' = v,
           \/ pc'[w] \in {"idle", "submit_lock", "reconcile_lock", "flock", "read"}
           \/ pc'[w] = "check" /\ flock' = w
    PROVE  SafetyInv'
<1> USE DEF TypeInv, TypeOK
<1>1. \A d \in Digests : Leaving(d)' => Leaving(d)
  BY DEF Leaving
<1>2. \A v \in Workers : Registers(v)' => v # w /\ Registers(v)
  BY DEF Registers, Appending
<1>3. \A v \in Workers : Past(v)' => v # w /\ Past(v)
  BY DEF Past, Appending
<1>4. \A d \in Digests : CidTaken(d)' <=> CidTaken(d)
  BY DEF CidTaken
<1>5. FlockInv'
  BY <1>2 DEF SafetyInv, FlockInv
<1>6. RegisterInv'
  BY <1>1, <1>2, <1>4 DEF SafetyInv, RegisterInv
<1>7. PastInv'
  BY <1>3 DEF SafetyInv, PastInv
<1>8. MutateInv'
  BY DEF SafetyInv, MutateInv
<1>9. UniqueLeaving'
  BY <1>1 DEF SafetyInv, UniqueLeaving
<1>10. DurableBeforeNetwork' /\ AtMostOnceSubmission'
  BY <1>1 DEF SafetyInv, DurableBeforeNetwork, AtMostOnceSubmission, Leaving
<1>11. QED
  BY <1>5, <1>6, <1>7, <1>8, <1>9, <1>10 DEF SafetyInv

\* Every way a call returns or raises without writing is such a step.
LEMMA ReturnStep ==
    ASSUME TypeInv, SafetyInv, NEW w \in Workers,
           NEW o \in SubmissionOutcome \cup {NoResult, Raised}, Return(w, o),
           UNCHANGED <<latest, durable, tail, calls>>, budget'["short_write"] = 0
    PROVE  SafetyInv'
<1>1. /\ pc' \in [Workers -> PC] /\ arg' \in [Workers -> Digests]
      /\ todo' \in [Workers -> Records]
  BY ReturnType DEF TypeInv
<1>2. /\ pc'[w] = "idle"
      /\ \A v \in Workers \ {w} :
            /\ pc'[v] = pc[v] /\ todo'[v] = todo[v] /\ arg'[v] = arg[v]
            /\ flock = v => flock' = v
  BY DEF Return, TypeInv, TypeOK
<1>3. QED
  BY <1>1, <1>2, QuietStep

\* A step of a thread to another place past its registration, with journal,
\* exchange and flock as they were.
LEMMA PastStep ==
    ASSUME TypeInv, SafetyInv, NEW w \in Workers, NEW l \in PC, NEW s \in Records,
           Goto(w, l, s), latest[arg[w]] \in Started,
           l \in {"await", "lookup"} \/ (l \in {"validate", "write"} /\ s \notin Registering),
           UNCHANGED <<latest, durable, tail, calls, flock>>, budget'["short_write"] = 0
    PROVE  SafetyInv'
<1> USE DEF TypeInv, TypeOK
<1>0. /\ pc' = [pc EXCEPT ![w] = l] /\ todo' = [todo EXCEPT ![w] = s] /\ arg' = arg
      /\ pc' \in [Workers -> PC]
  BY DEF Goto
<1>1. \A d \in Digests : Leaving(d)' => Leaving(d)
  BY <1>0 DEF Leaving
<1>2. \A v \in Workers : Registers(v)' => v # w /\ Registers(v)
  BY <1>0 DEF Registers, Appending
<1>3. \A v \in Workers \ {w} : Past(v)' => Past(v)
  BY <1>0 DEF Past, Appending
<1>4. \A d \in Digests : CidTaken(d)' <=> CidTaken(d)
  BY DEF CidTaken
<1>5. FlockInv'
  BY <1>0, <1>2 DEF SafetyInv, FlockInv
<1>6. RegisterInv'
  BY <1>0, <1>1, <1>2, <1>4 DEF SafetyInv, RegisterInv
<1>7. PastInv'
  BY <1>0, <1>3 DEF SafetyInv, PastInv
<1>8. MutateInv'
  BY <1>0 DEF SafetyInv, MutateInv
<1>9. UniqueLeaving'
  BY <1>1 DEF SafetyInv, UniqueLeaving
<1>10. DurableBeforeNetwork' /\ AtMostOnceSubmission'
  BY <1>1 DEF SafetyInv, DurableBeforeNetwork, AtMostOnceSubmission, Leaving
<1>11. QED
  BY <1>5, <1>6, <1>7, <1>8, <1>9, <1>10 DEF SafetyInv

\* A thread goes on registering: it found its intent new, has validated the
\* next append, or has synced INTENT_RECORDED.
LEMMA RegisterStep ==
    ASSUME TypeInv, SafetyInv, NEW w \in Workers,
           CheckNew(w) \/ (AppendValidate(w) /\ todo[w] \in Registering) \/ SyncIntentRecorded(w)
    PROVE  SafetyInv'
<1> USE DEF TypeInv, TypeOK
<1>0. /\ UNCHANGED <<latest, tail, calls, flock, budget, arg>>
      /\ durable' = durable \/ durable' = latest
      /\ flock = w
      /\ pc' \in [Workers -> PC] /\ todo' \in [Workers -> Records]
      /\ \A v \in Workers \ {w} : pc'[v] = pc[v] /\ todo'[v] = todo[v]
      /\ pc'[w] \in {"validate", "write"}
      /\ todo'[w] \in Registering
  BY DEF SafetyInv, FlockInv, Registers, Appending, Registering, CheckNew, AppendValidate,
     SyncIntentRecorded, Goto, journal, locks, exchange, PC, Records, IntentState
<1>1. \A d \in Digests : Leaving(d)' => Leaving(d)
  BY <1>0 DEF Leaving
<1>2. \A v \in Workers \ {w} : ~Registers(v)' /\ pc'[v] # "check"
  BY <1>0 DEF SafetyInv, FlockInv, Registers, Appending
<1>3. \A v \in Workers : Past(v)' => v # w /\ Past(v)
  BY <1>0 DEF Past, Appending
<1>4. \A d \in Digests : CidTaken(d)' <=> CidTaken(d)
  BY <1>0 DEF CidTaken
<1>5. FlockInv'
  BY <1>0, <1>2 DEF FlockInv
<1>6. RegisterInv'
  <2>1. CASE CheckNew(w)
    <3>1. ~Leaving(arg[w])
      BY <2>1
         DEF CheckNew, SafetyInv, DurableBeforeNetwork, Leaving, Started, NoRecord, IntentState
    <3>2. QED
      BY <2>1, <3>1, <1>0, <1>1, <1>2, <1>4 DEF CheckNew, Goto, RegisterInv, Registering
  <2>2. CASE AppendValidate(w) /\ todo[w] \in Registering
    BY <2>2, <1>0, <1>1, <1>2, <1>4
       DEF AppendValidate, Goto, SafetyInv, RegisterInv, Registering, Registers, Appending
  <2>3. CASE SyncIntentRecorded(w)
    BY <2>3, <1>0, <1>1, <1>2, <1>4
       DEF SyncIntentRecorded, Goto, SafetyInv, RegisterInv, Registering, Registers, Appending
  <2>4. QED
    BY <2>1, <2>2, <2>3
<1>7. PastInv'
  BY <1>0, <1>3 DEF SafetyInv, PastInv
<1>8. MutateInv'
  BY <1>0 DEF SafetyInv, MutateInv
<1>9. UniqueLeaving'
  BY <1>1 DEF SafetyInv, UniqueLeaving
<1>10. DurableBeforeNetwork' /\ AtMostOnceSubmission'
  BY <1>0, <1>1 DEF SafetyInv, DurableBeforeNetwork, AtMostOnceSubmission, Leaving
<1>11. QED
  BY <1>0, <1>5, <1>6, <1>7, <1>8, <1>9, <1>10 DEF SafetyInv

\* The write of a line: a registering thread writes after whole lines and
\* under the flock; an outcome is written over a started intent.
LEMMA WriteStep ==
    ASSUME TypeInv, SafetyInv, NEW w \in Workers, AppendWrite(w)
    PROVE  SafetyInv'
<1> USE DEF TypeInv, TypeOK
<1> DEFINE d == arg[w]
<1>0. /\ UNCHANGED <<durable, calls, flock, budget, arg, todo>>
      /\ pc' = [pc EXCEPT ![w] = "sync"]
      /\ latest' = latest \/ latest' = [latest EXCEPT ![d] = todo[w]]
      /\ tail = "clean" => latest' = [latest EXCEPT ![d] = todo[w]]
      /\ tail' = "clean"
      /\ pc' \in [Workers -> PC]
      /\ Appending(w) /\ d \in Digests /\ latest' \in [Digests -> Records]
      /\ pc[w] = "write"
  BY DEF AppendWrite, Goto, locks, exchange, Appending, PC
<1>1. \A e \in Digests : Leaving(e)' <=> Leaving(e)
  BY <1>0 DEF Leaving
<1>2. \A v \in Workers : (Registers(v)' <=> Registers(v)) /\ (Past(v)' <=> Past(v))
  BY <1>0 DEF Registers, Past, Appending
<1>3. \A e \in Digests : latest[e] \in Started => latest'[e] \in Started
  <2>1. CASE todo[w] = "INTENT_RECORDED"
    BY <2>1, <1>0
       DEF SafetyInv, RegisterInv, Registers, Registering, Started, NoRecord, IntentState
  <2>2. CASE todo[w] # "INTENT_RECORDED"
    BY <2>2, <1>0 DEF TodoOK, AppendableState, Appending, Started, IntentState
  <2>3. QED
    BY <2>1, <2>2
<1>4. FlockInv'
  BY <1>0, <1>2 DEF SafetyInv, FlockInv
<1>5. RegisterInv'
  <2> SUFFICES ASSUME NEW v \in Workers, Registers(v)
               PROVE  /\ ~Leaving(arg[v])'
                      /\ ~CidTaken(arg[v])'
                      /\ todo[v] = "INTENT_RECORDED" /\ pc'[v] # "sync" => latest'[arg[v]] = NoRecord
                      /\ todo[v] = "SUBMISSION_STARTED" /\ pc'[v] = "sync" => latest'[arg[v]] \in Started
    BY <1>0, <1>2 DEF RegisterInv
  <2>1. ~Leaving(arg[v])'
    BY <1>0, <1>1 DEF SafetyInv, RegisterInv
  <2>2. CASE v = w
    <3>1. ~CidTaken(arg[v])'
      BY <2>2, <1>0 DEF SafetyInv, RegisterInv, CidTaken
    <3>2. QED
      BY <2>1, <2>2, <3>1, <1>0
         DEF SafetyInv, RegisterInv, Registers, Registering, Started, IntentState
  <2>3. CASE v # w
    <3>1. ~Registers(w)
      BY <2>3 DEF SafetyInv, FlockInv
    <3>2. latest[d] \in Started
      BY <3>1, <1>0 DEF SafetyInv, PastInv, Past, Registers
    <3>3. ~CidTaken(arg[v])'
      BY <3>2, <1>0 DEF SafetyInv, RegisterInv, CidTaken, Started, NoRecord, IntentState
    <3>4. QED
      BY <2>1, <2>3, <3>2, <3>3, <1>0, <1>3
         DEF SafetyInv, RegisterInv, Registers, Registering, Started, NoRecord, IntentState
  <2>4. QED
    BY <2>2, <2>3
<1>6. PastInv'
  BY <1>0, <1>2, <1>3 DEF SafetyInv, PastInv
<1>7. MutateInv'
  BY <1>0 DEF SafetyInv, MutateInv
<1>8. UniqueLeaving'
  BY <1>1 DEF SafetyInv, UniqueLeaving
<1>9. DurableBeforeNetwork' /\ AtMostOnceSubmission'
  BY <1>0, <1>1, <1>3 DEF SafetyInv, DurableBeforeNetwork, AtMostOnceSubmission, Leaving
<1>10. QED
  BY <1>0, <1>4, <1>5, <1>6, <1>7, <1>8, <1>9 DEF SafetyInv

\* The step that makes SUBMISSION_STARTED durable and lets go of the flock.
LEMMA StartedStep ==
    ASSUME TypeInv, SafetyInv, NEW w \in Workers, SyncSubmissionStarted(w)
    PROVE  SafetyInv'
<1> USE DEF TypeInv, TypeOK
<1> DEFINE d == arg[w]
<1>0. /\ UNCHANGED <<latest, tail, calls, budget, arg>>
      /\ durable' = latest /\ flock' = Nobody
      /\ pc' = [pc EXCEPT ![w] = "mutate"] /\ todo' = [todo EXCEPT ![w] = NoRecord]
      /\ pc' \in [Workers -> PC] /\ d \in Digests
      /\ Registers(w) /\ flock = w
      /\ ~Leaving(d) /\ ~CidTaken(d) /\ latest[d] \in Started
  BY DEF SyncSubmissionStarted, Goto, exchange, SafetyInv, FlockInv, RegisterInv,
         Registers, Registering, Appending, PC
<1>1. \A e \in Digests : Leaving(e)' => Leaving(e) \/ e = d
  BY <1>0 DEF Leaving
<1>2. \A v \in Workers : ~Registers(v)' /\ pc'[v] # "check"
  BY <1>0, ThreadsAssumption DEF SafetyInv, FlockInv, Registers, Appending, Registering, NoRecord
<1>3. \A v \in Workers \ {w} : Past(v)' => Past(v)
  BY <1>0 DEF Past, Appending
<1>4. FlockInv' /\ RegisterInv'
  BY <1>2 DEF FlockInv, RegisterInv
<1>5. PastInv'
  BY <1>0, <1>3 DEF SafetyInv, PastInv
<1>6. MutateInv'
  BY <1>0 DEF SafetyInv, MutateInv, Leaving
<1>7. UniqueLeaving'
  <2>1. \A e \in Digests : Leaving(e) => latest[e] # NoRecord
    BY DEF SafetyInv, DurableBeforeNetwork, Leaving, Started, NoRecord, IntentState
  <2>2. QED
    BY <1>0, <1>1, <2>1 DEF SafetyInv, UniqueLeaving, CidTaken
<1>8. DurableBeforeNetwork' /\ AtMostOnceSubmission'
  BY <1>0, <1>1 DEF SafetyInv, DurableBeforeNetwork, AtMostOnceSubmission, Leaving
<1>9. QED
  BY <1>0, <1>4, <1>5, <1>6, <1>7, <1>8 DEF SafetyInv

\* The step that makes an outcome durable and returns it.
LEMMA OutcomeStep ==
    ASSUME TypeInv, SafetyInv, NEW w \in Workers, SyncOutcome(w)
    PROVE  SafetyInv'
<1> USE DEF TypeInv, TypeOK
<1>0. /\ UNCHANGED <<latest, tail, calls, budget, arg>>
      /\ durable' = latest
      /\ pc' = [pc EXCEPT ![w] = "idle"] /\ todo' = [todo EXCEPT ![w] = NoRecord]
      /\ pc' \in [Workers -> PC]
      /\ \A v \in Workers \ {w} : flock = v => flock' = v
  BY DEF SyncOutcome, Return, exchange, PC
<1>1. \A e \in Digests : Leaving(e)' => Leaving(e)
  BY <1>0 DEF Leaving
<1>2. \A v \in Workers : Registers(v)' => v # w /\ Registers(v)
  BY <1>0 DEF Registers, Appending
<1>3. \A v \in Workers : Past(v)' => v # w /\ Past(v)
  BY <1>0 DEF Past, Appending
<1>4. \A e \in Digests : CidTaken(e)' <=> CidTaken(e)
  BY <1>0 DEF CidTaken
<1>5. FlockInv'
  BY <1>0, <1>2 DEF SafetyInv, FlockInv
<1>6. RegisterInv'
  BY <1>0, <1>1, <1>2, <1>4 DEF SafetyInv, RegisterInv
<1>7. PastInv' /\ MutateInv'
  BY <1>0, <1>3 DEF SafetyInv, PastInv, MutateInv
<1>8. UniqueLeaving'
  BY <1>1 DEF SafetyInv, UniqueLeaving
<1>9. DurableBeforeNetwork' /\ AtMostOnceSubmission'
  BY <1>0, <1>1 DEF SafetyInv, DurableBeforeNetwork, AtMostOnceSubmission, Leaving
<1>10. QED
  BY <1>0, <1>5, <1>6, <1>7, <1>8, <1>9 DEF SafetyInv

\* The request itself: MutateInv says it is the intent's first.
LEMMA MutateStep ==
    ASSUME TypeInv, SafetyInv, NEW w \in Workers, Mutate(w)
    PROVE  SafetyInv'
<1> USE DEF TypeInv, TypeOK
<1> DEFINE d == arg[w]
<1>0. /\ UNCHANGED <<latest, durable, tail, flock, budget, arg>>
      /\ pc[w] = "mutate" /\ pc' = [pc EXCEPT ![w] = "await"]
      /\ todo' = [todo EXCEPT ![w] = NoRecord]
      /\ calls' = [calls EXCEPT ![d] = @ + 1]
      /\ pc' \in [Workers -> PC] /\ d \in Digests /\ Leaving(d)
  BY DEF Mutate, Goto, journal, locks, PC, Leaving
<1>1. \A e \in Digests : Leaving(e)' => Leaving(e)
  BY <1>0 DEF Leaving
<1>2. \A v \in Workers : Registers(v)' => v # w /\ Registers(v)
  BY <1>0 DEF Registers, Appending
<1>3. \A v \in Workers : Past(v)' => Past(v)
  BY <1>0 DEF Past, Appending
<1>4. \A e \in Digests : CidTaken(e)' <=> CidTaken(e)
  BY <1>0 DEF CidTaken
<1>5. FlockInv'
  BY <1>0, <1>2 DEF SafetyInv, FlockInv
<1>6. RegisterInv'
  BY <1>0, <1>1, <1>2, <1>4 DEF SafetyInv, RegisterInv
<1>7. PastInv' /\ MutateInv'
  BY <1>0, <1>3 DEF SafetyInv, PastInv, MutateInv
<1>8. UniqueLeaving'
  BY <1>1 DEF SafetyInv, UniqueLeaving
<1>9. AtMostOnceSubmission'
  BY <1>0 DEF SafetyInv, MutateInv, AtMostOnceSubmission
<1>10. DurableBeforeNetwork'
  BY <1>0, <1>1 DEF SafetyInv, DurableBeforeNetwork, Leaving
<1>11. QED
  BY <1>0, <1>5, <1>6, <1>7, <1>8, <1>9, <1>10 DEF SafetyInv

\* A crash of the only process, or of the host: what has left is durable.
LEMMA CrashStep ==
    ASSUME TypeInv, SafetyInv, Killed(Workers), UNCHANGED exchange, Spend("crash"),
           \A d \in Digests : latest'[d] \in {latest[d], durable[d]},
           \A d \in Digests : durable'[d] \in {latest[d], durable[d]}
    PROVE  SafetyInv'
<1> USE DEF TypeInv, TypeOK
<1>0. calls' = calls /\ budget'["short_write"] = 0 /\ \A w \in Workers : pc'[w] = "idle"
  BY DEF Killed, exchange, Spend, SafetyInv, Faults
<1>1. \A d \in Digests : Leaving(d)' => Leaving(d)
  BY <1>0 DEF Leaving
<1>2. FlockInv' /\ RegisterInv' /\ PastInv' /\ MutateInv'
  BY <1>0 DEF FlockInv, RegisterInv, PastInv, MutateInv, Registers, Past, Appending
<1>3. UniqueLeaving' /\ AtMostOnceSubmission'
  BY <1>0, <1>1 DEF SafetyInv, UniqueLeaving, AtMostOnceSubmission
<1>4. DurableBeforeNetwork'
  BY <1>0, <1>1 DEF SafetyInv, DurableBeforeNetwork, Leaving
<1>5. QED
  BY <1>0, <1>2, <1>3, <1>4 DEF SafetyInv

\* Every step preserves the inductive invariant.
LEMMA NextSafety ==
    ASSUME SingleProcess, TypeInv, SafetyInv, [Next]_vars
    PROVE  SafetyInv'
<1> USE DEF TypeInv
<1>0. budget["short_write"] = 0 /\ budget \in [Faults -> Nat]
  BY DEF SafetyInv, TypeOK
<1>1. ASSUME NEW w \in Workers, NEW d \in Digests, Call(w, d) PROVE SafetyInv'
  <2>1. /\ UNCHANGED <<latest, durable, tail, calls, flock, todo>>
        /\ budget'["short_write"] = 0
        /\ arg' = [arg EXCEPT ![w] = d]
        /\ \E l \in {"idle", "submit_lock", "reconcile_lock"} : pc' = [pc EXCEPT ![w] = l]
    BY <1>0, <1>1 DEF Call, SubmitRefused, SubmitCalled, ReconcileRefused, ReconcileCalled,
       Spend, journal, locks, exchange, Faults, TypeOK
  <2>2. QED
    BY <2>1, QuietStep DEF TypeOK, PC
<1>2. ASSUME NEW d \in Digests, Exchange(d) PROVE SafetyInv'
  <2>1. /\ UNCHANGED <<latest, durable, tail, calls, flock, pc, arg, todo>>
        /\ budget'["short_write"] = 0
    BY <1>0, <1>2 DEF Exchange, ExchangePlaces, ExchangeRefuses, ForeignOrder, Spend, journal,
       locks, threads, Faults
  <2>2. QED
    BY <2>1 DEF SafetyInv, FlockInv, RegisterInv, PastInv, MutateInv, DurableBeforeNetwork,
       UniqueLeaving, AtMostOnceSubmission, Leaving, Registers, Past, Appending, CidTaken
<1>3. ASSUME NEW c \in Coordinators, ProcessCrash(c) PROVE SafetyInv'
  <2>1. {w \in Workers : ProcessOf[CoordinatorOf[w]] = ProcessOf[c]} = Workers
    BY ThreadsAssumption DEF SingleProcess
  <2>2. QED
    BY <1>3, <2>1, CrashStep DEF ProcessCrash
<1>4. ASSUME PowerFailure PROVE SafetyInv'
  BY <1>4, CrashStep DEF PowerFailure, TypeOK
<1>5. CASE UNCHANGED vars
  BY <1>5 DEF vars, SafetyInv, FlockInv, RegisterInv, PastInv, MutateInv, DurableBeforeNetwork,
     UniqueLeaving, AtMostOnceSubmission, Leaving, Registers, Past, Appending, CidTaken
<1>6. ASSUME NEW w \in Workers, Fault(w) PROVE SafetyInv'
  <2>1. CASE FlockFails(w)
    BY <1>0, <2>1, ReturnStep DEF FlockFails, Spend, journal, exchange, SubmissionOutcome, Faults
  <2>2. CASE AppendWriteFails(w)
    BY <1>0, <2>2, ReturnStep
       DEF AppendWriteFails, AppendRaises, Spend, journal, exchange, SubmissionOutcome, Faults
  <2>3. CASE AppendSyncFails(w)
    BY <1>0, <2>3, ReturnStep
       DEF AppendSyncFails, AppendRaises, Spend, journal, exchange, SubmissionOutcome, Faults
  <2>4. CASE AppendShortWrite(w)
    BY <1>0, <2>4 DEF AppendShortWrite, Spend
  <2>5. CASE ReconcileLookupFails(w)
    <3>1. latest[arg[w]] \in Started
      BY <2>5 DEF ReconcileLookupFails, SafetyInv, PastInv, Past
    <3>2. Goto(w, "validate", "RECONCILE_REQUIRED") /\ budget'["short_write"] = 0
          /\ UNCHANGED <<latest, durable, tail, calls, flock>>
      BY <1>0, <2>5 DEF ReconcileLookupFails, Spend, journal, locks, exchange, Faults
    <3>3. QED
      BY <3>1, <3>2, PastStep DEF PC, Records, IntentState, Registering
  <2>6. CASE ReadRaises(w)
    BY <1>0, <2>6, ReturnStep DEF ReadRaises, Spend, journal, exchange, Faults
  <2>7. QED
    BY <1>6, <2>1, <2>2, <2>3, <2>4, <2>5, <2>6 DEF Fault
<1>7. ASSUME NEW w \in Workers, Step(w) PROVE SafetyInv'
  <2>1. CASE AcquireDigestLock(w) \/ AcquireFlock(w)
    <3>1. /\ UNCHANGED <<latest, durable, tail, calls, arg, budget>>
          /\ todo' = [todo EXCEPT ![w] = NoRecord]
          /\ \/ (\E l \in {"flock", "read"} : pc' = [pc EXCEPT ![w] = l]) /\ flock' = flock
             \/ pc' = [pc EXCEPT ![w] = "check"] /\ flock = Nobody /\ flock' = w
      BY <2>1 DEF AcquireDigestLock, AcquireFlock, Goto, journal, exchange
    <3>2. QED
      BY <1>0, <3>1, QuietStep, ThreadsAssumption DEF TypeOK, PC, Records
  <2>2. CASE CheckCollision(w)
    BY <1>0, <2>2, ReturnStep DEF CheckCollision, journal, exchange, SubmissionOutcome
  <2>3. CASE CheckExisting(w)
    <3>1. TypedResult(latest[arg[w]]) \in SubmissionOutcome
      BY <2>3, ResultTypes DEF CheckExisting, TypeOK, Records
    <3>2. QED
      BY <1>0, <2>3, <3>1, ReturnStep DEF CheckExisting, journal, exchange
  <2>4. CASE CheckNew(w) \/ SyncIntentRecorded(w)
    BY <2>4, RegisterStep
  <2>5. CASE AppendValidate(w)
    <3>1. CASE todo[w] \in Registering
      BY <2>5, <3>1, RegisterStep
    <3>2. CASE todo[w] \notin Registering
      <4>1. latest[arg[w]] \in Started
        BY <2>5, <3>2 DEF AppendValidate, SafetyInv, PastInv, Past, Appending
      <4>2. Goto(w, "write", todo[w]) /\ UNCHANGED <<latest, durable, tail, calls, flock, budget>>
        BY <2>5 DEF AppendValidate, journal, exchange
      <4>3. QED
        BY <1>0, <3>2, <4>1, <4>2, PastStep DEF PC, TypeOK
    <3>3. QED
      BY <3>1, <3>2
  <2>6. CASE AppendInvalid(w)
    BY <1>0, <2>6, ReturnStep
       DEF AppendInvalid, AppendRaises, journal, exchange, SubmissionOutcome
  <2>7. CASE AppendWrite(w)
    BY <2>7, WriteStep
  <2>8. CASE SyncSubmissionStarted(w)
    BY <2>8, StartedStep
  <2>9. CASE SyncOutcome(w)
    BY <2>9, OutcomeStep
  <2>10. CASE Mutate(w)
    BY <2>10, MutateStep
  <2>11. CASE MutationAnswer(w)
    <3>1. latest[arg[w]] \in Started
      BY <2>11 DEF MutationAnswer, SafetyInv, PastInv, Past
    <3>2. UNCHANGED <<latest, durable, tail, calls, flock, budget>>
      BY <2>11 DEF MutationAnswer, journal, locks, exchange
    <3>3. PICK s \in {"ACKNOWLEDGED", "EXPLICITLY_REJECTED", "RECONCILE_REQUIRED"} :
            Goto(w, "validate", s)
      BY <2>11 DEF MutationAnswer
    <3>4. QED
      BY <1>0, <3>1, <3>2, <3>3, PastStep DEF PC, Records, IntentState, Registering
  <2>12. CASE ReconcileNothing(w)
    <3>1. PICK o \in SubmissionOutcome : Return(w, o)
      BY <2>12, ResultTypes DEF ReconcileNothing, TypeOK, Records, SubmissionOutcome
    <3>2. QED
      BY <1>0, <2>12, <3>1, ReturnStep DEF ReconcileNothing, journal, exchange
  <2>13. CASE ReconcileRead(w)
    <3>1. latest[arg[w]] \in Started
      BY <2>13 DEF ReconcileRead, Ambiguous, Started, IntentState
    <3>2. Goto(w, "lookup", NoRecord) /\ UNCHANGED <<latest, durable, tail, calls, flock, budget>>
      BY <2>13 DEF ReconcileRead, journal, locks, exchange
    <3>3. "lookup" \in PC /\ NoRecord \in Records /\ budget'["short_write"] = 0
      BY <1>0, <3>2 DEF PC, Records
    <3>4. QED
      BY <3>1, <3>2, <3>3, PastStep
  <2>14. CASE ReconcileLookup(w)
    <3>1. latest[arg[w]] \in Started
      BY <2>14 DEF ReconcileLookup, SafetyInv, PastInv, Past
    <3>2. UNCHANGED <<latest, durable, tail, calls, flock, budget>>
      BY <2>14 DEF ReconcileLookup, journal, locks, exchange
    <3>3. PICK s \in {"COLLISION", "RECONCILED_FOUND", "RECONCILED_NOT_FOUND_PENDING"} :
            Goto(w, "validate", s)
      BY <2>14 DEF ReconcileLookup, LookupVerdict
    <3>4. QED
      BY <1>0, <3>1, <3>2, <3>3, PastStep DEF PC, Records, IntentState, Registering
  <2>15. QED
    BY <1>7, <2>1, <2>2, <2>3, <2>4, <2>5, <2>6, <2>7, <2>8, <2>9, <2>10, <2>11, <2>12,
       <2>13, <2>14 DEF Step
<1>8. QED
  BY <1>1, <1>2, <1>3, <1>4, <1>5, <1>6, <1>7 DEF Next

\* The inductive invariant holds in every reachable state.
THEOREM SafetyInvariant ==
    ASSUME SingleProcess, MaxShortWrites = 0
    PROVE  Spec => [](TypeInv /\ SafetyInv)
<1>1. Init => TypeInv /\ SafetyInv
  BY InitTypeInv, InitSafety
<1>2. TypeInv /\ SafetyInv /\ [Next]_vars => (TypeInv /\ SafetyInv)'
  BY NextTypeInv, NextSafety
<1>3. QED
  BY <1>1, <1>2, PTL DEF Spec

\* Over any number of threads, coordinators, retries, I/O faults, crashes and
\* power failures, an intent is sent to the exchange at most once.
THEOREM AtMostOnce ==
    ASSUME SingleProcess, MaxShortWrites = 0
    PROVE  Spec => []AtMostOnceSubmission
<1>1. SafetyInv => AtMostOnceSubmission
  BY DEF SafetyInv
<1>2. QED
  BY <1>1, SafetyInvariant, PTL

\* I3: no request leaves before SUBMISSION_STARTED is durable.
THEOREM DurableFirst ==
    ASSUME SingleProcess, MaxShortWrites = 0
    PROVE  Spec => []DurableBeforeNetwork
<1>1. SafetyInv => DurableBeforeNetwork
  BY DEF SafetyInv
<1>2. QED
  BY <1>1, SafetyInvariant, PTL

\* I7: two intents with the same client order id never both leave.
THEOREM NoIdShared ==
    ASSUME SingleProcess, MaxShortWrites = 0
    PROVE  Spec => []OneIntentPerClientOrderId
<1>1. SafetyInv => OneIntentPerClientOrderId
  BY DEF SafetyInv, UniqueLeaving, Leaving, OneIntentPerClientOrderId
<1>2. QED
  BY <1>1, SafetyInvariant, PTL
=============================================================================
