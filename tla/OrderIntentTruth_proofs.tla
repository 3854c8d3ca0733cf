------------------------ MODULE OrderIntentTruth_proofs ------------------------
(***************************************************************************)
(* What the journal and the callers of OrderIntentProtocol are told is     *)
(* true of the exchange, for any number of coordinators in one process;    *)
(* and, with the one coordinator per journal that ADR-0020 asks for, the   *)
(* journal moves only along _ALLOWED_TRANSITIONS and the protocol          *)
(* implements SubmitOnce.                                                  *)
(***************************************************************************)
EXTENDS OrderIntentProtocol_proofs

\* The states that do not speak of a request that has been sent.
Unsent == {NoRecord, "INTENT_RECORDED", "SUBMISSION_STARTED"}

\* A record of d in state s is true of the exchange. Every state that an
\* outcome or a reconciliation writes says that the request was sent.
TrueOf(s, d) ==
    /\ s \notin Unsent => calls[d] = 1
    /\ s \in {"ACKNOWLEDGED", "RECONCILED_FOUND"} => placed[d] = 1
    /\ s = "EXPLICITLY_REJECTED" => placed[d] = 0 /\ refused[d] = 1
    /\ s = "COLLISION" => ClientOrderId[d] \in foreign
    /\ s # "CANCELLED"

\* So is what a call answered about d.
AnswerTrueOf(o, d) ==
    /\ o \in {"ACKNOWLEDGED", "RECONCILED_FOUND"} => calls[d] = 1 /\ placed[d] = 1
    /\ o = "EXPLICITLY_REJECTED" => calls[d] = 1 /\ placed[d] = 0 /\ refused[d] = 1

\* The exchange decides no more requests than were sent.
DecidedInv == \A d \in Digests : placed[d] + refused[d] <= calls[d]

\* The file is true as every reader sees it, and as a power failure leaves it.
RecordsInv == \A d \in Digests : TrueOf(latest[d], d) /\ TrueOf(durable[d], d)

\* So is what a thread is about to write, and it waits for an answer or looks
\* one up only for an intent that was sent.
PendingInv ==
    \A w \in Workers :
        /\ Appending(w) => TrueOf(todo[w], arg[w])
        /\ pc[w] \in {"await", "lookup"} => calls[arg[w]] = 1

AnswersInv == \A w \in Workers : AnswerTrueOf(ret[w], arg[w])

TruthInv == DecidedInv /\ RecordsInv /\ PendingInv /\ AnswersInv

\* Nothing is recorded, sent or answered at the start.
LEMMA InitTruth ==
    ASSUME Init PROVE TruthInv
BY DEF Init, TruthInv, DecidedInv, RecordsInv, PendingInv, AnswersInv, TrueOf, AnswerTrueOf,
   Unsent, NoRecord, NoResult, Appending

\* A step of one thread that leaves the exchange alone: it is enough that what
\* it writes, takes up and answers is true.
LEMMA ThreadStep ==
    ASSUME TypeInv, TypeInv', TruthInv, NEW w \in Workers, UNCHANGED exchange,
           \A v \in Workers \ {w} :
               pc'[v] = pc[v] /\ todo'[v] = todo[v] /\ arg'[v] = arg[v] /\ ret'[v] = ret[v],
           \A d \in Digests : TrueOf(latest'[d], d) /\ TrueOf(durable'[d], d),
           pc'[w] \in {"validate", "write", "sync"} => TrueOf(todo'[w], arg'[w]),
           pc'[w] \in {"await", "lookup"} => calls[arg'[w]] = 1,
           AnswerTrueOf(ret'[w], arg'[w])
    PROVE  TruthInv'
<1> USE DEF TypeInv, TypeOK
<1>0. UNCHANGED <<calls, placed, refused, foreign>>
  BY DEF exchange
<1>1. DecidedInv'
  BY <1>0 DEF TruthInv, DecidedInv
<1>2. RecordsInv'
  BY <1>0 DEF RecordsInv, TrueOf
<1>3. PendingInv'
  BY <1>0 DEF TruthInv, PendingInv, TrueOf, Appending
<1>4. AnswersInv'
  BY <1>0 DEF TruthInv, AnswersInv, AnswerTrueOf
<1>5. QED
  BY <1>1, <1>2, <1>3, <1>4 DEF TruthInv

\* A call returns, or raises, with a true answer; the file may have been synced.
LEMMA ReturnTruth ==
    ASSUME TypeInv, TypeInv', TruthInv, NEW w \in Workers, NEW o, Return(w, o),
           UNCHANGED exchange, latest' = latest, durable' = durable \/ durable' = latest,
           AnswerTrueOf(o, arg[w])
    PROVE  TruthInv'
<1> USE DEF TypeInv, TypeOK
<1>1. /\ pc'[w] = "idle" /\ ret'[w] = o /\ arg'[w] = arg[w]
      /\ \A v \in Workers \ {w} :
            pc'[v] = pc[v] /\ todo'[v] = todo[v] /\ arg'[v] = arg[v] /\ ret'[v] = ret[v]
  BY DEF Return
<1>2. \A d \in Digests : TrueOf(latest'[d], d) /\ TrueOf(durable'[d], d)
  BY DEF TruthInv, RecordsInv
<1>3. QED
  BY <1>1, <1>2, ThreadStep

\* A call goes on, with something true to write or a sent intent to wait for.
LEMMA GotoTruth ==
    ASSUME TypeInv, TypeInv', TruthInv, NEW w \in Workers, NEW l, NEW s, Goto(w, l, s),
           UNCHANGED exchange, latest' = latest, durable' = durable \/ durable' = latest,
           l \in {"validate", "write", "sync"} => TrueOf(s, arg[w]),
           l \in {"await", "lookup"} => calls[arg[w]] = 1
    PROVE  TruthInv'
<1> USE DEF TypeInv, TypeOK
<1>1. /\ pc'[w] = l /\ todo'[w] = s /\ arg'[w] = arg[w] /\ ret'[w] = ret[w]
      /\ \A v \in Workers \ {w} :
            pc'[v] = pc[v] /\ todo'[v] = todo[v] /\ arg'[v] = arg[v] /\ ret'[v] = ret[v]
  BY DEF Goto
<1>2. \A d \in Digests : TrueOf(latest'[d], d) /\ TrueOf(durable'[d], d)
  BY DEF TruthInv, RecordsInv
<1>3. AnswerTrueOf(ret'[w], arg'[w])
  BY <1>1 DEF TruthInv, AnswersInv
<1>4. QED
  BY <1>1, <1>2, <1>3, ThreadStep

\* What the exchange does later does not make a true record false: it decides
\* the one request once, and a third party's order stays.
LEMMA ExchangeTruth ==
    ASSUME TypeInv, TypeInv', SafetyInv, TruthInv, NEW d \in Digests, Exchange(d)
    PROVE  TruthInv'
<1> USE DEF TypeInv, TypeOK
<1>0. /\ UNCHANGED <<calls, latest, durable, pc, todo, arg, ret>>
      /\ \/ UNCHANGED <<placed, refused, foreign>>
         \/ /\ placed[d] + refused[d] < calls[d]
            /\ foreign' = foreign
            /\ \/ placed' = [placed EXCEPT ![d] = @ + 1] /\ refused' = refused
               \/ refused' = [refused EXCEPT ![d] = @ + 1] /\ placed' = placed
         \/ UNCHANGED <<placed, refused>> /\ foreign \subseteq foreign'
  BY DEF Exchange, ExchangePlaces, ExchangeRefuses, ForeignOrder, InFlight, journal, locks, threads
<1>1. DecidedInv'
  BY <1>0 DEF TruthInv, DecidedInv
<1>2. calls[d] <= 1 /\ placed[d] \in Nat /\ refused[d] \in Nat /\ calls[d] \in Nat
  BY DEF SafetyInv, AtMostOnceSubmission
<1>5. RecordsInv'
  <2> SUFFICES ASSUME NEW e \in Digests PROVE TrueOf(latest[e], e)' /\ TrueOf(durable[e], e)'
    BY DEF RecordsInv
  <2>1. TrueOf(latest[e], e) /\ TrueOf(durable[e], e)
    BY DEF TruthInv, RecordsInv
  <2>2. QED
    BY <1>0, <1>2, <2>1 DEF TrueOf
<1>6. PendingInv'
  <2> SUFFICES ASSUME NEW w \in Workers
               PROVE  /\ Appending(w)' => TrueOf(todo[w], arg[w])'
                      /\ pc'[w] \in {"await", "lookup"} => calls'[arg'[w]] = 1
    BY DEF PendingInv
  <2>1. /\ Appending(w) => TrueOf(todo[w], arg[w])
        /\ pc[w] \in {"await", "lookup"} => calls[arg[w]] = 1
        /\ arg[w] \in Digests
    BY DEF TruthInv, PendingInv
  <2>2. Appending(w)' = Appending(w)
    BY <1>0 DEF Appending
  <2>3. QED
    BY <1>0, <1>2, <2>1, <2>2 DEF TrueOf
<1>7. AnswersInv'
  <2> SUFFICES ASSUME NEW w \in Workers PROVE AnswerTrueOf(ret[w], arg[w])'
    BY DEF AnswersInv
  <2>1. AnswerTrueOf(ret[w], arg[w]) /\ arg[w] \in Digests
    BY DEF TruthInv, AnswersInv
  <2>2. QED
    BY <1>0, <1>2, <2>1 DEF AnswerTrueOf
<1>8. QED
  BY <1>1, <1>5, <1>6, <1>7 DEF TruthInv

\* The first request for an intent: no record speaks of one yet.
LEMMA MutateTruth ==
    ASSUME TypeInv, TypeInv', SafetyInv, TruthInv, NEW w \in Workers, Mutate(w)
    PROVE  TruthInv'
<1> USE DEF TypeInv, TypeOK
<1>a. arg[w] \in Digests /\ calls[arg[w]] = 0
  BY DEF Mutate, SafetyInv, MutateInv
<1>0. /\ UNCHANGED <<placed, refused, foreign, latest, durable, arg, ret>>
      /\ calls[arg[w]] = 0 /\ calls' = [calls EXCEPT ![arg[w]] = 1]
      /\ pc' = [pc EXCEPT ![w] = "await"] /\ todo' = [todo EXCEPT ![w] = NoRecord]
      /\ arg[w] \in Digests
  BY <1>a DEF Mutate, Goto, journal
<1>1. DecidedInv'
  BY <1>0 DEF TruthInv, DecidedInv
<1>2. RecordsInv'
  BY <1>0 DEF TruthInv, RecordsInv, TrueOf
<1>3. PendingInv'
  BY <1>0 DEF TruthInv, PendingInv, TrueOf, Appending
<1>4. AnswersInv'
  BY <1>0 DEF TruthInv, AnswersInv, AnswerTrueOf
<1>5. QED
  BY <1>1, <1>2, <1>3, <1>4 DEF TruthInv

\* Threads are killed and records that were not synced may be lost.
LEMMA CrashTruth ==
    ASSUME TypeInv, TypeInv', TruthInv, NEW W \in SUBSET Workers, Killed(W), UNCHANGED exchange,
           \A d \in Digests : latest'[d] \in {latest[d], durable[d]},
           \A d \in Digests : durable'[d] \in {latest[d], durable[d]}
    PROVE  TruthInv'
<1> USE DEF TypeInv, TypeOK
<1>0. /\ UNCHANGED <<calls, placed, refused, foreign, arg>>
      /\ \A w \in Workers : pc'[w] = "idle" \/ (pc'[w] = pc[w] /\ todo'[w] = todo[w])
      /\ \A w \in Workers : ret'[w] = NoResult \/ ret'[w] = ret[w]
  BY DEF Killed, exchange
<1>1. DecidedInv'
  BY <1>0 DEF TruthInv, DecidedInv
<1>2. RecordsInv'
  BY <1>0 DEF TruthInv, RecordsInv, TrueOf
<1>3. PendingInv'
  BY <1>0 DEF TruthInv, PendingInv, TrueOf, Appending
<1>4. AnswersInv'
  BY <1>0 DEF TruthInv, AnswersInv, AnswerTrueOf, NoResult
<1>5. QED
  BY <1>1, <1>2, <1>3, <1>4 DEF TruthInv

\* What _typed_result_from_record answers for a true record is true.
LEMMA TypedTruth ==
    ASSUME NEW s \in IntentState, NEW d \in Digests, TrueOf(s, d)
    PROVE  AnswerTrueOf(TypedResult(s), d)
BY DEF IntentState, TrueOf, AnswerTrueOf, TypedResult, Unsent, NoRecord

\* What reconcile concludes from its lookup is true: with verify_match an order
\* counts as ours only if we placed it, and no other intent shares the id.
LEMMA VerdictTruth ==
    ASSUME VerifyMatch, TypeInv, SafetyInv, TruthInv, NEW d \in Digests, calls[d] = 1
    PROVE  TrueOf(LookupVerdict(d), d)
<1> USE DEF TypeInv, TypeOK
<1>1. \A e \in Digests : placed[e] > 0 => calls[e] > 0
  BY DEF TruthInv, DecidedInv
<1>2. placed[d] <= 1
  BY DEF TruthInv, DecidedInv
<1>3. \A e \in Digests \ {d} : ClientOrderId[e] = ClientOrderId[d] => ~(placed[e] > 0)
  BY <1>1 DEF SafetyInv, UniqueLeaving, Leaving
<1>4. OtherMatch(d) => ClientOrderId[d] \in foreign
  BY <1>3 DEF OtherMatch
<1>5. LookupVerdict(d) \in {"COLLISION", "RECONCILED_FOUND", "RECONCILED_NOT_FOUND_PENDING"}
  BY DEF LookupVerdict
<1>6. LookupVerdict(d) = "COLLISION" => OtherMatch(d) \/ placed[d] > 1
  BY DEF LookupVerdict, ManyMatches
<1>7. LookupVerdict(d) = "RECONCILED_FOUND" => placed[d] > 0
  BY DEF LookupVerdict, OwnMatch
<1>8. QED
  BY <1>2, <1>4, <1>5, <1>6, <1>7 DEF TrueOf

\* Every step keeps journal and answers true.
LEMMA NextTruth ==
    ASSUME VerifyMatch, TypeInv, TypeInv', SafetyInv, TruthInv, [Next]_vars
    PROVE  TruthInv'
<1> USE DEF TypeInv
<1>1. ASSUME NEW w \in Workers, NEW d \in Digests, Call(w, d) PROVE TruthInv'
  <2>1. /\ UNCHANGED <<latest, durable, todo, exchange>>
        /\ arg' = [arg EXCEPT ![w] = d]
        /\ \E l \in {"idle", "submit_lock", "reconcile_lock"} : pc' = [pc EXCEPT ![w] = l]
        /\ \E o \in {"AUTHORIZATION_DENIED", "UNSUPPORTED_ADAPTER_CAPABILITY", NoResult} :
              ret' = [ret EXCEPT ![w] = o]
    BY <1>1 DEF Call, SubmitRefused, SubmitCalled, ReconcileRefused, ReconcileCalled, journal, TypeOK
  <2>2. \A e \in Digests : TrueOf(latest'[e], e) /\ TrueOf(durable'[e], e)
    BY <2>1 DEF TruthInv, RecordsInv
  <2>3. /\ pc'[w] \in {"idle", "submit_lock", "reconcile_lock"}
        /\ AnswerTrueOf(ret'[w], arg'[w])
    BY <2>1 DEF AnswerTrueOf, NoResult, TypeOK
  <2>4. \A v \in Workers \ {w} :
            pc'[v] = pc[v] /\ todo'[v] = todo[v] /\ arg'[v] = arg[v] /\ ret'[v] = ret[v]
    BY <2>1 DEF TypeOK
  <2>5. QED
    BY <2>1, <2>2, <2>3, <2>4, ThreadStep
<1>2. ASSUME NEW d \in Digests, Exchange(d) PROVE TruthInv'
  BY <1>2, ExchangeTruth
<1>3. ASSUME NEW c \in Coordinators, ProcessCrash(c) PROVE TruthInv'
  <2>1. PICK W \in SUBSET Workers : Killed(W)
    BY <1>3 DEF ProcessCrash
  <2>2. QED
    BY <1>3, <2>1, CrashTruth DEF ProcessCrash
<1>4. ASSUME PowerFailure PROVE TruthInv'
  BY <1>4, CrashTruth DEF PowerFailure, TypeOK
<1>5. CASE UNCHANGED vars
  BY <1>5 DEF vars, TruthInv, DecidedInv, RecordsInv, PendingInv, AnswersInv, TrueOf,
     AnswerTrueOf, Appending
<1>6. ASSUME NEW w \in Workers, Fault(w) PROVE TruthInv'
  <2>1. CASE ReconcileLookupFails(w)
    <3>1. TrueOf("RECONCILE_REQUIRED", arg[w])
      BY <2>1 DEF ReconcileLookupFails, TruthInv, PendingInv, TrueOf
    <3>2. QED
      BY <2>1, <3>1, GotoTruth DEF ReconcileLookupFails, journal
  <2>2. CASE ~ReconcileLookupFails(w)
    <3>1. /\ UNCHANGED <<latest, durable, exchange>>
          /\ \E o \in {"LOCK_UNAVAILABLE", "JOURNAL_FAILURE", Raised} : Return(w, o)
      BY <1>6, <2>2 DEF Fault, FlockFails, AppendWriteFails, AppendShortWrite, AppendSyncFails,
         ReadRaises, AppendRaises, journal
    <3>2. \A o \in {"LOCK_UNAVAILABLE", "JOURNAL_FAILURE", Raised} : AnswerTrueOf(o, arg[w])
      BY DEF AnswerTrueOf, Raised
    <3>3. QED
      BY <3>1, <3>2, ReturnTruth
  <2>3. QED
    BY <2>1, <2>2
<1>7. ASSUME NEW w \in Workers, Step(w) PROVE TruthInv'
  <2>0. /\ arg[w] \in Digests /\ latest[arg[w]] \in Records
        /\ TrueOf(latest[arg[w]], arg[w])
    BY DEF TypeOK, TruthInv, RecordsInv
  <2>1. CASE AcquireDigestLock(w) \/ AcquireFlock(w)
    <3>1. /\ UNCHANGED <<latest, durable, exchange>>
          /\ \E l \in {"flock", "read", "check"} : Goto(w, l, NoRecord)
      BY <2>1 DEF AcquireDigestLock, AcquireFlock, journal
    <3>2. QED
      BY <3>1, GotoTruth
  <2>2. CASE CheckCollision(w) \/ AppendInvalid(w)
    <3>1. /\ UNCHANGED <<latest, durable, exchange>>
          /\ \E o \in {"IDENTITY_COLLISION", "JOURNAL_FAILURE", Raised} : Return(w, o)
      BY <2>2 DEF CheckCollision, AppendInvalid, AppendRaises, journal
    <3>2. \A o \in {"IDENTITY_COLLISION", "JOURNAL_FAILURE", Raised} : AnswerTrueOf(o, arg[w])
      BY DEF AnswerTrueOf, Raised
    <3>3. QED
      BY <3>1, <3>2, ReturnTruth
  <2>3. CASE CheckExisting(w) \/ ReconcileNothing(w)
    <3>1. /\ UNCHANGED <<latest, durable, exchange>>
          /\ \/ Return(w, "JOURNAL_FAILURE")
             \/ latest[arg[w]] # NoRecord /\ Return(w, TypedResult(latest[arg[w]]))
      BY <2>3 DEF CheckExisting, ReconcileNothing, journal
    <3>2. AnswerTrueOf("JOURNAL_FAILURE", arg[w])
      BY DEF AnswerTrueOf
    <3>3. latest[arg[w]] # NoRecord => AnswerTrueOf(TypedResult(latest[arg[w]]), arg[w])
      BY <2>0, TypedTruth DEF Records
    <3>4. QED
      BY <3>1, <3>2, <3>3, ReturnTruth
  <2>4. CASE CheckNew(w) \/ SyncIntentRecorded(w)
    <3>1. /\ latest' = latest /\ (durable' = durable \/ durable' = latest) /\ UNCHANGED exchange
          /\ \E s \in {"INTENT_RECORDED", "SUBMISSION_STARTED"} : Goto(w, "validate", s)
      BY <2>4 DEF CheckNew, SyncIntentRecorded, journal
    <3>2. \A s \in {"INTENT_RECORDED", "SUBMISSION_STARTED"} : TrueOf(s, arg[w])
      BY DEF TrueOf, Unsent
    <3>3. QED
      BY <3>1, <3>2, GotoTruth
  <2>5. CASE AppendValidate(w)
    <3>1. TrueOf(todo[w], arg[w])
      BY <2>5 DEF AppendValidate, TruthInv, PendingInv, Appending
    <3>2. QED
      BY <2>5, <3>1, GotoTruth DEF AppendValidate, journal
  <2>6. CASE AppendWrite(w)
    <3>1. TrueOf(todo[w], arg[w])
      BY <2>6 DEF AppendWrite, TruthInv, PendingInv, Appending
    <3>2. /\ durable' = durable /\ UNCHANGED exchange /\ UNCHANGED <<arg, ret, todo>>
          /\ latest' = latest \/ latest' = [latest EXCEPT ![arg[w]] = todo[w]]
          /\ pc' = [pc EXCEPT ![w] = "sync"]
      BY <2>6 DEF AppendWrite, Goto, TypeOK
    <3>3. \A d \in Digests : TrueOf(latest'[d], d) /\ TrueOf(durable'[d], d)
      BY <3>1, <3>2 DEF TruthInv, RecordsInv, TypeOK
    <3>4. AnswerTrueOf(ret'[w], arg'[w]) /\ pc'[w] = "sync" /\ TrueOf(todo'[w], arg'[w])
      BY <3>1, <3>2 DEF TruthInv, AnswersInv, TypeOK
    <3>5. \A v \in Workers \ {w} :
              pc'[v] = pc[v] /\ todo'[v] = todo[v] /\ arg'[v] = arg[v] /\ ret'[v] = ret[v]
      BY <3>2 DEF TypeOK
    <3>6. QED
      BY <3>2, <3>3, <3>4, <3>5, ThreadStep
  <2>7. CASE SyncSubmissionStarted(w)
    BY <2>7, GotoTruth DEF SyncSubmissionStarted
  <2>8. CASE SyncOutcome(w)
    <3>1. TrueOf(todo[w], arg[w])
      BY <2>8 DEF SyncOutcome, TruthInv, PendingInv, Appending
    <3>2. AnswerTrueOf(AppendedResult(todo[w]), arg[w])
      BY <3>1 DEF AppendedResult, AnswerTrueOf, TrueOf, Unsent, NoRecord
    <3>3. QED
      BY <2>8, <3>2, ReturnTruth DEF SyncOutcome
  <2>9. CASE Mutate(w)
    BY <2>9, MutateTruth
  <2>10. CASE MutationAnswer(w)
    <3>1. calls[arg[w]] = 1 /\ placed[arg[w]] + refused[arg[w]] <= calls[arg[w]]
          /\ placed[arg[w]] \in Nat /\ refused[arg[w]] \in Nat
      BY <2>0, <2>10 DEF MutationAnswer, TruthInv, PendingInv, DecidedInv, TypeOK
    <3>2. /\ placed[arg[w]] > 0 => TrueOf("ACKNOWLEDGED", arg[w])
          /\ refused[arg[w]] > 0 => TrueOf("EXPLICITLY_REJECTED", arg[w])
          /\ TrueOf("RECONCILE_REQUIRED", arg[w])
      BY <3>1 DEF TrueOf
    <3>3. UNCHANGED <<latest, durable, exchange>>
          /\ \E s : TrueOf(s, arg[w]) /\ Goto(w, "validate", s)
      BY <2>10, <3>2 DEF MutationAnswer, journal
    <3>4. QED
      BY <3>3, GotoTruth
  <2>11. CASE ReconcileRead(w)
    <3>1. calls[arg[w]] = 1
      BY <2>0, <2>11 DEF ReconcileRead, TrueOf, Ambiguous, Unsent, NoRecord
    <3>2. QED
      BY <2>11, <3>1, GotoTruth DEF ReconcileRead, journal
  <2>12. CASE ReconcileLookup(w)
    <3>1. calls[arg[w]] = 1
      BY <2>12 DEF ReconcileLookup, TruthInv, PendingInv
    <3>2. TrueOf(LookupVerdict(arg[w]), arg[w])
      BY <2>0, <3>1, VerdictTruth
    <3>3. QED
      BY <2>12, <3>2, GotoTruth DEF ReconcileLookup, journal
  <2>13. QED
    BY <1>7, <2>1, <2>2, <2>3, <2>4, <2>5, <2>6, <2>7, <2>8, <2>9, <2>10, <2>11, <2>12 DEF Step
<1>8. QED
  BY <1>1, <1>2, <1>3, <1>4, <1>5, <1>6, <1>7 DEF Next

\* Journal, answers and exchange agree in every reachable state.
THEOREM TruthInvariant ==
    ASSUME SingleProcess, MaxShortWrites = 0, VerifyMatch
    PROVE  Spec => [](TypeInv /\ SafetyInv /\ TruthInv)
<1>1. Init => TypeInv /\ SafetyInv /\ TruthInv
  BY InitTypeInv, InitSafety, InitTruth
<1>2. TypeInv /\ SafetyInv /\ TruthInv /\ [Next]_vars => (TypeInv /\ SafetyInv /\ TruthInv)'
  BY NextTypeInv, NextSafety, NextTruth
<1>3. QED
  BY <1>1, <1>2, PTL DEF Spec

\* A settled journal state is true of the exchange, whatever threads race,
\* and whatever answers, reconciliations or unsynced records are lost.
THEOREM JournalIsTrue ==
    ASSUME SingleProcess, MaxShortWrites = 0, VerifyMatch
    PROVE  Spec => []JournalTruthful
<1>1. TypeInv /\ SafetyInv /\ TruthInv => JournalTruthful
  <2> SUFFICES ASSUME TypeInv, SafetyInv, TruthInv, NEW d \in Digests
               PROVE  /\ latest[d] \in {"ACKNOWLEDGED", "RECONCILED_FOUND"} => placed[d] = 1
                      /\ latest[d] = "EXPLICITLY_REJECTED" => placed[d] = 0 /\ ~InFlight(d)
                      /\ latest[d] = "COLLISION" => ClientOrderId[d] \in foreign
    BY DEF JournalTruthful
  <2>1. TrueOf(latest[d], d) /\ calls[d] <= 1
    BY DEF TruthInv, RecordsInv, SafetyInv, AtMostOnceSubmission
  <2>2. QED
    BY <2>1 DEF TrueOf, InFlight, TypeInv, TypeOK
<1>2. QED
  BY <1>1, TruthInvariant, PTL

\* No caller of submit or reconcile is told something false of its intent.
THEOREM AnswersAreTrue ==
    ASSUME SingleProcess, MaxShortWrites = 0, VerifyMatch
    PROVE  Spec => []ResultTruthful
<1>1. TypeInv /\ SafetyInv /\ TruthInv => ResultTruthful
  <2> SUFFICES ASSUME TypeInv, SafetyInv, TruthInv, NEW w \in Workers
               PROVE  /\ ret[w] \in {"ACKNOWLEDGED", "RECONCILED_FOUND"} => placed[arg[w]] = 1
                      /\ ret[w] = "EXPLICITLY_REJECTED" => placed[arg[w]] = 0 /\ ~InFlight(arg[w])
    BY DEF ResultTruthful
  <2>1. AnswerTrueOf(ret[w], arg[w]) /\ arg[w] \in Digests
    BY DEF TruthInv, AnswersInv, TypeInv, TypeOK
  <2>2. QED
    BY <2>1 DEF AnswerTrueOf, InFlight, TypeInv, TypeOK
<1>2. QED
  BY <1>1, TruthInvariant, PTL

(***************************************************************************)
(* One coordinator per journal                                             *)
(***************************************************************************)

OneCoordinator == \A b, c \in Coordinators : b = c

Settled == {"ACKNOWLEDGED", "EXPLICITLY_REJECTED", "RECONCILED_FOUND", "COLLISION"}

\* The RLock of the one journal object covers an append from its validation
\* to its fsync, so the transition is still valid when it is written.
WriterInv ==
    \A w \in Workers :
        /\ pc[w] \in {"write", "sync"} => journalLock[CoordinatorOf[w]] = w
        /\ pc[w] = "write" => TransitionValid(latest[arg[w]], todo[w])

\* What is durably settled stays what every reader sees.
SettledInv == \A d \in Digests : durable[d] \in Settled => latest[d] = durable[d]

JournalInv == WriterInv /\ SettledInv

\* Nothing is recorded at the start.
LEMMA InitJournal ==
    ASSUME Init PROVE JournalInv
BY DEF Init, JournalInv, WriterInv, SettledInv, Settled, NoRecord

\* A step of a thread outside the write itself: it writes nothing, holds no
\* journal lock that it needs afterwards and takes none from another thread.
LEMMA JournalFrame ==
    ASSUME TypeInv, TypeInv', JournalInv, NEW w \in Workers,
           latest' = latest, durable' = durable \/ durable' = latest,
           \A v \in Workers \ {w} : pc'[v] = pc[v] /\ todo'[v] = todo[v] /\ arg'[v] = arg[v],
           \A v \in Workers \ {w}, c \in Coordinators : journalLock[c] = v => journalLock'[c] = v,
           pc'[w] \notin {"write", "sync"}
    PROVE  JournalInv'
<1>1. WriterInv'
  BY ThreadsAssumption DEF JournalInv, WriterInv, TransitionValid
<1>2. SettledInv'
  BY DEF JournalInv, SettledInv
<1>3. QED
  BY <1>1, <1>2 DEF JournalInv

\* A call ends, perhaps with the sync of what it wrote.
LEMMA JournalReturn ==
    ASSUME TypeInv, TypeInv', JournalInv, NEW w \in Workers, NEW o, Return(w, o),
           latest' = latest, durable' = durable \/ durable' = latest
    PROVE  JournalInv'
<1>1. /\ pc'[w] = "idle"
      /\ \A v \in Workers \ {w} : pc'[v] = pc[v] /\ todo'[v] = todo[v] /\ arg'[v] = arg[v]
  BY DEF Return, TypeInv, TypeOK
<1>2. \A v \in Workers \ {w}, c \in Coordinators : journalLock[c] = v => journalLock'[c] = v
  BY DEF Return, Released, TypeInv, TypeOK
<1>3. QED
  BY <1>1, <1>2, JournalFrame

\* A thread goes on to a place outside of an append.
LEMMA JournalGoto ==
    ASSUME TypeInv, TypeInv', JournalInv, NEW w \in Workers, NEW l, NEW s, Goto(w, l, s),
           latest' = latest, durable' = durable \/ durable' = latest,
           journalLock' = journalLock \/ journalLock' = Released(journalLock, w),
           l \notin {"write", "sync"}
    PROVE  JournalInv'
<1>1. /\ pc'[w] = l
      /\ \A v \in Workers \ {w} : pc'[v] = pc[v] /\ todo'[v] = todo[v] /\ arg'[v] = arg[v]
  BY DEF Goto, TypeInv, TypeOK
<1>2. \A v \in Workers \ {w}, c \in Coordinators : journalLock[c] = v => journalLock'[c] = v
  BY DEF Released, TypeInv, TypeOK
<1>3. QED
  BY <1>1, <1>2, JournalFrame

\* The validation takes the lock that keeps other writers out until the write.
LEMMA JournalValidate ==
    ASSUME TypeInv, TypeInv', JournalInv, NEW w \in Workers, AppendValidate(w)
    PROVE  JournalInv'
<1> USE DEF TypeInv, TypeOK
<1>0. /\ UNCHANGED <<latest, durable, arg, todo>>
      /\ pc' = [pc EXCEPT ![w] = "write"]
      /\ journalLock[CoordinatorOf[w]] = Nobody
      /\ journalLock' = [journalLock EXCEPT ![CoordinatorOf[w]] = w]
      /\ TransitionValid(latest[arg[w]], todo[w])
      /\ CoordinatorOf[w] \in Coordinators
  BY ThreadsAssumption DEF AppendValidate, Goto, JournalFree, journal
<1>1. WriterInv'
  <2> SUFFICES ASSUME NEW v \in Workers
               PROVE  /\ pc'[v] \in {"write", "sync"} => journalLock'[CoordinatorOf[v]] = v
                      /\ pc'[v] = "write" => TransitionValid(latest[arg[v]], todo[v])'
    BY DEF WriterInv
  <2>1. CASE v = w
    BY <2>1, <1>0 DEF TransitionValid
  <2>2. CASE v # w
    <3>1. pc'[v] = pc[v]
      BY <2>2, <1>0
    <3>2. pc[v] \in {"write", "sync"} => CoordinatorOf[v] # CoordinatorOf[w]
      BY <1>0, ThreadsAssumption DEF JournalInv, WriterInv
    <3>3. QED
      BY <1>0, <3>1, <3>2, ThreadsAssumption DEF JournalInv, WriterInv, TransitionValid
  <2>3. QED
    BY <2>1, <2>2
<1>2. QED
  BY <1>0, <1>1 DEF JournalInv, SettledInv

\* No transition that _ALLOWED_TRANSITIONS admits leaves a settled state for
\* one that submit or reconcile append.
LEMMA SettledFinal ==
    ASSUME NEW s \in Settled, NEW t \in AppendableState, TransitionValid(s, t)
    PROVE  t = s
BY DEF Settled, AppendableState, TransitionValid, AllowedTransitions, NoRecord

\* The write: with one coordinator, no other thread is between its validation
\* and its fsync.
LEMMA JournalWrite ==
    ASSUME OneCoordinator, TypeInv, TypeInv', JournalInv, NEW w \in Workers, AppendWrite(w)
    PROVE  /\ JournalInv'
           /\ \A d \in Digests : latest'[d] = latest[d] \/ latest'[d] \in AllowedTransitions(latest[d])
<1> USE DEF TypeInv, TypeOK
<1>0. /\ UNCHANGED <<durable, arg, todo, journalLock>>
      /\ pc[w] = "write" /\ pc' = [pc EXCEPT ![w] = "sync"]
      /\ latest' = latest \/ latest' = [latest EXCEPT ![arg[w]] = todo[w]]
      /\ TransitionValid(latest[arg[w]], todo[w])
      /\ todo[w] \in AppendableState
  BY DEF AppendWrite, Goto, locks, JournalInv, WriterInv, TodoOK
<1>1. \A v \in Workers \ {w} : pc[v] \notin {"write", "sync"}
  <2> SUFFICES ASSUME NEW v \in Workers, v # w, pc[v] \in {"write", "sync"} PROVE FALSE
    OBVIOUS
  <2>1. CoordinatorOf[v] \in Coordinators /\ CoordinatorOf[w] \in Coordinators
    BY ThreadsAssumption
  <2>2. CoordinatorOf[v] = CoordinatorOf[w]
    BY <2>1 DEF OneCoordinator
  <2>3. journalLock[CoordinatorOf[v]] = v /\ journalLock[CoordinatorOf[w]] = w
    BY <1>0 DEF JournalInv, WriterInv
  <2>4. QED
    BY <2>2, <2>3
<1>2. WriterInv'
  BY <1>0, <1>1 DEF JournalInv, WriterInv
<1>3. SettledInv'
  <2> SUFFICES ASSUME NEW d \in Digests, durable[d] \in Settled PROVE latest'[d] = durable[d]
    BY <1>0 DEF SettledInv
  <2>1. latest[d] = durable[d]
    BY DEF JournalInv, SettledInv
  <2>2. d = arg[w] => todo[w] = latest[d]
    BY <1>0, <2>1, SettledFinal
  <2>3. QED
    BY <1>0, <2>1, <2>2
<1>4. ASSUME NEW d \in Digests
      PROVE  latest'[d] = latest[d] \/ latest'[d] \in AllowedTransitions(latest[d])
  BY <1>0 DEF TransitionValid
<1>5. QED
  BY <1>2, <1>3, <1>4 DEF JournalInv

\* A crash of a process leaves the file and the other threads' locks; after a
\* power failure no thread is left.
LEMMA JournalCrash ==
    ASSUME TypeInv, TypeInv', JournalInv, NEW W \in SUBSET Workers, Killed(W),
           \/ latest' = latest /\ durable' = durable
           \/ W = Workers /\ durable' = latest'
    PROVE  JournalInv'
<1> USE DEF TypeInv, TypeOK
<1>1. WriterInv'
  BY ThreadsAssumption DEF Killed, JournalInv, WriterInv, TransitionValid
<1>2. SettledInv'
  BY DEF JournalInv, SettledInv
<1>3. QED
  BY <1>1, <1>2 DEF JournalInv

\* Every step keeps the journal's discipline, and moves an intent only along
\* _ALLOWED_TRANSITIONS or, in a power failure, back to its durable record.
LEMMA NextJournal ==
    ASSUME OneCoordinator, TypeInv, TypeInv', JournalInv, [Next]_vars
    PROVE  /\ JournalInv'
           /\ \A d \in Digests :
                \/ latest'[d] = latest[d]
                \/ latest'[d] \in AllowedTransitions(latest[d])
                \/ latest'[d] = durable[d] /\ \A w \in Workers : pc'[w] = "idle"
<1> DEFINE Moves == \A d \in Digests :
                \/ latest'[d] = latest[d]
                \/ latest'[d] \in AllowedTransitions(latest[d])
                \/ latest'[d] = durable[d] /\ \A w \in Workers : pc'[w] = "idle"
<1>1. ASSUME NEW w \in Workers, NEW d \in Digests, Call(w, d) PROVE JournalInv' /\ latest' = latest
  <2>1. /\ UNCHANGED <<latest, durable, todo, journalLock>>
        /\ arg' = [arg EXCEPT ![w] = d]
        /\ \E l \in {"idle", "submit_lock", "reconcile_lock"} : pc' = [pc EXCEPT ![w] = l]
    BY <1>1 DEF Call, SubmitRefused, SubmitCalled, ReconcileRefused, ReconcileCalled, journal,
       locks, TypeInv, TypeOK
  <2>2. /\ pc'[w] \notin {"write", "sync"}
        /\ \A v \in Workers \ {w} : pc'[v] = pc[v] /\ todo'[v] = todo[v] /\ arg'[v] = arg[v]
    BY <2>1 DEF TypeInv, TypeOK
  <2>3. QED
    BY <2>1, <2>2, JournalFrame
<1>2. ASSUME NEW d \in Digests, Exchange(d) PROVE JournalInv' /\ latest' = latest
  <2>1. UNCHANGED <<latest, durable, journalLock, pc, arg, todo>>
    BY <1>2 DEF Exchange, ExchangePlaces, ExchangeRefuses, ForeignOrder, journal, locks, threads
  <2>2. QED
    BY <2>1 DEF JournalInv, WriterInv, SettledInv, TransitionValid
<1>3. ASSUME NEW c \in Coordinators, ProcessCrash(c) PROVE JournalInv' /\ latest' = latest
  <2>1. PICK W \in SUBSET Workers : Killed(W)
    BY <1>3 DEF ProcessCrash
  <2>2. QED
    BY <1>3, <2>1, JournalCrash DEF ProcessCrash
<1>4. ASSUME PowerFailure PROVE JournalInv' /\ Moves
  <2>1. JournalInv'
    BY <1>4, JournalCrash DEF PowerFailure
  <2>2. Moves
    BY <1>4 DEF PowerFailure, Killed, TypeInv, TypeOK
  <2>3. QED
    BY <2>1, <2>2
<1>5. CASE UNCHANGED vars
  BY <1>5 DEF vars, JournalInv, WriterInv, SettledInv, TransitionValid
<1>6. ASSUME NEW w \in Workers, Fault(w) PROVE JournalInv' /\ latest' = latest
  <2>1. /\ UNCHANGED <<latest, durable>>
        /\ \/ \E o : Return(w, o)
           \/ Goto(w, "validate", "RECONCILE_REQUIRED") /\ journalLock' = journalLock
    BY <1>6 DEF Fault, FlockFails, AppendWriteFails, AppendShortWrite, AppendSyncFails,
       ReconcileLookupFails, ReadRaises, AppendRaises, journal, locks
  <2>2. QED
    BY <2>1, JournalReturn, JournalGoto
<1>7. ASSUME NEW w \in Workers, Step(w) PROVE JournalInv' /\ Moves
  <2>1. CASE AppendValidate(w)
    BY <2>1, JournalValidate DEF AppendValidate, journal
  <2>2. CASE AppendWrite(w)
    BY <2>2, JournalWrite
  <2>3. CASE CheckCollision(w) \/ CheckExisting(w) \/ AppendInvalid(w) \/ ReconcileNothing(w)
             \/ SyncOutcome(w)
    <3>1. latest' = latest /\ (durable' = durable \/ durable' = latest) /\ \E o : Return(w, o)
      BY <2>3 DEF CheckCollision, CheckExisting, AppendInvalid, AppendRaises, ReconcileNothing,
         SyncOutcome, journal
    <3>2. QED
      BY <3>1, JournalReturn
  <2>4. CASE \/ AcquireDigestLock(w) \/ AcquireFlock(w) \/ CheckNew(w) \/ SyncIntentRecorded(w)
             \/ SyncSubmissionStarted(w) \/ Mutate(w) \/ MutationAnswer(w) \/ ReconcileRead(w)
             \/ ReconcileLookup(w)
    <3>1. /\ latest' = latest /\ (durable' = durable \/ durable' = latest)
          /\ journalLock' = journalLock \/ journalLock' = Released(journalLock, w)
          /\ \E l, s : Goto(w, l, s) /\ l \notin {"write", "sync"}
      BY <2>4 DEF AcquireDigestLock, AcquireFlock, CheckNew, SyncIntentRecorded,
         SyncSubmissionStarted, Mutate, MutationAnswer, ReconcileRead, ReconcileLookup,
         journal, locks
    <3>2. QED
      BY <3>1, JournalGoto
  <2>5. QED
    BY <1>7, <2>1, <2>2, <2>3, <2>4 DEF Step
<1>8. QED
  BY <1>1, <1>2, <1>3, <1>4, <1>5, <1>6, <1>7 DEF Next, vars

\* I10: with one coordinator the state of an intent moves only along
\* _ALLOWED_TRANSITIONS, save that a power failure takes unsynced records back.
THEOREM TransitionsAllowed ==
    ASSUME OneCoordinator
    PROVE  Spec => OnlyAllowedTransitions
<1>1. Init => TypeInv /\ JournalInv
  BY InitTypeInv, InitJournal
<1>2. TypeInv /\ JournalInv /\ [Next]_vars => (TypeInv /\ JournalInv)'
  BY NextTypeInv, NextJournal
<1>3. TypeInv /\ JournalInv /\ [Next]_vars =>
        [\A d \in Digests :
            \/ latest'[d] = latest[d]
            \/ latest'[d] \in AllowedTransitions(latest[d])
            \/ latest'[d] = durable[d] /\ \A w \in Workers : pc'[w] = "idle"]_vars
  BY NextTypeInv, NextJournal
<1>4. QED
  BY <1>1, <1>2, <1>3, PTL DEF Spec, OnlyAllowedTransitions

(***************************************************************************)
(* The protocol implements SubmitOnce                                      *)
(***************************************************************************)

\* What can be said of the fate of an intent that was sent at most once.
LEMMA FateIs ==
    ASSUME TypeInv, SafetyInv, TruthInv, NEW d \in Digests
    PROVE  /\ calls[d] = 0 => Fate(d) = "unsent"
           /\ calls[d] = 1 /\ placed[d] = 0 /\ refused[d] = 0 => Fate(d) = "in_flight"
           /\ calls[d] = 1 /\ placed[d] = 1 => Fate(d) = "order"
           /\ calls[d] = 1 /\ placed[d] = 0 /\ refused[d] = 1 => Fate(d) = "void"
           /\ calls[d] \in {0, 1} /\ placed[d] + refused[d] <= calls[d]
<1>1. /\ calls[d] \in Nat /\ placed[d] \in Nat /\ refused[d] \in Nat
      /\ calls[d] <= 1 /\ placed[d] + refused[d] <= calls[d]
  BY DEF TypeInv, TypeOK, SafetyInv, AtMostOnceSubmission, TruthInv, DecidedInv
<1>2. QED
  BY <1>1 DEF Fate, InFlight

\* An append that is synced, or a record that survives a power failure, teaches
\* what the exchange decided; what was known stays known.
LEMMA LearnStep ==
    ASSUME TypeInv, TypeInv', SafetyInv, TruthInv, JournalInv,
           UNCHANGED <<calls, placed, refused>>,
           \A d \in Digests : durable'[d] \in {durable[d], latest[d]}
    PROVE  Promise!Next
<1> DEFINE know == [d \in Digests |-> Meaning(durable[d])]
           know1 == [d \in Digests |-> Meaning(durable'[d])]
           D == {d \in Digests : know1[d] # know[d]}
<1>1. ASSUME NEW d \in D
      PROVE  know[d] = "unknown" /\ calls[d] > 0 /\ know1[d] \in {Fate(d), "conflict"}
  <2>1. d \in Digests /\ durable'[d] = latest[d] /\ Meaning(latest[d]) # Meaning(durable[d])
    BY <1>1
  <2>2. durable[d] \notin Settled
    BY <2>1 DEF JournalInv, SettledInv
  <2>3. Meaning(durable[d]) = "unknown"
    BY <2>2 DEF Meaning, Settled
  <2>4. latest[d] \in Settled
    BY <2>1, <2>3 DEF Meaning, Settled
  <2>5. TrueOf(latest[d], d)
    BY <2>1 DEF TruthInv, RecordsInv
  <2>6. calls[d] = 1
    BY <2>4, <2>5 DEF TrueOf, Settled, Unsent, NoRecord
  <2>7. Meaning(latest[d]) \in {Fate(d), "conflict"}
    <3>1. CASE latest[d] \in {"ACKNOWLEDGED", "RECONCILED_FOUND"}
      BY <2>1, <2>5, <2>6, <3>1, FateIs DEF TrueOf, Meaning
    <3>2. CASE latest[d] = "EXPLICITLY_REJECTED"
      BY <2>1, <2>5, <2>6, <3>2, FateIs DEF TrueOf, Meaning
    <3>3. CASE latest[d] = "COLLISION"
      BY <3>3 DEF Meaning
    <3>4. QED
      BY <2>4, <3>1, <3>2, <3>3 DEF Settled
  <2>8. QED
    BY <2>1, <2>3, <2>6, <2>7
<1>2. know1 \in [Digests -> {"unknown", "order", "void", "conflict"}]
  BY DEF Meaning
<1>3. \A d \in Digests \ D : know1[d] = know[d]
  OBVIOUS
<1>4. [d \in Digests |-> Fate(d)]' = [d \in Digests |-> Fate(d)]
  BY DEF Fate, InFlight
<1>5. \A d \in D : d \in Digests
  OBVIOUS
<1>6. D \in SUBSET Digests
  OBVIOUS
<1>7. Promise!Learn(D)
  <2>1. \A d \in D : know[d] = "unknown" /\ calls[d] > 0
    BY <1>1
  <2>2. \A d \in D : know1[d] \in {[e \in Digests |-> Fate(e)][d], "conflict"}
    BY <1>1, <1>5
  <2>3. [d \in Digests |-> Meaning(durable[d])]' = know1
    OBVIOUS
  <2> HIDE DEF D
  <2>4. QED
    BY <2>1, <2>2, <2>3, <1>2, <1>3, <1>4 DEF Promise!Learn
<1> HIDE DEF D
<1>8. QED
  BY <1>6, <1>7 DEF Promise!Next

\* The request leaves once, and alone under its client order id.
LEMMA SendStep ==
    ASSUME TypeInv, TypeInv', SafetyInv, SafetyInv', TruthInv, TruthInv', NEW w \in Workers,
           Mutate(w)
    PROVE  Promise!Next
<1>0. PICK d : d = arg[w]
  OBVIOUS
<1>1. d \in Digests /\ calls[d] = 0
  BY <1>0 DEF Mutate, SafetyInv, MutateInv, TypeInv, TypeOK
<1>2. UNCHANGED <<placed, refused, durable>> /\ calls' = [calls EXCEPT ![d] = 1]
  BY <1>0, <1>1 DEF Mutate, journal
<1>3. \A e \in Digests : ClientOrderId[e] = ClientOrderId[d] => calls[e] = 0
  <2>1. Leaving(d)
    BY <1>0 DEF Mutate, Leaving
  <2>2. \A e \in Digests : calls[e] > 0 => Leaving(e)
    BY DEF Leaving
  <2> SUFFICES ASSUME NEW e \in Digests, ClientOrderId[e] = ClientOrderId[d], calls[e] # 0
               PROVE  FALSE
    OBVIOUS
  <2>3. calls[e] > 0
    BY DEF TypeInv, TypeOK
  <2>4. e = d
    BY <1>1, <2>1, <2>2, <2>3 DEF SafetyInv, UniqueLeaving
  <2>5. QED
    BY <1>1, <2>4
<1>4. \A e \in Digests \ {d} : Fate(e)' = Fate(e)
  BY <1>1, <1>2 DEF Fate, InFlight, TypeInv, TypeOK
<1>5. Fate(d)' = "in_flight"
  <2>0. placed[d] \in Nat /\ refused[d] \in Nat /\ placed[d] + refused[d] <= calls[d]
    BY <1>1 DEF TruthInv, DecidedInv, TypeInv, TypeOK
  <2>1. placed[d] = 0 /\ refused[d] = 0
    BY <1>1, <2>0
  <2>2. calls'[d] = 1
    BY <1>1, <1>2 DEF TypeInv, TypeOK
  <2>3. QED
    BY <1>2, <2>1, <2>2 DEF Fate, InFlight
<1>6. [e \in Digests |-> Fate(e)]' = [[e \in Digests |-> Fate(e)] EXCEPT ![d] = "in_flight"]
  BY <1>1, <1>4, <1>5
<1>7. [e \in Digests |-> Meaning(durable[e])]' = [e \in Digests |-> Meaning(durable[e])]
  BY <1>2
<1>8. Promise!Send(d)
  BY <1>1, <1>2, <1>3, <1>6, <1>7 DEF Promise!Send
<1>9. QED
  BY <1>1, <1>8 DEF Promise!Next

\* The exchange decides a request once.
LEMMA DecideStep ==
    ASSUME TypeInv, TypeInv', SafetyInv, SafetyInv', TruthInv, TruthInv', NEW d \in Digests,
           ExchangePlaces(d) \/ ExchangeRefuses(d)
    PROVE  Promise!Next
<1>1. /\ UNCHANGED <<calls, durable>>
      /\ \/ placed' = [placed EXCEPT ![d] = @ + 1] /\ refused' = refused
         \/ refused' = [refused EXCEPT ![d] = @ + 1] /\ placed' = placed
      /\ calls[d] > placed[d] + refused[d]
  BY DEF ExchangePlaces, ExchangeRefuses, InFlight, journal
<1>2. calls[d] = 1 /\ placed[d] = 0 /\ refused[d] = 0
  <2>1. calls[d] \in Nat /\ placed[d] \in Nat /\ refused[d] \in Nat /\ calls[d] <= 1
    BY DEF SafetyInv, AtMostOnceSubmission, TypeInv, TypeOK
  <2>2. QED
    BY <1>1, <2>1
<1>3. Fate(d) = "in_flight"
  BY <1>2, FateIs
<1>4. (placed'[d] = 1 /\ refused'[d] = 0) \/ (placed'[d] = 0 /\ refused'[d] = 1)
  BY <1>1, <1>2 DEF TypeInv, TypeOK
<1>5. Fate(d)' \in {"order", "void"}
  BY <1>1, <1>2, <1>4 DEF Fate, InFlight
<1>6. \A e \in Digests \ {d} : Fate(e)' = Fate(e)
  BY <1>1 DEF Fate, InFlight, TypeInv, TypeOK
<1>7. PICK f \in {"order", "void"} :
        [e \in Digests |-> Fate(e)]' = [[e \in Digests |-> Fate(e)] EXCEPT ![d] = f]
  BY <1>5, <1>6
<1>8. [e \in Digests |-> Meaning(durable[e])]' = [e \in Digests |-> Meaning(durable[e])]
  BY <1>1
<1>9. Promise!Decide(d)
  BY <1>1, <1>3, <1>7, <1>8 DEF Promise!Decide
<1>10. QED
  BY <1>9 DEF Promise!Next

\* Every step of the protocol is a step of SubmitOnce.
LEMMA StepRefines ==
    ASSUME TypeInv, TypeInv', SafetyInv, SafetyInv', TruthInv, TruthInv', JournalInv, [Next]_vars
    PROVE  Promise!Next
<1>1. CASE \E w \in Workers : Mutate(w)
  BY <1>1, SendStep
<1>2. CASE \E d \in Digests : ExchangePlaces(d) \/ ExchangeRefuses(d)
  BY <1>2, DecideStep
<1>3. CASE /\ UNCHANGED <<calls, placed, refused>>
           /\ \A d \in Digests : durable'[d] \in {durable[d], latest[d]}
  BY <1>3, LearnStep
<1>4. ASSUME NEW w \in Workers, Step(w), ~Mutate(w)
      PROVE  /\ UNCHANGED <<calls, placed, refused>>
             /\ \A d \in Digests : durable'[d] \in {durable[d], latest[d]}
  BY <1>4 DEF Step, AcquireDigestLock, AcquireFlock, CheckCollision, CheckExisting, CheckNew,
     AppendValidate, AppendInvalid, AppendWrite, SyncIntentRecorded, SyncSubmissionStarted,
     SyncOutcome, MutationAnswer, ReconcileNothing, ReconcileRead, ReconcileLookup,
     journal, exchange
<1>5. ASSUME NEW w \in Workers, Fault(w)
      PROVE  UNCHANGED <<calls, placed, refused, durable>>
  BY <1>5 DEF Fault, FlockFails, AppendWriteFails, AppendShortWrite, AppendSyncFails,
     ReconcileLookupFails, ReadRaises, journal, exchange
<1>6. ASSUME NEW w \in Workers, NEW d \in Digests, Call(w, d)
      PROVE  UNCHANGED <<calls, placed, refused, durable>>
  BY <1>6 DEF Call, SubmitRefused, SubmitCalled, ReconcileRefused, ReconcileCalled, journal, exchange
<1>7. ASSUME NEW d \in Digests, ForeignOrder(d)
      PROVE  UNCHANGED <<calls, placed, refused, durable>>
  BY <1>7 DEF ForeignOrder, journal
<1>8. ASSUME NEW c \in Coordinators, ProcessCrash(c)
      PROVE  UNCHANGED <<calls, placed, refused, durable>>
  BY <1>8 DEF ProcessCrash, exchange
<1>9. ASSUME PowerFailure
      PROVE  /\ UNCHANGED <<calls, placed, refused>>
             /\ \A d \in Digests : durable'[d] \in {durable[d], latest[d]}
  BY <1>9 DEF PowerFailure, exchange
<1>10. CASE UNCHANGED vars
  BY <1>10, <1>3 DEF vars
<1>11. QED
  BY <1>1, <1>2, <1>3, <1>4, <1>5, <1>6, <1>7, <1>8, <1>9, <1>10 DEF Next, Exchange

\* With one coordinator per journal, verified lookups and no torn writes, the
\* protocol implements SubmitOnce: each intent is sent at most once, the
\* exchange decides it once, and what is durably known of it is true and final.
THEOREM Implements ==
    ASSUME OneCoordinator, MaxShortWrites = 0, VerifyMatch
    PROVE  Spec => ImplementsSubmitOnce
<1> DEFINE Inv == TypeInv /\ SafetyInv /\ TruthInv /\ JournalInv
<1>0. SingleProcess
  BY DEF OneCoordinator, SingleProcess
<1>1. Init => Inv
  BY InitTypeInv, InitSafety, InitTruth, InitJournal
<1>2. Inv /\ [Next]_vars => Inv'
  BY <1>0, NextTypeInv, NextSafety, NextTruth, NextJournal
<1>3. Init => Promise!Init
  <2> SUFFICES ASSUME Init PROVE Promise!Init
    OBVIOUS
  <2>1. [d \in Digests |-> Fate(d)] = [d \in Digests |-> "unsent"]
    BY DEF Init, Fate
  <2>2. [d \in Digests |-> Meaning(durable[d])] = [d \in Digests |-> "unknown"]
    BY DEF Init, Meaning, NoRecord
  <2>3. QED
    BY <2>1, <2>2 DEF Init, Promise!Init
<1>4. Inv /\ Inv' /\ [Next]_vars => [Promise!Next]_(Promise!avars)
  BY StepRefines
<1> HIDE DEF Inv
<1>5. QED
  BY <1>1, <1>2, <1>3, <1>4, PTL DEF Spec, ImplementsSubmitOnce, Promise!Spec
==================================================
