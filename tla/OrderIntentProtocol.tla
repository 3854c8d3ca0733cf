------------------------- MODULE OrderIntentProtocol -------------------------
(***************************************************************************)
(* The durable-before-network, at-most-once order submission protocol of   *)
(* src/quant_hedge_ai/agents/execution/order_intent_protocol.py: threads   *)
(* call submit and reconcile on OrderIntentCoordinator objects that share  *)
(* one append-only JSONL journal file and one exchange account.            *)
(*                                                                         *)
(* An intent is its digest; the journal is what a replay of the file gives *)
(* (the last parsable record of each digest), once for the content every   *)
(* reader sees and once for the content that survives a power failure.     *)
(***************************************************************************)
EXTENDS Naturals, FiniteSets

CONSTANTS
    Workers,        \* threads that call the coordinators
    Coordinators,   \* OrderIntentCoordinator objects, each with its own journal object
    CoordinatorOf,  \* [Workers -> Coordinators]
    ProcessOf,      \* [Coordinators -> operating-system processes]
    Certified,      \* coordinators whose adapter is SUBMIT_AND_RECONCILE_VERIFIED
    Digests,        \* full digests of the canonical intents
    ClientOrderId,  \* [Digests -> ids]: a fragment of the digest, maybe not injective
    VerifyMatch,    \* whether reconcile is given a verify_match callback
    Nobody,         \* no thread holds the lock
    MaxCalls,       \* bound: calls of submit and reconcile
    MaxIOFaults,    \* bound: failing opens, writes, fsyncs and flocks
    MaxShortWrites, \* bound: failing writes that leave a fragment of a line
    MaxCrashes,     \* bound: process crashes and power failures
    MaxForeign      \* bound: orders under one of our ids that we did not place

NoRecord == "NO_RECORD"

\* IntentState
IntentState ==
    {"INTENT_RECORDED", "SUBMISSION_STARTED", "ACKNOWLEDGED",
     "EXPLICITLY_REJECTED", "RECONCILE_REQUIRED", "RECONCILED_FOUND",
     "RECONCILED_NOT_FOUND_PENDING", "CANCELLED", "COLLISION"}

\* _ALLOWED_TRANSITIONS; a digest without a record is not validated.
AllowedTransitions(s) ==
    CASE s = NoRecord -> IntentState
      [] s = "INTENT_RECORDED" -> {"SUBMISSION_STARTED"}
      [] s = "SUBMISSION_STARTED" ->
            {"ACKNOWLEDGED", "EXPLICITLY_REJECTED", "RECONCILE_REQUIRED"}
      [] s = "RECONCILE_REQUIRED" ->
            {"RECONCILED_FOUND", "RECONCILED_NOT_FOUND_PENDING",
             "RECONCILE_REQUIRED", "COLLISION"}
      [] s = "RECONCILED_NOT_FOUND_PENDING" ->
            {"RECONCILED_FOUND", "RECONCILED_NOT_FOUND_PENDING", "COLLISION"}
      [] s \in {"ACKNOWLEDGED", "RECONCILED_FOUND"} -> {"CANCELLED"}
      [] s \in {"EXPLICITLY_REJECTED", "CANCELLED", "COLLISION"} -> {}

\* Faulty variant: the recorded state is returned as it is.
TypedResultRaw(s) == s

\* What _typed_result_from_record answers for a record in state s.
TypedResult(s) ==
    CASE s = "INTENT_RECORDED" -> "INTENT_ALREADY_RECORDED"
      [] s = "SUBMISSION_STARTED" -> "SUBMISSION_ALREADY_STARTED"
      [] s = "COLLISION" -> "IDENTITY_COLLISION"
      [] s = "CANCELLED" -> "ALREADY_RECORDED"
      [] s \notin {"INTENT_RECORDED", "SUBMISSION_STARTED", "COLLISION", "CANCELLED"} -> s

\* What submit and reconcile answer after appending state s themselves.
AppendedResult(s) == IF s = "COLLISION" THEN "RECONCILIATION_CONFLICT" ELSE s

\* SubmissionOutcome, and how a call can end without one.
SubmissionOutcome ==
    {"AUTHORIZATION_DENIED", "ALREADY_RECORDED", "INTENT_ALREADY_RECORDED",
     "SUBMISSION_ALREADY_STARTED", "ACKNOWLEDGED", "EXPLICITLY_REJECTED",
     "RECONCILE_REQUIRED", "RECONCILED_FOUND", "RECONCILED_NOT_FOUND_PENDING",
     "IDENTITY_COLLISION", "RECONCILIATION_CONFLICT", "JOURNAL_FAILURE",
     "UNSUPPORTED_ADAPTER_CAPABILITY", "LOCK_UNAVAILABLE"}
NoResult == "NO_RESULT"     \* no call has returned, or a crash took it
Raised == "RAISED"          \* an exception left the call

\* Where a thread is in submit or reconcile.
PC == {"idle", "submit_lock", "flock", "check", "validate", "write", "sync",
       "mutate", "await", "reconcile_lock", "read", "lookup"}

Faults == {"call", "io", "short_write", "crash", "foreign"}

ASSUME ThreadsAssumption ==
    /\ CoordinatorOf \in [Workers -> Coordinators]
    /\ DOMAIN ProcessOf = Coordinators
    /\ Certified \subseteq Coordinators
    /\ Nobody \notin Workers
ASSUME IntentAssumption ==
    /\ Digests # {}
    /\ DOMAIN ClientOrderId = Digests
    /\ VerifyMatch \in BOOLEAN
ASSUME BoundsAssumption ==
    /\ MaxCalls \in Nat /\ MaxIOFaults \in Nat /\ MaxShortWrites \in Nat
    /\ MaxCrashes \in Nat /\ MaxForeign \in Nat

VARIABLES
    latest,      \* [Digests -> state]: replay of the file as every reader sees it
    durable,     \* [Digests -> state]: replay of the part that fsync has covered
    tail,        \* "clean", or "torn": the file ends in a fragment without newline
    digestLock,  \* [Coordinators \X Digests -> holder]: _digest_locks
    flock,       \* holder of the _CrossProcessLock
    journalLock, \* [Coordinators -> holder]: the RLock of each journal object
    pc, arg,     \* where each thread is, and the digest it works on
    todo,        \* the state the append_transition in progress is to write
    ret,         \* how each thread's last call ended
    calls,       \* [Digests -> Nat]: requests mutate has sent to the exchange
    placed,      \* [Digests -> Nat]: of these, the ones that became orders
    refused,     \* [Digests -> Nat]: of these, the ones that never will
    foreign,     \* client order ids under which a third party's order exists
    budget       \* what is left of each bound

journal == <<latest, durable, tail>>
locks == <<digestLock, flock, journalLock>>
threads == <<pc, arg, todo, ret>>
exchange == <<calls, placed, refused, foreign>>
vars == <<latest, durable, tail, digestLock, flock, journalLock,
          pc, arg, todo, ret, calls, placed, refused, foreign, budget>>

(***************************************************************************)
(* Types                                                                   *)
(***************************************************************************)

Records == IntentState \cup {NoRecord}
Holders == Workers \cup {Nobody}

\* The type invariant.
TypeOK ==
    /\ latest \in [Digests -> Records]
    /\ durable \in [Digests -> Records]
    /\ tail \in {"clean", "torn"}
    /\ digestLock \in [Coordinators \X Digests -> Holders]
    /\ flock \in Holders
    /\ journalLock \in [Coordinators -> Holders]
    /\ pc \in [Workers -> PC]
    /\ arg \in [Workers -> Digests]
    /\ todo \in [Workers -> Records]
    /\ ret \in [Workers -> SubmissionOutcome \cup {NoResult, Raised}]
    /\ calls \in [Digests -> Nat]
    /\ placed \in [Digests -> Nat]
    /\ refused \in [Digests -> Nat]
    /\ foreign \subseteq {ClientOrderId[d] : d \in Digests}
    /\ budget \in [Faults -> Nat]

Init ==
    /\ latest = [d \in Digests |-> NoRecord]
    /\ durable = [d \in Digests |-> NoRecord]
    /\ tail = "clean"
    /\ digestLock = [k \in Coordinators \X Digests |-> Nobody]
    /\ flock = Nobody
    /\ journalLock = [c \in Coordinators |-> Nobody]
    /\ pc = [w \in Workers |-> "idle"]
    /\ arg = [w \in Workers |-> CHOOSE d \in Digests : TRUE]
    /\ todo = [w \in Workers |-> NoRecord]
    /\ ret = [w \in Workers |-> NoResult]
    /\ calls = [d \in Digests |-> 0]
    /\ placed = [d \in Digests |-> 0]
    /\ refused = [d \in Digests |-> 0]
    /\ foreign = {}
    /\ budget = [f \in Faults |->
                    CASE f = "call" -> MaxCalls
                      [] f = "io" -> MaxIOFaults
                      [] f = "short_write" -> MaxShortWrites
                      [] f = "crash" -> MaxCrashes
                      [] f = "foreign" -> MaxForeign]

Spend(f) ==
    /\ budget[f] > 0
    /\ budget' = [budget EXCEPT ![f] = @ - 1]

Released(lock, w) == [k \in DOMAIN lock |-> IF lock[k] = w THEN Nobody ELSE lock[k]]

\* The call returns (or raises): every `with` it is in lets go of its lock.
Return(w, outcome) ==
    /\ pc' = [pc EXCEPT ![w] = "idle"]
    /\ todo' = [todo EXCEPT ![w] = NoRecord]
    /\ ret' = [ret EXCEPT ![w] = outcome]
    /\ digestLock' = Released(digestLock, w)
    /\ flock' = IF flock = w THEN Nobody ELSE flock
    /\ journalLock' = Released(journalLock, w)
    /\ UNCHANGED arg

\* The thread goes on at label l, to append state s if that is what l does.
Goto(w, l, s) ==
    /\ pc' = [pc EXCEPT ![w] = l]
    /\ todo' = [todo EXCEPT ![w] = s]
    /\ UNCHANGED <<arg, ret>>

\* Readers and writers of one journal object exclude each other.
JournalFree(w) == journalLock[CoordinatorOf[w]] = Nobody

(***************************************************************************)
(* OrderIntentCoordinator.submit                                           *)
(***************************************************************************)

\* The early returns: the caller was not authorized, or the adapter is not
\* certified. Nothing is locked, read or written.
SubmitRefused(w, d) ==
    /\ pc[w] = "idle"
    /\ Spend("call")
    /\ \E outcome \in {"AUTHORIZATION_DENIED", "UNSUPPORTED_ADAPTER_CAPABILITY"} :
        /\ outcome = "UNSUPPORTED_ADAPTER_CAPABILITY" =>
              CoordinatorOf[w] \notin Certified
        /\ ret' = [ret EXCEPT ![w] = outcome]
    /\ arg' = [arg EXCEPT ![w] = d]
    /\ UNCHANGED <<pc, todo, journal, locks, exchange>>

SubmitCalled(w, d) ==
    /\ pc[w] = "idle"
    /\ CoordinatorOf[w] \in Certified
    /\ Spend("call")
    /\ pc' = [pc EXCEPT ![w] = "submit_lock"]
    /\ arg' = [arg EXCEPT ![w] = d]
    /\ ret' = [ret EXCEPT ![w] = NoResult]
    /\ UNCHANGED <<todo, journal, locks, exchange>>

\* `with self._lock_for(digest)`, on the way into submit or reconcile.
AcquireDigestLock(w) ==
    LET k == <<CoordinatorOf[w], arg[w]>> IN
    /\ pc[w] \in {"submit_lock", "reconcile_lock"}
    /\ digestLock[k] = Nobody
    /\ digestLock' = [digestLock EXCEPT ![k] = w]
    /\ Goto(w, IF pc[w] = "submit_lock" THEN "flock" ELSE "read", NoRecord)
    /\ UNCHANGED <<flock, journalLock, journal, exchange, budget>>

\* Faulty variant: the flock is asked for and not held.
AcquireFlockNotHeld(w) ==
    /\ pc[w] = "flock"
    /\ flock = Nobody
    /\ Goto(w, "check", NoRecord)
    /\ UNCHANGED <<locks, journal, exchange, budget>>

\* `with cross_process_lock`: blocks until the flock is free ...
AcquireFlock(w) ==
    /\ pc[w] = "flock"
    /\ flock = Nobody
    /\ flock' = w
    /\ Goto(w, "check", NoRecord)
    /\ UNCHANGED <<digestLock, journalLock, journal, exchange, budget>>

\* ... or fails at once, and the call fails closed.
FlockFails(w) ==
    /\ pc[w] = "flock"
    /\ Spend("io")
    /\ Return(w, "LOCK_UNAVAILABLE")
    /\ UNCHANGED <<journal, exchange>>

\* Faulty variant: the client order id is not looked up.
CidTakenUnchecked(d) == FALSE

CidTaken(d) ==
    \E e \in Digests \ {d} : latest[e] # NoRecord /\ ClientOrderId[e] = ClientOrderId[d]

\* Another digest already owns the client order id: refuse. If both are in
\* the journal, the one recorded first decides, and either answer is possible.
CheckCollision(w) ==
    /\ pc[w] = "check"
    /\ JournalFree(w)
    /\ CidTaken(arg[w])
    /\ Return(w, "IDENTITY_COLLISION")
    /\ UNCHANGED <<journal, exchange, budget>>

\* The intent is known: report its recorded state, send nothing.
CheckExisting(w) ==
    /\ pc[w] = "check"
    /\ JournalFree(w)
    /\ latest[arg[w]] # NoRecord
    /\ Return(w, TypedResult(latest[arg[w]]))
    /\ UNCHANGED <<journal, exchange, budget>>

\* A new intent: register it.
CheckNew(w) ==
    /\ pc[w] = "check"
    /\ JournalFree(w)
    /\ ~CidTaken(arg[w])
    /\ latest[arg[w]] = NoRecord
    /\ Goto(w, "validate", "INTENT_RECORDED")
    /\ UNCHANGED <<journal, locks, exchange, budget>>

(***************************************************************************)
(* OrderIntentJournal.append_transition, in the steps another journal      *)
(* object on the same path, or a crash, can come between.                  *)
(***************************************************************************)

\* Faulty variant: the exception leaves the digest lock held.
AppendRaisesKeepingLock(w) ==
    /\ pc' = [pc EXCEPT ![w] = "idle"]
    /\ todo' = [todo EXCEPT ![w] = NoRecord]
    /\ ret' = [ret EXCEPT ![w] = Raised]
    /\ flock' = IF flock = w THEN Nobody ELSE flock
    /\ journalLock' = Released(journalLock, w)
    /\ UNCHANGED <<arg, digestLock>>

\* An exception in an append: before the mutation submit answers
\* JOURNAL_FAILURE, later (and in reconcile) the exception leaves the call.
AppendRaises(w) ==
    Return(w, IF todo[w] \in {"INTENT_RECORDED", "SUBMISSION_STARTED"}
              THEN "JOURNAL_FAILURE" ELSE Raised)

\* Faulty variant: transitions are not validated.
TransitionAlwaysValid(from, to) == TRUE

\* A same-state append is never refused.
TransitionValid(from, to) == to = from \/ to \in AllowedTransitions(from)

AppendValidate(w) ==
    /\ pc[w] = "validate"
    /\ JournalFree(w)
    /\ TransitionValid(latest[arg[w]], todo[w])
    /\ journalLock' = [journalLock EXCEPT ![CoordinatorOf[w]] = w]
    /\ Goto(w, "write", todo[w])
    /\ UNCHANGED <<digestLock, flock, journal, exchange, budget>>

\* InvalidTransitionError
AppendInvalid(w) ==
    /\ pc[w] = "validate"
    /\ JournalFree(w)
    /\ ~TransitionValid(latest[arg[w]], todo[w])
    /\ AppendRaises(w)
    /\ UNCHANGED <<journal, exchange, budget>>

\* The file is opened in append mode, so after a fragment the new line only
\* completes it to one unparsable line, which every replay skips.
AppendWrite(w) ==
    /\ pc[w] = "write"
    /\ latest' = IF tail = "clean" THEN [latest EXCEPT ![arg[w]] = todo[w]] ELSE latest
    /\ tail' = "clean"
    /\ Goto(w, "sync", todo[w])
    /\ UNCHANGED <<durable, locks, exchange, budget>>

\* Reading, opening or writing fails and the file is as it was.
AppendWriteFails(w) ==
    /\ pc[w] \in {"validate", "write"}
    /\ Spend("io")
    /\ AppendRaises(w)
    /\ UNCHANGED <<journal, exchange>>

\* write fails after some of the line's bytes.
AppendShortWrite(w) ==
    /\ pc[w] = "write"
    /\ Spend("short_write")
    /\ tail' = "torn"
    /\ AppendRaises(w)
    /\ UNCHANGED <<latest, durable, exchange>>

\* os.fsync returns: the whole file is durable and the append is done. What
\* follows is in the caller. After INTENT_RECORDED: the next append.
SyncIntentRecorded(w) ==
    /\ pc[w] = "sync"
    /\ todo[w] = "INTENT_RECORDED"
    /\ durable' = latest
    /\ journalLock' = Released(journalLock, w)
    /\ Goto(w, "validate", "SUBMISSION_STARTED")
    /\ UNCHANGED <<latest, tail, digestLock, flock, exchange, budget>>

\* Faulty variant: the mutation follows without an fsync.
SyncSubmissionStartedSkipped(w) ==
    /\ pc[w] = "sync"
    /\ todo[w] = "SUBMISSION_STARTED"
    /\ journalLock' = Released(journalLock, w)
    /\ flock' = Nobody
    /\ Goto(w, "mutate", NoRecord)
    /\ UNCHANGED <<journal, digestLock, exchange, budget>>

\* After SUBMISSION_STARTED: the flock is released, then comes the mutation.
SyncSubmissionStarted(w) ==
    /\ pc[w] = "sync"
    /\ todo[w] = "SUBMISSION_STARTED"
    /\ durable' = latest
    /\ journalLock' = Released(journalLock, w)
    /\ flock' = Nobody
    /\ Goto(w, "mutate", NoRecord)
    /\ UNCHANGED <<latest, tail, digestLock, exchange, budget>>

\* After an outcome: the typed result.
SyncOutcome(w) ==
    /\ pc[w] = "sync"
    /\ todo[w] \notin {"INTENT_RECORDED", "SUBMISSION_STARTED"}
    /\ durable' = latest
    /\ Return(w, AppendedResult(todo[w]))
    /\ UNCHANGED <<latest, tail, exchange, budget>>

\* os.fsync fails: the record is readable and not durable.
AppendSyncFails(w) ==
    /\ pc[w] = "sync"
    /\ Spend("io")
    /\ AppendRaises(w)
    /\ UNCHANGED <<journal, exchange>>

(***************************************************************************)
(* The mutate callback and the exchange                                    *)
(***************************************************************************)

\* mutate sends its one request.
Mutate(w) ==
    /\ pc[w] = "mutate"
    /\ calls' = [calls EXCEPT ![arg[w]] = @ + 1]
    /\ Goto(w, "await", NoRecord)
    /\ UNCHANGED <<placed, refused, foreign, journal, locks, budget>>

InFlight(d) == calls[d] > placed[d] + refused[d]

\* The exchange decides a request, whether or not anybody still waits.
ExchangePlaces(d) ==
    /\ InFlight(d)
    /\ placed' = [placed EXCEPT ![d] = @ + 1]
    /\ UNCHANGED <<calls, refused, foreign, journal, locks, threads, budget>>

\* A request that is rejected or lost on the way never becomes an order.
ExchangeRefuses(d) ==
    /\ InFlight(d)
    /\ refused' = [refused EXCEPT ![d] = @ + 1]
    /\ UNCHANGED <<calls, placed, foreign, journal, locks, threads, budget>>

\* The account holds an order with one of our ids that we did not place.
ForeignOrder(d) ==
    /\ Spend("foreign")
    /\ foreign' = foreign \cup {ClientOrderId[d]}
    /\ UNCHANGED <<calls, placed, refused, journal, locks, threads>>

\* Faulty variant: an ambiguous answer is retried.
MutationAnswerRetried(w) ==
    /\ pc[w] = "await"
    /\ \/ placed[arg[w]] > 0 /\ Goto(w, "validate", "ACKNOWLEDGED")
       \/ Goto(w, "mutate", NoRecord)
    /\ UNCHANGED <<journal, locks, exchange, budget>>

\* Faulty variant: an ambiguous answer is taken for a rejection.
MutationAnswerGuessed(w) ==
    /\ pc[w] = "await"
    /\ \/ placed[arg[w]] > 0 /\ Goto(w, "validate", "ACKNOWLEDGED")
       \/ Goto(w, "validate", "EXPLICITLY_REJECTED")
    /\ UNCHANGED <<journal, locks, exchange, budget>>

\* The answer mutate makes of what it saw: a clean acknowledgement, a clean
\* rejection, or (at any time: a timeout, a lost response) an ambiguity.
MutationAnswer(w) ==
    /\ pc[w] = "await"
    /\ \/ placed[arg[w]] > 0 /\ Goto(w, "validate", "ACKNOWLEDGED")
       \/ refused[arg[w]] > 0 /\ Goto(w, "validate", "EXPLICITLY_REJECTED")
       \/ Goto(w, "validate", "RECONCILE_REQUIRED")
    /\ UNCHANGED <<journal, locks, exchange, budget>>

(***************************************************************************)
(* OrderIntentCoordinator.reconcile                                        *)
(***************************************************************************)

ReconcileRefused(w, d) ==
    /\ pc[w] = "idle"
    /\ CoordinatorOf[w] \notin Certified
    /\ Spend("call")
    /\ arg' = [arg EXCEPT ![w] = d]
    /\ ret' = [ret EXCEPT ![w] = "UNSUPPORTED_ADAPTER_CAPABILITY"]
    /\ UNCHANGED <<pc, todo, journal, locks, exchange>>

ReconcileCalled(w, d) ==
    /\ pc[w] = "idle"
    /\ CoordinatorOf[w] \in Certified
    /\ Spend("call")
    /\ pc' = [pc EXCEPT ![w] = "reconcile_lock"]
    /\ arg' = [arg EXCEPT ![w] = d]
    /\ ret' = [ret EXCEPT ![w] = NoResult]
    /\ UNCHANGED <<todo, journal, locks, exchange>>

Ambiguous == {"RECONCILE_REQUIRED", "RECONCILED_NOT_FOUND_PENDING"}

\* Nothing to reconcile: no record, or its state is settled or not yet ambiguous.
ReconcileNothing(w) ==
    LET s == latest[arg[w]] IN
    /\ pc[w] = "read"
    /\ JournalFree(w)
    /\ s \notin Ambiguous
    /\ Return(w, IF s = NoRecord THEN "JOURNAL_FAILURE" ELSE TypedResult(s))
    /\ UNCHANGED <<journal, exchange, budget>>

ReconcileRead(w) ==
    /\ pc[w] = "read"
    /\ JournalFree(w)
    /\ latest[arg[w]] \in Ambiguous
    /\ Goto(w, "lookup", NoRecord)
    /\ UNCHANGED <<journal, locks, exchange, budget>>

\* Orders the exchange lists under d's client order id: ours, and the others.
OwnMatch(d) == placed[d] > 0
OtherMatch(d) ==
    \/ ClientOrderId[d] \in foreign
    \/ \E e \in Digests \ {d} : ClientOrderId[e] = ClientOrderId[d] /\ placed[e] > 0
ManyMatches(d) == OwnMatch(d) /\ (OtherMatch(d) \/ placed[d] > 1)

\* Faulty variant: any order under the id is taken for ours.
LookupVerdictUnverified(d) ==
    IF OwnMatch(d) \/ OtherMatch(d) THEN "RECONCILED_FOUND"
    ELSE "RECONCILED_NOT_FOUND_PENDING"

\* The state reconcile appends for what the lookup returned.
LookupVerdict(d) ==
    IF ManyMatches(d) THEN "COLLISION"
    ELSE IF OwnMatch(d) THEN "RECONCILED_FOUND"
    ELSE IF OtherMatch(d) THEN (IF VerifyMatch THEN "COLLISION" ELSE "RECONCILED_FOUND")
    ELSE "RECONCILED_NOT_FOUND_PENDING"

ReconcileLookup(w) ==
    /\ pc[w] = "lookup"
    /\ Goto(w, "validate", LookupVerdict(arg[w]))
    /\ UNCHANGED <<journal, locks, exchange, budget>>

\* The lookup itself fails.
ReconcileLookupFails(w) ==
    /\ pc[w] = "lookup"
    /\ Spend("io")
    /\ Goto(w, "validate", "RECONCILE_REQUIRED")
    /\ UNCHANGED <<journal, locks, exchange>>

\* The read of the journal, outside of an append, or the lookup callback
\* raises, and so does the call.
ReadRaises(w) ==
    /\ pc[w] \in {"check", "read", "lookup"}
    /\ Spend("io")
    /\ Return(w, Raised)
    /\ UNCHANGED <<journal, exchange>>

(***************************************************************************)
(* Crashes                                                                 *)
(***************************************************************************)

\* The threads in W are gone, with the locks they held; a line one of them
\* was writing may be left as a fragment.
Killed(W) ==
    /\ pc' = [w \in Workers |-> IF w \in W THEN "idle" ELSE pc[w]]
    /\ todo' = [w \in Workers |-> IF w \in W THEN NoRecord ELSE todo[w]]
    /\ ret' = [w \in Workers |-> IF w \in W THEN NoResult ELSE ret[w]]
    /\ digestLock' = [k \in DOMAIN digestLock |->
                        IF digestLock[k] \in W THEN Nobody ELSE digestLock[k]]
    /\ flock' = IF flock \in W THEN Nobody ELSE flock
    /\ journalLock' = [c \in Coordinators |->
                        IF journalLock[c] \in W THEN Nobody ELSE journalLock[c]]
    /\ tail' \in {tail} \cup (IF \E w \in W : pc[w] = "write" THEN {"torn"} ELSE {})
    /\ UNCHANGED arg

\* A process dies; the operating system keeps what it had written.
ProcessCrash(c) ==
    /\ Spend("crash")
    /\ Killed({w \in Workers : ProcessOf[CoordinatorOf[w]] = ProcessOf[c]})
    /\ UNCHANGED <<latest, durable, exchange>>

\* The host dies: of the records fsync has not covered, any may be lost.
PowerFailure ==
    /\ Spend("crash")
    /\ Killed(Workers)
    /\ \E lost \in SUBSET Digests :
          latest' = [d \in Digests |-> IF d \in lost THEN durable[d] ELSE latest[d]]
    /\ durable' = latest'
    /\ UNCHANGED exchange

-----------------------------------------------------------------------------

\* What a call does once it has begun, other than fail.
Step(w) ==
    \/ AcquireDigestLock(w) \/ AcquireFlock(w)
    \/ CheckCollision(w) \/ CheckExisting(w) \/ CheckNew(w)
    \/ AppendValidate(w) \/ AppendInvalid(w) \/ AppendWrite(w)
    \/ SyncIntentRecorded(w) \/ SyncSubmissionStarted(w) \/ SyncOutcome(w)
    \/ Mutate(w) \/ MutationAnswer(w)
    \/ ReconcileNothing(w) \/ ReconcileRead(w) \/ ReconcileLookup(w)

Fault(w) ==
    \/ FlockFails(w) \/ AppendWriteFails(w) \/ AppendShortWrite(w)
    \/ AppendSyncFails(w) \/ ReconcileLookupFails(w) \/ ReadRaises(w)

Call(w, d) ==
    \/ SubmitRefused(w, d) \/ SubmitCalled(w, d)
    \/ ReconcileRefused(w, d) \/ ReconcileCalled(w, d)

Exchange(d) == ExchangePlaces(d) \/ ExchangeRefuses(d) \/ ForeignOrder(d)

Next ==
    \/ \E w \in Workers : Step(w) \/ Fault(w)
    \/ \E w \in Workers, d \in Digests : Call(w, d)
    \/ \E d \in Digests : Exchange(d)
    \/ \E c \in Coordinators : ProcessCrash(c)
    \/ PowerFailure

Spec == Init /\ [][Next]_vars

\* Threads that are not blocked are scheduled; the environment owes nothing.
FairSpec == Spec /\ \A w \in Workers : WF_vars(Step(w))

(***************************************************************************)
(* Properties                                                              *)
(***************************************************************************)

\* States at and after SUBMISSION_STARTED.
Started == IntentState \ {"INTENT_RECORDED"}

\* submit's docstring: mutate is called at most once per logical intent,
\* over all threads, coordinators, crashes and restarts.
AtMostOnceSubmission == \A d \in Digests : calls[d] <= 1

\* I3: before a request leaves, SUBMISSION_STARTED or a later state of its
\* intent is in the part of the journal that survives a power failure.
DurableBeforeNetwork ==
    \A d \in Digests :
        (calls[d] > 0 \/ \E w \in Workers : pc[w] = "mutate" /\ arg[w] = d)
            => latest[d] \in Started /\ durable[d] \in Started

\* I7: two intents whose ids collide never both reach the exchange.
OneIntentPerClientOrderId ==
    \A d, e \in Digests :
        calls[d] > 0 /\ calls[e] > 0 /\ ClientOrderId[d] = ClientOrderId[e] => d = e

\* A settled journal state is true of the exchange: an acknowledged or found
\* intent is an order, a rejected one never becomes one, and COLLISION is
\* only recorded when an order that is not ours has our id.
JournalTruthful ==
    \A d \in Digests :
        /\ latest[d] \in {"ACKNOWLEDGED", "RECONCILED_FOUND"} => placed[d] = 1
        /\ latest[d] = "EXPLICITLY_REJECTED" => placed[d] = 0 /\ ~InFlight(d)
        /\ latest[d] = "COLLISION" => ClientOrderId[d] \in foreign

\* What a call is told is true of the exchange: nobody is told that an intent
\* which is not an order is one, or that an order was rejected.
ResultTruthful ==
    \A w \in Workers :
        /\ ret[w] \in {"ACKNOWLEDGED", "RECONCILED_FOUND"} => placed[arg[w]] = 1
        /\ ret[w] = "EXPLICITLY_REJECTED" => placed[arg[w]] = 0 /\ ~InFlight(arg[w])

\* I10: whatever the threads race, the state of an intent moves only along
\* _ALLOWED_TRANSITIONS; only a power failure takes unsynced records back.
OnlyAllowedTransitions ==
    [][\A d \in Digests :
        \/ latest'[d] = latest[d]
        \/ latest'[d] \in AllowedTransitions(latest[d])
        \/ latest'[d] = durable[d] /\ \A w \in Workers : pc'[w] = "idle"]_vars

\* ADR-0020: a lookup failure leaves the intent in RECONCILE_REQUIRED,
\* recording the read failure.
LookupFailureRecorded ==
    \A w \in Workers :
        pc[w] = "validate" /\ todo[w] = "RECONCILE_REQUIRED" /\ latest[arg[w]] \in Ambiguous
            => TransitionValid(latest[arg[w]], todo[w])

\* What the exchange has made of the intent, and what a record in state s
\* says of it, in the words of SubmitOnce.
Fate(d) ==
    CASE calls[d] = 0 -> "unsent"
      [] calls[d] > 0 /\ InFlight(d) -> "in_flight"
      [] calls[d] > 0 /\ ~InFlight(d) /\ placed[d] > 0 -> "order"
      [] calls[d] > 0 /\ ~InFlight(d) /\ placed[d] = 0 -> "void"
Meaning(s) ==
    CASE s \in {"ACKNOWLEDGED", "RECONCILED_FOUND"} -> "order"
      [] s = "EXPLICITLY_REJECTED" -> "void"
      [] s = "COLLISION" -> "conflict"
      [] s \notin {"ACKNOWLEDGED", "RECONCILED_FOUND", "EXPLICITLY_REJECTED", "COLLISION"} -> "unknown"

\* What the protocol promises: see SubmitOnce. Of the journal, its durable part.
Promise == INSTANCE SubmitOnce WITH
    sent <- calls,
    fate <- [d \in Digests |-> Fate(d)],
    known <- [d \in Digests |-> Meaning(durable[d])]

\* With one coordinator per journal the protocol implements SubmitOnce: each
\* intent is sent once, and what is durably known of it is true and final.
ImplementsSubmitOnce == Promise!Spec

\* Every call of submit or reconcile that begins ends: the digest lock, the
\* flock and the journal lock cannot deadlock, on any path, failures included.
CallsReturn == \A w \in Workers : pc[w] # "idle" ~> pc[w] = "idle"

=============================================================================
