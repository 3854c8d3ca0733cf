--------------------- MODULE OperatorDecisionStore_proofs ---------------------
(***************************************************************************)
(* Proofs about OperatorDecisionStore, for any commands, requests,         *)
(* projectors, expiries and bounds.                                        *)
(***************************************************************************)
EXTENDS OperatorDecisionStore, FiniteSetTheorems, TLAPS

(***************************************************************************)
(* Type correctness                                                        *)
(***************************************************************************)

\* TypeOK alone does not say that the attestations can be counted, nor that
\* a projection that has read its events has an attestation.
TypeInv ==
    /\ TypeOK
    /\ IsFiniteSet(attested)
    /\ \A p \in Projectors : pc[p] # "idle" => att[p] \in Attestation

\* What the type of the journal says of one event, and of its row.
LEMMA EventType ==
    ASSUME TypeOK, NEW i \in DOMAIN journal
    PROVE  /\ i \in Nat /\ i \in 1..Len(journal)
           /\ journal[i].did \in Nat /\ journal[i].request \in Requests
           /\ journal[i].command \in Commands
           /\ Row(i) \in Entry
<1>1. journal[i] \in Event /\ i \in Nat /\ i \in 1..Len(journal)
  BY DEF TypeOK
<1>2. journal[i].did \in Nat /\ journal[i].request \in Requests
      /\ journal[i].command \in Commands
  BY <1>1 DEF Event
<1>3. QED
  BY <1>1, <1>2 DEF Row, Entry

\* The row that rebuild_command_index and a restored copy give to a command.
LEMMA OriginRowType ==
    ASSUME TypeOK, NEW c \in Commands, NEW n \in 0..Len(journal), Origin(c, n) # {}
    PROVE  Row(CHOOSE i \in Origin(c, n) : TRUE) \in Entry
<1>1. (CHOOSE i \in Origin(c, n) : TRUE) \in Origin(c, n)
  OBVIOUS
<1>2. Origin(c, n) \subseteq DOMAIN journal
  BY DEF Origin, TypeOK
<1>3. QED
  BY <1>1, <1>2, EventType

\* The initial state: an empty journal, nobody at work.
LEMMA InitTypeInv == Init => TypeInv
<1>1. ASSUME Init PROVE IsFiniteSet(attested)
  BY <1>1, FS_EmptySet DEF Init
<1>2. ASSUME Init
      PROVE  /\ journal \in Seq(Event) /\ index \in [Commands -> Entry \cup {None}]
             /\ nextId \in Nat /\ clock \in Nat /\ faults \in 0..MaxFaults
  BY <1>2, BoundsAssumption DEF Init
<1>3. ASSUME Init
      PROVE  /\ intact \in BOOLEAN /\ raced \in BOOLEAN
             /\ pc \in [Projectors -> {"idle", "read", "accept"}]
             /\ att \in [Projectors -> Attestation \cup {None}]
             /\ loaded \in [Projectors -> Checkpoint \cup {None}]
  BY <1>3 DEF Init
<1>4. ASSUME Init PROVE \A p \in Projectors : pc[p] = "idle"
  BY <1>4 DEF Init
<1>5. QED
  BY <1>1, <1>2, <1>3, <1>4 DEF Init, TypeInv, TypeOK

\* admit and rebuild_command_index keep the types.
LEMMA AdmitType ==
    ASSUME TypeInv, AdmitNext \/ RebuildCommandIndex
    PROVE  TypeInv'
<1> USE DEF TypeInv, TypeOK, projection, file
<1>1. ASSUME NEW c \in Commands, NEW r \in Requests, AdmitReplay(c, r)
      PROVE  TypeInv'
  BY <1>1 DEF AdmitReplay, Answered, Entry
<1>2. ASSUME NEW c \in Commands, NEW r \in Requests, AdmitConverge(c, r)
      PROVE  TypeInv'
  <2>1. PICK i \in DOMAIN journal :
          /\ journal[i].request = r
          /\ index' = [index EXCEPT ![c] = [did |-> journal[i].did, seq |-> i, request |-> r]]
          /\ Answered(r, journal[i].did)
    BY <1>2 DEF AdmitConverge
  <2>2. journal[i] \in Event /\ i \in Nat
    OBVIOUS
  <2>3. index' \in [Commands -> Entry \cup {None}]
    BY <2>1, <2>2 DEF Event, Entry
  <2>4. replies' \subseteq [request: Requests, did: Nat]
    BY <2>1, <2>2 DEF Event, Answered
  <2>5. QED
    BY <1>2, <2>3, <2>4 DEF AdmitConverge
<1>3. ASSUME NEW c \in Commands, NEW r \in Requests, AdmitNew(c, r)
      PROVE  TypeInv'
  <2>1. [did |-> nextId, request |-> r, command |-> c] \in Event
    BY DEF Event
  <2>2. journal' \in Seq(Event) /\ nextId' \in Nat
    BY <1>3, <2>1 DEF AdmitNew, AppendEvent
  <2>3. [did |-> nextId, seq |-> Len(journal) + 1, request |-> r] \in Entry
    BY DEF Entry
  <2>4. index' \in [Commands -> Entry \cup {None}]
    BY <1>3, <2>3 DEF AdmitNew
  <2>5. replies' \subseteq [request: Requests, did: Nat]
    BY <1>3 DEF AdmitNew, AppendEvent, Answered
  <2>6. QED
    BY <1>3, <2>2, <2>4, <2>5 DEF AdmitNew
<1>4. ASSUME NEW c \in Commands, NEW r \in Requests, AdmitExpired(c, r)
      PROVE  TypeInv'
  BY <1>4 DEF AdmitExpired
<1>5. ASSUME RebuildCommandIndex PROVE TypeInv'
  <2>1. index' \in [Commands -> Entry \cup {None}]
    BY <1>5, OriginRowType DEF RebuildCommandIndex
  <2>2. QED
    BY <1>5, <2>1 DEF RebuildCommandIndex
<1>6. QED
  BY <1>1, <1>2, <1>3, <1>4, <1>5 DEF AdmitNext

\* A call of project that returns leaves a well-typed idle projector.
LEMMA FinishType ==
    ASSUME TypeInv, NEW p \in Projectors, Finish(p)
    PROVE  /\ pc' \in [Projectors -> {"idle", "read", "accept"}]
           /\ att' \in [Projectors -> Attestation \cup {None}]
           /\ loaded' \in [Projectors -> Checkpoint \cup {None}]
           /\ \A q \in Projectors : pc'[q] # "idle" =>
                pc[q] # "idle" /\ att'[q] \in Attestation
BY DEF TypeInv, TypeOK, Finish

\* project keeps the types.
LEMMA ProjectType ==
    ASSUME TypeInv, ProjectNext
    PROVE  TypeInv'
<1> USE DEF TypeInv, TypeOK, store, file
<1>1. ASSUME NEW p \in Projectors, NEW a \in attested, ProjectRead(p, a)
      PROVE  TypeInv'
  BY <1>1 DEF ProjectRead
<1>2. ASSUME NEW p \in Projectors, ProjectAnchor(p)
      PROVE  TypeInv'
  BY <1>2 DEF ProjectAnchor
<1>3. ASSUME NEW p \in Projectors, ProjectRefuse(p) \/ ProjectFails(p)
      PROVE  TypeInv'
  <2>1. Finish(p) /\ UNCHANGED <<store, anchor, shown, raced>>
    BY <1>3 DEF ProjectRefuse, ProjectFails
  <2>2. QED
    BY <2>1, FinishType
<1>4. ASSUME NEW p \in Projectors, ProjectAccept(p)
      PROVE  TypeInv'
  <2>1. att[p] \in Attestation
    BY <1>4 DEF ProjectAccept
  <2>2. anchor' \in Checkpoint \cup {None}
    BY <1>4, <2>1 DEF ProjectAccept, Attestation, Checkpoint
  <2>3. shown' \in Seq(Event) \cup {None} /\ raced' \in BOOLEAN
    BY <1>4, <2>1 DEF ProjectAccept, Attestation
  <2>4. QED
    BY <1>4, <2>2, <2>3, FinishType DEF ProjectAccept
<1>5. QED
  BY <1>1, <1>2, <1>3, <1>4 DEF ProjectNext

\* So do the clock, the authority and what happens to the file.
LEMMA EnvironmentType ==
    ASSUME TypeInv, Environment
    PROVE  TypeInv'
<1> USE DEF TypeInv, TypeOK, projection, file
<1>1. CASE Tick
  BY <1>1 DEF Tick
<1>2. CASE Attest
  <2> DEFINE new == [cp |-> Cardinality(attested) + 1, head |-> journal,
                     expires |-> clock + Validity]
  <2>1. Cardinality(attested) \in Nat
    BY FS_CardinalityType
  <2>2. new \in Attestation
    BY <2>1, BoundsAssumption DEF Attestation
  <2>3. IsFiniteSet(attested \cup {new})
    BY FS_AddElement
  <2>4. attested' = attested \cup {new}
    BY <1>2 DEF Attest
  <2>5. QED
    BY <1>2, <2>2, <2>3, <2>4 DEF Attest
<1>3. CASE DamageEvent
  <2>1. faults' \in 0..MaxFaults
    BY <1>3, BoundsAssumption DEF DamageEvent
  <2>2. QED
    BY <1>3, <2>1 DEF DamageEvent
<1>4. ASSUME NEW n \in 0..Len(journal), Restore(n) PROVE TypeInv'
  <2>1. journal' \in Seq(Event)
    BY <1>4 DEF Restore
  <2>2. index' \in [Commands -> Entry \cup {None}]
    BY <1>4, OriginRowType DEF Restore
  <2>3. QED
    BY <1>4, <2>1, <2>2, BoundsAssumption DEF Restore
<1>5. ASSUME NEW c \in Commands, NEW d \in 0..nextId, DamageIndex(c, d) PROVE TypeInv'
  <2>1. index[c] \in Entry /\ d \in Nat
    BY <1>5 DEF DamageIndex
  <2>2. [index[c] EXCEPT !.did = d] \in Entry
    BY <2>1 DEF Entry
  <2>3. index' = [index EXCEPT ![c] = [index[c] EXCEPT !.did = d]]
    BY <1>5 DEF DamageIndex
  <2>4. index' \in [Commands -> Entry \cup {None}]
    BY <2>2, <2>3
  <2>5. QED
    BY <1>5, <2>4, BoundsAssumption DEF DamageIndex
<1>6. QED
  BY <1>1, <1>2, <1>3, <1>4, <1>5 DEF Environment

\* Stuttering changes nothing.
LEMMA StutterType ==
    ASSUME TypeInv, UNCHANGED vars
    PROVE  TypeInv'
BY DEF TypeInv, TypeOK, vars

\* Every step keeps the types.
LEMMA NextType == TypeInv /\ [Next]_vars => TypeInv'
BY AdmitType, ProjectType, EnvironmentType, StutterType DEF Next

\* Every reachable state of journal, index, anchor and projections is well
\* typed, for all constants.
THEOREM TypeCorrect == Spec => []TypeOK
<1>1. TypeInv => TypeOK
  BY DEF TypeInv
<1>2. QED
  BY <1>1, InitTypeInv, NextType, PTL DEF Spec

(***************************************************************************)
(* The answers of admit                                                    *)
(***************************************************************************)

\* The inductive invariant: decision ids are used once, the command of every
\* event still has a row, so that it cannot bring a second event, and a
\* request that was refused as expired cannot become fresh again.
AdmitInv ==
    /\ \A i \in DOMAIN journal : journal[i].did < nextId
    /\ \A i \in DOMAIN journal : index[journal[i].command] # None
    /\ \A r \in expired : Expiry[r] <= clock
    /\ OneEventEach
    /\ RepliesJournaled
    /\ ExpiredIsFinal

\* The new event is the last one and the earlier ones stay.
LEMMA AppendedEvent ==
    ASSUME TypeOK, NEW c \in Commands, NEW r \in Requests, AppendEvent(c, r)
    PROVE  /\ DOMAIN journal' = 1..(Len(journal) + 1)
           /\ \A i \in DOMAIN journal : i \in DOMAIN journal' /\ journal'[i] = journal[i]
           /\ \A i \in DOMAIN journal' : i = Len(journal) + 1 \/ i \in DOMAIN journal
           /\ journal'[Len(journal) + 1] = [did |-> nextId, request |-> r, command |-> c]
<1>1. [did |-> nextId, request |-> r, command |-> c] \in Event
  BY DEF TypeOK, Event
<1>2. QED
  BY <1>1 DEF TypeOK, AppendEvent

\* A new event keeps the invariant: its key and its command are new.
LEMMA AdmitNewInv ==
    ASSUME TypeOK, AdmitInv, NEW c \in Commands, NEW r \in Requests, AdmitNew(c, r)
    PROVE  AdmitInv'
<1> DEFINE n == Len(journal) + 1
<1> DEFINE e == [did |-> nextId, request |-> r, command |-> c]
<1>1. AppendEvent(c, r) /\ index[c] = None /\ ~HasKey(KeyOf[r]) /\ Fresh(r)
  BY DEF AdmitNew
<1>2. /\ DOMAIN journal' = 1..n /\ n \in DOMAIN journal' /\ journal'[n] = e
      /\ \A i \in DOMAIN journal : i \in DOMAIN journal' /\ journal'[i] = journal[i]
      /\ \A i \in DOMAIN journal' : i = n \/ i \in DOMAIN journal
  BY <1>1, AppendedEvent DEF TypeOK
<1>3. nextId' = nextId + 1 /\ nextId \in Nat
  BY <1>1 DEF AppendEvent, TypeOK
<1>4. /\ \A i \in DOMAIN journal : journal[i].did \in Nat
      /\ \A i \in DOMAIN journal : journal[i].command \in Commands
  BY EventType
<1>5. \A i \in DOMAIN journal : /\ journal[i].did # nextId
                                /\ journal[i].command # c
                                /\ KeyOf[journal[i].request] # KeyOf[r]
  BY <1>1, <1>3, <1>4 DEF AdmitInv, HasKey
<1>6. \A i \in DOMAIN journal' : journal'[i].did < nextId'
  BY <1>2, <1>3, <1>4 DEF AdmitInv
<1>7. \A i \in DOMAIN journal' : index'[journal'[i].command] # None
  <2>1. index' = [index EXCEPT ![c] = [did |-> nextId, seq |-> n, request |-> r]]
    BY DEF AdmitNew
  <2>2. [did |-> nextId, seq |-> n, request |-> r] # None
    BY <1>3, NoneAssumption DEF Entry, TypeOK
  <2>3. index'[c] # None /\ \A b \in Commands : b # c => index'[b] = index[b]
    BY <2>1, <2>2 DEF TypeOK
  <2>4. QED
    BY <2>3, <1>2, <1>4, <1>5 DEF AdmitInv
<1>8. OneEventEach'
  BY <1>2, <1>5 DEF AdmitInv, OneEventEach
<1>9. RepliesJournaled'
  <2>1. replies' = replies \cup {[request |-> r, did |-> nextId]}
    BY <1>1 DEF AppendEvent, Answered
  <2>2. ASSUME NEW a \in replies PROVE \E i \in DOMAIN journal' :
             journal'[i].did = a.did /\ journal'[i].request = a.request
    BY <1>2 DEF AdmitInv, RepliesJournaled
  <2>3. QED
    BY <2>1, <2>2, <1>2 DEF RepliesJournaled
<1>10. expired' = expired /\ clock' = clock
  BY DEF AdmitNew
<1>11. ExpiredIsFinal'
  <2>1. \A q \in expired : q \in Requests /\ q # r
    BY <1>1, RequestsAssumption DEF AdmitInv, Fresh, TypeOK
  <2>2. QED
    BY <2>1, <1>2, <1>10 DEF AdmitInv, ExpiredIsFinal
<1>12. QED
  BY <1>6, <1>7, <1>8, <1>9, <1>10, <1>11 DEF AdmitInv

\* An answer that names a verified entry, or an event, is true.
LEMMA AdmitOtherInv ==
    ASSUME TypeOK, AdmitInv, NEW c \in Commands, NEW r \in Requests,
           AdmitReplay(c, r) \/ AdmitConverge(c, r) \/ AdmitExpired(c, r)
    PROVE  AdmitInv'
<1> USE DEF AdmitInv, file
<1>1. CASE AdmitReplay(c, r)
  <2>1. \E i \in DOMAIN journal : journal[i].did = index[c].did /\ journal[i].request = r
    BY <1>1 DEF AdmitReplay, Verified, EntryVerified
  <2>2. replies' = replies \cup {[request |-> r, did |-> index[c].did]}
    BY <1>1 DEF AdmitReplay, Answered
  <2>3. RepliesJournaled'
    BY <1>1, <2>1, <2>2 DEF AdmitReplay, RepliesJournaled
  <2>4. QED
    BY <1>1, <2>3 DEF AdmitReplay, OneEventEach, ExpiredIsFinal
<1>2. CASE AdmitConverge(c, r)
  <2>1. PICK i \in DOMAIN journal :
          /\ journal[i].request = r
          /\ index' = [index EXCEPT ![c] = [did |-> journal[i].did, seq |-> i, request |-> r]]
          /\ Answered(r, journal[i].did)
    BY <1>2 DEF AdmitConverge
  <2>2. RepliesJournaled'
    BY <1>2, <2>1 DEF AdmitConverge, RepliesJournaled, Answered
  <2>3. [did |-> journal[i].did, seq |-> i, request |-> r] # None
    BY <2>1, EventType, NoneAssumption DEF Row
  <2>4. \A j \in DOMAIN journal : index'[journal[j].command] # None
    BY <2>1, <2>3 DEF TypeOK, Event
  <2>5. QED
    BY <1>2, <2>2, <2>4 DEF AdmitConverge, OneEventEach, ExpiredIsFinal
<1>3. CASE AdmitExpired(c, r)
  <2>1. \A i \in DOMAIN journal : journal[i].request # r
    BY <1>3 DEF AdmitExpired, HasKey
  <2>2. Expiry[r] <= clock
    BY <1>3, RequestsAssumption DEF AdmitExpired, Fresh, TypeOK
  <2>3. QED
    BY <1>3, <2>1, <2>2 DEF AdmitExpired, OneEventEach, RepliesJournaled, ExpiredIsFinal
<1>4. QED
  BY <1>1, <1>2, <1>3

\* A rebuilt index has a row for the command of every event.
LEMMA RebuildInv ==
    ASSUME TypeOK, AdmitInv, RebuildCommandIndex
    PROVE  AdmitInv'
<1>1. \A i \in DOMAIN journal : index'[journal[i].command] # None
  <2>1. TAKE i \in DOMAIN journal
  <2> DEFINE c == journal[i].command
  <2>2. c \in Commands /\ i \in Origin(c, Len(journal))
    BY EventType DEF Origin
  <2>3. index'[c] = Row(CHOOSE j \in Origin(c, Len(journal)) : TRUE)
    BY <2>2 DEF RebuildCommandIndex
  <2>4. Len(journal) \in 0..Len(journal)
    BY DEF TypeOK
  <2>5. QED
    BY <2>2, <2>3, <2>4, OriginRowType, NoneAssumption
<1>2. QED
  <2>1. UNCHANGED <<journal, nextId, clock, replies, expired>>
    BY DEF RebuildCommandIndex
  <2>2. QED
    BY <1>1, <2>1 DEF AdmitInv, OneEventEach, RepliesJournaled, ExpiredIsFinal

\* A restored copy has the first events, and the rows of their commands.
LEMMA RestoreInv ==
    ASSUME TypeOK, AdmitInv, NEW n \in 0..Len(journal), Restore(n)
    PROVE  AdmitInv'
<1>1. /\ DOMAIN journal' = 1..n
      /\ \A i \in 1..n : i \in DOMAIN journal /\ journal'[i] = journal[i]
  BY DEF Restore, TypeOK
<1>2. \A i \in 1..n : index'[journal[i].command] # None
  <2>1. TAKE i \in 1..n
  <2> DEFINE c == journal[i].command
  <2>2. c \in Commands /\ i \in Origin(c, n)
    BY <1>1, EventType DEF Origin
  <2>3. index'[c] = Row(CHOOSE j \in Origin(c, n) : TRUE)
    BY <2>2 DEF Restore
  <2>4. QED
    BY <2>2, <2>3, OriginRowType, NoneAssumption
<1>3. RepliesJournaled'
  <2>1. SUFFICES ASSUME NEW a \in replies, NEW j \in 1..n, journal[j].did = a.did
                 PROVE  journal[j].request = a.request
    <3>1. replies' = {a \in replies : \E i \in 1..n : journal[i].did = a.did}
      BY DEF Restore
    <3>2. QED
      BY <1>1, <2>1, <3>1 DEF RepliesJournaled
  <2>2. PICK i \in DOMAIN journal : journal[i].did = a.did /\ journal[i].request = a.request
    BY DEF AdmitInv, RepliesJournaled
  <2>3. i = j
    BY <1>1, <2>1, <2>2 DEF AdmitInv, OneEventEach
  <2>4. QED
    BY <2>2, <2>3
<1>4. QED
  <2>1. nextId' = nextId /\ expired' = {}
    BY DEF Restore
  <2>2. OneEventEach'
    BY <1>1 DEF AdmitInv, OneEventEach
  <2>3. /\ \A i \in DOMAIN journal' : journal'[i].did < nextId'
        /\ \A i \in DOMAIN journal' : index'[journal'[i].command] # None
    BY <1>1, <1>2, <2>1 DEF AdmitInv
  <2>4. QED
    BY <1>3, <2>1, <2>2, <2>3 DEF AdmitInv, ExpiredIsFinal

\* An altered row stays a row, and an altered event is not read.
LEMMA DamageInv ==
    ASSUME TypeOK, AdmitInv,
           DamageEvent \/ \E c \in Commands, d \in 0..nextId : DamageIndex(c, d)
    PROVE  AdmitInv'
<1> USE DEF AdmitInv, OneEventEach, RepliesJournaled, ExpiredIsFinal
<1>1. CASE DamageEvent
  BY <1>1 DEF DamageEvent
<1>2. ASSUME NEW c \in Commands, NEW d \in 0..nextId, DamageIndex(c, d)
      PROVE  AdmitInv'
  <2>0. index[c] \in Entry /\ d \in Nat
    BY <1>2 DEF DamageIndex, TypeOK
  <2>1. [index[c] EXCEPT !.did = d] # None
    BY <2>0, NoneAssumption DEF Entry
  <2>2. index' = [index EXCEPT ![c] = [index[c] EXCEPT !.did = d]]
    BY <1>2 DEF DamageIndex
  <2>3. \A i \in DOMAIN journal : index'[journal[i].command] # None
    BY <2>1, <2>2 DEF TypeOK, Event
  <2>4. QED
    BY <1>2, <2>3 DEF DamageIndex
<1>3. QED
  BY <1>1, <1>2

\* Time does not go back, and project writes nothing that admit reads.
LEMMA QuietInv ==
    ASSUME TypeOK, AdmitInv, Tick \/ Attest \/ ProjectNext \/ UNCHANGED vars
    PROVE  AdmitInv'
<1> USE DEF AdmitInv, OneEventEach, RepliesJournaled, ExpiredIsFinal, file
<1>1. CASE Tick
  <2>1. \A r \in expired : Expiry[r] <= clock + 1
    BY RequestsAssumption DEF TypeOK
  <2>2. QED
    BY <1>1, <2>1 DEF Tick
<1>2. CASE Attest
  BY <1>2 DEF Attest
<1>3. CASE ProjectNext
  <2>1. UNCHANGED store
    BY <1>3 DEF ProjectNext, ProjectRead, ProjectAnchor, ProjectRefuse, ProjectAccept,
                ProjectFails
  <2>2. QED
    BY <2>1 DEF store
<1>4. CASE UNCHANGED vars
  BY <1>4 DEF vars
<1>5. QED
  BY <1>1, <1>2, <1>3, <1>4

\* The three facts behind the theorems on admit.
LEMMA AdmitInductive ==
    /\ Init => AdmitInv
    /\ TypeInv /\ AdmitInv /\ [Next]_vars => AdmitInv'
<1>1. Init => AdmitInv
  BY DEF Init, AdmitInv, OneEventEach, RepliesJournaled, ExpiredIsFinal
<1>2. ASSUME TypeInv, AdmitInv, [Next]_vars PROVE AdmitInv'
  <2>1. TypeOK
    BY <1>2 DEF TypeInv
  <2>2. CASE AdmitNext
    BY <1>2, <2>1, <2>2, AdmitNewInv, AdmitOtherInv DEF AdmitNext
  <2>3. CASE RebuildCommandIndex
    BY <1>2, <2>1, <2>3, RebuildInv
  <2>4. CASE Environment
    BY <1>2, <2>1, <2>4, QuietInv, DamageInv, RestoreInv DEF Environment
  <2>5. CASE ProjectNext \/ UNCHANGED vars
    BY <1>2, <2>1, <2>5, QuietInv
  <2>6. QED
    BY <1>2, <2>2, <2>3, <2>4, <2>5 DEF Next
<1>3. QED
  BY <1>1, <1>2

\* The invariant of admit holds of every reachable state.
THEOREM AdmitInvariant == Spec => []AdmitInv
BY InitTypeInv, NextType, AdmitInductive, PTL DEF Spec

\* What admit answered is in the journal as the decision of that request,
\* also after lost answers, replays, rebuilds, restores and an altered index.
THEOREM AnswersTrue == Spec => []RepliesJournaled
<1>1. AdmitInv => RepliesJournaled
  BY DEF AdmitInv
<1>2. QED
  BY <1>1, AdmitInvariant, PTL

\* No admission key, command or decision id has two events.
THEOREM EventsUnique == Spec => []OneEventEach
<1>1. AdmitInv => OneEventEach
  BY DEF AdmitInv
<1>2. QED
  BY <1>1, AdmitInvariant, PTL

\* A request that admit refuses as expired is not in the journal.
THEOREM ExpiredFinal == Spec => []ExpiredIsFinal
<1>1. AdmitInv => ExpiredIsFinal
  BY DEF AdmitInv
<1>2. QED
  BY <1>1, AdmitInvariant, PTL

(***************************************************************************)
(* The anchor and what project shows                                       *)
(***************************************************************************)

\* The inductive invariant: a projection that waits to be accepted continues
\* the anchor it was compared with, which need not be the present one.
ProjectionInv ==
    /\ \A p \in Projectors :
        pc[p] = "accept" /\ loaded[p] # None => Extends(loaded[p].head, att[p].head)
    /\ AvailableExtends

\* A journal continues itself.
LEMMA ExtendsReflexive ==
    ASSUME NEW s \in Seq(Event)
    PROVE  Extends(s, s)
BY DEF Extends

\* What continues a continuation continues the first journal.
LEMMA ExtendsTransitive ==
    ASSUME NEW s \in Seq(Event), NEW t \in Seq(Event), NEW u \in Seq(Event),
           Extends(s, t), Extends(t, u)
    PROVE  Extends(s, u)
BY DEF Extends

\* What an accepted checkpoint may be, relative to the anchor it replaces.
LEMMA AcceptedAnchor ==
    ASSUME TypeInv, NEW p \in Projectors, ProjectAccept(p)
    PROVE  /\ att[p] \in Attestation /\ att[p].head \in Seq(Event)
           /\ anchor' # None /\ anchor'.head = att[p].head
           /\ anchor # None /\ anchor' # anchor =>
                anchor'.cp > anchor.cp /\ Len(anchor'.head) >= Len(anchor.head)
<1>1. pc[p] # "idle" /\ ~AnchorViolation(att[p].cp, att[p].head)
  BY DEF ProjectAccept
<1>2. att[p] \in Attestation
  BY <1>1 DEF TypeInv
<1>3. att[p].cp \in Nat /\ att[p].head \in Seq(Event)
  BY <1>2 DEF Attestation
<1>4. [cp |-> att[p].cp, head |-> att[p].head] \in Checkpoint
  BY <1>3 DEF Checkpoint
<1>5. CASE anchor # None /\ att[p].cp = anchor.cp
  <2>1. anchor' = anchor
    BY <1>5 DEF ProjectAccept
  <2>2. att[p].head = anchor.head
    BY <1>1, <1>5 DEF AnchorViolation
  <2>3. QED
    BY <1>2, <1>3, <1>5, <2>1, <2>2
<1>6. CASE ~(anchor # None /\ att[p].cp = anchor.cp)
  <2>1. anchor' = [cp |-> att[p].cp, head |-> att[p].head]
    BY <1>6 DEF ProjectAccept
  <2>2. anchor' # None /\ anchor'.head = att[p].head /\ anchor'.cp = att[p].cp
    BY <1>4, <2>1, NoneAssumption
  <2>3. ASSUME anchor # None
        PROVE  att[p].cp > anchor.cp /\ Len(att[p].head) >= Len(anchor.head)
    <3>1. anchor.cp \in Nat /\ anchor.head \in Seq(Event)
      BY <2>3 DEF TypeInv, TypeOK, Checkpoint
    <3>2. Len(anchor.head) \in Nat /\ Len(att[p].head) \in Nat
      BY <1>3, <3>1
    <3>3. QED
      BY <1>1, <1>3, <1>6, <2>3, <3>1, <3>2 DEF AnchorViolation
  <2>4. QED
    BY <1>2, <1>3, <2>2, <2>3
<1>7. QED
  BY <1>5, <1>6

\* An accepted projection that was compared with the anchor it replaces
\* continues it.
LEMMA AcceptedContinues ==
    ASSUME TypeInv, ProjectionInv, NEW p \in Projectors, ProjectAccept(p),
           anchor # None, ~raced'
    PROVE  Extends(anchor.head, anchor'.head)
<1>1. pc[p] = "accept" /\ anchor = loaded[p]
  BY DEF ProjectAccept
<1>2. QED
  BY <1>1, AcceptedAnchor DEF ProjectionInv

\* Acceptance keeps the invariant.
LEMMA AcceptInv ==
    ASSUME TypeInv, ProjectionInv, NEW p \in Projectors, ProjectAccept(p)
    PROVE  ProjectionInv'
<1>1. \A q \in Projectors :
        pc'[q] = "accept" /\ loaded'[q] # None => Extends(loaded'[q].head, att'[q].head)
  BY DEF ProjectAccept, Finish, ProjectionInv, TypeInv, TypeOK
<1>2. ASSUME shown' # None, ~raced'
      PROVE  anchor' # None /\ Extends(shown', anchor'.head)
  <2>1. anchor' # None /\ anchor'.head = att[p].head /\ att[p].head \in Seq(Event)
    BY AcceptedAnchor
  <2>2. CASE shown' = att[p].head
    BY <2>1, <2>2, ExtendsReflexive
  <2>3. CASE shown' = shown
    <3>1. ~raced
      BY <1>2 DEF ProjectAccept
    <3>2. anchor # None /\ Extends(shown, anchor.head)
      BY <1>2, <2>3, <3>1 DEF ProjectionInv, AvailableExtends
    <3>3. Extends(anchor.head, anchor'.head)
      BY <1>2, <3>2, AcceptedContinues
    <3>4. shown \in Seq(Event) /\ anchor.head \in Seq(Event)
      BY <1>2, <2>3, <3>2 DEF TypeInv, TypeOK, Checkpoint
    <3>5. QED
      BY <2>1, <2>3, <3>2, <3>3, <3>4, ExtendsTransitive
  <2>4. QED
    BY <2>2, <2>3 DEF ProjectAccept
<1>3. QED
  BY <1>1, <1>2 DEF ProjectionInv, AvailableExtends

\* The other steps of project keep the invariant.
LEMMA ProjectInv ==
    ASSUME TypeInv, ProjectionInv, ProjectNext
    PROVE  ProjectionInv'
<1> USE DEF ProjectionInv, AvailableExtends, TypeInv, TypeOK
<1>1. ASSUME NEW p \in Projectors, NEW a \in attested, ProjectRead(p, a)
      PROVE  ProjectionInv'
  BY <1>1 DEF ProjectRead
<1>2. ASSUME NEW p \in Projectors, ProjectAnchor(p)
      PROVE  ProjectionInv'
  <2>1. anchor # None => Extends(anchor.head, att[p].head)
    BY <1>2 DEF ProjectAnchor, RolledBack
  <2>2. QED
    BY <1>2, <2>1 DEF ProjectAnchor
<1>3. ASSUME NEW p \in Projectors, ProjectRefuse(p) \/ ProjectFails(p)
      PROVE  ProjectionInv'
  BY <1>3 DEF ProjectRefuse, ProjectFails, Finish
<1>4. ASSUME NEW p \in Projectors, ProjectAccept(p)
      PROVE  ProjectionInv'
  BY <1>4, AcceptInv
<1>5. QED
  BY <1>1, <1>2, <1>3, <1>4 DEF ProjectNext

\* Nobody but project writes the anchor or what it shows.
LEMMA ProjectionUntouched ==
    ASSUME AdmitNext \/ RebuildCommandIndex \/ Environment \/ UNCHANGED vars
    PROVE  UNCHANGED <<anchor, projection>>
BY DEF AdmitNext, AdmitReplay, AdmitConverge, AdmitNew, AdmitExpired, RebuildCommandIndex,
       Environment, Tick, Attest, DamageEvent, Restore, DamageIndex, vars, projection

\* Every step keeps the invariant.
LEMMA ProjectionInductive ==
    /\ Init => ProjectionInv
    /\ TypeInv /\ ProjectionInv /\ [Next]_vars => ProjectionInv'
<1>1. Init => ProjectionInv
  BY DEF Init, ProjectionInv, AvailableExtends
<1>2. ASSUME TypeInv, ProjectionInv, [Next]_vars PROVE ProjectionInv'
  <2>1. CASE ProjectNext
    BY <1>2, <2>1, ProjectInv
  <2>2. CASE AdmitNext \/ RebuildCommandIndex \/ Environment \/ UNCHANGED vars
    BY <1>2, <2>2, ProjectionUntouched DEF ProjectionInv, AvailableExtends, projection
  <2>3. QED
    BY <1>2, <2>1, <2>2 DEF Next
<1>3. QED
  BY <1>1, <1>2

\* While no acceptance raced, each AVAILABLE projection shows everything an
\* earlier one showed, whatever is done to the journal file.
THEOREM AvailableGrows == Spec => []AvailableExtends
<1>1. ProjectionInv => AvailableExtends
  BY DEF ProjectionInv
<1>2. QED
  BY <1>1, InitTypeInv, NextType, ProjectionInductive, PTL DEF Spec

\* The number and the length of the anchor never go back, and an acceptance
\* that did not race keeps the events of the anchor.
THEOREM AnchorForward == Spec => AnchorMonotone
<1> DEFINE Step ==
      anchor # None /\ anchor' # anchor =>
        /\ anchor' # None /\ anchor'.cp > anchor.cp
        /\ Len(anchor'.head) >= Len(anchor.head)
        /\ raced' = FALSE => Extends(anchor.head, anchor'.head)
<1>1. ASSUME TypeInv, ProjectionInv, [Next]_vars PROVE [Step]_vars
  <2>1. SUFFICES ASSUME anchor # None, anchor' # anchor
                 PROVE  /\ anchor' # None /\ anchor'.cp > anchor.cp
                        /\ Len(anchor'.head) >= Len(anchor.head)
                        /\ raced' = FALSE => Extends(anchor.head, anchor'.head)
    OBVIOUS
  <2>2. PICK p \in Projectors : ProjectAccept(p)
    <3>1. ProjectNext
      BY <1>1, <2>1, ProjectionUntouched DEF Next
    <3>2. QED
      BY <2>1, <3>1 DEF ProjectNext, ProjectRead, ProjectAnchor, ProjectRefuse, ProjectFails
  <2>3. QED
    BY <1>1, <2>1, <2>2, AcceptedAnchor, AcceptedContinues
<1>2. QED
  BY <1>1, InitTypeInv, NextType, ProjectionInductive, PTL DEF Spec, AnchorMonotone
===============================================================================
