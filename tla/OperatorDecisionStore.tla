------------------------ MODULE OperatorDecisionStore ------------------------
(***************************************************************************)
(* The governed decision journal of src/observability/operator_decisions/  *)
(* durable_store.py: admit, rebuild_command_index and project, called by   *)
(* several processes on one SQLite journal file and one anchor file.       *)
(*                                                                         *)
(* A request is a candidate with its owner transfer and its approval, that *)
(* is, the fingerprint of the three.  A decision id is fresh (uuid4).  The *)
(* hash chain makes the hash of an event determine the journal up to it,   *)
(* so a head hash is modelled by the sequence of events it stands for, and *)
(* "GENESIS" by the empty one.                                             *)
(***************************************************************************)
EXTENDS Naturals, Sequences, FiniteSets

CONSTANTS
    Commands,        \* command_id: the caller's name for a call of admit
    Requests,        \* fingerprints of candidate, owner transfer and approval
    KeyOf,           \* [Requests -> admission keys]: two requests may collide
    Authentic,       \* requests that pass _validate and _authenticate
    Expiry,          \* [Requests -> Nat]: when its statements expire
    Projectors,      \* concurrent callers of project
    Validity,        \* how long an attestation is valid
    None,            \* no entry, no anchor, nothing shown
    MaxClock,        \* bound: time
    MaxAttested,     \* bound: attestations issued
    MaxFaults        \* bound: alterations and restorations of the journal file

ASSUME RequestsAssumption ==
    /\ DOMAIN KeyOf = Requests
    /\ Authentic \subseteq Requests
    /\ Expiry \in [Requests -> Nat]
ASSUME BoundsAssumption ==
    /\ Validity \in Nat /\ MaxClock \in Nat /\ MaxAttested \in Nat
    /\ MaxFaults \in Nat

VARIABLES
    journal,     \* table events, in the order of sequence
    index,       \* table command_results: [Commands -> entry or None]
    intact,      \* no event row has been altered since it was written
    nextId,      \* decision ids below it have been used
    anchor,      \* table accepted_checkpoint, in a file of its own
    clock,       \* the injected clock
    attested,    \* attestations the availability authority has signed
    pc, att, loaded, \* each projector: step, attestation (of the events it read), anchor
    replies,     \* decision ids returned by admit (those a restore lost are dropped)
    expired,     \* requests that admit refused because they had expired
    shown,       \* an AVAILABLE projection of the past, any one
    raced,       \* a projection was accepted although the anchor moved after it was loaded
    faults       \* alterations and restorations so far

file == <<journal, index, intact>>
projection == <<pc, att, loaded, shown, raced>>
vars == <<journal, index, intact, nextId, anchor, clock, attested,
          pc, att, loaded, replies, expired, shown, raced, faults>>

Event == [did: Nat, request: Requests, command: Commands]
Entry == [did: Nat, seq: Nat, request: Requests]
Checkpoint == [cp: Nat, head: Seq(Event)]
Attestation == [cp: Nat, head: Seq(Event), expires: Nat]

ASSUME NoneAssumption == None \notin Entry /\ None \notin Checkpoint

\* The type invariant.
TypeOK ==
    /\ journal \in Seq(Event)
    /\ index \in [Commands -> Entry \cup {None}]
    /\ intact \in BOOLEAN
    /\ nextId \in Nat
    /\ anchor \in Checkpoint \cup {None}
    /\ clock \in Nat
    /\ attested \subseteq Attestation
    /\ pc \in [Projectors -> {"idle", "read", "accept"}]
    /\ att \in [Projectors -> Attestation \cup {None}]
    /\ loaded \in [Projectors -> Checkpoint \cup {None}]
    /\ replies \subseteq [request: Requests, did: Nat]
    /\ expired \subseteq Requests
    /\ shown \in Seq(Event) \cup {None}
    /\ raced \in BOOLEAN
    /\ faults \in 0..MaxFaults

Init ==
    /\ journal = <<>> /\ index = [c \in Commands |-> None] /\ intact = TRUE
    /\ nextId = 0 /\ anchor = None /\ clock = 0 /\ attested = {}
    /\ pc = [p \in Projectors |-> "idle"]
    /\ att = [p \in Projectors |-> None]
    /\ loaded = [p \in Projectors |-> None]
    /\ shown = None
    /\ replies = {} /\ expired = {} /\ raced = FALSE
    /\ faults = 0

(***************************************************************************)
(* Verification of the file                                                *)
(***************************************************************************)

\* Faulty variant: an answer is taken from the index as it is.
EntryUnchecked(e) == TRUE

\* _verify_index, for one row: it must agree with the event it points to.
EntryVerified(e) ==
    /\ e.seq \in DOMAIN journal
    /\ journal[e.seq].did = e.did
    /\ journal[e.seq].request = e.request

\* _verify_locked: every row of both tables.  A missing row is not noticed.
Verified ==
    /\ intact
    /\ \A c \in Commands : index[c] # None => EntryVerified(index[c])

\* new begins with old, which is what comparing the hash at old's length shows.
Extends(old, new) ==
    /\ Len(old) <= Len(new)
    /\ \A i \in 1..Len(old) : new[i] = old[i]

(***************************************************************************)
(* admit: one BEGIN IMMEDIATE transaction.  A call that is refused because *)
(* it is not authentic, because the file does not verify, because the      *)
(* command or the key is bound to another request, or that fails before    *)
(* COMMIT, changes nothing and is no step of the model.                    *)
(***************************************************************************)

HasKey(k) == \E i \in DOMAIN journal : KeyOf[journal[i].request] = k

\* What the caller is answered after COMMIT, whether it arrives or is lost.
Answered(r, d) == replies' = replies \cup {[request |-> r, did |-> d]}

\* The command was committed before: the recorded decision is returned.
AdmitReplay(c, r) ==
    /\ r \in Authentic /\ Verified
    /\ index[c] # None /\ index[c].request = r
    /\ Answered(r, index[c].did)
    /\ UNCHANGED <<file, nextId, anchor, clock, attested, projection, expired, faults>>

\* Another command brought the same request: a new row for the same event.
AdmitConverge(c, r) ==
    /\ r \in Authentic /\ Verified
    /\ index[c] = None
    /\ \E i \in DOMAIN journal :
        /\ journal[i].request = r
        /\ index' = [index EXCEPT ![c] =
                [did |-> journal[i].did, seq |-> i, request |-> r]]
        /\ Answered(r, journal[i].did)
    /\ UNCHANGED <<journal, intact, nextId, anchor, clock, attested,
                   projection, expired, faults>>

\* _check_fresh, against the injected clock.
Fresh(r) == clock < Expiry[r]

\* Faulty variant: the event is written without its decision id.
AppendEventUnnamed(c, r) ==
    /\ journal' = Append(journal, [did |-> None, request |-> r, command |-> c])
    /\ nextId' = nextId + 1
    /\ Answered(r, nextId)

AppendEvent(c, r) ==
    /\ journal' = Append(journal, [did |-> nextId, request |-> r, command |-> c])
    /\ nextId' = nextId + 1
    /\ Answered(r, nextId)

\* Faulty variant: the row of the command is written by a later transaction, which is lost.
AdmitNewWithoutRow(c, r) ==
    /\ r \in Authentic /\ Verified
    /\ index[c] = None /\ ~HasKey(KeyOf[r])
    /\ Fresh(r)
    /\ AppendEvent(c, r)
    /\ UNCHANGED <<index, intact, anchor, clock, attested, projection, expired, faults>>

\* A new event and its row, in one transaction.
AdmitNew(c, r) ==
    /\ r \in Authentic /\ Verified
    /\ index[c] = None /\ ~HasKey(KeyOf[r])
    /\ Fresh(r)
    /\ AppendEvent(c, r)
    /\ index' = [index EXCEPT ![c] =
            [did |-> nextId, seq |-> Len(journal) + 1, request |-> r]]
    /\ UNCHANGED <<intact, anchor, clock, attested, projection, expired, faults>>

\* Faulty variant: the freshness is checked before looking for an earlier commit.
AdmitExpiredFirst(c, r) ==
    /\ r \in Authentic /\ Verified
    /\ ~Fresh(r)
    /\ expired' = expired \cup {r}
    /\ UNCHANGED <<file, nextId, anchor, clock, attested, projection, replies, faults>>

\* Only a new event asks for fresh statements.
AdmitExpired(c, r) ==
    /\ r \in Authentic /\ Verified
    /\ index[c] = None /\ ~HasKey(KeyOf[r])
    /\ ~Fresh(r)
    /\ expired' = expired \cup {r}
    /\ UNCHANGED <<file, nextId, anchor, clock, attested, projection, replies, faults>>

\* The row that admit writes with the event at position i.
Row(i) == [did |-> journal[i].did, seq |-> i, request |-> journal[i].request]

\* Where command c brought a new event, among the first n.
Origin(c, n) == {i \in 1..n : journal[i].command = c}

\* rebuild_command_index: one row for each event, whatever the index held.
RebuildCommandIndex ==
    /\ intact
    /\ index' = [c \in Commands |->
            IF Origin(c, Len(journal)) = {} THEN None
            ELSE Row(CHOOSE i \in Origin(c, Len(journal)) : TRUE)]
    /\ UNCHANGED <<journal, intact, nextId, anchor, clock, attested,
                   projection, replies, expired, faults>>

(***************************************************************************)
(* project: the events, the anchor and the clock are read and the anchor   *)
(* is written in separate steps, without a lock around them.               *)
(***************************************************************************)

store == <<file, nextId, clock, attested, replies, expired, faults>>

\* The call returns; what it read is forgotten.
Finish(p) ==
    /\ pc' = [pc EXCEPT ![p] = "idle"]
    /\ att' = [att EXCEPT ![p] = None]
    /\ loaded' = [loaded EXCEPT ![p] = None]

\* _read_events_verified: events and verification of one snapshot.  A file
\* that does not verify, an attestation that the policy does not authenticate
\* or that is of other events (UNKNOWN), or none at all (NON DEPLOYE),
\* changes nothing and is no step of the model.
ProjectRead(p, a) ==
    /\ pc[p] = "idle" /\ Verified
    /\ a.head = journal
    /\ att' = [att EXCEPT ![p] = a]
    /\ pc' = [pc EXCEPT ![p] = "read"]
    /\ UNCHANGED <<store, anchor, loaded, shown, raced>>

\* Faulty variant: only as many events as before are asked for.
RolledBackByLength(events) == anchor # None /\ Len(events) < Len(anchor.head)

\* The events do not continue the last accepted state.
RolledBack(events) == anchor # None /\ ~Extends(anchor.head, events)

\* check_validity of the attestation.
Valid(a) == clock < a.expires

\* _load_anchor, the comparison with it, and the verification of the
\* attestation, whose only other input is the clock.
ProjectAnchor(p) ==
    /\ pc[p] = "read"
    /\ ~RolledBack(att[p].head) /\ Valid(att[p])
    /\ loaded' = [loaded EXCEPT ![p] = anchor]
    /\ pc' = [pc EXCEPT ![p] = "accept"]
    /\ UNCHANGED <<store, anchor, att, shown, raced>>

\* UNKNOWN: the journal was rolled back, or the attestation has expired.
ProjectRefuse(p) ==
    /\ pc[p] = "read"
    /\ RolledBack(att[p].head) \/ ~Valid(att[p])
    /\ Finish(p)
    /\ UNCHANGED <<store, anchor, shown, raced>>

\* Faulty variant: an older checkpoint is accepted as well.
AnchorViolationIgnored(cp, events) == FALSE

\* _anchor_violation, against the anchor found inside the transaction.
AnchorViolation(cp, events) ==
    /\ anchor # None
    /\ \/ cp < anchor.cp
       \/ cp = anchor.cp /\ events # anchor.head
       \/ cp > anchor.cp /\ Len(events) < Len(anchor.head)

\* _accept_checkpoint, one BEGIN IMMEDIATE transaction on the anchor file.
ProjectAccept(p) ==
    /\ pc[p] = "accept"
    /\ ~AnchorViolation(att[p].cp, att[p].head)
    /\ anchor' = IF anchor # None /\ att[p].cp = anchor.cp THEN anchor
                 ELSE [cp |-> att[p].cp, head |-> att[p].head]
    /\ shown' \in {shown, att[p].head}
    /\ Finish(p)
    /\ raced' = (raced \/ anchor # loaded[p])
    /\ UNCHANGED store

\* The anchor moved since it was loaded, so that UNKNOWN is answered; or an
\* exception of SQLite, or a crash, ends the call.
ProjectFails(p) ==
    /\ pc[p] = "accept"
    /\ Finish(p)
    /\ UNCHANGED <<store, anchor, shown, raced>>

(***************************************************************************)
(* The environment                                                         *)
(***************************************************************************)

Tick ==
    /\ clock < MaxClock
    /\ clock' = clock + 1
    /\ UNCHANGED <<file, nextId, anchor, attested, projection, replies, expired, faults>>

\* The availability authority signs what it finds, under increasing numbers.
Attest ==
    /\ Cardinality(attested) < MaxAttested
    /\ attested' = attested \cup
        {[cp |-> Cardinality(attested) + 1, head |-> journal, expires |-> clock + Validity]}
    /\ UNCHANGED <<file, nextId, anchor, clock, projection, replies, expired, faults>>

\* The journal file is replaced by a copy taken when it had n events, with
\* the index of that time; the anchor file is not.  What was answered since
\* is not expected of it.
Restore(n) ==
    /\ faults < MaxFaults
    /\ journal' = SubSeq(journal, 1, n) /\ intact' = TRUE
    /\ index' = [c \in Commands |->
            CASE Origin(c, n) # {} -> Row(CHOOSE i \in Origin(c, n) : TRUE)
              [] Origin(c, n) = {} /\ index[c] # None
                 /\ EntryVerified(index[c]) /\ index[c].seq <= n -> index[c]
              [] OTHER -> None]
    /\ replies' = {a \in replies : \E i \in 1..n : journal[i].did = a.did}
    /\ expired' = {}
    /\ faults' = faults + 1
    /\ UNCHANGED <<nextId, anchor, clock, attested, projection>>

\* An event row is altered from outside.
DamageEvent ==
    /\ faults < MaxFaults /\ journal # <<>>
    /\ intact' = FALSE
    /\ faults' = faults + 1
    /\ UNCHANGED <<journal, index, nextId, anchor, clock, attested,
                   projection, replies, expired>>

\* A row of the index is made to name another decision.
DamageIndex(c, d) ==
    /\ faults < MaxFaults
    /\ index[c] # None /\ d # index[c].did
    /\ index' = [index EXCEPT ![c].did = d]
    /\ faults' = faults + 1
    /\ UNCHANGED <<journal, intact, nextId, anchor, clock, attested,
                   projection, replies, expired>>

AdmitNext ==
    \E c \in Commands, r \in Requests :
        \/ AdmitReplay(c, r) \/ AdmitConverge(c, r)
        \/ AdmitNew(c, r) \/ AdmitExpired(c, r)

ProjectNext ==
    \E p \in Projectors :
        \/ \E a \in attested : ProjectRead(p, a)
        \/ ProjectAnchor(p) \/ ProjectRefuse(p) \/ ProjectAccept(p) \/ ProjectFails(p)

Environment ==
    \/ Tick \/ Attest \/ DamageEvent
    \/ \E n \in 0..Len(journal) : Restore(n)
    \/ \E c \in Commands, d \in 0..nextId : DamageIndex(c, d)

Next == AdmitNext \/ RebuildCommandIndex \/ ProjectNext \/ Environment

Spec == Init /\ [][Next]_vars

(***************************************************************************)
(* Properties                                                              *)
(***************************************************************************)

\* What admit returned is in the journal, as the decision of that request:
\* through lost answers, replays after the statements have expired, other
\* commands with the same request, rebuilds and an altered index.
RepliesJournaled ==
    \A a \in replies : \E i \in DOMAIN journal :
        journal[i].did = a.did /\ journal[i].request = a.request

\* One event for each admission key and for each command: two answers to one
\* request name one decision, and rebuild_command_index never inserts the
\* same command_id (a primary key) twice.
OneEventEach ==
    \A i, j \in DOMAIN journal :
        i # j => /\ KeyOf[journal[i].request] # KeyOf[journal[j].request]
                 /\ journal[i].command # journal[j].command
                 /\ journal[i].did # journal[j].did

\* A caller whose request is refused as expired may conclude that it was
\* never admitted, also when the answer to an earlier call was lost.
ExpiredIsFinal ==
    \A r \in expired : \A i \in DOMAIN journal : journal[i].request # r

\* While no projection races with the acceptance of another one, each
\* AVAILABLE projection shows everything an earlier one showed: a journal
\* that was restored to an older state, or has grown differently since, is
\* not shown as AVAILABLE.
AvailableExtends ==
    shown # None /\ ~raced => anchor # None /\ Extends(shown, anchor.head)

\* The anchor never goes back: neither its number nor its length, and when
\* the accepted projection was compared with this very anchor, its events
\* begin with the anchor's.
AnchorMonotone ==
    [][anchor # None /\ anchor' # anchor =>
        /\ anchor' # None /\ anchor'.cp > anchor.cp
        /\ Len(anchor'.head) >= Len(anchor.head)
        /\ raced' = FALSE => Extends(anchor.head, anchor'.head)]_vars
==============================================================================
