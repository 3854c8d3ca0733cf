-------------------------- MODULE DurableEventStore --------------------------
(***************************************************************************)
(* The append-only event store of the paper portfolio ledger,              *)
(* src/paper_trading/durable_event_store.py: processes append events to,   *)
(* and load, one JSONL file per epoch in a shared directory, under one     *)
(* flock, and any of them, or the host, may die between two system calls.  *)
(*                                                                         *)
(* A file is the sequence of its whole records and a flag for a trailing   *)
(* fragment. Of the file system the module keeps what fsync is for: which  *)
(* records, directory entries and directories survive a power failure.     *)
(* fsync is taken to cover every earlier write to the file, also one whose *)
(* own fsync failed, as _durably_confirm_existing does.                    *)
(*                                                                         *)
(* The files are in a hierarchy of directories 1..Depth, of which any may  *)
(* be missing at first: Depth is root/epochs, Depth - 1 the root, and what *)
(* is above 1 has always been there. Directory k is reached after a power  *)
(* failure only if its entry in k - 1 has been synced, which is what an    *)
(* fsync of k - 1 does.                                                    *)
(***************************************************************************)
EXTENDS Naturals, Sequences, FiniteSets

CONSTANTS
    Writers,          \* processes that call append and load_epoch
    Events,           \* a set of LedgerEvents: records with an id, epoch, seq and body
    Depth,            \* directories that the store may have to create
    Nobody,           \* nobody holds the exclusive lock
    MaxCalls,         \* bound: calls of append and load_epoch
    MaxIOFaults,      \* bound: failing system calls
    MaxShortWrites,   \* bound: failing writes that leave a fragment of a record
    MaxProcessCrashes,\* bound: processes that die
    MaxPowerFailures  \* bound: failures of the host

Epochs == {e.epoch : e \in Events}
NoEvent == [id |-> "none", epoch |-> "none", seq |-> 0, body |-> "none"]

ASSUME EventsAssumption ==
    /\ \A e \in Events : e.seq \in Nat \ {0}
    /\ Nobody \notin Writers
ASSUME DepthAssumption == Depth \in Nat \ {0}
ASSUME StoreBoundsAssumption ==
    /\ MaxCalls \in Nat /\ MaxIOFaults \in Nat /\ MaxShortWrites \in Nat
    /\ MaxProcessCrashes \in Nat /\ MaxPowerFailures \in Nat

PC == {"idle", "ensure", "mkdir", "sync_dirs", "lock", "scan", "open", "write",
       "sync_file", "sync_entry", "confirm_file", "confirm_entry", "load"}
AppendStatus == {"APPENDED", "ALREADY_EXISTS"}
Errors == {"StoreEpochMismatchError", "StoreCorruptionError", "EpochNotFoundError",
           "EventIdentityCollisionError", "StoreSequenceRegressionError",
           "StoreSequenceGapError", "OSError"}
Faults == {"call", "io", "short_write", "process", "power"}

VARIABLES
    made,     \* how many of the directories 1..Depth there are
    firm,     \* those of them whose entry in the one above is durable
    halfMade, \* a call has found some of them only, and these not durable
    exists,   \* [Epochs -> BOOLEAN]: the epoch's file is in the directory
    lines,    \* [Epochs -> Seq(Events)]: its whole records
    torn,     \* [Epochs -> BOOLEAN]: a fragment of a record follows them
    synced,   \* [Epochs -> Nat]: how many records survive a power failure ...
    linked,   \* [Epochs -> BOOLEAN]: ... if the directory entry does
    exclusive,\* the process that holds the lock exclusively
    pc, arg,  \* where each process is, and the event it appends
    candidate,\* the directory that each process looks for, or syncs the entry of
    stop,     \* [Writers -> 0..Depth]: ... and the one at which this loop ends
    created,  \* [Writers -> BOOLEAN]: newly_created
    ret,      \* how each process's last call ended, until it begins another
    acked,    \* the <<event, status>> pairs that append has returned
    budget    \* what is left of each bound

dirs == <<made, firm, halfMade>>
files == <<exists, lines, torn, synced, linked>>
locals == <<arg, candidate, stop, created>>
vars == <<dirs, files, exclusive, pc, locals, ret, acked, budget>>

\* The type invariant.
TypeOK ==
    /\ made \in 0..Depth /\ firm \subseteq 1..made
    /\ halfMade \in BOOLEAN
    /\ exists \in [Epochs -> BOOLEAN]
    /\ lines \in [Epochs -> Seq(Events)]
    /\ torn \in [Epochs -> BOOLEAN]
    /\ synced \in [Epochs -> Nat]
    /\ \A ep \in Epochs : synced[ep] <= Len(lines[ep])
    /\ linked \in [Epochs -> BOOLEAN]
    /\ exclusive \in Writers \cup {Nobody}
    /\ pc \in [Writers -> PC]
    /\ arg \in [Writers -> Events \cup {NoEvent}]
    /\ candidate \in [Writers -> 0..Depth]
    /\ stop \in [Writers -> 0..Depth]
    /\ created \in [Writers -> BOOLEAN]
    /\ ret \in [Writers -> AppendStatus \cup Errors \cup {"LOADED", "NONE"}]
    /\ acked \subseteq Events \X AppendStatus
    /\ budget \in [Faults -> Nat]

\* Directories that are there at the start have been there for long.
Init ==
    /\ made \in 0..Depth /\ firm = 1..made
    /\ halfMade = FALSE
    /\ exists = [ep \in Epochs |-> FALSE]
    /\ lines = [ep \in Epochs |-> <<>>]
    /\ torn = [ep \in Epochs |-> FALSE]
    /\ synced = [ep \in Epochs |-> 0]
    /\ linked = [ep \in Epochs |-> FALSE]
    /\ exclusive = Nobody
    /\ pc = [w \in Writers |-> "idle"]
    /\ arg = [w \in Writers |-> NoEvent]
    /\ candidate = [w \in Writers |-> 0]
    /\ stop = [w \in Writers |-> 0]
    /\ created = [w \in Writers |-> FALSE]
    /\ ret = [w \in Writers |-> "NONE"]
    /\ acked = {}
    /\ budget = [f \in Faults |->
                    CASE f = "call" -> MaxCalls
                      [] f = "io" -> MaxIOFaults
                      [] f = "short_write" -> MaxShortWrites
                      [] f = "process" -> MaxProcessCrashes
                      [] f = "power" -> MaxPowerFailures]

Spend(f) ==
    /\ budget[f] > 0
    /\ budget' = [budget EXCEPT ![f] = @ - 1]

Goto(w, l) ==
    /\ pc' = [pc EXCEPT ![w] = l]
    /\ ret' = [ret EXCEPT ![w] = "NONE"]
    /\ UNCHANGED <<exclusive, acked>>

\* Faulty variant: the flock is not given back.
EndKeepingLock(w, result) ==
    /\ pc' = [pc EXCEPT ![w] = "idle"]
    /\ ret' = [ret EXCEPT ![w] = result]
    /\ arg' = [arg EXCEPT ![w] = NoEvent]
    /\ created' = [created EXCEPT ![w] = FALSE]
    /\ candidate' = [candidate EXCEPT ![w] = 0]
    /\ stop' = [stop EXCEPT ![w] = 0]
    /\ UNCHANGED exclusive

\* The call ends; the lock's context manager lets go of the flock.
End(w, result) ==
    /\ pc' = [pc EXCEPT ![w] = "idle"]
    /\ ret' = [ret EXCEPT ![w] = result]
    /\ exclusive' = IF exclusive = w THEN Nobody ELSE exclusive
    /\ arg' = [arg EXCEPT ![w] = NoEvent]
    /\ created' = [created EXCEPT ![w] = FALSE]
    /\ candidate' = [candidate EXCEPT ![w] = 0]
    /\ stop' = [stop EXCEPT ![w] = 0]

Raise(w, error) == End(w, error) /\ UNCHANGED acked

\* append returns an AppendResult.
Acknowledge(w, status) == End(w, status) /\ acked' = acked \cup {<<arg[w], status>>}

(***************************************************************************)
(* append, up to the lock                                                  *)
(***************************************************************************)

\* The event is for another epoch than the caller expects.
AppendMismatch(w) ==
    /\ pc[w] = "idle"
    /\ Spend("call")
    /\ ret' = [ret EXCEPT ![w] = "StoreEpochMismatchError"]
    /\ UNCHANGED <<dirs, files, exclusive, pc, locals, acked>>

AppendCall(w, e) ==
    /\ pc[w] = "idle"
    /\ Spend("call")
    /\ Goto(w, "ensure")
    /\ arg' = [arg EXCEPT ![w] = e]
    /\ candidate' = [candidate EXCEPT ![w] = Depth]
    /\ UNCHANGED <<dirs, files, stop, created>>

\* _ensure_directories looks for the directories, from the deepest up ...
EnsureLook(w) ==
    /\ pc[w] = "ensure"
    /\ candidate[w] > made
    /\ candidate' = [candidate EXCEPT ![w] = @ - 1]
    /\ UNCHANGED <<dirs, files, exclusive, pc, arg, stop, created, ret, acked, budget>>

\* ... to one that is there: those below it are its missing_directories.
EnsureFound(w) ==
    /\ pc[w] = "ensure"
    /\ candidate[w] <= made
    /\ stop' = [stop EXCEPT ![w] = candidate[w]]
    /\ halfMade' = (halfMade \/ (candidate[w] < Depth /\ ~(1..candidate[w] \subseteq firm)))
    /\ Goto(w, "mkdir")
    /\ UNCHANGED <<made, firm, files, arg, candidate, created, budget>>

\* mkdir(parents=True) creates one missing directory after the other, whoever
\* has created those before.
EnsureMkdir(w) ==
    /\ pc[w] = "mkdir"
    /\ made < Depth
    /\ made' = made + 1
    /\ UNCHANGED <<firm, halfMade, files, exclusive, pc, locals, ret, acked, budget>>

\* The entries of directories Depth, Depth - 1, ..., low + 1 are to be synced.
SyncDown(w, low) ==
    /\ candidate' = [candidate EXCEPT ![w] = Depth]
    /\ stop' = [stop EXCEPT ![w] = low]
    /\ Goto(w, "sync_dirs")

EnsureDone(w) ==
    /\ candidate' = [candidate EXCEPT ![w] = 0]
    /\ stop' = [stop EXCEPT ![w] = 0]
    /\ Goto(w, "lock")

\* Faulty variant: directories that were there are taken to be durable.
EnsureMadeTrusting(w) ==
    /\ pc[w] = "mkdir"
    /\ made = Depth
    /\ \/ stop[w] < Depth /\ SyncDown(w, stop[w])
       \/ stop[w] = Depth /\ EnsureDone(w)
    /\ UNCHANGED <<dirs, files, arg, created, budget>>

\* All are there: next come the entries of those that were missing, or, if
\* none was but there is no file yet, of every ancestor again.
EnsureMade(w) ==
    /\ pc[w] = "mkdir"
    /\ made = Depth
    /\ \/ stop[w] < Depth /\ SyncDown(w, stop[w])
       \/ /\ stop[w] = Depth
          /\ \/ (\A ep \in Epochs : ~exists[ep]) /\ SyncDown(w, 0)
             \/ (\E ep \in Epochs : exists[ep]) /\ EnsureDone(w)
    /\ UNCHANGED <<dirs, files, arg, created, budget>>

\* _fsync_directory of the parent, and the next one or the end of the loop.
EnsureSync(w) ==
    /\ pc[w] = "sync_dirs"
    /\ firm' = firm \cup {candidate[w]}
    /\ \/ /\ candidate[w] - 1 > stop[w]
          /\ candidate' = [candidate EXCEPT ![w] = @ - 1]
          /\ Goto(w, "sync_dirs")
          /\ UNCHANGED stop
       \/ /\ candidate[w] - 1 = stop[w]
          /\ EnsureDone(w)
    /\ UNCHANGED <<made, halfMade, files, arg, created, budget>>

\* flock(LOCK_EX) blocks until the lock is free.
LockExclusive(w) ==
    /\ pc[w] = "lock"
    /\ exclusive = Nobody
    /\ exclusive' = w
    /\ pc' = [pc EXCEPT ![w] = "scan"]
    /\ UNCHANGED <<dirs, files, locals, ret, acked, budget>>

(***************************************************************************)
(* append, under the lock: validation of the whole store                   *)
(***************************************************************************)

\* _read_epoch_file accepts the file: it is not empty, ends in a newline, and
\* its records are of one epoch and numbered from 1 without a gap.
Readable(ep) ==
    /\ lines[ep] # <<>>
    /\ ~torn[ep]
    /\ \A i \in 1..Len(lines[ep]) : lines[ep][i].epoch = ep /\ lines[ep][i].seq = i

Stored == UNION {{<<ep, i>> : i \in 1..Len(lines[ep])} : ep \in {ep \in Epochs : exists[ep]}}

\* No event id is in the store twice.
IdsUnique ==
    \A p, q \in Stored : lines[p[1]][p[2]].id = lines[q[1]][q[2]].id => p = q

\* _scan_store accepts the store.
ScanOK == (\A ep \in Epochs : exists[ep] => Readable(ep)) /\ IdsUnique

\* What the store holds under an event id.
Existing(id) == {lines[p[1]][p[2]] : p \in {q \in Stored : lines[q[1]][q[2]].id = id}}

ExpectedSequence(ep) == IF exists[ep] THEN Len(lines[ep]) + 1 ELSE 1

ScanCorrupt(w) ==
    /\ pc[w] = "scan"
    /\ ~ScanOK
    /\ Raise(w, "StoreCorruptionError")
    /\ UNCHANGED <<dirs, files, budget>>

\* The very same event is there: make sure it is durable.
ScanExisting(w) ==
    /\ pc[w] = "scan"
    /\ ScanOK
    /\ arg[w] \in Existing(arg[w].id)
    /\ Goto(w, "confirm_file")
    /\ UNCHANGED <<dirs, files, locals, budget>>

\* Its id is taken by another event, or its sequence number is not the next.
ScanRefuse(w) ==
    /\ pc[w] = "scan"
    /\ ScanOK
    /\ arg[w] \notin Existing(arg[w].id)
    /\ LET next == ExpectedSequence(arg[w].epoch) IN
        \/ /\ Existing(arg[w].id) # {}
           /\ Raise(w, "EventIdentityCollisionError")
        \/ /\ Existing(arg[w].id) = {}
           /\ arg[w].seq < next
           /\ Raise(w, "StoreSequenceRegressionError")
        \/ /\ Existing(arg[w].id) = {}
           /\ arg[w].seq > next
           /\ Raise(w, "StoreSequenceGapError")
    /\ UNCHANGED <<dirs, files, budget>>

\* Faulty variant: only the ids of the event's own epoch are compared.
ScanAcceptOwnEpoch(w) ==
    LET ep == arg[w].epoch IN
    /\ pc[w] = "scan"
    /\ \A f \in Epochs : exists[f] => Readable(f)
    /\ \A i \in 1..Len(lines[ep]) : lines[ep][i].id # arg[w].id
    /\ arg[w].seq = ExpectedSequence(ep)
    /\ created' = [created EXCEPT ![w] = ~exists[ep]]
    /\ Goto(w, "open")
    /\ UNCHANGED <<dirs, files, arg, candidate, stop, budget>>

\* A new event with the next sequence number: newly_created is remembered.
ScanAccept(w) ==
    /\ pc[w] = "scan"
    /\ ScanOK
    /\ Existing(arg[w].id) = {}
    /\ arg[w].seq = ExpectedSequence(arg[w].epoch)
    /\ created' = [created EXCEPT ![w] = ~exists[arg[w].epoch]]
    /\ Goto(w, "open")
    /\ UNCHANGED <<dirs, files, arg, candidate, stop, budget>>

(***************************************************************************)
(* append, under the lock: _durable_append                                 *)
(***************************************************************************)

\* Faulty variant: the file is opened for writing, not appending.
OpenTruncating(w) ==
    /\ pc[w] = "open"
    /\ exists' = [exists EXCEPT ![arg[w].epoch] = TRUE]
    /\ lines' = [lines EXCEPT ![arg[w].epoch] = <<>>]
    /\ Goto(w, "write")
    /\ UNCHANGED <<dirs, torn, synced, linked, locals, budget>>

\* open("ab") creates the file, empty, if it is not there.
Open(w) ==
    /\ pc[w] = "open"
    /\ exists' = [exists EXCEPT ![arg[w].epoch] = TRUE]
    /\ Goto(w, "write")
    /\ UNCHANGED <<dirs, lines, torn, synced, linked, locals, budget>>

\* After a fragment the record would be part of one unparsable line.
Write(w) ==
    LET ep == arg[w].epoch IN
    /\ pc[w] = "write"
    /\ lines' = IF torn[ep] THEN lines ELSE [lines EXCEPT ![ep] = Append(@, arg[w])]
    /\ Goto(w, "sync_file")
    /\ UNCHANGED <<dirs, exists, torn, synced, linked, locals, budget>>

ShortWrite(w) ==
    /\ pc[w] = "write"
    /\ Spend("short_write")
    /\ torn' = [torn EXCEPT ![arg[w].epoch] = TRUE]
    /\ Raise(w, "OSError")
    /\ UNCHANGED <<dirs, exists, lines, synced, linked>>

FileSynced(ep) == synced' = [synced EXCEPT ![ep] = Len(lines[ep])]
EntriesSynced == linked' = exists

\* The file is durable; if this append created it, its entry comes next.
SyncFile(w) ==
    /\ pc[w] = "sync_file"
    /\ FileSynced(arg[w].epoch)
    /\ \/ created[w] /\ Goto(w, "sync_entry") /\ UNCHANGED locals
       \/ ~created[w] /\ Acknowledge(w, "APPENDED")
    /\ UNCHANGED <<dirs, exists, lines, torn, linked, budget>>

SyncEntry(w) ==
    /\ pc[w] = "sync_entry"
    /\ EntriesSynced
    /\ Acknowledge(w, "APPENDED")
    /\ UNCHANGED <<dirs, exists, lines, torn, synced, budget>>

\* Faulty variant: an event that is there is taken to be durable.
ConfirmNothing(w) ==
    /\ pc[w] = "confirm_file"
    /\ Acknowledge(w, "ALREADY_EXISTS")
    /\ UNCHANGED <<dirs, files, budget>>

\* _durably_confirm_existing: the file, then its entry.
ConfirmFile(w) ==
    /\ pc[w] = "confirm_file"
    /\ FileSynced(arg[w].epoch)
    /\ Goto(w, "confirm_entry")
    /\ UNCHANGED <<dirs, exists, lines, torn, linked, locals, budget>>

ConfirmEntry(w) ==
    /\ pc[w] = "confirm_entry"
    /\ EntriesSynced
    /\ Acknowledge(w, "ALREADY_EXISTS")
    /\ UNCHANGED <<dirs, exists, lines, torn, synced, budget>>

\* A system call fails: opening or locking the lock file, mkdir (of any of
\* the missing directories), open, write (leaving nothing), or an fsync.
CallFails(w) ==
    /\ pc[w] \in {"mkdir", "sync_dirs", "lock", "open", "write", "sync_file",
                  "sync_entry", "confirm_file", "confirm_entry", "load"}
    /\ Spend("io")
    /\ Raise(w, "OSError")
    /\ UNCHANGED <<dirs, files>>

(***************************************************************************)
(* load_epoch                                                              *)
(***************************************************************************)

\* The file is looked for before the lock is taken.
LoadCall(w, ep) ==
    /\ pc[w] = "idle"
    /\ Spend("call")
    /\ \/ exists[ep] /\ Goto(w, "load") /\ UNCHANGED locals
       \/ ~exists[ep] /\ Raise(w, "EpochNotFoundError")
    /\ UNCHANGED <<dirs, files>>

\* flock(LOCK_SH), _scan_store, unlock: no writer can come between.
Load(w) ==
    /\ pc[w] = "load"
    /\ exclusive = Nobody
    /\ \/ ScanOK /\ End(w, "LOADED")
       \/ ~ScanOK /\ End(w, "StoreCorruptionError")
    /\ UNCHANGED <<dirs, files, acked, budget>>

(***************************************************************************)
(* Crashes                                                                 *)
(***************************************************************************)

\* A process dies; what it has written stays, maybe with a fragment.
ProcessCrash(w) ==
    /\ pc[w] # "idle"
    /\ Spend("process")
    /\ Raise(w, "NONE")
    /\ \/ UNCHANGED torn
       \/ pc[w] = "write" /\ torn' = [torn EXCEPT ![arg[w].epoch] = TRUE]
    /\ UNCHANGED <<dirs, exists, lines, synced, linked>>

\* The host dies. Directories, entries and records that no fsync has covered
\* are lost or not, and a lost record may leave a fragment.
PowerFailure ==
    /\ Spend("power")
    /\ pc' = [w \in Writers |-> "idle"]
    /\ ret' = [w \in Writers |-> "NONE"]
    /\ exclusive' = Nobody
    /\ arg' = [w \in Writers |-> NoEvent]
    /\ created' = [w \in Writers |-> FALSE]
    /\ candidate' = [w \in Writers |-> 0]
    /\ stop' = [w \in Writers |-> 0]
    /\ made' \in 0..made
    /\ made' < made => made' + 1 \notin firm
    /\ firm' = 1..made'
    /\ exists' \in [Epochs -> BOOLEAN]
    /\ \A ep \in Epochs :
        /\ exists'[ep] => exists[ep] /\ made' = Depth
        /\ linked[ep] /\ made' = Depth => exists'[ep]
    /\ \E kept \in [Epochs -> 0..Cardinality(Events)] :
        /\ \A ep \in Epochs :
            IF exists'[ep] THEN kept[ep] \in synced[ep]..Len(lines[ep]) ELSE kept[ep] = 0
        /\ lines' = [ep \in Epochs |-> SubSeq(lines[ep], 1, kept[ep])]
        /\ synced' = kept
        /\ torn' \in [Epochs -> BOOLEAN]
        /\ \A ep \in Epochs :
            torn'[ep] => exists'[ep] /\ (torn[ep] \/ kept[ep] < Len(lines[ep]))
    /\ linked' = exists'
    /\ UNCHANGED <<halfMade, acked>>

-----------------------------------------------------------------------------

\* What a call does once it has begun, other than fail.
Step(w) ==
    \/ EnsureLook(w) \/ EnsureFound(w) \/ EnsureMkdir(w) \/ EnsureMade(w) \/ EnsureSync(w)
    \/ LockExclusive(w)
    \/ ScanCorrupt(w) \/ ScanExisting(w) \/ ScanRefuse(w) \/ ScanAccept(w)
    \/ Open(w) \/ Write(w) \/ SyncFile(w) \/ SyncEntry(w)
    \/ ConfirmFile(w) \/ ConfirmEntry(w) \/ Load(w)

Next ==
    \/ \E w \in Writers : Step(w) \/ CallFails(w) \/ ShortWrite(w) \/ ProcessCrash(w)
    \/ \E w \in Writers : AppendMismatch(w)
    \/ \E w \in Writers, e \in Events : AppendCall(w, e)
    \/ \E w \in Writers, ep \in Epochs : LoadCall(w, ep)
    \/ PowerFailure

Spec == Init /\ [][Next]_vars

\* A process that is not blocked is scheduled. Calls are bounded, so a lock
\* that others ask for is free again and again and the flock is granted.
FairSpec == Spec /\ \A w \in Writers : WF_vars(Step(w))

(***************************************************************************)
(* Properties                                                              *)
(***************************************************************************)

\* Every directory of the hierarchy is there after a power failure.
Reachable == firm = 1..Depth

\* The event is in its place, and a power failure now would leave it there.
Durable(e) ==
    /\ Reachable /\ exists[e.epoch] /\ linked[e.epoch]
    /\ e.seq <= synced[e.epoch]
    /\ lines[e.epoch][e.seq] = e

\* append's docstring: no success result is created before the file and, for
\* a newly-created epoch file, its parent directory are synced. So what
\* append has acknowledged is there for good.
AckedDurable == \A a \in acked : Durable(a[1])

\* The comments of _ensure_directories: every directory entry that mkdir
\* creates is persisted, and every ancestor is confirmed again where that may
\* have failed, before an event can report success.
AckedReachable == acked # {} => Reachable

\* The part of this that holds whatever fails: an event acknowledged as
\* ALREADY_EXISTS, or as the first of its epoch, is there for good, so a
\* caller that repeats an append until it is told so loses nothing - unless a
\* call has found the hierarchy half made.
ConfirmedDurable ==
    ~halfMade =>
        \A a \in acked : a[2] = "ALREADY_EXISTS" \/ a[1].seq = 1 => Durable(a[1])

\* Whatever the writers race and whatever fails, what _scan_store requires of
\* the records holds (only a fragment or an empty file is ever refused): no
\* append that the store accepts makes it unreadable.
NeverInvalidRecords ==
    /\ IdsUnique
    /\ \A ep \in Epochs : \A i \in 1..Len(lines[ep]) :
        lines[ep][i].epoch = ep /\ lines[ep][i].seq = i

\* A file is only created once the entry of the epochs directory is durable,
\* and those of all the directories above it, whoever created them and however
\* two first appends race - unless a call has found the hierarchy half made:
\* it syncs what it creates and trusts what it finds.
DirectoryFirst ==
    \A ep \in Epochs : exists[ep] => Depth \in firm /\ (halfMade \/ Reachable)

\* Every call ends: nobody waits for a lock that is never given back.
CallsReturn == \A w \in Writers : pc[w] # "idle" ~> pc[w] = "idle"

=============================================================================
