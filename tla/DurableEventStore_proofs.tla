----------------------- MODULE DurableEventStore_proofs -----------------------
(***************************************************************************)
(* Proofs about DurableEventStore, for any processes, events, depth of the *)
(* directory hierarchy and bounds.                                         *)
(***************************************************************************)
EXTENDS DurableEventStore, TLAPS

(***************************************************************************)
(* The inductive invariant                                                 *)
(***************************************************************************)

\* Where a process holds the flock.
Critical == {"scan", "open", "write", "sync_file", "sync_entry",
             "confirm_file", "confirm_entry"}

\* The records of the whole store, as _scan_store wants them: each in its
\* place, no id twice. (An epoch without a file has no records.)
Placed ==
    \A ep \in Epochs : \A i \in 1..Len(lines[ep]) :
        lines[ep][i].epoch = ep /\ lines[ep][i].seq = i
DistinctIds ==
    \A ep, fp \in Epochs : \A i \in 1..Len(lines[ep]), j \in 1..Len(lines[fp]) :
        lines[ep][i].id = lines[fp][j].id => ep = fp /\ i = j
Absent ==
    \A ep \in Epochs : ~exists[ep] => lines[ep] = <<>> /\ ~torn[ep] /\ ~linked[ep]
FilesInv == Placed /\ DistinctIds /\ Absent /\ DirectoryFirst

\* The event is a record of its epoch's file.
Written(e) ==
    /\ exists[e.epoch]
    /\ e.seq \in 1..Len(lines[e.epoch])
    /\ lines[e.epoch][e.seq] = e

\* The event is the next record of its epoch's file, and its id is new.
Fresh(e) ==
    /\ e.seq = Len(lines[e.epoch]) + 1
    /\ ~torn[e.epoch]
    /\ \A ep \in Epochs : \A i \in 1..Len(lines[ep]) : lines[ep][i].id # e.id

\* The epochs directory is durable, and so is all above it unless it was
\* found half made: what _ensure_directories establishes.
Firm == Depth \in firm /\ (halfMade \/ Reachable)

\* What it relies on: a directory that it found there above a missing one is
\* durable, and so are those whose entries it has synced.
EnsureInv(w) ==
    /\ pc[w] = "mkdir" => stop[w] = Depth \/ halfMade \/ 1..stop[w] \subseteq firm
    /\ pc[w] = "sync_dirs" =>
        /\ made = Depth /\ stop[w] < candidate[w]
        /\ (candidate[w] + 1)..Depth \subseteq firm
        /\ halfMade \/ 1..stop[w] \subseteq firm
    /\ pc[w] \in {"lock"} \cup Critical => Firm

\* What a process has established where it is.
CallInv(w) ==
    /\ pc[w] \notin {"idle", "load"} => arg[w] \in Events
    /\ EnsureInv(w)
    /\ pc[w] \in Critical => exclusive = w
    /\ pc[w] \in {"open", "write"} => Fresh(arg[w])
    /\ pc[w] = "write" => exists[arg[w].epoch]
    /\ pc[w] \in {"sync_file", "sync_entry", "confirm_file", "confirm_entry"} =>
        Written(arg[w])
    /\ pc[w] \in {"sync_entry", "confirm_entry"} => arg[w].seq <= synced[arg[w].epoch]
    /\ pc[w] \in {"open", "write", "sync_file"} => (arg[w].seq = 1 => created[w])
CallsInv == \A w \in Writers : CallInv(w)

StoreInv == TypeOK /\ FilesInv /\ CallsInv /\ ConfirmedDurable

\* An event names an epoch and a sequence number from 1.
LEMMA EventFields ==
    ASSUME NEW e \in Events
    PROVE  e.epoch \in Epochs /\ e.seq \in Nat /\ e.seq >= 1
BY EventsAssumption DEF Epochs

(***************************************************************************)
(* Types                                                                   *)
(***************************************************************************)

\* An empty directory is well typed.
LEMMA InitType == Init => TypeOK
<1> SUFFICES ASSUME Init PROVE TypeOK
  OBVIOUS
<1>1. budget \in [Faults -> Nat]
  BY StoreBoundsAssumption DEF Init, Faults
<1>2. /\ exists \in [Epochs -> BOOLEAN] /\ torn \in [Epochs -> BOOLEAN]
      /\ linked \in [Epochs -> BOOLEAN]
      /\ created \in [Writers -> BOOLEAN]
  BY DEF Init
<1>h. made \in 0..Depth /\ firm \subseteq 1..made /\ halfMade \in BOOLEAN
  BY DEF Init
<1>d. candidate \in [Writers -> 0..Depth] /\ stop \in [Writers -> 0..Depth]
  <2>1. 0 \in 0..Depth
    BY DepthAssumption
  <2>2. QED
    BY <2>1 DEF Init
<1>3. /\ lines \in [Epochs -> Seq(Events)] /\ synced \in [Epochs -> Nat]
      /\ \A ep \in Epochs : synced[ep] <= Len(lines[ep])
  BY DEF Init
<1>4. /\ exclusive \in Writers \cup {Nobody} /\ pc \in [Writers -> PC]
      /\ arg \in [Writers -> Events \cup {NoEvent}]
      /\ ret \in [Writers -> AppendStatus \cup Errors \cup {"LOADED", "NONE"}]
  BY DEF Init, PC
<1>5. QED
  BY <1>1, <1>2, <1>3, <1>4, <1>d, <1>h DEF Init, TypeOK

\* A bound that is spent stays a number.
LEMMA SpendType ==
    ASSUME TypeOK, NEW f \in Faults, Spend(f)
    PROVE  budget' \in [Faults -> Nat]
BY DEF TypeOK, Spend

\* The end of a call keeps the types of what it assigns.
LEMMA EndType ==
    ASSUME TypeOK, NEW w \in Writers,
           NEW r \in AppendStatus \cup Errors \cup {"LOADED", "NONE"}, End(w, r)
    PROVE  /\ exclusive' \in Writers \cup {Nobody}
           /\ pc' \in [Writers -> PC]
           /\ arg' \in [Writers -> Events \cup {NoEvent}]
           /\ candidate' \in [Writers -> 0..Depth] /\ stop' \in [Writers -> 0..Depth]
           /\ created' \in [Writers -> BOOLEAN]
           /\ ret' \in [Writers -> AppendStatus \cup Errors \cup {"LOADED", "NONE"}]
<1>1. pc' \in [Writers -> PC] /\ exclusive' \in Writers \cup {Nobody}
  BY DEF TypeOK, End, PC
<1>2. arg' \in [Writers -> Events \cup {NoEvent}]
  BY DEF TypeOK, End
<1>3. created' \in [Writers -> BOOLEAN]
  BY DEF TypeOK, End
<1>d. candidate' \in [Writers -> 0..Depth] /\ stop' \in [Writers -> 0..Depth]
  BY DepthAssumption DEF TypeOK, End
<1>4. ret' \in [Writers -> AppendStatus \cup Errors \cup {"LOADED", "NONE"}]
  BY DEF TypeOK, End
<1>5. QED
  BY <1>1, <1>2, <1>3, <1>4, <1>d

\* What is acknowledged is an event.
LEMMA AcknowledgeType ==
    ASSUME TypeOK, NEW w \in Writers, arg[w] \in Events, NEW s \in AppendStatus,
           Acknowledge(w, s)
    PROVE  acked' \subseteq Events \X AppendStatus
BY DEF TypeOK, Acknowledge

\* A process goes on to another place.
LEMMA GotoType ==
    ASSUME TypeOK, NEW w \in Writers, NEW l \in PC, Goto(w, l)
    PROVE  /\ pc' \in [Writers -> PC]
           /\ ret' \in [Writers -> AppendStatus \cup Errors \cup {"LOADED", "NONE"}]
BY DEF TypeOK, Goto

\* The steps that change no file keep the types.
LEMMA QuietType ==
    ASSUME TypeOK, NEW w \in Writers, CallInv(w),
           \/ AppendMismatch(w) \/ (\E e \in Events : AppendCall(w, e))
           \/ EnsureLook(w) \/ EnsureFound(w) \/ EnsureMkdir(w) \/ EnsureMade(w)
           \/ EnsureSync(w) \/ LockExclusive(w)
           \/ ScanCorrupt(w) \/ ScanExisting(w) \/ ScanRefuse(w) \/ ScanAccept(w)
           \/ CallFails(w) \/ (\E ep \in Epochs : LoadCall(w, ep)) \/ Load(w)
    PROVE  TypeOK'
<1> USE DEF files, locals, dirs
<1> "call" \in Faults /\ "io" \in Faults
  BY DEF Faults
<1>1. ASSUME AppendMismatch(w) PROVE TypeOK'
  BY <1>1, SpendType DEF TypeOK, AppendMismatch, Errors
<1> Depth \in Nat /\ Depth \in 0..Depth /\ 0 \in 0..Depth
  BY DepthAssumption
<1>2. ASSUME NEW e \in Events, AppendCall(w, e) PROVE TypeOK'
  <2>1. candidate' \in [Writers -> 0..Depth]
    BY <1>2 DEF AppendCall, TypeOK
  <2>2. QED
    BY <1>2, <2>1, SpendType, GotoType DEF TypeOK, AppendCall, PC, Goto
<1>3. ASSUME EnsureLook(w) PROVE TypeOK'
  <2>1. candidate[w] - 1 \in 0..Depth
    BY <1>3 DEF EnsureLook, TypeOK
  <2>2. candidate' \in [Writers -> 0..Depth]
    BY <1>3, <2>1 DEF EnsureLook, TypeOK
  <2>3. QED
    BY <1>3, <2>2 DEF TypeOK, EnsureLook
<1>4. ASSUME EnsureFound(w) PROVE TypeOK'
  <2>1. stop' \in [Writers -> 0..Depth] /\ halfMade' \in BOOLEAN
    BY <1>4 DEF EnsureFound, TypeOK
  <2>2. QED
    BY <1>4, <2>1, GotoType DEF TypeOK, EnsureFound, PC, Goto
<1>m. ASSUME EnsureMkdir(w) PROVE TypeOK'
  <2>1. made' \in 0..Depth /\ firm \subseteq 1..made'
    BY <1>m DEF EnsureMkdir, TypeOK
  <2>2. QED
    BY <1>m, <2>1 DEF TypeOK, EnsureMkdir
<1>d. ASSUME EnsureDone(w)
      PROVE  candidate' \in [Writers -> 0..Depth] /\ stop' \in [Writers -> 0..Depth]
  BY <1>d DEF EnsureDone, TypeOK
<1>n. ASSUME EnsureMade(w) PROVE TypeOK'
  <2>1. ASSUME NEW low \in 0..Depth, SyncDown(w, low)
        PROVE  candidate' \in [Writers -> 0..Depth] /\ stop' \in [Writers -> 0..Depth]
    BY <2>1 DEF SyncDown, TypeOK
  <2>2. candidate' \in [Writers -> 0..Depth] /\ stop' \in [Writers -> 0..Depth]
    BY <1>n, <2>1, <1>d DEF EnsureMade, TypeOK
  <2>3. PICK l \in PC : Goto(w, l)
    BY <1>n DEF EnsureMade, SyncDown, EnsureDone, PC
  <2>4. QED
    BY <1>n, <2>2, <2>3, GotoType DEF TypeOK, EnsureMade, Goto
<1>5. ASSUME EnsureSync(w) PROVE TypeOK'
  <2>1. candidate[w] \in 1..made /\ candidate[w] - 1 \in 0..Depth
    BY <1>5 DEF EnsureSync, CallInv, EnsureInv, TypeOK
  <2>2. firm' \subseteq 1..made
    BY <1>5, <2>1 DEF EnsureSync, TypeOK
  <2>3. candidate' \in [Writers -> 0..Depth] /\ stop' \in [Writers -> 0..Depth]
    BY <1>5, <2>1, <1>d DEF EnsureSync, TypeOK
  <2>4. PICK l \in PC : Goto(w, l)
    BY <1>5 DEF EnsureSync, EnsureDone, PC
  <2>5. QED
    BY <1>5, <2>2, <2>3, <2>4, GotoType DEF TypeOK, EnsureSync, Goto
<1>6. ASSUME LockExclusive(w) PROVE TypeOK'
  BY <1>6 DEF TypeOK, LockExclusive, PC
<1>7. ASSUME ScanCorrupt(w) PROVE TypeOK'
  BY <1>7, EndType DEF TypeOK, ScanCorrupt, Raise, Errors
<1>8. ASSUME ScanExisting(w) PROVE TypeOK'
  BY <1>8, GotoType DEF TypeOK, ScanExisting, PC, Goto
<1>9. ASSUME ScanRefuse(w) PROVE TypeOK'
  <2>1. PICK r \in Errors : Raise(w, r)
    BY <1>9 DEF ScanRefuse, Errors
  <2>2. QED
    BY <1>9, <2>1, EndType DEF TypeOK, ScanRefuse, Raise
<1>10. ASSUME ScanAccept(w) PROVE TypeOK'
  <2>1. created' \in [Writers -> BOOLEAN]
    BY <1>10 DEF ScanAccept, TypeOK
  <2>2. pc' \in [Writers -> PC]
    BY <1>10, GotoType DEF ScanAccept, PC
  <2>3. QED
    BY <1>10, <2>1, <2>2 DEF TypeOK, ScanAccept, Goto
<1>11. ASSUME CallFails(w) PROVE TypeOK'
  BY <1>11, EndType, SpendType DEF TypeOK, CallFails, Raise, Errors
<1>12. ASSUME NEW ep \in Epochs, LoadCall(w, ep) PROVE TypeOK'
  <2>1. CASE Goto(w, "load") /\ UNCHANGED locals
    BY <1>12, <2>1, GotoType, SpendType DEF TypeOK, LoadCall, PC, Goto
  <2>2. CASE Raise(w, "EpochNotFoundError")
    BY <1>12, <2>2, EndType, SpendType DEF TypeOK, LoadCall, Raise, Errors
  <2>3. QED
    BY <1>12, <2>1, <2>2 DEF LoadCall
<1>13. ASSUME Load(w) PROVE TypeOK'
  <2>1. PICK r \in Errors \cup {"LOADED", "NONE"} : End(w, r)
    BY <1>13 DEF Load, Errors
  <2>2. QED
    BY <1>13, <2>1, EndType DEF TypeOK, Load
<1>14. QED
  BY <1>1, <1>2, <1>3, <1>4, <1>m, <1>n, <1>5, <1>6, <1>7, <1>8, <1>9, <1>10, <1>11, <1>12,
     <1>13

\* The steps on the event's file, under the lock, keep the types.
LEMMA FileType ==
    ASSUME TypeOK, NEW w \in Writers, CallInv(w),
           \/ Open(w) \/ Write(w) \/ ShortWrite(w) \/ SyncFile(w) \/ SyncEntry(w)
           \/ ConfirmFile(w) \/ ConfirmEntry(w) \/ ProcessCrash(w)
    PROVE  TypeOK'
<1> USE DEF files, locals, dirs
<1> DEFINE ep == arg[w].epoch
<1>e. ASSUME pc[w] \notin {"idle", "load"} PROVE arg[w] \in Events /\ ep \in Epochs
  BY <1>e, EventFields DEF CallInv
<1> "short_write" \in Faults /\ "process" \in Faults
  BY DEF Faults
<1>s. ASSUME ep \in Epochs, FileSynced(ep), UNCHANGED lines
      PROVE  synced' \in [Epochs -> Nat] /\ \A f \in Epochs : synced'[f] <= Len(lines'[f])
  BY <1>s DEF FileSynced, TypeOK
<1> HIDE DEF ep
<1>1. ASSUME Open(w) PROVE TypeOK'
  <2>1. exists' \in [Epochs -> BOOLEAN]
    BY <1>1, <1>e DEF Open, TypeOK, ep
  <2>2. pc' \in [Writers -> PC]
    BY <1>1, GotoType DEF Open, PC
  <2>3. QED
    BY <1>1, <2>1, <2>2 DEF TypeOK, Open, Goto
<1>2. ASSUME Write(w) PROVE TypeOK'
  <2>1. pc' \in [Writers -> PC]
    BY <1>2, GotoType DEF Write, PC
  <2>2. lines' = lines \/ lines' = [lines EXCEPT ![ep] = Append(lines[ep], arg[w])]
    BY <1>2 DEF Write, ep
  <2>3. arg[w] \in Events /\ ep \in Epochs
    BY <1>2, <1>e DEF Write
  <2>4. lines' \in [Epochs -> Seq(Events)] /\ \A f \in Epochs : synced[f] <= Len(lines'[f])
    <3>1. Append(lines[ep], arg[w]) \in Seq(Events)
          /\ Len(Append(lines[ep], arg[w])) = Len(lines[ep]) + 1
      BY <2>3 DEF TypeOK
    <3>2. synced[ep] <= Len(lines[ep]) + 1
      BY <2>3 DEF TypeOK
    <3>3. QED
      BY <2>2, <2>3, <3>1, <3>2 DEF TypeOK
  <2>5. QED
    BY <1>2, <2>1, <2>4 DEF TypeOK, Write, Goto
<1>3. ASSUME ShortWrite(w) PROVE TypeOK'
  <2>1. torn' \in [Epochs -> BOOLEAN]
    BY <1>3, <1>e DEF ShortWrite, TypeOK, ep
  <2>2. QED
    BY <1>3, <2>1, EndType, SpendType DEF TypeOK, ShortWrite, Raise, Errors
<1>4. ASSUME SyncFile(w) PROVE TypeOK'
  <2>1. arg[w] \in Events /\ ep \in Epochs /\ FileSynced(ep)
    BY <1>4, <1>e DEF SyncFile, ep
  <2>2. CASE Goto(w, "sync_entry") /\ UNCHANGED locals
    BY <1>4, <2>1, <2>2, <1>s, GotoType DEF TypeOK, SyncFile, PC, Goto
  <2>3. CASE Acknowledge(w, "APPENDED")
    BY <1>4, <2>1, <2>3, <1>s, EndType, AcknowledgeType
       DEF TypeOK, SyncFile, Acknowledge, AppendStatus
  <2>4. QED
    BY <1>4, <2>2, <2>3 DEF SyncFile
<1>5. ASSUME SyncEntry(w) PROVE TypeOK'
  BY <1>5, <1>e, EndType, AcknowledgeType
     DEF TypeOK, SyncEntry, Acknowledge, AppendStatus, EntriesSynced
<1>6. ASSUME ConfirmFile(w) PROVE TypeOK'
  <2>1. ep \in Epochs /\ FileSynced(ep)
    BY <1>6, <1>e DEF ConfirmFile, ep
  <2>2. QED
    BY <1>6, <2>1, <1>s, GotoType DEF TypeOK, ConfirmFile, PC, Goto
<1>7. ASSUME ConfirmEntry(w) PROVE TypeOK'
  BY <1>7, <1>e, EndType, AcknowledgeType
     DEF TypeOK, ConfirmEntry, Acknowledge, AppendStatus, EntriesSynced
<1>8. ASSUME ProcessCrash(w) PROVE TypeOK'
  <2>1. torn' \in [Epochs -> BOOLEAN]
    BY <1>8, <1>e DEF ProcessCrash, TypeOK, ep
  <2>2. QED
    BY <1>8, <2>1, EndType, SpendType DEF TypeOK, ProcessCrash, Raise
<1>9. QED
  BY <1>1, <1>2, <1>3, <1>4, <1>5, <1>6, <1>7, <1>8

\* What a power failure leaves of the files.
LEMMA PowerFiles ==
    ASSUME TypeOK, PowerFailure
    PROVE  /\ synced' \in [Epochs -> Nat]
           /\ lines' \in [Epochs -> Seq(Events)]
           /\ \A ep \in Epochs :
                /\ Len(lines'[ep]) = synced'[ep]
                /\ synced'[ep] <= Len(lines[ep])
                /\ exists'[ep] => synced[ep] <= synced'[ep]
                /\ ~exists'[ep] => synced'[ep] = 0
                /\ \A i \in 1..Len(lines'[ep]) : lines'[ep][i] = lines[ep][i]
<1>1. PICK kept \in [Epochs -> 0..Cardinality(Events)] :
        /\ \A ep \in Epochs :
            IF exists'[ep] THEN kept[ep] \in synced[ep]..Len(lines[ep]) ELSE kept[ep] = 0
        /\ lines' = [ep \in Epochs |-> SubSeq(lines[ep], 1, kept[ep])]
        /\ synced' = kept
  BY DEF PowerFailure
<1>2. ASSUME NEW ep \in Epochs
      PROVE  /\ lines[ep] \in Seq(Events) /\ synced[ep] \in Nat /\ Len(lines[ep]) \in Nat
             /\ kept[ep] \in 0..Len(lines[ep])
             /\ exists'[ep] => synced[ep] <= kept[ep]
             /\ ~exists'[ep] => kept[ep] = 0
  BY <1>1 DEF TypeOK
<1>3. kept \in [Epochs -> Nat]
  BY <1>1, <1>2
<1>4. ASSUME NEW ep \in Epochs
      PROVE  /\ lines'[ep] = SubSeq(lines[ep], 1, kept[ep])
             /\ lines'[ep] \in Seq(Events)
             /\ Len(lines'[ep]) = kept[ep]
             /\ \A i \in 1..Len(lines'[ep]) : lines'[ep][i] = lines[ep][i]
  <2>1. lines'[ep] = SubSeq(lines[ep], 1, kept[ep])
    BY <1>1
  <2>2. QED
    BY <2>1, <1>2
<1>5. lines' \in [Epochs -> Seq(Events)]
  BY <1>1, <1>4
<1>6. QED
  BY <1>1, <1>2, <1>3, <1>4, <1>5

\* What a power failure leaves is well typed.
LEMMA PowerType == TypeOK /\ PowerFailure => TypeOK'
<1> SUFFICES ASSUME TypeOK, PowerFailure PROVE TypeOK'
  OBVIOUS
<1>1. /\ pc' \in [Writers -> PC] /\ exclusive' \in Writers \cup {Nobody}
      /\ arg' \in [Writers -> Events \cup {NoEvent}]
      /\ ret' \in [Writers -> AppendStatus \cup Errors \cup {"LOADED", "NONE"}]
  BY DEF PowerFailure, PC
<1>2. /\ created' \in [Writers -> BOOLEAN]
      /\ candidate' \in [Writers -> 0..Depth] /\ stop' \in [Writers -> 0..Depth]
  BY DepthAssumption DEF PowerFailure
<1>3. exists' \in [Epochs -> BOOLEAN] /\ torn' \in [Epochs -> BOOLEAN]
      /\ linked' \in [Epochs -> BOOLEAN]
  BY DEF PowerFailure
<1>4. made' \in 0..Depth /\ firm' \subseteq 1..made' /\ halfMade' \in BOOLEAN
  BY DepthAssumption DEF PowerFailure, TypeOK
<1>5. budget' \in [Faults -> Nat]
  BY SpendType DEF PowerFailure, Faults
<1>6. \A ep \in Epochs : synced'[ep] <= Len(lines'[ep])
  BY PowerFiles
<1>7. QED
  BY <1>1, <1>2, <1>3, <1>4, <1>5, <1>6, PowerFiles DEF TypeOK, PowerFailure

(***************************************************************************)
(* What the scan establishes                                               *)
(***************************************************************************)

\* An event that the scan finds under its own id is in its place.
LEMMA ScanFinds ==
    ASSUME TypeOK, Placed, NEW e \in Events, e \in Existing(e.id)
    PROVE  Written(e)
<1>1. PICK q \in Stored : lines[q[1]][q[2]] = e
  BY DEF Existing
<1>2. PICK ep \in Epochs, i \in Nat :
        i \in 1..Len(lines[ep]) /\ exists[ep] /\ q = <<ep, i>>
  BY DEF Stored
<1>3. lines[ep][i] = e
  BY <1>1, <1>2
<1>4. e.epoch = ep /\ e.seq = i
  BY <1>2, <1>3 DEF Placed
<1>5. QED
  BY <1>2, <1>3, <1>4 DEF Written

\* An event that the scan accepts is the next of its epoch under a new id, and
\* it is the first only if there is no file.
LEMMA ScanAccepts ==
    ASSUME TypeOK, Absent, ScanOK, NEW e \in Events, Existing(e.id) = {},
           e.seq = ExpectedSequence(e.epoch)
    PROVE  Fresh(e) /\ (e.seq = 1 => ~exists[e.epoch])
<1>0. \A ep \in Epochs : \A i \in 1..Len(lines[ep]) : lines[ep][i].id # e.id
  <2> SUFFICES ASSUME NEW ep \in Epochs, NEW i \in 1..Len(lines[ep]),
                      lines[ep][i].id = e.id
               PROVE  FALSE
    OBVIOUS
  <2>1. exists[ep]
    BY DEF Absent, TypeOK
  <2>2. <<ep, i>> \in Stored
    BY <2>1 DEF Stored
  <2>3. lines[ep][i] \in Existing(e.id)
    BY <2>2 DEF Existing
  <2>4. QED
    BY <2>3
<1>1. e.epoch \in Epochs /\ e.seq \in Nat
  BY EventFields
<1>2. lines[e.epoch] \in Seq(Events) /\ Len(lines[e.epoch]) \in Nat
  BY <1>1 DEF TypeOK
<1>3. CASE exists[e.epoch]
  <2>1. lines[e.epoch] # <<>> /\ ~torn[e.epoch]
    BY <1>1, <1>3 DEF ScanOK, Readable
  <2>2. Len(lines[e.epoch]) >= 1
    BY <1>2, <2>1
  <2>3. e.seq = Len(lines[e.epoch]) + 1
    BY <1>3 DEF ExpectedSequence
  <2>4. e.seq # 1
    BY <1>2, <2>2, <2>3
  <2>5. QED
    BY <1>0, <2>1, <2>3, <2>4 DEF Fresh
<1>4. CASE ~exists[e.epoch]
  <2>1. lines[e.epoch] = <<>> /\ ~torn[e.epoch]
    BY <1>1, <1>4 DEF Absent
  <2>2. e.seq = Len(lines[e.epoch]) + 1
    BY <1>4, <2>1 DEF ExpectedSequence
  <2>3. QED
    BY <1>0, <1>4, <2>1, <2>2 DEF Fresh
<1>5. QED
  BY <1>3, <1>4

\* The two ways of saying that no id is in the store twice.
LEMMA UniqueStored ==
    ASSUME TypeOK, DistinctIds
    PROVE  IdsUnique
<1> SUFFICES ASSUME NEW p \in Stored, NEW q \in Stored,
                    lines[p[1]][p[2]].id = lines[q[1]][q[2]].id
             PROVE  p = q
  BY DEF IdsUnique
<1>1. PICK ep \in Epochs, i \in Nat : i \in 1..Len(lines[ep]) /\ p = <<ep, i>>
  BY DEF Stored
<1>2. PICK fp \in Epochs, j \in Nat : j \in 1..Len(lines[fp]) /\ q = <<fp, j>>
  BY DEF Stored
<1>3. ep = fp /\ i = j
  BY <1>1, <1>2 DEF DistinctIds
<1>4. QED
  BY <1>1, <1>2, <1>3

(***************************************************************************)
(* What a step leaves alone                                                *)
(***************************************************************************)

\* The step changes no process's call but w's.
Alone(w) ==
    \A v \in Writers \ {w} :
        /\ pc'[v] = pc[v] /\ arg'[v] = arg[v] /\ created'[v] = created[v]
        /\ candidate'[v] = candidate[v] /\ stop'[v] = stop[v]

\* No directory is taken back, and no entry of one.
DirsKept ==
    /\ firm \subseteq firm' /\ firm' \subseteq 1..Depth
    /\ halfMade => halfMade'
    /\ made = Depth => made' = Depth

\* What is durable stays durable.
Keeps ==
    /\ Reachable => Reachable'
    /\ halfMade => halfMade'
    /\ \A ep \in Epochs : Reachable /\ exists[ep] /\ linked[ep] =>
        /\ exists'[ep] /\ linked'[ep] /\ synced[ep] <= synced'[ep]
        /\ synced'[ep] \in Nat
        /\ \A i \in 1..synced[ep] : lines'[ep][i] = lines[ep][i]

\* A step that takes no directory back keeps the path to the files, and what
\* _ensure_directories has established.
LEMMA PathKept ==
    ASSUME TypeOK, DirsKept
    PROVE  (Reachable => Reachable') /\ (Firm => Firm')
BY DEF DirsKept, Reachable, Firm

\* The same directories.
LEMMA DirsSame ==
    ASSUME TypeOK, UNCHANGED dirs
    PROVE  DirsKept
BY DepthAssumption DEF DirsKept, dirs, TypeOK

\* What was durable stays so in a step that takes nothing back.
LEMMA DurableKept ==
    ASSUME TypeOK, Keeps, NEW e \in Events, Durable(e)
    PROVE  Durable(e)'
<1>1. e.epoch \in Epochs /\ e.seq \in Nat /\ e.seq >= 1
  BY EventFields
<1>2. synced[e.epoch] \in Nat /\ e.seq \in 1..synced[e.epoch]
  BY <1>1 DEF TypeOK, Durable
<1>3. /\ Reachable' /\ exists'[e.epoch] /\ linked'[e.epoch]
      /\ synced'[e.epoch] \in Nat /\ synced[e.epoch] <= synced'[e.epoch]
      /\ lines'[e.epoch][e.seq] = lines[e.epoch][e.seq]
  BY <1>1, <1>2 DEF Keeps, Durable
<1>4. e.seq <= synced'[e.epoch]
  BY <1>1, <1>2, <1>3
<1>5. QED
  BY <1>3, <1>4 DEF Durable

\* So do the confirmed events.
LEMMA ConfirmedKept ==
    ASSUME TypeOK, ConfirmedDurable, Keeps, acked' = acked
    PROVE  ConfirmedDurable'
<1> SUFFICES ASSUME NEW a \in acked, a[2] = "ALREADY_EXISTS" \/ a[1].seq = 1, ~halfMade'
             PROVE  Durable(a[1])'
  BY DEF ConfirmedDurable
<1> ~halfMade
  BY DEF Keeps
<1>1. a[1] \in Events
  BY DEF TypeOK
<1>2. Durable(a[1])
  BY DEF ConfirmedDurable
<1>3. QED
  BY <1>1, <1>2, DurableKept

\* A new acknowledgement must be of an event that is durable by now.
LEMMA ConfirmedNew ==
    ASSUME TypeOK, ConfirmedDurable, Keeps, NEW e \in Events, NEW s,
           acked' = acked \cup {<<e, s>>},
           s = "ALREADY_EXISTS" \/ e.seq = 1 => halfMade' \/ Durable(e)'
    PROVE  ConfirmedDurable'
<1> SUFFICES ASSUME NEW a \in acked', a[2] = "ALREADY_EXISTS" \/ a[1].seq = 1, ~halfMade'
             PROVE  Durable(a[1])'
  BY DEF ConfirmedDurable
<1> ~halfMade
  BY DEF Keeps
<1>1. CASE a \in acked
  <2>1. a[1] \in Events
    BY <1>1 DEF TypeOK
  <2>2. Durable(a[1])
    BY <1>1 DEF ConfirmedDurable
  <2>3. QED
    BY <2>1, <2>2, DurableKept
<1>2. CASE a = <<e, s>>
  BY <1>2
<1>3. QED
  BY <1>1, <1>2

\* The lock: a step of w disturbs nobody who holds it.
LEMMA OthersKept ==
    ASSUME TypeOK, CallsInv, NEW w \in Writers, Alone(w), DirsKept,
           exclusive' = exclusive \/ exclusive \in {w, Nobody},
           UNCHANGED files \/ exclusive = w,
           NEW v \in Writers \ {w}
    PROVE  CallInv(v)'
<1>1. /\ pc'[v] = pc[v] /\ arg'[v] = arg[v] /\ created'[v] = created[v]
      /\ candidate'[v] = candidate[v] /\ stop'[v] = stop[v]
  BY DEF Alone
<1>2. EnsureInv(v)'
  <2>0. EnsureInv(v) /\ (Firm => Firm')
    BY PathKept DEF CallsInv, CallInv
  <2>1. pc[v] = "mkdir" => stop[v] = Depth \/ halfMade' \/ 1..stop[v] \subseteq firm'
    BY <2>0 DEF EnsureInv, DirsKept
  <2>2. pc[v] = "sync_dirs" =>
            /\ made' = Depth /\ stop[v] < candidate[v]
            /\ (candidate[v] + 1)..Depth \subseteq firm'
            /\ halfMade' \/ 1..stop[v] \subseteq firm'
    BY <2>0 DEF EnsureInv, DirsKept
  <2>3. pc[v] \in {"lock"} \cup Critical => Firm'
    BY <2>0 DEF EnsureInv
  <2>4. QED
    BY <1>1, <2>1, <2>2, <2>3 DEF EnsureInv
<1>3. CASE pc[v] \in Critical
  <2>1. exclusive = v
    BY <1>3 DEF CallsInv, CallInv
  <2>2. exclusive' = v /\ UNCHANGED files
    BY <2>1, EventsAssumption
  <2>3. QED
    BY <1>1, <1>2, <1>3, <2>1, <2>2 DEF CallsInv, CallInv, files, Fresh, Written
<1>4. CASE pc[v] \notin Critical
  BY <1>1, <1>2, <1>4 DEF CallsInv, CallInv, Critical
<1>5. QED
  BY <1>3, <1>4

\* A process whose call has ended has established nothing.
LEMMA EndedCall ==
    ASSUME NEW w \in Writers, pc'[w] \in {"idle", "load"}
    PROVE  CallInv(w)'
BY DEF CallInv, EnsureInv, Critical

\* The end of a call: the process is idle and holds no lock.
LEMMA EndStep ==
    ASSUME TypeOK, NEW w \in Writers, NEW r, End(w, r)
    PROVE  /\ Alone(w) /\ pc'[w] = "idle"
           /\ exclusive' = exclusive \/ exclusive \in {w, Nobody}
BY DEF TypeOK, End, Alone

\* A step that changes no file, and the directory only for the better.
LEMMA QuietFiles ==
    ASSUME TypeOK, FilesInv, ConfirmedDurable, UNCHANGED <<files, acked>>, DirsKept
    PROVE  FilesInv' /\ ConfirmedDurable'
<1>1. Keeps
  BY PathKept DEF Keeps, DirsKept, files, TypeOK
<1>2. FilesInv'
  <2>1. DirectoryFirst'
    BY PathKept DEF FilesInv, DirectoryFirst, Firm, files
  <2>2. QED
    BY <2>1 DEF FilesInv, Placed, DistinctIds, Absent, files
<1>3. QED
  BY <1>1, <1>2, ConfirmedKept

(***************************************************************************)
(* Every step preserves the invariant                                      *)
(***************************************************************************)

\* Nothing is stored, and nobody works.
LEMMA InitInv == Init => StoreInv
<1> SUFFICES ASSUME Init PROVE StoreInv
  OBVIOUS
<1>1. FilesInv
  BY DEF Init, FilesInv, Placed, DistinctIds, Absent, DirectoryFirst
<1>2. CallsInv
  BY DEF Init, CallsInv, CallInv, EnsureInv, Critical
<1>3. ConfirmedDurable
  BY DEF Init, ConfirmedDurable
<1>4. QED
  BY <1>1, <1>2, <1>3, InitType DEF StoreInv

\* What the proof needs of a step that changes no file.
QuietStep(w) ==
    /\ UNCHANGED <<files, acked>>
    /\ DirsKept
    /\ exclusive' = exclusive \/ exclusive \in {w, Nobody}
    /\ Alone(w) /\ CallInv(w)'

\* A call that ends without touching the files.
LEMMA QuietEnd ==
    ASSUME TypeOK, NEW w \in Writers, NEW r, End(w, r), UNCHANGED <<dirs, files, acked>>
    PROVE  QuietStep(w)
BY EndStep, EndedCall, DirsSame DEF QuietStep

\* A process that goes on without touching the files, to a place whose claim holds.
LEMMA QuietGoto ==
    ASSUME TypeOK, NEW w \in Writers, NEW l, Goto(w, l), UNCHANGED <<dirs, files, locals>>,
           CallInv(w)'
    PROVE  QuietStep(w)
BY DirsSame DEF QuietStep, Goto, Alone, locals

\* The calls, the checks of the directory and of the store, and the ends that
\* change no file.
LEMMA QuietInv ==
    ASSUME StoreInv, NEW w \in Writers,
           \/ AppendMismatch(w) \/ (\E e \in Events : AppendCall(w, e))
           \/ EnsureLook(w) \/ EnsureFound(w) \/ EnsureMkdir(w) \/ EnsureMade(w)
           \/ EnsureSync(w) \/ LockExclusive(w)
           \/ ScanCorrupt(w) \/ ScanExisting(w) \/ ScanRefuse(w) \/ ScanAccept(w)
           \/ CallFails(w) \/ (\E ep \in Epochs : LoadCall(w, ep)) \/ Load(w)
    PROVE  StoreInv'
<1>0. TypeOK /\ TypeOK' /\ CallInv(w) /\ FilesInv /\ CallsInv /\ ConfirmedDurable
  BY QuietType DEF StoreInv, CallsInv
<1>1. SUFFICES QuietStep(w)
  <2> SUFFICES ASSUME QuietStep(w) PROVE StoreInv'
    OBVIOUS
  <2>1. FilesInv' /\ ConfirmedDurable'
    BY <1>0, QuietFiles DEF QuietStep
  <2>2. CallsInv'
    BY <1>0, OthersKept DEF QuietStep, CallsInv
  <2>3. QED
    BY <1>0, <2>1, <2>2 DEF StoreInv
<1>3. CASE AppendMismatch(w)
  <2>1. CallInv(w)'
    BY <1>3, EndedCall DEF AppendMismatch
  <2>2. QED
    BY <1>0, <1>3, <2>1, DirsSame DEF AppendMismatch, Alone, locals, QuietStep
<1>4. ASSUME NEW e \in Events, AppendCall(w, e) PROVE QuietStep(w)
  <2>1. pc'[w] = "ensure" /\ arg'[w] = e
    BY <1>0, <1>4 DEF AppendCall, Goto, TypeOK
  <2>2. CallInv(w)'
    BY <2>1 DEF CallInv, EnsureInv, Critical
  <2>3. QED
    BY <1>0, <1>4, <2>2, DirsSame DEF AppendCall, Goto, Alone, TypeOK, QuietStep
<1>5. CASE EnsureLook(w)
  <2>1. pc'[w] = "ensure" /\ arg'[w] = arg[w] /\ arg[w] \in Events
    BY <1>0, <1>5 DEF EnsureLook, TypeOK, CallInv
  <2>2. CallInv(w)'
    BY <2>1 DEF CallInv, EnsureInv, Critical
  <2>3. QED
    BY <1>0, <1>5, <2>2, DirsSame DEF EnsureLook, Alone, TypeOK, QuietStep
<1>f. CASE EnsureFound(w)
  <2>1. /\ pc'[w] = "mkdir" /\ arg'[w] = arg[w] /\ arg[w] \in Events
        /\ stop'[w] = candidate[w] /\ firm' = firm /\ made' = made
    BY <1>0, <1>f DEF EnsureFound, Goto, TypeOK, CallInv
  <2>2. candidate[w] = Depth \/ halfMade' \/ 1..candidate[w] \subseteq firm
    <3>1. candidate[w] \in 0..Depth
      BY <1>0 DEF TypeOK
    <3>2. candidate[w] = Depth \/ candidate[w] < Depth
      BY <3>1, DepthAssumption
    <3>3. halfMade' = (halfMade \/ (candidate[w] < Depth /\ ~(1..candidate[w] \subseteq firm)))
      BY <1>f DEF EnsureFound
    <3>4. QED
      BY <3>2, <3>3
  <2>3. CallInv(w)'
    BY <2>1, <2>2 DEF CallInv, EnsureInv, Critical
  <2>4. DirsKept
    BY <1>0, <1>f, <2>1, DepthAssumption DEF EnsureFound, DirsKept, TypeOK
  <2>5. QED
    BY <1>0, <1>f, <2>3, <2>4 DEF EnsureFound, Goto, Alone, TypeOK, QuietStep
<1>6. CASE EnsureMkdir(w)
  <2>1. DirsKept
    BY <1>0, <1>6, DepthAssumption DEF EnsureMkdir, DirsKept, TypeOK
  <2>2. pc' = pc /\ UNCHANGED locals
    BY <1>6 DEF EnsureMkdir
  <2>3. CallInv(w)'
    BY <1>0, <1>6, <2>2 DEF EnsureMkdir, CallInv, EnsureInv, Critical, locals
  <2>4. QED
    BY <1>6, <2>1, <2>2, <2>3 DEF EnsureMkdir, Alone, QuietStep, locals
<1>m. CASE EnsureMade(w)
  <2>0. /\ arg'[w] = arg[w] /\ arg[w] \in Events /\ UNCHANGED dirs /\ made = Depth
        /\ DirsKept /\ pc[w] = "mkdir"
    BY <1>0, <1>m, DirsSame DEF EnsureMade, CallInv
  <2>1. ASSUME NEW low \in 0..Depth, SyncDown(w, low), low < Depth,
               halfMade \/ 1..low \subseteq firm
        PROVE  CallInv(w)'
    <3>1. pc'[w] = "sync_dirs" /\ candidate'[w] = Depth /\ stop'[w] = low
      BY <1>0, <2>1 DEF SyncDown, Goto, TypeOK
    <3>2. (Depth + 1)..Depth \subseteq firm
      BY DepthAssumption
    <3>3. made' = Depth /\ halfMade' = halfMade /\ firm' = firm
      BY <2>0 DEF dirs
    <3>4. EnsureInv(w)'
      BY <2>1, <3>1, <3>2, <3>3 DEF EnsureInv, Critical
    <3>5. QED
      BY <2>0, <3>1, <3>4 DEF CallInv, Critical
  <2>2. ASSUME EnsureDone(w), \E ep \in Epochs : exists[ep] PROVE CallInv(w)'
    <3>1. pc'[w] = "lock"
      BY <1>0, <2>2 DEF EnsureDone, Goto, TypeOK
    <3>2. Firm
      BY <1>0, <2>2 DEF FilesInv, DirectoryFirst, Firm
    <3>3. Firm'
      BY <1>0, <2>0, <3>2, PathKept
    <3>4. QED
      BY <2>0, <3>1, <3>3 DEF CallInv, EnsureInv, Critical
  <2>3. stop[w] \in 0..Depth /\ 0 \in 0..Depth /\ 0 < Depth /\ 1..0 \subseteq firm
    BY <1>0, DepthAssumption DEF TypeOK
  <2>4. stop[w] = Depth \/ halfMade \/ 1..stop[w] \subseteq firm
    BY <1>0, <2>0 DEF CallInv, EnsureInv
  <2>5. CallInv(w)'
    <3>1. CASE stop[w] < Depth /\ SyncDown(w, stop[w])
      <4>1. stop[w] # Depth
        BY <2>3, <3>1, DepthAssumption
      <4>2. QED
        BY <2>1, <2>3, <2>4, <3>1, <4>1
    <3>2. CASE SyncDown(w, 0)
      BY <2>1, <2>3, <3>2
    <3>3. CASE (\E ep \in Epochs : exists[ep]) /\ EnsureDone(w)
      BY <2>2, <3>3
    <3>4. QED
      BY <1>m, <3>1, <3>2, <3>3 DEF EnsureMade
  <2>6. Alone(w) /\ UNCHANGED <<files, acked, exclusive>>
    BY <1>0, <1>m DEF EnsureMade, SyncDown, EnsureDone, Goto, Alone, TypeOK
  <2>7. QED
    BY <2>0, <2>5, <2>6 DEF QuietStep
<1>7. CASE EnsureSync(w)
  <2>0. /\ candidate[w] \in 1..Depth /\ stop[w] \in 0..Depth /\ stop[w] < candidate[w]
        /\ made = Depth /\ (candidate[w] + 1)..Depth \subseteq firm
        /\ halfMade \/ 1..stop[w] \subseteq firm
    BY <1>0, <1>7, DepthAssumption DEF EnsureSync, CallInv, EnsureInv, TypeOK
  <2>1. /\ arg'[w] = arg[w] /\ arg[w] \in Events
        /\ firm' = firm \cup {candidate[w]} /\ made' = Depth /\ halfMade' = halfMade
    BY <1>0, <1>7, <2>0 DEF EnsureSync, CallInv
  <2>2. DirsKept
    BY <1>0, <2>0, <2>1, DepthAssumption DEF DirsKept, TypeOK
  <2>3. candidate[w]..Depth \subseteq firm'
    BY <2>0, <2>1, DepthAssumption
  <2>4. halfMade' \/ 1..stop[w] \subseteq firm'
    BY <2>0, <2>1
  <2>5. CASE candidate' = [candidate EXCEPT ![w] = candidate[w] - 1]
             /\ candidate[w] - 1 > stop[w] /\ Goto(w, "sync_dirs") /\ UNCHANGED stop
    <3>1. /\ pc'[w] = "sync_dirs" /\ candidate'[w] = candidate[w] - 1 /\ stop'[w] = stop[w]
      BY <1>0, <2>5 DEF Goto, TypeOK
    <3>2. stop'[w] < candidate'[w] /\ (candidate'[w] + 1)..Depth \subseteq firm'
      <4>1. candidate'[w] + 1 = candidate[w]
        BY <2>0, <3>1
      <4>2. QED
        BY <2>0, <2>3, <2>5, <3>1, <4>1
    <3>3. EnsureInv(w)'
      BY <2>1, <2>4, <3>1, <3>2 DEF EnsureInv, Critical
    <3>4. CallInv(w)'
      BY <2>1, <3>1, <3>3 DEF CallInv, Critical
    <3>5. QED
      BY <1>0, <1>7, <2>2, <2>5, <3>4 DEF EnsureSync, Goto, Alone, TypeOK, QuietStep
  <2>6. CASE candidate[w] - 1 = stop[w] /\ EnsureDone(w)
    <3>1. pc'[w] = "lock"
      BY <1>0, <2>6 DEF EnsureDone, Goto, TypeOK
    <3>2. Depth \in firm'
      BY <2>0, <2>3, DepthAssumption
    <3>3. ASSUME 1..stop[w] \subseteq firm' PROVE 1..Depth \subseteq firm'
      BY <2>0, <2>3, <2>6, <3>3, DepthAssumption
    <3>4. 1..Depth \subseteq firm' => Reachable'
      BY <2>2 DEF DirsKept, Reachable
    <3>5. Firm'
      BY <2>4, <3>2, <3>3, <3>4 DEF Firm
    <3>6. CallInv(w)'
      BY <2>1, <3>1, <3>5 DEF CallInv, EnsureInv, Critical
    <3>7. QED
      BY <1>0, <1>7, <2>2, <2>6, <3>6 DEF EnsureSync, EnsureDone, Goto, Alone, TypeOK, QuietStep
  <2>7. QED
    BY <1>7, <2>5, <2>6 DEF EnsureSync
<1>8. CASE LockExclusive(w)
  <2>1. /\ pc'[w] = "scan" /\ arg'[w] = arg[w] /\ arg[w] \in Events
        /\ exclusive' = w /\ Firm /\ Firm'
    BY <1>0, <1>8, DirsSame, PathKept DEF LockExclusive, TypeOK, CallInv, EnsureInv, locals
  <2>2. CallInv(w)'
    BY <2>1 DEF CallInv, EnsureInv, Critical
  <2>3. QED
    BY <1>0, <1>8, <2>2, DirsSame DEF LockExclusive, Alone, QuietStep, locals
<1>9. CASE ScanCorrupt(w)
  BY <1>0, <1>9, QuietEnd DEF ScanCorrupt, Raise
<1>10. CASE ScanExisting(w)
  <2>1. /\ pc'[w] = "confirm_file" /\ arg'[w] = arg[w] /\ arg[w] \in Events
        /\ exclusive = w /\ exclusive' = w /\ Firm /\ Firm'
    BY <1>0, <1>10, DirsSame, PathKept
       DEF ScanExisting, Goto, TypeOK, CallInv, EnsureInv, Critical, locals
  <2>2. Written(arg[w])
    BY <1>0, <1>10, <2>1, ScanFinds DEF ScanExisting, FilesInv
  <2>3. Written(arg[w])'
    BY <1>10, <2>1, <2>2 DEF ScanExisting, Written, files
  <2>4. CallInv(w)'
    BY <2>1, <2>3 DEF CallInv, EnsureInv, Critical
  <2>5. QED
    BY <1>0, <1>10, <2>4, QuietGoto DEF ScanExisting
<1>11. CASE ScanRefuse(w)
  <2>1. PICK r : Raise(w, r)
    BY <1>11 DEF ScanRefuse
  <2>2. QED
    BY <1>0, <1>11, <2>1, QuietEnd DEF ScanRefuse, Raise
<1>12. CASE ScanAccept(w)
  <2>1. /\ pc'[w] = "open" /\ arg'[w] = arg[w] /\ arg[w] \in Events
        /\ exclusive = w /\ exclusive' = w /\ Firm /\ Firm'
    BY <1>0, <1>12, DirsSame, PathKept
       DEF ScanAccept, Goto, TypeOK, CallInv, EnsureInv, Critical
  <2>2. created'[w] = ~exists[arg[w].epoch]
    BY <1>0, <1>12 DEF ScanAccept, TypeOK
  <2>3. Fresh(arg[w]) /\ (arg[w].seq = 1 => ~exists[arg[w].epoch])
    BY <1>0, <1>12, <2>1, ScanAccepts DEF ScanAccept, FilesInv
  <2>4. Fresh(arg[w])'
    BY <1>12, <2>1, <2>3 DEF ScanAccept, Fresh, files
  <2>5. CallInv(w)'
    BY <2>1, <2>2, <2>3, <2>4 DEF CallInv, EnsureInv, Critical
  <2>6. QED
    BY <1>0, <1>12, <2>5, DirsSame DEF ScanAccept, Goto, Alone, QuietStep
<1>13. CASE CallFails(w)
  BY <1>0, <1>13, QuietEnd DEF CallFails, Raise
<1>14. ASSUME NEW ep \in Epochs, LoadCall(w, ep) PROVE QuietStep(w)
  <2>1. CASE Goto(w, "load") /\ UNCHANGED locals
    <3>1. pc'[w] = "load"
      BY <1>0, <2>1 DEF Goto, TypeOK
    <3>2. QED
      BY <1>0, <1>14, <2>1, <3>1, EndedCall, QuietGoto DEF LoadCall
  <2>2. CASE Raise(w, "EpochNotFoundError")
    BY <1>0, <1>14, <2>2, QuietEnd DEF LoadCall, Raise
  <2>3. QED
    BY <1>14, <2>1, <2>2 DEF LoadCall
<1>15. CASE Load(w)
  <2>1. PICK r : End(w, r)
    BY <1>15 DEF Load
  <2>2. QED
    BY <1>0, <1>15, <2>1, QuietEnd DEF Load
<1>16. QED
  BY <1>3, <1>4, <1>5, <1>f, <1>6, <1>m, <1>7, <1>8, <1>9, <1>10, <1>11, <1>12, <1>13, <1>14,
     <1>15

\* A step of the process that holds the lock: nobody else's call is disturbed.
LEMMA HolderStep ==
    ASSUME StoreInv, NEW w \in Writers, pc[w] \in Critical, Alone(w),
           TypeOK', FilesInv', ConfirmedDurable', CallInv(w)', UNCHANGED dirs
    PROVE  StoreInv'
<1>1. exclusive = w
  BY DEF StoreInv, CallsInv, CallInv
<1>2. \A v \in Writers \ {w} : CallInv(v)'
  BY <1>1, OthersKept, DirsSame DEF StoreInv
<1>3. QED
  BY <1>2 DEF StoreInv, CallsInv

\* open: the file appears, empty, in a directory that is durable.
LEMMA OpenInv ==
    ASSUME StoreInv, NEW w \in Writers, Open(w)
    PROVE  StoreInv'
<1> DEFINE ep == arg[w].epoch
<1>0. /\ TypeOK /\ TypeOK' /\ CallInv(w) /\ FilesInv /\ ConfirmedDurable
      /\ pc[w] = "open" /\ pc[w] \in Critical
  BY FileType DEF StoreInv, CallsInv, Open, Critical
<1>1. /\ arg[w] \in Events /\ ep \in Epochs /\ exclusive = w /\ Firm
      /\ Fresh(arg[w]) /\ (arg[w].seq = 1 => created[w])
  BY <1>0, EventFields DEF CallInv, EnsureInv, Critical
<1>2. /\ exists' = [exists EXCEPT ![ep] = TRUE] /\ UNCHANGED <<arg, created>>
      /\ UNCHANGED <<dirs, lines, torn, synced, linked, locals, exclusive, acked>>
  BY DEF Open, Goto, locals
<1>3. pc'[w] = "write" /\ Alone(w)
  BY <1>0, <1>2 DEF Open, Goto, Alone, TypeOK, locals
<1>4. exists'[ep] /\ \A f \in Epochs : exists[f] => exists'[f]
  BY <1>0, <1>1, <1>2 DEF TypeOK
<1>5. FilesInv'
  <2>1. Placed' /\ DistinctIds'
    BY <1>0, <1>2 DEF FilesInv, Placed, DistinctIds
  <2>2. Absent'
    BY <1>0, <1>2, <1>4 DEF FilesInv, Absent
  <2>3. DirectoryFirst'
    BY <1>0, <1>1, <1>2, DirsSame, PathKept DEF DirectoryFirst, Firm
  <2>4. QED
    BY <2>1, <2>2, <2>3 DEF FilesInv
<1>6. Keeps
  BY <1>0, <1>2, <1>4 DEF Keeps, TypeOK, dirs, Reachable
<1>7. ConfirmedDurable'
  BY <1>0, <1>2, <1>6, ConfirmedKept
<1>8. Fresh(arg[w])'
  BY <1>1, <1>2 DEF Fresh
<1>f. Firm'
  BY <1>0, <1>1, <1>2, DirsSame, PathKept
<1>9. CallInv(w)'
  BY <1>1, <1>2, <1>3, <1>4, <1>8, <1>f DEF CallInv, EnsureInv, Critical
<1>10. QED
  BY <1>0, <1>2, <1>3, <1>5, <1>7, <1>9, HolderStep

\* write: the record joins its file under its number and a new id.
LEMMA WriteInv ==
    ASSUME StoreInv, NEW w \in Writers, Write(w)
    PROVE  StoreInv'
<1> DEFINE e == arg[w]
           ep == e.epoch
           n == Len(lines[ep])
<1>0. /\ TypeOK /\ TypeOK' /\ CallInv(w) /\ FilesInv /\ ConfirmedDurable
      /\ pc[w] = "write" /\ pc[w] \in Critical
  BY FileType DEF StoreInv, CallsInv, Write, Critical
<1>1. /\ e \in Events /\ ep \in Epochs /\ e.seq \in Nat /\ exclusive = w /\ Firm
      /\ Fresh(e) /\ exists[ep] /\ (e.seq = 1 => created[w])
  BY <1>0, EventFields DEF CallInv, EnsureInv, Critical
<1>2. /\ lines' = [lines EXCEPT ![ep] = Append(lines[ep], e)] /\ UNCHANGED <<arg, created>>
      /\ UNCHANGED <<dirs, exists, torn, synced, linked, locals, exclusive, acked>>
  BY <1>1 DEF Write, Goto, locals, Fresh
<1>3. pc'[w] = "sync_file" /\ Alone(w)
  BY <1>0, <1>2 DEF Write, Goto, Alone, TypeOK, locals
<1>4. lines[ep] \in Seq(Events) /\ n \in Nat /\ e.seq = n + 1
  BY <1>0, <1>1 DEF TypeOK, Fresh
<1>5. /\ Len(lines'[ep]) = n + 1 /\ lines'[ep][n + 1] = e
      /\ \A i \in 1..n : lines'[ep][i] = lines[ep][i]
  <2>1. lines'[ep] = Append(lines[ep], e)
    BY <1>0, <1>1, <1>2 DEF TypeOK
  <2>2. QED
    BY <1>1, <1>4, <2>1
<1>6. \A f \in Epochs : f # ep => lines'[f] = lines[f]
  BY <1>0, <1>1, <1>2 DEF TypeOK
<1> HIDE DEF e, ep, n
<1>7. \* A record is an old one or the new one.
      ASSUME NEW f \in Epochs, NEW i \in 1..Len(lines'[f])
      PROVE  \/ i \in 1..Len(lines[f]) /\ lines'[f][i] = lines[f][i]
             \/ f = ep /\ i = n + 1 /\ lines'[f][i] = e
  <2>1. CASE f # ep
    BY <1>6, <2>1
  <2>2. CASE f = ep
    <3>1. i \in 1..(n + 1)
      BY <1>5, <2>2
    <3>2. i \in 1..n \/ i = n + 1
      BY <1>4, <3>1
    <3>3. QED
      BY <1>5, <2>2, <3>2 DEF n
  <2>3. QED
    BY <2>1, <2>2
<1>8. FilesInv'
  <2>1. Placed'
    <3> SUFFICES ASSUME NEW f \in Epochs, NEW i \in 1..Len(lines'[f])
                 PROVE  lines'[f][i].epoch = f /\ lines'[f][i].seq = i
      BY DEF Placed
    <3>1. CASE i \in 1..Len(lines[f]) /\ lines'[f][i] = lines[f][i]
      BY <1>0, <3>1 DEF FilesInv, Placed
    <3>2. CASE f = ep /\ i = n + 1 /\ lines'[f][i] = e
      BY <1>4, <3>2 DEF ep
    <3>3. QED
      BY <1>7, <3>1, <3>2
  <2>2. DistinctIds'
    <3> SUFFICES ASSUME NEW f \in Epochs, NEW g \in Epochs,
                        NEW i \in 1..Len(lines'[f]), NEW j \in 1..Len(lines'[g]),
                        lines'[f][i].id = lines'[g][j].id
                 PROVE  f = g /\ i = j
      BY DEF DistinctIds
    <3>1. \A h \in Epochs : \A k \in 1..Len(lines[h]) : lines[h][k].id # e.id
      BY <1>1 DEF Fresh
    <3>2. CASE /\ i \in 1..Len(lines[f]) /\ lines'[f][i] = lines[f][i]
               /\ j \in 1..Len(lines[g]) /\ lines'[g][j] = lines[g][j]
      BY <1>0, <3>2 DEF FilesInv, DistinctIds
    <3>3. QED
      BY <1>7, <3>1, <3>2
  <2>3. Absent' /\ DirectoryFirst'
    BY <1>0, <1>1, <1>2, <1>6 DEF FilesInv, Absent, DirectoryFirst, dirs, Reachable
  <2>4. QED
    BY <2>1, <2>2, <2>3 DEF FilesInv
<1>9. Keeps
  <2>1. \A f \in Epochs : \A i \in 1..synced[f] : lines'[f][i] = lines[f][i]
    <3> SUFFICES ASSUME NEW f \in Epochs, NEW i \in 1..synced[f]
                 PROVE  lines'[f][i] = lines[f][i]
      OBVIOUS
    <3>1. i \in 1..Len(lines[f])
      BY <1>0 DEF TypeOK
    <3>2. QED
      BY <1>5, <1>6, <3>1 DEF n
  <2>2. QED
    BY <1>0, <1>2, <2>1 DEF Keeps, TypeOK, dirs, Reachable
<1>10. ConfirmedDurable'
  BY <1>0, <1>2, <1>9, ConfirmedKept
<1>11. Written(arg[w])'
  <2>1. arg'[w] = e
    BY <1>2 DEF e
  <2>2. e.seq \in 1..Len(lines'[ep])
    BY <1>4, <1>5
  <2>3. QED
    BY <1>1, <1>2, <1>4, <1>5, <2>1, <2>2 DEF Written, ep
<1>f. Firm'
  BY <1>0, <1>1, <1>2, DirsSame, PathKept
<1>12. CallInv(w)'
  BY <1>1, <1>2, <1>3, <1>11, <1>f DEF CallInv, EnsureInv, Critical, e
<1>13. QED
  BY <1>0, <1>2, <1>3, <1>8, <1>10, <1>12, HolderStep

\* A write that fails half-way, and a process that dies: a fragment at most.
LEMMA BreakInv ==
    ASSUME StoreInv, NEW w \in Writers, ShortWrite(w) \/ ProcessCrash(w)
    PROVE  StoreInv'
<1>0. TypeOK /\ TypeOK' /\ CallInv(w) /\ FilesInv /\ CallsInv /\ ConfirmedDurable
  BY FileType DEF StoreInv, CallsInv
<1>1. PICK r : Raise(w, r)
  BY DEF ShortWrite, ProcessCrash
<1>2. /\ Alone(w) /\ CallInv(w)'
      /\ exclusive' = exclusive \/ exclusive \in {w, Nobody}
  BY <1>0, <1>1, EndStep, EndedCall DEF Raise
<1>3. UNCHANGED <<dirs, exists, lines, synced, linked, acked>>
  BY <1>1 DEF ShortWrite, ProcessCrash, Raise
<1>4. \/ UNCHANGED torn
      \/ pc[w] = "write" /\ torn' = [torn EXCEPT ![arg[w].epoch] = TRUE]
  BY DEF ShortWrite, ProcessCrash
<1>5. CASE UNCHANGED torn
  <2>1. FilesInv' /\ ConfirmedDurable'
    BY <1>0, <1>3, <1>5, DirsSame, QuietFiles DEF files
  <2>2. \A v \in Writers \ {w} : CallInv(v)'
    BY <1>0, <1>2, <1>3, <1>5, DirsSame, OthersKept DEF files
  <2>3. QED
    BY <1>0, <1>2, <2>1, <2>2 DEF StoreInv, CallsInv
<1>6. CASE pc[w] = "write" /\ torn' = [torn EXCEPT ![arg[w].epoch] = TRUE]
  <2>1. exists[arg[w].epoch] /\ arg[w].epoch \in Epochs /\ pc[w] \in Critical
    BY <1>0, <1>6, EventFields DEF CallInv, EnsureInv, Critical
  <2>2. Absent'
    BY <1>0, <1>3, <1>6, <2>1 DEF FilesInv, Absent, TypeOK
  <2>3. FilesInv'
    BY <1>0, <1>3, <2>2 DEF FilesInv, Placed, DistinctIds, DirectoryFirst, dirs, Reachable
  <2>4. Keeps
    BY <1>0, <1>3 DEF Keeps, TypeOK, dirs, Reachable
  <2>5. QED
    BY <1>0, <1>2, <1>3, <2>1, <2>3, <2>4, ConfirmedKept, HolderStep
<1>7. QED
  BY <1>4, <1>5, <1>6

\* fsync of the file: every record it has is durable with its entry.
LEMMA SyncFileInv ==
    ASSUME StoreInv, NEW w \in Writers, SyncFile(w) \/ ConfirmFile(w)
    PROVE  StoreInv'
<1> DEFINE e == arg[w]
           ep == e.epoch
<1>0. /\ TypeOK /\ TypeOK' /\ CallInv(w) /\ FilesInv /\ ConfirmedDurable
      /\ pc[w] \in Critical
  BY FileType DEF StoreInv, CallsInv, SyncFile, ConfirmFile, Critical
<1>1. /\ e \in Events /\ ep \in Epochs /\ exclusive = w /\ Firm /\ Written(e)
  BY <1>0, EventFields DEF CallInv, EnsureInv, Critical, SyncFile, ConfirmFile
<1>2. /\ synced' = [synced EXCEPT ![ep] = Len(lines[ep])]
      /\ UNCHANGED <<dirs, exists, lines, torn, linked>>
  BY DEF SyncFile, ConfirmFile, FileSynced
<1>3. FilesInv'
  BY <1>0, <1>2 DEF FilesInv, Placed, DistinctIds, Absent, DirectoryFirst, dirs, Reachable
<1>4. Keeps
  <2>1. \A f \in Epochs : synced'[f] \in Nat /\ synced[f] <= synced'[f]
    BY <1>0, <1>1, <1>2 DEF TypeOK
  <2>2. QED
    BY <1>0, <1>2, <2>1 DEF Keeps, TypeOK, dirs, Reachable
<1>f. Firm'
  BY <1>0, <1>1, <1>2, DirsSame, PathKept
<1>5. CASE \E l \in {"sync_entry", "confirm_entry"} : Goto(w, l) /\ UNCHANGED locals
  <2>1. /\ pc'[w] \in {"sync_entry", "confirm_entry"} /\ Alone(w)
        /\ arg'[w] = e /\ UNCHANGED <<exclusive, acked>>
    BY <1>0, <1>5 DEF Goto, locals, Alone, TypeOK
  <2>2. Written(arg[w])'
    BY <1>1, <1>2, <2>1 DEF Written
  <2>3. e.seq <= synced'[ep]
    BY <1>0, <1>1, <1>2 DEF Written, TypeOK
  <2>4. CallInv(w)'
    BY <1>1, <1>2, <1>f, <2>1, <2>2, <2>3 DEF CallInv, EnsureInv, Critical
  <2>5. QED
    BY <1>0, <1>2, <1>3, <1>4, <2>1, <2>4, ConfirmedKept, HolderStep
<1>6. CASE pc[w] = "sync_file" /\ ~created[w] /\ Acknowledge(w, "APPENDED")
  <2>1. Alone(w) /\ CallInv(w)'
    BY <1>0, <1>6, EndStep, EndedCall DEF Acknowledge
  <2>2. e.seq # 1
    BY <1>0, <1>6 DEF CallInv
  <2>3. ConfirmedDurable'
    BY <1>0, <1>1, <1>4, <1>6, <2>2, ConfirmedNew DEF Acknowledge
  <2>4. QED
    BY <1>0, <1>2, <1>3, <2>1, <2>3, HolderStep
<1>7. QED
  BY <1>5, <1>6 DEF SyncFile, ConfirmFile

\* fsync of the directory: the acknowledged event is there for good.
LEMMA SyncEntryInv ==
    ASSUME StoreInv, NEW w \in Writers, SyncEntry(w) \/ ConfirmEntry(w)
    PROVE  StoreInv'
<1>0. /\ TypeOK /\ TypeOK' /\ CallInv(w) /\ FilesInv /\ ConfirmedDurable
      /\ pc[w] \in Critical
  BY FileType DEF StoreInv, CallsInv, SyncEntry, ConfirmEntry, Critical
<1> PICK e \in Events : e = arg[w]
  BY <1>0 DEF CallInv, Critical, SyncEntry, ConfirmEntry
<1> DEFINE ep == e.epoch
<1>1. /\ ep \in Epochs /\ Firm /\ Written(e) /\ e.seq <= synced[ep]
  BY <1>0, EventFields DEF CallInv, EnsureInv, Critical, SyncEntry, ConfirmEntry
<1>2. linked' = exists /\ UNCHANGED <<dirs, exists, lines, torn, synced>>
  BY DEF SyncEntry, ConfirmEntry, EntriesSynced
<1>3. FilesInv'
  BY <1>0, <1>2 DEF FilesInv, Placed, DistinctIds, Absent, DirectoryFirst, dirs, Reachable
<1>4. Keeps
  BY <1>0, <1>2 DEF Keeps, TypeOK, dirs, Reachable
<1>5. PICK s : Acknowledge(w, s)
  BY DEF SyncEntry, ConfirmEntry
<1>6. Alone(w) /\ CallInv(w)'
  BY <1>0, <1>5, EndStep, EndedCall DEF Acknowledge
<1>7. halfMade' \/ Durable(e)'
  <2>1. /\ exists'[ep] /\ linked'[ep] /\ e.seq <= synced'[ep]
        /\ lines'[ep][e.seq] = e
    BY <1>1, <1>2 DEF Written
  <2>2. halfMade' \/ Reachable'
    BY <1>0, <1>1, <1>2, DirsSame, PathKept DEF Firm
  <2>3. QED
    BY <2>1, <2>2 DEF Durable
<1>8. ConfirmedDurable'
  <2>1. acked' = acked \cup {<<e, s>>}
    BY <1>5 DEF Acknowledge
  <2>2. QED
    BY <1>0, <1>1, <1>4, <1>7, <2>1, ConfirmedNew
<1>9. QED
  BY <1>0, <1>2, <1>3, <1>6, <1>8, HolderStep

\* A power failure: what is durable is not lost, and what is left is a prefix
\* of every file.
LEMMA PowerInv ==
    ASSUME StoreInv, PowerFailure
    PROVE  StoreInv'
<1>0. TypeOK /\ TypeOK' /\ FilesInv /\ ConfirmedDurable
  BY PowerType DEF StoreInv
<1>1. \A ep \in Epochs :
        /\ exists'[ep] => exists[ep] /\ made' = Depth
        /\ linked[ep] /\ made' = Depth => exists'[ep]
        /\ torn'[ep] => exists'[ep]
        /\ linked'[ep] = exists'[ep]
  BY DEF PowerFailure
<1>2. made' = Depth => Reachable'
  BY DEF PowerFailure, Reachable
<1>d. Reachable => made' = Depth
  <2> SUFFICES ASSUME firm = 1..Depth, made' < Depth PROVE FALSE
    BY <1>0, DepthAssumption DEF Reachable, TypeOK
  <2>1. made = Depth /\ made' \in 0..Depth
    <3>1. made \in 0..Depth /\ made' \in 0..Depth /\ firm \subseteq 1..made
      BY <1>0 DEF TypeOK
    <3>2. Depth \in firm
      BY DepthAssumption
    <3>3. QED
      BY <3>1, <3>2, DepthAssumption
  <2>2. made' + 1 \in 1..Depth /\ made' + 1 \notin firm
    BY <2>1, DepthAssumption DEF PowerFailure
  <2>3. QED
    BY <2>2
<1>p. ASSUME NEW ep \in Epochs, NEW i \in 1..Len(lines'[ep])
      PROVE  i \in 1..Len(lines[ep]) /\ lines'[ep][i] = lines[ep][i]
  <2>1. Len(lines[ep]) \in Nat /\ synced'[ep] \in Nat
    BY <1>0, PowerFiles DEF TypeOK
  <2>2. Len(lines'[ep]) = synced'[ep] /\ synced'[ep] <= Len(lines[ep])
    BY <1>0, PowerFiles
  <2>3. lines'[ep][i] = lines[ep][i]
    BY <1>0, PowerFiles
  <2>4. QED
    BY <2>1, <2>2, <2>3
<1>3. Placed'
  <2> SUFFICES ASSUME NEW ep \in Epochs, NEW i \in 1..Len(lines'[ep])
               PROVE  lines'[ep][i].epoch = ep /\ lines'[ep][i].seq = i
    BY DEF Placed
  <2>1. QED
    BY <1>0, <1>p DEF FilesInv, Placed
<1>4. DistinctIds'
  <2> SUFFICES ASSUME NEW f \in Epochs, NEW g \in Epochs,
                      NEW i \in 1..Len(lines'[f]), NEW j \in 1..Len(lines'[g]),
                      lines'[f][i].id = lines'[g][j].id
               PROVE  f = g /\ i = j
    BY DEF DistinctIds
  <2>1. i \in 1..Len(lines[f]) /\ lines'[f][i] = lines[f][i]
    BY <1>p
  <2>2. j \in 1..Len(lines[g]) /\ lines'[g][j] = lines[g][j]
    BY <1>p
  <2>3. QED
    BY <1>0, <2>1, <2>2 DEF FilesInv, DistinctIds
<1>5. Absent'
  <2> SUFFICES ASSUME NEW ep \in Epochs, ~exists'[ep]
               PROVE  lines'[ep] = <<>> /\ ~torn'[ep] /\ ~linked'[ep]
    BY DEF Absent
  <2>1. lines'[ep] \in Seq(Events) /\ Len(lines'[ep]) = 0
    BY <1>0, PowerFiles
  <2>2. QED
    BY <1>1, <2>1
<1>6. DirectoryFirst'
  <2> SUFFICES ASSUME NEW ep \in Epochs, exists'[ep]
               PROVE  Reachable' /\ Depth \in firm'
    BY DEF DirectoryFirst
  <2>1. QED
    BY <1>1, <1>2, DepthAssumption DEF Reachable
<1>7. Keeps
  <2> SUFFICES ASSUME NEW ep \in Epochs, Reachable, exists[ep], linked[ep]
               PROVE  /\ exists'[ep] /\ linked'[ep] /\ synced[ep] <= synced'[ep]
                      /\ synced'[ep] \in Nat
                      /\ \A i \in 1..synced[ep] : lines'[ep][i] = lines[ep][i]
    BY <1>2, <1>d DEF Keeps, PowerFailure
  <2>1. exists'[ep] /\ linked'[ep]
    BY <1>1, <1>d
  <2>2. /\ synced[ep] <= synced'[ep] /\ synced'[ep] \in Nat /\ synced[ep] \in Nat
        /\ Len(lines'[ep]) = synced'[ep]
    BY <1>0, <2>1, PowerFiles DEF TypeOK
  <2>3. \A i \in 1..synced[ep] : i \in 1..Len(lines'[ep])
    BY <2>2
  <2>4. QED
    BY <1>0, <2>1, <2>2, <2>3, PowerFiles
<1>8. ConfirmedDurable'
  BY <1>0, <1>7, ConfirmedKept DEF PowerFailure
<1>9. \A w \in Writers : CallInv(w)'
  BY EndedCall DEF PowerFailure
<1>10. QED
  BY <1>0, <1>3, <1>4, <1>5, <1>6, <1>8, <1>9 DEF StoreInv, FilesInv, CallsInv

(***************************************************************************)
(* The theorems                                                            *)
(***************************************************************************)

\* Every step keeps the invariant.
LEMMA NextInv == StoreInv /\ [Next]_vars => StoreInv'
<1> SUFFICES ASSUME StoreInv, [Next]_vars PROVE StoreInv'
  OBVIOUS
<1>1. ASSUME NEW w \in Writers, Step(w) PROVE StoreInv'
  BY <1>1, QuietInv, OpenInv, WriteInv, SyncFileInv, SyncEntryInv DEF Step
<1>2. ASSUME NEW w \in Writers, CallFails(w) \/ ShortWrite(w) \/ ProcessCrash(w)
      PROVE  StoreInv'
  BY <1>2, QuietInv, BreakInv
<1>3. ASSUME NEW w \in Writers, AppendMismatch(w) PROVE StoreInv'
  BY <1>3, QuietInv
<1>4. ASSUME NEW w \in Writers, NEW e \in Events, AppendCall(w, e) PROVE StoreInv'
  BY <1>4, QuietInv
<1>5. ASSUME NEW w \in Writers, NEW ep \in Epochs, LoadCall(w, ep) PROVE StoreInv'
  BY <1>5, QuietInv
<1>6. CASE PowerFailure
  BY <1>6, PowerInv
<1>7. CASE UNCHANGED vars
  <2>1. TypeOK' /\ FilesInv' /\ ConfirmedDurable'
    BY <1>7 DEF vars, dirs, files, locals, StoreInv, TypeOK, FilesInv, Placed, DistinctIds,
                Absent, DirectoryFirst, ConfirmedDurable, Durable, Reachable
  <2>2. CallsInv'
    BY <1>7 DEF vars, dirs, files, locals, StoreInv, CallsInv, CallInv, EnsureInv, Firm,
                Fresh, Written, Reachable
  <2>3. QED
    BY <2>1, <2>2 DEF StoreInv
<1>8. QED
  BY <1>1, <1>2, <1>3, <1>4, <1>5, <1>6, <1>7 DEF Next

\* The inductive invariant holds of every behaviour.
THEOREM StoreInvariant == Spec => []StoreInv
BY InitInv, NextInv, PTL DEF Spec

\* Type correctness; in particular no file has fewer records than are synced.
THEOREM TypeCorrect == Spec => []TypeOK
<1>1. StoreInv => TypeOK
  BY DEF StoreInv
<1>2. QED
  BY <1>1, StoreInvariant, PTL

\* However appends race and whatever fails, the records that _scan_store reads
\* are numbered from 1, of one epoch, and under different ids.
THEOREM RecordsValid == Spec => []NeverInvalidRecords
<1>1. StoreInv => NeverInvalidRecords
  BY UniqueStored DEF StoreInv, FilesInv, Placed, NeverInvalidRecords
<1>2. QED
  BY <1>1, StoreInvariant, PTL

\* _ensure_directories has made the epochs directory durable before a file is
\* in it, and, unless a call has found the hierarchy half made, every directory
\* above, whoever created it; a power failure keeps it so.
THEOREM DirectoryDurableFirst == Spec => []DirectoryFirst
<1>1. StoreInv => DirectoryFirst
  BY DEF StoreInv, FilesInv
<1>2. QED
  BY <1>1, StoreInvariant, PTL

\* What append has reported as ALREADY_EXISTS, or as APPENDED for the first
\* event of an epoch, no process crash and no power failure can lose, unless a
\* call has found the hierarchy of directories half made.
THEOREM ConfirmationsDurable == Spec => []ConfirmedDurable
<1>1. StoreInv => ConfirmedDurable
  BY DEF StoreInv
<1>2. QED
  BY <1>1, StoreInvariant, PTL
=============================================================================
