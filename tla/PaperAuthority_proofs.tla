------------------------ MODULE PaperAuthority_proofs ------------------------
(***************************************************************************)
(* Proofs about PaperAuthority, for any set of trades, any prices and any  *)
(* number of failures and crashes.                                         *)
(***************************************************************************)
EXTENDS PaperAuthority, PaperPortfolioLedger_proofs

(***************************************************************************)
(* The inductive invariant                                                 *)
(***************************************************************************)

\* s is a sequence of length n.
IsSeqOf(s, n) == n \in Nat /\ s = [i \in 1..n |-> s[i]] /\ Len(s) = n

\* The projection of the first k events.
StateAt(k) == IF k = 0 THEN EmptyState ELSE replay[k]

\* An event that the runtime makes.
IsEntry(e) ==
    /\ e.seq \in Nat
    /\ \/ e = EpochCreated(e.seq, Capital)
       \/ /\ e.trade \in Trades
          /\ \/ e = PositionOpened(e.seq, e.trade, SymbolOf[e.trade], SideOf[e.trade],
                                   Principal, EntryPrice, EntryFee)
             \/ \E price \in ExitPrices : e = PositionClosed(e.seq, e.trade, price, ExitFee)
             \/ e = PositionUnresolved(e.seq, e.trade)

\* What is open, lost and closed in a projection is told by the events seen.
ToldBySeen(s) ==
    /\ DOMAIN s.open \cap s.closed = {} /\ DOMAIN s.lost \cap s.closed = {}
    /\ \A t \in DOMAIN s.open \cup DOMAIN s.lost \cup s.closed :
            t \in Trades /\ <<"POSITION_OPENED", t>> \in s.seen
    /\ \A t \in Trades :
        /\ <<"POSITION_OPENED", t>> \in s.seen
                => t \in DOMAIN s.open \cup DOMAIN s.lost \cup s.closed
        /\ <<"POSITION_CLOSED", t>> \in s.seen => t \in s.closed
        /\ <<"POSITION_UNRESOLVED", t>> \in s.seen => t \in DOMAIN s.lost

\* No two positions are open on a symbol.
Exclusive(s) == \A t, u \in DOMAIN s.open : SymbolOf[t] = SymbolOf[u] => t = u

SeenUpTo(k) == {EventId(log[i]) : i \in 1..k}

\* s is sound, accepted, and made of k events with these ids.
GoodState(s, k, ids) ==
    /\ SoundState(s) /\ s.ok /\ s.seq = k
    /\ s.epoch <=> k > 0
    /\ s.seen = ids
    /\ ToldBySeen(s) /\ Exclusive(s)

\* The events and their projections.
EventsInv ==
    /\ IsSeqOf(log, Len(log)) /\ IsSeqOf(replay, Len(log))
    /\ \A k \in 1..Len(log) :
        /\ IsEntry(log[k]) /\ log[k].seq = k
        /\ log[k].type # "EPOCH_CREATED" => log[k].trade \in issued
        /\ replay[k] = Apply(StateAt(k - 1), log[k])
    /\ \A k \in 0..Len(log) : GoodState(StateAt(k), k, SeenUpTo(k))
DurableInv ==
    firm \in 0..Len(log) /\ entry \in {"synced", "unsynced"} /\ corrupt \in BOOLEAN

\* The operation in progress.
Engaged == {"append", "sync", "confirm", "opened", "closed"}
OperationInv ==
    /\ pc \in Engaged \cup {"idle", "recover"}
    /\ plan \subseteq issued
    /\ pc = "idle" => cur = None /\ event = NoEvent
    /\ pc = "recover" => ~up /\ cur \in Trades \cup {None}
                         /\ event.type \in {"NONE", "EPOCH_CREATED", "POSITION_UNRESOLVED"}
    /\ pc \in Engaged =>
        /\ IsEntry(event)
        /\ event.type \in {"EPOCH_CREATED", "POSITION_UNRESOLVED"} => ~up
        /\ event.type = "EPOCH_CREATED" => cur = None
        /\ event.type # "EPOCH_CREATED" => cur \in Trades /\ event.trade = cur
        /\ event.type # "EPOCH_CREATED" => cur \in issued
        /\ event.type \in {"POSITION_OPENED", "POSITION_CLOSED"} => up
        /\ pc # "append" => EventId(event) \in SeenUpTo(Len(log))
        /\ pc \in {"opened", "closed"} => EventId(event) \in SeenUpTo(firm)
    /\ pc = "opened" => event.type = "POSITION_OPENED"
    /\ pc = "closed" => event.type = "POSITION_CLOSED"

\* An OPEN in progress: the symbol is free, until the event is written and
\* the position is open in the ledger.
OpenInv ==
    event.type = "POSITION_OPENED" =>
        /\ \A i \in 1..Len(positions) : SymbolOf[positions[i]] # SymbolOf[cur]
        /\ pc = "append" =>
            /\ EventId(event) \notin SeenUpTo(Len(log))
            /\ \A t \in DOMAIN Ledger.open : SymbolOf[t] # SymbolOf[cur]
        /\ pc # "append" => cur \in DOMAIN Ledger.open

\* A CLOSE in progress is of a position in memory that the monitor has taken
\* from its queue.
CloseInv ==
    event.type = "POSITION_CLOSED" =>
        cur \in InMemory /\ \A i \in 1..Len(queue) : queue[i] # cur

\* The simulator's memory: one position for each symbol, and a queue of them.
MemoryInv ==
    /\ up \in BOOLEAN /\ capital \in Nat
    /\ positions \in Seq(Trades) /\ queue \in Seq(Trades)
    /\ ~up => positions = <<>> /\ queue = <<>>
    /\ \A i, j \in 1..Len(positions) : SymbolOf[positions[i]] = SymbolOf[positions[j]] => i = j
    /\ \A i, j \in 1..Len(queue) : queue[i] = queue[j] => i = j
    /\ \A i \in 1..Len(queue) : queue[i] \in InMemory

\* The memory and the ledger: what is open and not in memory is the OPEN in
\* progress or one that failed.
FollowsInv ==
    /\ InMemory \subseteq DOMAIN Ledger.open \cup Ledger.closed
    /\ up => \A t \in DOMAIN Ledger.open :
                t \in InMemory \/ t \in failed \/ (event.type = "POSITION_OPENED" /\ t = cur)
    /\ up /\ InMemory = DOMAIN Ledger.open => capital = Ledger.cash

\* The orders, and what has been reported of them.
OrdersInv ==
    /\ expired \subseteq Trades /\ issued \subseteq Trades
    /\ filled \subseteq issued /\ failed \subseteq issued /\ settled \subseteq issued
    /\ exposed \subseteq issued
    /\ budget \in [Faults -> Nat]
ReportInv ==
    /\ \A t \in filled \ exposed :
            entry = "synced" /\ <<"POSITION_OPENED", t>> \in SeenUpTo(firm)
    /\ \A t \in settled \ exposed :
            entry = "synced" /\ <<"POSITION_CLOSED", t>> \in SeenUpTo(firm)

\* The compatibility file: each id once, the OPEN of a trade first.
LifecycleTypes == {"POSITION_OPENED", "POSITION_CLOSED", "POSITION_UNRESOLVED"}
CompatInv ==
    /\ pending \in BOOLEAN
    /\ compat \in Seq(LifecycleTypes \X Trades)
    /\ \A i, j \in 1..Len(compat) : compat[i] = compat[j] => i = j
    /\ \A i \in 1..Len(compat) :
            \E j \in 1..i : compat[j] = <<"POSITION_OPENED", compat[i][2]>>

AuthorityInv ==
    /\ EventsInv /\ DurableInv /\ OperationInv /\ OpenInv /\ CloseInv
    /\ MemoryInv /\ FollowsInv /\ OrdersInv /\ ReportInv /\ CompatInv

(***************************************************************************)
(* Sequences                                                               *)
(***************************************************************************)

\* A sequence and one more element.
LEMMA AppendSeq ==
    ASSUME NEW n \in Nat, NEW s, IsSeqOf(s, n), NEW x
    PROVE  /\ IsSeqOf(Append(s, x), n + 1) /\ Append(s, x)[n + 1] = x
           /\ \A i \in 1..n : Append(s, x)[i] = s[i]
<1> DEFINE S == {s[i] : i \in 1..n} \cup {x}
<1>1. n \in Nat /\ s \in Seq(S) /\ Len(s) = n /\ x \in S
  BY DEF IsSeqOf
<1> HIDE DEF S
<1> DEFINE a == Append(s, x)
<1>2. /\ a \in Seq(S) /\ Len(a) = n + 1 /\ a[n + 1] = x
      /\ \A i \in 1..n : a[i] = s[i]
  BY <1>1
<1> HIDE DEF a
<1>3. a = [i \in 1..(n + 1) |-> a[i]]
  BY <1>1, <1>2
<1>4. QED
  BY <1>1, <1>2, <1>3 DEF IsSeqOf, a

\* The first k elements of a sequence.
LEMMA PrefixSeq ==
    ASSUME NEW n, NEW s, IsSeqOf(s, n), NEW k \in 0..n
    PROVE  IsSeqOf(SubSeq(s, 1, k), k) /\ \A i \in 1..k : SubSeq(s, 1, k)[i] = s[i]
<1> DEFINE S == {s[i] : i \in 1..n}
<1>1. n \in Nat /\ s \in Seq(S) /\ Len(s) = n /\ k \in Nat
  BY DEF IsSeqOf
<1> HIDE DEF S
<1> DEFINE a == SubSeq(s, 1, k)
<1>2. /\ a \in Seq(S) /\ Len(a) = k /\ \A i \in 1..k : a[i] = s[i]
  BY <1>1
<1> HIDE DEF a
<1>3. a = [i \in 1..k |-> a[i]]
  BY <1>1, <1>2
<1>4. QED
  BY <1>1, <1>2, <1>3 DEF IsSeqOf, a

\* One sequence after another.
LEMMA ConcatSeq ==
    ASSUME NEW S, NEW s \in Seq(S), NEW t \in Seq(S)
    PROVE  /\ s \o t \in Seq(S) /\ Len(s \o t) = Len(s) + Len(t)
           /\ \A i \in 1..Len(s) : (s \o t)[i] = s[i]
           /\ \A i \in 1..(Len(s) + Len(t)) : i > Len(s) => (s \o t)[i] = t[i - Len(s)]
OBVIOUS

\* upto computes Picked(s, I), index by index.
Picks(upto, s, I, n) ==
    upto = [k \in 0..n |->
                IF k = 0 THEN <<>>
                ELSE IF k \in I THEN Append(upto[k - 1], s[k]) ELSE upto[k - 1]]

\* The recursive definition of Picked has a solution.
LEMMA PicksExist ==
    ASSUME NEW s, NEW I, NEW len \in Nat
    PROVE  \E upto : Picks(upto, s, I, len)
<1> DEFINE Bad == {n \in Nat : ~ \E r : Picks(r, s, I, n)}
<1>1. Bad = {}
  <2> SUFFICES ASSUME Bad # {} PROVE FALSE
    OBVIOUS
  <2>1. PICK n \in Bad : \A m \in Bad : n <= m
    BY Least
  <2>2. n \in Nat /\ ~ \E r : Picks(r, s, I, n)
    OBVIOUS
  <2>3. CASE n = 0
    <3>1. Picks([k \in 0..0 |-> <<>>], s, I, 0)
      BY DEF Picks
    <3>2. QED
      BY <2>2, <2>3, <3>1
  <2>4. CASE n # 0
    <3>1. n - 1 \in Nat /\ ~ (n <= n - 1)
      BY <2>2, <2>4
    <3>2. n - 1 \notin Bad
      BY <2>1, <3>1
    <3>3. PICK q : Picks(q, s, I, n - 1)
      BY <3>1, <3>2
    <3> DEFINE r == [k \in 0..n |->
                        IF k = 0 THEN <<>>
                        ELSE IF k \in I THEN Append(q[k - 1], s[k]) ELSE q[k - 1]]
    <3>4. \A k \in 0..n : k # 0 => k - 1 \in 0..(n - 1) /\ k - 1 \in 0..n
      BY <2>2
    <3>5. \A k \in 0..(n - 1) : r[k] = q[k]
      <4>1. \A k \in 0..(n - 1) : k \in 0..n
        BY <2>2
      <4>2. QED
        BY <3>3, <4>1 DEF Picks
    <3>6. Picks(r, s, I, n)
      BY <3>4, <3>5 DEF Picks
    <3>7. QED
      BY <2>2, <3>6
  <2>5. QED
    BY <2>3, <2>4
<1>2. QED
  BY <1>1

\* p is the subsequence of s at the indices in I up to n: at[a] is the index
\* in s of its a-th member.
Chosen(p, at, s, I, n) ==
    /\ IsSeqOf(p, Len(p))
    /\ \A a \in 1..Len(p) : at[a] \in 1..n /\ at[a] \in I /\ p[a] = s[at[a]]
    /\ \A a, b \in 1..Len(p) : a < b => at[a] < at[b]
    /\ \A i \in 1..n : i \in I => \E a \in 1..Len(p) : at[a] = i

\* Picked gives the members of s at the indices in I, each once and in order.
LEMMA PickedIs ==
    ASSUME NEW s, Len(s) \in Nat, NEW I
    PROVE  \E at : Chosen(Picked(s, I), at, s, I, Len(s))
<1> DEFINE len == Len(s)
           P(r) == r = [k \in 0..Len(s) |->
                          IF k = 0 THEN <<>>
                          ELSE IF k \in I THEN Append(r[k - 1], s[k]) ELSE r[k - 1]]
           u == CHOOSE r : P(r)
<1>1. Picked(s, I) = u[len]
  BY DEF Picked
<1>2. Picks(u, s, I, len)
  <2>1. \A r : P(r) <=> Picks(r, s, I, len)
    BY DEF Picks
  <2> HIDE DEF P
  <2>2. P(u)
    BY <2>1, PicksExist
  <2>3. QED
    BY <2>1, <2>2
<1> HIDE DEF u, P
<1>3. /\ u[0] = <<>>
      /\ \A k \in 1..len : /\ k \in I => u[k] = Append(u[k - 1], s[k])
                           /\ k \notin I => u[k] = u[k - 1]
  <2>1. 0 \in 0..len /\ \A k \in 1..len : k \in 0..len /\ k # 0
    OBVIOUS
  <2>2. QED
    BY <1>2, <2>1 DEF Picks
<1> DEFINE Bad == {k \in 0..len : ~ \E at : Chosen(u[k], at, s, I, k)}
<1>4. Bad = {}
  <2> SUFFICES ASSUME Bad # {} PROVE FALSE
    OBVIOUS
  <2>1. Bad \in SUBSET Nat
    OBVIOUS
  <2>2. PICK m \in Bad : \A k \in Bad : m <= k
    BY <2>1, Least
  <2>3. m \in 0..len /\ ~ \E at : Chosen(u[m], at, s, I, m)
    OBVIOUS
  <2>4. CASE m = 0
    <3>1. Chosen(<<>>, <<>>, s, I, 0)
      BY DEF Chosen, IsSeqOf
    <3>2. QED
      BY <1>3, <2>3, <2>4, <3>1
  <2>5. CASE m # 0
    <3>1. m \in 1..len /\ m - 1 \in 0..len /\ ~ (m <= m - 1)
      BY <2>3, <2>5
    <3>2. PICK at : Chosen(u[m - 1], at, s, I, m - 1)
      BY <2>2, <3>1
    <3> DEFINE p == u[m - 1]
               q == u[m]
               l == Len(p)
    <3>3. CASE m \notin I
      <4>1. q = p
        BY <1>3, <3>1, <3>3
      <4>2. Chosen(p, at, s, I, m)
        BY <3>1, <3>2, <3>3 DEF Chosen
      <4>3. QED
        BY <2>3, <4>1, <4>2
    <3>4. CASE m \in I
      <4>1. q = Append(p, s[m])
        BY <1>3, <3>1, <3>4
      <4> HIDE DEF p, q
      <4>2. IsSeqOf(p, l) /\ l \in Nat
        BY <3>2 DEF Chosen, IsSeqOf, p
      <4>3. /\ IsSeqOf(q, l + 1) /\ Len(q) = l + 1 /\ q[l + 1] = s[m]
            /\ \A i \in 1..l : q[i] = p[i]
        BY <4>1, <4>2, AppendSeq DEF IsSeqOf
      <4> DEFINE up2 == [a \in 1..(l + 1) |-> IF a = l + 1 THEN m ELSE at[a]]
      <4>4. Chosen(q, up2, s, I, m)
        <5>0. Chosen(p, at, s, I, m - 1)
          BY <3>2 DEF p
        <5>a. /\ up2[l + 1] = m /\ \A a \in 1..l : up2[a] = at[a] /\ at[a] < m
          BY <4>2, <5>0, <3>1 DEF Chosen
        <5>b. \A a \in 1..(l + 1) : a # l + 1 => a \in 1..l
          BY <4>2
        <5> HIDE DEF up2, l
        <5>1. IsSeqOf(q, Len(q))
          BY <4>3
        <5>2. ASSUME NEW a \in 1..Len(q)
              PROVE  up2[a] \in 1..m /\ up2[a] \in I /\ q[a] = s[up2[a]]
          <6>1. CASE a = l + 1
            BY <6>1, <4>3, <5>a, <3>4, <3>1
          <6>2. CASE a # l + 1
            <7>1. a \in 1..l /\ up2[a] = at[a] /\ q[a] = p[a]
              BY <6>2, <4>3, <5>a, <5>b
            <7>2. at[a] \in 1..(m - 1) /\ at[a] \in I /\ p[a] = s[at[a]]
              BY <7>1, <5>0 DEF Chosen, l
            <7>3. at[a] \in 1..m
              BY <7>2, <3>1
            <7>4. QED
              BY <7>1, <7>2, <7>3
          <6>3. QED
            BY <6>1, <6>2
        <5>3. ASSUME NEW a \in 1..Len(q), NEW b \in 1..Len(q), a < b
              PROVE  up2[a] < up2[b]
          <6>1. a \in 1..l
            BY <4>2, <4>3, <5>3
          <6>2. CASE b = l + 1
            BY <6>1, <6>2, <5>a
          <6>3. CASE b # l + 1
            BY <6>1, <6>3, <5>a, <5>b, <4>3, <5>0, <5>3 DEF Chosen, l
          <6>4. QED
            BY <6>2, <6>3
        <5>4. ASSUME NEW i \in 1..m, i \in I
              PROVE  \E a \in 1..Len(q) : up2[a] = i
          <6>1. CASE i = m
            BY <6>1, <4>2, <4>3, <5>a
          <6>2. CASE i # m
            <7>1. i \in 1..(m - 1)
              BY <6>2, <3>1
            <7>2. PICK a \in 1..l : at[a] = i
              BY <7>1, <5>0, <5>4 DEF Chosen, l
            <7>3. a \in 1..Len(q)
              BY <4>2, <4>3
            <7>4. QED
              BY <7>2, <7>3, <5>a
          <6>3. QED
            BY <6>1, <6>2
        <5>5. QED
          BY <5>1, <5>2, <5>3, <5>4 DEF Chosen
      <4>5. QED
        BY <2>3, <4>4 DEF q
    <3>5. QED
      BY <3>3, <3>4
  <2>6. QED
    BY <2>4, <2>5
<1>5. QED
  BY <1>1, <1>4

(***************************************************************************)
(* One event more                                                          *)
(***************************************************************************)

\* An event of the epoch has a number, a known type and, after the first, a trade.
LEMMA EntryIs ==
    ASSUME NEW e, IsEntry(e)
    PROVE  /\ e.seq \in Nat /\ e.type \in EventTypes /\ IsEvent(e)
           /\ e.type # "EPOCH_CREATED" => e.trade \in Trades /\ e.type \in LifecycleTypes
<1>1. CASE e = EpochCreated(e.seq, Capital)
  BY <1>1, AmountsAssumption DEF IsEntry, EpochCreated, EventTypes, IsEvent, LifecycleTypes
<1>2. CASE /\ e.trade \in Trades
           /\ e = PositionOpened(e.seq, e.trade, SymbolOf[e.trade], SideOf[e.trade],
                                 Principal, EntryPrice, EntryFee)
  BY <1>2, AmountsAssumption DEF IsEntry, PositionOpened, EventTypes, IsEvent, LifecycleTypes
<1>3. CASE /\ e.trade \in Trades
           /\ \E price \in ExitPrices : e = PositionClosed(e.seq, e.trade, price, ExitFee)
  BY <1>3, AmountsAssumption DEF IsEntry, PositionClosed, EventTypes, IsEvent, LifecycleTypes
<1>4. CASE e.trade \in Trades /\ e = PositionUnresolved(e.seq, e.trade)
  BY <1>4 DEF IsEntry, PositionUnresolved, EventTypes, IsEvent, LifecycleTypes
<1>5. QED
  BY <1>1, <1>2, <1>3, <1>4 DEF IsEntry

\* What an accepted event does to what is open, lost and closed.
Steps(n, s, e) ==
    /\ n.ok = s.ok /\ n.seq = e.seq /\ n.seen = s.seen \cup {EventId(e)}
    /\ e.type = "EPOCH_CREATED" =>
        /\ n.epoch = TRUE
        /\ DOMAIN n.open = DOMAIN s.open /\ DOMAIN n.lost = DOMAIN s.lost /\ n.closed = s.closed
    /\ e.type # "EPOCH_CREATED" => n.epoch = s.epoch
    /\ e.type = "POSITION_OPENED" =>
        /\ DOMAIN n.open = DOMAIN s.open \cup {e.trade}
        /\ DOMAIN n.lost = DOMAIN s.lost /\ n.closed = s.closed
    /\ e.type = "POSITION_CLOSED" =>
        /\ DOMAIN n.open = DOMAIN s.open \ {e.trade}
        /\ DOMAIN n.lost = DOMAIN s.lost /\ n.closed = s.closed \cup {e.trade}
    /\ e.type = "POSITION_UNRESOLVED" =>
        /\ DOMAIN n.open = DOMAIN s.open \ {e.trade}
        /\ DOMAIN n.lost = DOMAIN s.lost \cup {e.trade} /\ n.closed = s.closed

\* A position is taken out of a dict.
LEMMA WithoutDomain == \A f, t : DOMAIN Without(f, t) = DOMAIN f \ {t}
BY DEF Without, Restrict

\* What applying an event of each type does to ids, number and positions.
LEMMA AppliedSteps ==
    ASSUME NEW s, Shape(s), NEW e, e.type \in EventTypes
    PROVE  Steps(Applied(s, e), s, e)
<1> DEFINE n == Applied(s, e)
<1>1. CASE e.type = "EPOCH_CREATED"
  <2>1. /\ Common(n, s, e) /\ n.epoch = TRUE
        /\ n.open = s.open /\ n.lost = s.lost /\ n.closed = s.closed
    BY <1>1, CreatedFields
  <2> HIDE DEF n
  <2>2. Steps(n, s, e)
    BY <1>1, <2>1 DEF Common, Steps
  <2>3. QED
    BY <2>2 DEF n
<1>2. CASE e.type = "POSITION_OPENED"
  <2>1. /\ Common(n, s, e) /\ n.epoch = s.epoch
        /\ n.open = With(s.open, e.trade, [symbol |-> e.symbol, side |-> e.side,
                                           principal |-> e.principal, price |-> e.price,
                                           fee |-> e.fee])
        /\ n.lost = s.lost /\ n.closed = s.closed
    BY <1>2, OpenedFields
  <2> HIDE DEF n
  <2>c. PICK v : n.open = With(s.open, e.trade, v)
    BY <2>1
  <2>d. DOMAIN n.open = DOMAIN s.open \cup {e.trade}
    BY <2>c DEF With
  <2>2. Steps(n, s, e)
    BY <1>2, <2>1, <2>d DEF Common, Steps
  <2>3. QED
    BY <2>2 DEF n
<1>3. CASE e.type = "POSITION_CLOSED"
  <2>1. /\ Common(n, s, e) /\ n.epoch = s.epoch
        /\ n.open = Without(s.open, e.trade)
        /\ n.lost = s.lost /\ n.closed = s.closed \cup {e.trade}
    BY <1>3, ClosedFields
  <2> HIDE DEF n
  <2>2. Steps(n, s, e)
    BY <1>3, <2>1, WithoutDomain DEF Common, Steps
  <2>3. QED
    BY <2>2 DEF n
<1>4. CASE e.type = "POSITION_UNRESOLVED"
  <2>1. /\ Common(n, s, e) /\ n.epoch = s.epoch
        /\ n.open = Without(s.open, e.trade)
        /\ n.lost = With(s.lost, e.trade, s.open[e.trade]) /\ n.closed = s.closed
    BY <1>4, UnresolvedFields
  <2> HIDE DEF n
  <2>c. PICK v : n.lost = With(s.lost, e.trade, v)
    BY <2>1
  <2>d. DOMAIN n.lost = DOMAIN s.lost \cup {e.trade}
    BY <2>c DEF With
  <2>e. DOMAIN n.open = DOMAIN s.open \ {e.trade}
    BY <2>1, WithoutDomain
  <2>2. Steps(n, s, e)
    BY <1>4, <2>1, <2>d, <2>e DEF Common, Steps
  <2>3. QED
    BY <2>2 DEF n
<1>5. QED
  BY <1>1, <1>2, <1>3, <1>4 DEF EventTypes

\* An accepted event, which opens no position on an occupied symbol, leads from one
\* good state of the ledger to the next.
LEMMA GoodStep ==
    ASSUME NEW s, NEW k \in Nat, NEW ids, GoodState(s, k, ids), NEW e, IsEntry(e),
           Accepts(s, e),
           e.type = "POSITION_OPENED" =>
                \A t \in DOMAIN s.open : SymbolOf[t] # SymbolOf[e.trade]
    PROVE  /\ GoodState(Apply(s, e), k + 1, ids \cup {EventId(e)})
           /\ Steps(Apply(s, e), s, e) /\ e.seq = k + 1
<1> DEFINE n == Applied(s, e)
<1>0. SoundState(s) /\ s.ok /\ Shape(s)
  BY DEF GoodState, SoundState, Fields, Shape
<1>1. Apply(s, e) = n
  BY <1>0 DEF Apply
<1>2. e.type \in EventTypes /\ IsEvent(e)
  BY EntryIs
<1>3. SoundState(Apply(s, e))
  BY <1>0, <1>2, ApplySound
<1>4. Steps(n, s, e)
  BY <1>0, <1>2, AppliedSteps
<1>5. e.seq = k + 1 /\ EventId(e) \notin s.seen
  BY DEF Accepts, InOrder, GoodState
<1>6. /\ e.type = "POSITION_OPENED" => e.trade \notin DOMAIN s.open \cup DOMAIN s.lost \cup s.closed
      /\ e.type \in {"POSITION_CLOSED", "POSITION_UNRESOLVED"} => e.trade \in DOMAIN s.open
  BY DEF Accepts
<1>t. e.type # "EPOCH_CREATED" => e.trade \in Trades
  BY EntryIs
<1>d. DOMAIN s.open \cap DOMAIN s.lost = {}
  BY <1>0 DEF SoundState
<1> HIDE DEF n
<1>7. n.ok /\ n.seq = k + 1 /\ n.seen = ids \cup {EventId(e)}
  BY <1>0, <1>4, <1>5 DEF Steps, GoodState
<1>8. n.epoch <=> k + 1 > 0
  <2>1. k + 1 > 0
    OBVIOUS
  <2>2. n.epoch
    BY <1>4 DEF Steps, Accepts, InOrder
  <2>3. QED
    BY <2>1, <2>2
<1>9. ToldBySeen(n)
  <2>0. ToldBySeen(s)
    BY DEF GoodState
  <2>1. CASE e.type = "EPOCH_CREATED"
    BY <2>0, <2>1, <1>4 DEF Steps, ToldBySeen, EventId
  <2>2. CASE e.type = "POSITION_OPENED"
    BY <2>0, <2>2, <1>4, <1>6, <1>t DEF Steps, ToldBySeen, EventId
  <2>3. CASE e.type = "POSITION_CLOSED"
    BY <2>0, <2>3, <1>4, <1>6, <1>t, <1>d DEF Steps, ToldBySeen, EventId
  <2>4. CASE e.type = "POSITION_UNRESOLVED"
    BY <2>0, <2>4, <1>4, <1>6, <1>t, <1>d DEF Steps, ToldBySeen, EventId
  <2>5. QED
    BY <1>2, <2>1, <2>2, <2>3, <2>4 DEF EventTypes
<1>10. Exclusive(n)
  <2>0. Exclusive(s)
    BY DEF GoodState
  <2>1. CASE e.type = "POSITION_OPENED"
    BY <2>0, <2>1, <1>4 DEF Steps, Exclusive
  <2>2. CASE e.type # "POSITION_OPENED"
    <3>1. \A t \in DOMAIN n.open : t \in DOMAIN s.open
      BY <2>2, <1>2, <1>4 DEF Steps, EventTypes
    <3>2. QED
      BY <2>0, <3>1 DEF Exclusive
  <2>3. QED
    BY <2>1, <2>2
<1>11. QED
  BY <1>1, <1>3, <1>4, <1>5, <1>7, <1>8, <1>9, <1>10 DEF GoodState

\* A projection that is accepted has accepted its last event.
LEMMA AcceptedOnly ==
    ASSUME NEW s, SoundState(s), NEW e, NEW n, n = Apply(s, e), n.ok
    PROVE  Accepts(s, e)
<1>1. s.ok \in BOOLEAN /\ Shape(s)
  BY DEF SoundState, Fields, Shape, Flags
<1> SUFFICES ASSUME ~Accepts(s, e) PROVE FALSE
  OBVIOUS
<1>2. n = [s EXCEPT !.ok = FALSE]
  BY DEF Apply
<1>3. n.ok = FALSE
  BY <1>1, <1>2 DEF Shape
<1>4. QED
  BY <1>3

\* The empty state.
LEMMA GoodEmpty == GoodState(EmptyState, 0, {})
<1>1. SoundState(EmptyState)
  BY EmptyStateSound
<1>2. /\ EmptyState.ok /\ EmptyState.seq = 0 /\ ~EmptyState.epoch /\ EmptyState.seen = {}
      /\ DOMAIN EmptyState.open = {} /\ DOMAIN EmptyState.lost = {} /\ EmptyState.closed = {}
  BY DEF EmptyState, NoTrades
<1>3. ToldBySeen(EmptyState) /\ Exclusive(EmptyState)
  BY <1>2 DEF ToldBySeen, Exclusive
<1>4. QED
  BY <1>1, <1>2, <1>3 DEF GoodState

(***************************************************************************)
(* The ledger, as the invariant tells of it                                *)
(***************************************************************************)

\* The last element of a sequence, or what stands for it if there is none.
LEMMA LastIs ==
    ASSUME NEW n, NEW r, IsSeqOf(r, n)
    PROVE  (IF r = <<>> THEN EmptyState ELSE Last(r)) = IF n = 0 THEN EmptyState ELSE r[n]
<1>1. n \in Nat /\ Len(r) = n /\ r = [i \in 1..n |-> r[i]]
  BY DEF IsSeqOf
<1>2. CASE n = 0
  <2>1. r = <<>>
    BY <1>1, <1>2
  <2>2. QED
    BY <2>1, <1>2
<1>3. CASE n # 0
  <2>1. r # <<>>
    BY <1>1, <1>3
  <2>2. QED
    BY <2>1, <1>1, <1>3 DEF Last
<1>4. QED
  BY <1>2, <1>3

\* What _reload computes is the projection of the whole log, and good.
LEMMA LedgerIs ==
    ASSUME EventsInv
    PROVE  /\ Ledger = StateAt(Len(log)) /\ Len(log) \in Nat
           /\ GoodState(Ledger, Len(log), SeenUpTo(Len(log)))
<1>1. IsSeqOf(replay, Len(log)) /\ Len(log) \in Nat
  BY DEF EventsInv, IsSeqOf
<1>2. Ledger = StateAt(Len(log))
  BY <1>1, LastIs DEF Ledger, StateAt
<1>3. Len(log) \in 0..Len(log)
  BY <1>1
<1>4. GoodState(StateAt(Len(log)), Len(log), SeenUpTo(Len(log)))
  BY <1>3 DEF EventsInv
<1>5. QED
  BY <1>1, <1>2, <1>4

\* Only an order that was placed has an OPEN.
LEMMA OpenedIssued ==
    ASSUME EventsInv, NEW t, <<"POSITION_OPENED", t>> \in SeenUpTo(Len(log))
    PROVE  t \in issued
<1>1. PICK i \in 1..Len(log) : <<"POSITION_OPENED", t>> = EventId(log[i])
  BY DEF SeenUpTo
<1>2. log[i].type = "POSITION_OPENED" /\ log[i].trade = t
  BY <1>1 DEF EventId
<1>3. QED
  BY <1>2 DEF EventsInv

\* What the invariant says of the trades of the ledger.
LEMMA LedgerTrades ==
    ASSUME EventsInv
    PROVE  /\ \A t \in DOMAIN Ledger.open \cup DOMAIN Ledger.lost \cup Ledger.closed :
                    /\ t \in issued /\ t \in Trades
                    /\ <<"POSITION_OPENED", t>> \in SeenUpTo(Len(log))
           /\ \A t \in Trades : <<"POSITION_CLOSED", t>> \in SeenUpTo(Len(log)) => t \in Ledger.closed
           /\ DOMAIN Ledger.open \cap Ledger.closed = {}
           /\ Ledger.cash \in Nat
<1>1. GoodState(Ledger, Len(log), SeenUpTo(Len(log)))
  BY LedgerIs
<1>2. ToldBySeen(Ledger) /\ Ledger.seen = SeenUpTo(Len(log)) /\ SoundState(Ledger)
  BY <1>1 DEF GoodState
<1>3. \A t \in Trades : <<"POSITION_OPENED", t>> \in SeenUpTo(Len(log)) => t \in issued
  BY OpenedIssued
<1>4. Ledger.cash \in Nat
  BY <1>2 DEF SoundState, Fields, Balanced
<1>5. QED
  BY <1>2, <1>3, <1>4 DEF ToldBySeen

\* No event is in the log twice.
LEMMA IdsDistinct ==
    ASSUME EventsInv, NEW i \in 1..Len(log), NEW j \in 1..Len(log), i < j
    PROVE  EventId(log[i]) # EventId(log[j])
<1>1. Len(log) \in Nat
  BY LedgerIs
<1>2. j - 1 \in 0..Len(log) /\ i \in 1..(j - 1) /\ j \in 0..Len(log) /\ j # 0
  BY <1>1
<1>3. GoodState(StateAt(j - 1), j - 1, SeenUpTo(j - 1))
  BY <1>2 DEF EventsInv
<1>4. GoodState(StateAt(j), j, SeenUpTo(j))
  BY <1>2 DEF EventsInv
<1>5. StateAt(j) = Apply(StateAt(j - 1), log[j])
  BY <1>2 DEF EventsInv, StateAt
<1>6. StateAt(j).ok /\ SoundState(StateAt(j - 1))
  BY <1>3, <1>4 DEF GoodState
<1>7. Accepts(StateAt(j - 1), log[j])
  BY <1>5, <1>6, AcceptedOnly
<1>8. EventId(log[j]) \notin SeenUpTo(j - 1)
  BY <1>3, <1>7 DEF Accepts, InOrder, GoodState
<1>9. EventId(log[i]) \in SeenUpTo(j - 1)
  BY <1>2 DEF SeenUpTo
<1>10. QED
  BY <1>8, <1>9

(***************************************************************************)
(* What a step leaves alone                                                *)
(***************************************************************************)

\* An unchanged log has unchanged projections.
LEMMA SameLedger ==
    ASSUME UNCHANGED <<log, replay>>
    PROVE  Ledger' = Ledger /\ \A k : SeenUpTo(k)' = SeenUpTo(k) /\ StateAt(k)' = StateAt(k)
BY DEF Ledger, SeenUpTo, StateAt

\* The part about the events depends on log, replay and the orders issued only.
LEMMA EventsFrame ==
    ASSUME EventsInv, UNCHANGED <<log, replay>>, issued \subseteq issued'
    PROVE  EventsInv'
<1>1. IsSeqOf(log, Len(log))' /\ IsSeqOf(replay, Len(log))'
  BY DEF EventsInv, IsSeqOf
<1>2. ASSUME NEW k \in 1..Len(log')
      PROVE  (/\ IsEntry(log[k]) /\ log[k].seq = k
              /\ log[k].type # "EPOCH_CREATED" => log[k].trade \in issued
              /\ replay[k] = Apply(StateAt(k - 1), log[k]))'
  BY SameLedger DEF EventsInv, IsEntry, StateAt
<1>3. \A k \in 0..Len(log') : GoodState(StateAt(k), k, SeenUpTo(k))'
  BY DEF EventsInv, StateAt, SeenUpTo, GoodState, ToldBySeen, Exclusive
<1>4. QED
  BY <1>1, <1>2, <1>3 DEF EventsInv

\* The part about durability depends on log, firm, entry and corrupt only.
LEMMA DurableFrame ==
    ASSUME DurableInv, UNCHANGED <<log, firm, entry, corrupt>>
    PROVE  DurableInv'
BY DEF DurableInv

\* The part about the operation in progress, when it goes on as it was.
LEMMA OperationFrame ==
    ASSUME OperationInv, UNCHANGED <<pc, cur, event, plan, up, log, firm>>,
           issued \subseteq issued'
    PROVE  OperationInv'
BY DEF OperationInv, SeenUpTo, IsEntry

\* The part about an OPEN in progress, when nothing it mentions changes.
LEMMA OpenFrame ==
    ASSUME OpenInv, UNCHANGED <<pc, cur, event, positions, log, replay>>
    PROVE  OpenInv'
BY SameLedger DEF OpenInv, SeenUpTo

\* The part about a CLOSE in progress, when nothing it mentions changes.
LEMMA CloseFrame ==
    ASSUME CloseInv, UNCHANGED <<cur, event, positions, queue>>
    PROVE  CloseInv'
BY DEF CloseInv, InMemory

\* The part about the memory depends on the memory only.
LEMMA MemoryFrame ==
    ASSUME MemoryInv, UNCHANGED <<up, positions, capital, queue>>
    PROVE  MemoryInv'
BY DEF MemoryInv, InMemory

\* Memory and ledger, when neither changes and no failed order is forgotten.
LEMMA FollowsFrame ==
    ASSUME FollowsInv, UNCHANGED <<up, positions, capital, log, replay>>,
           failed \subseteq failed',
           event.type = "POSITION_OPENED" =>
                cur \in failed' \/ UNCHANGED <<cur, event>> \/ ~up
    PROVE  FollowsInv'
<1>1. Ledger' = Ledger
  BY SameLedger
<1>2. QED
  BY <1>1 DEF FollowsInv, InMemory

\* The part about reports, when nothing is reported and nothing durable is lost.
LEMMA ReportFrame ==
    ASSUME ReportInv, UNCHANGED <<log, firm, entry, filled, settled, exposed>>
    PROVE  ReportInv'
BY DEF ReportInv, SeenUpTo

\* The part about the compatibility file depends on that file only.
LEMMA CompatFrame ==
    ASSUME CompatInv, UNCHANGED compat, pending' \in BOOLEAN
    PROVE  CompatInv'
BY DEF CompatInv

\* The part about the orders, when none is placed or reported.
LEMMA OrdersFrame ==
    ASSUME OrdersInv, UNCHANGED <<expired, issued, filled, failed, settled, exposed, budget>>
    PROVE  OrdersInv'
BY DEF OrdersInv

\* A fault is taken from the budget.
LEMMA SpendType ==
    ASSUME NEW f \in Faults, budget \in [Faults -> Nat], Spend(f)
    PROVE  budget' \in [Faults -> Nat]
BY DEF Spend

\* The end of an operation.
LEMMA Finished ==
    ASSUME Finish
    PROVE  OperationInv' /\ OpenInv' /\ CloseInv'
<1>1. /\ pc' = "idle" /\ cur' = None /\ event' = NoEvent /\ plan' = {}
      /\ event'.type = "NONE"
  BY DEF Finish, NoEvent
<1>2. QED
  BY <1>1 DEF OperationInv, OpenInv, CloseInv, Engaged

\* An operation that fails leaves memory as it was, and an OPEN as a failed order.
LEMMA Aborted ==
    ASSUME AuthorityInv, Abort, pc \in Engaged, UNCHANGED <<log, replay, memory, expired>>
    PROVE  /\ OperationInv' /\ OpenInv' /\ CloseInv' /\ MemoryInv' /\ FollowsInv'
           /\ UNCHANGED <<issued, filled, settled, exposed>>
           /\ failed \subseteq failed' /\ failed' \subseteq issued'
<1>1. OperationInv' /\ OpenInv' /\ CloseInv'
  BY Finished DEF Abort
<1>2. UNCHANGED <<issued, filled, settled, exposed, up, positions, capital>>
  BY DEF Abort, memory
<1>3. failed \subseteq failed' /\ failed' \subseteq issued'
  BY <1>2 DEF Abort, AuthorityInv, OperationInv, OrdersInv
<1>4. MemoryInv'
  <2>1. MemoryInv
    BY DEF AuthorityInv
  <2>2. queue' = queue \/ queue' = <<>>
    BY DEF Abort
  <2>3. CASE queue' = queue
    BY <1>2, <2>1, <2>3, MemoryFrame
  <2>4. CASE queue' = <<>>
    BY <1>2, <2>1, <2>4 DEF MemoryInv, InMemory
  <2>5. QED
    BY <2>2, <2>3, <2>4
<1>5. FollowsInv'
  <2>1. event.type = "POSITION_OPENED" => cur \in failed'
    BY DEF Abort
  <2>2. QED
    BY <1>2, <1>3, <2>1, FollowsFrame DEF AuthorityInv
<1>6. QED
  BY <1>1, <1>2, <1>3, <1>4, <1>5

(***************************************************************************)
(* The start                                                               *)
(***************************************************************************)

\* Nothing is stored, and the simulator is down.
LEMMA InitInv ==
    ASSUME Init
    PROVE  AuthorityInv
<1>1. EventsInv
  <2>1. Len(log) = 0 /\ IsSeqOf(log, 0) /\ IsSeqOf(replay, 0)
    BY DEF Init, IsSeqOf
  <2>2. SeenUpTo(0) = {} /\ StateAt(0) = EmptyState
    BY DEF SeenUpTo, StateAt
  <2>3. \A k \in 0..0 : GoodState(StateAt(k), k, SeenUpTo(k))
    BY <2>2, GoodEmpty
  <2>4. QED
    BY <2>1, <2>3 DEF EventsInv
<1>0. Len(<<>>) = 0 /\ \A S : <<>> \in Seq(S)
  OBVIOUS
<1>b. corrupt \in BOOLEAN /\ up \in BOOLEAN /\ pending \in BOOLEAN
  BY DEF Init
<1>2. DurableInv
  BY <1>0, <1>b DEF Init, DurableInv
<1>3. OperationInv /\ OpenInv /\ CloseInv
  BY DEF Init, OperationInv, OpenInv, CloseInv, NoEvent, Engaged
<1>4. MemoryInv
  BY <1>0, <1>b DEF Init, MemoryInv, InMemory
<1>5. FollowsInv
  BY DEF Init, FollowsInv, InMemory
<1>6. OrdersInv
  <2>1. budget \in [Faults -> Nat]
    BY AmountsAssumption DEF Init, Faults
  <2>2. QED
    BY <2>1 DEF Init, OrdersInv
<1>7. ReportInv /\ CompatInv
  BY <1>0, <1>b DEF Init, ReportInv, CompatInv
<1>8. QED
  BY <1>1, <1>2, <1>3, <1>4, <1>5, <1>6, <1>7 DEF AuthorityInv

(***************************************************************************)
(* bind and start                                                          *)
(***************************************************************************)

\* bind loads the epoch or creates it.
LEMMA BindLoadStep ==
    ASSUME AuthorityInv, BindLoad
    PROVE  AuthorityInv'
<1>1. /\ pc = "idle" /\ ~up
      /\ UNCHANGED <<log, replay, firm, entry, corrupt, up, positions, capital, queue, expired,
                     issued, filled, failed, settled, exposed, compat, pending, budget>>
  BY DEF BindLoad, store, memory, orders, downstream
<1>2. EventsInv' /\ DurableInv' /\ MemoryInv' /\ OrdersInv' /\ ReportInv'
  BY <1>1, EventsFrame, DurableFrame, MemoryFrame, OrdersFrame, ReportFrame DEF AuthorityInv
<1>3. CompatInv'
  BY <1>1 DEF AuthorityInv, CompatInv
<1>4. FollowsInv'
  BY <1>1, FollowsFrame DEF AuthorityInv
<1>5. \/ pc' = "append" /\ cur' = None /\ event' = EpochCreated(1, Capital) /\ plan' = {}
      \/ /\ pc' = "recover" /\ cur' = None /\ event' = NoEvent
         /\ plan' = {t \in DOMAIN Ledger.open : t \in expired}
  BY DEF BindLoad, StartAppend
<1>6. plan' \subseteq issued
  BY <1>5, LedgerTrades DEF AuthorityInv
<1>7. event'.type \notin {"POSITION_OPENED", "POSITION_CLOSED"}
  BY <1>5 DEF EpochCreated, NoEvent
<1>8. OpenInv' /\ CloseInv'
  BY <1>7 DEF OpenInv, CloseInv
<1>9. OperationInv'
  <2>1. CASE pc' = "append"
    <3>1. /\ cur' = None /\ event' = EpochCreated(1, Capital)
          /\ event'.type = "EPOCH_CREATED" /\ event'.seq = 1
      BY <1>5, <2>1 DEF EpochCreated
    <3>2. IsEntry(event')
      BY <3>1 DEF IsEntry
    <3>3. QED
      BY <1>1, <1>6, <2>1, <3>1, <3>2 DEF OperationInv, Engaged
  <2>2. CASE pc' = "recover"
    BY <1>1, <1>5, <1>6, <2>2 DEF OperationInv, Engaged, NoEvent
  <2>3. QED
    BY <1>5, <2>1, <2>2
<1>10. QED
  BY <1>2, <1>3, <1>4, <1>8, <1>9 DEF AuthorityInv

\* bind declares a position unresolved.
LEMMA BindUnresolvedStep ==
    ASSUME AuthorityInv, NEW t \in Trades, BindUnresolved(t)
    PROVE  AuthorityInv'
<1>1. /\ pc = "recover" /\ t \in plan
      /\ pc' = "append" /\ cur' = t /\ event' = PositionUnresolved(Len(log) + 1, t)
      /\ plan' = plan \ {t}
      /\ UNCHANGED <<log, replay, firm, entry, corrupt, up, positions, capital, queue, expired,
                     issued, filled, failed, settled, exposed, compat, pending, budget>>
  BY DEF BindUnresolved, StartAppend, store, memory, orders, downstream
<1>2. EventsInv' /\ DurableInv' /\ MemoryInv' /\ OrdersInv' /\ ReportInv'
  BY <1>1, EventsFrame, DurableFrame, MemoryFrame, OrdersFrame, ReportFrame DEF AuthorityInv
<1>3. CompatInv'
  BY <1>1 DEF AuthorityInv, CompatInv
<1>4. ~up /\ plan \subseteq issued
  BY <1>1 DEF AuthorityInv, OperationInv
<1>5. FollowsInv'
  BY <1>1, <1>4, FollowsFrame DEF AuthorityInv
<1>6. /\ event'.type = "POSITION_UNRESOLVED" /\ event'.trade = t /\ event'.seq = Len(log) + 1
      /\ Len(log) \in Nat
  BY <1>1, LedgerIs DEF PositionUnresolved, AuthorityInv
<1>7. OpenInv' /\ CloseInv'
  BY <1>6 DEF OpenInv, CloseInv
<1>8. IsEntry(event')
  BY <1>1, <1>6 DEF IsEntry
<1>9. OperationInv'
  BY <1>1, <1>4, <1>6, <1>8 DEF OperationInv, Engaged
<1>10. QED
  BY <1>2, <1>3, <1>5, <1>7, <1>9 DEF AuthorityInv

\* The positions that a restart takes over are the open ones, each once.
LEMMA RestoredIs ==
    ASSUME AuthorityInv
    PROVE  /\ Restored \in Seq(Trades)
           /\ {Restored[i] : i \in 1..Len(Restored)} = DOMAIN Ledger.open
           /\ \A i, j \in 1..Len(Restored) :
                SymbolOf[Restored[i]] = SymbolOf[Restored[j]] => i = j
<1> DEFINE I == {i \in 1..Len(log) : log[i].type = "POSITION_OPENED"
                                     /\ log[i].trade \in DOMAIN Ledger.open}
           opens == Picked(log, I)
           l == Len(opens)
           r == [i \in 1..l |-> opens[i].trade]
<1>1. EventsInv /\ Len(log) \in Nat
  BY LedgerIs DEF AuthorityInv
<1>2. PICK at : Chosen(opens, at, log, I, Len(log))
  BY <1>1, PickedIs
<1>3. Restored = r
  BY DEF Restored
<1> HIDE DEF opens, I
<1>4. /\ l \in Nat
      /\ \A a \in 1..l : at[a] \in 1..Len(log) /\ at[a] \in I /\ opens[a] = log[at[a]]
      /\ \A a, b \in 1..l : a < b => at[a] < at[b]
      /\ \A i \in 1..Len(log) : i \in I => \E a \in 1..l : at[a] = i
  BY <1>2 DEF Chosen, IsSeqOf
<1> HIDE DEF l
<1>5. \A a \in 1..l : /\ r[a] = log[at[a]].trade /\ r[a] \in DOMAIN Ledger.open
                      /\ log[at[a]].type = "POSITION_OPENED"
  BY <1>4 DEF I
<1>6. \A t \in DOMAIN Ledger.open : t \in Trades
  BY <1>1, LedgerTrades
<1>7. r \in Seq(Trades) /\ Len(r) = l
  BY <1>4, <1>5, <1>6
<1> HIDE DEF r
<1>8. \A t \in DOMAIN Ledger.open : \E a \in 1..l : r[a] = t
  <2> SUFFICES ASSUME NEW t \in DOMAIN Ledger.open
               PROVE  \E a \in 1..l : r[a] = t
    OBVIOUS
  <2>1. <<"POSITION_OPENED", t>> \in SeenUpTo(Len(log))
    BY <1>1, LedgerTrades
  <2>2. PICK i \in 1..Len(log) : <<"POSITION_OPENED", t>> = EventId(log[i])
    BY <2>1 DEF SeenUpTo
  <2>3. log[i].type = "POSITION_OPENED" /\ log[i].trade = t
    BY <2>2 DEF EventId
  <2>4. i \in I
    BY <2>3 DEF I
  <2>5. QED
    BY <1>4, <1>5, <2>3, <2>4
<1>9. \A a, b \in 1..l : r[a] = r[b] => a = b
  <2> SUFFICES ASSUME NEW a \in 1..l, NEW b \in 1..l, r[a] = r[b], a < b
               PROVE  FALSE
    BY <1>4
  <2>1. at[a] < at[b] /\ at[a] \in 1..Len(log) /\ at[b] \in 1..Len(log)
    BY <1>4
  <2>2. EventId(log[at[a]]) = EventId(log[at[b]])
    BY <1>5 DEF EventId
  <2>3. QED
    BY <1>1, <2>1, <2>2, IdsDistinct
<1>10. Exclusive(Ledger)
  BY <1>1, LedgerIs DEF GoodState
<1>11. \A a, b \in 1..l : SymbolOf[r[a]] = SymbolOf[r[b]] => a = b
  BY <1>5, <1>9, <1>10 DEF Exclusive
<1>12. {r[i] : i \in 1..l} = DOMAIN Ledger.open
  BY <1>5, <1>8
<1>13. QED
  BY <1>3, <1>7, <1>11, <1>12

\* bind is done, and the simulator takes up the open positions.
LEMMA BindDoneStep ==
    ASSUME AuthorityInv, BindDone
    PROVE  AuthorityInv'
<1>1. /\ pc = "recover" /\ up' = TRUE /\ capital' = Ledger.cash /\ positions' = Restored
      /\ Finish /\ pending' = TRUE
      /\ UNCHANGED <<log, replay, firm, entry, corrupt, queue, expired,
                     issued, filled, failed, settled, exposed, compat, budget>>
  BY DEF BindDone, store, orders
<1>2. EventsInv' /\ DurableInv' /\ OrdersInv' /\ ReportInv' /\ CompatInv'
  BY <1>1, EventsFrame, DurableFrame, OrdersFrame, ReportFrame, CompatFrame DEF AuthorityInv
<1>3. OperationInv' /\ OpenInv' /\ CloseInv'
  BY <1>1, Finished
<1>4. ~up /\ queue = <<>>
  BY <1>1 DEF AuthorityInv, OperationInv, MemoryInv
<1>5. /\ positions' \in Seq(Trades) /\ InMemory' = DOMAIN Ledger.open
      /\ \A i, j \in 1..Len(positions') :
            SymbolOf[positions'[i]] = SymbolOf[positions'[j]] => i = j
  BY <1>1, RestoredIs DEF InMemory
<1>6. capital' \in Nat
  BY <1>1, LedgerTrades DEF AuthorityInv
<1>7. MemoryInv'
  BY <1>1, <1>4, <1>5, <1>6 DEF MemoryInv
<1>8. Ledger' = Ledger
  BY <1>1, SameLedger
<1>9. FollowsInv'
  BY <1>1, <1>5, <1>8 DEF FollowsInv
<1>10. QED
  BY <1>2, <1>3, <1>7, <1>9 DEF AuthorityInv

(***************************************************************************)
(* place_market_order                                                      *)
(***************************************************************************)

\* An order that goes no further only becomes known, and as a failed one if
\* it raises.
LEMMA OrderNoted ==
    ASSUME AuthorityInv, NEW t \in Trades, issued' = issued \cup {t},
           failed' = failed \/ failed' = failed \cup {t},
           UNCHANGED <<log, replay, firm, entry, corrupt, up, positions, capital, pc, cur, event,
                       plan, queue, expired, filled, settled, exposed, compat, pending, budget>>
    PROVE  AuthorityInv'
<1>1. issued \subseteq issued' /\ failed \subseteq failed'
  OBVIOUS
<1>2. EventsInv' /\ DurableInv' /\ MemoryInv' /\ ReportInv'
  BY <1>1, EventsFrame, DurableFrame, MemoryFrame, ReportFrame DEF AuthorityInv
<1>3. OperationInv' /\ OpenInv' /\ CloseInv'
  BY <1>1, OperationFrame, OpenFrame, CloseFrame DEF AuthorityInv
<1>4. FollowsInv'
  BY <1>1, FollowsFrame DEF AuthorityInv
<1>5. OrdersInv'
  BY DEF AuthorityInv, OrdersInv
<1>6. CompatInv'
  BY DEF AuthorityInv, CompatInv
<1>7. QED
  BY <1>2, <1>3, <1>4, <1>5, <1>6 DEF AuthorityInv

\* An order is accepted: its symbol is free in memory and in the ledger.
LEMMA OrderAcceptedStep ==
    ASSUME AuthorityInv, NEW t \in Trades, OrderAccepted(t)
    PROVE  AuthorityInv'
<1>1. /\ pc = "idle" /\ up /\ t \notin issued /\ ~Occupied(SymbolOf[t])
      /\ issued' = issued \cup {t}
      /\ pc' = "append" /\ cur' = t
      /\ event' = PositionOpened(Len(log) + 1, t, SymbolOf[t], SideOf[t],
                                 Principal, EntryPrice, EntryFee)
      /\ UNCHANGED <<log, replay, firm, entry, corrupt, up, positions, capital, plan, queue,
                     expired, filled, failed, settled, exposed, compat, pending, budget>>
  BY DEF OrderAccepted, StartAppend, store, memory, downstream
<1>2. EventsInv' /\ DurableInv' /\ MemoryInv' /\ ReportInv'
  BY <1>1, EventsFrame, DurableFrame, MemoryFrame, ReportFrame DEF AuthorityInv
<1>3. OrdersInv'
  BY <1>1 DEF AuthorityInv, OrdersInv
<1>4. CompatInv'
  BY <1>1 DEF AuthorityInv, CompatInv
<1>5. event = NoEvent /\ event.type = "NONE"
  BY <1>1 DEF AuthorityInv, OperationInv, NoEvent
<1>6. FollowsInv'
  BY <1>1, <1>5, FollowsFrame DEF AuthorityInv
<1>7. /\ event'.type = "POSITION_OPENED" /\ event'.trade = t /\ event'.seq = Len(log) + 1
      /\ Len(log) \in Nat /\ EventId(event') = <<"POSITION_OPENED", t>>
  BY <1>1, LedgerIs DEF PositionOpened, AuthorityInv, EventId
<1>8. IsEntry(event')
  BY <1>1, <1>7 DEF IsEntry
<1>9. OperationInv'
  BY <1>1, <1>7, <1>8 DEF OperationInv, Engaged, AuthorityInv
<1>10. CloseInv'
  BY <1>7 DEF CloseInv
<1>11. Ledger' = Ledger /\ SeenUpTo(Len(log))' = SeenUpTo(Len(log))
  BY <1>1, SameLedger DEF SeenUpTo
<1>12. <<"POSITION_OPENED", t>> \notin SeenUpTo(Len(log))
  BY <1>1, OpenedIssued DEF AuthorityInv
<1>13. OpenInv'
  BY <1>1, <1>7, <1>11, <1>12 DEF OpenInv, Occupied
<1>14. QED
  BY <1>2, <1>3, <1>4, <1>6, <1>9, <1>10, <1>13 DEF AuthorityInv

\* An order is placed, accepted or not.
LEMMA OrderStep ==
    ASSUME AuthorityInv, NEW t \in Trades, Order(t)
    PROVE  AuthorityInv'
<1>1. CASE OrderTurnedDown(t)
  BY <1>1, OrderNoted DEF OrderTurnedDown, store, memory, operation, downstream
<1>2. CASE OrderRejected(t)
  BY <1>2, OrderNoted DEF OrderRejected, store, memory, operation, downstream
<1>3. CASE OrderRaises(t)
  BY <1>3, OrderNoted DEF OrderRaises, store, memory, operation, downstream
<1>4. CASE OrderAccepted(t)
  BY <1>4, OrderAcceptedStep
<1>5. QED
  BY <1>1, <1>2, <1>3, <1>4 DEF Order

\* A report of a trade whose event is durable.
LEMMA Reported ==
    ASSUME ReportInv, OrdersInv, NEW t \in issued, Report(t), UNCHANGED <<log, firm, entry, issued>>,
           \/ /\ filled' = filled \cup {t} /\ settled' = settled
              /\ <<"POSITION_OPENED", t>> \in SeenUpTo(firm)
           \/ /\ filled' = filled /\ settled' = settled \cup {t}
              /\ <<"POSITION_CLOSED", t>> \in SeenUpTo(firm)
    PROVE  /\ ReportInv' /\ exposed' \subseteq issued'
           /\ filled' \subseteq issued' /\ settled' \subseteq issued'
<1>1. SeenUpTo(firm)' = SeenUpTo(firm)
  BY DEF SeenUpTo
<1>2. CASE entry = "synced"
  BY <1>1, <1>2 DEF Report, ReportInv, OrdersInv
<1>3. CASE entry # "synced"
  BY <1>1, <1>3 DEF Report, ReportInv, OrdersInv
<1>4. QED
  BY <1>2, <1>3

\* An order is reported as filled: its OPEN is durable.
LEMMA OrderFilledStep ==
    ASSUME AuthorityInv, OrderFilled
    PROVE  AuthorityInv'
<1>1. /\ pc = "opened" /\ positions' = Append(positions, cur) /\ capital' = Ledger.cash
      /\ filled' = filled \cup {cur} /\ Report(cur) /\ Finish /\ pending' = TRUE
      /\ UNCHANGED <<log, replay, firm, entry, corrupt, up, queue, expired, issued, failed,
                     settled, compat, budget>>
  BY DEF OrderFilled, store
<1>2. /\ event.type = "POSITION_OPENED" /\ up /\ cur \in Trades /\ event.trade = cur
      /\ cur \in issued /\ EventId(event) \in SeenUpTo(firm)
  BY <1>1 DEF AuthorityInv, OperationInv, Engaged
<1>3. /\ cur \in DOMAIN Ledger.open
      /\ \A i \in 1..Len(positions) : SymbolOf[positions[i]] # SymbolOf[cur]
  BY <1>1, <1>2 DEF AuthorityInv, OpenInv
<1>4. EventsInv' /\ DurableInv' /\ CompatInv'
  BY <1>1, EventsFrame, DurableFrame, CompatFrame DEF AuthorityInv
<1>5. OperationInv' /\ OpenInv' /\ CloseInv'
  BY <1>1, Finished
<1>6. <<"POSITION_OPENED", cur>> \in SeenUpTo(firm)
  BY <1>2 DEF EventId
<1>7. ReportInv' /\ OrdersInv'
  <2>1. /\ ReportInv' /\ exposed' \subseteq issued'
        /\ filled' \subseteq issued' /\ settled' \subseteq issued'
    BY <1>1, <1>2, <1>6, Reported DEF AuthorityInv
  <2>2. QED
    BY <1>1, <2>1 DEF AuthorityInv, OrdersInv
<1>8. /\ positions \in Seq(Trades) /\ Len(positions) \in Nat
      /\ Len(positions') = Len(positions) + 1 /\ positions' \in Seq(Trades)
      /\ positions'[Len(positions) + 1] = cur
      /\ \A i \in 1..Len(positions) : positions'[i] = positions[i]
  BY <1>1, <1>2 DEF AuthorityInv, MemoryInv
<1>9. \A i \in 1..Len(positions') : i # Len(positions) + 1 => i \in 1..Len(positions)
  BY <1>8
<1>10. InMemory' = InMemory \cup {cur}
  BY <1>8, <1>9 DEF InMemory
<1>11. capital' \in Nat
  BY <1>1, LedgerTrades DEF AuthorityInv
<1>12. \A i, j \in 1..Len(positions') :
            SymbolOf[positions'[i]] = SymbolOf[positions'[j]] => i = j
  <2>1. \A i, j \in 1..Len(positions) : SymbolOf[positions[i]] = SymbolOf[positions[j]] => i = j
    BY DEF AuthorityInv, MemoryInv
  <2>2. QED
    BY <1>3, <1>8, <1>9, <2>1
<1>13. MemoryInv'
  <2>1. MemoryInv
    BY DEF AuthorityInv
  <2>2. QED
    BY <1>1, <1>2, <1>8, <1>10, <1>11, <1>12, <2>1 DEF MemoryInv
<1>14. Ledger' = Ledger
  BY <1>1, SameLedger
<1>15. FollowsInv'
  <2>1. FollowsInv
    BY DEF AuthorityInv
  <2>2. QED
    BY <1>1, <1>2, <1>3, <1>10, <1>14, <2>1 DEF FollowsInv
<1>16. QED
  BY <1>4, <1>5, <1>7, <1>13, <1>15 DEF AuthorityInv

(***************************************************************************)
(* _append_semantically_validated                                          *)
(***************************************************************************)

\* The replay refuses the event, and nothing is written.
LEMMA AppendRefusedStep ==
    ASSUME AuthorityInv, AppendRefused
    PROVE  AuthorityInv'
<1>1. /\ pc \in Engaged /\ Abort /\ UNCHANGED memory
      /\ UNCHANGED <<log, replay, firm, entry, corrupt, expired, compat, pending, budget>>
  BY DEF AppendRefused, Engaged, store, downstream
<1>2. /\ OperationInv' /\ OpenInv' /\ CloseInv' /\ MemoryInv' /\ FollowsInv'
      /\ UNCHANGED <<issued, filled, settled, exposed>> /\ failed' \subseteq issued'
  BY <1>1, Aborted
<1>3. EventsInv' /\ DurableInv' /\ ReportInv'
  BY <1>1, <1>2, EventsFrame, DurableFrame, ReportFrame DEF AuthorityInv
<1>4. OrdersInv' /\ CompatInv'
  BY <1>1, <1>2 DEF AuthorityInv, OrdersInv, CompatInv
<1>5. QED
  BY <1>2, <1>3, <1>4 DEF AuthorityInv

\* The event is in the store already.
LEMMA AppendKnownStep ==
    ASSUME AuthorityInv, AppendKnown
    PROVE  AuthorityInv'
<1>1. /\ pc = "append" /\ Known /\ pc' = "confirm"
      /\ UNCHANGED <<log, replay, firm, entry, corrupt, up, positions, capital, queue, cur, event,
                     plan, expired, issued, filled, failed, settled, exposed, compat, pending,
                     budget>>
  BY DEF AppendKnown, store, memory, orders, downstream
<1>2. EventsInv' /\ DurableInv' /\ MemoryInv' /\ OrdersInv' /\ ReportInv'
  BY <1>1, EventsFrame, DurableFrame, MemoryFrame, OrdersFrame, ReportFrame DEF AuthorityInv
<1>3. CompatInv'
  BY <1>1 DEF AuthorityInv, CompatInv
<1>4. CloseInv' /\ FollowsInv'
  BY <1>1, CloseFrame, FollowsFrame DEF AuthorityInv
<1>5. EventId(event) \in SeenUpTo(Len(log))
  BY <1>1 DEF Known, Stored, SeenUpTo
<1>6. event.type # "POSITION_OPENED"
  BY <1>1, <1>5 DEF AuthorityInv, OpenInv
<1>7. OpenInv'
  BY <1>1, <1>6 DEF OpenInv
<1>8. OperationInv'
  BY <1>1, <1>5 DEF AuthorityInv, OperationInv, Engaged, SeenUpTo, IsEntry
<1>9. QED
  BY <1>2, <1>3, <1>4, <1>7, <1>8 DEF AuthorityInv

\* The append fails before the event is visible, perhaps with a fragment.
LEMMA AppendFailsStep ==
    ASSUME AuthorityInv, AppendFails
    PROVE  AuthorityInv'
<1>1. /\ pc \in Engaged /\ Abort /\ UNCHANGED memory
      /\ UNCHANGED <<log, replay, firm, entry, expired, compat, pending>>
  BY DEF AppendFails, Engaged, downstream
<1>2. /\ OperationInv' /\ OpenInv' /\ CloseInv' /\ MemoryInv' /\ FollowsInv'
      /\ UNCHANGED <<issued, filled, settled, exposed>> /\ failed' \subseteq issued'
  BY <1>1, Aborted
<1>3. EventsInv' /\ ReportInv'
  BY <1>1, <1>2, EventsFrame, ReportFrame DEF AuthorityInv
<1>4. DurableInv'
  <2>1. corrupt' = corrupt \/ corrupt' = TRUE
    BY DEF AppendFails
  <2>2. corrupt' \in BOOLEAN
    BY <2>1 DEF AuthorityInv, DurableInv
  <2>3. QED
    BY <1>1, <2>2 DEF AuthorityInv, DurableInv
<1>5. budget' \in [Faults -> Nat]
  BY SpendType DEF AppendFails, AuthorityInv, OrdersInv, Faults
<1>6. OrdersInv' /\ CompatInv'
  BY <1>1, <1>2, <1>5 DEF AuthorityInv, OrdersInv, CompatInv
<1>7. QED
  BY <1>2, <1>3, <1>4, <1>6 DEF AuthorityInv

\* The event is written: the ledger moves to the next good state.
LEMMA AppendWriteStep ==
    ASSUME AuthorityInv, AppendWrite
    PROVE  AuthorityInv'
<1>n. PICK n : n = Len(log)
  OBVIOUS
<1>a. PICK a : a = Apply(Ledger, event)
  OBVIOUS
<1>1. /\ pc = "append" /\ ~Known /\ Valid(event) /\ pc' = "sync"
      /\ log' = Append(log, event) /\ replay' = Append(replay, Apply(Ledger, event))
      /\ UNCHANGED <<firm, entry, corrupt, up, positions, capital, queue, cur, event, plan,
                     expired, issued, filled, failed, settled, exposed, compat, pending, budget>>
  BY DEF AppendWrite, memory, orders, downstream
<1>2. /\ IsEntry(event) /\ pc \in Engaged
      /\ event.type \in {"EPOCH_CREATED", "POSITION_UNRESOLVED"} => ~up
      /\ event.type # "EPOCH_CREATED" => cur \in Trades /\ event.trade = cur /\ cur \in issued
  BY <1>1 DEF AuthorityInv, OperationInv, Engaged
<1>3. /\ Ledger = StateAt(n) /\ n \in Nat /\ GoodState(Ledger, n, SeenUpTo(n))
      /\ IsSeqOf(log, n) /\ IsSeqOf(replay, n)
  BY <1>n, LedgerIs DEF AuthorityInv, EventsInv
<1>4. /\ IsSeqOf(log', n + 1) /\ log'[n + 1] = event
      /\ \A i \in 1..n : log'[i] = log[i]
  <2>1. IsSeqOf(log, Len(log)) /\ Len(log) \in Nat /\ Len(log) = n
    BY <1>3 DEF IsSeqOf
  <2>l. /\ IsSeqOf(Append(log, event), Len(log) + 1) /\ Append(log, event)[Len(log) + 1] = event
        /\ \A i \in 1..Len(log) : Append(log, event)[i] = log[i]
    BY <2>1, AppendSeq
  <2>2. /\ IsSeqOf(Append(log, event), n + 1) /\ Append(log, event)[n + 1] = event
        /\ \A i \in 1..n : Append(log, event)[i] = log[i]
    BY <2>1, <2>l
  <2>3. QED
    BY <1>1, <2>2
<1>5. /\ IsSeqOf(replay', n + 1) /\ replay'[n + 1] = Apply(Ledger, event)
      /\ \A i \in 1..n : replay'[i] = replay[i]
  <2>1. IsSeqOf(replay, Len(replay)) /\ Len(replay) \in Nat /\ Len(replay) = n
    BY <1>3 DEF IsSeqOf
  <2>l. /\ IsSeqOf(Append(replay, a), Len(replay) + 1) /\ Append(replay, a)[Len(replay) + 1] = a
        /\ \A i \in 1..Len(replay) : Append(replay, a)[i] = replay[i]
    BY <2>1, AppendSeq
  <2>2. /\ IsSeqOf(Append(replay, a), n + 1) /\ Append(replay, a)[n + 1] = a
        /\ \A i \in 1..n : Append(replay, a)[i] = replay[i]
    BY <2>1, <2>l
  <2>3. QED
    BY <1>1, <1>a, <2>2
<1>6. Len(log') = n + 1
  BY <1>4 DEF IsSeqOf
<1>7. event.type = "POSITION_OPENED" =>
            \A t \in DOMAIN Ledger.open : SymbolOf[t] # SymbolOf[event.trade]
  BY <1>1, <1>2 DEF AuthorityInv, OpenInv
<1>8. /\ GoodState(Apply(Ledger, event), n + 1, SeenUpTo(n) \cup {EventId(event)})
      /\ Steps(Apply(Ledger, event), Ledger, event) /\ event.seq = n + 1
  BY <1>1, <1>2, <1>3, <1>7, GoodStep DEF Valid
<1>9. Ledger' = Apply(Ledger, event)
  <2>1. Ledger' = IF n + 1 = 0 THEN EmptyState ELSE replay'[n + 1]
    BY <1>5, LastIs DEF Ledger
  <2>2. n + 1 # 0
    BY <1>3
  <2>3. QED
    BY <1>5, <2>1, <2>2
<1>s. Steps(Ledger', Ledger, event)
  BY <1>8, <1>9
<1>10. \A k \in 0..n : SeenUpTo(k)' = SeenUpTo(k) /\ StateAt(k)' = StateAt(k)
  <2> SUFFICES ASSUME NEW k \in 0..n
               PROVE  SeenUpTo(k)' = SeenUpTo(k) /\ StateAt(k)' = StateAt(k)
    OBVIOUS
  <2>1. \A i \in 1..k : i \in 1..n
    BY <1>3
  <2>2. SeenUpTo(k)' = SeenUpTo(k)
    BY <1>4, <2>1 DEF SeenUpTo
  <2>3. k # 0 => k \in 1..n
    BY <1>3
  <2>4. StateAt(k)' = StateAt(k)
    BY <1>5, <2>3 DEF StateAt
  <2>5. QED
    BY <2>2, <2>4
<1>11. SeenUpTo(n + 1)' = SeenUpTo(n) \cup {EventId(event)} /\ StateAt(n + 1)' = Ledger'
  <2>1. \A i \in 1..(n + 1) : i # n + 1 => i \in 1..n
    BY <1>3
  <2>2. n + 1 \in 1..(n + 1) /\ n + 1 # 0 /\ \A i \in 1..n : i \in 1..(n + 1)
    BY <1>3
  <2>3. SeenUpTo(n + 1)' = SeenUpTo(n) \cup {EventId(event)}
    BY <1>4, <2>1, <2>2 DEF SeenUpTo
  <2>4. StateAt(n + 1)' = Ledger'
    BY <1>5, <1>9, <2>2 DEF StateAt
  <2>5. QED
    BY <2>3, <2>4
<1>12. EventsInv'
  <2>0. EventsInv
    BY DEF AuthorityInv
  <2>1. IsSeqOf(log, Len(log))' /\ IsSeqOf(replay, Len(log))'
    BY <1>4, <1>5, <1>6
  <2>2. ASSUME NEW k \in 1..Len(log')
        PROVE  /\ IsEntry(log'[k]) /\ log'[k].seq = k
               /\ log'[k].type # "EPOCH_CREATED" => log'[k].trade \in issued'
               /\ replay'[k] = Apply(StateAt(k - 1)', log'[k])
    <3>1. CASE k = n + 1
      <4>1. k - 1 = n /\ n \in 0..n
        BY <3>1, <1>3
      <4>2. StateAt(k - 1)' = Ledger
        BY <4>1, <1>3, <1>10
      <4>3. QED
        BY <3>1, <4>2, <1>1, <1>2, <1>4, <1>5, <1>8
    <3>2. CASE k # n + 1
      <4>1. k \in 1..n /\ k - 1 \in 0..n
        BY <3>2, <1>3, <1>6
      <4>2. StateAt(k - 1)' = StateAt(k - 1)
        BY <4>1, <1>10
      <4>3. QED
        BY <2>0, <4>1, <4>2, <1>n, <1>1, <1>4, <1>5 DEF EventsInv
    <3>3. QED
      BY <3>1, <3>2
  <2>3. ASSUME NEW k \in 0..Len(log')
        PROVE  GoodState(StateAt(k)', k, SeenUpTo(k)')
    <3>1. CASE k = n + 1
      BY <3>1, <1>8, <1>9, <1>11
    <3>2. CASE k # n + 1
      <4>1. k \in 0..n
        BY <3>2, <1>3, <1>6
      <4>2. QED
        BY <2>0, <4>1, <1>n, <1>10 DEF EventsInv
    <3>3. QED
      BY <3>1, <3>2
  <2>4. QED
    BY <2>1, <2>2, <2>3 DEF EventsInv, IsEntry, GoodState, ToldBySeen, Exclusive
<1>13. DurableInv'
  <2>1. firm' \in 0..Len(log')
    BY <1>1, <1>n, <1>3, <1>6 DEF AuthorityInv, DurableInv
  <2>2. QED
    BY <1>1, <2>1 DEF AuthorityInv, DurableInv
<1>14. EventId(event) \in SeenUpTo(Len(log))'
  <2>1. SeenUpTo(Len(log))' = SeenUpTo(n + 1)'
    BY <1>6 DEF SeenUpTo
  <2>2. QED
    BY <1>11, <2>1
<1>15. OperationInv'
  BY <1>1, <1>14 DEF AuthorityInv, OperationInv, Engaged, IsEntry
<1>16. OpenInv'
  <2>1. event.type = "POSITION_OPENED" => cur \in DOMAIN Ledger'.open
    BY <1>2, <1>s DEF Steps
  <2>2. QED
    BY <1>1, <2>1 DEF AuthorityInv, OpenInv
<1>17. CloseInv' /\ MemoryInv' /\ OrdersInv'
  BY <1>1, CloseFrame, MemoryFrame, OrdersFrame DEF AuthorityInv
<1>18. FollowsInv'
  <2>0. FollowsInv /\ InMemory' = InMemory /\ CloseInv /\ OpenInv
    BY <1>1 DEF AuthorityInv, InMemory
  <2>1. ~up => InMemory = {}
    BY DEF AuthorityInv, MemoryInv, InMemory
  <2>2. event.type \in EventTypes
    BY <1>2, EntryIs
  <2>3. InMemory \subseteq DOMAIN Ledger'.open \cup Ledger'.closed
    BY <1>2, <1>s, <2>0, <2>1, <2>2 DEF Steps, FollowsInv, EventTypes
  <2>4. ASSUME up, NEW t \in DOMAIN Ledger'.open
        PROVE  t \in InMemory \/ t \in failed \/ (event.type = "POSITION_OPENED" /\ t = cur)
    BY <1>2, <1>s, <2>0, <2>2, <2>4 DEF Steps, FollowsInv, EventTypes
  <2>5. ASSUME up, InMemory = DOMAIN Ledger'.open
        PROVE  FALSE
    <3>1. CASE event.type = "POSITION_OPENED"
      <4>1. cur \in InMemory
        BY <3>1, <1>2, <1>s, <2>5 DEF Steps
      <4>2. cur \notin InMemory
        BY <3>1, <2>0 DEF OpenInv, InMemory
      <4>3. QED
        BY <4>1, <4>2
    <3>2. CASE event.type = "POSITION_CLOSED"
      <4>1. cur \notin DOMAIN Ledger'.open
        BY <3>2, <1>2, <1>s DEF Steps
      <4>2. cur \in InMemory
        BY <3>2, <2>0 DEF CloseInv
      <4>3. QED
        BY <4>1, <4>2, <2>5
    <3>3. QED
      BY <3>1, <3>2, <1>2, <2>2, <2>5 DEF EventTypes
  <2>6. QED
    BY <1>1, <2>0, <2>3, <2>4, <2>5 DEF FollowsInv
<1>19. ReportInv'
  <2>1. firm \in 0..n
    BY <1>n DEF AuthorityInv, DurableInv
  <2>2. SeenUpTo(firm)' = SeenUpTo(firm)
    BY <1>1, <1>10, <2>1 DEF SeenUpTo
  <2>3. QED
    BY <1>1, <2>2 DEF AuthorityInv, ReportInv
<1>20. CompatInv'
  BY <1>1 DEF AuthorityInv, CompatInv
<1>21. QED
  BY <1>12, <1>13, <1>15, <1>16, <1>17, <1>18, <1>19, <1>20 DEF AuthorityInv

\* More of the log becomes durable, or its entry does.
LEMMA Firmer ==
    ASSUME EventsInv, DurableInv, ReportInv, UNCHANGED <<log, corrupt, filled, settled, exposed>>,
           firm' = firm \/ firm' = Len(log), entry' = entry \/ entry' = "synced"
    PROVE  DurableInv' /\ ReportInv'
<1>1. Len(log) \in Nat /\ firm \in 0..Len(log)
  BY LedgerIs DEF DurableInv
<1>2. firm' \in 0..Len(log) /\ \A i \in 1..firm : i \in 1..firm'
  BY <1>1
<1>3. DurableInv'
  BY <1>2 DEF DurableInv
<1>4. \A id \in SeenUpTo(firm) : id \in SeenUpTo(firm)'
  BY <1>2 DEF SeenUpTo
<1>5. ReportInv'
  BY <1>4 DEF ReportInv
<1>6. QED
  BY <1>3, <1>5

\* A sync or a confirmation makes the whole log firm.
LEMMA AppendDone ==
    ASSUME AuthorityInv, pc \in {"sync", "confirm"}, firm' = Len(log), pc' = Continue,
           entry' = entry \/ entry' = "synced",
           UNCHANGED <<log, replay, corrupt, up, positions, capital, queue, cur, event, plan,
                       expired, issued, filled, failed, settled, exposed, compat, pending, budget>>
    PROVE  AuthorityInv'
<1>1. EventsInv' /\ MemoryInv' /\ OrdersInv' /\ CloseInv' /\ FollowsInv'
  BY EventsFrame, MemoryFrame, OrdersFrame, CloseFrame, FollowsFrame DEF AuthorityInv
<1>2. DurableInv' /\ ReportInv'
  BY Firmer DEF AuthorityInv
<1>3. CompatInv'
  BY DEF AuthorityInv, CompatInv
<1>4. /\ IsEntry(event)
      /\ event.type \in {"EPOCH_CREATED", "POSITION_UNRESOLVED"} => ~up
      /\ event.type = "EPOCH_CREATED" => cur = None
      /\ event.type # "EPOCH_CREATED" => cur \in Trades
      /\ EventId(event) \in SeenUpTo(Len(log))
  BY DEF AuthorityInv, OperationInv, Engaged
<1>5. event.type \in EventTypes
  BY <1>4, EntryIs
<1>6. /\ event.type = "POSITION_OPENED" => pc' = "opened"
      /\ event.type = "POSITION_CLOSED" => pc' = "closed"
      /\ event.type \in {"EPOCH_CREATED", "POSITION_UNRESOLVED"} => pc' = "recover"
  BY DEF Continue
<1>7. SeenUpTo(Len(log))' = SeenUpTo(Len(log)) /\ SeenUpTo(firm)' = SeenUpTo(Len(log))
  BY DEF SeenUpTo
<1>8. OperationInv'
  BY <1>4, <1>5, <1>6, <1>7 DEF AuthorityInv, OperationInv, Engaged, EventTypes, IsEntry
<1>9. OpenInv'
  <2>1. Ledger' = Ledger
    BY SameLedger
  <2>2. event.type = "POSITION_OPENED" => cur \in DOMAIN Ledger.open /\ pc' # "append"
    BY <1>6 DEF AuthorityInv, OpenInv
  <2>3. QED
    BY <2>1, <2>2 DEF AuthorityInv, OpenInv
<1>10. QED
  BY <1>1, <1>2, <1>3, <1>8, <1>9 DEF AuthorityInv

\* The event is synced, or confirmed.
LEMMA AppendSyncStep ==
    ASSUME AuthorityInv, AppendSync \/ AppendConfirm
    PROVE  AuthorityInv'
<1>1. CASE AppendSync
  BY <1>1, AppendDone DEF AppendSync, memory, orders, downstream
<1>2. CASE AppendConfirm
  BY <1>2, AppendDone DEF AppendConfirm, memory, orders, downstream
<1>3. QED
  BY <1>1, <1>2

\* The event is visible, and its sync fails.
LEMMA AppendSyncFailsStep ==
    ASSUME AuthorityInv, AppendSyncFails
    PROVE  AuthorityInv'
<1>1. /\ pc \in {"sync", "confirm"} /\ pc \in Engaged
      /\ UNCHANGED memory
      /\ UNCHANGED <<log, replay, corrupt, up, positions, capital, expired, compat, pending>>
      /\ firm' = firm \/ firm' = Len(log)
      /\ entry' = entry \/ entry' = "synced"
  BY DEF AppendSyncFails, memory, downstream, Engaged
<1>2. budget' \in [Faults -> Nat]
  BY SpendType DEF AppendSyncFails, AuthorityInv, OrdersInv, Faults
<1>3. CompatInv'
  BY <1>1 DEF AuthorityInv, CompatInv
<1>4. CASE Abort
  <2>1. /\ OperationInv' /\ OpenInv' /\ CloseInv' /\ MemoryInv' /\ FollowsInv'
        /\ UNCHANGED <<issued, filled, settled, exposed>> /\ failed' \subseteq issued'
    BY <1>1, <1>4, Aborted
  <2>2. EventsInv' /\ DurableInv' /\ ReportInv'
    BY <1>1, <2>1, EventsFrame, Firmer DEF AuthorityInv
  <2>3. OrdersInv'
    BY <1>1, <1>2, <2>1 DEF AuthorityInv, OrdersInv
  <2>4. QED
    BY <1>3, <2>1, <2>2, <2>3 DEF AuthorityInv
<1>5. CASE /\ pc = "sync" /\ event.type = "POSITION_OPENED" /\ pc' = "confirm"
           /\ UNCHANGED <<cur, event, plan, queue, orders>>
  <2>1. UNCHANGED <<cur, event, plan, queue, issued, filled, failed, settled, exposed>>
    BY <1>5 DEF orders
  <2>2. EventsInv' /\ DurableInv' /\ ReportInv' /\ MemoryInv' /\ CloseInv' /\ FollowsInv'
    BY <1>1, <2>1, EventsFrame, Firmer, MemoryFrame, CloseFrame, FollowsFrame DEF AuthorityInv
  <2>3. OrdersInv'
    BY <1>1, <1>2, <2>1 DEF AuthorityInv, OrdersInv
  <2>4. Ledger' = Ledger
    BY <1>1, SameLedger
  <2>5. OpenInv'
    BY <1>1, <1>5, <2>1, <2>4 DEF AuthorityInv, OpenInv
  <2>6. SeenUpTo(Len(log))' = SeenUpTo(Len(log))
    BY <1>1 DEF SeenUpTo
  <2>7. OperationInv'
    BY <1>1, <1>5, <2>1, <2>6 DEF AuthorityInv, OperationInv, Engaged, IsEntry
  <2>8. QED
    BY <1>3, <2>2, <2>3, <2>5, <2>7 DEF AuthorityInv
<1>6. QED
  BY <1>4, <1>5 DEF AppendSyncFails

(***************************************************************************)
(* The monitor                                                             *)
(***************************************************************************)

\* The monitor's queue changes, between operations.
LEMMA QueueChanged ==
    ASSUME AuthorityInv, pc = "idle", up, MemoryInv',
           UNCHANGED <<log, replay, firm, entry, corrupt, up, positions, capital, pc, cur, event,
                       plan, expired, issued, filled, failed, settled, exposed, compat, pending,
                       budget>>
    PROVE  AuthorityInv'
<1>1. EventsInv' /\ DurableInv' /\ OrdersInv' /\ ReportInv'
  BY EventsFrame, DurableFrame, OrdersFrame, ReportFrame DEF AuthorityInv
<1>2. OperationInv' /\ OpenInv' /\ FollowsInv'
  BY OperationFrame, OpenFrame, FollowsFrame DEF AuthorityInv
<1>3. event'.type = "NONE"
  BY DEF AuthorityInv, OperationInv, NoEvent
<1>4. CloseInv'
  BY <1>3 DEF CloseInv
<1>5. CompatInv'
  BY DEF AuthorityInv, CompatInv
<1>6. QED
  BY <1>1, <1>2, <1>4, <1>5 DEF AuthorityInv

\* The monitor begins a tick with the positions in memory.
LEMMA MonitorTickStep ==
    ASSUME AuthorityInv, MonitorTick
    PROVE  AuthorityInv'
<1>1. /\ pc = "idle" /\ up /\ queue' = positions
      /\ UNCHANGED <<log, replay, firm, entry, corrupt, up, positions, capital, pc, cur, event,
                     plan, expired, issued, filled, failed, settled, exposed, compat, pending,
                     budget>>
  BY DEF MonitorTick, store, memory, operation, orders, downstream
<1>2. MemoryInv
  BY DEF AuthorityInv
<1>3. \A i, j \in 1..Len(positions) : positions[i] = positions[j] => i = j
  BY <1>2 DEF MemoryInv
<1>4. MemoryInv'
  BY <1>1, <1>2, <1>3 DEF MemoryInv, InMemory
<1>5. QED
  BY <1>1, <1>4, QueueChanged

\* The rest of a queue.
LEMMA QueueTail ==
    ASSUME MemoryInv, queue # <<>>
    PROVE  /\ Head(queue) \in InMemory /\ Head(queue) \in Trades
           /\ Tail(queue) \in Seq(Trades)
           /\ \A i, j \in 1..Len(Tail(queue)) : Tail(queue)[i] = Tail(queue)[j] => i = j
           /\ \A i \in 1..Len(Tail(queue)) :
                Tail(queue)[i] \in InMemory /\ Tail(queue)[i] # Head(queue)
<1>1. queue \in Seq(Trades) /\ Len(queue) \in Nat /\ Len(queue) # 0
  BY DEF MemoryInv
<1>2. /\ Tail(queue) \in Seq(Trades) /\ Len(Tail(queue)) = Len(queue) - 1
      /\ \A i \in 1..Len(Tail(queue)) : Tail(queue)[i] = queue[i + 1]
      /\ Head(queue) = queue[1]
  BY <1>1
<1>3. \A i \in 1..Len(Tail(queue)) : i + 1 \in 1..Len(queue) /\ i + 1 # 1
  BY <1>1, <1>2
<1>4. 1 \in 1..Len(queue)
  BY <1>1
<1>5. /\ \A i, j \in 1..Len(queue) : queue[i] = queue[j] => i = j
      /\ \A i \in 1..Len(queue) : queue[i] \in InMemory
  BY DEF MemoryInv
<1>6. \A i, j \in 1..Len(Tail(queue)) : Tail(queue)[i] = Tail(queue)[j] => i = j
  <2> SUFFICES ASSUME NEW i \in 1..Len(Tail(queue)), NEW j \in 1..Len(Tail(queue)),
                      Tail(queue)[i] = Tail(queue)[j]
               PROVE  i = j
    OBVIOUS
  <2>1. i + 1 = j + 1
    BY <1>2, <1>3, <1>5
  <2>2. QED
    BY <2>1
<1>7. QED
  BY <1>1, <1>2, <1>3, <1>4, <1>5, <1>6

\* The monitor leaves a position open.
LEMMA MonitorPassStep ==
    ASSUME AuthorityInv, MonitorPass
    PROVE  AuthorityInv'
<1>1. /\ pc = "idle" /\ up /\ queue # <<>> /\ queue' = Tail(queue)
      /\ UNCHANGED <<log, replay, firm, entry, corrupt, up, positions, capital, pc, cur, event,
                     plan, expired, issued, filled, failed, settled, exposed, compat, pending,
                     budget>>
  BY DEF MonitorPass, store, memory, operation, orders, downstream
<1>2. MemoryInv /\ InMemory' = InMemory
  BY <1>1 DEF AuthorityInv, InMemory
<1>3. MemoryInv'
  BY <1>1, <1>2, QueueTail DEF MemoryInv
<1>4. QED
  BY <1>1, <1>3, QueueChanged

\* The CLOSE that the monitor appends is one for the position it looks at.
LEMMA CloseEventIs ==
    ASSUME EventsInv, NEW t \in Trades, NEW price \in ExitPrices
    PROVE  /\ IsEntry(CloseEvent(t, price))
           /\ CloseEvent(t, price).type = "POSITION_CLOSED" /\ CloseEvent(t, price).trade = t
<1> DEFINE w == Stored(<<"POSITION_CLOSED", t>>)
<1>1. CASE w = {}
  <2>1. CloseEvent(t, price) = PositionClosed(Len(log) + 1, t, price, ExitFee)
    BY <1>1 DEF CloseEvent
  <2>2. Len(log) \in Nat
    BY LedgerIs
  <2>3. QED
    BY <2>1, <2>2 DEF PositionClosed, IsEntry
<1>2. CASE w # {}
  <2>1. PICK i \in w : CloseEvent(t, price) = log[i]
    BY <1>2 DEF CloseEvent
  <2>2. i \in 1..Len(log) /\ EventId(log[i]) = <<"POSITION_CLOSED", t>>
    BY <2>1 DEF Stored
  <2>3. QED
    BY <2>1, <2>2 DEF EventsInv, EventId
<1>3. QED
  BY <1>1, <1>2

\* The monitor begins to close a position in memory.
LEMMA MonitorCloseStep ==
    ASSUME AuthorityInv, NEW t \in Trades, MonitorClose(t)
    PROVE  AuthorityInv'
<1>1. /\ pc = "idle" /\ up /\ queue # <<>> /\ t = Head(queue) /\ queue' = Tail(queue)
      /\ pc' = "append" /\ cur' = t
      /\ UNCHANGED <<log, replay, firm, entry, corrupt, up, positions, capital, plan, expired,
                     issued, filled, failed, settled, exposed, compat, pending, budget>>
  BY DEF MonitorClose, StartAppend, store, memory, orders, downstream
<1>2. PICK price \in ExitPrices : event' = CloseEvent(t, price)
  BY DEF MonitorClose, StartAppend
<1>3. IsEntry(event') /\ event'.type = "POSITION_CLOSED" /\ event'.trade = t
  BY <1>2, CloseEventIs DEF AuthorityInv
<1>4. EventsInv' /\ DurableInv' /\ OrdersInv' /\ ReportInv'
  BY <1>1, EventsFrame, DurableFrame, OrdersFrame, ReportFrame DEF AuthorityInv
<1>5. MemoryInv /\ InMemory' = InMemory
  BY <1>1 DEF AuthorityInv, InMemory
<1>6. MemoryInv'
  BY <1>1, <1>5, QueueTail DEF MemoryInv
<1>7. event.type = "NONE"
  BY <1>1 DEF AuthorityInv, OperationInv, NoEvent
<1>8. FollowsInv'
  BY <1>1, <1>7, FollowsFrame DEF AuthorityInv
<1>9. CloseInv'
  BY <1>1, <1>3, <1>5, QueueTail DEF CloseInv
<1>10. OpenInv'
  BY <1>3 DEF OpenInv
<1>11. t \in issued
  <2>1. t \in InMemory
    BY <1>1, <1>5, QueueTail
  <2>2. QED
    BY <2>1, LedgerTrades DEF AuthorityInv, FollowsInv
<1>12. OperationInv'
  BY <1>1, <1>3, <1>11 DEF AuthorityInv, OperationInv, Engaged
<1>13. CompatInv'
  BY <1>1 DEF AuthorityInv, CompatInv
<1>14. QED
  BY <1>4, <1>6, <1>8, <1>9, <1>10, <1>12, <1>13 DEF AuthorityInv

\* The memory without the position of a trade.
LEMMA WithoutPositionIs ==
    ASSUME MemoryInv, NEW t
    PROVE  /\ WithoutPosition(t) \in Seq(Trades)
           /\ {WithoutPosition(t)[i] : i \in 1..Len(WithoutPosition(t))} = InMemory \ {t}
           /\ \A i, j \in 1..Len(WithoutPosition(t)) :
                SymbolOf[WithoutPosition(t)[i]] = SymbolOf[WithoutPosition(t)[j]] => i = j
<1> DEFINE I == {i \in 1..Len(positions) : positions[i] # t}
           p == Picked(positions, I)
           l == Len(p)
<1>1. positions \in Seq(Trades) /\ Len(positions) \in Nat
  BY DEF MemoryInv
<1>2. PICK at : Chosen(p, at, positions, I, Len(positions))
  BY <1>1, PickedIs
<1>3. WithoutPosition(t) = p
  BY DEF WithoutPosition
<1> HIDE DEF I, p
<1>4. /\ l \in Nat /\ p = [i \in 1..l |-> p[i]]
      /\ \A a \in 1..l : at[a] \in 1..Len(positions) /\ at[a] \in I /\ p[a] = positions[at[a]]
      /\ \A a, b \in 1..l : a < b => at[a] < at[b]
      /\ \A i \in 1..Len(positions) : i \in I => \E a \in 1..l : at[a] = i
  BY <1>2 DEF Chosen, IsSeqOf
<1> HIDE DEF l
<1>5. \A a \in 1..l : p[a] \in Trades /\ p[a] # t /\ p[a] \in InMemory
  BY <1>1, <1>4 DEF I, InMemory
<1>6. p \in Seq(Trades) /\ Len(p) = l
  BY <1>4, <1>5
<1>7. \A x \in InMemory \ {t} : \E a \in 1..l : p[a] = x
  <2> SUFFICES ASSUME NEW x \in InMemory, x # t
               PROVE  \E a \in 1..l : p[a] = x
    OBVIOUS
  <2>1. PICK i \in 1..Len(positions) : positions[i] = x
    BY DEF InMemory
  <2>2. i \in I
    BY <2>1 DEF I
  <2>3. QED
    BY <1>4, <2>1, <2>2
<1>8. \A a, b \in 1..l : SymbolOf[p[a]] = SymbolOf[p[b]] => a = b
  <2> SUFFICES ASSUME NEW a \in 1..l, NEW b \in 1..l, SymbolOf[p[a]] = SymbolOf[p[b]], a < b
               PROVE  FALSE
    BY <1>4
  <2>1. at[a] < at[b] /\ at[a] \in 1..Len(positions) /\ at[b] \in 1..Len(positions)
    BY <1>4
  <2>a. \A i, j \in 1..Len(positions) :
           SymbolOf[positions[i]] = SymbolOf[positions[j]] => i = j
    BY DEF MemoryInv
  <2>b. p[a] = positions[at[a]] /\ p[b] = positions[at[b]]
    BY <1>4
  <2>2. at[a] = at[b]
    BY <2>1, <2>a, <2>b
  <2>3. QED
    BY <1>1, <2>1, <2>2
<1>9. {p[i] : i \in 1..l} = InMemory \ {t}
  BY <1>5, <1>7
<1>10. QED
  BY <1>3, <1>6, <1>8, <1>9

\* A position is reported as closed: its CLOSE is durable.
LEMMA PositionSettledStep ==
    ASSUME AuthorityInv, PositionSettled
    PROVE  AuthorityInv'
<1>1. /\ pc = "closed" /\ positions' = WithoutPosition(cur) /\ capital' = Ledger.cash
      /\ settled' = settled \cup {cur} /\ Report(cur) /\ Finish /\ pending' = TRUE
      /\ UNCHANGED <<log, replay, firm, entry, corrupt, up, queue, expired, issued, filled,
                     failed, compat, budget>>
  BY DEF PositionSettled, store
<1>2. /\ event.type = "POSITION_CLOSED" /\ up /\ cur \in Trades /\ event.trade = cur
      /\ cur \in issued /\ EventId(event) \in SeenUpTo(firm)
      /\ EventId(event) \in SeenUpTo(Len(log))
  BY <1>1 DEF AuthorityInv, OperationInv, Engaged
<1>3. /\ <<"POSITION_CLOSED", cur>> \in SeenUpTo(firm)
      /\ <<"POSITION_CLOSED", cur>> \in SeenUpTo(Len(log))
  BY <1>2 DEF EventId
<1>4. cur \in Ledger.closed /\ cur \notin DOMAIN Ledger.open
  <2>1. EventsInv
    BY DEF AuthorityInv
  <2>2. cur \in Ledger.closed
    BY <1>2, <1>3, <2>1, LedgerTrades
  <2>3. QED
    BY <2>1, <2>2, LedgerTrades
<1>5. EventsInv' /\ DurableInv' /\ CompatInv'
  BY <1>1, EventsFrame, DurableFrame, CompatFrame DEF AuthorityInv
<1>6. OperationInv' /\ OpenInv' /\ CloseInv'
  BY <1>1, Finished
<1>7. ReportInv' /\ OrdersInv'
  <2>1. /\ ReportInv' /\ exposed' \subseteq issued'
        /\ filled' \subseteq issued' /\ settled' \subseteq issued'
    BY <1>1, <1>2, <1>3, Reported DEF AuthorityInv
  <2>2. QED
    BY <1>1, <2>1 DEF AuthorityInv, OrdersInv
<1>8. /\ MemoryInv /\ FollowsInv
      /\ \A i \in 1..Len(queue) : queue[i] # cur
  BY <1>2 DEF AuthorityInv, CloseInv
<1>9. /\ positions' \in Seq(Trades) /\ InMemory' = InMemory \ {cur}
      /\ \A i, j \in 1..Len(positions') :
            SymbolOf[positions'[i]] = SymbolOf[positions'[j]] => i = j
  <2> DEFINE rest == WithoutPosition(cur)
  <2>1. positions' = rest
    BY <1>1
  <2>2. /\ rest \in Seq(Trades) /\ {rest[i] : i \in 1..Len(rest)} = InMemory \ {cur}
        /\ \A i, j \in 1..Len(rest) : SymbolOf[rest[i]] = SymbolOf[rest[j]] => i = j
    BY <1>8, WithoutPositionIs
  <2> HIDE DEF rest
  <2>3. InMemory' = {rest[i] : i \in 1..Len(rest)}
    BY <2>1 DEF InMemory
  <2>4. QED
    BY <2>1, <2>2, <2>3
<1>10. capital' \in Nat
  BY <1>1, LedgerTrades DEF AuthorityInv
<1>11. MemoryInv'
  BY <1>1, <1>2, <1>8, <1>9, <1>10 DEF MemoryInv
<1>12. Ledger' = Ledger
  BY <1>1, SameLedger
<1>13. FollowsInv'
  BY <1>1, <1>2, <1>4, <1>8, <1>9, <1>12 DEF FollowsInv
<1>14. QED
  BY <1>5, <1>6, <1>7, <1>11, <1>13 DEF AuthorityInv

(***************************************************************************)
(* sync_compatibility                                                      *)
(***************************************************************************)

\* The end of a position is in the log only after its OPEN.
LEMMA OpenedBefore ==
    ASSUME EventsInv, NEW k \in 1..Len(log),
           log[k].type \in {"POSITION_CLOSED", "POSITION_UNRESOLVED"}
    PROVE  \E i \in 1..(k - 1) : EventId(log[i]) = <<"POSITION_OPENED", log[k].trade>>
<1>1. Len(log) \in Nat
  BY LedgerIs
<1>2. k - 1 \in 0..Len(log) /\ k \in 0..Len(log) /\ k # 0
  BY <1>1
<1>3. GoodState(StateAt(k - 1), k - 1, SeenUpTo(k - 1))
  BY <1>2 DEF EventsInv
<1>4. GoodState(StateAt(k), k, SeenUpTo(k))
  BY <1>2 DEF EventsInv
<1>5. StateAt(k) = Apply(StateAt(k - 1), log[k])
  BY <1>2 DEF EventsInv, StateAt
<1>6. StateAt(k).ok /\ SoundState(StateAt(k - 1))
  BY <1>3, <1>4 DEF GoodState
<1>7. Accepts(StateAt(k - 1), log[k])
  BY <1>5, <1>6, AcceptedOnly
<1>8. log[k].trade \in DOMAIN StateAt(k - 1).open
  BY <1>7 DEF Accepts
<1>9. <<"POSITION_OPENED", log[k].trade>> \in SeenUpTo(k - 1)
  BY <1>3, <1>8 DEF GoodState, ToldBySeen
<1>10. QED
  BY <1>9 DEF SeenUpTo

\* The compatibility file with the missing rows has each id once, the OPEN of a
\* trade first.
LEMMA CompatExtended ==
    ASSUME EventsInv, CompatInv,
           NEW longer,
           longer = compat \o [i \in 1..Len(MissingRows) |-> EventId(MissingRows[i])]
    PROVE  /\ longer \in Seq(LifecycleTypes \X Trades)
           /\ \A i, j \in 1..Len(longer) : longer[i] = longer[j] => i = j
           /\ \A i \in 1..Len(longer) :
                \E j \in 1..i : longer[j] = <<"POSITION_OPENED", longer[i][2]>>
<1> DEFINE I == {i \in 1..Len(log) : Lifecycle(log[i]) /\ ~Contains(compat, EventId(log[i]))}
           rows == Picked(log, I)
           m == Len(rows)
           c == Len(compat)
           ids == [i \in 1..m |-> EventId(rows[i])]
<1>0. EventsInv /\ Len(log) \in Nat
  BY LedgerIs
<1>1. PICK at : Chosen(rows, at, log, I, Len(log))
  BY <1>0, PickedIs
<1>2. longer = compat \o ids
  BY DEF MissingRows
<1> HIDE DEF rows, I
<1>3. /\ m \in Nat
      /\ \A a \in 1..m : at[a] \in 1..Len(log) /\ at[a] \in I /\ rows[a] = log[at[a]]
      /\ \A a, b \in 1..m : a < b => at[a] < at[b]
      /\ \A i \in 1..Len(log) : i \in I => \E a \in 1..m : at[a] = i
  BY <1>1 DEF Chosen, IsSeqOf
<1> HIDE DEF m
<1>4. \A a \in 1..m : ids[a] = EventId(log[at[a]])
  BY <1>3
<1>5. \A i \in I : /\ i \in 1..Len(log) /\ log[i].type \in LifecycleTypes
                   /\ log[i].trade \in Trades
                   /\ EventId(log[i]) = <<log[i].type, log[i].trade>>
                   /\ ~Contains(compat, EventId(log[i]))
  <2> SUFFICES ASSUME NEW i \in I
               PROVE  /\ i \in 1..Len(log) /\ log[i].type \in LifecycleTypes
                      /\ log[i].trade \in Trades
                      /\ EventId(log[i]) = <<log[i].type, log[i].trade>>
                      /\ ~Contains(compat, EventId(log[i]))
    OBVIOUS
  <2>1. i \in 1..Len(log) /\ log[i].type # "EPOCH_CREATED" /\ ~Contains(compat, EventId(log[i]))
    BY DEF I, Lifecycle
  <2>2. IsEntry(log[i])
    BY <1>0, <2>1 DEF EventsInv
  <2>3. QED
    BY <2>1, <2>2, EntryIs DEF EventId
<1>d. ids = [i \in 1..m |-> ids[i]]
  OBVIOUS
<1> HIDE DEF ids
<1>e. PICK Row : Row = LifecycleTypes \X Trades
  OBVIOUS
<1>6. \A a \in 1..m : ids[a] \in Row
  <2> SUFFICES ASSUME NEW a \in 1..m
               PROVE  ids[a] \in Row
    OBVIOUS
  <2>1. at[a] \in I
    BY <1>3
  <2>2. /\ ids[a] = <<log[at[a]].type, log[at[a]].trade>>
        /\ log[at[a]].type \in LifecycleTypes /\ log[at[a]].trade \in Trades
    BY <1>4, <1>5, <2>1
  <2>3. QED
    BY <1>e, <2>2
<1>7. ids \in Seq(Row) /\ Len(ids) = m
  BY <1>3, <1>6, <1>d
<1>8. compat \in Seq(Row) /\ c \in Nat
  BY <1>e DEF CompatInv
<1>9. /\ longer \in Seq(Row) /\ Len(longer) = c + m
      /\ \A i \in 1..c : longer[i] = compat[i]
      /\ \A i \in 1..(c + m) : i > c => longer[i] = ids[i - c]
  <2> DEFINE both == compat \o ids
  <2>1. ids \in Seq(Row) /\ compat \in Seq(Row)
    BY <1>7, <1>8
  <2>2. /\ both \in Seq(Row) /\ Len(both) = Len(compat) + Len(ids)
        /\ \A i \in 1..Len(compat) : both[i] = compat[i]
        /\ \A i \in 1..(Len(compat) + Len(ids)) :
                i > Len(compat) => both[i] = ids[i - Len(compat)]
    BY <2>1, ConcatSeq
  <2> HIDE DEF both
  <2>3. longer = both /\ Len(ids) = m
    BY <1>2, <1>7 DEF both
  <2>4. QED
    BY <2>2, <2>3
<1>10. \A i \in 1..Len(longer) : i \in 1..c \/ (i > c /\ i - c \in 1..m)
  BY <1>3, <1>8, <1>9
<1> DEFINE New(i) == i > c /\ i - c \in 1..m
<1>11. \A i \in 1..Len(longer) : New(i) => /\ longer[i] = EventId(log[at[i - c]])
                                         /\ at[i - c] \in 1..Len(log) /\ at[i - c] \in I
  BY <1>3, <1>4, <1>9
<1>12. ASSUME NEW i \in 1..Len(longer), NEW j \in 1..Len(longer), i < j
       PROVE  longer[i] # longer[j]
  <2>1. CASE i \in 1..c /\ j \in 1..c
    BY <1>9, <1>12, <2>1 DEF CompatInv
  <2>2. CASE i \in 1..c /\ New(j)
    <3>1. ~Contains(compat, longer[j])
      BY <2>2, <1>5, <1>11
    <3>2. QED
      BY <2>2, <3>1, <1>9 DEF Contains
  <2>3. CASE New(i) /\ New(j)
    <3>1. i - c < j - c
      BY <1>8, <1>12, <2>3
    <3>2. at[i - c] < at[j - c]
      BY <1>3, <2>3, <3>1
    <3>3. EventId(log[at[i - c]]) # EventId(log[at[j - c]])
      BY <1>0, <1>11, <2>3, <3>2, IdsDistinct
    <3>4. QED
      BY <1>11, <2>3, <3>3
  <2>4. CASE New(i) /\ j \in 1..c
    BY <1>8, <1>12, <2>4
  <2>5. QED
    BY <1>10, <2>1, <2>2, <2>3, <2>4
<1>13. \A i, j \in 1..Len(longer) : longer[i] = longer[j] => i = j
  <2> SUFFICES ASSUME NEW i \in 1..Len(longer), NEW j \in 1..Len(longer), i # j
               PROVE  longer[i] # longer[j]
    OBVIOUS
  <2>1. i < j \/ j < i
    BY <1>3, <1>8, <1>9
  <2>2. QED
    BY <1>12, <2>1
<1>14. ASSUME NEW i \in 1..Len(longer)
       PROVE  \E j \in 1..i : longer[j] = <<"POSITION_OPENED", longer[i][2]>>
  <2>1. CASE i \in 1..c
    <3>1. PICK j \in 1..i : compat[j] = <<"POSITION_OPENED", compat[i][2]>>
      BY <2>1 DEF CompatInv
    <3>2. j \in 1..c
      BY <2>1, <3>1, <1>8
    <3>3. QED
      BY <2>1, <3>1, <3>2, <1>9
  <2>2. CASE New(i)
    <3> DEFINE a == i - c
    <3>1. /\ a \in 1..m /\ longer[i] = EventId(log[at[a]])
          /\ at[a] \in 1..Len(log) /\ at[a] \in I
      BY <2>2, <1>11
    <3>2. PICK k \in 1..Len(log) : k = at[a]
      BY <3>1
    <3>3. /\ longer[i] = <<log[k].type, log[k].trade>> /\ log[k].type \in LifecycleTypes
          /\ longer[i][2] = log[k].trade
      BY <1>5, <3>1, <3>2
    <3>4. CASE log[k].type = "POSITION_OPENED"
      <4>1. i \in 1..i
        BY <1>3, <1>8, <1>9
      <4>2. longer[i] = <<"POSITION_OPENED", longer[i][2]>>
        BY <3>3, <3>4
      <4>3. QED
        BY <4>1, <4>2
    <3>5. CASE log[k].type # "POSITION_OPENED"
      <4>1. log[k].type \in {"POSITION_CLOSED", "POSITION_UNRESOLVED"}
        BY <3>3, <3>5 DEF LifecycleTypes
      <4>2. PICK o \in 1..(k - 1) : EventId(log[o]) = <<"POSITION_OPENED", log[k].trade>>
        BY <1>0, <4>1, OpenedBefore
      <4>3. o \in 1..Len(log) /\ o < k
        BY <1>0, <3>2, <4>2
      <4>4. CASE Contains(compat, EventId(log[o]))
        <5>1. PICK j \in 1..c : compat[j] = EventId(log[o])
          BY <4>4 DEF Contains
        <5>2. j \in 1..i
          BY <5>1, <2>2, <1>8
        <5>3. QED
          BY <5>1, <5>2, <4>2, <3>3, <1>9
      <4>5. CASE ~Contains(compat, EventId(log[o]))
        <5>1. log[o].type = "POSITION_OPENED"
          BY <4>2 DEF EventId
        <5>2. o \in I
          BY <4>3, <4>5, <5>1 DEF I, Lifecycle
        <5>3. PICK b \in 1..m : at[b] = o
          BY <1>3, <4>3, <5>2
        <5>4. b < a
          <6>1. at[b] < at[a] /\ at[a] \in 1..Len(log) /\ at[b] \in 1..Len(log)
            BY <4>3, <5>3, <3>1, <3>2
          <6>2. ~ (at[a] < at[b]) /\ at[a] # at[b]
            BY <1>0, <6>1
          <6>3. ~ (a < b) /\ a # b
            BY <1>3, <3>1, <5>3, <6>2
          <6>4. a \in Nat /\ b \in Nat
            BY <1>3, <3>1, <5>3
          <6>5. QED
            BY <6>3, <6>4
        <5>n. /\ c \in Nat /\ m \in Nat /\ b \in 1..m /\ i \in Nat /\ i > c
              /\ i - c \in 1..m /\ b < i - c
          BY <1>3, <1>8, <2>2, <3>1, <5>3, <5>4
        <5>5. c + b \in 1..i /\ c + b > c /\ (c + b) - c = b /\ c + b \in 1..(c + m)
          BY <5>n
        <5>6. longer[c + b] = EventId(log[o])
          BY <1>4, <1>9, <5>3, <5>5
        <5>7. QED
          BY <4>2, <5>5, <5>6, <3>3
      <4>6. QED
        BY <4>4, <4>5
    <3>6. QED
      BY <3>4, <3>5
  <2>3. QED
    BY <1>10, <2>1, <2>2
<1>15. QED
  BY <1>e, <1>9, <1>13, <1>14

\* The compatibility file is synchronised, or fails to be.
LEMMA SyncCompatibilityStep ==
    ASSUME AuthorityInv, SyncCompatibility
    PROVE  AuthorityInv'
<1>1. /\ pending' = FALSE
      /\ UNCHANGED <<log, replay, firm, entry, corrupt, up, positions, capital, pc, cur, event,
                     plan, queue, expired, issued, filled, failed, settled, exposed, budget>>
  BY DEF SyncCompatibility, store, memory, operation, orders
<1>2. EventsInv' /\ DurableInv' /\ MemoryInv' /\ OrdersInv' /\ ReportInv'
  BY <1>1, EventsFrame, DurableFrame, MemoryFrame, OrdersFrame, ReportFrame DEF AuthorityInv
<1>3. OperationInv' /\ OpenInv' /\ CloseInv' /\ FollowsInv'
  BY <1>1, OperationFrame, OpenFrame, CloseFrame, FollowsFrame DEF AuthorityInv
<1>4. CompatInv'
  <2>0. pending' \in BOOLEAN
    BY <1>1
  <2>1. CASE compat' = compat
    BY <2>0, <2>1, CompatFrame DEF AuthorityInv
  <2>2. CASE compat' = compat \o [i \in 1..Len(MissingRows) |-> EventId(MissingRows[i])]
    <3>1. /\ compat' \in Seq(LifecycleTypes \X Trades)
          /\ \A i, j \in 1..Len(compat') : compat'[i] = compat'[j] => i = j
          /\ \A i \in 1..Len(compat') :
                \E j \in 1..i : compat'[j] = <<"POSITION_OPENED", compat'[i][2]>>
      BY <2>2, CompatExtended DEF AuthorityInv
    <3>2. QED
      BY <2>0, <3>1 DEF CompatInv
  <2>3. QED
    BY <2>1, <2>2 DEF SyncCompatibility
<1>5. QED
  BY <1>2, <1>3, <1>4 DEF AuthorityInv

(***************************************************************************)
(* Time and crashes                                                        *)
(***************************************************************************)

\* A recovery window passes.
LEMMA TimeStep ==
    ASSUME AuthorityInv, NEW t \in Trades, Time(t)
    PROVE  AuthorityInv'
<1>1. /\ expired' = expired \cup {t}
      /\ UNCHANGED <<log, replay, firm, entry, corrupt, up, positions, capital, pc, cur, event,
                     plan, queue, issued, filled, failed, settled, exposed, compat, pending,
                     budget>>
  BY DEF Time, store, memory, operation, orders, downstream
<1>2. EventsInv' /\ DurableInv' /\ MemoryInv' /\ ReportInv'
  BY <1>1, EventsFrame, DurableFrame, MemoryFrame, ReportFrame DEF AuthorityInv
<1>3. OperationInv' /\ OpenInv' /\ CloseInv' /\ FollowsInv'
  BY <1>1, OperationFrame, OpenFrame, CloseFrame, FollowsFrame DEF AuthorityInv
<1>4. OrdersInv' /\ CompatInv'
  BY <1>1 DEF AuthorityInv, OrdersInv, CompatInv
<1>5. QED
  BY <1>2, <1>3, <1>4 DEF AuthorityInv

\* A process that died has no operation and no memory.
LEMMA WentDown ==
    ASSUME Down
    PROVE  /\ OperationInv' /\ OpenInv' /\ CloseInv' /\ MemoryInv' /\ FollowsInv'
           /\ pending' \in BOOLEAN
<1>1. OperationInv' /\ OpenInv' /\ CloseInv'
  BY Finished DEF Down
<1>2. /\ up' = FALSE /\ positions' = <<>> /\ capital' = 0 /\ queue' = <<>> /\ pending' = FALSE
      /\ Len(<<>>) = 0 /\ <<>> \in Seq(Trades)
  BY DEF Down
<1>3. up' \in BOOLEAN /\ pending' \in BOOLEAN
  BY <1>2
<1>4. InMemory' = {}
  BY <1>2 DEF InMemory
<1>5. MemoryInv'
  BY <1>2, <1>3 DEF MemoryInv
<1>6. FollowsInv'
  BY <1>2, <1>4 DEF FollowsInv
<1>7. QED
  BY <1>1, <1>3, <1>5, <1>6

\* The process dies.
LEMMA ProcessCrashStep ==
    ASSUME AuthorityInv, ProcessCrash
    PROVE  AuthorityInv'
<1>1. /\ Down /\ Spend("crash")
      /\ UNCHANGED <<log, replay, firm, entry, expired, issued, filled, failed, settled, exposed,
                     compat>>
  BY DEF ProcessCrash, orders
<1>2. /\ OperationInv' /\ OpenInv' /\ CloseInv' /\ MemoryInv' /\ FollowsInv'
      /\ pending' \in BOOLEAN
  BY <1>1, WentDown
<1>3. EventsInv' /\ ReportInv' /\ CompatInv'
  BY <1>1, <1>2, EventsFrame, ReportFrame, CompatFrame DEF AuthorityInv
<1>4. DurableInv'
  <2>1. corrupt' = corrupt \/ corrupt' = TRUE
    BY DEF ProcessCrash
  <2>2. corrupt' \in BOOLEAN
    BY <2>1 DEF AuthorityInv, DurableInv
  <2>3. QED
    BY <1>1, <2>2 DEF AuthorityInv, DurableInv
<1>5. budget' \in [Faults -> Nat]
  BY <1>1, SpendType DEF AuthorityInv, OrdersInv, Faults
<1>6. OrdersInv'
  BY <1>1, <1>5 DEF AuthorityInv, OrdersInv
<1>7. QED
  BY <1>2, <1>3, <1>4, <1>6 DEF AuthorityInv

\* The events that survive are a beginning of those there were.
LEMMA EventsCut ==
    ASSUME EventsInv, NEW k \in 0..Len(log), log' = Prefix(k), replay' = SubSeq(replay, 1, k),
           issued' = issued
    PROVE  /\ EventsInv' /\ Len(log') = k /\ \A j \in 0..k : SeenUpTo(j)' = SeenUpTo(j)
<1>n. PICK n : n = Len(log)
  OBVIOUS
<1>0. n \in Nat /\ IsSeqOf(log, n) /\ IsSeqOf(replay, n) /\ k \in 0..n
  BY <1>n, LedgerIs DEF EventsInv
<1>1. IsSeqOf(log', k) /\ \A i \in 1..k : log'[i] = log[i]
  BY <1>0, PrefixSeq DEF Prefix
<1>2. IsSeqOf(replay', k) /\ \A i \in 1..k : replay'[i] = replay[i]
  BY <1>0, PrefixSeq
<1>3. Len(log') = k /\ k \in Nat
  BY <1>1 DEF IsSeqOf
<1>4. \A j \in 0..k : SeenUpTo(j)' = SeenUpTo(j) /\ StateAt(j)' = StateAt(j)
  <2> SUFFICES ASSUME NEW j \in 0..k
               PROVE  SeenUpTo(j)' = SeenUpTo(j) /\ StateAt(j)' = StateAt(j)
    OBVIOUS
  <2>1. (\A i \in 1..j : i \in 1..k) /\ (j # 0 => j \in 1..k)
    BY <1>3
  <2>2. SeenUpTo(j)' = SeenUpTo(j)
    BY <1>1, <2>1 DEF SeenUpTo
  <2>3. StateAt(j)' = StateAt(j)
    BY <1>2, <2>1 DEF StateAt
  <2>4. QED
    BY <2>2, <2>3
<1>5. EventsInv'
  <2>1. IsSeqOf(log, Len(log))' /\ IsSeqOf(replay, Len(log))'
    BY <1>1, <1>2, <1>3
  <2>2. ASSUME NEW j \in 1..Len(log')
        PROVE  /\ IsEntry(log'[j]) /\ log'[j].seq = j
               /\ log'[j].type # "EPOCH_CREATED" => log'[j].trade \in issued'
               /\ replay'[j] = Apply(StateAt(j - 1)', log'[j])
    <3>1. j \in 1..k /\ j \in 1..n /\ j - 1 \in 0..k
      BY <1>0, <1>3
    <3>2. StateAt(j - 1)' = StateAt(j - 1)
      BY <3>1, <1>4
    <3>3. QED
      BY <3>1, <3>2, <1>n, <1>1, <1>2 DEF EventsInv
  <2>3. ASSUME NEW j \in 0..Len(log')
        PROVE  GoodState(StateAt(j)', j, SeenUpTo(j)')
    <3>1. j \in 0..k /\ j \in 0..n
      BY <1>0, <1>3
    <3>2. QED
      BY <3>1, <1>n, <1>4 DEF EventsInv
  <2>4. QED
    BY <2>1, <2>2, <2>3 DEF EventsInv, IsEntry, GoodState, ToldBySeen, Exclusive
<1>6. QED
  BY <1>3, <1>4, <1>5

\* The power fails: log and projections are cut where they are firm, or lost.
LEMMA PowerFailureStep ==
    ASSUME AuthorityInv, PowerFailure
    PROVE  AuthorityInv'
<1>1. /\ Down /\ Spend("crash")
      /\ UNCHANGED <<expired, issued, filled, failed, settled, exposed, compat>>
  BY DEF PowerFailure, orders
<1>2. /\ OperationInv' /\ OpenInv' /\ CloseInv' /\ MemoryInv' /\ FollowsInv'
      /\ pending' \in BOOLEAN
  BY <1>1, WentDown
<1>3. CompatInv'
  BY <1>1, <1>2, CompatFrame DEF AuthorityInv
<1>4. budget' \in [Faults -> Nat]
  BY <1>1, SpendType DEF AuthorityInv, OrdersInv, Faults
<1>5. OrdersInv'
  BY <1>1, <1>4 DEF AuthorityInv, OrdersInv
<1>6. EventsInv /\ Len(log) \in Nat /\ DurableInv /\ ReportInv
  BY LedgerIs DEF AuthorityInv
<1>7. CASE /\ entry = "unsynced"
           /\ log' = <<>> /\ replay' = <<>> /\ firm' = 0 /\ corrupt' = FALSE
           /\ UNCHANGED entry
  <2>1. 0 \in 0..Len(log)
    BY <1>6
  <2>2. log' = Prefix(0) /\ replay' = SubSeq(replay, 1, 0)
    BY <1>6, <1>7 DEF Prefix, EventsInv, IsSeqOf
  <2>3. EventsInv' /\ Len(log') = 0
    BY <1>1, <1>6, <2>1, <2>2, EventsCut
  <2>4. corrupt' \in BOOLEAN
    BY <1>7
  <2>5. DurableInv'
    BY <1>6, <1>7, <2>3, <2>4 DEF DurableInv
  <2>6. ReportInv'
    BY <1>1, <1>6, <1>7 DEF ReportInv
  <2>7. QED
    BY <1>2, <1>3, <1>5, <2>3, <2>5, <2>6 DEF AuthorityInv
<1>8. ASSUME NEW k \in firm..Len(log), log' = Prefix(k), replay' = SubSeq(replay, 1, k), firm' = k,
             corrupt' \in {corrupt} \cup (IF k < Len(log) THEN {TRUE} ELSE {}),
             entry' = IF k > 0 \/ corrupt' THEN "synced" ELSE entry
      PROVE  AuthorityInv'
  <2>1. k \in 0..Len(log) /\ k \in 0..k /\ firm \in 0..k
    BY <1>6 DEF DurableInv
  <2>2. EventsInv' /\ Len(log') = k /\ \A j \in 0..k : SeenUpTo(j)' = SeenUpTo(j)
    BY <1>1, <1>6, <1>8, <2>1, EventsCut
  <2>3. corrupt' = corrupt \/ corrupt' = TRUE
    BY <1>8
  <2>4. corrupt' \in BOOLEAN
    BY <1>6, <2>3 DEF DurableInv
  <2>5. entry' \in {"synced", entry}
    BY <1>8
  <2>6. DurableInv'
    BY <1>6, <1>8, <2>1, <2>2, <2>4, <2>5 DEF DurableInv
  <2>7. \A id \in SeenUpTo(firm) : id \in SeenUpTo(firm)'
    <3>1. SeenUpTo(firm)' = SeenUpTo(k)'
      BY <1>8 DEF SeenUpTo
    <3>2. SeenUpTo(k)' = SeenUpTo(k)
      BY <2>1, <2>2
    <3>3. \A i \in 1..firm : i \in 1..k
      BY <1>6, <2>1
    <3>4. \A id \in SeenUpTo(firm) : id \in SeenUpTo(k)
      BY <3>3 DEF SeenUpTo
    <3>5. QED
      BY <3>1, <3>2, <3>4
  <2>8. ReportInv'
    BY <1>1, <1>6, <2>5, <2>7 DEF ReportInv
  <2>9. QED
    BY <1>2, <1>3, <1>5, <2>2, <2>6, <2>8 DEF AuthorityInv
<1>9. QED
  BY <1>7, <1>8 DEF PowerFailure

(***************************************************************************)
(* The invariant and what follows from it                                  *)
(***************************************************************************)

\* Nothing happens.
LEMMA StutterStep ==
    ASSUME AuthorityInv, UNCHANGED vars
    PROVE  AuthorityInv'
<1>1. UNCHANGED <<log, replay, firm, entry, corrupt, up, positions, capital, queue, pc, cur, event,
                  plan, expired, issued, filled, failed, settled, exposed, compat, pending, budget>>
  BY DEF vars
<1>2. EventsInv' /\ DurableInv' /\ MemoryInv' /\ OrdersInv' /\ ReportInv'
  BY <1>1, EventsFrame, DurableFrame, MemoryFrame, OrdersFrame, ReportFrame DEF AuthorityInv
<1>3. OperationInv' /\ OpenInv' /\ CloseInv' /\ FollowsInv'
  BY <1>1, OperationFrame, OpenFrame, CloseFrame, FollowsFrame DEF AuthorityInv
<1>4. CompatInv'
  BY <1>1 DEF AuthorityInv, CompatInv
<1>5. QED
  BY <1>2, <1>3, <1>4 DEF AuthorityInv

\* The invariant that all the properties below follow from: the projections
\* of all prefixes of the log are sound, the operation in progress is where
\* its event is, and memory, reports and the compatibility file agree with
\* the events.
THEOREM AuthorityInvariant == Spec => []AuthorityInv
<1>1. Init => AuthorityInv
  BY InitInv
<1>2. AuthorityInv /\ [Next]_vars => AuthorityInv'
  <2> SUFFICES ASSUME AuthorityInv, [Next]_vars
               PROVE  AuthorityInv'
    OBVIOUS
  <2>1. CASE Work
    BY <2>1, BindLoadStep, BindUnresolvedStep, BindDoneStep, OrderFilledStep, AppendRefusedStep,
       AppendWriteStep, AppendKnownStep, AppendSyncStep, PositionSettledStep DEF Work
  <2>2. CASE AppendFails
    BY <2>2, AppendFailsStep
  <2>3. CASE AppendSyncFails
    BY <2>3, AppendSyncFailsStep
  <2>4. ASSUME NEW t \in Trades, Order(t) \/ MonitorClose(t) \/ Time(t)
        PROVE  AuthorityInv'
    BY <2>4, OrderStep, MonitorCloseStep, TimeStep
  <2>5. CASE MonitorTick
    BY <2>5, MonitorTickStep
  <2>6. CASE MonitorPass
    BY <2>6, MonitorPassStep
  <2>7. CASE SyncCompatibility
    BY <2>7, SyncCompatibilityStep
  <2>8. CASE ProcessCrash
    BY <2>8, ProcessCrashStep
  <2>9. CASE PowerFailure
    BY <2>9, PowerFailureStep
  <2>10. CASE UNCHANGED vars
    BY <2>10, StutterStep
  <2>11. QED
    BY <2>1, <2>2, <2>3, <2>4, <2>5, <2>6, <2>7, <2>8, <2>9, <2>10 DEF Next
<1>3. QED
  BY <1>1, <1>2, PTL DEF Spec

\* Type correctness, with one position for each symbol in the simulator's
\* memory and every report one of an order that was placed.
THEOREM TypeCorrect == Spec => []TypeOK
<1>1. AuthorityInv => TypeOK
  <2> SUFFICES ASSUME AuthorityInv
               PROVE  TypeOK
    OBVIOUS
  <2>1. Len(replay) = Len(log)
    BY DEF AuthorityInv, EventsInv, IsSeqOf
  <2>2. pc \in {"idle", "append", "sync", "confirm", "opened", "closed", "recover"}
    BY DEF AuthorityInv, OperationInv, Engaged
  <2>3. cur \in Trades \cup {None}
    BY <2>2 DEF AuthorityInv, OperationInv, Engaged
  <2>4. plan \subseteq Trades /\ expired \subseteq Trades /\ issued \subseteq Trades
    BY DEF AuthorityInv, OperationInv, OrdersInv
  <2>5. corrupt \in BOOLEAN /\ up \in BOOLEAN /\ pending \in BOOLEAN
    BY DEF AuthorityInv, DurableInv, MemoryInv, CompatInv
  <2>6. QED
    BY <2>1, <2>2, <2>3, <2>4, <2>5 DEF TypeOK, AuthorityInv, DurableInv, MemoryInv, OrdersInv
<1>2. QED
  BY <1>1, AuthorityInvariant, PTL

\* The epoch can always be replayed from nothing, to the state the runtime
\* works with: no failure, crash or retry lets an event into the store that
\* project refuses.
THEOREM Replayable == Spec => []EpochReplayable
<1>1. AuthorityInv => EpochReplayable
  <2> SUFFICES ASSUME AuthorityInv
               PROVE  EpochReplayable
    OBVIOUS
  <2>n. PICK n : n = Len(log)
    OBVIOUS
  <2>1. EventsInv /\ n \in Nat /\ Ledger = StateAt(n) /\ Ledger.ok
    BY <2>n, LedgerIs DEF AuthorityInv, GoodState
  <2>2. PICK r : Replays(r, log)
    BY <2>n, <2>1, ReplaysExist
  <2>3. /\ r[0] = EmptyState /\ \A k \in 1..n : r[k] = Apply(r[k - 1], log[k])
        /\ Project(log) = r[n]
    BY <2>n, <2>1, <2>2, ReplaysStep, ProjectIs
  <2>4. /\ StateAt(0) = EmptyState
        /\ \A k \in 1..n : StateAt(k) = Apply(StateAt(k - 1), log[k])
    <3>1. \A k \in 1..n : k # 0
      BY <2>1
    <3>2. QED
      BY <2>n, <2>1, <3>1 DEF EventsInv, StateAt
  <2> DEFINE Bad == {k \in 0..n : r[k] # StateAt(k)}
  <2>5. Bad = {}
    <3> SUFFICES ASSUME Bad # {} PROVE FALSE
      OBVIOUS
    <3>1. Bad \in SUBSET Nat
      BY <2>1
    <3>2. PICK m \in Bad : \A k \in Bad : m <= k
      BY <3>1, Least
    <3>3. m \in 0..n /\ r[m] # StateAt(m)
      OBVIOUS
    <3>4. m # 0
      BY <2>3, <2>4, <3>3
    <3>5. m - 1 \in 0..n /\ ~ (m <= m - 1) /\ m \in 1..n
      BY <2>1, <3>3, <3>4
    <3>6. r[m - 1] = StateAt(m - 1)
      BY <3>2, <3>5
    <3>7. QED
      BY <2>3, <2>4, <3>3, <3>5, <3>6
  <2>6. r[n] = StateAt(n)
    BY <2>1, <2>5
  <2>7. QED
    BY <2>1, <2>3, <2>6 DEF EpochReplayable
<1>2. QED
  BY <1>1, AuthorityInvariant, PTL

\* The accounts of the ledger balance, over all orders, closes, retries,
\* crashes and restarts.
THEOREM AlwaysBalanced == Spec => []LedgerBalances
<1>1. AuthorityInv => LedgerBalances
  BY LedgerIs, BalancedIs DEF AuthorityInv, GoodState, SoundState, LedgerBalances
<1>2. QED
  BY <1>1, AuthorityInvariant, PTL

\* At most one position is open on a symbol.
THEOREM OnePosition == Spec => []OneOpenPerSymbol
<1>1. AuthorityInv => OneOpenPerSymbol
  BY LedgerIs DEF AuthorityInv, GoodState, Exclusive, OneOpenPerSymbol
<1>2. QED
  BY <1>1, AuthorityInvariant, PTL

\* What is reported survives a power failure.
THEOREM ReportsDurable == Spec => []ReportedDurable
<1>1. AuthorityInv => ReportedDurable
  <2> SUFFICES ASSUME AuthorityInv
               PROVE  ReportedDurable
    OBVIOUS
  <2>1. firm \in 0..Len(log) /\ IsSeqOf(log, Len(log)) /\ Len(log) \in Nat
    BY DEF AuthorityInv, DurableInv, EventsInv, IsSeqOf
  <2>2. /\ IsSeqOf(Prefix(firm), firm) /\ Len(Prefix(firm)) = firm
        /\ \A i \in 1..firm : Prefix(firm)[i] = log[i]
    BY <2>1, PrefixSeq DEF Prefix, IsSeqOf
  <2>3. Ids(Prefix(firm)) = SeenUpTo(firm)
    BY <2>2 DEF Ids, SeenUpTo
  <2>4. QED
    BY <2>3 DEF AuthorityInv, ReportInv, ReportedDurable
<1>2. QED
  BY <1>1, AuthorityInvariant, PTL

\* Between operations the simulator's memory is the ledger's, up to orders
\* that failed after their event was written.
THEOREM MemoryIsLedger == Spec => []MemoryFollowsLedger
<1>1. AuthorityInv => MemoryFollowsLedger
  <2> SUFFICES ASSUME AuthorityInv, up, pc = "idle"
               PROVE  /\ InMemory \subseteq DOMAIN Ledger.open \cup Ledger.closed
                      /\ DOMAIN Ledger.open \ InMemory \subseteq failed
                      /\ InMemory = DOMAIN Ledger.open => capital = Ledger.cash
    BY DEF MemoryFollowsLedger
  <2>1. event.type = "NONE"
    BY DEF AuthorityInv, OperationInv, NoEvent
  <2>2. QED
    BY <2>1 DEF AuthorityInv, FollowsInv
<1>2. QED
  BY <1>1, AuthorityInvariant, PTL

\* The compatibility file has each event once, the OPEN of a trade first.
THEOREM CompatibilityRight == Spec => []CompatibilityOnce
<1>1. AuthorityInv => CompatibilityOnce
  <2> SUFFICES ASSUME AuthorityInv, NEW i \in 1..Len(compat), NEW j \in 1..Len(compat)
               PROVE  /\ compat[i] = compat[j] => i = j
                      /\ compat[i][2] = compat[j][2] /\ compat[j][1] = "POSITION_OPENED" => j <= i
    BY DEF CompatibilityOnce
  <2>1. compat[i] = compat[j] => i = j
    BY DEF AuthorityInv, CompatInv
  <2>2. ASSUME compat[i][2] = compat[j][2], compat[j][1] = "POSITION_OPENED"
        PROVE  j <= i
    <3>1. PICK k \in 1..i : compat[k] = <<"POSITION_OPENED", compat[i][2]>>
      BY DEF AuthorityInv, CompatInv
    <3>2. compat[j] \in LifecycleTypes \X Trades /\ Len(compat) \in Nat
      BY DEF AuthorityInv, CompatInv
    <3>3. compat[j] = <<compat[j][1], compat[j][2]>>
      BY <3>2
    <3>4. compat[j] = compat[k] /\ k \in 1..Len(compat)
      BY <2>2, <3>1, <3>2, <3>3
    <3>5. j = k
      BY <3>4 DEF AuthorityInv, CompatInv
    <3>6. QED
      BY <3>1, <3>2, <3>5
  <2>3. QED
    BY <2>1, <2>2
<1>2. QED
  BY <1>1, AuthorityInvariant, PTL

=============================================================================
