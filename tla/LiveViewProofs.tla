--------------------------- MODULE LiveViewProofs ---------------------------
(***************************************************************************)
(* Theorems about LiveView, for any number of orders, tabs, handlers,      *)
(* workers and reloads, and any faults.                                    *)
(***************************************************************************)
EXTENDS LiveView, SequenceTheorems, FiniteSetTheorems, TLAPS

-----------------------------------------------------------------------------
(* The inductive invariant: everything a page may come to show is a list   *)
(* of its date, and what is behind without an excuse has a reload in       *)
(* flight that will bring it.                                              *)

\* A list that is as new as the n-th commit has what was pending then.
Dated(list, n, pending) ==
  /\ list.at <= n
  /\ list.at = n => list.items = pending \/ list.partial

DatedEvent(e, n, pending) == e.kind = "queue:update" => Dated(e.list, n, pending)

\* A page that is to be brought up to date, and a reload that will do it.
Waits(p) == ~(Behind(p) \subseteq p.lapsed)
Answers(x, p) ==
  \/ x.step = "asked" /\ x.from >= p.fundsDue
  \/ x.step = "answered" /\ x.list.at >= p.due /\ x.funds >= p.fundsDue

Orders == ordered \subseteq Items /\ done \subseteq ordered

Actors ==
  /\ handler \in [Handlers -> Busy \cup {Quiet}]
  /\ worker \in [Workers -> Items \cup {Nothing}]
  /\ \A h \in Handlers, t \in Tabs : handler[h].by = t => page[t].open
  /\ \A w \in Workers : worker[w] # Nothing => worker[w] \in done

Buses ==
  /\ bus \in [Tabs -> [Senders -> Seq(Event)]]
  /\ \A t \in Tabs, s \in Senders :
       /\ bus[t][s] # <<>> => joined[t]
       /\ \A k \in 1 .. Len(bus[t][s]) : DatedEvent(bus[t][s][k], Commits, Pending)

Pages ==
  /\ joined \in [Tabs -> BOOLEAN] /\ page \in [Tabs -> Page]
  /\ \A t \in Tabs :
       /\ joined[t] => page[t].open
       /\ Dated(page[t].list, Commits, Pending)
       /\ page[t].due <= Commits /\ page[t].fundsDue <= Debits

Answering ==
  /\ reloads \in [Tabs -> [Slots -> Reload \cup {NoReload}]]
  /\ \A t \in Tabs, s \in Slots :
       /\ reloads[t][s] # NoReload => page[t].open
       /\ reloads[t][s].step = "answered" => Dated(reloads[t][s].list, Commits, Pending)
  /\ \A t \in Tabs : Waits(page[t]) =>
       \E s \in Slots : Answers(reloads[t][s], page[t])

Inv == Orders /\ Actors /\ Buses /\ Pages /\ Answering

\* Time passes: either no commit, or a later one.
Advance ==
  \/ Commits' = Commits /\ Debits' = Debits /\ Pending' = Pending
  \/ Commits' > Commits /\ Debits' >= Debits

Counted ==
  /\ Commits \in 0 .. MaxCommits /\ Debits \in 0 .. Cardinality(Items)
  /\ Commits \in Nat /\ Debits \in Nat
  /\ Cardinality(Items) \in Nat /\ MaxCommits \in Nat
  /\ IsFiniteSet(ordered) /\ IsFiniteSet(done)
  /\ Commits = 0 => Pending = {}

LEMMA Counts == Orders => Counted
<1> SUFFICES ASSUME Orders PROVE Counted
  OBVIOUS
<1>1. IsFiniteSet(Items) /\ Cardinality(Items) \in Nat
  BY ItemsAssumption, FS_CardinalityType
<1>2. /\ IsFiniteSet(ordered) /\ Cardinality(ordered) \in Nat
      /\ Cardinality(ordered) <= Cardinality(Items)
  BY <1>1, FS_Subset, FS_CardinalityType DEF Orders
<1>3. /\ IsFiniteSet(done) /\ Cardinality(done) \in Nat
      /\ Cardinality(done) <= Cardinality(ordered)
  BY <1>2, FS_Subset, FS_CardinalityType DEF Orders
<1>4. Cardinality(ordered) = 0 => ordered = {}
  BY <1>2, FS_EmptySet
<1> QED
  BY <1>1, <1>2, <1>3, <1>4 DEF Counted, Commits, Debits, MaxCommits, Pending

LEMMA CountsNext == Orders' => Counted'
BY Counts, PTL

LEMMA NoCommit ==
  ASSUME UNCHANGED <<ordered, done>>
  PROVE  Commits' = Commits /\ Debits' = Debits /\ Pending' = Pending
BY DEF Commits, Debits, Pending

LEMMA NoCommitAdvances ==
  ASSUME UNCHANGED <<ordered, done>>
  PROVE  Advance
BY NoCommit DEF Advance

LEMMA StaysDated ==
  ASSUME Orders, Orders', Advance, NEW list, list.at \in Nat, Dated(list, Commits, Pending)
  PROVE  Dated(list, Commits', Pending')
<1>1. Commits \in Nat /\ Commits' \in Nat
  BY Counts, CountsNext DEF Counted
<1> QED
  BY <1>1 DEF Advance, Dated

LEMMA EventStaysDated ==
  ASSUME Orders, Orders', Advance, NEW e \in Event, DatedEvent(e, Commits, Pending)
  PROVE  DatedEvent(e, Commits', Pending')
<1>1. e.kind = "queue:update" => e.list.at \in Nat
  BY DEF Event, List
<1> QED
  BY <1>1, StaysDated DEF DatedEvent

-----------------------------------------------------------------------------
(* What each part of a step does to its part of the invariant.             *)

LEMMA EventOf ==
  ASSUME Buses, NEW t \in Tabs, NEW s \in Senders
  PROVE  /\ bus[t][s] \in Seq(Event) /\ Len(bus[t][s]) \in Nat
         /\ \A k \in 1 .. Len(bus[t][s]) : bus[t][s][k] \in Event
BY DEF Buses

\* The events of a queue after the step: those that were there, and dated ones.
LEMMA BusMoves ==
  ASSUME Orders, Orders', Advance, Buses,
         bus' \in [Tabs -> [Senders -> Seq(Event)]],
         \A t \in Tabs, s \in Senders :
           /\ bus'[t][s] # <<>> => joined'[t]
           /\ \A k \in 1 .. Len(bus'[t][s]) :
                \/ DatedEvent(bus'[t][s][k], Commits', Pending')
                \/ \E j \in 1 .. Len(bus[t][s]) : bus'[t][s][k] = bus[t][s][j]
  PROVE  Buses'
<1>1. ASSUME NEW t \in Tabs, NEW s \in Senders, NEW k \in 1 .. Len(bus'[t][s])
      PROVE  DatedEvent(bus'[t][s][k], Commits', Pending')
  <2>1. \/ DatedEvent(bus'[t][s][k], Commits', Pending')
        \/ \E j \in 1 .. Len(bus[t][s]) : bus'[t][s][k] = bus[t][s][j]
    OBVIOUS
  <2>2. ASSUME NEW j \in 1 .. Len(bus[t][s]), bus'[t][s][k] = bus[t][s][j]
        PROVE  DatedEvent(bus'[t][s][k], Commits', Pending')
    <3>1. bus[t][s][j] \in Event /\ DatedEvent(bus[t][s][j], Commits, Pending)
      BY EventOf DEF Buses
    <3> QED
      BY <2>2, <3>1, EventStaysDated
  <2> QED
    BY <2>1, <2>2
<1> QED
  BY <1>1 DEF Buses

LEMMA BusStays ==
  ASSUME Orders, Orders', Advance, Buses, UNCHANGED <<bus, joined>>
  PROVE  Buses'
<1>1. bus' \in [Tabs -> [Senders -> Seq(Event)]]
  BY DEF Buses
<1>2. \A t \in Tabs, s \in Senders : bus'[t][s] # <<>> => joined'[t]
  BY DEF Buses
<1> QED
  BY <1>1, <1>2, BusMoves

LEMMA EmitMoves ==
  ASSUME Orders, Orders', Advance, Buses, NEW sender \in Senders,
         NEW events \in Seq(Event), Emit(sender, events), UNCHANGED joined,
         \A k \in 1 .. Len(events) : DatedEvent(events[k], Commits', Pending')
  PROVE  Buses'
<1>1. \A t \in Tabs, s \in Senders :
        /\ ~joined[t] \/ s # sender => bus'[t][s] = bus[t][s]
        /\ joined[t] /\ s = sender => bus'[t][s] = bus[t][s] \o events
  BY DEF Emit, Buses
<1>2. bus' \in [Tabs -> [Senders -> Seq(Event)]]
  <2>1. \A q \in Seq(Event) : q \o events \in Seq(Event)
    BY ConcatProperties
  <2>2. bus \in [Tabs -> [Senders -> Seq(Event)]]
    BY DEF Buses
  <2>3. ASSUME NEW t \in Tabs
        PROVE  [bus[t] EXCEPT ![sender] = @ \o events] \in [Senders -> Seq(Event)]
    BY <2>1, <2>2
  <2> QED
    BY <2>2, <2>3 DEF Emit
<1>3. ASSUME NEW t \in Tabs, NEW s \in Senders
      PROVE  /\ bus'[t][s] # <<>> => joined'[t]
             /\ \A k \in 1 .. Len(bus'[t][s]) :
                  \/ DatedEvent(bus'[t][s][k], Commits', Pending')
                  \/ \E j \in 1 .. Len(bus[t][s]) : bus'[t][s][k] = bus[t][s][j]
  <2>1. CASE ~joined[t] \/ s # sender
    BY <1>1, <2>1 DEF Buses
  <2>2. CASE joined[t] /\ s = sender
    <3>1. /\ Len(bus'[t][s]) = Len(bus[t][s]) + Len(events)
          /\ Len(bus[t][s]) \in Nat /\ Len(events) \in Nat
          /\ \A k \in 1 .. Len(bus'[t][s]) :
               bus'[t][s][k] = IF k <= Len(bus[t][s]) THEN bus[t][s][k]
                               ELSE events[k - Len(bus[t][s])]
      <4>1. bus'[t][s] = bus[t][s] \o events /\ bus[t][s] \in Seq(Event)
        BY <1>1, <2>2, EventOf
      <4> QED
        BY <4>1, ConcatProperties, LenProperties
    <3>2. ASSUME NEW k \in 1 .. Len(bus'[t][s])
          PROVE  \/ DatedEvent(bus'[t][s][k], Commits', Pending')
                 \/ \E j \in 1 .. Len(bus[t][s]) : bus'[t][s][k] = bus[t][s][j]
      <4>1. CASE k <= Len(bus[t][s])
        <5>1. k \in 1 .. Len(bus[t][s]) /\ bus'[t][s][k] = bus[t][s][k]
          BY <3>1, <4>1
        <5> QED
          BY <5>1
      <4>2. CASE ~(k <= Len(bus[t][s]))
        <5>1. /\ k - Len(bus[t][s]) \in 1 .. Len(events)
              /\ bus'[t][s][k] = events[k - Len(bus[t][s])]
          BY <3>1, <4>2
        <5> QED
          BY <5>1
      <4> QED
        BY <4>1, <4>2
    <3>3. joined'[t]
      BY <2>2
    <3> QED
      BY <3>2, <3>3
  <2> QED
    BY <2>1, <2>2
<1> QED
  BY <1>2, <1>3, BusMoves

LEMMA SilenceMoves ==
  ASSUME Orders, Orders', Advance, Buses, NEW t \in Tabs, Silence(t),
         joined \in [Tabs -> BOOLEAN], joined' = [joined EXCEPT ![t] = FALSE]
  PROVE  Buses'
<1>1. bus' = [bus EXCEPT ![t] = [s \in Senders |-> <<>>]]
  BY DEF Silence
<1>2. bus' \in [Tabs -> [Senders -> Seq(Event)]]
  BY <1>1, EmptySeq DEF Buses
<1>3. ASSUME NEW u \in Tabs, NEW s \in Senders
      PROVE  /\ u = t => bus'[u][s] = <<>>
             /\ u # t => bus'[u][s] = bus[u][s] /\ joined'[u] = joined[u]
  BY <1>1 DEF Buses
<1>4. ASSUME NEW u \in Tabs, NEW s \in Senders
      PROVE  /\ bus'[u][s] # <<>> => joined'[u]
             /\ \A k \in 1 .. Len(bus'[u][s]) :
                  \/ DatedEvent(bus'[u][s][k], Commits', Pending')
                  \/ \E j \in 1 .. Len(bus[u][s]) : bus'[u][s][k] = bus[u][s][j]
  <2>1. CASE u = t
    <3>1. bus'[u][s] = <<>> /\ Len(<<>>) = 0
      BY <1>3, <2>1, EmptySeq
    <3> QED
      BY <3>1
  <2>2. CASE u # t
    BY <1>3, <2>2 DEF Buses
  <2> QED
    BY <2>1, <2>2
<1> QED
  BY <1>2, <1>4, BusMoves

LEMMA ListTypes ==
  ASSUME NEW p \in Page
  PROVE  /\ p.list \in List /\ p.list.at \in Nat /\ p.list.at \in 0 .. MaxCommits
         /\ p.due \in Nat /\ p.fundsDue \in Nat
         /\ p.due \in 0 .. MaxCommits
         /\ p.funds \in 0 .. Cardinality(Items) /\ p.funds \in Nat
         /\ p.fundsDue \in 0 .. Cardinality(Items)
         /\ p.open \in BOOLEAN /\ p.lapsed \in SUBSET Shown
BY DEF Page, List

\* Every page is as it was or shows something dated.
LEMMA PageMoves ==
  ASSUME Orders, Orders', Advance, Pages,
         joined' \in [Tabs -> BOOLEAN], page' \in [Tabs -> Page],
         \A t \in Tabs :
           /\ joined'[t] => page'[t].open
           /\ \/ page'[t] = page[t]
              \/ /\ Dated(page'[t].list, Commits', Pending')
                 /\ page'[t].due <= Commits' /\ page'[t].fundsDue <= Debits'
  PROVE  Pages'
<1>1. ASSUME NEW t \in Tabs, page'[t] = page[t]
      PROVE  /\ Dated(page'[t].list, Commits', Pending')
             /\ page'[t].due <= Commits' /\ page'[t].fundsDue <= Debits'
  <2>1. page[t] \in Page
    BY DEF Pages
  <2>2. Dated(page[t].list, Commits', Pending')
    BY <2>1, ListTypes, StaysDated DEF Pages
  <2>3. page[t].due <= Commits /\ page[t].fundsDue <= Debits
    BY DEF Pages
  <2>4. Commits <= Commits' /\ Debits <= Debits'
    BY Counts, CountsNext DEF Counted, Advance
  <2> QED
    BY <1>1, <2>1, <2>2, <2>3, <2>4, ListTypes, Counts, CountsNext DEF Counted
<1> QED
  BY <1>1 DEF Pages

LEMMA PagesStay ==
  ASSUME Orders, Orders', Advance, Pages, UNCHANGED <<page, joined>>
  PROVE  Pages'
<1>1. /\ joined' \in [Tabs -> BOOLEAN] /\ page' \in [Tabs -> Page]
      /\ \A t \in Tabs : joined'[t] => page'[t].open
  BY DEF Pages
<1> QED
  BY <1>1, PageMoves

LEMMA ReloadTypes ==
  ASSUME NEW x \in Reload, x.step = "answered"
  PROVE  x.list \in List /\ x.list.at \in Nat /\ x.list.at \in 0 .. MaxCommits
         /\ x.funds \in 0 .. Cardinality(Items) /\ x.funds \in Nat
BY DEF Reload, List

LEMMA AnswersStay ==
  ASSUME Orders, Orders', Advance, Answering, UNCHANGED reloads,
         \A t \in Tabs : page'[t] = page[t]
  PROVE  Answering'
<1>1. ASSUME NEW t \in Tabs, NEW s \in Slots, reloads[t][s].step = "answered"
      PROVE  Dated(reloads[t][s].list, Commits', Pending')
  <2>1. reloads[t][s] \in Reload
    BY <1>1 DEF Answering, NoReload
  <2>2. reloads[t][s].list.at \in Nat /\ Dated(reloads[t][s].list, Commits, Pending)
    BY <1>1, <2>1, ReloadTypes DEF Answering
  <2> QED
    BY <2>2, StaysDated
<1> QED
  BY <1>1 DEF Answering

\* One reload moves, of a page that may change with it.
LEMMA ReloadMoves ==
  ASSUME Orders, Orders', Advance, Answering, NEW t \in Tabs, NEW s \in Slots,
         NEW x \in Reload \cup {NoReload}, reloads' = [reloads EXCEPT ![t][s] = x],
         page'[t].open, \A u \in Tabs \ {t} : page'[u] = page[u],
         x.step = "answered" => Dated(x.list, Commits', Pending'),
         Waits(page'[t]) =>
           \E r \in Slots : Answers(IF r = s THEN x ELSE reloads[t][r], page'[t])
  PROVE  Answering'
<1>1. reloads \in [Tabs -> [Slots -> Reload \cup {NoReload}]]
  BY DEF Answering
<1>2. reloads' = [reloads EXCEPT ![t] = [reloads[t] EXCEPT ![s] = x]]
  BY <1>1
<1>3. [reloads[t] EXCEPT ![s] = x] \in [Slots -> Reload \cup {NoReload}]
  BY <1>1
<1>4. reloads' \in [Tabs -> [Slots -> Reload \cup {NoReload}]]
  BY <1>1, <1>2, <1>3
<1>5. \A r \in Slots : reloads'[t][r] = IF r = s THEN x ELSE reloads[t][r]
  BY <1>1, <1>2
<1>6. \A u \in Tabs \ {t} : reloads'[u] = reloads[u]
  BY <1>1, <1>2
<1>7. ASSUME NEW u \in Tabs, NEW r \in Slots, reloads'[u][r].step = "answered"
      PROVE  Dated(reloads'[u][r].list, Commits', Pending')
  <2>1. CASE u = t /\ r = s
    BY <1>5, <1>7, <2>1
  <2>2. CASE u # t \/ r # s
    <3>1. reloads'[u][r] = reloads[u][r]
      BY <1>5, <1>6, <2>2
    <3>2. reloads[u][r] \in Reload
      BY <1>1, <1>7, <3>1 DEF NoReload
    <3>3. reloads[u][r].list.at \in Nat /\ Dated(reloads[u][r].list, Commits, Pending)
      BY <1>7, <3>1, <3>2, ReloadTypes DEF Answering
    <3> QED
      BY <3>1, <3>3, StaysDated
  <2> QED
    BY <2>1, <2>2
<1>8. ASSUME NEW u \in Tabs, NEW r \in Slots, reloads'[u][r] # NoReload
      PROVE  page'[u].open
  BY <1>6, <1>8 DEF Answering
<1>9. ASSUME NEW u \in Tabs, Waits(page'[u])
      PROVE  \E r \in Slots : Answers(reloads'[u][r], page'[u])
  <2>1. CASE u = t
    BY <1>5, <1>9, <2>1
  <2>2. CASE u # t
    BY <1>6, <1>9, <2>2 DEF Answering
  <2> QED
    BY <2>1, <2>2
<1> QED
  BY <1>4, <1>7, <1>8, <1>9 DEF Answering

\* The page, once it calls reload.
LEMMA ExpectsType ==
  ASSUME Orders, NEW p \in Page, NEW given \in BOOLEAN
  PROVE  LET q == IF given THEN Expects(p) ELSE GivesUp(Expects(p))
         IN  /\ q \in Page /\ q.open = p.open /\ q.list = p.list
             /\ q.due = Commits /\ q.fundsDue = Debits
             /\ ~given => ~Waits(q)
<1> DEFINE e == Expects(p)
           g == GivesUp(e)
<1>1. Commits \in 0 .. MaxCommits /\ Debits \in 0 .. Cardinality(Items)
  BY Counts DEF Counted
<1>2. /\ e \in Page /\ e.open = p.open /\ e.list = p.list
      /\ e.due = Commits /\ e.fundsDue = Debits
  BY <1>1 DEF Expects, Page
<1> HIDE DEF e
<1>3. Behind(e) \subseteq Shown
  BY DEF Behind, Shown
<1>4. g = [e EXCEPT !.lapsed = Behind(e)]
  BY DEF GivesUp
<1>5. /\ g \in Page /\ g.open = e.open /\ g.list = e.list /\ g.funds = e.funds
      /\ g.due = e.due /\ g.fundsDue = e.fundsDue /\ g.lapsed = Behind(e)
  BY <1>2, <1>3, <1>4 DEF Page
<1> HIDE DEF g
<1>6. Behind(g) = Behind(e)
  BY <1>5 DEF Behind
<1>7. ~Waits(g)
  BY <1>5, <1>6 DEF Waits
<1> QED
  BY <1>2, <1>5, <1>7 DEF e, g

\* The page at t calls reload; it may have been opened by the same step.
LEMMA AsksMoves ==
  ASSUME Orders, UNCHANGED <<ordered, done>>, Answering, Pages, UNCHANGED joined,
         NEW t \in Tabs, NEW p \in Page, p.open, Dated(p.list, Commits, Pending),
         NEW own \in Items \cup {Nothing}, Asks(t, p, own)
  PROVE  /\ Pages' /\ Answering'
         /\ \A u \in Tabs : page[u].open => page'[u].open
<1> DEFINE q == IF session THEN Expects(p) ELSE GivesUp(Expects(p))
<1>1. /\ Orders' /\ Advance /\ Commits' = Commits /\ Debits' = Debits /\ Pending' = Pending
      /\ Commits \in Nat /\ Debits \in Nat /\ Debits \in 0 .. Cardinality(Items)
  BY NoCommit, NoCommitAdvances, Counts DEF Orders, Counted
<1>2. /\ q \in Page /\ q.open /\ q.list = p.list
      /\ q.due = Commits /\ q.fundsDue = Debits
      /\ ~session => ~Waits(q)
  <2>1. CASE session
    BY <2>1, ExpectsType
  <2>2. CASE ~session
    BY <2>2, ExpectsType
  <2> QED
    BY <2>1, <2>2
<1>3. page' = [page EXCEPT ![t] = q]
  BY DEF Asks
<1> HIDE DEF q
<1>4. /\ page' \in [Tabs -> Page] /\ page'[t] = q
      /\ \A u \in Tabs \ {t} : page'[u] = page[u]
  BY <1>2, <1>3 DEF Pages
<1>5. \A u \in Tabs : page[u].open => page'[u].open
  BY <1>2, <1>4
<1>6. Pages'
  <2>1. joined' \in [Tabs -> BOOLEAN] /\ \A u \in Tabs : joined'[u] => page'[u].open
    BY <1>5 DEF Pages
  <2>2. /\ Dated(q.list, Commits', Pending')
        /\ q.due <= Commits' /\ q.fundsDue <= Debits'
    BY <1>1, <1>2
  <2> QED
    BY <1>1, <1>4, <2>1, <2>2, PageMoves
<1>7. CASE session
  <2>1. PICK s \in Slots : reloads' = [reloads EXCEPT ![t][s] =
                             [step |-> "asked", own |-> own, from |-> Debits]]
    BY <1>7 DEF Asks, Fetch
  <2> DEFINE x == [step |-> "asked", own |-> own, from |-> Debits]
  <2>2. x \in Reload /\ x.step = "asked" /\ x.from = Debits
    BY <1>1 DEF Reload
  <2>3. reloads' = [reloads EXCEPT ![t][s] = x]
    BY <2>1
  <2> HIDE DEF x
  <2>4. Answers(x, page'[t])
    BY <1>1, <1>2, <1>4, <2>2 DEF Answers
  <2>5. page'[t].open
    BY <1>2, <1>4
  <2>6. Answering'
    BY <1>1, <1>4, <2>2, <2>3, <2>4, <2>5, ReloadMoves
  <2> QED
    BY <1>5, <1>6, <2>6
<1>8. CASE ~session
  <2>1. UNCHANGED reloads
    BY <1>8 DEF Asks
  <2>2. ~Waits(page'[t])
    BY <1>2, <1>4, <1>8
  <2>3. ASSUME NEW u \in Tabs, NEW s \in Slots, reloads[u][s].step = "answered"
        PROVE  Dated(reloads[u][s].list, Commits', Pending')
    BY <1>1, <2>3 DEF Answering
  <2>4. Answering'
    BY <1>4, <1>5, <2>1, <2>2, <2>3 DEF Answering
  <2> QED
    BY <1>5, <1>6, <2>4
<1> QED
  BY <1>7, <1>8

-----------------------------------------------------------------------------
(* The actions of handlers and workers.                                    *)

LEMMA OrderStep ==
  ASSUME Inv, NEW h \in Handlers, NEW i \in Items, NEW t \in Tabs \cup {Nothing}, Order(h, i, t)
  PROVE  Inv'
<1>1. /\ i \notin ordered /\ ordered' = ordered \cup {i}
      /\ UNCHANGED <<done, worker, bus, joined, page, reloads>>
      /\ t \in Tabs => page[t].open
  BY DEF Order
<1>2. Orders'
  BY <1>1 DEF Inv, Orders
<1>3. Cardinality(ordered') = Cardinality(ordered) + 1
  BY <1>1, Counts, FS_AddElement DEF Inv, Counted
<1>4. /\ Debits' = Debits + 1 /\ Debits \in Nat /\ Debits' \in 0 .. Cardinality(Items)
      /\ Commits' = Commits + 1 /\ Commits \in Nat
  <2>1. Cardinality(ordered) \in Nat /\ Cardinality(done) \in Nat
    BY Counts, FS_CardinalityType DEF Inv, Counted
  <2> QED
    BY <1>1, <1>2, <1>3, <2>1, Counts, CountsNext DEF Inv, Counted, Debits, Commits
<1>5. Advance
  BY <1>4 DEF Advance
<1> DEFINE x == [busy |-> TRUE, item |-> i, funds |-> Debits + 1, by |-> t]
<1>6. x \in Busy /\ x.by = t
  BY <1>4 DEF Busy
<1>7. handler' = [handler EXCEPT ![h] = x]
  BY DEF Order
<1> HIDE DEF x
<1>8. Actors'
  BY <1>1, <1>6, <1>7 DEF Inv, Actors
<1> QED
  BY <1>1, <1>2, <1>5, <1>8, BusStays, PagesStay, AnswersStay DEF Inv

\* What no commit has changed.
LEMMA OrdersStay ==
  ASSUME Inv, UNCHANGED <<ordered, done>>
  PROVE  /\ Orders /\ Orders' /\ Advance
         /\ Commits' = Commits /\ Debits' = Debits /\ Pending' = Pending
         /\ Commits \in Nat /\ Debits \in Nat
         /\ Commits \in 0 .. MaxCommits /\ Debits \in 0 .. Cardinality(Items)
<1>1. Orders /\ Orders'
  BY DEF Inv, Orders
<1> QED
  BY <1>1, NoCommit, NoCommitAdvances, Counts DEF Counted

LEMMA UpdateFactorStep ==
  ASSUME Inv, NEW h \in Handlers, UpdateFactor(h)
  PROVE  Inv'
<1>1. UNCHANGED <<ordered, done, worker, bus, session, joined, page, reloads>>
  BY DEF UpdateFactor
<1> DEFINE x == [busy |-> TRUE, item |-> Nothing, funds |-> Debits, by |-> Nothing]
<1>2. x \in Busy /\ x.by = Nothing
  BY <1>1, OrdersStay DEF Busy
<1>3. handler' = [handler EXCEPT ![h] = x]
  BY DEF UpdateFactor
<1> HIDE DEF x
<1>4. Actors'
  BY <1>1, <1>2, <1>3, ItemsAssumption DEF Inv, Actors
<1> QED
  BY <1>1, <1>4, OrdersStay, BusStays, PagesStay, AnswersStay DEF Inv

\* A handler that has nothing more to do.
LEMMA HandlerEnds ==
  ASSUME Actors, NEW h \in Handlers, handler' = [handler EXCEPT ![h] = Quiet],
         UNCHANGED <<worker, done>>, \A u \in Tabs : page[u].open => page'[u].open
  PROVE  Actors'
<1>1. Quiet.by = Nothing /\ Nothing \notin Tabs
  BY ItemsAssumption DEF Quiet
<1> QED
  BY <1>1 DEF Actors

LEMMA ActorsStay ==
  ASSUME Actors, UNCHANGED <<handler, worker, done>>,
         \A u \in Tabs : page[u].open => page'[u].open
  PROVE  Actors'
BY DEF Actors

LEMMA HandlerFailsStep ==
  ASSUME Inv, NEW h \in Handlers, HandlerFails(h)
  PROVE  Inv'
<1>1. UNCHANGED <<ordered, done, worker, bus, session, joined, page, reloads>>
  BY DEF HandlerFails
<1>2. Actors'
  BY HandlerEnds DEF Inv, HandlerFails
<1> QED
  BY <1>1, <1>2, OrdersStay, BusStays, PagesStay, AnswersStay DEF Inv

\* The lists that are read are dated.
LEMMA Lists ==
  ASSUME Orders, NEW item
  PROVE  /\ WholeList \in List /\ Dated(WholeList, Commits, Pending)
         /\ ListAfter(item) \in List /\ Dated(ListAfter(item), Commits, Pending)
<1>1. Commits \in 0 .. MaxCommits /\ Commits \in Nat /\ Pending \subseteq Items
  BY Counts DEF Counted, Orders, Pending
<1>2. WholeList \in List /\ Dated(WholeList, Commits, Pending)
  BY <1>1 DEF WholeList, List, Dated
<1>3. CASE item \in Research
  <2>1. ListAfter(item) = [items |-> Pending \cap Research, at |-> Commits,
                           partial |-> Pending \ Research # {}]
    BY <1>3 DEF ListAfter, WholeList
  <2> DEFINE others == Pending \ Research # {}
             list == [items |-> Pending \cap Research, at |-> Commits, partial |-> others]
  <2>2. ~others => Pending \cap Research = Pending
    OBVIOUS
  <2>3. others \in BOOLEAN
    OBVIOUS
  <2> HIDE DEF others
  <2>4. list \in List
    BY <1>1, <2>3 DEF List
  <2>5. Dated(list, Commits, Pending)
    <3>1. list.at = Commits /\ list.items = Pending \cap Research /\ list.partial = others
      OBVIOUS
    <3>2. list.at <= Commits
      BY <1>1, <3>1
    <3>3. list.items = Pending \/ list.partial
      BY <2>2, <3>1, Zenon
    <3> HIDE DEF list
    <3> QED
      BY <3>2, <3>3 DEF Dated
  <2>6. ListAfter(item) = list
    BY <2>1 DEF others
  <2> QED
    BY <1>2, <2>4, <2>5, <2>6
<1>4. CASE item \notin Research
  BY <1>2, <1>4 DEF ListAfter
<1> QED
  BY <1>2, <1>3, <1>4

LEMMA TwoEvents ==
  ASSUME NEW a \in Event, NEW b \in Event
  PROVE  /\ <<a>> \o <<b>> = <<a, b>>
         /\ <<a, b>> \in Seq(Event) /\ Len(<<a, b>>) = 2
         /\ <<a, b>>[1] = a /\ <<a, b>>[2] = b
         /\ <<a>> \in Seq(Event) /\ Len(<<a>>) = 1 /\ <<a>>[1] = a
<1>1. <<a>> \in Seq(Event) /\ Len(<<a>>) = 1 /\ <<a>>[1] = a
  OBVIOUS
<1>2. <<a, b>> \in Seq(Event) /\ Len(<<a, b>>) = 2
  OBVIOUS
<1>3. <<a, b>>[1] = a /\ <<a, b>>[2] = b
  OBVIOUS
<1>4. <<a>> \o <<b>> = <<a, b>>
  <2>1. <<b>> \in Seq(Event) /\ Len(<<b>>) = 1 /\ <<b>>[1] = b
    OBVIOUS
  <2>2. /\ <<a>> \o <<b>> \in Seq(Event) /\ Len(<<a>> \o <<b>>) = 2
        /\ (<<a>> \o <<b>>)[1] = a /\ (<<a>> \o <<b>>)[2] = b
    BY <1>1, <2>1, ConcatProperties
  <2>3. \A k \in 1 .. 2 : k = 1 \/ k = 2
    OBVIOUS
  <2> QED
    BY <1>2, <1>3, <2>2, <2>3, SeqEqual
<1> QED
  BY <1>1, <1>2, <1>3, <1>4

LEMMA AnnounceStep ==
  ASSUME Inv, NEW h \in Handlers, Announce(h)
  PROVE  Inv'
<1> DEFINE x == handler[h]
           first == <<Update(ListAfter(x.item))>>
           second == IF x.item = Nothing THEN <<>> ELSE <<Resources(x.funds)>>
           events == first \o second
<1>1. UNCHANGED <<ordered, done, worker, session, joined>>
  BY DEF Announce
<1>2. x \in Busy
  BY DEF Announce, Inv, Actors, Quiet
<1>3. /\ Update(ListAfter(x.item)) \in Event
      /\ DatedEvent(Update(ListAfter(x.item)), Commits', Pending')
  BY <1>1, OrdersStay, Lists DEF Update, Event, DatedEvent
<1>4. /\ Resources(x.funds) \in Event
      /\ DatedEvent(Resources(x.funds), Commits', Pending')
  BY <1>2 DEF Busy, Resources, Event, DatedEvent
<1>5. /\ events \in Seq(Event)
      /\ \A k \in 1 .. Len(events) : DatedEvent(events[k], Commits', Pending')
  <2>1. first \in Seq(Event) /\ second \in Seq(Event)
    BY <1>3, <1>4
  <2>2. CASE x.item = Nothing
    <3>1. events = <<Update(ListAfter(x.item))>>
      BY <2>1, <2>2, ConcatEmptySeq
    <3>2. events \in Seq(Event) /\ Len(events) = 1 /\ events[1] = Update(ListAfter(x.item))
      BY <1>3, <3>1, TwoEvents
    <3> HIDE DEF events
    <3> QED
      BY <1>3, <3>2
  <2>3. CASE x.item # Nothing
    <3>1. events = <<Update(ListAfter(x.item)), Resources(x.funds)>>
      BY <1>3, <1>4, <2>3, TwoEvents
    <3>2. events \in Seq(Event) /\ Len(events) = 2
      BY <1>3, <1>4, <3>1, TwoEvents
    <3>3. events[1] = Update(ListAfter(x.item)) /\ events[2] = Resources(x.funds)
      BY <1>3, <1>4, <3>1, TwoEvents
    <3> HIDE DEF events
    <3>4. \A k \in 1 .. Len(events) : k = 1 \/ k = 2
      BY <3>2
    <3> QED
      BY <1>3, <1>4, <3>2, <3>3, <3>4
  <2> QED
    BY <2>2, <2>3
<1>6. Emit(h, events)
  BY DEF Announce
<1> HIDE DEF events
<1>7. Buses'
  BY <1>1, <1>5, <1>6, OrdersStay, EmitMoves DEF Inv, Senders
<1>8. /\ Pages' /\ Answering'
      /\ \A u \in Tabs : page[u].open => page'[u].open
  <2>1. CASE x.by \in Tabs
    <3>1. /\ Asks(x.by, page[x.by], x.item) /\ x.item \in Items \cup {Nothing}
          /\ page[x.by].open
      BY <1>2, <2>1 DEF Announce, Busy, Inv, Actors
    <3>2. page[x.by] \in Page /\ Dated(page[x.by].list, Commits, Pending)
      BY <2>1 DEF Inv, Pages
    <3> QED
      BY <1>1, <2>1, <3>1, <3>2, AsksMoves DEF Inv
  <2>2. CASE x.by \notin Tabs
    <3>1. UNCHANGED <<page, reloads>>
      BY <2>2 DEF Announce
    <3> QED
      BY <1>1, <3>1, OrdersStay, PagesStay, AnswersStay DEF Inv
  <2> QED
    BY <2>1, <2>2
<1>9. Actors'
  BY <1>1, <1>8, HandlerEnds DEF Inv, Announce
<1> QED
  BY <1>1, <1>7, <1>8, <1>9, OrdersStay DEF Inv

LEMMA FinishStep ==
  ASSUME Inv, NEW w \in Workers, Finish(w)
  PROVE  Inv'
<1>1. PICK i \in Pending : done' = done \cup {i} /\ worker' = [worker EXCEPT ![w] = i]
  BY DEF Finish
<1>2. UNCHANGED <<ordered, handler, bus, session, joined, page, reloads>>
  BY DEF Finish
<1>3. i \notin done /\ i \in Items
  BY <1>1 DEF Pending, Inv, Orders
<1>4. Orders'
  BY <1>1, <1>2 DEF Inv, Orders, Pending
<1>5. Cardinality(done') = Cardinality(done) + 1
  BY <1>1, <1>3, Counts, FS_AddElement DEF Inv, Counted
<1>6. Debits' = Debits /\ Commits' = Commits + 1 /\ Commits \in Nat /\ Debits \in Nat
  <2>1. Cardinality(ordered) \in Nat /\ Cardinality(done) \in Nat
    BY Counts, FS_CardinalityType DEF Inv, Counted
  <2> QED
    BY <1>2, <1>5, <2>1 DEF Debits, Commits
<1>7. Advance
  BY <1>6 DEF Advance
<1>8. Actors'
  BY <1>1, <1>2, <1>3 DEF Inv, Actors
<1> QED
  BY <1>2, <1>4, <1>7, <1>8, BusStays, PagesStay, AnswersStay DEF Inv

LEMMA AnnounceFinishedStep ==
  ASSUME Inv, NEW w \in Workers, AnnounceFinished(w)
  PROVE  Inv'
<1> DEFINE events == <<Finished, Update(WholeList)>>
<1>1. /\ UNCHANGED <<ordered, done, handler, session, joined, page, reloads>>
      /\ worker' = [worker EXCEPT ![w] = Nothing]
  BY DEF AnnounceFinished
<1>2. /\ Update(WholeList) \in Event
      /\ DatedEvent(Update(WholeList), Commits', Pending')
  BY <1>1, OrdersStay, Lists DEF Update, Event, DatedEvent
<1>3. Finished \in Event /\ DatedEvent(Finished, Commits', Pending')
  BY <1>1, OrdersStay DEF Finished, Event, DatedEvent
<1>4. /\ events \in Seq(Event) /\ Len(events) = 2
      /\ events[1] = Finished /\ events[2] = Update(WholeList)
  BY <1>2, <1>3, TwoEvents
<1>5. Emit(w, events)
  BY DEF AnnounceFinished
<1> HIDE DEF events
<1>6. \A k \in 1 .. Len(events) : k = 1 \/ k = 2
  BY <1>4
<1>7. Buses'
  BY <1>1, <1>2, <1>3, <1>4, <1>5, <1>6, OrdersStay, EmitMoves DEF Inv, Senders
<1>8. Actors'
  BY <1>1 DEF Inv, Actors
<1> QED
  BY <1>1, <1>7, <1>8, OrdersStay, PagesStay, AnswersStay DEF Inv

LEMMA WorkerFailsStep ==
  ASSUME Inv, NEW w \in Workers, WorkerFails(w)
  PROVE  Inv'
<1>1. UNCHANGED <<ordered, done, handler, bus, session, joined, page, reloads>>
  BY DEF WorkerFails
<1>2. Actors'
  BY <1>1 DEF WorkerFails, Inv, Actors
<1>3. Orders'
  BY <1>1 DEF WorkerFails, Inv, Actors, Orders
<1> QED
  BY <1>1, <1>2, <1>3, NoCommitAdvances, BusStays, PagesStay, AnswersStay DEF Inv

-----------------------------------------------------------------------------
(* The actions of pages.                                                   *)

LEMMA ClosedPageDated ==
  ASSUME Orders
  PROVE  /\ Dated(ClosedPage.list, Commits, Pending)
         /\ ClosedPage \in Page /\ [ClosedPage EXCEPT !.open = TRUE] \in Page
<1>1. Commits \in Nat /\ MaxCommits \in Nat /\ Cardinality(Items) \in Nat
      /\ (Commits = 0 => Pending = {})
  BY Counts DEF Counted
<1>2. ClosedPage.list = [items |-> {}, at |-> 0, partial |-> FALSE]
  BY DEF ClosedPage
<1>3. Dated(ClosedPage.list, Commits, Pending)
  BY <1>1, <1>2 DEF Dated
<1>4. [items |-> {}, at |-> 0, partial |-> FALSE] \in List
  BY <1>1 DEF List
<1>5. ClosedPage \in Page
  BY <1>1, <1>4 DEF ClosedPage, Page
<1> QED
  BY <1>3, <1>5 DEF Page

LEMMA OpenStep ==
  ASSUME Inv, NEW t \in Tabs, Open(t)
  PROVE  Inv'
<1> DEFINE p == [ClosedPage EXCEPT !.open = TRUE]
<1>1. UNCHANGED <<backend, bus, session, joined>> /\ Asks(t, p, Nothing)
  BY DEF Open
<1>2. p \in Page /\ p.open = TRUE /\ p.list = ClosedPage.list
  BY ClosedPageDated DEF Inv, ClosedPage
<1> HIDE DEF p
<1>3. Orders' /\ Advance /\ Dated(p.list, Commits, Pending)
  BY <1>1, <1>2, OrdersStay, ClosedPageDated DEF backend, Inv
<1>4. /\ Pages' /\ Answering' /\ \A u \in Tabs : page[u].open => page'[u].open
  BY <1>1, <1>2, <1>3, AsksMoves DEF Inv, backend
<1> QED
  BY <1>1, <1>3, <1>4, BusStays, ActorsStay DEF Inv, backend

LEMMA CloseStep ==
  ASSUME Inv, NEW t \in Tabs, Close(t)
  PROVE  Inv'
<1>1. /\ UNCHANGED <<ordered, done, worker, session>>
      /\ page' = [page EXCEPT ![t] = ClosedPage]
      /\ reloads' = [reloads EXCEPT ![t] = [s \in Slots |-> NoReload]]
      /\ joined' = [joined EXCEPT ![t] = FALSE] /\ Silence(t)
      /\ handler' = [h \in Handlers |-> IF handler[h].by = t
                                        THEN [handler[h] EXCEPT !.by = Nothing]
                                        ELSE handler[h]]
  BY DEF Close
<1>2. ClosedPage.due = 0 /\ ClosedPage.fundsDue = 0 /\ ~Waits(ClosedPage)
  BY DEF ClosedPage, Waits, Behind
<1>3. /\ Orders /\ Orders' /\ Advance /\ Commits' = Commits /\ Pending' = Pending
      /\ Commits' \in Nat /\ Debits' \in Nat
  BY <1>1, OrdersStay
<1>4. /\ ClosedPage \in Page /\ Dated(ClosedPage.list, Commits', Pending')
  BY <1>3, ClosedPageDated
<1>5. /\ page' \in [Tabs -> Page] /\ page'[t] = ClosedPage
      /\ \A u \in Tabs \ {t} : page'[u] = page[u]
  BY <1>1, <1>4 DEF Inv, Pages
<1>6. /\ joined' \in [Tabs -> BOOLEAN] /\ ~joined'[t]
      /\ \A u \in Tabs \ {t} : joined'[u] = joined[u]
  BY <1>1 DEF Inv, Pages
<1>7. Pages'
  <2>1. \A u \in Tabs : joined'[u] => page'[u].open
    BY <1>5, <1>6 DEF Inv, Pages
  <2> QED
    BY <1>2, <1>3, <1>4, <1>5, <1>6, <2>1, PageMoves DEF Inv
<1>8. Buses'
  BY <1>1, <1>3, SilenceMoves DEF Inv, Pages
<1>9. Answering'
  <2>1. /\ reloads' \in [Tabs -> [Slots -> Reload \cup {NoReload}]]
        /\ \A s \in Slots : reloads'[t][s] = NoReload
        /\ \A u \in Tabs \ {t} : reloads'[u] = reloads[u]
    BY <1>1 DEF Inv, Answering
  <2>2. NoReload.step # "answered"
    BY DEF NoReload
  <2> QED
    BY <1>2, <1>3, <1>5, <2>1, <2>2 DEF Inv, Answering
<1>10. Actors'
  <2>1. ASSUME NEW h \in Handlers, handler[h].by = t
        PROVE  [handler[h] EXCEPT !.by = Nothing] \in Busy
    <3>1. handler[h] \in Busy
      BY <2>1, ItemsAssumption DEF Inv, Actors, Quiet
    <3> QED
      BY <3>1 DEF Busy
  <2>2. handler' \in [Handlers -> Busy \cup {Quiet}]
    BY <1>1, <2>1 DEF Inv, Actors
  <2>3. ASSUME NEW h \in Handlers, NEW u \in Tabs, handler'[h].by = u
        PROVE  page'[u].open
    <3>1. CASE handler[h].by = t
      <4>1. handler[h] \in Busy
        BY <3>1, ItemsAssumption DEF Inv, Actors, Quiet
      <4>2. handler'[h].by = Nothing
        BY <1>1, <3>1, <4>1 DEF Busy
      <4> QED
        BY <2>3, <4>2, ItemsAssumption
    <3>2. CASE handler[h].by # t
      <4>1. handler[h].by = u /\ u # t
        BY <1>1, <2>3, <3>2
      <4> QED
        BY <1>5, <4>1 DEF Inv, Actors
    <3> QED
      BY <3>1, <3>2
  <2> QED
    BY <1>1, <2>2, <2>3 DEF Inv, Actors
<1> QED
  BY <1>3, <1>7, <1>8, <1>9, <1>10 DEF Inv

LEMMA JoinStep ==
  ASSUME Inv, NEW t \in Tabs, Join(t)
  PROVE  Inv'
<1>1. /\ joined' = [joined EXCEPT ![t] = TRUE] /\ page[t].open
      /\ UNCHANGED <<backend, bus, session, page, reloads>>
  BY DEF Join
<1>2. Orders /\ Orders' /\ Advance
  BY <1>1, OrdersStay DEF backend
<1>3. joined' \in [Tabs -> BOOLEAN] /\ \A u \in Tabs : joined'[u] => page'[u].open
  BY <1>1 DEF Inv, Pages
<1>4. Pages'
  <2>1. page' \in [Tabs -> Page] /\ page' = page
    BY <1>1 DEF Inv, Pages
  <2> QED
    BY <1>2, <1>3, <2>1, PageMoves DEF Inv
<1>5. Buses'
  <2>1. /\ bus' \in [Tabs -> [Senders -> Seq(Event)]]
        /\ \A u \in Tabs, s \in Senders : bus'[u][s] # <<>> => joined'[u]
    BY <1>1 DEF Inv, Buses, Pages
  <2> QED
    BY <1>1, <1>2, <2>1, BusMoves DEF Inv
<1>6. Actors'
  BY <1>1 DEF Inv, Actors, backend
<1> QED
  BY <1>1, <1>2, <1>4, <1>5, <1>6, AnswersStay DEF Inv

LEMMA DropStep ==
  ASSUME Inv, NEW t \in Tabs, Drop(t)
  PROVE  Inv'
<1>1. /\ joined' = [joined EXCEPT ![t] = FALSE] /\ Silence(t)
      /\ UNCHANGED <<backend, page, reloads>>
  BY DEF Drop
<1>2. Orders /\ Orders' /\ Advance
  BY <1>1, OrdersStay DEF backend
<1>3. joined' \in [Tabs -> BOOLEAN] /\ \A u \in Tabs : joined'[u] => page'[u].open
  BY <1>1 DEF Inv, Pages
<1>4. Pages'
  <2>1. page' \in [Tabs -> Page] /\ page' = page
    BY <1>1 DEF Inv, Pages
  <2> QED
    BY <1>2, <1>3, <2>1, PageMoves DEF Inv
<1>5. Buses'
  BY <1>1, <1>2, SilenceMoves DEF Inv, Pages
<1>6. Actors'
  BY <1>1 DEF Inv, Actors, backend
<1> QED
  BY <1>1, <1>2, <1>4, <1>5, <1>6, AnswersStay DEF Inv

\* What takes the place of a page waits for no more than the page did.
LEMMA ReplacesType ==
  ASSUME NEW p \in Page, NEW q \in Page, q.lapsed = p.lapsed,
         q.due = p.due, q.fundsDue = p.fundsDue
  PROVE  LET r == Replaces(q, p)
         IN  /\ r \in Page /\ r.open = q.open /\ r.list = q.list /\ r.funds = q.funds
             /\ r.due = p.due /\ r.fundsDue = p.fundsDue
             /\ Waits(r) => Waits(p)
<1> DEFINE r == Replaces(q, p)
<1>1. Behind(q) \subseteq Shown /\ Behind(p) \subseteq Shown
  BY DEF Behind, Shown
<1>2. r = [q EXCEPT !.lapsed = Behind(q) \cap (q.lapsed \cup (Shown \ Behind(p)))]
  BY DEF Replaces, Page
<1>3. Behind(q) \cap (q.lapsed \cup (Shown \ Behind(p))) \in SUBSET Shown
  BY <1>1
<1>4. /\ r \in Page /\ r.open = q.open /\ r.list = q.list /\ r.funds = q.funds
      /\ r.due = q.due /\ r.fundsDue = q.fundsDue
      /\ r.lapsed = Behind(q) \cap (q.lapsed \cup (Shown \ Behind(p)))
  BY <1>2, <1>3 DEF Page
<1> HIDE DEF r
<1>5. Behind(r) = Behind(q)
  BY <1>4 DEF Behind
<1>6. ASSUME Waits(r)
      PROVE  Waits(p)
  <2>1. PICK b \in Behind(q) : b \notin r.lapsed
    BY <1>5, <1>6 DEF Waits
  <2>2. b \in Behind(p) /\ b \notin p.lapsed
    BY <1>1, <1>4, <2>1
  <2> QED
    BY <2>2 DEF Waits
<1> QED
  BY <1>4, <1>6 DEF r

LEMMA ShowType ==
  ASSUME NEW p \in Page, NEW list \in List
  PROVE  /\ Show(p, list) \in Page /\ Show(p, list).open = p.open
         /\ Show(p, list).list = list /\ Show(p, list).funds = p.funds
         /\ Show(p, list).due = p.due /\ Show(p, list).fundsDue = p.fundsDue
         /\ Waits(Show(p, list)) => Waits(p)
<1> DEFINE q == [p EXCEPT !.list = list]
<1>1. /\ q \in Page /\ q.lapsed = p.lapsed /\ q.due = p.due /\ q.fundsDue = p.fundsDue
      /\ q.open = p.open /\ q.list = list /\ q.funds = p.funds
  BY DEF Page
<1>2. Show(p, list) = Replaces(q, p)
  BY DEF Show
<1> HIDE DEF q
<1> QED
  BY <1>1, <1>2, ReplacesType

LEMMA ShowFundsType ==
  ASSUME NEW p \in Page, NEW funds \in 0 .. Cardinality(Items)
  PROVE  /\ ShowFunds(p, funds) \in Page /\ ShowFunds(p, funds).open = p.open
         /\ ShowFunds(p, funds).list = p.list /\ ShowFunds(p, funds).funds = funds
         /\ ShowFunds(p, funds).due = p.due /\ ShowFunds(p, funds).fundsDue = p.fundsDue
         /\ Waits(ShowFunds(p, funds)) => Waits(p)
<1> DEFINE q == [p EXCEPT !.funds = funds]
<1>1. /\ q \in Page /\ q.lapsed = p.lapsed /\ q.due = p.due /\ q.fundsDue = p.fundsDue
      /\ q.open = p.open /\ q.list = p.list /\ q.funds = funds
  BY DEF Page
<1>2. ShowFunds(p, funds) = Replaces(q, p)
  BY DEF ShowFunds
<1> HIDE DEF q
<1> QED
  BY <1>1, <1>2, ReplacesType

LEMMA LoadedType ==
  ASSUME NEW p \in Page
  PROVE  LET q == [p EXCEPT !.loaded = TRUE]
         IN  /\ q \in Page /\ q.open = p.open /\ q.list = p.list /\ q.funds = p.funds
             /\ q.due = p.due /\ q.fundsDue = p.fundsDue
             /\ Waits(q) => Waits(p)
<1> DEFINE q == [p EXCEPT !.loaded = TRUE]
<1>1. /\ q \in Page /\ q.open = p.open /\ q.list = p.list /\ q.funds = p.funds
      /\ q.due = p.due /\ q.fundsDue = p.fundsDue /\ q.lapsed = p.lapsed
  BY DEF Page
<1> HIDE DEF q
<1>2. Behind(q) = Behind(p)
  BY <1>1 DEF Behind
<1> QED
  BY <1>1, <1>2 DEF Waits, q

\* The page at t becomes p.
LEMMA OnePage ==
  ASSUME Orders, Orders', Advance, Pages, NEW t \in Tabs, NEW p \in Page,
         page' = [page EXCEPT ![t] = p], UNCHANGED joined, p.open = page[t].open,
         Dated(p.list, Commits', Pending'), p.due <= Commits', p.fundsDue <= Debits'
  PROVE  /\ Pages' /\ page'[t] = p /\ \A u \in Tabs \ {t} : page'[u] = page[u]
         /\ \A u \in Tabs : page'[u].open = page[u].open
<1>1. /\ page' \in [Tabs -> Page] /\ page'[t] = p
      /\ \A u \in Tabs \ {t} : page'[u] = page[u]
  BY DEF Pages
<1>2. \A u \in Tabs : page'[u].open = page[u].open
  BY <1>1
<1>3. joined' \in [Tabs -> BOOLEAN] /\ \A u \in Tabs : joined'[u] => page'[u].open
  BY <1>2 DEF Pages
<1> QED
  BY <1>1, <1>2, <1>3, PageMoves

\* A page that waits for no more than before waits for no other reload.
LEMMA AnswersPage ==
  ASSUME Orders, Orders', Advance, Answering, UNCHANGED reloads, Pages, Pages',
         NEW t \in Tabs, \A u \in Tabs \ {t} : page'[u] = page[u],
         \A u \in Tabs : page'[u].open = page[u].open,
         page'[t].due = page[t].due, page'[t].fundsDue = page[t].fundsDue,
         Waits(page'[t]) => Waits(page[t])
  PROVE  Answering'
<1>1. ASSUME NEW u \in Tabs, NEW s \in Slots, reloads[u][s].step = "answered"
      PROVE  /\ reloads[u][s] \in Reload
             /\ Dated(reloads[u][s].list, Commits', Pending')
  <2>1. reloads[u][s] \in Reload
    BY <1>1 DEF Answering, NoReload
  <2> QED
    BY <1>1, <2>1, ReloadTypes, StaysDated DEF Answering
<1>2. ASSUME Waits(page'[t])
      PROVE  \E s \in Slots : Answers(reloads[t][s], page'[t])
  <2>1. PICK s \in Slots : Answers(reloads[t][s], page[t])
    BY <1>2 DEF Answering
  <2> QED
    BY <2>1 DEF Answers
<1> QED
  BY <1>1, <1>2 DEF Answering

\* A page that shows something else, and asks for nothing.
LEMMA ShownStep ==
  ASSUME Inv, Orders', Advance, Buses', UNCHANGED <<handler, worker, done, reloads, joined>>,
         NEW t \in Tabs, NEW p \in Page, page' = [page EXCEPT ![t] = p],
         p.open = page[t].open, p.due = page[t].due, p.fundsDue = page[t].fundsDue,
         p.due <= Commits', p.fundsDue <= Debits', Dated(p.list, Commits', Pending'),
         Waits(p) => Waits(page[t])
  PROVE  Inv'
<1>1. /\ Pages' /\ page'[t] = p /\ \A u \in Tabs \ {t} : page'[u] = page[u]
      /\ \A u \in Tabs : page'[u].open = page[u].open
  BY OnePage DEF Inv
<1>2. Answering'
  BY <1>1, AnswersPage DEF Inv
<1> QED
  BY <1>1, <1>2, ActorsStay DEF Inv

LEMMA DeliverBus ==
  ASSUME Inv, NEW t \in Tabs, NEW s \in Senders, bus[t][s] # <<>>,
         bus' = [bus EXCEPT ![t][s] = Tail(@)], UNCHANGED <<backend, joined>>
  PROVE  /\ Buses' /\ Head(bus[t][s]) \in Event
         /\ DatedEvent(Head(bus[t][s]), Commits, Pending)
<1> DEFINE q == bus[t][s]
<1>1. q \in Seq(Event) /\ Len(q) \in Nat \ {0} /\ Head(q) = q[1] /\ 1 \in 1 .. Len(q)
  BY EventOf, EmptySeq, HeadTailProperties DEF Inv
<1>2. /\ Tail(q) \in Seq(Event) /\ Len(Tail(q)) = Len(q) - 1
      /\ \A k \in 1 .. Len(Tail(q)) : Tail(q)[k] = q[k + 1]
  BY <1>1, HeadTailProperties
<1>3. bus \in [Tabs -> [Senders -> Seq(Event)]]
  BY DEF Inv, Buses
<1>4. bus' = [bus EXCEPT ![t] = [bus[t] EXCEPT ![s] = Tail(q)]]
  BY <1>3
<1>5. [bus[t] EXCEPT ![s] = Tail(q)] \in [Senders -> Seq(Event)]
  BY <1>2, <1>3
<1>6. bus' \in [Tabs -> [Senders -> Seq(Event)]]
  BY <1>3, <1>4, <1>5
<1>7. \A u \in Tabs, r \in Senders :
        bus'[u][r] = IF u = t /\ r = s THEN Tail(q) ELSE bus[u][r]
  BY <1>3, <1>4
<1>8. ASSUME NEW u \in Tabs, NEW r \in Senders
      PROVE  /\ bus'[u][r] # <<>> => joined'[u]
             /\ \A k \in 1 .. Len(bus'[u][r]) :
                  \/ DatedEvent(bus'[u][r][k], Commits', Pending')
                  \/ \E j \in 1 .. Len(bus[u][r]) : bus'[u][r][k] = bus[u][r][j]
  <2>1. CASE u = t /\ r = s
    <3>1. ASSUME NEW k \in 1 .. Len(Tail(q))
          PROVE  k + 1 \in 1 .. Len(q) /\ Tail(q)[k] = q[k + 1]
      BY <1>1, <1>2
    <3>2. joined'[u] /\ bus'[u][r] = Tail(q) /\ bus[u][r] = q
      BY <1>7, <2>1 DEF Inv, Buses
    <3> HIDE DEF q
    <3> QED
      BY <3>1, <3>2
  <2>2. CASE u # t \/ r # s
    <3>1. bus'[u][r] = bus[u][r]
      BY <1>7, <2>2
    <3> QED
      BY <3>1 DEF Inv, Buses
  <2> QED
    BY <2>1, <2>2
<1>9. Buses'
  BY <1>6, <1>8, OrdersStay, BusMoves DEF Inv, backend
<1>10. bus[t][s][1] \in Event /\ DatedEvent(bus[t][s][1], Commits, Pending)
  <2>1. 1 \in 1 .. Len(bus[t][s]) /\ Buses
    BY <1>1 DEF Inv
  <2>2. \A k \in 1 .. Len(bus[t][s]) : DatedEvent(bus[t][s][k], Commits, Pending)
    BY DEF Inv, Buses
  <2> QED
    BY <2>1, <2>2, EventOf
<1>11. Head(bus[t][s]) = bus[t][s][1]
  BY <1>1
<1> HIDE DEF q
<1> QED
  BY <1>9, <1>10, <1>11

LEMMA DeliverStep ==
  ASSUME Inv, NEW t \in Tabs, NEW s \in Senders, Deliver(t, s)
  PROVE  Inv'
<1> DEFINE e == Head(bus[t][s])
<1>1. /\ bus[t][s] # <<>> /\ bus' = [bus EXCEPT ![t][s] = Tail(@)]
      /\ OnUpdate(t, e) \/ OnResources(t, e) \/ OnFinished(t, e)
      /\ UNCHANGED <<backend, joined>>
  BY DEF Deliver
<1>2. Buses' /\ e \in Event /\ DatedEvent(e, Commits, Pending)
  BY <1>1, DeliverBus
<1>3. /\ Orders /\ Orders' /\ Advance
      /\ Commits' = Commits /\ Debits' = Debits /\ Pending' = Pending
      /\ Commits \in Nat /\ Debits \in Nat
      /\ UNCHANGED <<handler, worker, done>>
  BY <1>1, OrdersStay DEF backend
<1>4. Cardinality(Items) \in Nat /\ MaxCommits \in Nat
  BY <1>3, Counts DEF Counted
<1>5. /\ page[t] \in Page /\ page[t].open /\ page[t].due \in Nat /\ page[t].fundsDue \in Nat
      /\ page[t].due <= Commits /\ page[t].fundsDue <= Debits
      /\ Dated(page[t].list, Commits, Pending)
  BY <1>1, ListTypes DEF Inv, Buses, Pages
<1> HIDE DEF e
<1>6. CASE OnUpdate(t, e)
  <2> DEFINE p == Show(page[t], e.list)
  <2>1. /\ e.list \in List /\ Dated(e.list, Commits, Pending)
        /\ page' = [page EXCEPT ![t] = p] /\ UNCHANGED reloads
    BY <1>2, <1>6 DEF OnUpdate, DatedEvent, Event
  <2>2. /\ p \in Page /\ p.open = page[t].open /\ p.list = e.list
        /\ p.due = page[t].due /\ p.fundsDue = page[t].fundsDue
        /\ Waits(p) => Waits(page[t])
    BY <1>5, <2>1, ShowType
  <2> HIDE DEF p
  <2>3. p.due <= Commits' /\ p.fundsDue <= Debits' /\ Dated(p.list, Commits', Pending')
    BY <1>3, <1>5, <2>1, <2>2
  <2> QED
    BY <1>1, <1>2, <1>3, <2>1, <2>2, <2>3, ShownStep DEF Inv
<1>7. CASE OnResources(t, e)
  <2> DEFINE p == ShowFunds(page[t], e.funds)
  <2>1. /\ e.funds \in 0 .. Cardinality(Items)
        /\ page' = [page EXCEPT ![t] = p] /\ UNCHANGED reloads
    BY <1>2, <1>7 DEF OnResources, Event
  <2>2. /\ p \in Page /\ p.open = page[t].open /\ p.list = page[t].list
        /\ p.due = page[t].due /\ p.fundsDue = page[t].fundsDue
        /\ Waits(p) => Waits(page[t])
    BY <1>5, <2>1, ShowFundsType
  <2> HIDE DEF p
  <2>3. p.due <= Commits' /\ p.fundsDue <= Debits' /\ Dated(p.list, Commits', Pending')
    BY <1>3, <1>5, <2>2
  <2> QED
    BY <1>1, <1>2, <1>3, <2>1, <2>2, <2>3, ShownStep DEF Inv
<1>8. CASE OnFinished(t, e)
  <2>1. Asks(t, page[t], Nothing)
    BY <1>8 DEF OnFinished
  <2>2. /\ Pages' /\ Answering' /\ \A u \in Tabs : page[u].open => page'[u].open
    BY <1>1, <1>3, <1>5, <2>1, AsksMoves DEF Inv, backend
  <2> QED
    BY <1>2, <1>3, <2>2, ActorsStay DEF Inv
<1> QED
  BY <1>1, <1>6, <1>7, <1>8

LEMMA ReadOverviewStep ==
  ASSUME Inv, NEW t \in Tabs, NEW s \in Slots, ReadOverview(t, s)
  PROVE  Inv'
<1>1. /\ reloads[t][s].step = "asked" /\ UNCHANGED <<backend, bus, session, joined, page>>
  BY DEF ReadOverview
<1>2. PICK funds \in reloads[t][s].from .. Debits :
        reloads' = [reloads EXCEPT ![t][s] =
          [step |-> "answered", funds |-> funds, list |-> WholeList]]
  BY DEF ReadOverview, OverviewQueue
<1>3. /\ Orders /\ Orders' /\ Advance
      /\ Commits' = Commits /\ Debits' = Debits /\ Pending' = Pending
      /\ Commits \in Nat /\ Debits \in Nat /\ Debits \in 0 .. Cardinality(Items)
  BY <1>1, OrdersStay DEF backend
<1>4. reloads[t][s] \in Reload /\ reloads[t][s] # NoReload /\ page[t].open
  BY <1>1 DEF Inv, Answering, NoReload
<1>5. reloads[t][s].from \in Nat
  BY <1>1, <1>4 DEF Reload
<1>6. funds \in Nat /\ reloads[t][s].from <= funds /\ funds \in 0 .. Cardinality(Items)
  <2>1. Cardinality(Items) \in Nat
    BY <1>3, Counts DEF Counted
  <2> QED
    BY <1>2, <1>3, <1>5, <2>1
<1> DEFINE x == [step |-> "answered", funds |-> funds, list |-> WholeList]
<1>7. /\ x \in Reload /\ x.step = "answered" /\ x.funds = funds /\ x.list = WholeList
      /\ x.list.at = Commits /\ Dated(x.list, Commits', Pending')
  <2>1. WholeList \in List /\ Dated(WholeList, Commits, Pending) /\ WholeList.at = Commits
    BY <1>3, Lists DEF WholeList
  <2> QED
    BY <1>3, <1>6, <2>1 DEF Reload
<1>8. reloads' = [reloads EXCEPT ![t][s] = x]
  BY <1>2
<1> HIDE DEF x
<1>9. ASSUME Waits(page'[t])
      PROVE  \E r \in Slots : Answers(IF r = s THEN x ELSE reloads[t][r], page'[t])
  <2>1. PICK r \in Slots : Answers(reloads[t][r], page[t])
    BY <1>1, <1>9 DEF Inv, Answering
  <2>2. CASE r # s
    BY <1>1, <2>1, <2>2
  <2>3. CASE r = s
    <3>1. reloads[t][s].from >= page[t].fundsDue
      BY <1>1, <2>1, <2>3 DEF Answers
    <3>2. /\ page[t].due <= Commits /\ page[t].due \in Nat /\ page[t].fundsDue \in Nat
      BY ListTypes DEF Inv, Pages
    <3>3. x.funds >= page[t].fundsDue /\ x.list.at >= page[t].due
      BY <1>3, <1>5, <1>6, <1>7, <3>1, <3>2
    <3>4. Answers(x, page'[t])
      BY <1>1, <1>7, <3>3 DEF Answers
    <3> QED
      BY <3>4
  <2> QED
    BY <2>2, <2>3
<1>10. Answering'
  BY <1>1, <1>3, <1>4, <1>7, <1>8, <1>9, ReloadMoves DEF Inv
<1> QED
  BY <1>1, <1>3, <1>10, BusStays, PagesStay, ActorsStay DEF Inv, backend

LEMMA ApplyReloadStep ==
  ASSUME Inv, NEW t \in Tabs, NEW s \in Slots, ApplyReload(t, s)
  PROVE  Inv'
<1> DEFINE x == reloads[t][s]
           shown == Show(page[t], x.list)
           funded == ShowFunds(shown, x.funds)
           p == [funded EXCEPT !.loaded = TRUE]
<1>1. /\ x.step = "answered" /\ page' = [page EXCEPT ![t] = p]
      /\ reloads' = [reloads EXCEPT ![t][s] = NoReload]
      /\ UNCHANGED <<backend, bus, session, joined>>
  BY DEF ApplyReload
<1>2. x \in Reload /\ page[t].open /\ page[t] \in Page /\ Dated(x.list, Commits, Pending)
  BY <1>1 DEF Inv, Answering, Pages, NoReload
<1>3. x.list \in List /\ x.list.at \in Nat /\ x.funds \in 0 .. Cardinality(Items) /\ x.funds \in Nat
  BY <1>1, <1>2, ReloadTypes
<1>4. /\ Orders /\ Orders' /\ Advance
      /\ Commits' = Commits /\ Debits' = Debits /\ Pending' = Pending
      /\ Commits \in Nat /\ Debits \in Nat
  BY <1>1, OrdersStay DEF backend
<1>5. /\ page[t].due \in Nat /\ page[t].fundsDue \in Nat
      /\ page[t].due <= Commits /\ page[t].fundsDue <= Debits
  BY ListTypes DEF Inv, Pages
<1>6. /\ shown \in Page /\ shown.open = page[t].open /\ shown.list = x.list
      /\ shown.due = page[t].due /\ shown.fundsDue = page[t].fundsDue
      /\ Waits(shown) => Waits(page[t])
  BY <1>2, <1>3, ShowType
<1> HIDE DEF shown
<1>7. /\ funded \in Page /\ funded.open = page[t].open /\ funded.list = x.list
      /\ funded.funds = x.funds
      /\ funded.due = page[t].due /\ funded.fundsDue = page[t].fundsDue
      /\ Waits(funded) => Waits(page[t])
  BY <1>3, <1>6, ShowFundsType
<1> HIDE DEF funded
<1>8. /\ p \in Page /\ p.open = page[t].open /\ p.list = x.list /\ p.funds = x.funds
      /\ p.due = page[t].due /\ p.fundsDue = page[t].fundsDue
      /\ Waits(p) => Waits(page[t])
  BY <1>7, LoadedType
<1> HIDE DEF p
<1>9. p.due <= Commits' /\ p.fundsDue <= Debits' /\ Dated(p.list, Commits', Pending')
  BY <1>2, <1>4, <1>5, <1>8
<1>10. /\ Pages' /\ page'[t] = p /\ \A u \in Tabs \ {t} : page'[u] = page[u]
       /\ \A u \in Tabs : page'[u].open = page[u].open
  BY <1>1, <1>4, <1>8, <1>9, OnePage DEF Inv
<1>11. ASSUME Waits(page'[t])
       PROVE  \E r \in Slots : Answers(IF r = s THEN NoReload ELSE reloads[t][r], page'[t])
  <2>1. Waits(p) /\ Waits(page[t])
    BY <1>8, <1>10, <1>11
  <2>2. PICK r \in Slots : Answers(reloads[t][r], page[t])
    BY <2>1 DEF Inv, Answering
  <2>3. CASE r = s
    <3>1. x.list.at >= p.due /\ x.funds >= p.fundsDue
      BY <1>1, <1>8, <2>2, <2>3 DEF Answers
    <3>2. ~(p.list.at < p.due) /\ ~(p.funds < p.fundsDue)
      BY <1>3, <1>5, <1>8, <3>1
    <3>3. Behind(p) = {}
      BY <3>2 DEF Behind
    <3> QED
      BY <2>1, <3>3 DEF Waits
  <2>4. CASE r # s
    BY <1>8, <1>10, <2>2, <2>4 DEF Answers
  <2> QED
    BY <2>3, <2>4
<1>12. Answering'
  <2>1. NoReload.step # "answered" /\ page'[t].open
    BY <1>2, <1>10 DEF NoReload
  <2> QED
    BY <1>1, <1>4, <1>10, <1>11, <2>1, ReloadMoves DEF Inv
<1> QED
  BY <1>1, <1>4, <1>10, <1>12, BusStays, ActorsStay DEF Inv, backend

LEMMA GivesUpType ==
  ASSUME NEW p \in Page
  PROVE  LET q == GivesUp(p)
         IN  /\ q \in Page /\ q.open = p.open /\ q.list = p.list
             /\ q.due = p.due /\ q.fundsDue = p.fundsDue /\ ~Waits(q)
<1> DEFINE q == GivesUp(p)
<1>1. Behind(p) \in SUBSET Shown
  BY DEF Behind, Shown
<1>2. /\ q \in Page /\ q.open = p.open /\ q.list = p.list /\ q.funds = p.funds
      /\ q.due = p.due /\ q.fundsDue = p.fundsDue /\ q.lapsed = Behind(p)
  BY <1>1 DEF GivesUp, Page
<1> HIDE DEF q
<1>3. Behind(q) = Behind(p)
  BY <1>2 DEF Behind
<1> QED
  BY <1>2, <1>3 DEF Waits, q

LEMMA ReloadFailsStep ==
  ASSUME Inv, NEW t \in Tabs, NEW s \in Slots, ReloadFails(t, s)
  PROVE  Inv'
<1> DEFINE g == GivesUp(page[t])
           p == [g EXCEPT !.loaded = TRUE]
<1>1. /\ reloads[t][s].step = "answered"
      /\ page' = [page EXCEPT ![t] = p]
      /\ reloads' = [reloads EXCEPT ![t][s] = NoReload]
      /\ UNCHANGED <<backend, bus, session, joined>>
  BY DEF ReloadFails
<1>2. page[t].open /\ page[t] \in Page /\ Dated(page[t].list, Commits, Pending)
  BY <1>1 DEF Inv, Answering, Pages, NoReload
<1>3. /\ Orders /\ Orders' /\ Advance
      /\ Commits' = Commits /\ Debits' = Debits /\ Pending' = Pending
      /\ Commits \in Nat /\ Debits \in Nat
  BY <1>1, OrdersStay DEF backend
<1>4. /\ g \in Page /\ g.open = page[t].open /\ g.list = page[t].list
      /\ g.due = page[t].due /\ g.fundsDue = page[t].fundsDue /\ ~Waits(g)
  BY <1>2, GivesUpType
<1> HIDE DEF g
<1>5. /\ p \in Page /\ p.open = page[t].open /\ p.list = page[t].list
      /\ p.due = page[t].due /\ p.fundsDue = page[t].fundsDue /\ ~Waits(p)
  BY <1>4, LoadedType
<1> HIDE DEF p
<1>6. /\ Pages' /\ page'[t] = p /\ \A u \in Tabs \ {t} : page'[u] = page[u]
      /\ \A u \in Tabs : page'[u].open = page[u].open
  <2>1. p.due <= Commits' /\ p.fundsDue <= Debits' /\ Dated(p.list, Commits', Pending')
    BY <1>2, <1>3, <1>5 DEF Inv, Pages
  <2> QED
    BY <1>1, <1>3, <1>5, <2>1, OnePage DEF Inv
<1>7. Answering'
  <2>1. NoReload.step # "answered" /\ page'[t].open
    BY <1>2, <1>6 DEF NoReload
  <2> QED
    BY <1>1, <1>3, <1>5, <1>6, <2>1, ReloadMoves DEF Inv
<1> QED
  BY <1>1, <1>3, <1>6, <1>7, BusStays, ActorsStay DEF Inv, backend

-----------------------------------------------------------------------------

LEMMA InitInv ==
  ASSUME Init
  PROVE  Inv
<1>1. Orders
  BY DEF Init, Orders
<1>2. Actors
  BY <1>1, ItemsAssumption DEF Init, Actors, Quiet
<1>3. Buses
  <2>1. <<>> \in Seq(Event) /\ Len(<<>>) = 0
    BY EmptySeq
  <2> QED
    BY <2>1 DEF Init, Buses
<1>4. Pages
  <2>1. /\ Dated(ClosedPage.list, Commits, Pending) /\ ClosedPage \in Page
        /\ Commits \in Nat /\ Debits \in Nat
    BY <1>1, ClosedPageDated, Counts DEF Counted
  <2>2. ClosedPage.due = 0 /\ ClosedPage.fundsDue = 0
    BY DEF ClosedPage
  <2> QED
    BY <2>1, <2>2 DEF Init, Pages
<1>5. Answering
  BY DEF Init, Answering, NoReload, ClosedPage, Waits, Behind
<1> QED
  BY <1>1, <1>2, <1>3, <1>4, <1>5 DEF Inv

LEMMA StepInv ==
  ASSUME Inv, [Next]_vars
  PROVE  Inv'
<1>1. ASSUME NEW h \in Handlers,
             \/ \E i \in Items, t \in Tabs \cup {Nothing} : Order(h, i, t)
             \/ UpdateFactor(h) \/ Announce(h) \/ HandlerFails(h)
      PROVE  Inv'
  BY <1>1, OrderStep, UpdateFactorStep, AnnounceStep, HandlerFailsStep
<1>2. ASSUME NEW w \in Workers, Finish(w) \/ AnnounceFinished(w) \/ WorkerFails(w)
      PROVE  Inv'
  BY <1>2, FinishStep, AnnounceFinishedStep, WorkerFailsStep
<1>3. ASSUME NEW t \in Tabs,
             \/ Open(t) \/ Close(t) \/ Join(t) \/ Drop(t) \/ Arrive(t)
             \/ \E s \in Slots : ReloadStep(t, s) \/ ReloadFails(t, s)
      PROVE  Inv'
  BY <1>3, OpenStep, CloseStep, JoinStep, DropStep, DeliverStep, ReadOverviewStep,
     ApplyReloadStep, ReloadFailsStep DEF Arrive, ReloadStep
<1>4. CASE SignOut \/ SignIn
  <2>1. UNCHANGED <<backend, bus, joined, page, reloads>>
    BY <1>4 DEF SignOut, SignIn
  <2> QED
    BY <2>1, OrdersStay, BusStays, PagesStay, AnswersStay, ActorsStay DEF backend, Inv
<1>5. CASE UNCHANGED vars
  BY <1>5, OrdersStay, BusStays, PagesStay, AnswersStay, ActorsStay DEF vars, backend, Inv
<1> QED
  BY <1>1, <1>2, <1>3, <1>4, <1>5 DEF Next

\* There is a session, or there is none.
Signed == session \in BOOLEAN

LEMMA SignedStep ==
  ASSUME Signed, [Next]_vars
  PROVE  Signed'
<1> USE DEF Signed
<1>1. CASE UNCHANGED session
  BY <1>1
<1>2. CASE SignOut \/ SignIn
  BY <1>2 DEF SignOut, SignIn
<1>3. ASSUME NEW h \in Handlers,
             \/ \E i \in Items, t \in Tabs \cup {Nothing} : Order(h, i, t)
             \/ UpdateFactor(h) \/ Announce(h) \/ HandlerFails(h)
      PROVE  UNCHANGED session
  BY <1>3 DEF Order, UpdateFactor, Announce, HandlerFails
<1>4. ASSUME NEW w \in Workers, Finish(w) \/ AnnounceFinished(w) \/ WorkerFails(w)
      PROVE  UNCHANGED session
  BY <1>4 DEF Finish, AnnounceFinished, WorkerFails
<1>5. ASSUME NEW t \in Tabs,
             \/ Open(t) \/ Close(t) \/ Join(t) \/ Drop(t) \/ Arrive(t)
             \/ \E s \in Slots : ReloadStep(t, s) \/ ReloadFails(t, s)
      PROVE  UNCHANGED session
  BY <1>5 DEF Open, Close, Join, Drop, Arrive, Deliver, ReloadStep, ReadOverview,
              ApplyReload, ReloadFails
<1> QED
  BY <1>1, <1>2, <1>3, <1>4, <1>5 DEF Next, vars

LEMMA Sessions == Spec => []Signed
<1>1. Init => Signed
  BY DEF Init, Signed
<1>2. Signed /\ [Next]_vars => Signed'
  BY SignedStep
<1> QED
  BY <1>1, <1>2, PTL DEF Spec

LEMMA Invariance == Spec => []Inv
<1>1. Init => Inv
  BY InitInv
<1>2. Inv /\ [Next]_vars => Inv'
  BY StepInv
<1> QED
  BY <1>1, <1>2, PTL DEF Spec

LEMMA InvTypes ==
  ASSUME Inv, Signed
  PROVE  TypeOK
BY DEF Inv, Signed, Orders, Actors, Buses, Pages, Answering, InFlight, TypeOK

(* Rows, events and pages keep their types, and a page that is left takes  *)
(* its socket and its reloads with it.                                     *)
THEOREM ViewTypes == Spec => []TypeOK
BY Invariance, Sessions, InvTypes, PTL

LEMMA InvRests ==
  ASSUME Inv
  PROVE  RestingView
<1> SUFFICES ASSUME NEW t \in Tabs, Resting(t)
             PROVE  /\ Behind(page[t]) \subseteq page[t].lapsed
                    /\ page[t].list.at = Commits =>
                         page[t].list.items = Pending \/ page[t].list.partial
  BY DEF RestingView
<1>1. \A s \in Slots : reloads[t][s] = NoReload
  BY DEF Resting, InFlight
<1>2. ~ \E s \in Slots : Answers(reloads[t][s], page[t])
  BY <1>1 DEF NoReload, Answers
<1> QED
  BY <1>2 DEF Inv, Answering, Waits, Pages, Dated

(* Once everything is at rest, a page shows a list and a balance at least  *)
(* as new as its last call of reload, unless that returned early, a reload *)
(* failed or something older came in later; and a list as new as the last  *)
(* commit is what is pending, whatever was lost, overtaken or crashed.     *)
THEOREM ViewAtRest == Spec => []RestingView
BY Invariance, InvRests, PTL

-----------------------------------------------------------------------------
(* The reload after an order of the page.                                  *)

\* What a handler answers about, and a page asks about, has been committed.
Owned ==
  /\ \A h \in Handlers : handler[h].item \in ordered \cup {Nothing}
  /\ \A t \in Tabs, s \in Slots : reloads[t][s].step = "asked" =>
       reloads[t][s].own \in ordered \cup {Nothing}

LEMMA OneReload ==
  ASSUME Inv, Owned, NEW t \in Tabs, NEW s \in Slots, NEW x,
         reloads' = [reloads EXCEPT ![t][s] = x],
         x.step = "asked" => x.own \in ordered \cup {Nothing},
         UNCHANGED ordered
  PROVE  \A u \in Tabs, r \in Slots : reloads'[u][r].step = "asked" =>
           reloads'[u][r].own \in ordered' \cup {Nothing}
<1>1. reloads \in [Tabs -> [Slots -> Reload \cup {NoReload}]]
  BY DEF Inv, Answering
<1>2. reloads' = [reloads EXCEPT ![t] = [reloads[t] EXCEPT ![s] = x]]
  BY <1>1
<1>3. \A u \in Tabs, r \in Slots :
        reloads'[u][r] = IF u = t /\ r = s THEN x ELSE reloads[u][r]
  BY <1>1, <1>2
<1> QED
  BY <1>3 DEF Owned

LEMMA AsksOwned ==
  ASSUME Inv, Owned, NEW t \in Tabs, NEW own \in ordered \cup {Nothing}, NEW p, Asks(t, p, own),
         UNCHANGED ordered
  PROVE  \A u \in Tabs, r \in Slots : reloads'[u][r].step = "asked" =>
           reloads'[u][r].own \in ordered' \cup {Nothing}
<1> SUFFICES ASSUME session PROVE \A u \in Tabs, r \in Slots :
             reloads'[u][r].step = "asked" => reloads'[u][r].own \in ordered' \cup {Nothing}
  BY DEF Asks, Owned
<1>1. PICK s \in Slots : reloads' = [reloads EXCEPT ![t][s] =
                           [step |-> "asked", own |-> own, from |-> Debits]]
  BY DEF Asks, Fetch
<1> DEFINE x == [step |-> "asked", own |-> own, from |-> Debits]
<1>2. x.own \in ordered \cup {Nothing} /\ reloads' = [reloads EXCEPT ![t][s] = x]
  BY <1>1
<1> HIDE DEF x
<1> QED
  BY <1>2, OneReload

LEMMA OwnedStep ==
  ASSUME Inv, Owned, [Next]_vars
  PROVE  Owned'
<1>1. \A h \in Handlers : handler[h] \in Busy \cup {Quiet}
  BY DEF Inv, Actors
<1>2. Quiet.item = Nothing /\ NoReload.step # "asked"
  BY DEF Quiet, NoReload
<1>3. ASSUME NEW h \in Handlers, NEW i \in Items, NEW t \in Tabs \cup {Nothing}, Order(h, i, t)
      PROVE  Owned'
  <2>1. /\ ordered' = ordered \cup {i} /\ UNCHANGED reloads
        /\ \A g \in Handlers : g # h => handler'[g] = handler[g]
        /\ handler'[h].item = i
    BY <1>3 DEF Order, Inv, Actors
  <2> QED
    BY <2>1 DEF Owned
<1>4. ASSUME NEW h \in Handlers, UpdateFactor(h) \/ HandlerFails(h)
      PROVE  Owned'
  <2>1. /\ UNCHANGED <<ordered, reloads>> /\ handler'[h].item = Nothing
        /\ \A g \in Handlers : g # h => handler'[g] = handler[g]
    BY <1>2, <1>4 DEF UpdateFactor, HandlerFails, Inv, Actors
  <2> QED
    BY <2>1 DEF Owned
<1>5. ASSUME NEW h \in Handlers, Announce(h)
      PROVE  Owned'
  <2>1. /\ UNCHANGED ordered /\ handler'[h].item = Nothing
        /\ \A g \in Handlers : g # h => handler'[g] = handler[g]
    BY <1>2, <1>5 DEF Announce, Inv, Actors
  <2>2. \/ UNCHANGED reloads
        \/ handler[h].by \in Tabs /\ Asks(handler[h].by, page[handler[h].by], handler[h].item)
    BY <1>5 DEF Announce
  <2>3. handler[h].item \in ordered \cup {Nothing}
    BY DEF Owned
  <2> QED
    BY <2>1, <2>2, <2>3, AsksOwned DEF Owned
<1>6. ASSUME NEW t \in Tabs, Close(t)
      PROVE  Owned'
  <2>1. /\ UNCHANGED ordered
        /\ \A s \in Slots : reloads'[t][s] = NoReload
        /\ \A u \in Tabs \ {t} : reloads'[u] = reloads[u]
    BY <1>6 DEF Close, Inv, Answering
  <2>2. ASSUME NEW h \in Handlers
        PROVE  handler'[h].item = handler[h].item
    BY <1>6 DEF Close
  <2> QED
    BY <1>2, <2>1, <2>2 DEF Owned
<1>7. ASSUME NEW t \in Tabs, Open(t) \/ Arrive(t)
      PROVE  Owned'
  <2>1. UNCHANGED <<ordered, handler>> /\ (UNCHANGED reloads \/ \E p : Asks(t, p, Nothing))
    BY <1>7 DEF Open, Arrive, Deliver, OnUpdate, OnResources, OnFinished, backend
  <2> QED
    BY <2>1, AsksOwned DEF Owned
<1>8. ASSUME NEW t \in Tabs, NEW s \in Slots, ReloadStep(t, s) \/ ReloadFails(t, s)
      PROVE  Owned'
  <2>1. /\ UNCHANGED <<ordered, handler>>
        /\ \E x : x.step # "asked" /\ reloads' = [reloads EXCEPT ![t][s] = x]
    <3>1. CASE ReadOverview(t, s)
      <4>1. PICK funds : reloads' = [reloads EXCEPT ![t][s] =
              [step |-> "answered", funds |-> funds, list |-> OverviewQueue]]
        BY <3>1 DEF ReadOverview
      <4>2. [step |-> "answered", funds |-> funds, list |-> OverviewQueue].step # "asked"
        OBVIOUS
      <4> QED
        BY <3>1, <4>1, <4>2 DEF ReadOverview, backend
    <3>2. CASE ApplyReload(t, s) \/ ReloadFails(t, s)
      BY <1>2, <3>2 DEF ApplyReload, ReloadFails, backend
    <3> QED
      BY <1>8, <3>1, <3>2 DEF ReloadStep
  <2> QED
    BY <2>1, OneReload DEF Owned
<1>9. CASE UNCHANGED <<ordered, handler, reloads>>
  BY <1>9 DEF Owned
<1>10. ASSUME NEW w \in Workers, Finish(w) \/ AnnounceFinished(w) \/ WorkerFails(w)
       PROVE  UNCHANGED <<ordered, handler, reloads>>
  BY <1>10 DEF Finish, AnnounceFinished, WorkerFails
<1>11. ASSUME NEW t \in Tabs, Join(t) \/ Drop(t)
       PROVE  UNCHANGED <<ordered, handler, reloads>>
  BY <1>11 DEF Join, Drop, backend
<1>12. SignOut \/ SignIn \/ UNCHANGED vars => UNCHANGED <<ordered, handler, reloads>>
  BY DEF SignOut, SignIn, vars, backend
<1> QED
  BY <1>3, <1>4, <1>5, <1>6, <1>7, <1>8, <1>9, <1>10, <1>11, <1>12 DEF Next

LEMMA OwnStep ==
  ASSUME Inv, Owned, NEW t \in Tabs, NEW s \in Slots, ReadOverview(t, s),
         reloads[t][s].own # Nothing
  PROVE  reloads[t][s].own \in reloads'[t][s].list.items \cup done
<1>1. reloads[t][s].step = "asked" /\ reloads[t][s].own \in ordered
  BY DEF ReadOverview, Owned
<1>2. PICK funds : reloads' = [reloads EXCEPT ![t][s] =
        [step |-> "answered", funds |-> funds, list |-> WholeList]]
  BY DEF ReadOverview, OverviewQueue
<1> DEFINE x == [step |-> "answered", funds |-> funds, list |-> WholeList]
<1>3. x.list.items = ordered \ done
  BY DEF WholeList, Pending
<1>4. reloads' = [reloads EXCEPT ![t][s] = x]
  BY <1>2
<1> HIDE DEF x
<1>5. reloads'[t][s] = x
  BY <1>4 DEF Inv, Answering
<1> QED
  BY <1>1, <1>3, <1>5

(* The answer to the reload that follows an order of the page has the      *)
(* order, or it is finished, whatever handlers and workers do meanwhile.   *)
THEOREM OwnOrder == Spec => OwnOrderShown
<1>1. Init => Owned
  BY DEF Init, Owned, Quiet, NoReload
<1>2. Inv /\ Owned /\ [Next]_vars => Owned'
  BY OwnedStep
<1>3. Inv /\ Owned /\ [Next]_vars =>
        [\A t \in Tabs, s \in Slots :
           ReadOverview(t, s) /\ reloads[t][s].own # Nothing =>
             reloads[t][s].own \in reloads'[t][s].list.items \cup done]_vars
  BY OwnStep
<1> QED
  BY <1>1, <1>2, <1>3, Invariance, PTL DEF Spec, OwnOrderShown
=============================================================================
