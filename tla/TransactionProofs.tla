------------------------- MODULE TransactionProofs -------------------------
(***************************************************************************)
(* What the backend promises when its transactions overlap.  A commit      *)
(* writes what its transaction computed from a snapshot; the theorems hold *)
(* because a transaction that is still open has been contradicted by       *)
(* nothing committed meanwhile, so what it has read of orders, levels and  *)
(* settings is still so when it commits, or it is never allowed to commit. *)
(***************************************************************************)
EXTENDS Transactions, ClockProofs

(* The inductive invariant: what an open transaction rests on.             *)

\* The order it will place is still legal, and two transactions that order
\* the same thing contradict one another.
OrderData(t) ==
  /\ Legal(t.item) /\ t.item.endAt <= Horizon
  /\ <<t.item.type, t.item.planet>> \in t.reads \cap t.writes

\* The rate it will write is that of the levels and of its settings.
SettingData(t) ==
  /\ t.rate = ProductionRate[level[t.planet]][t.factor]
  /\ <<"level", t.planet>> \in t.reads
  /\ OfPlanet({"setting", "production"}, t.planet) \subseteq t.writes

\* The order it will close is still open and due.
DueData(p, t) ==
  /\ Pending(t.item) /\ items[t.item].endAt <= Now(p)
  /\ ItemRow(t.item) \in t.reads \cap t.writes

\* The rate it will write is that of the level it will write.
BuildingData(p, t) ==
  LET pl == items[t.item].planet
  IN  /\ DueData(p, t) /\ items[t.item].type = "BUILDING"
      /\ t.rate =
           ProductionRate[[level[pl] EXCEPT ![items[t.item].key] = items[t.item].n]]
                         [factor[pl]]
      /\ OfPlanet({"level", "setting"}, pl) \subseteq t.reads
      /\ OfPlanet({"level", "production"}, pl) \subseteq t.writes

DeliveryData(p, t) == DueData(p, t) /\ items[t.item].type # "BUILDING"

TxData ==
  /\ \A h \in Handlers :
       /\ \A t \in OrderTx : tx[h] = t => OrderData(t)
       /\ \A t \in SettingTx : tx[h] = t => SettingData(t)
  /\ \A p \in Procs :
       /\ \A t \in BuildingTx : tx[p] = t => BuildingData(p, t)
       /\ \A t \in DeliveryTx : tx[p] = t => DeliveryData(p, t)

TxInv == TypeInv /\ TxTypeOK /\ TxData

-----------------------------------------------------------------------------
(* What a transaction that stays open may count on.                        *)

\* All that a step changes is among the rows w.
Footprint(w) ==
  /\ \A f \in ItemIds, order \in QueueItem :
       Places(f, order) => <<order.type, order.planet>> \in w
  /\ \A i \in ItemIds : Pending(i) /\ ~Pending(i)' => ItemRow(i) \in w
  /\ \A pl \in Planets :
       /\ level'[pl] # level[pl] => OfPlanet({"level", "production"}, pl) \subseteq w
       /\ factor'[pl] # factor[pl] => OfPlanet({"setting", "production"}, pl) \subseteq w

\* A transaction that the writes w do not contradict.
Survives(t, w) == t.reads \cap w = {} \/ t.writes \cap w = {}

(* The rows of a planet, one by one.                                       *)
LEMMA RowOf ==
  ASSUME NEW kinds, NEW kind \in kinds, NEW pl
  PROVE  <<kind, pl>> \in OfPlanet(kinds, pl)
BY DEF OfPlanet

(* A legal order stays legal until one like it is placed.                  *)
LEMMA LegalStays ==
  ASSUME TypeInv, OrderStep, NEW o \in QueueItem, Legal(o),
         \A f \in ItemIds, order \in QueueItem : Places(f, order) =>
           order.type # o.type \/ order.planet # o.planet
  PROVE  Legal(o)'
<1>1. CASE TouchesNoOrder
  BY <1>1 DEF TouchesNoOrder, Legal, PendingOf, Pending
<1>2. ASSUME NEW f \in ItemIds, NEW order \in QueueItem, Places(f, order)
      PROVE  Legal(o)'
  <2>1. order.type # o.type \/ order.planet # o.planet
    BY <1>2
  <2>2. /\ items'[f] = order /\ \A i \in ItemIds : i # f => items'[i] = items[i]
        /\ ~Pending(f)
    BY <1>2, PlacedItems
  <2>3. \A i \in ItemIds : Pending(i)' <=> (i = f /\ order.status = "PENDING") \/ Pending(i)
    BY <2>2 DEF Pending
  <2>4. PendingOf(o.type, o.planet)' = PendingOf(o.type, o.planet)
    BY <2>1, <2>2, <2>3 DEF PendingOf
  <2>5. \A i \in PendingOf(o.type, o.planet) : items'[i] = items[i]
    BY <2>2 DEF PendingOf
  <2>6. UNCHANGED research
    BY <1>2 DEF Places
  <2> QED
    BY <2>4, <2>5, <2>6 DEF Legal
<1>3. ASSUME NEW p \in Procs, NEW c \in ItemIds, Closes(p, c)
      PROVE  Legal(o)'
  <2>1. /\ Pending(c) /\ items[c] \in QueueItem
        /\ \A i \in ItemIds : Pending(i)' <=> Pending(i) /\ i # c
        /\ \A i \in ItemIds : Created(i) =>
             /\ items'[i].type = items[i].type /\ items'[i].planet = items[i].planet
             /\ items'[i].endAt = items[i].endAt
    BY <1>3, ClosedItems DEF Closes, Finalizable
  <2>2. \A i \in ItemIds : Pending(i) => Created(i)
    BY ItemExists DEF Created, TypeInv, TypeOK
  <2>3. PendingOf(o.type, o.planet)' \subseteq PendingOf(o.type, o.planet)
    BY <2>1, <2>2 DEF PendingOf
  <2>4. \A i \in PendingOf(o.type, o.planet) : items'[i].endAt = items[i].endAt
    BY <2>1, <2>2 DEF PendingOf
  <2>5. o.type = "RESEARCH" => research'[o.planet] = research[o.planet]
    <3>1. CASE DeliveringResearch(c)
      <4>1. c \in PendingOf("RESEARCH", items[c].planet)
        BY <2>1, <3>1 DEF DeliveringResearch, PendingOf
      <4>2. o.type = "RESEARCH" => items[c].planet # o.planet
        BY <4>1 DEF Legal
      <4> QED
        BY <3>1, <4>2 DEF DeliveringResearch, TypeInv, TypeOK, DatabaseTypeOK
    <3>2. CASE DeliveringBuilding(c) \/ DeliveringShips(c)
      BY <3>2 DEF DeliveringBuilding, DeliveringShips
    <3> QED
      BY <1>3, <3>1, <3>2 DEF Closes
  <2>6. o.type # "BUILDING" => PendingOf(o.type, o.planet)' = {}
    BY <2>3 DEF Legal
  <2> QED
    BY <2>3, <2>4, <2>5, <2>6 DEF Legal
<1> QED
  BY <1>1, <1>2, <1>3 DEF OrderStep

(* A pending order that stays pending stays what it is.                    *)
LEMMA PendingStays ==
  ASSUME TypeInv, OrderStep, NEW i \in ItemIds, Pending(i), Pending(i)'
  PROVE  items'[i] = items[i]
<1>1. CASE TouchesNoOrder
  BY <1>1 DEF TouchesNoOrder
<1>2. ASSUME NEW f \in ItemIds, NEW order \in QueueItem, Places(f, order)
      PROVE  items'[i] = items[i]
  BY <1>2, PlacedItems
<1>3. ASSUME NEW p \in Procs, NEW c \in ItemIds, Closes(p, c)
      PROVE  items'[i] = items[i]
  BY <1>3, ClosedItems DEF Closes, Finalizable
<1> QED
  BY <1>1, <1>2, <1>3 DEF OrderStep

(* An order that nobody contradicts will still be legal.                   *)
LEMMA OrderDataStays ==
  ASSUME TypeInv, GameStep, NEW w, Footprint(w),
         NEW t \in OrderTx, OrderData(t), Survives(t, w)
  PROVE  OrderData(t)'
<1>1. t.item \in QueueItem
  BY DEF OrderTx
<1>2. ASSUME NEW f \in ItemIds, NEW order \in QueueItem, Places(f, order),
             order.type = t.item.type, order.planet = t.item.planet
      PROVE  FALSE
  <2>1. <<t.item.type, t.item.planet>> \in w
    BY <1>2 DEF Footprint
  <2> QED
    BY <2>1 DEF OrderData, Survives
<1>3. Legal(t.item)'
  BY <1>1, <1>2, LegalStays DEF OrderData, GameStep
<1> QED
  BY <1>3 DEF OrderData

(* A rate that nobody contradicts is still right.                          *)
LEMMA SettingDataStays ==
  ASSUME NEW w, Footprint(w), NEW t \in SettingTx, SettingData(t), Survives(t, w)
  PROVE  SettingData(t)'
<1>1. t.planet \in Planets
  BY DEF SettingTx
<1>2. level'[t.planet] = level[t.planet]
  <2> SUFFICES ASSUME level'[t.planet] # level[t.planet] PROVE FALSE
    OBVIOUS
  <2>1. <<"level", t.planet>> \in w /\ <<"production", t.planet>> \in w
    BY <1>1, RowOf DEF Footprint
  <2>2. <<"production", t.planet>> \in t.writes
    BY RowOf DEF SettingData
  <2> QED
    BY <2>1, <2>2 DEF SettingData, Survives
<1> QED
  BY <1>2 DEF SettingData

(* An order that nobody else closes is still open and due.                 *)
LEMMA DueDataStays ==
  ASSUME TypeInv, GameStep, NEW w, Footprint(w), NEW p \in Procs,
         NEW t \in WorkerTx, DueData(p, t), Survives(t, w)
  PROVE  DueData(p, t)' /\ items'[t.item] = items[t.item]
<1>1. t.item \in ItemIds
  BY DEF WorkerTx, BuildingTx, DeliveryTx
<1>2. Pending(t.item)'
  <2> SUFFICES ASSUME ~Pending(t.item)' PROVE FALSE
    OBVIOUS
  <2>1. ItemRow(t.item) \in w
    BY <1>1 DEF Footprint, DueData
  <2> QED
    BY <2>1 DEF DueData, Survives
<1>3. items'[t.item] = items[t.item]
  BY <1>1, <1>2, PendingStays DEF DueData, GameStep
<1>4. items[t.item].endAt <= Now(p)'
  <2>1. clock \in Nat /\ clock' \in Nat /\ clock <= clock' /\ Skew[p] \in Nat
    BY ProcessesAssumption DEF GameStep, TypeInv, TypeOK
  <2>2. items[t.item].endAt \in Nat
    BY <1>1, ItemExists, ItemFields DEF DueData, TypeInv, TypeOK
  <2> QED
    BY <2>1, <2>2 DEF DueData, Now
<1> QED
  BY <1>2, <1>3, <1>4 DEF DueData

(* So is one for a building, and its rate is still right.                  *)
LEMMA BuildingDataStays ==
  ASSUME TypeInv, GameStep, NEW w, Footprint(w), NEW p \in Procs,
         NEW t \in BuildingTx, BuildingData(p, t), Survives(t, w)
  PROVE  BuildingData(p, t)'
<1>1. DueData(p, t)' /\ items'[t.item] = items[t.item]
  BY DueDataStays DEF BuildingData, WorkerTx
<1>2. PICK pl \in Planets : pl = items[t.item].planet
  BY ItemExists, ItemFields DEF BuildingData, DueData, BuildingTx, TypeInv, TypeOK
<1>3. /\ <<"level", pl>> \in t.reads /\ <<"setting", pl>> \in t.reads
      /\ <<"production", pl>> \in t.writes
  BY <1>2, RowOf DEF BuildingData
<1>4. level'[pl] = level[pl]
  <2> SUFFICES ASSUME level'[pl] # level[pl] PROVE FALSE
    OBVIOUS
  <2>1. <<"level", pl>> \in w /\ <<"production", pl>> \in w
    BY RowOf DEF Footprint
  <2> QED
    BY <1>3, <2>1 DEF Survives
<1>5. factor'[pl] = factor[pl]
  <2> SUFFICES ASSUME factor'[pl] # factor[pl] PROVE FALSE
    OBVIOUS
  <2>1. <<"setting", pl>> \in w /\ <<"production", pl>> \in w
    BY RowOf DEF Footprint
  <2> QED
    BY <1>3, <2>1 DEF Survives
<1> QED
  BY <1>1, <1>2, <1>4, <1>5 DEF BuildingData

(* A transaction is of one kind.                                           *)
LEMMA TxKinds ==
  ASSUME TxTypeOK
  PROVE  /\ \A h \in Handlers :
              /\ tx[h].op = "order" => tx[h] \in OrderTx
              /\ tx[h].op = "overview" => tx[h] \in OverviewTx
              /\ tx[h].op = "setting" => tx[h] \in SettingTx
              /\ tx[h] # NoTx => req[h].pc = "received"
         /\ \A p \in Procs :
              /\ tx[p].op = "building" => tx[p] \in BuildingTx
              /\ tx[p].op = "delivery" => tx[p] \in DeliveryTx
              /\ tx[p] # NoTx => worker[p].step = "processing"
              /\ tx[p].op \in {"building", "delivery"} =>
                   worker[p].item = tx[p].item /\ tx[p].item \in ItemIds
<1>1. ASSUME NEW h \in Handlers
      PROVE  /\ tx[h].op = "order" => tx[h] \in OrderTx
             /\ tx[h].op = "overview" => tx[h] \in OverviewTx
             /\ tx[h].op = "setting" => tx[h] \in SettingTx
             /\ tx[h] # NoTx => req[h].pc = "received"
  <2>1. tx[h] \in HandlerTx \/ tx[h] = NoTx \/ tx[h] = Doomed
    BY DEF TxTypeOK
  <2> QED
    BY <2>1 DEF TxTypeOK, HandlerTx, OrderTx, OverviewTx, SettingTx, NoTx, Doomed
<1>2. ASSUME NEW p \in Procs
      PROVE  /\ tx[p].op = "building" => tx[p] \in BuildingTx
             /\ tx[p].op = "delivery" => tx[p] \in DeliveryTx
             /\ tx[p] # NoTx => worker[p].step = "processing"
             /\ tx[p].op \in {"building", "delivery"} =>
                  worker[p].item = tx[p].item /\ tx[p].item \in ItemIds
  <2>1. tx[p] \in WorkerTx \/ tx[p] = NoTx \/ tx[p] = Doomed
    BY DEF TxTypeOK
  <2>2. tx[p].op \in {"building", "delivery"} => tx[p] # NoTx /\ tx[p] # Doomed
    BY DEF NoTx, Doomed
  <2> QED
    BY <2>1, <2>2 DEF TxTypeOK, WorkerTx, BuildingTx, DeliveryTx, NoTx, Doomed
<1> QED
  BY <1>1, <1>2

-----------------------------------------------------------------------------
(* Keeping the invariant.                                                  *)

\* What a step does to the transactions that were open before it, when w is
\* what it writes.
Leaves(w) ==
  /\ DOMAIN tx' = Clients
  /\ \A c \in Clients :
       \/ tx'[c] = NoTx
       \/ tx'[c] = Doomed /\ tx[c] # NoTx
       \/ tx'[c] = tx[c] /\ Survives(tx[c], w)
  /\ \A h \in Handlers : tx'[h] # NoTx => req'[h].pc = "received"
  /\ \A p \in Procs : tx'[p] # NoTx => worker'[p] = worker[p]

(* A step keeps the invariant if it leaves open only what it does not      *)
(* contradict.                                                             *)
LEMMA InvStays ==
  ASSUME TxInv, TypeInv', GameStep, NEW w, Footprint(w), Leaves(w)
  PROVE  TxInv'
<1>1. TypeInv /\ TxTypeOK /\ TxData /\ TypeOK'
  BY DEF TxInv, TypeInv
<1>2. TxTypeOK'
  <2>1. ASSUME NEW h \in Handlers, tx'[h] # NoTx
        PROVE  tx'[h] \in HandlerTx \cup {Doomed} /\ req'[h].pc = "received"
    BY <1>1, <2>1 DEF Leaves, Clients, TxTypeOK
  <2>2. ASSUME NEW p \in Procs, tx'[p] # NoTx
        PROVE  /\ tx'[p] \in WorkerTx \cup {Doomed}
               /\ worker'[p].step = "processing"
               /\ tx'[p] # Doomed => worker'[p].item = tx'[p].item
    BY <1>1, <2>2 DEF Leaves, Clients, TxTypeOK
  <2> QED
    BY <1>1, <2>1, <2>2 DEF TxTypeOK, Leaves
<1>3. ASSUME NEW c \in Clients, NEW t \in HandlerTx \cup WorkerTx, tx'[c] = t
      PROVE  tx[c] = t /\ Survives(t, w)
  <2>1. t # NoTx /\ t # Doomed
    BY DEF HandlerTx, WorkerTx, OrderTx, OverviewTx, SettingTx, BuildingTx,
           DeliveryTx, NoTx, Doomed
  <2> QED
    BY <1>3, <2>1 DEF Leaves
<1>4. TxData'
  <2>1. ASSUME NEW h \in Handlers, NEW t \in OrderTx, tx'[h] = t
        PROVE  OrderData(t)'
    BY <1>1, <1>3, <2>1, OrderDataStays DEF TxData, Clients, HandlerTx
  <2>2. ASSUME NEW h \in Handlers, NEW t \in SettingTx, tx'[h] = t
        PROVE  SettingData(t)'
    BY <1>1, <1>3, <2>2, SettingDataStays DEF TxData, Clients, HandlerTx
  <2>3. ASSUME NEW p \in Procs, NEW t \in BuildingTx, tx'[p] = t
        PROVE  BuildingData(p, t)'
    BY <1>1, <1>3, <2>3, BuildingDataStays DEF TxData, Clients, WorkerTx
  <2>4. ASSUME NEW p \in Procs, NEW t \in DeliveryTx, tx'[p] = t
        PROVE  DeliveryData(p, t)'
    <3>1. DeliveryData(p, t) /\ Survives(t, w) /\ t \in WorkerTx
      BY <1>1, <1>3, <2>4 DEF TxData, Clients, WorkerTx
    <3> QED
      BY <1>1, <3>1, DueDataStays DEF DeliveryData
  <2> QED
    BY <2>1, <2>2, <2>3, <2>4 DEF TxData
<1> QED
  BY <1>2, <1>4 DEF TxInv

(* After a commit only those stay open that it does not contradict.        *)
LEMMA CommitLeaves ==
  ASSUME TxTypeOK, NEW c \in Clients, Committed(c), tx[c] # NoTx,
         \A h \in Handlers \ {c} : req'[h] = req[h],
         \A p \in Procs \ {c} : worker'[p] = worker[p]
  PROVE  Leaves(tx[c].writes)
<1>1. ASSUME NEW d \in Clients
      PROVE  \/ tx'[d] = NoTx
             \/ d # c /\ tx'[d] = Doomed /\ tx[d] # NoTx
             \/ d # c /\ tx'[d] = tx[d] /\ Survives(tx[d], tx[c].writes)
  <2>1. CASE d = c
    BY <2>1 DEF Committed
  <2>2. CASE d # c /\ Open(d)
    BY <2>2 DEF Committed, Open, Contradicts, Survives
  <2>3. CASE d # c /\ ~Open(d)
    BY <2>3 DEF Committed, Open
  <2> QED
    BY <2>1, <2>2, <2>3
<1>2. DOMAIN tx' = Clients
  BY DEF Committed
<1>3. \A d \in Clients : tx'[d] # NoTx => d # c /\ tx[d] # NoTx
  BY <1>1
<1>4. \A h \in Handlers : tx'[h] # NoTx => req'[h].pc = "received"
  BY <1>3 DEF TxTypeOK, Clients
<1>5. \A p \in Procs : tx'[p] # NoTx => worker'[p] = worker[p]
  BY <1>3 DEF Clients
<1> QED
  BY <1>1, <1>2, <1>4, <1>5 DEF Leaves

(* A step that changes no order, level or setting contradicts nobody.      *)
LEMMA QuietStep ==
  ASSUME TypeInv, UNCHANGED <<items, level, factor>>
  PROVE  (\A w : Footprint(w)) /\ \A t : Survives(t, {})
<1>1. ASSUME NEW f \in ItemIds, NEW order \in QueueItem, Places(f, order)
      PROVE  FALSE
  <2>1. items'[f] = order /\ items[f] = NoItem /\ order # NoItem
    BY <1>1, PlacedItems, ItemFields DEF Places
  <2> QED
    BY <2>1
<1> QED
  BY <1>1 DEF Footprint, Survives, Pending

(* A transaction that begins rests on what it has just read.               *)
LEMMA BeginStays ==
  ASSUME TxInv, NEW c \in Clients, NEW t, Begins(c, t),
         t \in HandlerTx => c \in Handlers /\ req[c].pc = "received",
         t \in WorkerTx =>
           c \in Procs /\ worker[c].step = "processing" /\ worker[c].item = t.item,
         t \in HandlerTx \/ t \in WorkerTx,
         t \in OrderTx => OrderData(t),
         t \in SettingTx => SettingData(t),
         t \in BuildingTx => BuildingData(c, t),
         t \in DeliveryTx => DeliveryData(c, t)
  PROVE  TxInv'
<1>1. /\ TypeInv /\ TypeOK /\ TxTypeOK /\ TxData
      /\ UNCHANGED vars /\ tx' = [tx EXCEPT ![c] = t]
      /\ Handlers \cap Procs = {}
  BY ClientsAssumption DEF TxInv, TypeInv, Begins
<1>2. TypeInv' /\ TypeOK'
  BY <1>1, NextType DEF TypeInv
<1>3. /\ DOMAIN tx' = Clients
      /\ \A d \in Clients : tx'[d] = IF d = c THEN t ELSE tx[d]
  BY <1>1 DEF TxTypeOK
<1>4. /\ t \in HandlerTx => t \notin WorkerTx /\ t # Doomed
      /\ t \in WorkerTx => t \notin HandlerTx /\ t # Doomed
  BY DEF HandlerTx, WorkerTx, OrderTx, OverviewTx, SettingTx, BuildingTx,
         DeliveryTx, Doomed
<1>5. UNCHANGED <<clock, items, level, factor, research, req, worker>>
  BY <1>1 DEF vars, database
<1>6. TxTypeOK'
  <2>1. ASSUME NEW h \in Handlers, tx'[h] # NoTx
        PROVE  tx'[h] \in HandlerTx \cup {Doomed} /\ req'[h].pc = "received"
    BY <1>1, <1>3, <1>4, <1>5, <2>1 DEF TxTypeOK, Clients
  <2>2. ASSUME NEW p \in Procs, tx'[p] # NoTx
        PROVE  /\ tx'[p] \in WorkerTx \cup {Doomed}
               /\ worker'[p].step = "processing"
               /\ tx'[p] # Doomed => worker'[p].item = tx'[p].item
    BY <1>1, <1>3, <1>4, <1>5, <2>2 DEF TxTypeOK, Clients
  <2> QED
    BY <1>2, <1>3, <2>1, <2>2 DEF TxTypeOK
<1>7. ASSUME NEW h \in Handlers
      PROVE  /\ \A u \in OrderTx : tx'[h] = u => OrderData(u)'
             /\ \A u \in SettingTx : tx'[h] = u => SettingData(u)'
  <2>1. ASSUME NEW u \in OrderTx, tx'[h] = u
        PROVE  OrderData(u)'
    <3>1. OrderData(u)
      BY <1>1, <1>3, <2>1 DEF TxData, Clients
    <3> QED
      BY <1>5, <3>1 DEF OrderData, Legal, PendingOf, Pending
  <2>2. ASSUME NEW u \in SettingTx, tx'[h] = u
        PROVE  SettingData(u)'
    <3>1. SettingData(u)
      BY <1>1, <1>3, <2>2 DEF TxData, Clients
    <3> QED
      BY <1>5, <3>1 DEF SettingData
  <2> QED
    BY <2>1, <2>2
<1>8. ASSUME NEW p \in Procs
      PROVE  /\ \A u \in BuildingTx : tx'[p] = u => BuildingData(p, u)'
             /\ \A u \in DeliveryTx : tx'[p] = u => DeliveryData(p, u)'
  <2>1. ASSUME NEW u \in BuildingTx, tx'[p] = u
        PROVE  BuildingData(p, u)'
    <3>1. BuildingData(p, u)
      BY <1>1, <1>3, <2>1 DEF TxData, Clients
    <3> QED
      BY <1>5, <3>1 DEF BuildingData, DueData, Pending, Now
  <2>2. ASSUME NEW u \in DeliveryTx, tx'[p] = u
        PROVE  DeliveryData(p, u)'
    <3>1. DeliveryData(p, u)
      BY <1>1, <1>3, <2>2 DEF TxData, Clients
    <3> QED
      BY <1>5, <3>1 DEF DeliveryData, DueData, Pending, Now
  <2> QED
    BY <2>1, <2>2
<1>9. TxData'
  BY <1>7, <1>8 DEF TxData
<1> QED
  BY <1>2, <1>6, <1>9 DEF TxInv

-----------------------------------------------------------------------------
(* The rows a transaction reads and writes.                                *)

LEMMA PlanetRowsType ==
  ASSUME NEW kinds \in SUBSET PlanetRows, NEW pl \in Planets
  PROVE  OfPlanet(kinds, pl) \in Rows
BY DEF OfPlanet, Rows

LEMMA ItemRowsType ==
  ASSUME NEW S \in SUBSET ItemIds
  PROVE  {ItemRow(i) : i \in S} \in Rows
BY DEF ItemRow, Rows

LEMMA RowsUnion ==
  ASSUME NEW a \in Rows, NEW b \in Rows
  PROVE  a \cup b \in Rows
BY DEF Rows

LEMMA ProductionRowsType ==
  ASSUME NEW pl \in Planets, NEW now
  PROVE  ProductionReads(pl) \in Rows /\ ProductionWrites(pl, now) \in Rows
<1>1. ProductionReads(pl) \in Rows
  BY PlanetRowsType DEF ProductionReads, PlanetRows
<1>2. OfPlanet({"balance", "production"}, pl) \in Rows
  BY PlanetRowsType DEF PlanetRows
<1>3. {} \in Rows
  BY DEF Rows
<1> QED
  BY <1>1, <1>2, <1>3 DEF ProductionWrites

-----------------------------------------------------------------------------
(* Step by step.                                                           *)

\* What every step gives.
Sound == TypeInv' /\ GameStep /\ RateStep /\ TxInv'

(* Steps that are steps of Astraxis and change no order, level or setting. *)
LEMMA AstraxisSteps ==
  ASSUME TxInv, [Next]_vars, UNCHANGED <<items, level, factor>>, Leaves({})
  PROVE  Sound
<1>1. TypeInv /\ TypeInv' /\ GameStep /\ RateStep
  BY NextType, GameStepOfNext, RateSteps DEF TxInv
<1> QED
  BY <1>1, QuietStep, InvStays DEF Sound

(* A transaction that begins changes nothing else.                         *)
LEMMA BeginIsSound ==
  ASSUME TxInv, TxInv', UNCHANGED vars
  PROVE  Sound
BY NextType, GameStepOfNext, RateSteps DEF TxInv, Sound

(* The kinds of transactions have names.                                   *)
LEMMA KindOf ==
  ASSUME NEW t
  PROVE  /\ t \in OrderTx => t.op = "order"
         /\ t \in OverviewTx => t.op = "overview"
         /\ t \in SettingTx => t.op = "setting"
         /\ t \in BuildingTx => t.op = "building"
         /\ t \in DeliveryTx => t.op = "delivery"
BY DEF OrderTx, OverviewTx, SettingTx, BuildingTx, DeliveryTx

LEMMA BeginOverviewSound ==
  ASSUME TxInv, NEW h \in Handlers, BeginOverview(h)
  PROVE  Sound
<1> DEFINE now == req[h].now
           pl == req[h].body.planet
           t == [op |-> "overview", planet |-> pl,
                 reads |-> ProductionReads(pl), writes |-> ProductionWrites(pl, now),
                 left |-> BalanceAt(pl, now)]
<1>1. TypeInv /\ TypeOK /\ DatabaseTypeOK /\ Handling(h, "getOverview")
  BY DEF TxInv, TypeInv, TypeOK, BeginOverview, MayBegin
<1>2. req[h].pc = "received" /\ now \in Nat /\ pl \in Planets
  BY <1>1, RequestType, BodyType DEF Handling
<1>3. BalanceAt(pl, now) \in Amount
  BY <1>1, <1>2, BalanceType
<1>4. t \in OverviewTx /\ t.op = "overview" /\ Begins(h, t)
  BY <1>2, <1>3, ProductionRowsType DEF OverviewTx, BeginOverview
<1> HIDE DEF t
<1>5. h \in Clients /\ t \in HandlerTx /\ t \notin WorkerTx
      /\ t \notin OrderTx /\ t \notin SettingTx
  BY <1>4, KindOf DEF HandlerTx, WorkerTx, Clients
<1>6. TxInv'
  BY <1>2, <1>4, <1>5, BeginStays DEF WorkerTx
<1> QED
  BY <1>4, <1>6, BeginIsSound DEF Begins

LEMMA BeginSettingSound ==
  ASSUME TxInv, NEW h \in Handlers, BeginSetting(h)
  PROVE  Sound
<1> DEFINE body == req[h].body
           now == req[h].now
           pl == body.planet
           settings == [factor[pl] EXCEPT ![body.key] = body.factor]
           rate == ProductionRate[level[pl]][settings]
           written == ProductionWrites(pl, now) \cup OfPlanet({"setting", "production"}, pl)
           t == [op |-> "setting", planet |-> pl,
                 reads |-> ProductionReads(pl), writes |-> written,
                 left |-> BalanceAt(pl, now), factor |-> settings, rate |-> rate]
<1>1. /\ TypeInv /\ TypeOK /\ DatabaseTypeOK
      /\ Handling(h, "updateProductionFactor") /\ CanUpdateFactor(body)
  BY DEF TxInv, TypeInv, TypeOK, BeginSetting, MayBegin
<1>2. /\ req[h].pc = "received" /\ now \in Nat /\ pl \in Planets
      /\ body.key \in Mines /\ body.factor \in Factors
  BY <1>1, RequestType, BodyType DEF Handling, CanUpdateFactor
<1>3. BalanceAt(pl, now) \in Amount
  BY <1>1, <1>2, BalanceType
<1>4. settings \in FactorMap /\ level[pl] \in LevelMap
  BY <1>1, <1>2 DEF DatabaseTypeOK, FactorMap
<1>5. rate \in Amount
  <2> HIDE DEF settings
  <2> QED
    BY <1>4, FormulasAssumption
<1>6. written \in Rows /\ ProductionReads(pl) \in Rows
  <2>1. OfPlanet({"setting", "production"}, pl) \in Rows
    BY <1>2, PlanetRowsType DEF PlanetRows
  <2> QED
    BY <1>2, <2>1, ProductionRowsType, RowsUnion
<1>7. Begins(h, t)
  BY DEF BeginSetting
<1>8. SettingData(t)
  <2>1. <<"level", pl>> \in ProductionReads(pl)
    BY RowOf DEF ProductionReads
  <2> QED
    BY <2>1 DEF SettingData
<1>9. t \in SettingTx /\ t.op = "setting"
  <2> HIDE DEF settings, rate, written
  <2> QED
    BY <1>2, <1>3, <1>4, <1>5, <1>6 DEF SettingTx
<1> HIDE DEF t
<1>10. h \in Clients /\ t \in HandlerTx /\ t \notin WorkerTx /\ t \notin OrderTx
  BY <1>9, KindOf DEF HandlerTx, WorkerTx, Clients
<1>11. TxInv'
  BY <1>2, <1>7, <1>8, <1>9, <1>10, BeginStays DEF WorkerTx
<1> QED
  BY <1>7, <1>11, BeginIsSound DEF Begins

(* The order a request computes, whatever it asks for.                     *)
LEMMA OrderOfIsLegal ==
  ASSUME TypeInv, NEW h \in Handlers, req[h].pc = "received",
         CanOrder(req[h].body, req[h].now)
  PROVE  LET order == OrderOf(req[h].body, req[h].now)
         IN  /\ order \in QueueItem
             /\ order.type \in {"BUILDING", "SHIP", "RESEARCH"}
             /\ Legal(order) /\ CanPay(order, PriceOf(order), req[h].now)
<1> DEFINE body == req[h].body
           now == req[h].now
<1>1. CASE body.op = "startBuilding"
  <2>1. Handling(h, "startBuilding") /\ CanStartBuilding(body, now)
        /\ OrderOf(body, now) = BuildingOrder(body, now)
    BY <1>1 DEF CanOrder, Handling, OrderOf
  <2> QED
    BY <2>1, BuildingOrderLegal
<1>2. CASE body.op = "startShips"
  <2>1. Handling(h, "startShips") /\ CanStartShips(body, now)
        /\ OrderOf(body, now) = ShipOrder(body, now)
    BY <1>2 DEF CanOrder, Handling, OrderOf
  <2> QED
    BY <2>1, ShipOrderLegal
<1>3. CASE body.op = "startResearch"
  <2>1. Handling(h, "startResearch") /\ CanStartResearch(body, now)
        /\ OrderOf(body, now) = ResearchOrder(body, now)
    BY <1>3 DEF CanOrder, Handling, OrderOf
  <2> QED
    BY <2>1, ResearchOrderLegal
<1> QED
  BY <1>1, <1>2, <1>3 DEF CanOrder

LEMMA BeginOrderSound ==
  ASSUME TxInv, NEW h \in Handlers, BeginOrder(h)
  PROVE  Sound
<1> DEFINE now == req[h].now
           order == OrderOf(req[h].body, now)
           pl == order.planet
           read == OrderReads(order.type, pl)
           written == OrderWrites(order.type, pl, now)
           left == LeftAfter(order, now)
           t == [op |-> "order", reads |-> read, writes |-> written,
                 item |-> order, left |-> left]
<1>1. /\ TypeInv /\ TypeOK /\ DatabaseTypeOK /\ req[h].pc = "received"
      /\ CanOrder(req[h].body, now) /\ Begins(h, t)
  BY DEF TxInv, TypeInv, TypeOK, BeginOrder
<1>2. /\ order \in QueueItem /\ order.type \in {"BUILDING", "SHIP", "RESEARCH"}
      /\ Legal(order) /\ CanPay(order, PriceOf(order), now)
  BY <1>1, OrderOfIsLegal
<1> HIDE DEF order
<1>3. now \in Nat /\ pl \in Planets
  BY <1>1, <1>2, RequestType, ItemFields
<1>4. left \in Amount
  <2>1. BalanceAt(pl, now) \in Amount /\ PriceOf(order) \in Amount
    BY <1>1, <1>2, <1>3, BalanceType, PriceType
  <2>2. \A r \in Resources : BalanceAt(pl, now)[r] >= PriceOf(order)[r]
    BY <1>2 DEF CanPay, HasEnough
  <2> QED
    BY <2>1, <2>2 DEF LeftAfter, Amount
<1>5. read \in Rows
  <2>1. OfPlanet({order.type}, pl) \in Rows /\ OfPlanet({"research"}, pl) \in Rows
        /\ {} \in Rows
    BY <1>2, <1>3, PlanetRowsType DEF PlanetRows, Rows
  <2>2. {ItemRow(i) : i \in PendingOf(order.type, pl)} \in Rows
    BY ItemRowsType DEF PendingOf
  <2>3. ProductionReads(pl) \in Rows
    BY <1>3, ProductionRowsType
  <2> QED
    BY <2>1, <2>2, <2>3, RowsUnion DEF OrderReads
<1>6. written \in Rows
  <2>1. OfPlanet({"balance", order.type}, pl) \in Rows
    BY <1>2, <1>3, PlanetRowsType DEF PlanetRows
  <2> QED
    BY <1>3, <2>1, ProductionRowsType, RowsUnion DEF OrderWrites
<1>7. <<order.type, pl>> \in read \cap written
  <2>1. <<order.type, pl>> \in OfPlanet({order.type}, pl)
        /\ <<order.type, pl>> \in OfPlanet({"balance", order.type}, pl)
    BY RowOf
  <2> QED
    BY <2>1 DEF OrderReads, OrderWrites
<1>8. order.endAt <= Horizon
  BY <1>2 DEF CanPay
<1>9. /\ t.op = "order" /\ t.item = order /\ t.reads = read /\ t.writes = written
      /\ t.left = left
  OBVIOUS
<1>10. t \in OrderTx
  <2> HIDE DEF read, written, left
  <2> QED
    BY <1>2, <1>4, <1>5, <1>6 DEF OrderTx
<1> HIDE DEF t, read, written, left
<1>11. OrderData(t)
  BY <1>2, <1>7, <1>8, <1>9 DEF OrderData
<1>12. h \in Clients /\ t \in HandlerTx /\ t \notin WorkerTx /\ t \notin SettingTx
  BY <1>9, <1>10, KindOf DEF HandlerTx, WorkerTx, Clients
<1>13. TxInv'
  BY <1>1, <1>10, <1>11, <1>12, BeginStays DEF WorkerTx
<1> QED
  BY <1>1, <1>13, BeginIsSound DEF Begins

(* What a commit has to show: types, what it does to orders and rates, and *)
(* that all it changes is among what it has announced to write.            *)
LEMMA CommitSound ==
  ASSUME TxInv, NEW c \in Clients, Committed(c), tx[c] # NoTx,
         \A h \in Handlers \ {c} : req'[h] = req[h],
         \A p \in Procs \ {c} : worker'[p] = worker[p],
         TypeInv', OrderStep, RateStep, UNCHANGED clock, Footprint(tx[c].writes)
  PROVE  Sound
<1>1. TypeInv /\ TxTypeOK /\ clock \in Nat
  BY DEF TxInv, TypeInv, TypeOK
<1>2. GameStep
  BY <1>1 DEF GameStep
<1>3. Leaves(tx[c].writes)
  BY <1>1, CommitLeaves
<1> DEFINE w == tx[c].writes
<1>4. Leaves(w) /\ Footprint(w)
  BY <1>3
<1>5. PICK v : v = w
  OBVIOUS
<1>6. Leaves(v) /\ Footprint(v)
  BY <1>4, <1>5
<1> HIDE DEF w
<1>7. TxInv'
  BY <1>2, <1>6, InvStays
<1> QED
  BY <1>2, <1>7 DEF Sound

(* A request whose transaction commits writes the balance it computed.     *)
LEMMA WriteBalanceType ==
  ASSUME TypeInv, NEW h \in Handlers, req[h].pc = "received",
         NEW pl \in Planets, WriteBalance(h, pl), tx[h].left \in Amount
  PROVE  /\ balance' \in [Planets -> Amount]
         /\ lastCalculatedAt' \in [Planets -> Nat]
<1>1. req[h].now \in Nat
  BY RequestType DEF TypeInv
<1> QED
  BY <1>1 DEF WriteBalance, TypeInv, TypeOK, DatabaseTypeOK

LEMMA CommitOverviewSound ==
  ASSUME TxInv, NEW h \in Handlers, CommitOverview(h)
  PROVE  Sound
<1>1. /\ TypeInv /\ TypeOK /\ DatabaseTypeOK /\ QueueTypeOK
      /\ tx[h] \in OverviewTx /\ tx[h] # NoTx /\ req[h].pc = "received"
  BY TxKinds DEF TxInv, TypeInv, TypeOK, CommitOverview, NoTx
<1>2. tx[h].planet \in Planets /\ tx[h].left \in Amount
  BY <1>1 DEF OverviewTx
<1>3. balance' \in [Planets -> Amount] /\ lastCalculatedAt' \in [Planets -> Nat]
  BY <1>1, <1>2, WriteBalanceType DEF CommitOverview
<1>4. TypeInv'
  BY <1>1, <1>3
     DEF CommitOverview, Reply, Idle, redis, TypeInv, TypeOK, DatabaseTypeOK,
         QueueTypeOK, EndsInTime, WaitHasJob, CommittedHasItem, Created
<1>5. UNCHANGED <<clock, items, level, factor, research, ships, production, worker>>
      /\ req' = [req EXCEPT ![h] = Idle] /\ Committed(h)
  BY DEF CommitOverview, Reply
<1>6. OrderStep /\ RateStep
  BY <1>5 DEF OrderStep, TouchesNoOrder, RateStep
<1>7. Footprint(tx[h].writes)
  BY <1>1, <1>5, QuietStep
<1>8. \A g \in Handlers \ {h} : req'[g] = req[g]
  BY <1>1, <1>5 DEF QueueTypeOK
<1> QED
  BY <1>1, <1>4, <1>5, <1>6, <1>7, <1>8, CommitSound DEF Clients

LEMMA CommitSettingSound ==
  ASSUME TxInv, NEW h \in Handlers, CommitSetting(h)
  PROVE  Sound
<1>1. /\ TypeInv /\ TypeOK /\ DatabaseTypeOK /\ QueueTypeOK
      /\ tx[h] \in SettingTx /\ tx[h] # NoTx /\ req[h].pc = "received"
  BY TxKinds DEF TxInv, TypeInv, TypeOK, CommitSetting, NoTx
<1>2. PICK t \in SettingTx : tx[h] = t /\ SettingData(t)
  BY <1>1 DEF TxInv, TxData
<1>3. /\ t.planet \in Planets /\ t.left \in Amount /\ t.factor \in FactorMap
      /\ t.rate \in Amount
  BY DEF SettingTx
<1>4. /\ WriteBalance(h, t.planet) /\ Committed(h)
      /\ factor' = [factor EXCEPT ![t.planet] = t.factor]
      /\ production' = [production EXCEPT ![t.planet] = t.rate]
      /\ UNCHANGED <<clock, level, research, ships, items, redis, worker>>
      /\ req' = [req EXCEPT ![h] = Idle]
  BY <1>2 DEF CommitSetting, Reply
<1>5. balance' \in [Planets -> Amount] /\ lastCalculatedAt' \in [Planets -> Nat]
  BY <1>1, <1>2, <1>3, <1>4, WriteBalanceType
<1>6. factor' \in [Planets -> FactorMap] /\ production' \in [Planets -> Amount]
  BY <1>1, <1>3, <1>4 DEF DatabaseTypeOK
<1>7. TypeInv'
  BY <1>1, <1>4, <1>5, <1>6
     DEF Idle, redis, TypeInv, TypeOK, DatabaseTypeOK, QueueTypeOK, EndsInTime,
         WaitHasJob, CommittedHasItem, Created
<1>8. OrderStep
  BY <1>4 DEF OrderStep, TouchesNoOrder
<1>9. \A q \in Planets :
        factor'[q] = IF q = t.planet THEN t.factor ELSE factor[q]
  BY <1>1, <1>4 DEF DatabaseTypeOK
<1>10. Recomputes(t.planet)
  <2>1. t.rate = ProductionRate[level'[t.planet]][factor'[t.planet]]
    BY <1>2, <1>3, <1>4, <1>9 DEF SettingData
  <2> QED
    BY <1>4, <1>9, <2>1 DEF Recomputes
<1>11. RateStep
  BY <1>3, <1>10 DEF RateStep
<1>12. Footprint(t.writes)
  <2>1. ASSUME NEW f \in ItemIds, NEW order \in QueueItem, Places(f, order)
        PROVE  FALSE
    BY <1>1, <1>4, <2>1, PlacedItems, ItemFields DEF Places
  <2>2. \A i \in ItemIds : Pending(i)' <=> Pending(i)
    BY <1>4 DEF Pending
  <2>3. \A q \in Planets : factor'[q] # factor[q] => q = t.planet
    BY <1>9
  <2> QED
    BY <1>2, <1>4, <2>1, <2>2, <2>3 DEF Footprint, SettingData
<1>13. Footprint(tx[h].writes)
  BY <1>2, <1>12
<1>14. \A g \in Handlers \ {h} : req'[g] = req[g]
  BY <1>1, <1>4 DEF QueueTypeOK
<1> QED
  BY <1>1, <1>4, <1>7, <1>8, <1>11, <1>13, <1>14, CommitSound DEF Clients

(* An order that commits is placed: it is still legal.                     *)
LEMMA CommitOrderPlaces ==
  ASSUME TxInv, NEW h \in Handlers, CommitOrder(h)
  PROVE  \E f \in ItemIds, t \in OrderTx :
           /\ tx[h] = t /\ OrderData(t) /\ Places(f, t.item)
           /\ t.item \in QueueItem /\ t.left \in Amount
           /\ WriteBalance(h, t.item.planet) /\ Committed(h)
           /\ req' = [req EXCEPT ![h] = [pc |-> "committed", now |-> req[h].now,
                                         item |-> f]]
           /\ UNCHANGED <<clock, production, level, factor, research, ships,
                          redis, worker>>
<1>1. tx[h] \in OrderTx
  BY TxKinds DEF TxInv, CommitOrder
<1>2. PICK t \in OrderTx : tx[h] = t /\ OrderData(t)
  BY <1>1 DEF TxInv, TxData
<1>3. PICK f \in ItemIds : f = FreshId /\ items[f] = NoItem
  BY FreshIdType DEF CommitOrder
<1>4. t.item \in QueueItem /\ t.left \in Amount
  BY DEF OrderTx
<1>5. Places(f, t.item)
  BY <1>2, <1>3 DEF CommitOrder, Places, OrderData
<1> QED
  BY <1>2, <1>3, <1>4, <1>5 DEF CommitOrder

LEMMA CommitOrderSound ==
  ASSUME TxInv, NEW h \in Handlers, CommitOrder(h)
  PROVE  Sound
<1>1. PICK f \in ItemIds, t \in OrderTx :
        /\ tx[h] = t /\ OrderData(t) /\ Places(f, t.item)
        /\ t.item \in QueueItem /\ t.left \in Amount
        /\ WriteBalance(h, t.item.planet) /\ Committed(h)
        /\ req' = [req EXCEPT ![h] = [pc |-> "committed", now |-> req[h].now,
                                      item |-> f]]
        /\ UNCHANGED <<clock, production, level, factor, research, ships,
                       redis, worker>>
  BY CommitOrderPlaces
<1>2. /\ TypeInv /\ TypeOK /\ DatabaseTypeOK /\ QueueTypeOK
      /\ tx[h] # NoTx /\ req[h].pc = "received"
  BY <1>1, TxKinds DEF TxInv, TypeInv, TypeOK, OrderTx, NoTx
<1>3. t.item.planet \in Planets /\ req[h].now \in Nat
  BY <1>1, <1>2, ItemFields, RequestType
<1>4. balance' \in [Planets -> Amount] /\ lastCalculatedAt' \in [Planets -> Nat]
  BY <1>1, <1>2, <1>3, WriteBalanceType
<1>5. /\ items'[f] = t.item
      /\ \A i \in ItemIds : i # f => items'[i] = items[i]
      /\ \A i \in ItemIds : Pending(i) => Pending(i)'
      /\ items' \in [ItemIds -> QueueItem \cup {NoItem}]
  <2>1. items' = [items EXCEPT ![f] = t.item]
    BY <1>1 DEF Places
  <2> QED
    BY <1>1, <1>2, <2>1, PlacedItems DEF DatabaseTypeOK
<1>6. req' \in [Handlers -> InFlight \cup {Idle}]
  <2>1. [pc |-> "committed", now |-> req[h].now, item |-> f] \in InFlight
    BY <1>3 DEF InFlight
  <2> QED
    BY <1>1, <1>2, <2>1 DEF QueueTypeOK
<1>7. TypeOK'
  BY <1>1, <1>2, <1>4, <1>5, <1>6
     DEF redis, TypeOK, DatabaseTypeOK, QueueTypeOK
<1>8. EndsInTime'
  BY <1>1, <1>2, <1>5 DEF OrderData, TypeInv, EndsInTime, Created
<1>9. WaitHasJob'
  BY <1>1, <1>2 DEF redis, TypeInv, WaitHasJob
<1>10. CommittedHasItem'
  <2> SUFFICES ASSUME NEW g \in Handlers, req'[g].pc = "committed"
               PROVE  items'[req'[g].item] # NoItem
    BY DEF CommittedHasItem, Created
  <2>1. CASE g = h
    BY <1>1, <1>2, <1>5, <2>1, ItemFields DEF QueueTypeOK
  <2>2. CASE g # h
    <3>1. req'[g] = req[g] /\ req[g].item \in ItemIds
      BY <1>1, <1>2, <2>2, RequestType DEF QueueTypeOK
    <3>2. items[req[g].item] # NoItem
      BY <1>2, <3>1 DEF TypeInv, CommittedHasItem, Created
    <3> QED
      BY <1>1, <1>5, <3>1, <3>2, ItemFields
  <2> QED
    BY <2>1, <2>2
<1>11. TypeInv'
  BY <1>7, <1>8, <1>9, <1>10 DEF TypeInv
<1>12. OrderStep /\ RateStep
  BY <1>1 DEF OrderStep, RateStep
<1>13. Footprint(t.writes)
  <2>1. ASSUME NEW g \in ItemIds, NEW order \in QueueItem, Places(g, order)
        PROVE  <<order.type, order.planet>> \in t.writes
    <3>1. items[g] = NoItem /\ items'[g] = order /\ order # NoItem
      BY <1>2, <2>1, PlacedItems, ItemFields DEF Places
    <3>2. order = t.item
      BY <1>5, <3>1
    <3> QED
      BY <1>1, <3>2 DEF OrderData
  <2> QED
    BY <1>1, <1>5, <2>1 DEF Footprint
<1>14. Footprint(tx[h].writes)
  BY <1>1, <1>13
<1>15. \A g \in Handlers \ {h} : req'[g] = req[g]
  BY <1>1, <1>2 DEF QueueTypeOK
<1> QED
  BY <1>1, <1>2, <1>11, <1>12, <1>14, <1>15, CommitSound DEF Clients

(* What a worker has read of the order it works on.                        *)
LEMMA MayFinishFacts ==
  ASSUME TypeInv, NEW p \in Procs, NEW types, MayFinish(p, types)
  PROVE  LET i == worker[p].item
         IN  /\ worker[p].step = "processing" /\ i \in ItemIds
             /\ items[i] \in QueueItem /\ items[i].type \in types
             /\ Pending(i) /\ items[i].endAt <= Now(p)
BY WorkerType, ItemExists DEF MayFinish, Finalizable, TypeInv, TypeOK

LEMMA BeginBuildingSound ==
  ASSUME TxInv, NEW p \in Procs, BeginBuilding(p)
  PROVE  Sound
<1> DEFINE i == worker[p].item
           pl == items[i].planet
           levels == [level[pl] EXCEPT ![items[i].key] = items[i].n]
           rate == ProductionRate[levels][factor[pl]]
           read == OfPlanet({"level", "setting"}, pl) \cup {ItemRow(i)}
           written == OfPlanet({"level", "production"}, pl) \cup {ItemRow(i)}
           t == [op |-> "building", item |-> i, reads |-> read, writes |-> written,
                 rate |-> rate]
<1>1. TypeInv /\ DatabaseTypeOK /\ MayFinish(p, {"BUILDING"}) /\ Begins(p, t)
  BY DEF TxInv, TypeInv, TypeOK, BeginBuilding
<1>2. /\ worker[p].step = "processing" /\ i \in ItemIds
      /\ items[i] \in QueueItem /\ items[i].type = "BUILDING"
      /\ Pending(i) /\ items[i].endAt <= Now(p)
  BY <1>1, MayFinishFacts
<1>3. pl \in Planets /\ items[i].key \in Buildings /\ items[i].n \in Levels
  BY <1>2, ItemFields DEF BuildingItem
<1>4. levels \in LevelMap /\ factor[pl] \in FactorMap
  BY <1>1, <1>3 DEF DatabaseTypeOK, LevelMap
<1>5. rate \in Amount
  <2> HIDE DEF levels
  <2> QED
    BY <1>4, FormulasAssumption
<1>6. read \in Rows /\ written \in Rows
  <2>1. /\ OfPlanet({"level", "setting"}, pl) \in Rows
        /\ OfPlanet({"level", "production"}, pl) \in Rows
    BY <1>3, PlanetRowsType DEF PlanetRows
  <2>2. {ItemRow(i)} \in Rows
    BY <1>2 DEF ItemRow, Rows
  <2> QED
    BY <2>1, <2>2, RowsUnion
<1>7. t.op = "building" /\ t.item = i /\ t.reads = read /\ t.writes = written
      /\ t.rate = rate
  OBVIOUS
<1>8. t \in BuildingTx
  <2> HIDE DEF i, rate, read, written
  <2> QED
    BY <1>2, <1>5, <1>6 DEF BuildingTx
<1>9. BuildingData(p, t)
  BY <1>2, <1>7 DEF BuildingData, DueData
<1> HIDE DEF t
<1>10. p \in Clients /\ t \in WorkerTx /\ t \notin HandlerTx /\ t \notin OrderTx
       /\ t \notin SettingTx /\ t \notin DeliveryTx
  BY <1>7, <1>8, KindOf DEF HandlerTx, WorkerTx, Clients
<1>11. TxInv'
  BY <1>1, <1>2, <1>7, <1>8, <1>9, <1>10, BeginStays
<1> QED
  BY <1>1, <1>11, BeginIsSound DEF Begins

LEMMA BeginDeliverySound ==
  ASSUME TxInv, NEW p \in Procs, BeginDelivery(p)
  PROVE  Sound
<1> DEFINE i == worker[p].item
           kind == IF items[i].type = "SHIP" THEN "ships" ELSE "research"
           rows == OfPlanet({kind}, items[i].planet) \cup {ItemRow(i)}
           t == [op |-> "delivery", item |-> i, reads |-> rows, writes |-> rows]
<1>1. TypeInv /\ MayFinish(p, {"SHIP", "RESEARCH"}) /\ Begins(p, t)
  BY DEF TxInv, BeginDelivery
<1>2. /\ worker[p].step = "processing" /\ i \in ItemIds
      /\ items[i] \in QueueItem /\ items[i].type \in {"SHIP", "RESEARCH"}
      /\ Pending(i) /\ items[i].endAt <= Now(p)
  BY <1>1, MayFinishFacts
<1>3. items[i].planet \in Planets /\ kind \in PlanetRows
  BY <1>2, ItemFields DEF PlanetRows
<1>4. rows \in Rows
  <2>1. OfPlanet({kind}, items[i].planet) \in Rows
    BY <1>3, PlanetRowsType
  <2>2. {ItemRow(i)} \in Rows
    BY <1>2 DEF ItemRow, Rows
  <2> QED
    BY <2>1, <2>2, RowsUnion
<1>5. t.op = "delivery" /\ t.item = i /\ t.reads = rows /\ t.writes = rows
  OBVIOUS
<1>6. t \in DeliveryTx
  <2> HIDE DEF i, rows
  <2> QED
    BY <1>2, <1>4 DEF DeliveryTx
<1>7. DeliveryData(p, t)
  BY <1>2, <1>5 DEF DeliveryData, DueData
<1> HIDE DEF t
<1>8. p \in Clients /\ t \in WorkerTx /\ t \notin HandlerTx /\ t \notin OrderTx
      /\ t \notin SettingTx /\ t \notin BuildingTx
  BY <1>5, <1>6, KindOf DEF HandlerTx, WorkerTx, Clients
<1>9. TxInv'
  BY <1>1, <1>2, <1>5, <1>6, <1>7, <1>8, BeginStays
<1> QED
  BY <1>1, <1>9, BeginIsSound DEF Begins

(* Closing an order touches its row, and those of what it delivers.        *)
LEMMA ClosesWithin ==
  ASSUME TypeInv, NEW p \in Procs, NEW i \in ItemIds, Closes(p, i),
         NEW w, ItemRow(i) \in w, UNCHANGED factor,
         items[i].type = "BUILDING" =>
           OfPlanet({"level", "production"}, items[i].planet) \subseteq w
  PROVE  Footprint(w)
<1>1. /\ Pending(i) /\ Finish(i) /\ items[i] \in QueueItem
      /\ \A j \in ItemIds : j # i => items'[j] = items[j]
      /\ \A j \in ItemIds : Pending(j)' <=> Pending(j) /\ j # i
  BY ClosedItems DEF Closes, Finalizable
<1>2. ASSUME NEW f \in ItemIds, NEW order \in QueueItem, Places(f, order)
      PROVE  FALSE
  BY <1>1, <1>2, PlacedItems, ItemFields DEF Places
<1>3. ASSUME NEW q \in Planets, level'[q] # level[q]
      PROVE  items[i].type = "BUILDING" /\ q = items[i].planet
  <2>1. DeliveringBuilding(i)
    BY <1>3 DEF Closes, DeliveringResearch, DeliveringShips
  <2> QED
    BY <1>3, <2>1 DEF DeliveringBuilding, TypeInv, TypeOK, DatabaseTypeOK
<1> QED
  BY <1>1, <1>2, <1>3 DEF Footprint

LEMMA CommitBuildingSound ==
  ASSUME TxInv, NEW p \in Procs, CommitBuilding(p)
  PROVE  Sound
<1>1. /\ TypeInv /\ TypeOK /\ DatabaseTypeOK /\ QueueTypeOK
      /\ tx[p] \in BuildingTx /\ tx[p] # NoTx
      /\ worker[p].step = "processing" /\ worker[p].item = tx[p].item
  BY TxKinds DEF TxInv, TypeInv, TypeOK, CommitBuilding, NoTx
<1>2. PICK t \in BuildingTx : tx[p] = t /\ BuildingData(p, t)
  BY <1>1 DEF TxInv, TxData
<1>3. PICK i \in ItemIds : i = t.item /\ worker[p].item = i
  BY <1>1, <1>2 DEF BuildingTx
<1>4. /\ Pending(i) /\ items[i].endAt <= Now(p) /\ items[i].type = "BUILDING"
      /\ ItemRow(i) \in t.writes /\ t.rate \in Amount
  BY <1>2, <1>3 DEF BuildingData, DueData, BuildingTx
<1>5. /\ items[i] \in QueueItem
      /\ items[i].planet \in Planets /\ items[i].key \in Buildings
      /\ items[i].n \in Levels
  BY <1>1, <1>4, ItemExists, ItemFields DEF BuildingItem
<1>6. PICK pl \in Planets, key \in Buildings, n \in Levels :
        pl = items[i].planet /\ key = items[i].key /\ n = items[i].n
  BY <1>5
<1>7. /\ level' = [level EXCEPT ![pl][key] = n]
      /\ production' = [production EXCEPT ![pl] = t.rate]
      /\ Finish(i) /\ Processed(p) /\ Committed(p)
      /\ UNCHANGED <<clock, balance, lastCalculatedAt, factor, research, ships,
                     redis, req>>
  BY <1>2, <1>3, <1>6 DEF CommitBuilding
<1>8. level' \in [Planets -> LevelMap] /\ production' \in [Planets -> Amount]
  BY <1>1, <1>4, <1>7 DEF LevelMap, DatabaseTypeOK
<1>9. worker' \in [Procs -> Busy \cup {Free}]
  BY <1>1, <1>7, ProcessedType
<1>10. /\ items' \in [ItemIds -> QueueItem \cup {NoItem}]
       /\ EndsInTime' /\ \A j \in ItemIds : Created(j) => Created(j)'
  BY <1>1, <1>4, <1>7, FinishType
<1>11. CommittedHasItem'
  BY <1>1, <1>7, <1>10, RequestType DEF TypeInv, CommittedHasItem, Created
<1>12. TypeInv'
  BY <1>1, <1>7, <1>8, <1>9, <1>10, <1>11
     DEF redis, TypeInv, TypeOK, DatabaseTypeOK, QueueTypeOK, WaitHasJob
<1>13. Closes(p, i)
  BY <1>1, <1>3, <1>4, <1>6, <1>7 DEF Closes, Finalizable, DeliveringBuilding
<1>14. Recomputes(pl)
  <2>1. level'[pl] = [level[pl] EXCEPT ![key] = n]
    BY <1>1, <1>7 DEF DatabaseTypeOK
  <2>2. t.rate = ProductionRate[level'[pl]][factor'[pl]]
    BY <1>2, <1>3, <1>6, <1>7, <2>1 DEF BuildingData
  <2>3. \A q \in Planets : q # pl => level'[q] = level[q]
    BY <1>1, <1>7 DEF DatabaseTypeOK
  <2> QED
    BY <1>7, <2>2, <2>3 DEF Recomputes
<1>15. Footprint(t.writes)
  <2>1. OfPlanet({"level", "production"}, items[i].planet) \subseteq t.writes
    BY <1>2, <1>3 DEF BuildingData
  <2> QED
    BY <1>1, <1>4, <1>7, <1>13, <2>1, ClosesWithin
<1>16. Footprint(tx[p].writes)
  BY <1>2, <1>15
<1>17. \A q \in Procs \ {p} : worker'[q] = worker[q]
  BY <1>1, <1>7 DEF Processed, QueueTypeOK
<1>18. OrderStep /\ RateStep
  BY <1>13, <1>14 DEF OrderStep, RateStep
<1> QED
  BY <1>1, <1>7, <1>12, <1>16, <1>17, <1>18, CommitSound DEF Clients

LEMMA CommitDeliverySound ==
  ASSUME TxInv, NEW p \in Procs, CommitDelivery(p)
  PROVE  Sound
<1>1. /\ TypeInv /\ TypeOK /\ DatabaseTypeOK /\ QueueTypeOK
      /\ tx[p] \in DeliveryTx /\ tx[p] # NoTx
      /\ worker[p].step = "processing" /\ worker[p].item = tx[p].item
  BY TxKinds DEF TxInv, TypeInv, TypeOK, CommitDelivery, NoTx
<1>2. PICK t \in DeliveryTx : tx[p] = t /\ DeliveryData(p, t)
  BY <1>1 DEF TxInv, TxData
<1>3. PICK i \in ItemIds : i = t.item /\ worker[p].item = i
  BY <1>1, <1>2 DEF DeliveryTx
<1>4. /\ Pending(i) /\ items[i].endAt <= Now(p) /\ items[i].type # "BUILDING"
      /\ ItemRow(i) \in t.writes /\ items[i] \in QueueItem
  BY <1>1, <1>2, <1>3, ItemExists DEF DeliveryData, DueData
<1>5. /\ Finish(i) /\ Processed(p) /\ Committed(p)
      /\ DeliveringResearch(i) \/ DeliveringShips(i)
      /\ UNCHANGED <<clock, balance, lastCalculatedAt, production, level, factor,
                     redis, req>>
  BY <1>2, <1>3 DEF CommitDelivery, DeliveringResearch, DeliveringShips
<1>6. research' \in [Planets -> [Techs -> Levels]]
  <2>1. CASE DeliveringResearch(i)
    <3>1. /\ items[i].planet \in Planets /\ items[i].key \in Techs
          /\ items[i].n \in Levels
      BY <1>4, <2>1, ItemFields DEF DeliveringResearch, ResearchItem
    <3> QED
      BY <1>1, <2>1, <3>1 DEF DeliveringResearch, DatabaseTypeOK
  <2>2. CASE DeliveringShips(i)
    BY <1>1, <2>2 DEF DeliveringShips, DatabaseTypeOK
  <2> QED
    BY <1>5, <2>1, <2>2
<1>7. ships' \in [Planets -> [ShipKeys -> Nat]]
  <2>1. CASE DeliveringShips(i)
    <3>1. /\ items[i].planet \in Planets /\ items[i].key \in ShipKeys
          /\ items[i].n \in Nat
      BY <1>4, <2>1, ItemFields, InputsAssumption DEF DeliveringShips, ShipItem, Positive
    <3> QED
      BY <1>1, <2>1, <3>1 DEF DeliveringShips, DatabaseTypeOK
  <2>2. CASE DeliveringResearch(i)
    BY <1>1, <2>2 DEF DeliveringResearch, DatabaseTypeOK
  <2> QED
    BY <1>5, <2>1, <2>2
<1>8. worker' \in [Procs -> Busy \cup {Free}]
  BY <1>1, <1>5, ProcessedType
<1>9. /\ items' \in [ItemIds -> QueueItem \cup {NoItem}]
      /\ EndsInTime' /\ \A j \in ItemIds : Created(j) => Created(j)'
  BY <1>1, <1>4, <1>5, FinishType
<1>10. CommittedHasItem'
  BY <1>1, <1>5, <1>9, RequestType DEF TypeInv, CommittedHasItem, Created
<1>11. TypeInv'
  BY <1>1, <1>5, <1>6, <1>7, <1>8, <1>9, <1>10
     DEF redis, TypeInv, TypeOK, DatabaseTypeOK, QueueTypeOK, WaitHasJob
<1>12. Closes(p, i)
  BY <1>1, <1>3, <1>4, <1>5 DEF Closes, Finalizable
<1>13. Footprint(t.writes)
  BY <1>1, <1>4, <1>5, <1>12, ClosesWithin
<1>14. Footprint(tx[p].writes)
  BY <1>2, <1>13
<1>15. \A q \in Procs \ {p} : worker'[q] = worker[q]
  BY <1>1, <1>5 DEF Processed, QueueTypeOK
<1>16. OrderStep /\ RateStep
  BY <1>5, <1>12 DEF OrderStep, RateStep
<1> QED
  BY <1>1, <1>5, <1>11, <1>14, <1>15, <1>16, CommitSound DEF Clients

(* Steps that neither begin nor commit.                                    *)
LEMMA IdleSound ==
  ASSUME TxInv, Idles, UNCHANGED tx
  PROVE  Sound /\ [Next]_vars
<1>1. TypeInv /\ TxTypeOK /\ QueueTypeOK /\ DOMAIN tx = Clients
  BY DEF TxInv, TypeInv, TypeOK, TxTypeOK
<1>2. /\ [Next]_vars
      /\ UNCHANGED <<items, level, factor>>
  <2>1. CASE Tick
    BY <2>1 DEF Tick, database, Next
  <2>2. ASSUME NEW h \in Handlers, Arrives(h) \/ ScheduleQueueItem(h)
        PROVE  [Next]_vars /\ UNCHANGED <<items, level, factor>>
    BY <2>2 DEF Arrives, Receive, ScheduleQueueItem, database, Next, Handle
  <2>3. ASSUME NEW p \in Procs, Promote(p) \/ Take(p) \/ CompleteJob(p)
        PROVE  [Next]_vars /\ UNCHANGED <<items, level, factor>>
    BY <2>3 DEF Promote, Take, CompleteJob, Settle, database, Next, Work
  <2>4. ASSUME NEW i \in ItemIds, Stalled(i)
        PROVE  [Next]_vars /\ UNCHANGED <<items, level, factor>>
    BY <2>4 DEF Stalled, database, Next
  <2> QED
    BY <2>1, <2>2, <2>3, <2>4 DEF Idles
<1>3. ASSUME NEW g \in Handlers, tx[g] # NoTx
      PROVE  req'[g].pc = "received"
  <2>1. req[g].pc = "received"
    BY <1>1, <1>3 DEF TxTypeOK
  <2>2. req'[g] = req[g]
    <3>1. ASSUME NEW h \in Handlers, Arrives(h) \/ ScheduleQueueItem(h)
          PROVE  req'[g] = req[g]
      <4>1. \E r : req' = [req EXCEPT ![h] = r]
        BY <3>1 DEF Arrives, Receive, ScheduleQueueItem, Reply
      <4>2. h # g
        BY <2>1, <3>1 DEF Arrives, Receive, ScheduleQueueItem
      <4> QED
        BY <1>1, <4>1, <4>2 DEF QueueTypeOK
    <3>2. ASSUME NEW p \in Procs, Promote(p) \/ Take(p) \/ CompleteJob(p)
          PROVE  UNCHANGED req
      BY <3>2 DEF Promote, Take, CompleteJob, Settle
    <3>3. ASSUME NEW i \in ItemIds, Stalled(i)
          PROVE  UNCHANGED req
      BY <3>3 DEF Stalled
    <3>4. CASE Tick
      BY <3>4 DEF Tick
    <3> QED
      BY <3>1, <3>2, <3>3, <3>4 DEF Idles
  <2> QED
    BY <2>1, <2>2
<1>4. ASSUME NEW q \in Procs, tx[q] # NoTx
      PROVE  worker'[q] = worker[q]
  <2>1. worker[q].step = "processing"
    BY <1>1, <1>4 DEF TxTypeOK
  <2>2. ASSUME NEW h \in Handlers, Arrives(h) \/ ScheduleQueueItem(h)
        PROVE  UNCHANGED worker
    BY <2>2 DEF Arrives, Receive, ScheduleQueueItem
  <2>3. ASSUME NEW p \in Procs, Promote(p) \/ Take(p) \/ CompleteJob(p)
        PROVE  worker'[q] = worker[q]
    <3>1. CASE Promote(p)
      BY <3>1 DEF Promote
    <3>2. CASE Take(p) \/ CompleteJob(p)
      <4>1. \E r : worker' = [worker EXCEPT ![p] = r]
        BY <3>2 DEF Take, CompleteJob, Settle
      <4>2. p # q
        BY <2>1, <3>2 DEF Take, CompleteJob
      <4> QED
        BY <1>1, <4>1, <4>2 DEF QueueTypeOK
    <3> QED
      BY <2>3, <3>1, <3>2
  <2>4. ASSUME NEW i \in ItemIds, Stalled(i)
        PROVE  UNCHANGED worker
    BY <2>4 DEF Stalled
  <2>5. CASE Tick
    BY <2>5 DEF Tick
  <2> QED
    BY <2>2, <2>3, <2>4, <2>5 DEF Idles
<1>5. Leaves({})
  BY <1>1, <1>3, <1>4 DEF Leaves, Survives, Clients
<1> QED
  BY <1>2, <1>5, AstraxisSteps

(* What a transaction that is over leaves open.                            *)
LEMMA OverLeaves ==
  ASSUME TxTypeOK, NEW c \in Clients,
         tx' = tx \/ RolledBack(c), tx[c] = NoTx \/ RolledBack(c),
         \A h \in Handlers \ {c} : req'[h] = req[h],
         \A p \in Procs \ {c} : worker'[p] = worker[p]
  PROVE  Leaves({})
<1>1. DOMAIN tx' = Clients /\ DOMAIN tx = Clients
  BY DEF TxTypeOK, RolledBack
<1>2. \A d \in Clients : tx'[d] = IF d = c THEN NoTx ELSE tx[d]
  BY <1>1 DEF RolledBack
<1>3. \A h \in Handlers : tx'[h] # NoTx => h # c /\ tx[h] # NoTx
  BY <1>2 DEF Clients
<1>4. \A p \in Procs : tx'[p] # NoTx => p # c
  BY <1>2 DEF Clients
<1> QED
  BY <1>1, <1>2, <1>3, <1>4 DEF Leaves, Survives, TxTypeOK

LEMMA RejectRequestSound ==
  ASSUME TxInv, NEW h \in Handlers, RejectRequest(h)
  PROVE  Sound /\ [Next]_vars
<1>1. TxTypeOK /\ QueueTypeOK
  BY DEF TxInv, TypeInv, TypeOK
<1>2. /\ [Next]_vars /\ UNCHANGED <<items, level, factor, worker, tx>>
      /\ tx[h] = NoTx /\ req' = [req EXCEPT ![h] = Idle]
  BY DEF RejectRequest, Reject, Reply, database, Next, Handle
<1>3. Leaves({})
  <2>1. \A g \in Handlers \ {h} : req'[g] = req[g]
    BY <1>1, <1>2 DEF QueueTypeOK
  <2> QED
    BY <1>1, <1>2, <2>1, OverLeaves DEF Clients
<1> QED
  BY <1>2, <1>3, AstraxisSteps

LEMMA RefuseRequestSound ==
  ASSUME TxInv, NEW h \in Handlers, RefuseRequest(h)
  PROVE  Sound
<1>1. TypeInv /\ TxTypeOK /\ QueueTypeOK /\ clock \in Nat
  BY DEF TxInv, TypeInv, TypeOK
<1>2. /\ UNCHANGED <<clock, items, level, factor, research, ships, production, worker>>
      /\ Reply(h) /\ RolledBack(h) /\ UNCHANGED <<clock, database, redis, worker>>
      /\ req' = [req EXCEPT ![h] = Idle]
  BY DEF RefuseRequest, Reply, database
<1>3. TypeInv'
  BY <1>1, <1>2, EndOfRequestType
<1>4. GameStep /\ RateStep
  BY <1>1, <1>2 DEF GameStep, OrderStep, TouchesNoOrder, RateStep
<1>5. Leaves({})
  <2>1. \A g \in Handlers \ {h} : req'[g] = req[g]
    BY <1>1, <1>2 DEF QueueTypeOK
  <2> QED
    BY <1>1, <1>2, <2>1, OverLeaves DEF Clients
<1> QED
  BY <1>1, <1>2, <1>3, <1>4, <1>5, QuietStep, InvStays DEF Sound

LEMMA SkipFinishSound ==
  ASSUME TxInv, NEW p \in Procs, SkipFinish(p)
  PROVE  Sound /\ [Next]_vars
<1>1. TxTypeOK /\ QueueTypeOK
  BY DEF TxInv, TypeInv, TypeOK
<1>2. /\ [Next]_vars /\ UNCHANGED <<items, level, factor, req, tx>>
      /\ tx[p] = NoTx /\ Processed(p)
  BY DEF SkipFinish, SkipFinalize, database, Next, Work
<1>3. Leaves({})
  <2>1. \A q \in Procs \ {p} : worker'[q] = worker[q]
    BY <1>1, <1>2 DEF Processed, QueueTypeOK
  <2> QED
    BY <1>1, <1>2, <2>1, OverLeaves DEF Clients
<1> QED
  BY <1>2, <1>3, AstraxisSteps

LEMMA RefuseFinishSound ==
  ASSUME TxInv, NEW p \in Procs, RefuseFinish(p)
  PROVE  Sound /\ worker[p].step = "processing"
<1>1. TypeInv /\ TxTypeOK /\ QueueTypeOK /\ clock \in Nat
  BY DEF TxInv, TypeInv, TypeOK
<1>2. worker[p].step = "processing"
  BY <1>1 DEF RefuseFinish, TxTypeOK, Doomed, NoTx
<1>3. /\ UNCHANGED <<clock, items, level, factor, research, ships, production, req>>
      /\ Settle(p, "failed") /\ RolledBack(p)
      /\ worker' = [worker EXCEPT ![p] = Free]
  BY DEF RefuseFinish, Settle, database
<1>4. TypeInv'
  BY <1>1, <1>2, <1>3, SettleType
<1>5. GameStep /\ RateStep
  BY <1>1, <1>3 DEF GameStep, OrderStep, TouchesNoOrder, RateStep
<1>6. Leaves({})
  <2>1. \A q \in Procs \ {p} : worker'[q] = worker[q]
    BY <1>1, <1>3 DEF QueueTypeOK
  <2> QED
    BY <1>1, <1>3, <2>1, OverLeaves DEF Clients
<1> QED
  BY <1>1, <1>2, <1>3, <1>4, <1>5, <1>6, QuietStep, InvStays DEF Sound

LEMMA StopSound ==
  ASSUME TxInv, NEW p \in Procs, Stop(p)
  PROVE  Sound /\ [Next]_vars
<1>1. TxTypeOK /\ QueueTypeOK
  BY DEF TxInv, TypeInv, TypeOK
<1>2. /\ [Next]_vars /\ UNCHANGED <<items, level, factor>>
      /\ req' = [h \in Handlers |-> IF Host[h] = p THEN Idle ELSE req[h]]
      /\ worker' = [worker EXCEPT ![p] = Free]
      /\ tx' = [c \in Clients |->
                  IF c = p \/ (c \in Handlers /\ Host[c] = p) THEN NoTx ELSE tx[c]]
  BY DEF Stop, Crash, database, Next
<1>3. \A h \in Handlers : tx'[h] # NoTx => tx[h] # NoTx /\ req'[h] = req[h]
  BY <1>2 DEF Clients
<1>4. \A q \in Procs : tx'[q] # NoTx => worker'[q] = worker[q]
  BY <1>1, <1>2 DEF Clients, QueueTypeOK
<1>5. Leaves({})
  BY <1>1, <1>2, <1>3, <1>4 DEF Leaves, Survives, TxTypeOK
<1> QED
  BY <1>2, <1>5, AstraxisSteps

(* Every step is sound, and what it does to the jobs is one of these.      *)
JobsAside == UNCHANGED <<redis, worker>>
JobEffect ==
  \/ [Next]_vars
  \/ JobsAside /\ \E h \in Handlers : req' = [req EXCEPT ![h] = Idle]
  \/ /\ JobsAside
     /\ \E h \in Handlers, f \in ItemIds :
          /\ items[f] = NoItem
          /\ req' = [req EXCEPT ![h] = [pc |-> "committed", now |-> req[h].now,
                                        item |-> f]]
  \/ \E p \in Procs : Settle(p, "failed") /\ worker[p].step # "free"
  \/ \E p \in Procs :
       /\ worker[p].step = "processing" /\ Processed(p)
       /\ UNCHANGED <<redis, req>>
       /\ items'[worker[p].item].status = "DONE"

(* A worker that commits has closed the order of its job.                  *)
LEMMA CommitsClose ==
  ASSUME TxInv, NEW p \in Procs, CommitBuilding(p) \/ CommitDelivery(p)
  PROVE  JobEffect
<1>1. /\ TypeInv /\ TxTypeOK /\ worker[p].step = "processing"
      /\ tx[p] \in BuildingTx \cup DeliveryTx
      /\ worker[p].item = tx[p].item /\ tx[p].item \in ItemIds
  <2>1. tx[p].op \in {"building", "delivery"} /\ TypeInv /\ TxTypeOK
    BY DEF TxInv, CommitBuilding, CommitDelivery
  <2>2. tx[p] # NoTx
    BY <2>1 DEF NoTx
  <2> QED
    BY <2>1, <2>2, TxKinds
<1>2. PICK i \in ItemIds : i = tx[p].item /\ worker[p].item = i
  BY <1>1
<1>3. Pending(i)
  BY <1>1, <1>2 DEF TxInv, TxData, BuildingData, DeliveryData, DueData
<1>4. Finish(i) /\ Processed(p) /\ UNCHANGED <<redis, req>>
  BY <1>2 DEF CommitBuilding, CommitDelivery
<1>5. \A j \in ItemIds : items'[j].status = "DONE" <=> Done(j) \/ j = i
  BY <1>1, <1>3, <1>4, ClosedItems DEF Done
<1>6. items'[i].status = "DONE"
  BY <1>5
<1> QED
  BY <1>1, <1>2, <1>4, <1>6 DEF JobEffect

LEMMA TxStep ==
  ASSUME TxInv, [TxNext]_txVars
  PROVE  Sound /\ JobEffect
<1>1. CASE Idles /\ UNCHANGED tx
  BY <1>1, IdleSound DEF JobEffect
<1>2. ASSUME NEW h \in Handlers, HandlerStep(h)
      PROVE  Sound /\ JobEffect
  <2>1. CASE BeginOverview(h) \/ BeginSetting(h) \/ BeginOrder(h)
    <3>1. UNCHANGED vars
      BY <2>1 DEF BeginOverview, BeginSetting, BeginOrder, Begins
    <3>2. Sound
      BY <2>1, BeginOverviewSound, BeginSettingSound, BeginOrderSound
    <3> QED
      BY <3>1, <3>2 DEF JobEffect
  <2>2. CASE CommitOverview(h) \/ CommitSetting(h) \/ RefuseRequest(h)
    <3>1. JobsAside /\ req' = [req EXCEPT ![h] = Idle]
      BY <2>2 DEF CommitOverview, CommitSetting, RefuseRequest, Reply, JobsAside
    <3>2. Sound
      BY <2>2, CommitOverviewSound, CommitSettingSound, RefuseRequestSound
    <3> QED
      BY <3>1, <3>2 DEF JobEffect
  <2>3. CASE CommitOrder(h)
    <3>1. PICK f \in ItemIds, t \in OrderTx :
            /\ Places(f, t.item)
            /\ req' = [req EXCEPT ![h] = [pc |-> "committed", now |-> req[h].now,
                                          item |-> f]]
            /\ UNCHANGED <<redis, worker>>
      BY <2>3, CommitOrderPlaces
    <3>2. JobEffect
      BY <3>1 DEF Places, JobsAside, JobEffect
    <3> QED
      BY <2>3, <3>2, CommitOrderSound
  <2>4. CASE RejectRequest(h)
    BY <2>4, RejectRequestSound DEF JobEffect
  <2> QED
    BY <1>2, <2>1, <2>2, <2>3, <2>4 DEF HandlerStep
<1>3. ASSUME NEW p \in Procs, WorkerStep(p)
      PROVE  Sound /\ JobEffect
  <2>1. CASE BeginBuilding(p) \/ BeginDelivery(p)
    <3>1. UNCHANGED vars
      BY <2>1 DEF BeginBuilding, BeginDelivery, Begins
    <3>2. Sound
      BY <2>1, BeginBuildingSound, BeginDeliverySound
    <3> QED
      BY <3>1, <3>2 DEF JobEffect
  <2>2. CASE CommitBuilding(p) \/ CommitDelivery(p)
    BY <2>2, CommitBuildingSound, CommitDeliverySound, CommitsClose
  <2>3. CASE SkipFinish(p) \/ Stop(p)
    BY <2>3, SkipFinishSound, StopSound DEF JobEffect
  <2>4. CASE RefuseFinish(p)
    <3>1. Sound /\ worker[p].step # "free" /\ Settle(p, "failed")
      BY <2>4, RefuseFinishSound DEF RefuseFinish
    <3> QED
      BY <3>1 DEF JobEffect
  <2> QED
    BY <1>3, <2>1, <2>2, <2>3, <2>4 DEF WorkerStep
<1>4. CASE UNCHANGED txVars
  <2>1. UNCHANGED <<vars, tx>> /\ UNCHANGED <<items, level, factor, req, worker>>
    BY <1>4 DEF txVars, vars, database
  <2>2. Leaves({})
    BY <2>1 DEF Leaves, Survives, TxInv, TxTypeOK
  <2>3. Sound
    BY <2>1, <2>2, AstraxisSteps
  <2> QED
    BY <2>1, <2>3 DEF JobEffect
<1> QED
  BY <1>1, <1>2, <1>3, <1>4 DEF TxNext

-----------------------------------------------------------------------------
(* What holds in every behaviour.                                          *)

LEMMA TxStart == TxInit => TxInv
<1> SUFFICES ASSUME TxInit PROVE TxInv
  OBVIOUS
<1>1. TypeInv /\ TypeOK
  BY InitType DEF TxInit, TypeInv
<1>2. DOMAIN tx = Clients /\ \A c \in Clients : tx[c] = NoTx
  BY DEF TxInit
<1>3. NoTx \notin HandlerTx \cup WorkerTx
  BY KindOf DEF HandlerTx, WorkerTx, NoTx
<1>4. TxTypeOK /\ TxData
  BY <1>1, <1>2, <1>3 DEF TxTypeOK, TxData, Clients, HandlerTx, WorkerTx
<1> QED
  BY <1>1, <1>4 DEF TxInv

(* The invariant holds in every behaviour: whatever overlaps and whatever  *)
(* dies, an open transaction is either doomed or would still read what it  *)
(* has read, as far as it matters to what it will write.                   *)
THEOREM TxInvariant == TxSpec => []TxInv
<1>1. TxInv /\ [TxNext]_txVars => TxInv'
  BY TxStep DEF Sound
<1> QED
  BY <1>1, TxStart, PTL DEF TxSpec

(* Rows, jobs, requests and what open transactions will write keep their   *)
(* types: no transaction computes, or writes, a negative balance.          *)
THEOREM TxTypes == TxSpec => []TxTypeOK
<1>1. TxInv => TxTypeOK
  BY DEF TxInv
<1> QED
  BY <1>1, TxInvariant, PTL

(* What a step does to orders, jobs and rates.                             *)
LEMMA TxGame ==
  ASSUME TxInv, [TxNext]_txVars
  PROVE  TypeInv /\ TypeInv' /\ OrderStep /\ GameStep /\ RateStep
BY TxStep DEF Sound, GameStep, TxInv

(* Two ship orders of a planet, or two research orders of a player, are    *)
(* never pending together, although requests check and insert in           *)
(* transactions that overlap: both have looked for the rows that the other *)
(* inserts, so one of them is refused.                                     *)
THEOREM OneOrder == TxSpec => []OneOrderAtATime
<1>1. TxInv /\ OneOrderAtATime /\ [TxNext]_txVars => OneOrderAtATime'
  BY TxGame, OneOrderStep
<1>2. TxInit => OneOrderAtATime
  BY NoOrderYet DEF TxInit
<1> QED
  BY <1>1, <1>2, TxInvariant, PTL DEF TxSpec

(* Two pending buildings of a planet never have overlapping time spans,    *)
(* however old the `now` and the snapshot of the request that appended     *)
(* the second.                                                             *)
THEOREM Sequential == TxSpec => []BuildingsSequential
<1>1. TxInv /\ BuildingsSequential /\ [TxNext]_txVars => BuildingsSequential'
  BY TxGame, BuildingsStep
<1>2. TxInit => BuildingsSequential
  BY NoBuildingYet DEF TxInit
<1> QED
  BY <1>1, <1>2, TxInvariant, PTL DEF TxSpec

(* The level of a technology is the number of finished orders for it, and  *)
(* the pending one is for the next level, whatever overlaps and fails.     *)
THEOREM Ledger == TxSpec => []ResearchLedger
<1>1. TxInv /\ OneOrderAtATime /\ ResearchLedger /\ [TxNext]_txVars => ResearchLedger'
  BY TxGame, ResearchStep
<1>2. TxInit => ResearchLedger
  BY NoResearchYet DEF TxInit
<1> QED
  BY <1>1, <1>2, TxInvariant, OneOrder, PTL DEF TxSpec

(* An order is delivered at most once, not before its end by the worker's  *)
(* clock, by the step that closes it, although two workers may both have   *)
(* found it pending; a closed order is never touched again.                *)
THEOREM Delivery == TxSpec => DeliveredOnce
<1>1. TxInv /\ ResearchLedger /\ [TxNext]_txVars => DeliversAtMostOne
  BY TxGame, DeliveryStep
<1>2. DeliversAtMostOne => [DeliversAtMostOne]_vars
  OBVIOUS
<1> QED
  BY <1>1, <1>2, TxInvariant, Ledger, PTL DEF TxSpec, DeliveredOnce

(* Whatever overlaps, dies or runs twice behind it, the backend is a book  *)
(* of orders to its players: each is entered once, where the rules allow   *)
(* it, and delivered once, to whom it belongs and in the quantity ordered. *)
THEOREM OrdersAreABook == TxSpec => ImplementsBook
<1>1. TxInv /\ ResearchLedger /\ [TxNext]_txVars => [Book!Next]_(Book!vars)
  BY TxGame, BookStep
<1>2. TxInit => Book!Init
  BY BookOpens DEF TxInit
<1> QED
  BY <1>1, <1>2, TxInvariant, Ledger, PTL DEF TxSpec, ImplementsBook, Book!Spec

(* The stored rates are always those of the stored levels and settings: a  *)
(* finish and a new factor, each computing the rate from a snapshot that   *)
(* lacks the other, are not both let through.                              *)
THEOREM RatesMatch == TxSpec => []ProductionMatchesLevels
<1>1. TxInv /\ ProductionMatchesLevels /\ [TxNext]_txVars => ProductionMatchesLevels'
  BY TxGame, RatesStay
<1>2. TxInit => ProductionMatchesLevels
  BY RatesAtFirst DEF TxInit
<1> QED
  BY <1>1, <1>2, TxInvariant, PTL DEF TxSpec

(* The fleet of a planet is at all times the sum of its finished ship      *)
(* orders, whatever overlaps, crashes, stalls or runs twice.               *)
THEOREM Fleet == TxSpec => []FleetConserved
<1>1. TxInv /\ FleetConserved /\ [TxNext]_txVars => FleetConserved'
  BY TxGame, FleetsStay
<1>2. TxInit => FleetConserved
  BY NoFleetYet DEF TxInit
<1> QED
  BY <1>1, <1>2, TxInvariant, PTL DEF TxSpec

-----------------------------------------------------------------------------
(* Jobs.                                                                   *)

LEMMA TxJobStep ==
  ASSUME ClocksAgree, TxInv, JobInv, [TxNext]_txVars
  PROVE  JobInv'
<1>1. TypeInv /\ GameStep /\ QueueTypeOK
  BY TxGame DEF TypeInv, TypeOK
<1>2. CASE [Next]_vars
  BY <1>1, <1>2, JobStep
<1>3. CASE JobsAside
  <2>1. UNCHANGED <<job, wait, worker>>
    BY <1>3 DEF JobsAside, redis
  <2> QED
    BY <1>1, <2>1, WorkersStay, QueueUntouched
<1>4. ASSUME NEW p \in Procs, Settle(p, "failed"), worker[p].step # "free"
      PROVE  JobInv'
  BY <1>1, <1>4, SettleKeepsJobs
<1>5. ASSUME NEW p \in Procs, worker[p].step = "processing", Processed(p),
             UNCHANGED redis, items'[worker[p].item].status = "DONE"
      PROVE  JobInv'
  BY <1>1, <1>5, ProcessedKeepsJobs DEF redis
<1> QED
  BY <1>2, <1>3, <1>4, <1>5, TxStep DEF JobEffect

LEMMA TxOneJobStep ==
  ASSUME TxInv, OneJobInv, [TxNext]_txVars
  PROVE  OneJobInv'
<1>1. TypeInv /\ GameStep /\ QueueTypeOK
  BY TxGame DEF TypeInv, TypeOK
<1>2. CASE [Next]_vars
  BY <1>1, <1>2, OneJobStep
<1>3. ASSUME JobsAside, NEW h \in Handlers, req' = [req EXCEPT ![h] = Idle]
      PROVE  OneJobInv'
  <2>1. \A g \in Handlers, i \in ItemIds : Scheduling(g, i)' => Scheduling(g, i)
    BY <1>1, <1>3 DEF Scheduling, Idle, QueueTypeOK
  <2> QED
    BY <1>1, <1>3, <2>1, NoJobMoves DEF JobsAside, redis
<1>4. ASSUME JobsAside, NEW h \in Handlers, NEW f \in ItemIds, items[f] = NoItem,
             req' = [req EXCEPT ![h] = [pc |-> "committed", now |-> req[h].now,
                                        item |-> f]]
      PROVE  OneJobInv'
  BY <1>1, <1>4, CommitKeepsOneJob DEF JobsAside, redis
<1>5. ASSUME NEW p \in Procs, Settle(p, "failed"), worker[p].step # "free"
      PROVE  OneJobInv'
  BY <1>1, <1>5, SettleKeepsOneJob
<1>6. CASE UNCHANGED <<redis, req>>
  BY <1>1, <1>6, NoJobMoves DEF Scheduling, redis
<1> QED
  BY <1>2, <1>3, <1>4, <1>5, <1>6, TxStep DEF JobEffect

(* When the clocks agree, a job that completes has delivered its order,    *)
(* whatever crashes, is refused or stalls: the early return of             *)
(* finalizeQueueItem, a success for BullMQ, is taken only for an order     *)
(* that another run of the job has delivered.                              *)
THEOREM Completed ==
  ASSUME ClocksAgree
  PROVE  TxSpec => []CompletedMeansDone
<1>1. TxInv /\ JobInv /\ [TxNext]_txVars => JobInv'
  BY TxJobStep
<1>2. TxInit => JobInv
  BY JobsAtFirst DEF TxInit
<1>3. JobInv => CompletedMeansDone
  BY DEF JobInv
<1> QED
  BY <1>1, <1>2, <1>3, TxInvariant, PTL DEF TxSpec

(* Whatever dies, stalls or is refused, no order ever gets a second job,   *)
(* and a job is on the list once while it waits and not otherwise.         *)
THEOREM OneJob == TxSpec => []OneJobPerOrder
<1>1. TxInv /\ OneJobInv /\ [TxNext]_txVars => OneJobInv'
  BY TxOneJobStep
<1>2. TxInit => OneJobInv
  BY NoJobYet DEF TxInit
<1>3. OneJobInv => OneJobPerOrder
  BY DEF OneJobInv
<1> QED
  BY <1>1, <1>2, <1>3, TxInvariant, PTL DEF TxSpec

(* Whatever fails, an order that is under way has something that will      *)
(* bring it to a worker: only a job BullMQ gave up, or one that never      *)
(* reached Redis, leaves an order behind.  This is what                    *)
(* OrdersEventuallyDone rests on, without the fairness.                    *)
THEOREM UnderWayCarried ==
  ASSUME ClocksAgree
  PROVE  TxSpec => [](\A i \in UnderWay : Carried(i))
<1>1. TxInv /\ JobInv /\ [TxNext]_txVars => JobInv'
  BY TxJobStep
<1>2. TxInv /\ OneJobInv /\ [TxNext]_txVars => OneJobInv'
  BY TxOneJobStep
<1>3. TxInit => JobInv /\ OneJobInv
  BY JobsAtFirst, NoJobYet DEF TxInit
<1>4. TxInv /\ JobInv /\ OneJobInv => \A i \in UnderWay : Carried(i)
  BY UnderWayIsCarried DEF TxInv
<1> QED
  BY <1>1, <1>2, <1>3, <1>4, TxInvariant, PTL DEF TxSpec
=============================================================================
