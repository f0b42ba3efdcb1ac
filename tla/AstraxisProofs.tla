--------------------------- MODULE AstraxisProofs ---------------------------
(***************************************************************************)
(* Types and orders, whatever fails, for every instance that satisfies the *)
(* assumptions of GameState.  The lemmas on orders are about any step that *)
(* leaves them alone, places a legal one or delivers an open one: those of *)
(* Astraxis, whose transactions are single steps, and those of             *)
(* Transactions.                                                           *)
(***************************************************************************)
EXTENDS Astraxis, FiniteSetTheorems, WellFoundedInduction, TLAPS

-----------------------------------------------------------------------------
(* The inductive invariant behind the types.  Types alone are not          *)
(* inductive: taking a job from the list needs the list to name jobs,      *)
(* scheduling needs the item to exist, and the end of the building queue   *)
(* is a number only because the ends are bounded.                          *)

Created(i) == items[i] # NoItem

EndsInTime == \A i \in ItemIds : Created(i) => items[i].endAt <= Horizon
WaitHasJob == \A k \in 1 .. Len(wait) : job[wait[k]] # NoJob
CommittedHasItem ==
  \A h \in Handlers : req[h].pc = "committed" => Created(req[h].item)

TypeInv == TypeOK /\ EndsInTime /\ WaitHasJob /\ CommittedHasItem

-----------------------------------------------------------------------------
(* Facts about the operators.                                              *)

(* A non-empty set of naturals below a bound has a greatest element.       *)
LEMMA BoundedHasMax ==
  ASSUME NEW b \in Nat, NEW S \in SUBSET (0 .. b), S # {}
  PROVE  \E m \in S : \A n \in S : n <= m
<1> DEFINE T == {b - n : n \in S}
<1>1. \A n \in S : n \in Nat /\ n <= b
  OBVIOUS
<1>2. T \in SUBSET Nat /\ T # {}
  <2>1. ASSUME NEW x \in T PROVE x \in Nat
    <3>1. PICK n \in S : x = b - n
      OBVIOUS
    <3> QED
      BY <1>1, <3>1
  <2>2. T # {}
    <3>1. PICK n \in S : TRUE
      OBVIOUS
    <3>2. b - n \in T
      BY <3>1
    <3> QED
      BY <3>2
  <2> QED
    BY <2>1, <2>2
<1>3. \E x \in T : \A y \in T : ~ (<<y, x>> \in OpToRel(<, Nat))
  BY <1>2, WFMin, NatLessThanWellFounded
<1>4. PICK x \in T : \A y \in T : ~ (y < x)
  BY <1>2, <1>3 DEF OpToRel
<1>5. PICK m \in S : x = b - m
  BY <1>4
<1>6. ASSUME NEW n \in S PROVE n <= m
  <2>1. ~ (b - n < b - m)
    BY <1>4, <1>5
  <2> QED
    BY <1>1, <2>1
<1> QED
  BY <1>6

(* The record fields of queue items, whatever their type.                  *)
LEMMA ItemFields ==
  ASSUME NEW x \in QueueItem
  PROVE  /\ x # NoItem
         /\ x.type \in {"BUILDING", "RESEARCH", "SHIP"}
         /\ x.planet \in Planets /\ x.startAt \in Nat /\ x.endAt \in Nat
         /\ x.status \in {"PENDING", "DONE"}
         /\ x.type = "BUILDING" => x \in BuildingItem
         /\ x.type = "RESEARCH" => x \in ResearchItem
         /\ x.type = "SHIP" => x \in ShipItem
BY DEF QueueItem, BuildingItem, ResearchItem, ShipItem, Status, NoItem

(* A pending or done item exists.                                          *)
LEMMA ItemExists ==
  ASSUME DatabaseTypeOK, NEW i \in ItemIds
  PROVE  /\ Pending(i) \/ Done(i) <=> items[i] \in QueueItem
         /\ items[i] \in QueueItem <=> items[i] # NoItem
<1>1. items[i] \in QueueItem \/ items[i] = NoItem
  BY DEF DatabaseTypeOK
<1>2. CASE items[i] \in QueueItem
  BY <1>2, ItemFields DEF Pending, Done
<1>3. CASE items[i] = NoItem
  <2>1. items[i].status = "ABSENT"
    BY <1>3 DEF NoItem
  <2>2. items[i] \notin QueueItem
    BY <1>3, ItemFields
  <2> QED
    BY <1>3, <2>1, <2>2 DEF Pending, Done
<1> QED
  BY <1>1, <1>2, <1>3

(* The balance a transaction works with is an amount, whatever its `now`.  *)
LEMMA BalanceType ==
  ASSUME DatabaseTypeOK, NEW pl \in Planets, NEW now \in Nat
  PROVE  BalanceAt(pl, now) \in Amount
<1> DEFINE elapsed == now - lastCalculatedAt[pl]
<1>1. balance[pl] \in Amount /\ production[pl] \in Amount /\ elapsed \in Int
  BY DEF DatabaseTypeOK
<1>2. Capacity(pl) \in Amount
  BY FormulasAssumption DEF DatabaseTypeOK, Capacity
<1>3. CASE elapsed <= 0
  BY <1>1, <1>3 DEF BalanceAt
<1>4. CASE ~(elapsed <= 0)
  <2>1. ASSUME NEW r \in Resources
        PROVE  Lesser(balance[pl][r] + production[pl][r] * elapsed,
                      Capacity(pl)[r]) \in Nat
    <3>1. /\ balance[pl][r] \in Nat /\ production[pl][r] \in Nat
          /\ Capacity(pl)[r] \in Nat
      BY <1>1, <1>2 DEF Amount
    <3>2. elapsed \in Nat
      BY <1>1, <1>4
    <3>3. production[pl][r] * elapsed \in Nat
      BY <3>1, <3>2
    <3> HIDE DEF elapsed
    <3> QED
      BY <3>1, <3>3 DEF Lesser
  <2> QED
    BY <1>4, <2>1 DEF BalanceAt, Amount
<1> QED
  BY <1>3, <1>4

(* A fresh id is the id of no item.                                        *)
LEMMA FreshIdType ==
  ASSUME FreeIds # {}
  PROVE  FreshId \in ItemIds /\ items[FreshId] = NoItem
BY DEF FreeIds, FreshId

(* The next building level is a positive natural number.                   *)
LEMMA NextLevelType ==
  ASSUME DatabaseTypeOK, NEW pl \in Planets, NEW key \in Buildings
  PROVE  NextLevel(pl, key) \in Nat
<1> DEFINE pending == {i \in PendingOf("BUILDING", pl) : items[i].key = key}
<1>1. pending \in SUBSET ItemIds
  BY DEF PendingOf
<1>2. Cardinality(pending) \in Nat
  BY <1>1, FS_Subset, FS_CardinalityType, BoundsAssumption
<1>3. level[pl][key] \in Nat
  BY BoundsAssumption DEF DatabaseTypeOK, LevelMap, Levels
<1> QED
  BY <1>2, <1>3 DEF NextLevel

(* The start of a new building is `now` or the greatest end in the queue.  *)
LEMMA BuildStartType ==
  ASSUME DatabaseTypeOK, EndsInTime, NEW pl \in Planets, NEW now \in Nat
  PROVE  /\ BuildStart(pl, now) \in Nat
         /\ BuildStart(pl, now) >= now
         /\ \A i \in PendingOf("BUILDING", pl) :
              items[i].endAt <= BuildStart(pl, now)
<1> DEFINE queue == PendingOf("BUILDING", pl)
           IsTail(i) == \A j \in queue : items[i].endAt >= items[j].endAt
           ends == {items[i].endAt : i \in queue}
           tail == CHOOSE i \in queue : IsTail(i)
<1>1. CASE queue = {}
  BY <1>1 DEF BuildStart
<1>2. CASE queue # {}
  <2>1. \A i \in queue : items[i].endAt \in 0 .. Horizon
    BY ItemExists, ItemFields, BoundsAssumption DEF PendingOf, EndsInTime, Created
  <2>2. ends \in SUBSET (0 .. Horizon) /\ ends # {}
    BY <1>2, <2>1
  <2>3. PICK m \in ends : \A n \in ends : n <= m
    BY <2>2, BoundedHasMax, BoundsAssumption
  <2>4. \E i \in queue : IsTail(i)
    BY <2>3
  <2>5. tail \in queue /\ IsTail(tail)
    BY <2>4
  <2>6. BuildStart(pl, now) = Greater(items[tail].endAt, now)
    BY <1>2 DEF BuildStart
  <2>7. items[tail].endAt \in Nat
    BY <2>1, <2>5
  <2> HIDE DEF queue, IsTail, tail
  <2>8. \A i \in queue : items[i].endAt \in Nat /\ items[i].endAt <= items[tail].endAt
    BY <2>1, <2>5, BoundsAssumption DEF IsTail
  <2> QED
    BY <2>6, <2>7, <2>8 DEF Greater, queue
<1> QED
  BY <1>1, <1>2

-----------------------------------------------------------------------------
(* Type correctness, operation by operation.                               *)

(* A handler that has a request has one of the instance's requests.        *)
LEMMA RequestType ==
  ASSUME TypeOK, NEW h \in Handlers
  PROVE  /\ req[h].pc = "received" => /\ req[h].now \in Nat
                                      /\ req[h].body \in RequestBody
                                      /\ req[h].body \in Requests
         /\ req[h].pc = "committed" => /\ req[h].now \in Nat
                                       /\ req[h].item \in ItemIds
<1>1. req[h] \in InFlight \/ req[h] = Idle
  BY DEF TypeOK, QueueTypeOK
<1>2. req[h] = Idle => req[h].pc = "idle"
  BY DEF Idle
<1> QED
  BY <1>1, <1>2, InputsAssumption DEF InFlight

(* The fields of a request body, by operation.                             *)
LEMMA BodyType ==
  ASSUME NEW body \in RequestBody
  PROVE  /\ body.player \in Planets
         /\ body.op # "startResearch" => body.planet \in Planets
         /\ body.op = "startBuilding" => body.key \in Buildings
         /\ body.op = "startShips" => body.key \in ShipKeys /\ body.qty \in Qty
         /\ body.op = "startResearch" => body.key \in Techs
         /\ body.op = "updateProductionFactor" =>
              body.key \in Buildings /\ body.factor \in Factors
BY DEF RequestBody

(* A new order that is paid for keeps the types.                           *)
LEMMA PlaceOrderType ==
  ASSUME TypeInv, NEW h \in Handlers, req[h].pc = "received",
         NEW order \in QueueItem, NEW cost \in Amount,
         CanPay(order, cost, req[h].now), PlaceOrder(h, order, cost)
  PROVE  TypeInv'
<1> DEFINE pl == order.planet
           now == req[h].now
<1>1. pl \in Planets /\ now \in Nat
  BY ItemFields, RequestType DEF TypeInv
<1>2. FreshId \in ItemIds /\ items[FreshId] = NoItem
  BY FreshIdType DEF CanPay
<1>3. BalanceAt(pl, now) \in Amount
  BY <1>1, BalanceType DEF TypeInv, TypeOK
<1>4. [r \in Resources |-> BalanceAt(pl, now)[r] - cost[r]] \in Amount
  BY <1>3 DEF CanPay, HasEnough, Amount
<1>5. balance' \in [Planets -> Amount]
  BY <1>1, <1>4 DEF PlaceOrder, Spend, TypeInv, TypeOK, DatabaseTypeOK
<1>6. lastCalculatedAt' \in [Planets -> Nat]
  BY <1>1 DEF PlaceOrder, Spend, TypeInv, TypeOK, DatabaseTypeOK
<1>7. items' \in [ItemIds -> QueueItem \cup {NoItem}]
  BY <1>2 DEF PlaceOrder, TypeInv, TypeOK, DatabaseTypeOK
<1>8. req' \in [Handlers -> InFlight \cup {Idle}]
  <2>1. [pc |-> "committed", now |-> now, item |-> FreshId] \in InFlight
    BY <1>1, <1>2 DEF InFlight
  <2> QED
    BY <2>1 DEF PlaceOrder, TypeInv, TypeOK, QueueTypeOK
<1>9. TypeOK'
  BY <1>5, <1>6, <1>7, <1>8
     DEF PlaceOrder, redis, TypeInv, TypeOK, DatabaseTypeOK, QueueTypeOK
<1>10. EndsInTime'
  BY <1>2, ItemFields
     DEF PlaceOrder, CanPay, TypeInv, TypeOK, DatabaseTypeOK, EndsInTime, Created
<1>11. WaitHasJob'
  BY DEF PlaceOrder, redis, TypeInv, WaitHasJob
<1>12. CommittedHasItem'
  <2> SUFFICES ASSUME NEW g \in Handlers, req'[g].pc = "committed"
               PROVE  items'[req'[g].item] # NoItem
    BY DEF CommittedHasItem, Created
  <2>1. CASE g = h
    BY <1>2, <2>1, ItemFields
       DEF PlaceOrder, TypeInv, TypeOK, DatabaseTypeOK, QueueTypeOK
  <2>2. CASE g # h
    <3>1. req'[g] = req[g] /\ req[g].item \in ItemIds
      BY <2>2, RequestType DEF PlaceOrder, TypeInv, TypeOK, QueueTypeOK
    <3> QED
      BY <1>2, <3>1, ItemFields
         DEF PlaceOrder, TypeInv, TypeOK, DatabaseTypeOK, CommittedHasItem, Created
  <2> QED
    BY <2>1, <2>2
<1> QED
  BY <1>9, <1>10, <1>11, <1>12 DEF TypeInv

(* The order a building request computes is a queue item.                  *)
LEMMA BuildingOrderType ==
  ASSUME TypeInv, NEW h \in Handlers, Handling(h, "startBuilding"),
         CanStartBuilding(req[h].body, req[h].now)
  PROVE  LET body  == req[h].body
             order == BuildingOrder(body, req[h].now)
         IN  /\ req[h].now \in Nat /\ body.planet \in Planets
             /\ order \in QueueItem
             /\ order.n = NextLevel(body.planet, body.key)
             /\ BuildingCost[body.key][order.n] \in Amount
<1> DEFINE body == req[h].body
           now == req[h].now
           n == NextLevel(body.planet, body.key)
           order == BuildingOrder(body, now)
<1>1. now \in Nat /\ body.planet \in Planets /\ body.key \in Buildings
  BY RequestType, BodyType DEF Handling, TypeInv
<1>2. n \in Levels
  BY <1>1, NextLevelType, BoundsAssumption
     DEF CanStartBuilding, Levels, TypeInv, TypeOK
<1>3. BuildStart(body.planet, now) \in Nat
  BY <1>1, BuildStartType DEF TypeInv, TypeOK
<1>4. BuildingTime[body.key][n] \in Nat
  BY <1>1, <1>2, FormulasAssumption DEF Positive
<1>5. order \in QueueItem
  BY <1>1, <1>2, <1>3, <1>4 DEF BuildingOrder, QueueItem, BuildingItem, Status
<1>6. order.n = n
  BY DEF BuildingOrder
<1>7. BuildingCost[body.key][n] \in Amount
  BY <1>1, <1>2, FormulasAssumption
<1> QED
  BY <1>1, <1>5, <1>6, <1>7

(* Ordering a building keeps the types.                                    *)
LEMMA StartBuildingType ==
  ASSUME TypeInv, NEW h \in Handlers, StartBuilding(h)
  PROVE  TypeInv'
<1> DEFINE body == req[h].body
           order == BuildingOrder(body, req[h].now)
           cost == BuildingCost[body.key][order.n]
<1>1. order \in QueueItem /\ cost \in Amount
      /\ order.n = NextLevel(body.planet, body.key)
  BY BuildingOrderType DEF StartBuilding
<1>2. CanPay(order, cost, req[h].now) /\ PlaceOrder(h, order, cost)
  BY <1>1 DEF StartBuilding, CanStartBuilding
<1> QED
  BY <1>1, <1>2, PlaceOrderType DEF StartBuilding, Handling

(* The order a shipyard request computes is a queue item.                  *)
LEMMA ShipOrderType ==
  ASSUME TypeInv, NEW h \in Handlers, Handling(h, "startShips")
  PROVE  LET body == req[h].body
         IN  /\ ShipOrder(body, req[h].now) \in QueueItem
             /\ ShipCost[body.key][body.qty] \in Amount
<1> DEFINE body == req[h].body
           now == req[h].now
           order == ShipOrder(body, now)
<1>1. /\ now \in Nat
      /\ body.planet \in Planets /\ body.key \in ShipKeys /\ body.qty \in Qty
  BY RequestType, BodyType DEF Handling, TypeInv
<1>2. level[body.planet] \in LevelMap
  BY <1>1 DEF TypeInv, TypeOK, DatabaseTypeOK
<1>3. ShipTime[body.key][body.qty][level[body.planet]] \in Nat
  BY <1>1, <1>2, FormulasAssumption DEF Positive
<1>4. order \in QueueItem
  BY <1>1, <1>3 DEF ShipOrder, QueueItem, ShipItem, Status
<1>5. ShipCost[body.key][body.qty] \in Amount
  BY <1>1, FormulasAssumption
<1> QED
  BY <1>4, <1>5

(* Ordering ships keeps the types.                                         *)
LEMMA StartShipsType ==
  ASSUME TypeInv, NEW h \in Handlers, StartShips(h)
  PROVE  TypeInv'
<1> DEFINE body == req[h].body
           order == ShipOrder(body, req[h].now)
           cost == ShipCost[body.key][body.qty]
<1>1. order \in QueueItem /\ cost \in Amount
  BY ShipOrderType DEF StartShips
<1>2. CanPay(order, cost, req[h].now) /\ PlaceOrder(h, order, cost)
  BY DEF StartShips, CanStartShips
<1> QED
  BY <1>1, <1>2, PlaceOrderType DEF StartShips, Handling

(* The order a research request computes is a queue item.                  *)
LEMMA ResearchOrderType ==
  ASSUME TypeInv, NEW h \in Handlers, Handling(h, "startResearch"),
         CanStartResearch(req[h].body, req[h].now)
  PROVE  LET body  == req[h].body
             order == ResearchOrder(body, req[h].now)
         IN  /\ order \in QueueItem
             /\ order.n = research[body.player][body.key] + 1
             /\ ResearchCost[body.key][order.n] \in Amount
<1> DEFINE body == req[h].body
           now == req[h].now
           n == research[body.player][body.key] + 1
           order == ResearchOrder(body, now)
<1>1. now \in Nat /\ body.player \in Planets /\ body.key \in Techs
  BY RequestType, BodyType DEF Handling, TypeInv
<1>2. n \in Levels
  <2>1. research[body.player][body.key] \in Levels
    BY <1>1 DEF TypeInv, TypeOK, DatabaseTypeOK
  <2>2. n <= MaxLevel
    BY DEF CanStartResearch
  <2> QED
    BY <2>1, <2>2, BoundsAssumption DEF Levels
<1>3. level[body.player] \in LevelMap
  BY <1>1 DEF TypeInv, TypeOK, DatabaseTypeOK
<1>4. ResearchTime[body.key][n][level[body.player]] \in Nat
  BY <1>1, <1>2, <1>3, FormulasAssumption DEF Positive
<1>5. order \in QueueItem /\ order.n = n
  <2> HIDE DEF n
  <2>1. order = [type |-> "RESEARCH", planet |-> body.player, key |-> body.key,
                 n |-> n, startAt |-> now,
                 endAt |-> now + ResearchTime[body.key][n][level[body.player]],
                 status |-> "PENDING"]
    BY DEF ResearchOrder, n
  <2> QED
    BY <1>1, <1>2, <1>4, <2>1 DEF QueueItem, ResearchItem, Status
<1>6. ResearchCost[body.key][n] \in Amount
  BY <1>1, <1>2, FormulasAssumption
<1> QED
  BY <1>5, <1>6

(* Ordering research keeps the types.                                      *)
LEMMA StartResearchType ==
  ASSUME TypeInv, NEW h \in Handlers, StartResearch(h)
  PROVE  TypeInv'
<1> DEFINE body == req[h].body
           order == ResearchOrder(body, req[h].now)
           cost == ResearchCost[body.key][order.n]
<1>1. order \in QueueItem /\ cost \in Amount
      /\ order.n = research[body.player][body.key] + 1
  BY ResearchOrderType DEF StartResearch
<1>2. CanPay(order, cost, req[h].now) /\ PlaceOrder(h, order, cost)
  BY <1>1 DEF StartResearch, CanStartResearch
<1> QED
  BY <1>1, <1>2, PlaceOrderType DEF StartResearch, Handling

(* The steps that leave the queue items, the jobs and the list alone.      *)
LEMMA ApplyProductionType ==
  ASSUME TypeInv, NEW pl \in Planets, NEW now \in Nat, ApplyProduction(pl, now)
  PROVE  /\ balance' \in [Planets -> Amount]
         /\ lastCalculatedAt' \in [Planets -> Nat]
<1>1. BalanceAt(pl, now) \in Amount
  BY BalanceType DEF TypeInv, TypeOK
<1>2. lastCalculatedAt[pl] \in Nat
  BY DEF TypeInv, TypeOK, DatabaseTypeOK
<1> QED
  BY <1>1, <1>2
     DEF ApplyProduction, Greater, TypeInv, TypeOK, DatabaseTypeOK

(* Reading the overview keeps the types.                                  *)
LEMMA GetOverviewType ==
  ASSUME TypeInv, NEW h \in Handlers, GetOverview(h)
  PROVE  TypeInv'
<1>1. req[h].now \in Nat /\ req[h].body.planet \in Planets
  BY RequestType, BodyType DEF GetOverview, Handling, TypeInv
<1>2. balance' \in [Planets -> Amount] /\ lastCalculatedAt' \in [Planets -> Nat]
  BY <1>1, ApplyProductionType DEF GetOverview
<1>3. TypeOK'
  BY <1>2 DEF GetOverview, Reply, redis, TypeInv, TypeOK, DatabaseTypeOK, QueueTypeOK
<1> QED
  BY <1>3 DEF GetOverview, Reply, Idle, redis, TypeInv, TypeOK, QueueTypeOK,
              EndsInTime, WaitHasJob, CommittedHasItem, Created

(* Changing a production factor keeps the types.                          *)
LEMMA UpdateProductionFactorType ==
  ASSUME TypeInv, NEW h \in Handlers, UpdateProductionFactor(h)
  PROVE  TypeInv'
<1> DEFINE body == req[h].body
           pl == body.planet
<1>1. /\ req[h].now \in Nat /\ pl \in Planets
      /\ body.key \in Mines /\ body.factor \in Factors
  BY RequestType, BodyType
     DEF UpdateProductionFactor, Handling, CanUpdateFactor, TypeInv
<1>2. balance' \in [Planets -> Amount] /\ lastCalculatedAt' \in [Planets -> Nat]
  BY <1>1, ApplyProductionType DEF UpdateProductionFactor
<1>3. factor' \in [Planets -> FactorMap]
  BY <1>1 DEF UpdateProductionFactor, FactorMap, TypeInv, TypeOK, DatabaseTypeOK
<1>4. ProductionRate[level[pl]][factor'[pl]] \in Amount
  BY <1>1, <1>3, FormulasAssumption DEF TypeInv, TypeOK, DatabaseTypeOK
<1>5. production' \in [Planets -> Amount]
  BY <1>1, <1>4
     DEF UpdateProductionFactor, RecomputeProduction, TypeInv, TypeOK, DatabaseTypeOK
<1>6. TypeOK'
  BY <1>2, <1>3, <1>5
     DEF UpdateProductionFactor, Reply, redis, TypeInv, TypeOK, DatabaseTypeOK,
         QueueTypeOK
<1> QED
  BY <1>6 DEF UpdateProductionFactor, Reply, Idle, redis, TypeInv, TypeOK,
              QueueTypeOK, EndsInTime, WaitHasJob, CommittedHasItem, Created

(* Receiving a request keeps the types.                                   *)
LEMMA ReceiveType ==
  ASSUME TypeInv, NEW h \in Handlers, Receive(h)
  PROVE  TypeInv'
<1>1. PICK body \in Requests :
        req' = [req EXCEPT ![h] = [pc |-> "received", now |-> Now(Host[h]),
                                   body |-> body]]
  BY DEF Receive
<1>2. Now(Host[h]) \in Nat
  BY ProcessesAssumption DEF Now, TypeInv, TypeOK
<1>3. [pc |-> "received", now |-> Now(Host[h]), body |-> body] \in InFlight
  BY <1>2 DEF InFlight
<1>4. req' \in [Handlers -> InFlight \cup {Idle}]
  BY <1>1, <1>3 DEF TypeInv, TypeOK, QueueTypeOK
<1>5. CommittedHasItem'
  BY <1>1 DEF Receive, database, TypeInv, TypeOK, QueueTypeOK,
              CommittedHasItem, Created
<1> QED
  BY <1>4, <1>5 DEF Receive, database, redis, TypeInv, TypeOK, DatabaseTypeOK,
                    QueueTypeOK, EndsInTime, WaitHasJob, Created

(* A request that ends without a trace: rejected or aborted.               *)
LEMMA EndOfRequestType ==
  ASSUME TypeInv, NEW h \in Handlers, Reply(h),
         UNCHANGED <<clock, database, redis, worker>>
  PROVE  TypeInv'
<1>1. req' \in [Handlers -> InFlight \cup {Idle}]
  BY DEF Reply, TypeInv, TypeOK, QueueTypeOK
<1>2. CommittedHasItem'
  BY DEF Reply, Idle, database, TypeInv, TypeOK, QueueTypeOK,
         CommittedHasItem, Created
<1> QED
  BY <1>1, <1>2 DEF database, redis, TypeInv, TypeOK, DatabaseTypeOK,
                    QueueTypeOK, EndsInTime, WaitHasJob, Created

(* A job that gets a new record and at most one new place in the list      *)
(* keeps the list made of jobs.                                            *)
LEMMA AppendKeepsJobs ==
  ASSUME QueueTypeOK, WaitHasJob, NEW i \in ItemIds, NEW record \in Job,
         job' = [job EXCEPT ![i] = record], wait' \in Seq(ItemIds),
         \A k \in 1 .. Len(wait') :
           wait'[k] = i \/ \E l \in 1 .. Len(wait) : wait'[k] = wait[l]
  PROVE  /\ job' \in [ItemIds -> Job \cup {NoJob}]
         /\ WaitHasJob'
<1>1. record # NoJob
  BY DEF Job, NoJob
<1>2. job' \in [ItemIds -> Job \cup {NoJob}]
  BY DEF QueueTypeOK
<1>3. ASSUME NEW k \in 1 .. Len(wait') PROVE job'[wait'[k]] # NoJob
  <2>1. wait'[k] \in ItemIds
    OBVIOUS
  <2>2. CASE wait'[k] = i
    BY <1>1, <2>2 DEF QueueTypeOK
  <2>3. CASE wait'[k] # i
    <3>1. PICK l \in 1 .. Len(wait) : wait'[k] = wait[l]
      BY <2>3
    <3>2. job[wait[l]] # NoJob
      BY DEF WaitHasJob
    <3> QED
      BY <2>1, <2>3, <3>1, <3>2 DEF QueueTypeOK
  <2> QED
    BY <2>2, <2>3
<1> QED
  BY <1>2, <1>3 DEF WaitHasJob

(* Adding a job to the queue keeps the types.                             *)
LEMMA ScheduleQueueItemType ==
  ASSUME TypeInv, NEW h \in Handlers, ScheduleQueueItem(h)
  PROVE  TypeInv'
<1> DEFINE i == req[h].item
           now == Now(Host[h])
           delay == DelayOf(i, now)
           record == [state |-> IF delay > 0 THEN "delayed" ELSE "waiting",
                      due |-> now + delay, stalls |-> 0]
<1>1. i \in ItemIds /\ Created(i)
  BY RequestType DEF ScheduleQueueItem, TypeInv, CommittedHasItem
<1>2. now \in Nat
  BY ProcessesAssumption DEF Now, TypeInv, TypeOK
<1>3. items[i].endAt \in Nat
  BY <1>1, ItemFields DEF Created, TypeInv, TypeOK, DatabaseTypeOK
<1>4. delay \in Nat
  BY <1>2, <1>3 DEF DelayOf, Greater
<1>5. record \in Job
  BY <1>2, <1>4 DEF Job
<1>6. /\ job' = [job EXCEPT ![i] = record]
      /\ wait' = IF delay > 0 THEN wait ELSE Append(wait, i)
      /\ wait \in Seq(ItemIds)
  BY DEF ScheduleQueueItem, TypeInv, TypeOK, QueueTypeOK
<1>7. /\ wait' \in Seq(ItemIds)
      /\ \A k \in 1 .. Len(wait') :
           wait'[k] = i \/ \E l \in 1 .. Len(wait) : wait'[k] = wait[l]
  <2> HIDE DEF delay, i
  <2> QED
    BY <1>1, <1>6
<1>8. job' \in [ItemIds -> Job \cup {NoJob}] /\ WaitHasJob'
  <2> HIDE DEF record, i
  <2> QED
    BY <1>1, <1>5, <1>6, <1>7, AppendKeepsJobs DEF TypeInv, TypeOK
<1>9. req' \in [Handlers -> InFlight \cup {Idle}]
  BY DEF ScheduleQueueItem, Reply, TypeInv, TypeOK, QueueTypeOK
<1>10. CommittedHasItem'
  BY DEF ScheduleQueueItem, Reply, Idle, database, TypeInv, TypeOK, QueueTypeOK,
         CommittedHasItem, Created
<1> QED
  BY <1>7, <1>8, <1>9, <1>10
     DEF ScheduleQueueItem, database, TypeInv, TypeOK, DatabaseTypeOK,
         QueueTypeOK, EndsInTime, Created

(* What a worker has at hand.                                              *)
LEMMA WorkerType ==
  ASSUME TypeOK, NEW p \in Procs
  PROVE  worker[p].step # "free" => /\ worker[p] \in Busy
                                    /\ worker[p].item \in ItemIds
<1>1. worker[p] \in Busy \/ worker[p] = Free
  BY DEF TypeOK, QueueTypeOK
<1> QED
  BY <1>1 DEF Busy, Free

(* A job in any state but absent is a Job.                                *)
LEMMA JobExists ==
  ASSUME QueueTypeOK, NEW i \in ItemIds
  PROVE  /\ job[i].state # "absent" => job[i] \in Job
         /\ job[i] \in Job \/ job[i] = NoJob
BY DEF QueueTypeOK, NoJob

(* The fields every job has.                                              *)
LEMMA JobFields ==
  ASSUME NEW j \in Job
  PROVE  /\ j # NoJob
         /\ j.due \in Nat /\ j.stalls \in 0 .. 1
         /\ j.state \in {"delayed", "waiting", "active", "completed", "failed"}
         /\ j.state = "active" => j.owner \in Procs
BY DEF Job, NoJob

(* A job that is moved to another state without an owner is a Job.        *)
LEMMA SettledType ==
  ASSUME NEW i \in ItemIds, job[i] \in Job,
         NEW state \in {"delayed", "waiting", "completed", "failed"}
  PROVE  Settled(i, state) \in Job
<1>1. job[i].due \in Nat /\ job[i].stalls \in 0 .. 1
  BY JobFields
<1> QED
  BY <1>1 DEF Settled, Job

(* Moving a due job to the list keeps the types.                          *)
LEMMA PromoteType ==
  ASSUME TypeInv, NEW p \in Procs, Promote(p)
  PROVE  TypeInv'
<1>1. PICK i \in ItemIds : /\ job[i].state = "delayed"
                           /\ job' = [job EXCEPT ![i] = Settled(i, "waiting")]
                           /\ wait' = Append(wait, i)
  BY DEF Promote
<1>2. wait \in Seq(ItemIds) /\ QueueTypeOK
  BY DEF TypeInv, TypeOK, QueueTypeOK
<1>3. Settled(i, "waiting") \in Job
  BY <1>1, <1>2, JobExists, SettledType
<1>4. /\ wait' \in Seq(ItemIds)
      /\ \A k \in 1 .. Len(wait') :
           wait'[k] = i \/ \E l \in 1 .. Len(wait) : wait'[k] = wait[l]
  BY <1>1, <1>2
<1>5. job' \in [ItemIds -> Job \cup {NoJob}] /\ WaitHasJob'
  BY <1>1, <1>2, <1>3, <1>4, AppendKeepsJobs DEF TypeInv
<1> QED
  BY <1>4, <1>5 DEF Promote, database, TypeInv, TypeOK, DatabaseTypeOK,
                    QueueTypeOK, EndsInTime, CommittedHasItem, Created

(* Taking a job from the list keeps the types.                            *)
LEMMA TakeType ==
  ASSUME TypeInv, NEW p \in Procs, Take(p)
  PROVE  TypeInv'
<1> DEFINE i == Head(wait)
           record == [state |-> "active", due |-> job[i].due,
                      stalls |-> job[i].stalls, owner |-> p]
<1>1. wait \in Seq(ItemIds) /\ wait # <<>> /\ QueueTypeOK /\ WaitHasJob
  BY DEF Take, TypeInv, TypeOK, QueueTypeOK
<1>2. i \in ItemIds /\ i = wait[1] /\ 1 \in 1 .. Len(wait)
  BY <1>1
<1>3. job[i] \in Job
  BY <1>1, <1>2, JobExists DEF WaitHasJob
<1>4. record \in Job
  BY <1>3, JobFields DEF Job
<1>5. /\ job' = [job EXCEPT ![i] = record]
      /\ worker' = [worker EXCEPT ![p] = [step |-> "processing", item |-> i]]
      /\ wait' = Tail(wait)
  BY DEF Take
<1>6. /\ wait' \in Seq(ItemIds)
      /\ \A k \in 1 .. Len(wait') :
           wait'[k] = i \/ \E l \in 1 .. Len(wait) : wait'[k] = wait[l]
  <2>1. Tail(wait) \in Seq(ItemIds) /\ Len(Tail(wait)) = Len(wait) - 1
    BY <1>1
  <2>2. \A k \in 1 .. Len(Tail(wait)) :
          Tail(wait)[k] = wait[k + 1] /\ k + 1 \in 1 .. Len(wait)
    BY <1>1, <2>1
  <2> QED
    BY <1>5, <2>1, <2>2
<1>7. job' \in [ItemIds -> Job \cup {NoJob}] /\ WaitHasJob'
  <2> HIDE DEF record, i
  <2> QED
    BY <1>1, <1>2, <1>4, <1>5, <1>6, AppendKeepsJobs
<1>8. worker' \in [Procs -> Busy \cup {Free}]
  BY <1>2, <1>5 DEF Busy, TypeInv, TypeOK, QueueTypeOK
<1> QED
  BY <1>6, <1>7, <1>8 DEF Take, database, TypeInv, TypeOK, DatabaseTypeOK,
                          QueueTypeOK, EndsInTime, CommittedHasItem, Created

(* What a sequence with a new head contains.                              *)
LEMMA PrependFacts ==
  ASSUME NEW S, NEW s \in Seq(S), NEW e \in S
  PROVE  /\ <<e>> \o s \in Seq(S)
         /\ \A k \in 1 .. Len(<<e>> \o s) :
              (<<e>> \o s)[k] = e \/ \E l \in 1 .. Len(s) : (<<e>> \o s)[k] = s[l]
<1>1. /\ <<e>> \in Seq(S) /\ Len(<<e>>) = 1 /\ <<e>>[1] = e
      /\ Len(s) \in Nat
  OBVIOUS
<1>2. <<e>> \o s \in Seq(S) /\ Len(<<e>> \o s) = 1 + Len(s)
  BY <1>1
<1>3. ASSUME NEW k \in 1 .. Len(<<e>> \o s)
      PROVE  (<<e>> \o s)[k] = e \/ \E l \in 1 .. Len(s) : (<<e>> \o s)[k] = s[l]
  <2>1. CASE k = 1
    BY <1>1, <1>2, <2>1
  <2>2. CASE k # 1
    <3>1. k - 1 \in 1 .. Len(s) /\ (<<e>> \o s)[k] = s[k - 1]
      BY <1>1, <1>2, <2>2
    <3> QED
      BY <3>1
  <2> QED
    BY <2>1, <2>2
<1> QED
  BY <1>2, <1>3

(* Handing on or failing a stalled job keeps the types.                   *)
LEMMA StalledType ==
  ASSUME TypeInv, NEW i \in ItemIds, Stalled(i)
  PROVE  TypeInv'
<1> DEFINE again == [state |-> "waiting", due |-> job[i].due, stalls |-> 1]
<1>1. wait \in Seq(ItemIds) /\ QueueTypeOK /\ WaitHasJob
  BY DEF TypeInv, TypeOK, QueueTypeOK
<1>2. job[i] \in Job
  BY <1>1, JobExists DEF Stalled
<1>3. again \in Job /\ Settled(i, "failed") \in Job
  BY <1>2, JobFields, SettledType DEF Job
<1>4. /\ wait' \in Seq(ItemIds)
      /\ job' \in [ItemIds -> Job \cup {NoJob}]
      /\ WaitHasJob'
  <2>1. CASE job[i].stalls = 0
    <3>1. job' = [job EXCEPT ![i] = again] /\ wait' = <<i>> \o wait
      BY <2>1 DEF Stalled
    <3>2. /\ wait' \in Seq(ItemIds)
          /\ \A k \in 1 .. Len(wait') :
               wait'[k] = i \/ \E l \in 1 .. Len(wait) : wait'[k] = wait[l]
      BY <1>1, <3>1, PrependFacts
    <3> HIDE DEF again
    <3> QED
      BY <1>1, <1>3, <3>1, <3>2, AppendKeepsJobs
  <2>2. CASE job[i].stalls # 0
    <3>1. job' = [job EXCEPT ![i] = Settled(i, "failed")] /\ wait' = wait
      BY <2>2 DEF Stalled
    <3> QED
      BY <1>1, <1>3, <3>1, AppendKeepsJobs
  <2> QED
    BY <2>1, <2>2
<1> QED
  BY <1>4 DEF Stalled, database, TypeInv, TypeOK, DatabaseTypeOK, QueueTypeOK,
              EndsInTime, CommittedHasItem, Created

(* Closing an item keeps every item's type and end.                        *)
LEMMA FinishType ==
  ASSUME TypeInv, NEW i \in ItemIds, Pending(i), Finish(i)
  PROVE  /\ items[i] \in QueueItem
         /\ items' \in [ItemIds -> QueueItem \cup {NoItem}]
         /\ EndsInTime'
         /\ \A j \in ItemIds : Created(j) => Created(j)'
<1>1. items \in [ItemIds -> QueueItem \cup {NoItem}] /\ items[i] \in QueueItem
  BY ItemExists DEF TypeInv, TypeOK, DatabaseTypeOK
<1> DEFINE closed == [items[i] EXCEPT !.status = "DONE"]
<1>2. closed \in QueueItem /\ closed.endAt = items[i].endAt
  BY <1>1 DEF QueueItem, BuildingItem, ResearchItem, ShipItem, Status
<1>3. items' = [items EXCEPT ![i] = closed]
  BY DEF Finish
<1> HIDE DEF closed
<1>4. items' \in [ItemIds -> QueueItem \cup {NoItem}]
  BY <1>1, <1>2, <1>3
<1>5. ASSUME NEW j \in ItemIds, Created(j)
      PROVE  items'[j] # NoItem /\ items'[j].endAt = items[j].endAt
  BY <1>1, <1>2, <1>3, <1>5, ItemFields DEF Created
<1>6. ASSUME NEW j \in ItemIds, items'[j] # NoItem
      PROVE  Created(j)
  BY <1>1, <1>3, <1>6, ItemFields DEF Created
<1>7. EndsInTime'
  BY <1>5, <1>6 DEF TypeInv, EndsInTime, Created
<1> QED
  BY <1>1, <1>4, <1>5, <1>7 DEF Created

(* The worker of a processed job stays typed.                              *)
LEMMA ProcessedType ==
  ASSUME TypeOK, NEW p \in Procs, worker[p].step # "free", Processed(p)
  PROVE  worker' \in [Procs -> Busy \cup {Free}]
<1>1. worker[p] \in Busy
  BY WorkerType
<1>2. [worker[p] EXCEPT !.step = "finalized"] \in Busy
  BY <1>1 DEF Busy
<1> QED
  BY <1>2 DEF Processed, TypeOK, QueueTypeOK

(* Delivering a building level keeps the types.                           *)
LEMMA FinishBuildingType ==
  ASSUME TypeInv, NEW p \in Procs, FinishBuilding(p)
  PROVE  TypeInv'
<1> DEFINE i == worker[p].item
           pl == items[i].planet
<1>1. /\ worker[p].step = "processing" /\ i \in ItemIds
      /\ Pending(i) /\ items[i].type = "BUILDING" /\ Finish(i) /\ Processed(p)
  BY WorkerType DEF FinishBuilding, Finalizable, TypeInv
<1>2. /\ items[i] \in QueueItem
      /\ items' \in [ItemIds -> QueueItem \cup {NoItem}]
      /\ EndsInTime' /\ \A j \in ItemIds : Created(j) => Created(j)'
  BY <1>1, FinishType
<1>3. pl \in Planets /\ items[i].key \in Buildings /\ items[i].n \in Levels
  BY <1>1, <1>2, ItemFields DEF BuildingItem
<1>4. level' \in [Planets -> LevelMap]
  BY <1>3 DEF FinishBuilding, LevelMap, TypeInv, TypeOK, DatabaseTypeOK
<1>5. ProductionRate[level'[pl]][factor[pl]] \in Amount
  BY <1>3, <1>4, FormulasAssumption DEF TypeInv, TypeOK, DatabaseTypeOK
<1>6. production' \in [Planets -> Amount]
  BY <1>3, <1>5
     DEF FinishBuilding, RecomputeProduction, TypeInv, TypeOK, DatabaseTypeOK
<1>7. worker' \in [Procs -> Busy \cup {Free}]
  BY <1>1, ProcessedType DEF TypeInv
<1>8. CommittedHasItem'
  BY <1>2, RequestType DEF FinishBuilding, TypeInv, CommittedHasItem, Created
<1> QED
  BY <1>2, <1>4, <1>6, <1>7, <1>8
     DEF FinishBuilding, redis, TypeInv, TypeOK, DatabaseTypeOK, QueueTypeOK,
         WaitHasJob

(* Delivering a research level keeps the types.                           *)
LEMMA FinishResearchType ==
  ASSUME TypeInv, NEW p \in Procs, FinishResearch(p)
  PROVE  TypeInv'
<1> DEFINE i == worker[p].item
<1>1. /\ worker[p].step = "processing" /\ i \in ItemIds
      /\ Pending(i) /\ items[i].type = "RESEARCH" /\ Finish(i) /\ Processed(p)
  BY WorkerType DEF FinishResearch, Finalizable, TypeInv
<1>2. /\ items[i] \in QueueItem
      /\ items' \in [ItemIds -> QueueItem \cup {NoItem}]
      /\ EndsInTime' /\ \A j \in ItemIds : Created(j) => Created(j)'
  BY <1>1, FinishType
<1>3. /\ items[i].planet \in Planets /\ items[i].key \in Techs
      /\ items[i].n \in Levels
  BY <1>1, <1>2, ItemFields DEF ResearchItem
<1>4. research' \in [Planets -> [Techs -> Levels]]
  BY <1>3 DEF FinishResearch, TypeInv, TypeOK, DatabaseTypeOK
<1>5. worker' \in [Procs -> Busy \cup {Free}]
  BY <1>1, ProcessedType DEF TypeInv
<1>6. CommittedHasItem'
  BY <1>2, RequestType DEF FinishResearch, TypeInv, CommittedHasItem, Created
<1> QED
  BY <1>2, <1>4, <1>5, <1>6
     DEF FinishResearch, redis, TypeInv, TypeOK, DatabaseTypeOK, QueueTypeOK,
         WaitHasJob

(* Delivering ships keeps the types.                                      *)
LEMMA FinishShipsType ==
  ASSUME TypeInv, NEW p \in Procs, FinishShips(p)
  PROVE  TypeInv'
<1> DEFINE i == worker[p].item
<1>1. /\ worker[p].step = "processing" /\ i \in ItemIds
      /\ Pending(i) /\ items[i].type = "SHIP" /\ Finish(i) /\ Processed(p)
  BY WorkerType DEF FinishShips, Finalizable, TypeInv
<1>2. /\ items[i] \in QueueItem
      /\ items' \in [ItemIds -> QueueItem \cup {NoItem}]
      /\ EndsInTime' /\ \A j \in ItemIds : Created(j) => Created(j)'
  BY <1>1, FinishType
<1>3. /\ items[i].planet \in Planets /\ items[i].key \in ShipKeys
      /\ items[i].n \in Nat
  BY <1>1, <1>2, ItemFields, InputsAssumption DEF ShipItem, Positive
<1>4. ships' \in [Planets -> [ShipKeys -> Nat]]
  BY <1>3 DEF FinishShips, TypeInv, TypeOK, DatabaseTypeOK
<1>5. worker' \in [Procs -> Busy \cup {Free}]
  BY <1>1, ProcessedType DEF TypeInv
<1>6. CommittedHasItem'
  BY <1>2, RequestType DEF FinishShips, TypeInv, CommittedHasItem, Created
<1> QED
  BY <1>2, <1>4, <1>5, <1>6
     DEF FinishShips, redis, TypeInv, TypeOK, DatabaseTypeOK, QueueTypeOK,
         WaitHasJob

(* The early return of finalizeQueueItem keeps the types.                 *)
LEMMA SkipFinalizeType ==
  ASSUME TypeInv, NEW p \in Procs, SkipFinalize(p)
  PROVE  TypeInv'
<1>1. worker' \in [Procs -> Busy \cup {Free}]
  BY ProcessedType DEF SkipFinalize, TypeInv
<1> QED
  BY <1>1 DEF SkipFinalize, database, redis, TypeInv, TypeOK, DatabaseTypeOK,
              QueueTypeOK, EndsInTime, WaitHasJob, CommittedHasItem, Created

(* Settling a job, as a success or as a failure.                           *)
LEMMA SettleType ==
  ASSUME TypeInv, NEW p \in Procs, worker[p].step # "free",
         NEW state \in {"completed", "failed"}, Settle(p, state)
  PROVE  TypeInv'
<1> DEFINE i == worker[p].item
<1>1. i \in ItemIds /\ QueueTypeOK /\ WaitHasJob /\ wait' = wait
  BY WorkerType DEF Settle, TypeInv, TypeOK
<1>2. worker' \in [Procs -> Busy \cup {Free}]
  BY <1>1 DEF Settle, QueueTypeOK
<1>3. job' \in [ItemIds -> Job \cup {NoJob}] /\ WaitHasJob'
  <2>1. CASE HoldsLock(p, i)
    <3>1. job[i] \in Job
      BY <1>1, <2>1, JobExists DEF HoldsLock
    <3>2. Settled(i, state) \in Job
      BY <1>1, <3>1, SettledType
    <3>3. job' = [job EXCEPT ![i] = Settled(i, state)]
      BY <2>1 DEF Settle
    <3>4. wait' \in Seq(ItemIds)
      BY <1>1 DEF QueueTypeOK
    <3> HIDE DEF i
    <3> QED
      BY <1>1, <3>2, <3>3, <3>4, AppendKeepsJobs
  <2>2. CASE ~HoldsLock(p, i)
    BY <1>1, <2>2 DEF Settle, QueueTypeOK, WaitHasJob
  <2> QED
    BY <2>1, <2>2
<1> QED
  BY <1>1, <1>2, <1>3 DEF Settle, database, TypeInv, TypeOK, DatabaseTypeOK,
                          QueueTypeOK, EndsInTime, CommittedHasItem, Created

(* Time passing keeps the types.                                          *)
LEMMA TickType ==
  ASSUME TypeInv, Tick
  PROVE  TypeInv'
BY DEF Tick, database, redis, TypeInv, TypeOK, DatabaseTypeOK, QueueTypeOK,
       EndsInTime, WaitHasJob, CommittedHasItem, Created

(* A process that dies keeps the types.                                   *)
LEMMA CrashType ==
  ASSUME TypeInv, NEW p \in Procs, Crash(p)
  PROVE  TypeInv'
<1>1. worker' \in [Procs -> Busy \cup {Free}]
  BY DEF Crash, TypeInv, TypeOK, QueueTypeOK
<1>2. req' \in [Handlers -> InFlight \cup {Idle}]
  BY DEF Crash, TypeInv, TypeOK, QueueTypeOK
<1>3. CommittedHasItem'
  BY DEF Crash, Idle, database, TypeInv, CommittedHasItem, Created
<1> QED
  BY <1>1, <1>2, <1>3 DEF Crash, database, redis, TypeInv, TypeOK,
                          DatabaseTypeOK, QueueTypeOK, EndsInTime, WaitHasJob,
                          Created

(* The rows of registration are typed.                                    *)
LEMMA InitType == Init => TypeInv
<1> SUFFICES ASSUME Init PROVE TypeInv
  OBVIOUS
<1>1. level \in [Planets -> LevelMap] /\ factor \in [Planets -> FactorMap]
  BY FormulasAssumption, InputsAssumption DEF Init, FactorMap
<1>2. production \in [Planets -> Amount]
  <2>1. \A pl \in Planets : RateOf(pl) \in Amount
    BY <1>1, FormulasAssumption DEF RateOf
  <2> QED
    BY <2>1 DEF Init
<1>3. DatabaseTypeOK
  <2>1. balance \in [Planets -> Amount] /\ lastCalculatedAt \in [Planets -> Nat]
    BY FormulasAssumption DEF Init
  <2>2. 0 \in Levels
    BY BoundsAssumption DEF Levels
  <2>3. research \in [Planets -> [Techs -> Levels]]
    BY <2>2 DEF Init
  <2>4. ships \in [Planets -> [ShipKeys -> Nat]]
    BY DEF Init
  <2>5. items \in [ItemIds -> QueueItem \cup {NoItem}]
    BY DEF Init
  <2> QED
    BY <1>1, <1>2, <2>1, <2>3, <2>4, <2>5 DEF DatabaseTypeOK
<1>4. QueueTypeOK
  BY DEF Init, QueueTypeOK
<1> QED
  BY <1>3, <1>4 DEF Init, Idle, TypeInv, TypeOK, EndsInTime, WaitHasJob,
                    CommittedHasItem, Created

(* Every step keeps the types.                                             *)
LEMMA NextType == TypeInv /\ [Next]_vars => TypeInv'
<1> SUFFICES ASSUME TypeInv, [Next]_vars PROVE TypeInv'
  OBVIOUS
<1>1. CASE Tick
  BY <1>1, TickType
<1>2. ASSUME NEW h \in Handlers, Receive(h) \/ Handle(h) \/ Abort(h)
      PROVE  TypeInv'
  <2>1. CASE Receive(h)
    BY <2>1, ReceiveType
  <2>2. CASE GetOverview(h)
    BY <2>2, GetOverviewType
  <2>3. CASE UpdateProductionFactor(h)
    BY <2>3, UpdateProductionFactorType
  <2>4. CASE StartBuilding(h)
    BY <2>4, StartBuildingType
  <2>5. CASE StartShips(h)
    BY <2>5, StartShipsType
  <2>6. CASE StartResearch(h)
    BY <2>6, StartResearchType
  <2>7. CASE Reject(h) \/ Abort(h)
    BY <2>7, EndOfRequestType DEF Reject, Abort
  <2>8. CASE ScheduleQueueItem(h)
    BY <2>8, ScheduleQueueItemType
  <2> QED
    BY <1>2, <2>1, <2>2, <2>3, <2>4, <2>5, <2>6, <2>7, <2>8 DEF Handle
<1>3. ASSUME NEW p \in Procs, Work(p) \/ FinalizeFails(p) \/ Crash(p)
      PROVE  TypeInv'
  <2>1. CASE Promote(p)
    BY <2>1, PromoteType
  <2>2. CASE Take(p)
    BY <2>2, TakeType
  <2>3. CASE FinishBuilding(p)
    BY <2>3, FinishBuildingType
  <2>4. CASE FinishResearch(p)
    BY <2>4, FinishResearchType
  <2>5. CASE FinishShips(p)
    BY <2>5, FinishShipsType
  <2>6. CASE SkipFinalize(p)
    BY <2>6, SkipFinalizeType
  <2>7. CASE CompleteJob(p) \/ FinalizeFails(p)
    BY <2>7, SettleType DEF CompleteJob, FinalizeFails
  <2>8. CASE Crash(p)
    BY <2>8, CrashType
  <2> QED
    BY <1>3, <2>1, <2>2, <2>3, <2>4, <2>5, <2>6, <2>7, <2>8 DEF Work
<1>4. ASSUME NEW i \in ItemIds, Stalled(i)
      PROVE  TypeInv'
  BY <1>4, StalledType
<1>5. CASE UNCHANGED vars
  BY <1>5 DEF vars, database, redis, TypeInv, TypeOK, DatabaseTypeOK,
              QueueTypeOK, EndsInTime, WaitHasJob, CommittedHasItem, Created
<1> QED
  BY <1>1, <1>2, <1>3, <1>4, <1>5 DEF Next

(* Types hold in every behaviour, with the facts they rest on.             *)
THEOREM TypeInvariant == Spec => []TypeInv
BY InitType, NextType, PTL DEF Spec

(* Every row, job, request and worker keeps its type in every behaviour:   *)
(* in particular no transaction ever writes a negative balance.            *)
THEOREM TypeCorrect == Spec => []TypeOK
<1>1. TypeInv => TypeOK
  BY DEF TypeInv
<1> QED
  BY <1>1, TypeInvariant, PTL

-----------------------------------------------------------------------------
(* A step leaves the orders alone, places one, or delivers one.            *)

TouchesNoOrder == UNCHANGED <<items, level, research, ships>>

\* What the handlers have checked about an order they place.
Legal(order) ==
  /\ order.status = "PENDING"
  /\ order.type # "BUILDING" => PendingOf(order.type, order.planet) = {}
  /\ order.type = "RESEARCH" =>
       order.n = research[order.planet][order.key] + 1
  /\ order.type = "BUILDING" =>
       /\ order.startAt < order.endAt
       /\ \A i \in PendingOf("BUILDING", order.planet) :
            items[i].endAt <= order.startAt

Places(f, order) ==
  /\ items[f] = NoItem
  /\ Legal(order)
  /\ items' = [items EXCEPT ![f] = order]
  /\ UNCHANGED <<level, research, ships>>

\* What a handler that has just looked does besides: it knows the level that
\* comes next, pays, and has the job to add.
AtNextLevel(order) ==
  order.type = "BUILDING" => order.n = NextLevel(order.planet, order.key)
Commits(h, f, order) ==
  /\ req[h].pc = "received"
  /\ AtNextLevel(order)
  /\ HasEnough(BalanceAt(order.planet, req[h].now), PriceOf(order))
  /\ Spend(order.planet, req[h].now, PriceOf(order))
  /\ order.type = "BUILDING" =>
       order.endAt >= req[h].now + BuildingTime[order.key][order.n]
  /\ req' = [req EXCEPT ![h] = [pc |-> "committed", now |-> req[h].now,
                                item |-> f]]
  /\ UNCHANGED <<clock, production, factor, redis, worker>>

DeliveringBuilding(i) ==
  /\ items[i].type = "BUILDING"
  /\ level' = [level EXCEPT ![items[i].planet][items[i].key] = items[i].n]
  /\ UNCHANGED <<research, ships>>
DeliveringResearch(i) ==
  /\ items[i].type = "RESEARCH"
  /\ research' = [research EXCEPT ![items[i].planet][items[i].key] = items[i].n]
  /\ UNCHANGED <<level, ships>>
DeliveringShips(i) ==
  /\ items[i].type = "SHIP"
  /\ ships' = [ships EXCEPT ![items[i].planet][items[i].key] = @ + items[i].n]
  /\ UNCHANGED <<level, research>>

Closes(p, i) ==
  /\ worker[p].step = "processing" /\ worker[p].item = i
  /\ Finalizable(p, i)
  /\ Finish(i)
  /\ DeliveringBuilding(i) \/ DeliveringResearch(i) \/ DeliveringShips(i)

(* The price of an order is an amount.                                     *)
LEMMA PriceType ==
  ASSUME NEW order \in QueueItem
  PROVE  PriceOf(order) \in Amount
BY FormulasAssumption DEF QueueItem, BuildingItem, ResearchItem, ShipItem, PriceOf

(* A legal order that is paid for is placed, and its handler committed.    *)
LEMMA PaidOrderPlaces ==
  ASSUME NEW h \in Handlers, req[h].pc = "received",
         NEW order \in QueueItem, NEW cost,
         Legal(order), AtNextLevel(order), cost = PriceOf(order), CanPay(order, cost, req[h].now),
         PlaceOrder(h, order, cost),
         order.type = "BUILDING" =>
           order.endAt >= req[h].now + BuildingTime[order.key][order.n]
  PROVE  \E f \in ItemIds, placed \in QueueItem :
           Places(f, placed) /\ Commits(h, f, placed)
<1>1. FreshId \in ItemIds /\ items[FreshId] = NoItem
  BY FreshIdType DEF CanPay
<1>2. Places(FreshId, order) /\ Commits(h, FreshId, order)
  BY <1>1 DEF PlaceOrder, CanPay, Places, Commits
<1> QED
  BY <1>1, <1>2

(* The order a building request computes is legal: it is for the next      *)
(* level and starts when the last pending building of the planet ends.     *)
LEMMA BuildingOrderLegal ==
  ASSUME TypeInv, NEW h \in Handlers, Handling(h, "startBuilding"),
         CanStartBuilding(req[h].body, req[h].now)
  PROVE  LET body  == req[h].body
             order == BuildingOrder(body, req[h].now)
             cost  == BuildingCost[body.key][order.n]
         IN  /\ order \in QueueItem /\ order.type = "BUILDING"
             /\ Legal(order) /\ AtNextLevel(order)
             /\ order.endAt >= req[h].now + BuildingTime[order.key][order.n]
             /\ cost = PriceOf(order) /\ CanPay(order, cost, req[h].now)
<1> DEFINE body == req[h].body
           now == req[h].now
           order == BuildingOrder(body, now)
           n == NextLevel(body.planet, body.key)
           start == BuildStart(body.planet, now)
           cost == BuildingCost[body.key][order.n]
<1>1. /\ now \in Nat /\ body.planet \in Planets
      /\ order \in QueueItem /\ order.n = n
  BY BuildingOrderType
<1>2. /\ start \in Nat /\ start >= now
      /\ \A i \in PendingOf("BUILDING", body.planet) : items[i].endAt <= start
  BY <1>1, BuildStartType DEF TypeInv, TypeOK
<1>3. /\ order.status = "PENDING" /\ order.type = "BUILDING"
      /\ order.planet = body.planet /\ order.key = body.key
      /\ order.startAt = start
      /\ order.endAt = start + BuildingTime[body.key][n]
  BY DEF BuildingOrder
<1>4. BuildingTime[body.key][n] \in Positive
  <2>1. body.key \in Buildings /\ n \in Levels
    BY <1>1, <1>3, ItemFields DEF BuildingItem
  <2> QED
    BY <2>1, FormulasAssumption
<1>5. order.startAt < order.endAt /\ order.endAt >= now + BuildingTime[body.key][n]
  <2> HIDE DEF n, start, order, now
  <2> QED
    BY <1>1, <1>2, <1>3, <1>4 DEF Positive
<1>6. Legal(order) /\ AtNextLevel(order)
  BY <1>1, <1>2, <1>3, <1>5 DEF Legal, AtNextLevel
<1>7. cost = PriceOf(order) /\ CanPay(order, cost, now)
  BY <1>1, <1>3 DEF PriceOf, CanStartBuilding
<1> HIDE DEF order, cost, n
<1> QED
  BY <1>1, <1>3, <1>5, <1>6, <1>7 DEF order, cost

(* So it is placed.                                                        *)
LEMMA StartBuildingPlaces ==
  ASSUME TypeInv, NEW h \in Handlers, StartBuilding(h)
  PROVE  \E f \in ItemIds, order \in QueueItem :
           Places(f, order) /\ Commits(h, f, order)
<1> DEFINE order == BuildingOrder(req[h].body, req[h].now)
           cost == BuildingCost[req[h].body.key][order.n]
<1>1. Handling(h, "startBuilding") /\ CanStartBuilding(req[h].body, req[h].now)
  BY DEF StartBuilding
<1>2. /\ order \in QueueItem /\ Legal(order) /\ AtNextLevel(order)
      /\ order.endAt >= req[h].now + BuildingTime[order.key][order.n]
      /\ cost = PriceOf(order) /\ CanPay(order, cost, req[h].now)
  BY <1>1, BuildingOrderLegal
<1>3. req[h].pc = "received" /\ PlaceOrder(h, order, cost)
  BY <1>1 DEF StartBuilding, Handling
<1> HIDE DEF order, cost
<1> QED
  BY <1>2, <1>3, PaidOrderPlaces

(* The order a shipyard request computes is the only one of its planet.    *)
LEMMA ShipOrderLegal ==
  ASSUME TypeInv, NEW h \in Handlers, Handling(h, "startShips"),
         CanStartShips(req[h].body, req[h].now)
  PROVE  LET body  == req[h].body
             order == ShipOrder(body, req[h].now)
             cost  == ShipCost[body.key][body.qty]
         IN  /\ order \in QueueItem /\ order.type = "SHIP"
             /\ Legal(order) /\ AtNextLevel(order)
             /\ cost = PriceOf(order) /\ CanPay(order, cost, req[h].now)
<1> DEFINE body == req[h].body
           order == ShipOrder(body, req[h].now)
<1>1. order \in QueueItem /\ NoPending("SHIP", body.planet)
  BY ShipOrderType DEF CanStartShips
<1>2. /\ order.status = "PENDING" /\ order.type = "SHIP"
      /\ order.planet = body.planet /\ order.key = body.key
      /\ order.n = body.qty
  BY DEF ShipOrder
<1>3. Legal(order) /\ AtNextLevel(order)
  BY <1>1, <1>2 DEF Legal, NoPending, AtNextLevel
<1>4. ShipCost[body.key][body.qty] = PriceOf(order)
  BY <1>2 DEF PriceOf
<1> QED
  BY <1>1, <1>2, <1>3, <1>4 DEF CanStartShips

LEMMA StartShipsPlaces ==
  ASSUME TypeInv, NEW h \in Handlers, StartShips(h)
  PROVE  \E f \in ItemIds, order \in QueueItem :
           Places(f, order) /\ Commits(h, f, order)
<1> DEFINE order == ShipOrder(req[h].body, req[h].now)
           cost == ShipCost[req[h].body.key][req[h].body.qty]
<1>1. Handling(h, "startShips") /\ CanStartShips(req[h].body, req[h].now)
  BY DEF StartShips
<1>2. /\ order \in QueueItem /\ Legal(order) /\ AtNextLevel(order)
      /\ order.type = "SHIP"
      /\ cost = PriceOf(order) /\ CanPay(order, cost, req[h].now)
  BY <1>1, ShipOrderLegal
<1>3. req[h].pc = "received" /\ PlaceOrder(h, order, cost)
  BY <1>1 DEF StartShips, Handling
<1> HIDE DEF order, cost
<1> QED
  BY <1>2, <1>3, PaidOrderPlaces

(* The order a research request computes is the only one of its player,    *)
(* and for the level that follows the present one.                         *)
LEMMA ResearchOrderLegal ==
  ASSUME TypeInv, NEW h \in Handlers, Handling(h, "startResearch"),
         CanStartResearch(req[h].body, req[h].now)
  PROVE  LET body  == req[h].body
             order == ResearchOrder(body, req[h].now)
             cost  == ResearchCost[body.key][order.n]
         IN  /\ order \in QueueItem /\ order.type = "RESEARCH"
             /\ Legal(order) /\ AtNextLevel(order)
             /\ cost = PriceOf(order) /\ CanPay(order, cost, req[h].now)
<1> DEFINE body == req[h].body
           order == ResearchOrder(body, req[h].now)
           cost == ResearchCost[body.key][order.n]
<1>1. /\ order \in QueueItem /\ NoPending("RESEARCH", body.player)
      /\ order.n = research[body.player][body.key] + 1
  BY ResearchOrderType DEF CanStartResearch
<1>2. /\ order.status = "PENDING" /\ order.type = "RESEARCH"
      /\ order.planet = body.player /\ order.key = body.key
  BY DEF ResearchOrder
<1>3. Legal(order) /\ AtNextLevel(order)
  BY <1>1, <1>2 DEF Legal, NoPending, AtNextLevel
<1>4. cost = PriceOf(order) /\ CanPay(order, cost, req[h].now)
  BY <1>1, <1>2 DEF PriceOf, CanStartResearch
<1> QED
  BY <1>1, <1>2, <1>3, <1>4

LEMMA StartResearchPlaces ==
  ASSUME TypeInv, NEW h \in Handlers, StartResearch(h)
  PROVE  \E f \in ItemIds, order \in QueueItem :
           Places(f, order) /\ Commits(h, f, order)
<1> DEFINE order == ResearchOrder(req[h].body, req[h].now)
           cost == ResearchCost[req[h].body.key][order.n]
<1>1. Handling(h, "startResearch") /\ CanStartResearch(req[h].body, req[h].now)
  BY DEF StartResearch
<1>2. /\ order \in QueueItem /\ Legal(order) /\ AtNextLevel(order)
      /\ order.type = "RESEARCH"
      /\ cost = PriceOf(order) /\ CanPay(order, cost, req[h].now)
  BY <1>1, ResearchOrderLegal
<1>3. req[h].pc = "received" /\ PlaceOrder(h, order, cost)
  BY <1>1 DEF StartResearch, Handling
<1> HIDE DEF order, cost
<1> QED
  BY <1>2, <1>3, PaidOrderPlaces

\* The three kinds of steps.
OrderStep ==
  \/ TouchesNoOrder
  \/ \E f \in ItemIds, order \in QueueItem : Places(f, order)
  \/ \E p \in Procs, i \in ItemIds : Closes(p, i)

(* Every step of Astraxis is of one of the three kinds.                    *)
LEMMA OrderSteps ==
  ASSUME TypeInv, [Next]_vars
  PROVE  \/ TouchesNoOrder
         \/ \E f \in ItemIds, order \in QueueItem :
              Places(f, order) /\ AtNextLevel(order)
         \/ \E p \in Procs, i \in ItemIds : Closes(p, i)
<1>1. CASE Tick
  BY <1>1 DEF Tick, database, TouchesNoOrder
<1>2. ASSUME NEW h \in Handlers, Receive(h) \/ Handle(h) \/ Abort(h)
      PROVE  \/ TouchesNoOrder
             \/ \E f \in ItemIds, order \in QueueItem :
                  Places(f, order) /\ AtNextLevel(order)
  <2>1. CASE Receive(h) \/ Abort(h) \/ Reject(h) \/ ScheduleQueueItem(h)
    BY <2>1 DEF Receive, Abort, Reject, ScheduleQueueItem, database, TouchesNoOrder
  <2>2. CASE GetOverview(h) \/ UpdateProductionFactor(h)
    BY <2>2 DEF GetOverview, UpdateProductionFactor, TouchesNoOrder
  <2>3. CASE StartBuilding(h)
    BY <2>3, StartBuildingPlaces DEF Commits
  <2>4. CASE StartShips(h)
    BY <2>4, StartShipsPlaces DEF Commits
  <2>5. CASE StartResearch(h)
    BY <2>5, StartResearchPlaces DEF Commits
  <2> QED
    BY <1>2, <2>1, <2>2, <2>3, <2>4, <2>5 DEF Handle
<1>3. ASSUME NEW p \in Procs, Work(p) \/ FinalizeFails(p) \/ Crash(p)
      PROVE  TouchesNoOrder \/ \E i \in ItemIds : Closes(p, i)
  <2>1. CASE Promote(p) \/ Take(p) \/ SkipFinalize(p) \/ Crash(p)
    BY <2>1 DEF Promote, Take, SkipFinalize, Crash, database, TouchesNoOrder
  <2>2. CASE CompleteJob(p) \/ FinalizeFails(p)
    BY <2>2 DEF CompleteJob, FinalizeFails, Settle, database, TouchesNoOrder
  <2>3. CASE FinishBuilding(p) \/ FinishResearch(p) \/ FinishShips(p)
    <3>1. worker[p].item \in ItemIds
      BY <2>3, WorkerType DEF FinishBuilding, FinishResearch, FinishShips, TypeInv
    <3>2. Closes(p, worker[p].item)
      BY <2>3 DEF FinishBuilding, FinishResearch, FinishShips, Closes,
                  DeliveringBuilding, DeliveringResearch, DeliveringShips
    <3> QED
      BY <3>1, <3>2
  <2> QED
    BY <1>3, <2>1, <2>2, <2>3 DEF Work
<1>4. ASSUME NEW i \in ItemIds, Stalled(i)
      PROVE  TouchesNoOrder
  BY <1>4 DEF Stalled, database, TouchesNoOrder
<1>5. CASE UNCHANGED vars
  BY <1>5 DEF vars, database, TouchesNoOrder
<1> QED
  BY <1>1, <1>2, <1>3, <1>4, <1>5 DEF Next

LEMMA OrderStepOfNext == TypeInv /\ [Next]_vars => OrderStep
BY OrderSteps DEF OrderStep

(* What placing an order does to the queue items.                          *)
LEMMA PlacedItems ==
  ASSUME TypeInv, NEW f \in ItemIds, NEW order \in QueueItem, Places(f, order)
  PROVE  /\ items'[f] = order
         /\ ~Pending(f) /\ ~Done(f)
         /\ \A i \in ItemIds : i # f => items'[i] = items[i]
         /\ \A i \in ItemIds : Pending(i)' <=> Pending(i) \/ i = f
         /\ \A i \in ItemIds : Done(i)' <=> Done(i)
<1>1. items \in [ItemIds -> QueueItem \cup {NoItem}] /\ DatabaseTypeOK
  BY DEF TypeInv, TypeOK, DatabaseTypeOK
<1>2. items' = [items EXCEPT ![f] = order] /\ items[f] = NoItem
      /\ order.status = "PENDING"
  BY DEF Places, Legal
<1>3. ~Pending(f) /\ ~Done(f)
  BY <1>1, <1>2, ItemExists
<1> QED
  BY <1>1, <1>2, <1>3 DEF Pending, Done

(* What closing an order does to the queue items.                          *)
LEMMA ClosedItems ==
  ASSUME TypeInv, NEW i \in ItemIds, Pending(i), Finish(i)
  PROVE  /\ items[i] \in QueueItem
         /\ \A j \in ItemIds : j # i => items'[j] = items[j]
         /\ \A j \in ItemIds : Pending(j)' <=> Pending(j) /\ j # i
         /\ \A j \in ItemIds : Done(j)' <=> Done(j) \/ j = i
         /\ ~Done(i)
         /\ \A j \in ItemIds : Created(j) =>
              /\ items'[j].type = items[j].type
              /\ items'[j].planet = items[j].planet
              /\ items'[j].key = items[j].key
              /\ items'[j].n = items[j].n
              /\ items'[j].startAt = items[j].startAt
              /\ items'[j].endAt = items[j].endAt
<1> DEFINE closed == [items[i] EXCEPT !.status = "DONE"]
<1>1. items \in [ItemIds -> QueueItem \cup {NoItem}] /\ items[i] \in QueueItem
  BY ItemExists DEF TypeInv, TypeOK, DatabaseTypeOK
<1>2. /\ closed.status = "DONE"
      /\ closed.type = items[i].type /\ closed.planet = items[i].planet
      /\ closed.key = items[i].key /\ closed.n = items[i].n
      /\ closed.startAt = items[i].startAt /\ closed.endAt = items[i].endAt
  BY <1>1 DEF QueueItem, BuildingItem, ResearchItem, ShipItem
<1>3. items' = [items EXCEPT ![i] = closed]
  BY DEF Finish
<1> HIDE DEF closed
<1>4. items'[i] = closed /\ \A j \in ItemIds : j # i => items'[j] = items[j]
  BY <1>1, <1>3
<1>5. ~Done(i)
  BY DEF Pending, Done
<1>6. \A j \in ItemIds : /\ Pending(j)' <=> Pending(j) /\ j # i
                         /\ Done(j)' <=> Done(j) \/ j = i
  BY <1>2, <1>4 DEF Pending, Done
<1> QED
  BY <1>1, <1>2, <1>4, <1>5, <1>6

-----------------------------------------------------------------------------
(* One ship order per planet, one research per player.                     *)

(* Every step keeps OneOrderAtATime.                                       *)
LEMMA OneOrderStep ==
  ASSUME TypeInv, OneOrderAtATime, OrderStep
  PROVE  OneOrderAtATime'
<1>1. CASE TouchesNoOrder
  BY <1>1 DEF TouchesNoOrder, OneOrderAtATime, PendingOf, Pending
<1>2. ASSUME NEW f \in ItemIds, NEW order \in QueueItem, Places(f, order)
      PROVE  OneOrderAtATime'
  <2> SUFFICES ASSUME NEW pl \in Planets, NEW type \in {"SHIP", "RESEARCH"},
                      NEW i \in ItemIds, NEW j \in ItemIds,
                      Pending(i)', items'[i].type = type, items'[i].planet = pl,
                      Pending(j)', items'[j].type = type, items'[j].planet = pl,
                      i # j
               PROVE  FALSE
    BY DEF OneOrderAtATime, PendingOf
  <2>1. CASE i # f /\ j # f
    BY <1>2, <2>1, PlacedItems DEF OneOrderAtATime, PendingOf
  <2>2. CASE i = f \/ j = f
    <3>1. PICK k \in {i, j} : k # f
      BY <2>2
    <3>2. order.type = type /\ order.planet = pl
      BY <1>2, <2>2, PlacedItems
    <3>3. k \in PendingOf(type, pl)
      BY <1>2, <3>1, PlacedItems DEF PendingOf
    <3> QED
      BY <1>2, <3>2, <3>3 DEF Places, Legal
  <2> QED
    BY <2>1, <2>2
<1>3. ASSUME NEW p \in Procs, NEW c \in ItemIds, Closes(p, c)
      PROVE  OneOrderAtATime'
  <2>1. \A pl \in Planets, type \in {"SHIP", "RESEARCH"}, i \in ItemIds :
          Pending(i)' /\ items'[i].type = type /\ items'[i].planet = pl =>
            i \in PendingOf(type, pl)
    BY <1>3, ClosedItems DEF Closes, Finalizable, PendingOf
  <2> QED
    BY <2>1 DEF OneOrderAtATime, PendingOf
<1> QED
  BY <1>1, <1>2, <1>3 DEF OrderStep

(* It holds at the start, and in the backend of single-step transactions.  *)
LEMMA NoOrderYet == Init => OneOrderAtATime
BY DEF Init, NoItem, OneOrderAtATime, PendingOf, Pending

LEMMA OneOrderHolds == Spec => []OneOrderAtATime
<1>1. TypeInv /\ OneOrderAtATime /\ [Next]_vars => OneOrderAtATime'
  BY OneOrderStep, OrderStepOfNext
<1> QED
  BY <1>1, NoOrderYet, TypeInvariant, PTL DEF Spec

-----------------------------------------------------------------------------
(* The building queue of a planet.                                         *)

(* Every step keeps BuildingsSequential: a new building starts at or after *)
(* the end of every pending one, whatever `now` its request has read.      *)
LEMMA BuildingsStep ==
  ASSUME TypeInv, BuildingsSequential, OrderStep
  PROVE  BuildingsSequential'
<1>1. CASE TouchesNoOrder
  BY <1>1 DEF TouchesNoOrder, BuildingsSequential, PendingOf, Pending
<1>2. ASSUME NEW f \in ItemIds, NEW order \in QueueItem, Places(f, order)
      PROVE  BuildingsSequential'
  <2> DEFINE Building(i, pl) ==
        Pending(i) /\ items[i].type = "BUILDING" /\ items[i].planet = pl
  <2>1. ASSUME NEW pl \in Planets, NEW i \in ItemIds, i # f, Building(i, pl)'
        PROVE  /\ i \in PendingOf("BUILDING", pl)
               /\ items'[i] = items[i]
               /\ Building(f, pl)' => items'[i].endAt <= items'[f].startAt
    <3>1. items'[i] = items[i] /\ items'[f] = order /\ Pending(i)
      BY <1>2, <2>1, PlacedItems
    <3>2. i \in PendingOf("BUILDING", pl)
      BY <2>1, <3>1 DEF PendingOf
    <3>3. ASSUME Building(f, pl)'
          PROVE  items[i].endAt <= order.startAt
      BY <1>2, <3>1, <3>2, <3>3 DEF Places, Legal
    <3> QED
      BY <3>1, <3>2, <3>3
  <2>2. ASSUME NEW pl \in Planets, NEW i \in ItemIds, NEW j \in ItemIds,
               Building(i, pl)', Building(j, pl)', i # j
        PROVE  \/ items'[i].endAt <= items'[j].startAt
               \/ items'[j].endAt <= items'[i].startAt
    <3>1. CASE i # f /\ j # f
      BY <2>1, <2>2, <3>1 DEF BuildingsSequential
    <3>2. CASE i = f \/ j = f
      BY <2>1, <2>2, <3>2
    <3> QED
      BY <3>1, <3>2
  <2> QED
    BY <2>2 DEF BuildingsSequential, PendingOf
<1>3. ASSUME NEW p \in Procs, NEW c \in ItemIds, Closes(p, c)
      PROVE  BuildingsSequential'
  <2>1. ASSUME NEW i \in ItemIds, Pending(i)'
        PROVE  /\ Pending(i)
               /\ items'[i].type = items[i].type
               /\ items'[i].planet = items[i].planet
               /\ items'[i].startAt = items[i].startAt
               /\ items'[i].endAt = items[i].endAt
    <3>1. Pending(i) /\ i # c
      BY <1>3, <2>1, ClosedItems DEF Closes, Finalizable
    <3> QED
      BY <1>3, <3>1, ClosedItems DEF Closes, Finalizable
  <2> QED
    BY <2>1 DEF BuildingsSequential, PendingOf
<1> QED
  BY <1>1, <1>2, <1>3 DEF OrderStep

LEMMA NoBuildingYet == Init => BuildingsSequential
BY DEF Init, NoItem, BuildingsSequential, PendingOf, Pending

LEMMA SequentialHolds == Spec => []BuildingsSequential
<1>1. TypeInv /\ BuildingsSequential /\ [Next]_vars => BuildingsSequential'
  BY BuildingsStep, OrderStepOfNext
<1> QED
  BY <1>1, NoBuildingYet, TypeInvariant, PTL DEF Spec

-----------------------------------------------------------------------------
(* Research and its ledger.                                                *)

(* Every step keeps ResearchLedger.  It needs OneOrderAtATime: with two    *)
(* pending research orders, delivering one would leave the other ordered   *)
(* for a level that is already reached.                                    *)
LEMMA ResearchStep ==
  ASSUME TypeInv, OneOrderAtATime, ResearchLedger, OrderStep
  PROVE  ResearchLedger'
<1> DEFINE DoneSet(pl, t) == DoneOf("RESEARCH", pl, t)
           NextFor(i, pl, t) ==
             Pending(i) /\ items[i].type = "RESEARCH" /\ items[i].planet = pl
               /\ items[i].key = t => items[i].n = research[pl][t] + 1
<1>1. CASE TouchesNoOrder
  <2>1. \A pl \in Planets, t \in Techs : DoneSet(pl, t)' = DoneSet(pl, t)
    BY <1>1 DEF TouchesNoOrder, DoneOf, Done
  <2> QED
    BY <1>1, <2>1 DEF TouchesNoOrder, ResearchLedger, PendingOf, Pending
<1>2. ASSUME NEW f \in ItemIds, NEW order \in QueueItem, Places(f, order)
      PROVE  ResearchLedger'
  <2>1. /\ research' = research
        /\ \A pl \in Planets, t \in Techs : DoneSet(pl, t)' = DoneSet(pl, t)
    BY <1>2, PlacedItems DEF Places, DoneOf
  <2>2. ASSUME NEW pl \in Planets, NEW t \in Techs, NEW i \in ItemIds
        PROVE  NextFor(i, pl, t)'
    <3>1. CASE i = f
      BY <1>2, <2>1, <3>1, PlacedItems DEF Places, Legal
    <3>2. CASE i # f
      BY <1>2, <2>1, <3>2, PlacedItems DEF ResearchLedger, PendingOf
    <3> QED
      BY <3>1, <3>2
  <2> QED
    BY <2>1, <2>2 DEF ResearchLedger, PendingOf
<1>3. ASSUME NEW p \in Procs, NEW c \in ItemIds, Closes(p, c)
      PROVE  ResearchLedger'
  <2> DEFINE Mine(pl, t) == /\ items[c].type = "RESEARCH"
                            /\ items[c].planet = pl /\ items[c].key = t
  <2>1. Pending(c) /\ Finish(c)
    BY <1>3 DEF Closes, Finalizable
  <2>2. ASSUME NEW i \in ItemIds, Done(i) \/ i = c
        PROVE  /\ items'[i].type = items[i].type
               /\ items'[i].planet = items[i].planet
               /\ items'[i].key = items[i].key
    <3>1. Created(i)
      BY <2>1, <2>2, ItemExists DEF Created, TypeInv, TypeOK
    <3> QED
      BY <2>1, <3>1, ClosedItems
  <2>3. ASSUME NEW pl \in Planets, NEW t \in Techs
        PROVE  DoneSet(pl, t)' =
                 IF Mine(pl, t) THEN DoneSet(pl, t) \cup {c} ELSE DoneSet(pl, t)
    <3>1. \A i \in ItemIds : i \in DoneSet(pl, t)' <=>
              i \in DoneSet(pl, t) \/ (i = c /\ Mine(pl, t))
      BY <2>1, <2>2, ClosedItems DEF DoneOf
    <3> QED
      BY <3>1 DEF DoneOf
  <2>4. ASSUME NEW pl \in Planets, NEW t \in Techs, Mine(pl, t)
        PROVE  Cardinality(DoneSet(pl, t)') = Cardinality(DoneSet(pl, t)) + 1
    <3>1. DoneSet(pl, t) \in SUBSET ItemIds /\ c \notin DoneSet(pl, t)
      BY <2>1, ClosedItems DEF DoneOf
    <3>2. IsFiniteSet(DoneSet(pl, t))
      BY <3>1, FS_Subset, BoundsAssumption
    <3> HIDE DEF DoneSet
    <3>3. Cardinality(DoneSet(pl, t) \cup {c}) = Cardinality(DoneSet(pl, t)) + 1
      BY <3>1, <3>2, FS_AddElement
    <3> QED
      BY <2>3, <2>4, <3>3
  <2>5. ASSUME NEW pl \in Planets, NEW t \in Techs
        PROVE  research'[pl][t] = IF Mine(pl, t) THEN research[pl][t] + 1
                                  ELSE research[pl][t]
    <3>1. CASE items[c].type # "RESEARCH"
      BY <1>3, <3>1 DEF Closes, DeliveringBuilding, DeliveringResearch, DeliveringShips
    <3>2. CASE items[c].type = "RESEARCH"
      <4>1. research' = [research EXCEPT ![items[c].planet][items[c].key] = items[c].n]
        BY <1>3, <3>2 DEF Closes, DeliveringBuilding, DeliveringResearch, DeliveringShips
      <4>2. /\ items[c].planet \in Planets /\ items[c].key \in Techs
            /\ research \in [Planets -> [Techs -> Levels]]
        BY <2>1, <3>2, ClosedItems, ItemFields
           DEF ResearchItem, TypeInv, TypeOK, DatabaseTypeOK
      <4>3. items[c].n = research[items[c].planet][items[c].key] + 1
        BY <2>1, <3>2, <4>2 DEF ResearchLedger, PendingOf
      <4> QED
        BY <3>2, <4>1, <4>2, <4>3
    <3> QED
      BY <3>1, <3>2
  <2>6. ASSUME NEW pl \in Planets, NEW t \in Techs, NEW i \in ItemIds
        PROVE  NextFor(i, pl, t)'
    <3> SUFFICES ASSUME Pending(i)', items'[i].type = "RESEARCH",
                        items'[i].planet = pl, items'[i].key = t
                 PROVE  items'[i].n = research'[pl][t] + 1
      OBVIOUS
    <3>1. i # c /\ items'[i] = items[i] /\ i \in PendingOf("RESEARCH", pl)
      BY <2>1, ClosedItems DEF PendingOf
    <3>2. ~Mine(pl, t)
      BY <2>1, <3>1 DEF OneOrderAtATime, PendingOf
    <3> QED
      BY <2>5, <3>1, <3>2 DEF ResearchLedger
  <2>7. \A pl \in Planets, t \in Techs :
          research'[pl][t] = Cardinality(DoneSet(pl, t)')
    BY <2>3, <2>4, <2>5 DEF ResearchLedger
  <2> QED
    BY <2>6, <2>7 DEF ResearchLedger, PendingOf
<1> QED
  BY <1>1, <1>2, <1>3 DEF OrderStep

LEMMA NoResearchYet == Init => ResearchLedger
<1> SUFFICES ASSUME Init, NEW pl \in Planets, NEW t \in Techs
             PROVE  /\ research[pl][t] = Cardinality(DoneOf("RESEARCH", pl, t))
                    /\ PendingOf("RESEARCH", pl) = {}
  BY DEF ResearchLedger
<1>1. DoneOf("RESEARCH", pl, t) = {} /\ PendingOf("RESEARCH", pl) = {}
  BY DEF Init, NoItem, DoneOf, PendingOf, Done, Pending
<1>2. Cardinality({}) = 0
  BY FS_EmptySet
<1> QED
  BY <1>1, <1>2 DEF Init

LEMMA LedgerHolds == Spec => []ResearchLedger
<1>1. TypeInv /\ OneOrderAtATime /\ ResearchLedger /\ [Next]_vars => ResearchLedger'
  BY ResearchStep, OrderStepOfNext
<1> QED
  BY <1>1, NoResearchYet, TypeInvariant, OneOrderHolds, PTL DEF Spec

-----------------------------------------------------------------------------
(* Deliveries.                                                             *)

(* Every step delivers at most one order, and closed orders stay closed.   *)
LEMMA DeliveryStep ==
  ASSUME TypeInv, ResearchLedger, OrderStep
  PROVE  DeliversAtMostOne
<1>1. CASE TouchesNoOrder
  <2>1. \A i \in ItemIds : ~Delivers(i)
    BY <1>1 DEF TouchesNoOrder, Delivers, Pending, Done
  <2> QED
    BY <1>1, <2>1 DEF TouchesNoOrder, DeliversAtMostOne
<1>2. ASSUME NEW f \in ItemIds, NEW order \in QueueItem, Places(f, order)
      PROVE  DeliversAtMostOne
  <2>1. \A i \in ItemIds : ~Delivers(i)
    BY <1>2, PlacedItems DEF Delivers, Pending, Done
  <2>2. \A i \in ItemIds : Done(i) => items'[i] = items[i]
    BY <1>2, PlacedItems
  <2> QED
    BY <1>2, <2>1, <2>2 DEF Places, DeliversAtMostOne
<1>3. ASSUME NEW p \in Procs, NEW c \in ItemIds, Closes(p, c)
      PROVE  DeliversAtMostOne
  <2>1. Pending(c) /\ Finish(c) /\ items[c].endAt <= Now(p)
    BY <1>3 DEF Closes, Finalizable
  <2>2. /\ Delivers(c)
        /\ \A i \in ItemIds : Delivers(i) => i = c
        /\ \A i \in ItemIds : Done(i) => items'[i] = items[i]
    <3>1. \A i \in ItemIds : /\ Done(i)' <=> Done(i) \/ i = c
                             /\ i # c => items'[i] = items[i]
      BY <2>1, ClosedItems
    <3> QED
      BY <2>1, <3>1 DEF Delivers, Pending, Done
  <2>3. items[c].type = "BUILDING" \/ <<level, research, ships>>' # <<level, research, ships>>
    <3>1. CASE DeliveringBuilding(c)
      BY <3>1 DEF DeliveringBuilding
    <3>2. CASE DeliveringResearch(c)
      <4>1. items[c].planet \in Planets /\ items[c].key \in Techs
        BY <2>1, <3>2, ClosedItems, ItemFields DEF DeliveringResearch, ResearchItem
      <4>2. items[c].n = research[items[c].planet][items[c].key] + 1
        BY <2>1, <3>2, <4>1 DEF DeliveringResearch, ResearchLedger, PendingOf
      <4>3. /\ research \in [Planets -> [Techs -> Levels]]
            /\ research[items[c].planet][items[c].key] \in Nat
        BY <4>1, BoundsAssumption DEF TypeInv, TypeOK, DatabaseTypeOK, Levels
      <4>4. research'[items[c].planet][items[c].key] = items[c].n
        BY <3>2, <4>1, <4>3 DEF DeliveringResearch
      <4>5. research' # research
        BY <4>2, <4>3, <4>4
      <4> QED
        BY <4>5
    <3>3. CASE DeliveringShips(c)
      <4>1. /\ items[c].planet \in Planets /\ items[c].key \in ShipKeys
            /\ items[c].n \in Nat /\ items[c].n > 0
        BY <2>1, <3>3, ClosedItems, ItemFields, InputsAssumption
           DEF DeliveringShips, ShipItem, Positive
      <4>2. /\ ships \in [Planets -> [ShipKeys -> Nat]]
            /\ ships[items[c].planet][items[c].key] \in Nat
        BY <4>1 DEF TypeInv, TypeOK, DatabaseTypeOK
      <4>3. ships'[items[c].planet][items[c].key] =
              ships[items[c].planet][items[c].key] + items[c].n
        BY <3>3, <4>1, <4>2 DEF DeliveringShips
      <4>4. ships' # ships
        BY <4>1, <4>2, <4>3
      <4> QED
        BY <4>4
    <3> QED
      BY <1>3, <3>1, <3>2, <3>3 DEF Closes
  <2> QED
    BY <2>1, <2>2, <2>3 DEF DeliversAtMostOne
<1> QED
  BY <1>1, <1>2, <1>3 DEF OrderStep

-----------------------------------------------------------------------------
(* The order book.                                                         *)

(* The tables of a new universe are an empty book.                         *)
LEMMA BookOpens == Init => Book!Init
BY FormulasAssumption, BoundsAssumption
   DEF Init, Book!Init, LevelMap, Levels

(* What the book calls open is what the database calls pending.            *)
LEMMA OpenIsPending ==
  ASSUME NEW type, NEW pl
  PROVE  Book!OpenOf(type, pl) = PendingOf(type, pl)
BY DEF Book!OpenOf, Book!Open, PendingOf, Pending

(* Placing a legal order enters it in the book: the rules have room for it.*)
LEMMA PlacedIsEntered ==
  ASSUME TypeInv, NEW f \in ItemIds, NEW order \in QueueItem, Places(f, order)
  PROVE  Book!Place(f)
<1>1. /\ items[f] = NoItem /\ items' = [items EXCEPT ![f] = order]
      /\ items'[f] = order /\ Legal(order)
      /\ UNCHANGED <<level, research, ships>>
  BY PlacedItems DEF Places
<1>2. order \in Book!Order
  <2>1. /\ order.status = "PENDING" /\ Levels \subseteq Nat /\ Qty \subseteq Nat
        /\ order \in BuildingItem \cup ResearchItem \cup ShipItem
    BY <1>1, BoundsAssumption, InputsAssumption
       DEF Legal, QueueItem, Levels, Positive
  <2>2. CASE order \in BuildingItem
    BY <2>1, <2>2 DEF BuildingItem, Book!Order, Book!OrderFor
  <2>3. CASE order \in ResearchItem
    BY <2>1, <2>3 DEF ResearchItem, Book!Order, Book!OrderFor
  <2>4. CASE order \in ShipItem
    BY <2>1, <2>4 DEF ShipItem, Book!Order, Book!OrderFor
  <2> QED
    BY <2>1, <2>2, <2>3, <2>4
<1>3. order.type \in {"BUILDING", "RESEARCH", "SHIP"}
  BY DEF QueueItem, BuildingItem, ResearchItem, ShipItem
<1>4. Book!Fits(order)
  <2>1. CASE order.type = "BUILDING"
    BY <1>1, <2>1, OpenIsPending DEF Legal, Book!Fits
  <2>2. CASE order.type = "RESEARCH"
    BY <1>1, <2>2, OpenIsPending DEF Legal, Book!Fits
  <2>3. CASE order.type = "SHIP"
    BY <1>1, <2>3, OpenIsPending DEF Legal, Book!Fits
  <2> QED
    BY <1>3, <2>1, <2>2, <2>3
<1> QED
  BY <1>1, <1>2, <1>4 DEF Book!Place

(* Closing an order delivers it: a research one level more, because the    *)
(* level it was ordered for is still the next one.                         *)
LEMMA ClosedIsDelivered ==
  ASSUME TypeInv, ResearchLedger, NEW p \in Procs, NEW i \in ItemIds, Closes(p, i)
  PROVE  Book!Deliver(i)
<1>1. Pending(i) /\ Finish(i) /\ items[i] \in QueueItem
  BY ClosedItems DEF Closes, Finalizable
<1>2. CASE DeliveringBuilding(i)
  BY <1>1, <1>2 DEF DeliveringBuilding, Finish, Pending, Book!Deliver, Book!Open,
                    Book!DeliverBuilding
<1>3. CASE DeliveringResearch(i)
  <2>1. items[i].planet \in Planets /\ items[i].key \in Techs
    BY <1>1, <1>3, ItemFields DEF DeliveringResearch, ResearchItem
  <2>2. items[i].n = research[items[i].planet][items[i].key] + 1
    BY <1>1, <1>3, <2>1 DEF DeliveringResearch, ResearchLedger, PendingOf
  <2>3. Book!DeliverResearch(items[i])
    BY <1>3, <2>2 DEF DeliveringResearch, Book!DeliverResearch
  <2> QED
    BY <1>1, <2>3 DEF Finish, Pending, Book!Deliver, Book!Open
<1>4. CASE DeliveringShips(i)
  BY <1>1, <1>4 DEF DeliveringShips, Finish, Pending, Book!Deliver, Book!Open,
                    Book!DeliverShips
<1> QED
  BY <1>2, <1>3, <1>4 DEF Closes

(* Every step is a step of the book, or none of the book changes.          *)
LEMMA BookStep ==
  ASSUME TypeInv, ResearchLedger, OrderStep
  PROVE  [Book!Next]_(Book!vars)
<1>1. CASE TouchesNoOrder
  BY <1>1 DEF TouchesNoOrder, Book!vars
<1>2. ASSUME NEW f \in ItemIds, NEW order \in QueueItem, Places(f, order)
      PROVE  Book!Next
  BY <1>2, PlacedIsEntered DEF Book!Next
<1>3. ASSUME NEW p \in Procs, NEW i \in ItemIds, Closes(p, i)
      PROVE  Book!Next
  BY <1>3, ClosedIsDelivered DEF Book!Next
<1> QED
  BY <1>1, <1>2, <1>3 DEF OrderStep

-----------------------------------------------------------------------------
(* The stored rates.                                                       *)

\* The rates of one planet are computed from its new levels and settings.
Recomputes(pl) ==
  /\ production' = [production EXCEPT ![pl] = ProductionRate[level'[pl]][factor'[pl]]]
  /\ \A q \in Planets : q # pl => level'[q] = level[q] /\ factor'[q] = factor[q]

RateStep ==
  \/ UNCHANGED <<production, level, factor>>
  \/ \E pl \in Planets : Recomputes(pl)

(* A step leaves rates, levels and settings alone, or recomputes the rates *)
(* of the planet it changes.                                               *)
LEMMA RateSteps ==
  ASSUME TypeInv, [Next]_vars
  PROVE  RateStep
<1> SUFFICES \/ UNCHANGED <<production, level, factor>>
             \/ \E pl \in Planets : Recomputes(pl)
  BY DEF RateStep
<1>1. CASE Tick
  BY <1>1 DEF Tick, database
<1>2. ASSUME NEW h \in Handlers, Receive(h) \/ Handle(h) \/ Abort(h)
      PROVE  \/ UNCHANGED <<production, level, factor>>
             \/ \E pl \in Planets : Recomputes(pl)
  <2>1. CASE Receive(h) \/ Abort(h) \/ Reject(h) \/ ScheduleQueueItem(h)
    BY <2>1 DEF Receive, Abort, Reject, ScheduleQueueItem, database
  <2>2. CASE GetOverview(h)
    BY <2>2 DEF GetOverview
  <2>3. CASE UpdateProductionFactor(h)
    <3> DEFINE pl == req[h].body.planet
    <3>1. pl \in Planets
      BY <2>3, RequestType, BodyType DEF UpdateProductionFactor, Handling, TypeInv
    <3>2. Recomputes(pl)
      BY <2>3, <3>1 DEF UpdateProductionFactor, RecomputeProduction, Recomputes,
                        TypeInv, TypeOK, DatabaseTypeOK
    <3> QED
      BY <3>1, <3>2
  <2>4. CASE StartBuilding(h) \/ StartShips(h) \/ StartResearch(h)
    BY <2>4 DEF StartBuilding, StartShips, StartResearch, PlaceOrder
  <2> QED
    BY <1>2, <2>1, <2>2, <2>3, <2>4 DEF Handle
<1>3. ASSUME NEW p \in Procs, Work(p) \/ FinalizeFails(p) \/ Crash(p)
      PROVE  \/ UNCHANGED <<production, level, factor>>
             \/ \E pl \in Planets : Recomputes(pl)
  <2>1. CASE Promote(p) \/ Take(p) \/ SkipFinalize(p) \/ Crash(p)
    BY <2>1 DEF Promote, Take, SkipFinalize, Crash, database
  <2>2. CASE CompleteJob(p) \/ FinalizeFails(p)
    BY <2>2 DEF CompleteJob, FinalizeFails, Settle, database
  <2>3. CASE FinishResearch(p) \/ FinishShips(p)
    BY <2>3 DEF FinishResearch, FinishShips
  <2>4. CASE FinishBuilding(p)
    <3> DEFINE i == worker[p].item
               pl == items[i].planet
    <3>1. i \in ItemIds /\ Pending(i) /\ Finish(i)
      BY <2>4, WorkerType DEF FinishBuilding, Finalizable, TypeInv
    <3>2. pl \in Planets
      BY <3>1, ClosedItems, ItemFields
    <3>3. Recomputes(pl)
      BY <2>4, <3>2 DEF FinishBuilding, RecomputeProduction, Recomputes,
                        TypeInv, TypeOK, DatabaseTypeOK
    <3> QED
      BY <3>2, <3>3
  <2> QED
    BY <1>3, <2>1, <2>2, <2>3, <2>4 DEF Work
<1>4. ASSUME NEW i \in ItemIds, Stalled(i)
      PROVE  UNCHANGED <<production, level, factor>>
  BY <1>4 DEF Stalled, database
<1>5. CASE UNCHANGED vars
  BY <1>5 DEF vars, database
<1> QED
  BY <1>1, <1>2, <1>3, <1>4, <1>5 DEF Next

(* Either way the rates remain those of the levels and settings.           *)
LEMMA RatesStay ==
  ASSUME TypeInv, ProductionMatchesLevels, RateStep
  PROVE  ProductionMatchesLevels'
<1>1. CASE UNCHANGED <<production, level, factor>>
  BY <1>1 DEF ProductionMatchesLevels, RateOf
<1>2. ASSUME NEW pl \in Planets, Recomputes(pl)
      PROVE  ProductionMatchesLevels'
  BY <1>2 DEF Recomputes, ProductionMatchesLevels, RateOf, TypeInv, TypeOK,
              DatabaseTypeOK
<1> QED
  BY <1>1, <1>2 DEF RateStep

LEMMA RatesAtFirst == Init => ProductionMatchesLevels
BY DEF Init, ProductionMatchesLevels

-----------------------------------------------------------------------------
(* The sum of a set of orders.                                             *)

\* MapThenSumSet, of the quantities of a set of orders, and the recursion it
\* stands for: the elements of a set are taken out in an order of its own.
Sum(q, S) == MapThenSumSet(LAMBDA i : q[i].n, S)
Pick(s) == CHOOSE i \in s : TRUE
Sums(q, U, F) ==
  F = [s \in SUBSET U |->
         IF s = {} THEN 0 ELSE q[Pick(s)].n + F[s \ {Pick(s)}]]

LEMMA SumIsFold ==
  ASSUME NEW q, NEW S
  PROVE  Sum(q, S) = (CHOOSE F : Sums(q, S, F))[S]
BY DEF Sum, MapThenSumSet, MapThenFoldSet, Sums, Pick

(* Of some natural numbers one is the least.                               *)
LEMMA LeastNumber ==
  ASSUME NEW S \in SUBSET Nat, S # {}
  PROVE  \E m \in S : \A n \in S : m <= n
<1> DEFINE Less == OpToRel(<, Nat)
<1>1. \A m, n \in Nat : n < m => <<n, m>> \in Less
  BY DEF OpToRel
<1>2. IsWellFoundedOn(Less, Nat)
  BY NatLessThanWellFounded
<1> HIDE DEF Less
<1>3. \E m \in S : \A n \in S : <<n, m>> \notin Less
  BY <1>2, WFMin
<1>4. \A m, n \in Nat : n < m \/ m <= n
  OBVIOUS
<1> QED
  BY <1>1, <1>3, <1>4

(* Taking an element out of a set leaves a smaller one.                    *)
LEMMA Smaller ==
  ASSUME NEW U, IsFiniteSet(U), NEW s \in SUBSET U
  PROVE  /\ IsFiniteSet(s) /\ Cardinality(s) \in Nat
         /\ Cardinality(s) = 0 <=> s = {}
         /\ \A i \in s : /\ s \ {i} \in SUBSET U
                         /\ Cardinality(s \ {i}) = Cardinality(s) - 1
         /\ s # {} => Pick(s) \in s
<1>1. IsFiniteSet(s) /\ Cardinality(s) \in Nat
  BY FS_Subset, FS_CardinalityType
<1>2. Cardinality(s) = 0 <=> s = {}
  BY <1>1, FS_EmptySet
<1>3. \A i \in s : Cardinality(s \ {i}) = Cardinality(s) - 1
  BY <1>1, FS_RemoveElement
<1> QED
  BY <1>1, <1>2, <1>3 DEF Pick

(* The recursion has a solution, and its values are numbers.               *)
LEMMA SumsExist ==
  ASSUME NEW U, IsFiniteSet(U), NEW q, \A i \in U : q[i].n \in Nat
  PROVE  \E F \in [SUBSET U -> Nat] : Sums(q, U, F)
<1> DEFINE Upto(m) == {s \in SUBSET U : Cardinality(s) <= m}
           Value(G, s) == IF s = {} THEN 0 ELSE q[Pick(s)].n + G[s \ {Pick(s)}]
           Partial(m, G) == /\ G \in [Upto(m) -> Nat]
                            /\ \A s \in Upto(m) : G[s] = Value(G, s)
           Bad == {m \in Nat : ~\E G : Partial(m, G)}
<1>1. Bad = {}
  <2> SUFFICES ASSUME Bad # {} PROVE FALSE
    OBVIOUS
  <2>1. PICK m \in Bad : \A n \in Bad : m <= n
    <3>1. Bad \in SUBSET Nat
      OBVIOUS
    <3> HIDE DEF Bad
    <3> QED
      BY <3>1, LeastNumber
  <2>2. CASE m = 0
    <3> DEFINE G == [s \in Upto(0) |-> 0]
    <3>1. \A s \in Upto(0) : s = {}
      BY Smaller
    <3>2. Partial(0, G)
      BY <3>1
    <3> QED
      BY <2>1, <2>2, <3>2
  <2>3. CASE m # 0
    <3>1. m \in Nat /\ m - 1 \in Nat /\ m - 1 \notin Bad
      <4>1. m \in Nat
        BY <2>1
      <4>2. m - 1 \in Nat /\ ~(m <= m - 1)
        BY <2>3, <4>1
      <4> HIDE DEF Bad
      <4> QED
        BY <2>1, <4>1, <4>2
    <3>2. PICK G : Partial(m - 1, G)
      BY <3>1
    <3> DEFINE H == [s \in Upto(m) |-> Value(G, s)]
    <3>3. ASSUME NEW s \in Upto(m), s # {}
          PROVE  /\ s \ {Pick(s)} \in Upto(m - 1)
                 /\ q[Pick(s)].n \in Nat /\ G[s \ {Pick(s)}] \in Nat
      <4>1. /\ Pick(s) \in s /\ s \ {Pick(s)} \in SUBSET U
            /\ Cardinality(s \ {Pick(s)}) = Cardinality(s) - 1
            /\ Cardinality(s) \in Nat /\ Cardinality(s) <= m
        BY <3>3, Smaller
      <4>2. s \ {Pick(s)} \in Upto(m - 1)
        BY <3>1, <4>1
      <4> QED
        BY <3>2, <4>1, <4>2
    <3>4. H \in [Upto(m) -> Nat]
      <4>1. ASSUME NEW s \in Upto(m) PROVE Value(G, s) \in Nat
        <5>1. CASE s = {}
          BY <5>1
        <5>2. CASE s # {}
          <6>1. q[Pick(s)].n \in Nat /\ G[s \ {Pick(s)}] \in Nat
            BY <3>3, <5>2
          <6> QED
            BY <5>2, <6>1
        <5> QED
          BY <5>1, <5>2
      <4> HIDE DEF Value, Upto
      <4> QED
        BY <4>1
    <3>5. \A s \in Upto(m - 1) : s \in Upto(m) /\ H[s] = G[s]
      <4>1. ASSUME NEW s \in Upto(m - 1) PROVE s \in Upto(m)
        BY <3>1, Smaller
      <4>2. ASSUME NEW s \in Upto(m - 1) PROVE Value(G, s) = G[s]
        BY <3>2
      <4> QED
        BY <4>1, <4>2
    <3>6. ASSUME NEW s \in Upto(m) PROVE H[s] = Value(H, s)
      BY <3>3, <3>5
    <3>7. Partial(m, H)
      BY <3>4, <3>6
    <3> QED
      BY <2>1, <3>7
  <2> QED
    BY <2>2, <2>3
<1>2. PICK F : Partial(Cardinality(U), F)
  <2>1. Cardinality(U) \in Nat
    BY FS_CardinalityType
  <2> QED
    BY <1>1, <2>1
<1>3. Upto(Cardinality(U)) = SUBSET U
  BY FS_Subset, FS_CardinalityType
<1>4. F \in [SUBSET U -> Nat] /\ \A s \in SUBSET U : F[s] = Value(F, s)
  BY <1>2, <1>3
<1>5. F = [s \in SUBSET U |-> Value(F, s)]
  <2> HIDE DEF Value
  <2> QED
    BY <1>4
<1> QED
  BY <1>4, <1>5 DEF Sums

(* Solutions for orders of the same quantities agree.                      *)
LEMMA SumsAgree ==
  ASSUME NEW U, NEW S, NEW q, NEW w, NEW F, NEW G,
         Sums(q, U, F), Sums(w, S, G), IsFiniteSet(U), S \in SUBSET U,
         \A i \in S : w[i].n = q[i].n
  PROVE  \A s \in SUBSET S : F[s] = G[s]
<1> DEFINE Wrong == {s \in SUBSET S : F[s] # G[s]}
           Bad == {Cardinality(s) : s \in Wrong}
<1>1. \A s \in Wrong : s \in SUBSET U
  OBVIOUS
<1> SUFFICES ASSUME Wrong # {} PROVE FALSE
  OBVIOUS
<1>2. PICK s \in Wrong : \A t \in Wrong : Cardinality(s) <= Cardinality(t)
  <2>1. Bad \in SUBSET Nat /\ Bad # {}
    BY <1>1, Smaller
  <2>2. PICK m \in Bad : \A n \in Bad : m <= n
    <3> HIDE DEF Bad
    <3> QED
      BY <2>1, LeastNumber
  <2> QED
    BY <2>2
<1>3. s \in SUBSET S /\ s \in SUBSET U
  BY <1>1, <1>2
<1>4. CASE s = {}
  <2>1. F[s] = 0 /\ G[s] = 0
    BY <1>3, <1>4 DEF Sums
  <2> QED
    BY <1>2, <2>1
<1>5. CASE s # {}
  <2> DEFINE t == s \ {Pick(s)}
  <2>1. /\ Pick(s) \in s /\ t \in SUBSET S
        /\ Cardinality(t) = Cardinality(s) - 1 /\ Cardinality(s) \in Nat
    BY <1>3, <1>5, Smaller
  <2>2. ~(Cardinality(s) <= Cardinality(t))
    BY <2>1
  <2>3. F[t] = G[t]
    BY <1>2, <2>1, <2>2
  <2>4. F[s] = q[Pick(s)].n + F[t] /\ G[s] = w[Pick(s)].n + G[t]
    BY <1>3, <1>5 DEF Sums
  <2> QED
    BY <1>2, <1>3, <2>1, <2>3, <2>4
<1> QED
  BY <1>4, <1>5

(* A sum is the value of any solution.                                     *)
LEMMA SumValue ==
  ASSUME NEW U, IsFiniteSet(U), NEW S \in SUBSET U, NEW q, NEW w,
         \A i \in U : q[i].n \in Nat, \A i \in S : w[i].n = q[i].n,
         NEW F, Sums(q, U, F)
  PROVE  Sum(w, S) = F[S]
<1>1. \E G : Sums(w, S, G)
  <2>1. IsFiniteSet(S) /\ \A i \in S : w[i].n \in Nat
    BY FS_Subset
  <2> QED
    BY <2>1, SumsExist
<1> DEFINE G0 == CHOOSE G : Sums(w, S, G)
<1>2. Sums(w, S, G0)
  BY <1>1
<1>3. Sum(w, S) = G0[S]
  BY SumIsFold
<1> HIDE DEF G0
<1>4. \A s \in SUBSET S : F[s] = G0[s]
  BY <1>2, SumsAgree
<1> QED
  BY <1>3, <1>4

(* A solution adds one element at a time, whichever the order.             *)
LEMMA SumsAdd ==
  ASSUME NEW U, IsFiniteSet(U), NEW q, \A i \in U : q[i].n \in Nat,
         NEW F \in [SUBSET U -> Nat], Sums(q, U, F)
  PROVE  \A s \in SUBSET U, c \in U : c \notin s => F[s \cup {c}] = F[s] + q[c].n
<1> DEFINE Adds(s) == \A c \in U : c \notin s => F[s \cup {c}] = F[s] + q[c].n
           Wrong == {s \in SUBSET U : ~Adds(s)}
           Bad == {Cardinality(s) : s \in Wrong}
<1> SUFFICES ASSUME Wrong # {} PROVE FALSE
  OBVIOUS
<1>1. PICK s \in Wrong : \A t \in Wrong : Cardinality(s) <= Cardinality(t)
  <2>1. Bad \in SUBSET Nat /\ Bad # {}
    BY Smaller
  <2>2. PICK m \in Bad : \A n \in Bad : m <= n
    <3> HIDE DEF Bad
    <3> QED
      BY <2>1, LeastNumber
  <2>3. \A t \in Wrong : Cardinality(t) \in Bad
    OBVIOUS
  <2>4. PICK s \in Wrong : m = Cardinality(s)
    BY <2>2
  <2> HIDE DEF Bad, Wrong
  <2> QED
    BY <2>2, <2>3, <2>4
<1>2. PICK c \in U : c \notin s /\ F[s \cup {c}] # F[s] + q[c].n
  BY <1>1
<1>3. ASSUME NEW x \in s
      PROVE  s \ {x} \in SUBSET U /\ Adds(s \ {x})
  <2>1. /\ s \ {x} \in SUBSET U /\ Cardinality(s) \in Nat
        /\ Cardinality(s \ {x}) = Cardinality(s) - 1
    BY <1>1, Smaller
  <2>2. ~(Cardinality(s) <= Cardinality(s \ {x}))
    BY <2>1
  <2> QED
    BY <1>1, <2>1, <2>2
<1> DEFINE T == s \cup {c}
           x == Pick(T)
<1>4. x \in T /\ T \in SUBSET U /\ T # {}
  BY <1>1, <1>2 DEF Pick
<1>5. F[T] = q[x].n + F[T \ {x}]
  BY <1>4 DEF Sums
<1>6. q[c].n \in Nat /\ F[s] \in Nat
  BY <1>1, <1>2
<1>7. CASE x = c
  <2>1. T \ {x} = s
    BY <1>2, <1>7
  <2>2. F[T] = F[s] + q[c].n
    <3>1. F[T] = q[c].n + F[s]
      BY <1>5, <1>7, <2>1, Zenon
    <3> HIDE DEF T
    <3> QED
      BY <1>6, <3>1
  <2> QED
    BY <1>2, <2>2
<1>8. CASE x # c
  <2>1. x \in s /\ T \ {x} = (s \ {x}) \cup {c} /\ c \notin s \ {x}
    BY <1>2, <1>4, <1>8
  <2>2. F[T \ {x}] = F[s \ {x}] + q[c].n
    BY <1>2, <1>3, <2>1
  <2>3. F[s] = F[s \ {x}] + q[x].n
    <3>1. s = (s \ {x}) \cup {x} /\ x \in U /\ x \notin s \ {x}
      BY <1>1, <2>1
    <3> HIDE DEF x
    <3> QED
      BY <1>3, <2>1, <3>1
  <2>4. q[x].n \in Nat /\ F[s \ {x}] \in Nat
    BY <1>3, <1>4, <2>1
  <2>5. F[T] = F[s] + q[c].n
    <3> HIDE DEF x, T
    <3> QED
      BY <1>5, <1>6, <2>2, <2>3, <2>4
  <2> QED
    BY <1>2, <2>5
<1> QED
  BY <1>7, <1>8

(* What a sum is when an order joins the set, and when none does.          *)
LEMMA SumFacts ==
  ASSUME NEW S, IsFiniteSet(S), NEW q, NEW w,
         \A i \in S : q[i].n \in Nat /\ w[i].n = q[i].n
  PROVE  /\ Sum(q, S) \in Nat
         /\ Sum(q, {}) = 0
         /\ Sum(w, S) = Sum(q, S)
         /\ \A c : c \notin S /\ w[c].n \in Nat =>
              Sum(w, S \cup {c}) = Sum(q, S) + w[c].n
<1>1. PICK F \in [SUBSET S -> Nat] : Sums(q, S, F)
  BY SumsExist
<1>2. Sum(q, S) = F[S] /\ Sum(w, S) = F[S] /\ F[S] \in Nat
  BY <1>1, SumValue
<1>3. Sum(q, {}) = 0
  <2>1. Sum(q, {}) = F[{}]
    BY <1>1, SumValue
  <2> QED
    BY <1>1, <2>1 DEF Sums
<1>4. ASSUME NEW c, c \notin S, w[c].n \in Nat
      PROVE  Sum(w, S \cup {c}) = Sum(q, S) + w[c].n
  <2> DEFINE U == S \cup {c}
  <2>1. IsFiniteSet(U) /\ \A i \in U : w[i].n \in Nat
    BY <1>4, FS_AddElement
  <2>2. PICK G \in [SUBSET U -> Nat] : Sums(w, U, G)
    BY <2>1, SumsExist
  <2> HIDE DEF U
  <2>3. S \in SUBSET U /\ U \in SUBSET U /\ c \in U /\ U = S \cup {c}
    BY DEF U
  <2>4. Sum(w, U) = G[U] /\ Sum(q, S) = G[S]
    BY <2>1, <2>2, <2>3, SumValue
  <2>5. \A s \in SUBSET U, d \in U : d \notin s => G[s \cup {d}] = G[s] + w[d].n
    BY <2>1, <2>2, SumsAdd
  <2>6. G[U] = G[S] + w[c].n
    BY <1>4, <2>3, <2>5
  <2> QED
    BY <2>3, <2>4, <2>6
<1> QED
  BY <1>2, <1>3, <1>4

-----------------------------------------------------------------------------
(* The fleet.                                                              *)

FleetOf(pl, s) == ships[pl][s] = Sum(items, DoneOf("SHIP", pl, s))

LEMMA FleetByPair ==
  FleetConserved <=> \A pl \in Planets, s \in ShipKeys : FleetOf(pl, s)
BY DEF FleetOf, Sum, MapThenSumSet, MapThenFoldSet, FleetConserved

(* The finished ship orders are finitely many, of positive quantities.     *)
LEMMA DeliveredShips ==
  ASSUME TypeInv, NEW pl \in Planets, NEW s \in ShipKeys
  PROVE  /\ IsFiniteSet(DoneOf("SHIP", pl, s))
         /\ \A i \in DoneOf("SHIP", pl, s) :
              i \in ItemIds /\ Done(i) /\ Created(i) /\ items[i].n \in Nat
         /\ ships[pl][s] \in Nat
<1>1. DoneOf("SHIP", pl, s) \in SUBSET ItemIds
  BY DEF DoneOf
<1>2. IsFiniteSet(DoneOf("SHIP", pl, s))
  BY <1>1, FS_Subset, BoundsAssumption
<1>3. ASSUME NEW i \in DoneOf("SHIP", pl, s)
      PROVE  i \in ItemIds /\ Done(i) /\ Created(i) /\ items[i].n \in Nat
  <2>1. i \in ItemIds /\ Done(i) /\ items[i] \in QueueItem /\ items[i].type = "SHIP"
    BY ItemExists DEF DoneOf, TypeInv, TypeOK
  <2>2. items[i] \in ShipItem
    BY <2>1, ItemFields
  <2> QED
    BY <2>1, <2>2, ItemFields, InputsAssumption DEF ShipItem, Positive, Created
<1> QED
  BY <1>2, <1>3 DEF TypeInv, TypeOK, DatabaseTypeOK

(* Every step keeps the fleet: ships arrive as their order closes.         *)
LEMMA FleetStep ==
  ASSUME TypeInv, OrderStep, NEW pl \in Planets, NEW s \in ShipKeys,
         FleetOf(pl, s)
  PROVE  FleetOf(pl, s)'
<1> DEFINE D == DoneOf("SHIP", pl, s)
<1>1. /\ IsFiniteSet(D) /\ ships[pl][s] = Sum(items, D)
      /\ \A i \in D : i \in ItemIds /\ Done(i) /\ Created(i) /\ items[i].n \in Nat
  BY DeliveredShips DEF FleetOf
<1>2. ASSUME DoneOf("SHIP", pl, s)' = D, \A i \in D : items'[i].n = items[i].n,
             ships'[pl][s] = ships[pl][s]
      PROVE  FleetOf(pl, s)'
  <2>1. Sum(items', D) = Sum(items, D)
    BY <1>1, <1>2, SumFacts
  <2> QED
    BY <1>1, <1>2, <2>1 DEF FleetOf
<1>3. CASE TouchesNoOrder
  <2>1. DoneOf("SHIP", pl, s)' = D
    BY <1>3 DEF TouchesNoOrder, DoneOf, Done
  <2> QED
    BY <1>2, <1>3, <2>1 DEF TouchesNoOrder
<1>4. ASSUME NEW f \in ItemIds, NEW order \in QueueItem, Places(f, order)
      PROVE  FleetOf(pl, s)'
  <2>1. /\ \A i \in ItemIds : i # f => items'[i] = items[i]
        /\ \A i \in ItemIds : Done(i)' <=> Done(i)
        /\ ~Done(f) /\ UNCHANGED ships
    BY <1>4, PlacedItems DEF Places
  <2>2. DoneOf("SHIP", pl, s)' = D
    BY <2>1 DEF DoneOf
  <2> QED
    BY <1>1, <1>2, <2>1, <2>2
<1>5. ASSUME NEW p \in Procs, NEW c \in ItemIds, Closes(p, c)
      PROVE  FleetOf(pl, s)'
  <2> DEFINE Mine == /\ items[c].type = "SHIP" /\ items[c].planet = pl
                     /\ items[c].key = s
  <2>1. /\ Pending(c) /\ Finish(c) /\ Created(c) /\ items[c] \in QueueItem
        /\ ~Done(c) /\ \A i \in ItemIds : Done(i)' <=> Done(i) \/ i = c
    BY <1>5, ClosedItems, ItemFields DEF Closes, Finalizable, Created
  <2>2. ASSUME NEW i \in ItemIds, Created(i)
        PROVE  /\ items'[i].type = items[i].type /\ items'[i].n = items[i].n
               /\ items'[i].planet = items[i].planet /\ items'[i].key = items[i].key
    BY <2>1, <2>2, ClosedItems
  <2>3. \A i \in ItemIds : Done(i) => Created(i)
    BY ItemExists DEF Created, TypeInv, TypeOK
  <2>4. \A i \in ItemIds : i \in DoneOf("SHIP", pl, s)' <=>
            i \in D \/ (i = c /\ Mine)
    BY <2>1, <2>2, <2>3 DEF DoneOf
  <2>5. DoneOf("SHIP", pl, s)' \in SUBSET ItemIds /\ D \in SUBSET ItemIds
    BY DEF DoneOf
  <2>6. CASE Mine
    <3>1. DoneOf("SHIP", pl, s)' = D \cup {c} /\ c \notin D
      BY <1>1, <2>1, <2>4, <2>5, <2>6
    <3>2. items'[c].n = items[c].n /\ items[c].n \in Nat
      BY <2>1, <2>2, <2>6, ItemFields, InputsAssumption DEF ShipItem, Positive
    <3>3. ships' = [ships EXCEPT ![pl][s] = @ + items[c].n]
      BY <1>5, <2>6 DEF Closes, DeliveringBuilding, DeliveringResearch, DeliveringShips
    <3>4. ships'[pl][s] = ships[pl][s] + items[c].n
      BY <3>3 DEF TypeInv, TypeOK, DatabaseTypeOK
    <3>5. \A i \in D : items[i].n \in Nat /\ items'[i].n = items[i].n
      BY <1>1, <2>2
    <3>6. Sum(items', D \cup {c}) = Sum(items, D) + items'[c].n
      <4> HIDE DEF D
      <4> QED
        BY <1>1, <3>1, <3>2, <3>5, SumFacts
    <3> QED
      BY <1>1, <3>1, <3>2, <3>4, <3>6 DEF FleetOf
  <2>7. CASE ~Mine
    <3>1. DoneOf("SHIP", pl, s)' = D
      BY <2>4, <2>5, <2>7
    <3>2. ships'[pl][s] = ships[pl][s]
      <4>1. CASE items[c].type # "SHIP"
        BY <1>5, <4>1 DEF Closes, DeliveringBuilding, DeliveringResearch, DeliveringShips
      <4>2. CASE items[c].type = "SHIP"
        <5>1. ships' = [ships EXCEPT ![items[c].planet][items[c].key] = @ + items[c].n]
          BY <1>5, <4>2 DEF Closes, DeliveringBuilding, DeliveringResearch, DeliveringShips
        <5> QED
          BY <2>7, <4>2, <5>1 DEF TypeInv, TypeOK, DatabaseTypeOK
      <4> QED
        BY <4>1, <4>2
    <3> QED
      BY <1>1, <1>2, <2>2, <3>1, <3>2
  <2> QED
    BY <2>6, <2>7
<1> QED
  BY <1>3, <1>4, <1>5 DEF OrderStep

LEMMA FleetsStay ==
  ASSUME TypeInv, FleetConserved, OrderStep
  PROVE  FleetConserved'
<1>1. ASSUME NEW pl \in Planets, NEW s \in ShipKeys
      PROVE  FleetOf(pl, s)'
  BY FleetByPair, FleetStep
<1>2. (\A pl \in Planets, s \in ShipKeys : FleetOf(pl, s))'
  BY <1>1
<1> QED
  BY <1>2, FleetByPair, PTL

LEMMA NoFleetYet == Init => FleetConserved
<1> SUFFICES ASSUME Init, NEW pl \in Planets, NEW s \in ShipKeys
             PROVE  FleetOf(pl, s)
  BY FleetByPair
<1>1. DoneOf("SHIP", pl, s) = {}
  BY DEF Init, NoItem, DoneOf, Done
<1>2. Sum(items, {}) = 0
  BY SumFacts, FS_EmptySet
<1> QED
  BY <1>1, <1>2 DEF Init, FleetOf
=============================================================================
