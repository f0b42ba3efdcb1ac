----------------------------- MODULE GameState -----------------------------
(***************************************************************************)
(* What the backend keeps: the rows of the SQL database                    *)
(* (apps/backend/prisma/schema.prisma), the BullMQ queue `tasks` in Redis, *)
(* and the little that lives in a backend process and dies with it.        *)
(*                                                                         *)
(* A player owns exactly one planet, the homeworld that registration       *)
(* creates (universe.service.ts is the only writer of Planet rows), so a   *)
(* player is named by that planet.                                         *)
(***************************************************************************)
EXTENDS Integers, FiniteSets, Sequences

CONSTANTS
  Procs,            \* backend processes, each an HTTP server and a worker
  Handlers,         \* request handlers that may be in flight at once
  Host,             \* the process each handler runs in
  Skew,             \* how far a process's Date.now() runs ahead
  Planets, Resources, Buildings, Mines, Techs, ShipKeys,
  Qty,              \* ship quantities a request may ask for
  Factors,          \* production factors a request may ask for
  Requests,         \* the request bodies the clients of an instance send
  Faults,           \* what may go wrong: "crash", "abort", "stall"
  BuildingCost, BuildingTime, ShipCost, ShipTime, ResearchCost, ResearchTime,
  ProductionRate,   \* per level vector and factor vector
  StorageCapacity,  \* per level vector
  InitialLevel, InitialBalance,
  ItemIds,          \* bound: queue items an instance may create
  MaxLevel,         \* bound: highest building or research level
  Horizon,          \* bound: the last instant of an instance
  MaxRequestAge     \* ticks a request may live between `now` and its job

Levels == 0 .. MaxLevel
LevelMap == [Buildings -> Levels]
FactorMap == [Mines -> Factors]
Amount == [Resources -> Nat]
Positive == Nat \ {0}

RequestBody ==
  [op : {"getOverview"}, player : Planets, planet : Planets]
  \cup [op : {"startBuilding"}, player : Planets, planet : Planets,
        key : Buildings]
  \cup [op : {"startShips"}, player : Planets, planet : Planets,
        key : ShipKeys, qty : Qty]
  \cup [op : {"startResearch"}, player : Planets, key : Techs]
  \cup [op : {"updateProductionFactor"}, player : Planets, planet : Planets,
        key : Buildings, factor : Factors]

ASSUME BoundsAssumption ==
  /\ MaxLevel \in Nat /\ Horizon \in Nat /\ MaxRequestAge \in Nat
  /\ IsFiniteSet(ItemIds)
ASSUME ProcessesAssumption ==
  /\ Host \in [Handlers -> Procs]
  /\ Skew \in [Procs -> Nat]
ASSUME InputsAssumption ==
  /\ Mines \subseteq Buildings
  /\ Qty \subseteq Positive
  /\ Factors \subseteq 0 .. 100
  /\ 100 \in Factors
  /\ Requests \subseteq RequestBody
\* Prices, durations and rates are the formulas of packages/shared; all that
\* is asked of them is their sign: a duration is clamped to 5 s or 10 s.
ASSUME FormulasAssumption ==
  /\ BuildingCost \in [Buildings -> [Levels -> Amount]]
  /\ BuildingTime \in [Buildings -> [Levels -> Positive]]
  /\ ShipCost \in [ShipKeys -> [Qty -> Amount]]
  /\ ShipTime \in [ShipKeys -> [Qty -> [LevelMap -> Positive]]]
  /\ ResearchCost \in [Techs -> [Levels -> Amount]]
  /\ ResearchTime \in [Techs -> [Levels -> [LevelMap -> Positive]]]
  /\ ProductionRate \in [LevelMap -> [FactorMap -> Amount]]
  /\ StorageCapacity \in [LevelMap -> Amount]
  /\ InitialLevel \in LevelMap
  /\ InitialBalance \in Amount

VARIABLES
  clock,             \* true time, in ticks
  balance,           \* ResourceBalance: metal, crystal, deuterium
  lastCalculatedAt,  \* ResourceBalance.lastCalculatedAt
  production,        \* Production: rates per tick
  level,             \* BuildingLevel
  factor,            \* BuildingSetting.productionFactor
  research,          \* ResearchLevel
  ships,             \* ShipCount
  items,             \* QueueItem
  job,               \* BullMQ: the job with jobId = item id
  wait,              \* BullMQ: the list of jobs ready to be taken
  req,               \* per handler: the request it serves
  worker             \* per process: the job its worker runs

database == <<balance, lastCalculatedAt, production, level, factor, research,
              ships, items>>
redis == <<job, wait>>
vars == <<clock, database, redis, req, worker>>

-----------------------------------------------------------------------------
(* Types.                                                                  *)

NoItem == [status |-> "ABSENT"]
NoJob == [state |-> "absent"]
Idle == [pc |-> "idle"]
Free == [step |-> "free"]

Status == {"PENDING", "DONE"}
BuildingItem == [type : {"BUILDING"}, planet : Planets, key : Buildings,
                 n : Levels, startAt : Nat, endAt : Nat, status : Status]
ResearchItem == [type : {"RESEARCH"}, planet : Planets, key : Techs,
                 n : Levels, startAt : Nat, endAt : Nat, status : Status]
ShipItem == [type : {"SHIP"}, planet : Planets, key : ShipKeys,
             n : Qty, startAt : Nat, endAt : Nat, status : Status]
QueueItem == BuildingItem \cup ResearchItem \cup ShipItem

\* `stalls` counts how often the job lost its worker; `owner` holds its lock.
Job == [state : {"delayed", "waiting", "completed", "failed"}, due : Nat,
        stalls : 0 .. 1]
       \cup [state : {"active"}, due : Nat, stalls : 0 .. 1, owner : Procs]

InFlight == [pc : {"received"}, now : Nat, body : Requests]
            \cup [pc : {"committed"}, now : Nat, item : ItemIds]
Busy == [step : {"processing", "finalized"}, item : ItemIds]

DatabaseTypeOK ==
  /\ balance \in [Planets -> Amount]
  /\ lastCalculatedAt \in [Planets -> Nat]
  /\ production \in [Planets -> Amount]
  /\ level \in [Planets -> LevelMap]
  /\ factor \in [Planets -> FactorMap]
  /\ research \in [Planets -> [Techs -> Levels]]
  /\ ships \in [Planets -> [ShipKeys -> Nat]]
  /\ items \in [ItemIds -> QueueItem \cup {NoItem}]
QueueTypeOK ==
  /\ job \in [ItemIds -> Job \cup {NoJob}]
  /\ wait \in Seq(ItemIds)
  /\ req \in [Handlers -> InFlight \cup {Idle}]
  /\ worker \in [Procs -> Busy \cup {Free}]

(* Every row, job, request and worker has its type: balances and levels    *)
(* never leave the natural numbers or their bounds, so no transaction      *)
(* writes a negative balance.                                              *)
TypeOK == clock \in Nat /\ DatabaseTypeOK /\ QueueTypeOK

-----------------------------------------------------------------------------
(* Reading the state.                                                      *)

Lesser(a, b) == IF a <= b THEN a ELSE b
Greater(a, b) == IF a >= b THEN a ELSE b

\* Date.now() in a process.
Now(p) == clock + Skew[p]

Pending(i) == items[i].status = "PENDING"
Done(i) == items[i].status = "DONE"
PendingOf(type, pl) ==
  {i \in ItemIds : Pending(i) /\ items[i].type = type /\ items[i].planet = pl}
DoneOf(type, pl, key) ==
  {i \in ItemIds : /\ Done(i) /\ items[i].type = type
                   /\ items[i].planet = pl /\ items[i].key = key}

FreeIds == {i \in ItemIds : items[i] = NoItem}
FreshId == CHOOSE i \in ItemIds : items[i] = NoItem

Capacity(pl) == StorageCapacity[level[pl]]
RateOf(pl) == ProductionRate[level[pl]][factor[pl]]

\* A variant without the cap.
BalanceAtUncapped(pl, now) ==
  [r \in Resources |->
     balance[pl][r] + production[pl][r] * Greater(0, now - lastCalculatedAt[pl])]

\* calculateStorageCapacities, resourceDeltaPerSeconds and the capped sum of
\* applyProductionTx: the balance a transaction dated `now` works with.
BalanceAt(pl, now) ==
  LET elapsed == now - lastCalculatedAt[pl]
  IN  IF elapsed <= 0 THEN balance[pl]
      ELSE [r \in Resources |->
              Lesser(balance[pl][r] + production[pl][r] * elapsed,
                     Capacity(pl)[r])]

\* recomputeProduction, in a transaction that leaves levels lv and settings f.
RecomputeProduction(pl, lv, f) ==
  production' = [production EXCEPT ![pl] = ProductionRate[lv][f]]

\* The rows createStarterPlanet writes in the registration transaction.
Init ==
  /\ clock = 0
  /\ balance = [pl \in Planets |-> InitialBalance]
  /\ lastCalculatedAt = [pl \in Planets |-> 0]
  /\ level = [pl \in Planets |-> InitialLevel]
  /\ factor = [pl \in Planets |-> [k \in Mines |-> 100]]
  /\ production = [pl \in Planets |-> RateOf(pl)]
  /\ research = [pl \in Planets |-> [t \in Techs |-> 0]]
  /\ ships = [pl \in Planets |-> [s \in ShipKeys |-> 0]]
  /\ items = [i \in ItemIds |-> NoItem]
  /\ job = [i \in ItemIds |-> NoJob]
  /\ wait = <<>>
  /\ req = [h \in Handlers |-> Idle]
  /\ worker = [p \in Procs |-> Free]
=============================================================================
