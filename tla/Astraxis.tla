------------------------------ MODULE Astraxis ------------------------------
(***************************************************************************)
(* The backend as a whole: request handlers (PlanetService), the job queue *)
(* and its workers (TaskQueue), a database and a Redis both share, time,   *)
(* and processes that may die.                                             *)
(***************************************************************************)
EXTENDS PlanetService, TaskQueue, FiniteSetsExt

\* How long ago a handler read the clock.  Time does not pass while a handler
\* is MaxRequestAge old: Prisma gives a transaction 2 s to start, 5 s to run.
Age(h) == Now(Host[h]) - req[h].now

Tick ==
  /\ clock < Horizon
  /\ \A h \in Handlers : req[h].pc # "idle" => Age(h) < MaxRequestAge
  /\ clock' = clock + 1
  /\ UNCHANGED <<database, redis, req, worker>>

\* A process dies and is started again: its requests are gone, and its
\* worker is free.  Nothing looks for the items it leaves behind.
Crash(p) ==
  /\ "crash" \in Faults
  /\ req' = [h \in Handlers |-> IF Host[h] = p THEN Idle ELSE req[h]]
  /\ worker' = [worker EXCEPT ![p] = Free]
  /\ UNCHANGED <<clock, database, redis>>

Next ==
  \/ Tick
  \/ \E h \in Handlers : Receive(h) \/ Handle(h) \/ Abort(h)
  \/ \E p \in Procs : Work(p) \/ FinalizeFails(p) \/ Crash(p)
  \/ \E i \in ItemIds : Stalled(i)

Spec == Init /\ [][Next]_vars

\* Time passes; a running process drives its requests and its worker, and
\* BullMQ's stalled check runs for ever.  Nobody has to send a request, and
\* no fault has to happen.
Fairness ==
  /\ WF_vars(Tick)
  /\ \A h \in Handlers : WF_vars(Handle(h))
  /\ \A p \in Procs : WF_vars(Work(p))
  /\ \A i \in ItemIds : WF_vars(Stalled(i) /\ ~Serving(job[i].owner, i))

FairSpec == Spec /\ Fairness

-----------------------------------------------------------------------------
(* What holds whatever fails.                                              *)

(* At most one ship order per planet and one research per player are ever  *)
(* pending, although the check and the insert race with other requests     *)
(* (ensureNoPending, queue.service.ts).                                    *)
OneOrderAtATime ==
  \A pl \in Planets, type \in {"SHIP", "RESEARCH"} :
    \A i, j \in PendingOf(type, pl) : i = j

(* The pending buildings of a planet are built one after the other: no two *)
(* of them have overlapping time spans, although each is appended by a     *)
(* request that read its own, possibly older, `now` (startBuilding).       *)
BuildingsSequential ==
  \A pl \in Planets : \A i, j \in PendingOf("BUILDING", pl) :
    i # j => \/ items[i].endAt <= items[j].startAt
             \/ items[j].endAt <= items[i].startAt

(* The stored rates are those of the stored levels and settings: no        *)
(* transaction that changes one leaves the other behind                    *)
(* (recomputeProduction after every change).                               *)
ProductionMatchesLevels == \A pl \in Planets : production[pl] = RateOf(pl)

(* Research moves one level at a time and every level was ordered: the     *)
(* level is the number of finished orders, and a pending order is for the  *)
(* next one, whatever crashes, stalls or runs twice.                       *)
ResearchLedger ==
  \A pl \in Planets, t \in Techs :
    /\ research[pl][t] = Cardinality(DoneOf("RESEARCH", pl, t))
    /\ \A i \in PendingOf("RESEARCH", pl) :
         items[i].key = t => items[i].n = research[pl][t] + 1

(* Every ship that exists was ordered and delivered once: the fleet is the *)
(* sum of the finished orders, even when a job runs twice because its      *)
(* worker died between the transaction and the acknowledgement.            *)
FleetConserved ==
  \A pl \in Planets, s \in ShipKeys :
    ships[pl][s] = MapThenSumSet(LAMBDA i : items[i].n, DoneOf("SHIP", pl, s))

(* An order is delivered by the very step that closes it, never again and  *)
(* never by another: levels and fleets change only together with exactly   *)
(* one item going from PENDING to DONE, at or after its endAt by the clock *)
(* of some process, and a closed item is never touched.                    *)
Delivers(i) == Pending(i) /\ Done(i)'
DeliversAtMostOne ==
  /\ \A i \in ItemIds : Done(i) => items'[i] = items[i]
  /\ \A i, j \in ItemIds : Delivers(i) /\ Delivers(j) => i = j
  /\ \A i \in ItemIds : Delivers(i) =>
       /\ \E p \in Procs : items[i].endAt <= Now(p)
       /\ \/ <<level, research, ships>>' # <<level, research, ships>>
          \/ items[i].type = "BUILDING"
  /\ <<level, research, ships>>' # <<level, research, ships>> =>
       \E i \in ItemIds : Delivers(i)
DeliveredOnce == [][DeliversAtMostOne]_vars

Book == INSTANCE OrderBook WITH Ids <- ItemIds, NoOrder <- NoItem, orders <- items

(* To its players the backend is a book of orders: behind requests, jobs   *)
(* and workers that race, die and run twice, every step enters one order   *)
(* that the rules allow, or delivers one that is open to the planet that   *)
(* placed it, a research as one more level and ships as so many more, or   *)
(* cannot be seen at all.  Buildings may be delivered in any order.        *)
ImplementsBook == Book!Spec

(* A job that BullMQ counts as a success has delivered its order: the      *)
(* early return of finalizeQueueItem, which BullMQ cannot tell from a      *)
(* delivery, is taken only for orders that are already closed.  It needs   *)
(* processes whose clocks agree.                                           *)
CompletedMeansDone == \A i \in ItemIds : job[i].state = "completed" => Done(i)

(* An order has one job, and the job is in one place: a request that is    *)
(* about to add it is alone and finds none there (so `jobId: item.id` is   *)
(* never added a second time), and a job stands on the list once while it  *)
(* waits and not at all when it is delayed, at work or settled, whoever    *)
(* has died or lost its lock with it.                                      *)
Scheduling(h, i) == req[h].pc = "committed" /\ req[h].item = i
OneJobPerOrder ==
  /\ \A i \in ItemIds, h \in Handlers : Scheduling(h, i) =>
       job[i] = NoJob /\ \A g \in Handlers : Scheduling(g, i) => g = h
  /\ \A i \in ItemIds :
       job[i].state = "waiting" <=> \E k \in 1 .. Len(wait) : wait[k] = i
  /\ \A k, l \in 1 .. Len(wait) : wait[k] = wait[l] => k = l

(* The orders under way are delivered in the end, however often workers    *)
(* die, but for two kinds: one whose process died before its job was in    *)
(* Redis, and one whose job BullMQ gave up.  The stalled check hands a job *)
(* on, a job's delay is long enough, and nothing else leaves an order      *)
(* behind.                                                                 *)
Left(i) ==
  \/ job[i].state = "failed"
  \/ /\ job[i].state = "absent"
     /\ ~\E h \in Handlers : req[h].pc = "committed" /\ req[h].item = i
UnderWay == {i \in ItemIds : Pending(i) /\ ~Left(i)}
OrdersEventuallyDone == UnderWay # {} ~> UnderWay = {}

-----------------------------------------------------------------------------
(* What holds while no fault happens, one process serves, and requests are *)
(* shorter than the shortest construction.                                 *)

(* Building levels count the orders that were paid for: the level is the   *)
(* initial one plus the finished orders, and the pending orders are for    *)
(* the levels that follow, each once.  Jobs that finish out of order break *)
(* it (finalizeQueueItem assigns levelOrQty).                              *)
BuildingLedger ==
  \A pl \in Planets, k \in Buildings :
    LET pending == {i \in PendingOf("BUILDING", pl) : items[i].key = k}
    IN  /\ level[pl][k] = InitialLevel[k] + Cardinality(DoneOf("BUILDING", pl, k))
        /\ {items[i].n : i \in pending} =
             level[pl][k] + 1 .. level[pl][k] + Cardinality(pending)

(* Buildings are then delivered in their turn as well: the one that ends   *)
(* first, and as one more level, although finalizeQueueItem looks at one   *)
(* item alone and assigns the level it was ordered for.                    *)
ImplementsOrderlyBook == Book!OrderlySpec

(* A building is never lost: levels only go up.                            *)
LevelNeverDecreases ==
  [][\A pl \in Planets, k \in Buildings : level'[pl][k] >= level[pl][k]]_vars

(* The balance stays under the storage capacity: production is capped, and *)
(* the capacity does not shrink under a stored balance (applyProductionTx).*)
WithinCapacity ==
  \A pl \in Planets, r \in Resources : balance[pl][r] <= Capacity(pl)[r]

(* A pending item always has something that will finish it: the request    *)
(* that is about to schedule its job, or a job that is not settled.        *)
PendingHasJob ==
  \A i \in ItemIds : Pending(i) =>
    \/ \E h \in Handlers : req[h].pc = "committed" /\ req[h].item = i
    \/ job[i].state \in {"delayed", "waiting", "active"}

(* Every order is finished: "Jobs BullMQ (Redis) pour finaliser les        *)
(* QueueItem a endAt" (README.md).                                         *)
PendingEventuallyDone == \A i \in ItemIds : Pending(i) ~> Done(i)

-----------------------------------------------------------------------------
(* Resources are computed on demand from timestamps (README.md).           *)

(* What a request at this instant would find.                              *)
Stock(pl) == BalanceAt(pl, clock)

Capacities == [pl \in Planets |-> Capacity(pl)]
Stocks == [pl \in Planets |-> Stock(pl)]
Economy == INSTANCE TickEconomy
             WITH stock <- Stocks, rate <- production, capacity <- Capacities,
                  Grace <- MaxRequestAge

(* Computing on demand gives what a tick per second would have given: the  *)
(* balance projected to the present behaves like the stock of TickEconomy. *)
ImplementsTicks == Economy!Spec

(* Requests that overlap, read the clock early and commit late, in any     *)
(* order, do no worse than this to the economy: each is off by at most     *)
(* what its age produces, and no error grows while time passes.  The       *)
(* delivery of a building alone is worse (finalizeQueueItem changes the    *)
(* rate for the time before it).  It needs clocks that agree.              *)
FinishesBuilding == \E i \in ItemIds : Delivers(i) /\ items[i].type = "BUILDING"
TicksOrDelivers == FinishesBuilding \/ [Economy!Next]_(Economy!vars)
TicksButDeliveries == [][TicksOrDelivers]_vars

PriceOf(item) ==
  CASE item.type = "BUILDING" -> BuildingCost[item.key][item.n]
    [] item.type = "RESEARCH" -> ResearchCost[item.key][item.n]
    [] item.type = "SHIP" -> ShipCost[item.key][item.n]

\* The step that creates order i of planet pl.
Enters(i, pl) ==
  items[i] = NoItem /\ items'[i] # NoItem /\ items'[i].planet = pl

(* An order costs what it costs: the step that creates an item takes its   *)
(* whole price out of what the player has at that instant.  It needs       *)
(* transactions dated by their commit, as a balance stamped with an older  *)
(* `now` earns the seconds in between a second time (startBuilding,        *)
(* startShips and startResearch write lastCalculatedAt: now).              *)
PaysFullPrice ==
  [][\A i \in ItemIds, pl \in Planets, r \in Resources :
       Enters(i, pl) =>
         Stock(pl)'[r] <= Stock(pl)[r] - PriceOf(items'[i])[r]]_vars

(* However requests overlap, an order cannot be had for nothing: it takes  *)
(* its price, less at most what the age of its request produces.  What the *)
(* player has is the stored row, where a storage that shrank left more in  *)
(* it than the projection allows.  It needs clocks that agree.             *)
TakesPrice ==
  \A i \in ItemIds, pl \in Planets, r \in Resources :
    Enters(i, pl) =>
      Stock(pl)'[r] + PriceOf(items'[i])[r]
        <= Greater(Stock(pl)[r], balance[pl][r]) + production[pl][r] * MaxRequestAge
PaysAllButAge == [][TakesPrice]_vars
=============================================================================
