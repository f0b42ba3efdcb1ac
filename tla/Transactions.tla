---------------------------- MODULE Transactions ----------------------------
(***************************************************************************)
(* The backend of Astraxis with its transactions taken apart.  A           *)
(* serializableTransaction reads a snapshot when it begins and writes when *)
(* it commits; others commit in between.  The database refuses a           *)
(* transaction that contradicts one committed meanwhile, and nobody runs   *)
(* it again: prisma.service.ts does not retry, and a job has one attempt.  *)
(*                                                                         *)
(* A row is named by its kind and its planet or item; the row              *)
(* <<type, planet>> stands for the pending items of that type that are     *)
(* not there yet, which an order has looked for and another would insert.  *)
(***************************************************************************)
EXTENDS Astraxis

VARIABLE tx   \* per handler and worker: its open transaction

Clients == Handlers \cup Procs
ASSUME ClientsAssumption == Handlers \cap Procs = {}

txVars == <<vars, tx>>

PlanetRows == {"balance", "production", "level", "setting", "research", "ships",
               "BUILDING", "RESEARCH", "SHIP"}
Rows == SUBSET ((PlanetRows \X Planets) \cup ({"item"} \X ItemIds))

NoTx == [op |-> "none"]
Doomed == [op |-> "doomed"]   \* it can only be refused; nothing else counts
OrderTx == [op : {"order"}, reads : Rows, writes : Rows,
            item : QueueItem, left : Amount]
OverviewTx == [op : {"overview"}, reads : Rows, writes : Rows,
               planet : Planets, left : Amount]
SettingTx == [op : {"setting"}, reads : Rows, writes : Rows,
              planet : Planets, left : Amount, factor : FactorMap, rate : Amount]
BuildingTx == [op : {"building"}, reads : Rows, writes : Rows,
               item : ItemIds, rate : Amount]
DeliveryTx == [op : {"delivery"}, reads : Rows, writes : Rows,
               item : ItemIds]

HandlerTx == OrderTx \cup OverviewTx \cup SettingTx
WorkerTx == BuildingTx \cup DeliveryTx

(* Rows, jobs and requests keep their types, what a transaction will write *)
(* included, and a handler or worker has a transaction only while it has   *)
(* something to do in it.                                                  *)
TxTypeOK ==
  /\ TypeOK
  /\ DOMAIN tx = Clients
  /\ \A h \in Handlers : tx[h] # NoTx => tx[h] \in HandlerTx \cup {Doomed} /\ req[h].pc = "received"
  /\ \A p \in Procs : tx[p] # NoTx =>
       /\ tx[p] \in WorkerTx \cup {Doomed}
       /\ worker[p].step = "processing"
       /\ tx[p] # Doomed => worker[p].item = tx[p].item

TxInit == Init /\ tx = [c \in Clients |-> NoTx]

-----------------------------------------------------------------------------
(* Isolation.                                                              *)

OfPlanet(kinds, pl) == {<<kind, pl>> : kind \in kinds}
ItemRow(i) == <<"item", i>>

\* A variant: Read Committed, which is what a transaction without an
\* isolationLevel would get; the database refuses nobody.
ContradictsNever(a, b) == FALSE

\* Transaction b, still open, can come neither after a, which has just
\* committed, as it has not seen what a wrote, nor before a, which has not seen
\* what b will write.
Contradicts(a, b) ==
  /\ b.reads \cap a.writes # {}
  /\ b.writes \cap (a.reads \cup a.writes) # {}

Open(c) == tx[c] \notin {NoTx, Doomed}

\* Transaction c is over, and committed.
Committed(c) ==
  tx' = [d \in Clients |->
           IF d = c THEN NoTx
           ELSE IF Open(d) /\ Contradicts(tx[c], tx[d])
                THEN Doomed
                ELSE tx[d]]

Begins(c, t) == tx' = [tx EXCEPT ![c] = t] /\ UNCHANGED vars
RolledBack(c) == tx' = [tx EXCEPT ![c] = NoTx]

-----------------------------------------------------------------------------
(* Production.                                                             *)

ProductionReads(pl) == OfPlanet({"balance", "production", "level", "setting"}, pl)

\* Both rows are written when time has passed since the balance was.
ProductionWrites(pl, now) ==
  IF now > lastCalculatedAt[pl] THEN OfPlanet({"balance", "production"}, pl)
  ELSE {}

WriteBalance(h, pl) ==
  IF <<"balance", pl>> \in tx[h].writes
  THEN /\ balance' = [balance EXCEPT ![pl] = tx[h].left]
       /\ lastCalculatedAt' = [lastCalculatedAt EXCEPT ![pl] = req[h].now]
  ELSE UNCHANGED <<balance, lastCalculatedAt>>

MayBegin(h, op) == tx[h] = NoTx /\ Handling(h, op)

BeginOverview(h) ==
  LET body == req[h].body
      now  == req[h].now
      pl   == body.planet
  IN  /\ MayBegin(h, "getOverview")
      /\ Owns(body)
      /\ Begins(h, [op |-> "overview", planet |-> pl,
                    reads |-> ProductionReads(pl),
                    writes |-> ProductionWrites(pl, now),
                    left |-> BalanceAt(pl, now)])

CommitOverview(h) ==
  /\ tx[h].op = "overview"
  /\ WriteBalance(h, tx[h].planet)
  /\ Reply(h)
  /\ Committed(h)
  /\ UNCHANGED <<clock, production, level, factor, research, ships, items,
                 redis, worker>>

BeginSetting(h) ==
  LET body == req[h].body
      now  == req[h].now
      pl   == body.planet
      settings == [factor[pl] EXCEPT ![body.key] = body.factor]
  IN  /\ MayBegin(h, "updateProductionFactor")
      /\ CanUpdateFactor(body)
      /\ Begins(h, [op |-> "setting", planet |-> pl,
                    reads |-> ProductionReads(pl),
                    writes |-> ProductionWrites(pl, now)
                                 \cup OfPlanet({"setting", "production"}, pl),
                    left |-> BalanceAt(pl, now), factor |-> settings,
                    rate |-> ProductionRate[level[pl]][settings]])

CommitSetting(h) ==
  LET pl == tx[h].planet
  IN  /\ tx[h].op = "setting"
      /\ WriteBalance(h, pl)
      /\ factor' = [factor EXCEPT ![pl] = tx[h].factor]
      /\ production' = [production EXCEPT ![pl] = tx[h].rate]
      /\ Reply(h)
      /\ Committed(h)
      /\ UNCHANGED <<clock, level, research, ships, items, redis, worker>>

-----------------------------------------------------------------------------
(* Orders.                                                                 *)

CanOrder(body, now) ==
  \/ body.op = "startBuilding" /\ CanStartBuilding(body, now)
  \/ body.op = "startShips" /\ CanStartShips(body, now)
  \/ body.op = "startResearch" /\ CanStartResearch(body, now)

OrderOf(body, now) ==
  CASE body.op = "startBuilding" -> BuildingOrder(body, now)
    [] body.op = "startShips" -> ShipOrder(body, now)
    [] body.op = "startResearch" -> ResearchOrder(body, now)

OrderReads(type, pl) ==
  ProductionReads(pl) \cup OfPlanet({type}, pl)
    \cup {ItemRow(i) : i \in PendingOf(type, pl)}
    \cup (IF type = "RESEARCH" THEN OfPlanet({"research"}, pl) ELSE {})
OrderWrites(type, pl, now) ==
  ProductionWrites(pl, now) \cup OfPlanet({"balance", type}, pl)

\* A variant: the price is taken off the stored balance.
LeftOfStored(order, now) ==
  [r \in Resources |-> balance[order.planet][r] - PriceOf(order)[r]]

LeftAfter(order, now) ==
  [r \in Resources |-> BalanceAt(order.planet, now)[r] - PriceOf(order)[r]]

BeginOrder(h) ==
  LET now   == req[h].now
      order == OrderOf(req[h].body, now)
      pl    == order.planet
      open  == {g \in Handlers : tx[g].op = "order"}
  IN  /\ tx[h] = NoTx /\ req[h].pc = "received"
      /\ CanOrder(req[h].body, now)
      /\ Cardinality(open) < Cardinality(FreeIds)   \* bound
      /\ Begins(h, [op |-> "order",
                    reads |-> OrderReads(order.type, pl),
                    writes |-> OrderWrites(order.type, pl, now),
                    item |-> order, left |-> LeftAfter(order, now)])

CommitOrder(h) ==
  /\ tx[h].op = "order"
  /\ FreeIds # {}                                   \* bound
  /\ WriteBalance(h, tx[h].item.planet)
  /\ items' = [items EXCEPT ![FreshId] = tx[h].item]
  /\ req' = [req EXCEPT ![h] = [pc |-> "committed", now |-> req[h].now,
                                item |-> FreshId]]
  /\ Committed(h)
  /\ UNCHANGED <<clock, production, level, factor, research, ships, redis, worker>>

\* A request that throws has read the same snapshot and leaves nothing.
RejectRequest(h) == tx[h] = NoTx /\ Reject(h) /\ UNCHANGED tx

\* The client gets the error of the database, or of queue.add.
RefuseRequest(h) ==
  /\ tx[h] = Doomed \/ ("abort" \in Faults /\ req[h].pc \in {"received", "committed"})
  /\ Reply(h) /\ RolledBack(h)
  /\ UNCHANGED <<clock, database, redis, worker>>

-----------------------------------------------------------------------------
(* finalizeQueueItem.                                                      *)

MayFinish(p, types) ==
  /\ tx[p] = NoTx
  /\ worker[p].step = "processing"
  /\ Finalizable(p, worker[p].item)
  /\ items[worker[p].item].type \in types

BeginBuilding(p) ==
  LET i  == worker[p].item
      pl == items[i].planet
      levels == [level[pl] EXCEPT ![items[i].key] = items[i].n]
  IN  /\ MayFinish(p, {"BUILDING"})
      /\ Begins(p, [op |-> "building", item |-> i,
                    reads |-> OfPlanet({"level", "setting"}, pl) \cup {ItemRow(i)},
                    writes |-> OfPlanet({"level", "production"}, pl)
                                 \cup {ItemRow(i)},
                    rate |-> ProductionRate[levels][factor[pl]]])

CommitBuilding(p) ==
  LET i  == tx[p].item
      pl == items[i].planet
  IN  /\ tx[p].op = "building"
      /\ level' = [level EXCEPT ![pl][items[i].key] = items[i].n]
      /\ production' = [production EXCEPT ![pl] = tx[p].rate]
      /\ Finish(i) /\ Processed(p)
      /\ Committed(p)
      /\ UNCHANGED <<clock, balance, lastCalculatedAt, factor, research, ships,
                     redis, req>>

BeginDelivery(p) ==
  LET i    == worker[p].item
      rows == OfPlanet({IF items[i].type = "SHIP" THEN "ships" ELSE "research"},
                       items[i].planet) \cup {ItemRow(i)}
  IN  /\ MayFinish(p, {"SHIP", "RESEARCH"})
      /\ Begins(p, [op |-> "delivery", item |-> i,
                    reads |-> rows, writes |-> rows])

CommitDelivery(p) ==
  LET i  == tx[p].item
      pl == items[i].planet
  IN  /\ tx[p].op = "delivery"
      /\ \/ /\ items[i].type = "RESEARCH"
            /\ research' = [research EXCEPT ![pl][items[i].key] = items[i].n]
            /\ UNCHANGED ships
         \/ /\ items[i].type = "SHIP"
            /\ ships' = [ships EXCEPT ![pl][items[i].key] = @ + items[i].n]
            /\ UNCHANGED research
      /\ Finish(i) /\ Processed(p)
      /\ Committed(p)
      /\ UNCHANGED <<clock, balance, lastCalculatedAt, production, level, factor,
                     redis, req>>

SkipFinish(p) == tx[p] = NoTx /\ SkipFinalize(p) /\ UNCHANGED tx

\* The transaction throws what the database answered, and with it the job.
RefuseFinish(p) ==
  /\ tx[p] = Doomed \/ ("abort" \in Faults /\ worker[p].step = "processing")
  /\ Settle(p, "failed") /\ RolledBack(p)

-----------------------------------------------------------------------------
(* The backend.                                                            *)

Stop(p) ==
  /\ Crash(p)
  /\ tx' = [c \in Clients |->
              IF c = p \/ (c \in Handlers /\ Host[c] = p) THEN NoTx ELSE tx[c]]

\* Bound: with the last item of an instance its last request has come.
Arrives(h) == FreeIds # {} /\ Receive(h)

Idles ==
  \/ Tick
  \/ \E h \in Handlers : Arrives(h) \/ ScheduleQueueItem(h)
  \/ \E p \in Procs : Promote(p) \/ Take(p) \/ CompleteJob(p)
  \/ \E i \in ItemIds : Stalled(i)

HandlerStep(h) ==
  \/ BeginOverview(h) \/ CommitOverview(h)
  \/ BeginSetting(h) \/ CommitSetting(h)
  \/ BeginOrder(h) \/ CommitOrder(h)
  \/ RejectRequest(h) \/ RefuseRequest(h)

WorkerStep(p) ==
  \/ BeginBuilding(p) \/ CommitBuilding(p)
  \/ BeginDelivery(p) \/ CommitDelivery(p)
  \/ SkipFinish(p) \/ RefuseFinish(p)
  \/ Stop(p)

TxNext ==
  \/ Idles /\ UNCHANGED tx
  \/ \E h \in Handlers : HandlerStep(h)
  \/ \E p \in Procs : WorkerStep(p)

TxSpec == TxInit /\ [][TxNext]_txVars
=============================================================================
