--------------------------- MODULE PlanetService ---------------------------
(***************************************************************************)
(* The request handlers of planet.service.ts.  A handler reads Date.now()  *)
(* first, then runs one serializable transaction against the database,     *)
(* and, when that transaction created a queue item, adds a job for it to   *)
(* the BullMQ queue in a separate step.                                    *)
(*                                                                         *)
(* A transaction is one action here: whatever throws in it rolls it back,  *)
(* the production it had applied included.  Module Transactions takes it   *)
(* apart into a snapshot and a commit.                                     *)
(***************************************************************************)
EXTENDS GameState

\* The handler has read the clock and not yet committed.
Handling(h, op) == req[h].pc = "received" /\ req[h].body.op = op

Receive(h) ==
  /\ req[h].pc = "idle"
  /\ \E body \in Requests :
       req' = [req EXCEPT ![h] = [pc |-> "received", now |-> Now(Host[h]),
                                  body |-> body]]
  /\ UNCHANGED <<clock, database, redis, worker>>

-----------------------------------------------------------------------------
(* applyProductionTx on its own: getOverview and updateProductionFactor.   *)

\* A variant that leaves the old time stamp.
ApplyWithoutStamp(pl, now) ==
  /\ balance' = [balance EXCEPT ![pl] = BalanceAt(pl, now)]
  /\ UNCHANGED lastCalculatedAt

ApplyProduction(pl, now) ==
  /\ balance' = [balance EXCEPT ![pl] = BalanceAt(pl, now)]
  /\ lastCalculatedAt' = [lastCalculatedAt EXCEPT ![pl] = Greater(@, now)]

Owns(body) == body.player = body.planet

\* The reply of a request that creates no item ends it.
Reply(h) == req' = [req EXCEPT ![h] = Idle]

GetOverview(h) ==
  LET body == req[h].body
  IN  /\ Handling(h, "getOverview")
      /\ Owns(body)
      /\ ApplyProduction(body.planet, req[h].now)
      /\ Reply(h)
      /\ UNCHANGED <<clock, production, level, factor, research, ships, items,
                     redis, worker>>

CanUpdateFactor(body) == body.key \in Mines /\ Owns(body)

\* recomputeProduction reads the setting the same transaction has upserted.
UpdateProductionFactor(h) ==
  LET body == req[h].body
      pl   == body.planet
  IN  /\ Handling(h, "updateProductionFactor")
      /\ CanUpdateFactor(body)
      /\ ApplyProduction(pl, req[h].now)
      /\ factor' = [factor EXCEPT ![pl][body.key] = body.factor]
      /\ RecomputeProduction(pl, level[pl], factor'[pl])
      /\ Reply(h)
      /\ UNCHANGED <<clock, level, research, ships, items, redis, worker>>

-----------------------------------------------------------------------------
(* startBuilding, startShips and startResearch.                            *)

HasEnough(available, cost) == \A r \in Resources : available[r] >= cost[r]

\* Variants: one pays from the stored row instead of the balance at `now`, one
\* leaves the old time stamp.
SpendFromStored(pl, now, cost) ==
  /\ balance' = [balance EXCEPT
       ![pl] = [r \in Resources |-> balance[pl][r] - cost[r]]]
  /\ lastCalculatedAt' = [lastCalculatedAt EXCEPT ![pl] = now]
SpendWithoutStamp(pl, now, cost) ==
  /\ balance' = [balance EXCEPT
       ![pl] = [r \in Resources |-> BalanceAt(pl, now)[r] - cost[r]]]
  /\ UNCHANGED lastCalculatedAt

\* Every order is paid from the balance at `now`, and stamps the balance row
\* with `now`, whatever was there.
Spend(pl, now, cost) ==
  /\ balance' = [balance EXCEPT
       ![pl] = [r \in Resources |-> BalanceAt(pl, now)[r] - cost[r]]]
  /\ lastCalculatedAt' = [lastCalculatedAt EXCEPT ![pl] = now]

CanPay(order, cost, now) ==
  /\ HasEnough(BalanceAt(order.planet, now), cost)
  /\ FreeIds # {} /\ order.endAt <= Horizon   \* bounds

PlaceOrder(h, order, cost) ==
  /\ Spend(order.planet, req[h].now, cost)
  /\ items' = [items EXCEPT ![FreshId] = order]
  /\ req' = [req EXCEPT ![h] = [pc |-> "committed", now |-> req[h].now,
                                item |-> FreshId]]
  /\ UNCHANGED <<clock, production, level, factor, research, ships, redis,
                 worker>>

\* A variant that forgets the levels already ordered.
NextLevelOfBuilt(pl, key) == level[pl][key] + 1

\* The level after the ones already ordered.
NextLevel(pl, key) ==
  LET pending == {i \in PendingOf("BUILDING", pl) : items[i].key = key}
  IN  level[pl][key] + Cardinality(pending) + 1

\* A variant that builds everything at once.
BuildStartNow(pl, now) == now

\* A building starts when the last pending one of the planet ends.
BuildStart(pl, now) ==
  LET queue == PendingOf("BUILDING", pl)
      tail  == CHOOSE i \in queue :
                 \A j \in queue : items[i].endAt >= items[j].endAt
  IN  IF queue = {} THEN now ELSE Greater(items[tail].endAt, now)

BuildingOrder(body, now) ==
  LET pl    == body.planet
      n     == NextLevel(pl, body.key)
      start == BuildStart(pl, now)
  IN  [type |-> "BUILDING", planet |-> pl, key |-> body.key, n |-> n,
       startAt |-> start, endAt |-> start + BuildingTime[body.key][n],
       status |-> "PENDING"]

CanStartBuilding(body, now) ==
  LET n == NextLevel(body.planet, body.key)
  IN  /\ Owns(body)
      /\ n <= MaxLevel                         \* bound
      /\ CanPay(BuildingOrder(body, now), BuildingCost[body.key][n], now)

StartBuilding(h) ==
  LET body  == req[h].body
      now   == req[h].now
      order == BuildingOrder(body, now)
  IN  /\ Handling(h, "startBuilding")
      /\ CanStartBuilding(body, now)
      /\ PlaceOrder(h, order, BuildingCost[body.key][order.n])

\* ensureNoPending
NoPending(type, pl) == PendingOf(type, pl) = {}

ShipOrder(body, now) ==
  [type |-> "SHIP", planet |-> body.planet, key |-> body.key, n |-> body.qty,
   startAt |-> now,
   endAt |-> now + ShipTime[body.key][body.qty][level[body.planet]],
   status |-> "PENDING"]

CanStartShips(body, now) ==
  /\ Owns(body)
  /\ NoPending("SHIP", body.planet)
  /\ CanPay(ShipOrder(body, now), ShipCost[body.key][body.qty], now)

StartShips(h) ==
  LET body == req[h].body
      now  == req[h].now
  IN  /\ Handling(h, "startShips")
      /\ CanStartShips(body, now)
      /\ PlaceOrder(h, ShipOrder(body, now), ShipCost[body.key][body.qty])

\* The planet that pays is the player's own, named in the body or not.
ResearchOrder(body, now) ==
  LET pl == body.player
      n  == research[pl][body.key] + 1
  IN  [type |-> "RESEARCH", planet |-> pl, key |-> body.key, n |-> n,
       startAt |-> now, endAt |-> now + ResearchTime[body.key][n][level[pl]],
       status |-> "PENDING"]

CanStartResearch(body, now) ==
  LET n == research[body.player][body.key] + 1
  IN  /\ NoPending("RESEARCH", body.player)
      /\ n <= MaxLevel                         \* bound
      /\ CanPay(ResearchOrder(body, now), ResearchCost[body.key][n], now)

StartResearch(h) ==
  LET body  == req[h].body
      now   == req[h].now
      order == ResearchOrder(body, now)
  IN  /\ Handling(h, "startResearch")
      /\ CanStartResearch(body, now)
      /\ PlaceOrder(h, order, ResearchCost[body.key][order.n])

-----------------------------------------------------------------------------
(* The ways out: a rejected request, a transaction the database aborts, a  *)
(* queue that does not take the job.                                       *)

Rejected(body, now) ==
  \/ body.op = "getOverview" /\ ~Owns(body)
  \/ body.op = "startBuilding" /\ ~CanStartBuilding(body, now)
  \/ body.op = "startShips" /\ ~CanStartShips(body, now)
  \/ body.op = "startResearch" /\ ~CanStartResearch(body, now)
  \/ body.op = "updateProductionFactor" /\ ~CanUpdateFactor(body)

Reject(h) ==
  /\ req[h].pc = "received"
  /\ Rejected(req[h].body, req[h].now)
  /\ Reply(h)
  /\ UNCHANGED <<clock, database, redis, worker>>

\* serializableTransaction does not retry: a serialization failure or a
\* timeout is the client's error.  queue.add may fail too, after the commit.
Abort(h) ==
  /\ "abort" \in Faults
  /\ req[h].pc \in {"received", "committed"}
  /\ Reply(h)
  /\ UNCHANGED <<clock, database, redis, worker>>

\* A variant that waits for the wrong end of the construction.
DelayToStart(i, now) == Greater(0, items[i].startAt - now)

DelayOf(i, now) == Greater(0, items[i].endAt - now)

\* scheduleQueueItem: a delay that is over puts the job straight on the list.
ScheduleQueueItem(h) ==
  LET i     == req[h].item
      delay == DelayOf(i, Now(Host[h]))
  IN  /\ req[h].pc = "committed"
      /\ job' = [job EXCEPT
           ![i] = [state |-> IF delay > 0 THEN "delayed" ELSE "waiting",
                   due |-> Now(Host[h]) + delay, stalls |-> 0]]
      /\ wait' = IF delay > 0 THEN wait ELSE Append(wait, i)
      /\ Reply(h)
      /\ UNCHANGED <<clock, database, worker>>

\* What a handler does with a request it has; it is never left half-way
\* except by a fault.
Handle(h) ==
  \/ GetOverview(h)
  \/ UpdateProductionFactor(h)
  \/ StartBuilding(h)
  \/ StartShips(h)
  \/ StartResearch(h)
  \/ Reject(h)
  \/ ScheduleQueueItem(h)
=============================================================================
