# Verification of Astraxis

Astraxis is an OGame-like browser game: a NestJS backend (`apps/backend`), a
Next.js front end (`apps/frontend`) and the game's formulas
(`packages/shared`). This directory holds TLA+ models of its core logic, TLC
configurations that check them on small instances, and TLAPS proofs that hold
for every instance. All paths below are relative to the repository.

## 1. The system

### Components, state, operations

| Component | State it keeps | Operations that change it |
|---|---|---|
| Planet service, `planet/planet.service.ts` | SQL rows: `ResourceBalance` (amounts, `lastCalculatedAt`), `Production` (rates), `BuildingLevel`, `BuildingSetting`, `QueueItem` | `getOverview`, `startBuilding`, `startShips`, `startResearch`, `updateProductionFactor`; each reads `new Date()` once and runs one serializable transaction |
| Queue service, `queue/queue.service.ts` | `QueueItem.status`, levels, `ResearchLevel`, `ShipCount` | `finalizeQueueItem`; `ensureNoPending` is a guard |
| Jobs, `jobs/*.ts` | the BullMQ queue `tasks` in Redis | `scheduleQueueItem` adds a delayed job, `process` runs one |
| Transactions, `prisma/prisma.service.ts` | - | Serializable isolation, no retry |
| Universe service, `universe/universe.service.ts` | `Universe`, `Planet`, starter rows | `createUniverse`, `updateUniverse`, `createStarterPlanet`, `recomputeProduction` |
| Authentication, `auth/*` | `User`, `Player`, tokens | `register`, `login`, `refresh`, `updateProfile` |
| Real-time gateway, `ws/*` | sockets and rooms | connect, `subscribe`, three kinds of event |
| API client and session, `frontend/src/lib/*` | the session in `localStorage` | requests with one refresh and retry, login, logout |
| Overview page, `frontend/src/app/overview/page.tsx` | the displayed planet, queue and resources | `reload`, socket events, order buttons |
| Formulas, `packages/shared/src/formulas.ts` | none | prices, durations, rates, capacities |
| Seed and deployment, `prisma/seed.ts`, `infra/docker` | the default universe | find-then-create, start-up retries |

### How they interact

A request handler commits an order (balance debited, `QueueItem` PENDING with
its `endAt`) and *then* adds a BullMQ job with the item's id and the delay to
`endAt`. A worker, in this or another process, takes the job when it is due
and calls `finalizeQueueItem`, one transaction that sets the level or adds the
ships, recomputes the rates and marks the item DONE. Resources are not ticked:
every transaction that needs the balance first adds *rate x elapsed time*
since `lastCalculatedAt`, capped by the storage. Database and Redis are the
only state the processes share; a process that dies loses its requests and
its worker's position, and nothing looks for what it left.

### What is hard

* commit and scheduling are two steps; a crash between them loses the job;
* a job may run twice (lost worker, lost lock), early (clock skew), or after a
  younger one (stalled, late); it has a single attempt;
* `now` is read before the transaction, so transactions may commit in another
  order than their `now`s;
* levels are assigned rather than incremented, and rates are stored;
* read-check-write sequences (pending orders, balances, slots, e-mails) rest on
  Serializable isolation and unique constraints;
* the browser refreshes tokens and reloads state while events arrive, and events
  are lost with a connection;
* prices, capacities and the shared energy meet rounding, minima and caps.

`PROJECT.json` lists each hazard at its line with the properties that watch it.

### What makes each part correct

* Orders: at most one ship order per planet and one research per player is
  pending; building orders of a planet do not overlap in time; every order is
  paid in full, delivered exactly once, and finished in the end.
* Levels: research and building levels equal what was ordered and finished;
  levels do not drop; stored rates match levels and settings.
* Resources: balances stay between zero and the storage capacity; computing on
  demand gives what a tick per second would have given.
* Universes: slots and addresses are unique, systems fill in order, and no planet
  keeps the rate of a former speed unless an update of its universe failed.
* Session: a request runs at most once and for the user who made it; tokens and
  profile belong to one user; logging out is final.
* Live view: an open page ends on a queue and a balance as new as what made it
  reload, and shows a player his own order.
* Formulas: a level never costs less than the one before and brings more of what it
  is for; mines share the energy; durations are positive, capacities finite.

## 2. Modules

| Module | Models |
|---|---|
| `GameState` | Constants with their assumptions, the variables, types, what is read from the state (`BalanceAt` is `applyProductionTx`'s arithmetic), `recomputeProduction`, the starter rows as `Init` |
| `PlanetService` | The request handlers: `Receive` reads the clock, one action per operation is its transaction as a whole, `ScheduleQueueItem` adds the job; `Reject` is every exception, `Abort` a transaction or `queue.add` that fails |
| `TaskQueue` | BullMQ as the code uses it (`Promote`, `Take`, `Stalled`, `Settle`) and `finalizeQueueItem` (`FinishBuilding`, `FinishResearch`, `FinishShips`, `SkipFinalize`, `FinalizeFails`) |
| `Astraxis` | Composition: time, crashes, fairness, and the properties |
| `Transactions` | The same backend with its transactions taken apart: each reads a snapshot in one step and writes in a later one, others commit in between, and the database refuses the one that contradicts them |
| `TickEconomy` | Abstract specification: a game with a global tick, whose books may be some ticks late |
| `OrderBook` | Abstract specification: orders are entered and delivered, without jobs, workers, clocks or failures; the orderly book also delivers buildings in their turn |
| `MCAstraxis`, `MCTransactions` | The small instances |
| `UniverseService` | Registration (`register`, `createStarterPlanet`, `findRandomSlot`), `updateProfile`, `createUniverse`, `updateUniverse` and every transaction that recomputes a rate, with reads and commits apart |
| `MCUniverseService` | Its small instances |
| `ApiClient` | The front end's session and `apiFetch`, for concurrent calls of several tabs, with the tokens, sign-ins and refusals of the backend |
| `MCApiClient` | Its small instances |
| `LiveView` | What a player sees: handlers and workers that commit and then emit (`Announce`, `AnnounceFinished`), the gateway's room (`Join`, `Drop`), the session of the browser, and the overview page with its socket handlers and its `reload` (`Asks`, with its early return, to `ApplyReload` or `ReloadFails`) |
| `MCLiveView` | Its small instance |
| `Formulas` | `formulas.ts` in integers: the tables, prices, durations, energy and rates, capacities |
| `Growth` | A planet as its player develops it, and what the windows of the overview and building pages show of the next levels |
| `MCGrowth` | Its small instances |
| `ApiClientProofs` | Theorems: types, one execution, logout, calls come to an end, one user per session |
| `AstraxisProofs` | The inductive type invariant and type correctness; what a step does to orders, rates and fleets, stated of any step that places or closes one order, so that it serves both specifications |
| `ClockProofs` | What agreeing clocks give: jobs for the right orders, no order without a job, the economy with a tick, prices |
| `BuildingProofs` | Theorems that need a backend in good order: building levels and balances |
| `TransactionProofs` | Theorems about overlapping transactions: orders, ledgers, deliveries, stored rates, fleets, jobs |
| `UniverseProofs` | Theorems: addresses, slots, the order systems fill in, rates and speeds |
| `LiveViewProofs` | Theorems: a page at rest, the reload after an order |
| `GrowthProofs` | Theorems: prices, durations, rates and capacities at every level; the limit the storages set |

Correspondence of state: `balance`, `lastCalculatedAt`, `production`, `level`,
`factor`, `research`, `ships`, `items` are the tables; `job` and `wait` the
BullMQ job hash and wait list; `req[h]` a handler between reading the clock
and its answer; `worker[p]` the job a process's worker has, before
(`processing`) or after (`finalized`) the transaction of `finalizeQueueItem`.

In `Transactions`, `tx[c]` is the open transaction of a handler or a worker: the rows it
has read, the rows it will write, and what it will write in them, computed when it
began. Rows are named by kind and planet or item; `<<type, planet>>` stands for the
pending items that are *not* there, so that looking for one and inserting one concern
the same row. Serializable isolation refuses a transaction that fits neither before nor
after one committed while it was open (`Contradicts`): the later of two that have read
what the other writes. A refused transaction is `Doomed`; nobody runs it again, so an
order is answered with an error and a job is spent (`RefuseRequest`, `RefuseFinish`).
That a database may refuse more than this is the fault "abort". The transactions that
read universes and registrations are in `UniverseService`.

In `ApiClient`, `storage` is the entry of `localStorage` (its tokens and its
`playerId`), `call[c]` one run of `apiFetch`: `sent` and `answered` stand before
and after the server handles the request, `refreshing` and `refreshed` before
and after `/auth/refresh` does. A token is the serial number of the pair
`signTokens` issued it in; `accessEnd` and `refreshEnd` are the last pairs that
have expired. The JavaScript of a page runs between two answers without
interruption, so `Receive`, `Retry` and `GiveUp` are single steps; pages and tabs
share nothing but `storage`.

In `UniverseService` user, player and planet *i* are the rows that registration *i*
inserts; `config` stands for the levels and factors of a planet, `request[h]` for
what a handler has read and has left to do. A transaction reads in one step and
commits in another if what it read is unchanged (`Serializable`), or fails;
`updateUniverse` is its update, the list of planets, and one such transaction per
planet. `abandoned` is a history variable: the planets an interrupted update had
still to recompute and nobody has recomputed since.

In `LiveView` the database is only which orders exist and which are done; reads are
dated by the number of commits before them, and those dates are how the properties
speak of "as new as". `session` says whether `localStorage` has the player's session,
which other tabs end and begin. `handler[h]` is a handler past its commit, `worker[w]` a
worker past its own; `bus[t][s]` are the events of sender *s* on their way to tab *t*,
`joined[t]` its place in the room, `page[t]` the React state (`queue`, `resources`),
`reloads[t]` its calls of `fetchOverview`. A handler's read of the pending items and
its `emit` are one step: a list that gets old between the two is a list that travels
longer. History: `due` and `fundsDue` date the page's last call of `reload`, and
`lapsed` says which of the list and the balance that call will not bring up to date
because it returned early, because a reload failed, or because something older has come
in and replaced what was new enough (`Replaces`). So a page that was up to date and
falls behind again is behind, and is seen to be: `Behind` compares dates and is never
cleared, and `lapsed` only says why.

`Growth` has the real tables. An order and its completion are one step, and a player
can order what the capacities would let him pay for, because `applyProductionTx`
cuts every balance at the capacity (`WithinCapacity`). `BuildingOffer`,
`ResearchOffer` and `ShipOffer` are what the windows show and what the backend
charges, `MineHelps` and its like the signs of what `impactForLevel` prints. The
formulas were compared with the values of `formulas.ts` for every key up to level 5
and several speeds: they agree but for three durations that are exact halves
(shipyard and impulse drive), which floating point rounds down.

Abstractions. A player has exactly the planet registration gives him (nothing else
creates planets), so players are named by planets and `startResearch`'s choice of the
paying planet is that planet. In the modules of `Astraxis` a transaction is one atomic
step, because it is rolled back on any exception; `Transactions` does not assume that,
and what holds there holds although reads and writes are apart. Amounts, rates and
times are natural numbers; prices, durations, rates and capacities are constants, about
which only signs are assumed (`FormulasAssumption`), so what is proved holds for any
formulas with these signs. Real-time events change no state of the backend and are left
to `LiveView`. The operators whose comments call them variants are deliberately wrong
versions of the definition that follows them; no specification uses them, and each shows
that a property would notice that mistake.

BullMQ (external) is modelled with its defaults: concurrency 1 per process,
one attempt per job, delayed jobs move to the end of the wait list when due in
order of due time, a job whose worker lost it goes back to the front of the
list once and fails the second time, only the holder of the lock settles a job.

## 3. What TLC checks

`tlc -config MC<name>.cfg MCAstraxis.tla`, or `MCTransactions.tla` for the
configuration `MCFaults`, `MCApiClient.tla` for `MCSession`, `MCUniverseService.tla` for
`MCUniverses`, `MCLiveView.tla` for `MCLiveView` and `MCStaleView`, `MCGrowth.tla` for
`MCFormulas`. All instances of `Astraxis` and `Transactions` have one planet.

| Configuration | Instance | Shows |
|---|---|---|
| `MCFaults` | overlapping transactions: 2 processes, 2 requests on the first, 2 workers, 2 orders, every kind of request, crashes, stalls and refused transactions | types; of two racing orders of a kind one commits; building spans disjoint though both were computed from the same tail; rates match levels though a finish and a setting race; research and fleets equal the finished orders; each order has one job, in one place, and is delivered once; a completed job delivered its order; the backend implements `OrderBook` |
| `MCRecovery` | 2 processes, 1 request at a time, orders of every kind, crashes, aborts and stalls, with fairness | whatever is under way ends: an order is delivered, unless its process died before its job reached Redis or BullMQ has failed the job |
| `MCReliable` | 1 process, 2 overlapping requests, 2 building orders on a mine and a storage, overviews and settings, no faults | levels count the orders and never drop, buildings are delivered in their turn (the orderly `OrderBook`), balances stay under the storage, each pending order has a job or a request about to add it; requests that commit an older `now` cost `TickEconomy` no more than their age produces, and the delivery of a building is the only step that does worse |
| `MCLostJob` | crash fault, fairness | **violated**: an order committed before a crash stays pending for ever |
| `MCClockSkew` | 2 processes, clocks one tick apart | **violated**: a job completes without delivering |
| `MCRewind` | 2 overlapping orders, ample storage | **violated**: the time between the two `now`s is credited twice |
| `MCRetroactive` | building orders | **violated**: a finished mine's rate applies to time before it was finished |
| `MCSession` | 2 calls, 2 users of whom one has an account, 5 token pairs, anything overlaps, fairness | types; a call executes its request at most once, comes nearer to its end with every step, and ends; a late refresh does not undo a logout; the session belongs to one user and a request, retried or not, is executed for the user who made it, except after the retry that merges two sessions |
| `MCUniverses` | 2 handlers, 2 universes of 1 or 2 slots, 2 users, 2 addresses, 2 speeds, 2 configurations | types and foreign keys; unique slots, also in a full universe; unique addresses; systems fill in order; a stored rate follows the universe's speed, or an update is still to reach the planet or failed before it did |
| `MCLiveView` | 1 page, 1 handler, 1 worker, 2 orders of which one is research, 2 reloads in flight, crashes, lost connections, failing reloads, a session that comes and goes | types; a page at rest is as new as its last call of `reload` was to make it, but for the reasons named; an order's own reload shows it |
| `MCStaleView` | the same without faults | **violated**: two orders in quick succession, and the first one's reload is answered last: the page rests on the older queue |
| `MCFormulas` | the real tables; mines up to level 3 at 0, 50 and 100 % on 4 positions; storages up to 13; installations up to 5 in universes of speed 1, 8 and 100 | every level offered brings strictly more and costs more; mines share energy; sun against deuterium; types and positive durations |

The violated properties quote the README of the repository ("Jobs BullMQ
(Redis) pour finaliser les QueueItem à `endAt`", "Ressources calculées à la
demande via timestamps (pas de tick global)", "file d’attente avec countdown" and
"mises à jour en temps réel"); see the findings in `PROJECT.json`.

Bounds. `ItemIds`, `MaxLevel`, `Horizon` cap orders, levels and time; a request
beyond a bound is rejected. Two items are enough for two orders of one kind to race,
follow each other, be delivered out of order or be charged on one balance, and for a
mine and its storage to grow. Durations (1 to 3 ticks) leave time for requests before,
at and after each `endAt`, and storage (4 plus 2 per level) is reached. Deadlock
checking is off because an instance ends when its horizon is reached and its items are
used.

`MaxRequestAge` bounds the ticks between reading `now` and adding the job. All
instances but `MCRetroactive`, whose counterexample needs no late request, use 1: a
clock tick may pass between any two steps of a request. In `MCReliable` that is less
than the shortest construction (2): Prisma limits a transaction to 7 s (2 to start, 5
to run) and the code never goes below 10 s for buildings. Without that bound a job can
be added after it is due and run before an older one, and the level then jumps and
drops back.

In `MCFaults` everything is built in one tick and the horizon is 2, so that two orders,
their jobs, a second delivery and the requests between them fit in; at most one of the
jobs stalls or fails (`OneTrouble`), a transaction for an order begins only while there
is an item for it, and no request arrives after the last item is used. There is no
fault "abort": a transaction fails there because another one contradicts it. `MCRecovery`
has that fault, and transactions in one step each.

In `MCUniverses` two handlers are enough for a registration, a rebuild or an update
to overlap with an update, two planets for an update to stop half-way, and two
universes for planets that `findRandomSlot` must not count; a universe of one slot
is full while there are users to register. The administrator changes the number
of systems; with positions changing too, slots open in systems that were full,
and `SystemsFillInOrder` is not meant for that.

In `ApiClient` a call issues at most two pairs of tokens (one by a refresh, one by
the sign-in it retries), and `MaxTokens` leaves room for the two calls to do so
and for one or two earlier ones that have left a session; a call begins only if
the bound leaves that room, so no step of a call in flight is ever cut off.
`login` and `register` may be under way together with other calls; the code does not
prevent it. What goes wrong then goes wrong in one place: a retry saves the tokens that
the refresh of its former session has brought into the session another user has opened
meanwhile. The history variable `mixed` records that step until somebody signs in or out,
and `mixedCalls` the calls that made it or began in such a session; `SessionOfOneUser`
and `ActsForItsUser` except these and nothing else, so sign-ins and sign-outs during a
call, its refresh and its retry are covered.

In `MCLiveView` a page neither sees nor disturbs another one, so one is enough; the
orders of other pages are those no tab awaits. Two reloads are enough to overtake each
other. A sender takes on new work only when its last events have arrived (`Heard`),
which bounds the queues of events. In `MCFormulas` the windows look three levels
ahead, so mines are compared up to level 6; settings in steps of 50 % include both
limits; TLC's integers have 32 bits, which bounds the levels of the mines
(the theorems of `GrowthProofs` are not so bounded).

Fairness (`Fairness` in `Astraxis`): weak fairness of time, of a handler going on
with its request, of a running process's worker, and of BullMQ's stalled check for
jobs that have no worker. Each is a loop of the runtime that runs as long as the
process does. Receiving requests and all faults are never forced. In
`ApiClient`, `Progress(c)` is weakly fair for each call: a request is answered or
rejected, and the promise that awaits it then runs. `LiveView` assumes no
fairness: its properties say what a page shows once everything is at rest, not that it
comes to rest.

## 4. What is proved

TLAPS checks these for all values of the constants that satisfy the four named
assumptions of `GameState` (bounds are numbers, hosts and skews are functions, requests
are well-formed, formulas have the right signs), and for `ApiClient` the two of that
module (the users with an account are users, the calls are finitely many), for
`UniverseService` `RowsAssumption` (speeds and sizes are positive), for `LiveView` its
two (finitely many orders and reloads, handlers are not workers), for `Growth`
`SitesAssumption` and the `StepsAssumption` of `Formulas` (positions and speeds are
positive, a factor has at least one step). Those of
`TransactionProofs` add `ClientsAssumption` (handlers are not processes). The theorems of
`AstraxisProofs` and `TransactionProofs` hold with any number of processes and handlers
and every fault, and but for the two marked with `ClocksAgree` with any clock skew. The
others name what more they need:

* `ClocksAgree`: the processes' clocks show the true time (`MCClockSkew` shows a job
  lost otherwise);
* `NoFaults`: no crash, abort or stall (`MCLostJob` shows an order lost otherwise);
* `Reliably`: the first two, one process, and requests shorter than the shortest
  construction. The code gives 10 s at least (`formulas.ts`, `buildingTimeSeconds`),
  and a transaction ends within 7 s. With two processes, or a longer request, the job
  of a building can run before that of an older one;
* `StorageGrows`, `InitialFits`: the capacity is a growing function of the storage
  level (`formulas.ts`, `storageCapacityForLevel`) and the starter balance fits in.
  `FormulasAssumption` says nothing about growth, so the theorem does.

The instance of `MCReliable` satisfies all of these, and the same properties are checked
there.

| Theorem | Statement |
|---|---|
| `AstraxisProofs!TypeInvariant`, `TypeCorrect` | `Spec => []TypeInv`, `Spec => []TypeOK`: among others, no transaction writes a negative balance |
| `TransactionProofs!TxInvariant`, `TxTypes` | `TxSpec => []TxInv`, `TxSpec => []TxTypeOK`: what a transaction still open has read of orders, levels and settings is so, or it will be refused |
| `TransactionProofs!OneOrder` | `TxSpec => []OneOrderAtATime` |
| `TransactionProofs!Sequential` | `TxSpec => []BuildingsSequential` |
| `TransactionProofs!Ledger` | `TxSpec => []ResearchLedger` |
| `TransactionProofs!Delivery` | `TxSpec => DeliveredOnce` |
| `TransactionProofs!OrdersAreABook` | `TxSpec => ImplementsBook` |
| `TransactionProofs!RatesMatch` | `TxSpec => []ProductionMatchesLevels` |
| `TransactionProofs!Fleet` | `TxSpec => []FleetConserved` |
| `TransactionProofs!Completed` | `ClocksAgree` implies `TxSpec => []CompletedMeansDone` |
| `TransactionProofs!OneJob` | `TxSpec => []OneJobPerOrder`, whatever the clocks show |
| `TransactionProofs!UnderWayCarried` | `ClocksAgree` implies that whatever is `UnderWay` has a request, a delay, a place on the list or a worker: with weak fairness that is what `OrdersEventuallyDone` rests on |
| `ClockProofs!Reliable` | `ClocksAgree`, `NoFaults` imply `Spec => []PendingHasJob` |
| `ClockProofs!TicksWithGrace` | `ClocksAgree` implies `Spec => TicksButDeliveries`: every step but the delivery of a building is a step of `TickEconomy` with `Grace` the age of the oldest request, or leaves its variables alone |
| `ClockProofs!OrdersArePaid` | `ClocksAgree` implies `Spec => PaysAllButAge` |
| `BuildingProofs!LevelsCount`, `LevelsGrow` | `Reliably` implies `Spec => []BuildingLedger` and `Spec => LevelNeverDecreases` |
| `BuildingProofs!OrderlyBook` | `Reliably` implies `Spec => ImplementsOrderlyBook` |
| `BuildingProofs!BalancesFit` | `Reliably`, `StorageGrows`, `InitialFits` imply `Spec => []WithinCapacity` |
| `ApiClientProofs!SessionTypes` | `Spec => []TypeOK` |
| `ApiClientProofs!AtMostOnce` | `Spec => []ExecutedAtMostOnce` |
| `ApiClientProofs!LogoutIsFinal` | `Spec => LogoutSticks` |
| `ApiClientProofs!CallsAdvance` | `Spec => CallAdvances`: every step of a call lowers `StepsLeft`, which starts at 7; with `WF_vars(Progress(c))` that is what `CallEnds` rests on |
| `ApiClientProofs!OneUser`, `OwnRequests` | `Spec => []SessionOfOneUser` and `Spec => []ActsForItsUser` (but for the retry that mixes two sessions) |
| `UniverseProofs!TypeCorrect` | `Spec => []TypeOK` |
| `UniverseProofs!Addresses`, `Slots` | `Spec => []OneUserPerEmail`, `Spec => []OnePlanetPerSlot` |
| `UniverseProofs!FillOrder` | `SamePositions` implies `Spec => []SystemsFillInOrder` |
| `UniverseProofs!Rates` | `Spec => []RatesFollowSpeed` |
| `LiveViewProofs!ViewTypes` | `Spec => []TypeOK` |
| `LiveViewProofs!ViewAtRest` | `Spec => []RestingView` |
| `LiveViewProofs!OwnOrder` | `Spec => OwnOrderShown` |
| `GrowthProofs!GrowthTypes` | `Spec => []TypeOK`: among others, prices are natural numbers and a construction takes 10 s at least, research 10 s, ships 5 s |
| `GrowthProofs!Dearer` | `Spec => []LevelsGetDearer` |
| `GrowthProofs!LevelsHelp` | `Spec => []EveryLevelHelps` |
| `GrowthProofs!Sunnier` | `Spec => []CloserIsSunnier` |
| `GrowthProofs!Throttling` | `Spec => ThrottlingSharesEnergy` |
| `GrowthProofs!StoragesEnd` | `Spec => []StoragesStop`: no storage ever gets beyond level 11 (proved, and not a property of any run) |

## 5. The argument

*Types.* `TypeOK` is not inductive: `Take` copies the record of the job at the
head of the list, so the list must name jobs (`WaitHasJob`);
`ScheduleQueueItem` reads the item's `endAt`, so a committed request's item
must exist (`CommittedHasItem`); `BuildStart` picks the pending building with
the greatest `endAt`, which exists because ends are bounded by `Horizon`
(`EndsInTime`, lemma `BoundedHasMax`). `TypeInv` is their conjunction; one
lemma per action shows that it is kept, and the orders' lemmas share
`PlaceOrderType`, where the guard `HasEnough` keeps the balance natural.

*Orders.* Lemma `OrderSteps` sorts every step into three kinds: it leaves
items, levels and fleets alone, places one legal order (`Places`), or closes
one pending order and delivers it (`Closes`). `PlacedItems` and `ClosedItems`
say what the last two do to the items, and each property is then kept kind by
kind. `ResearchLedger` needs `OneOrderAtATime` (a second pending order would be
for a level already reached), and `DeliveredOnce` needs `ResearchLedger` (a
research delivery changes the level only because the order is for the next one).
`ProductionMatchesLevels` follows from `RateSteps`: whoever changes a level or a
setting recomputes that planet's rates. These lemmas speak of a step by its kind and
not by its action, so they serve `Transactions` too.

*Transactions.* What has to be shown there is that a commit is still a step of those
kinds, although its transaction checked its guard and computed its writes in an earlier
state. `TxData` says what such a transaction relies on: its order is legal, the settings
or levels its rate was computed from are the stored ones, the item it delivers is
pending and due. Everything a commit changes is among the rows it announced as its
writes (`Footprint`), so a transaction that is still open, and not doomed, afterwards has
either read none of them or writes nothing the other has read or written (`Survives`). An
order reads the pending items of its kind, the row for those that are not there
included, and writes the latter; two that race therefore contradict each other, and an
order stays legal until one like it is placed, as a delivery leaves only fewer orders
pending (`LegalStays`).
`OrderDataStays`, `SettingDataStays`, `DueDataStays` and `BuildingDataStays` are that
argument for each kind of transaction; with `Contradicts` always false they fail, and so
do the properties. Every step is then `Sound`: it keeps the types, and is of a kind the
lemmas above are about (`TxStep`). Jobs do not look into transactions, so their lemmas
apply as well (`TxJobStep`).

*Order book.* `OrderBook` says in one specification what those properties say apart.
The mapping keeps items, levels and fleets and forgets the rest. A legal order is one
the book has room for (`PlacedIsEntered`); a closed one is delivered
(`ClosedIsDelivered`), and for research the book counts up where the code assigns, so
that `ResearchLedger` is what makes them agree. For buildings the book assigns as well;
the orderly book counts up and takes the order that ends first, which
`FirstIsNext` and `FirstInLine` below show of a backend in good order (`ClosedInTurn`).

*Fleets.* `FleetConserved` is a fold over the finished orders. Lemmas `SumsExist` to
`SumsAdd` evaluate a fold of natural numbers without the library's induction: if some
set has no function that adds it up element by element, there is a least size at which
that happens (`LeastNumber`), and taking one element away contradicts it. What the sum
gains when an order is done is then one lemma, `FleetStep`, on top of `Delivery`.

*Jobs.* An order is ripe when its `endAt` has passed. `JobInv`: a job's due time is not
before the end of its order; jobs in the wait list, active jobs and the jobs workers
have are for ripe orders; a worker past its transaction has a done order; completed jobs
have done orders. The first part with agreeing clocks makes promoted jobs ripe, and a
ripe order is either finalized or was already done, so the early return loses nothing.
`MCClockSkew` shows that the hypothesis is needed. `OneJob` needs no clocks: an item is
created by the transaction whose request alone adds its job (`JobHasItem`,
`CommittedHasItem`: a fresh item has neither job nor request), a job joins the list only
from a state in which it was not there, and a worker whose lock is gone settles nothing.
Both hold in `Transactions`, and together leave an order behind in the two ways `Left` names and in no other
(`UnderWayCarried`). Without faults `Watched` is inductive: a pending order has a
request about to add its job or a job not settled, and an active job is in the hands of
the worker that serves it, so the stalled check never finds one. A job is settled only
once its order is done (`JobInv` for the early return, `NoFaults` for a failed
transaction).

*Buildings.* Levels are assigned, so `BuildingLedger` is a claim about order. The
invariant has a pending building that ends first (`Ahead`) ahead at each station:
its job is there, or is about to come, before the other's is ready (`Line`). A request
is young (`RequestsYoung`) and adds its job before the building is due, so no job is
promoted past one that is still to be added; `Promote` takes the earliest due; the one
worker takes the head of the list. Pending buildings of one key are numbered upwards
in the order of their ends (`LevelsInOrder`). So a job that delivers has the first
pending building, which is the next level (`FirstIsNext`), and closing it keeps the
ledger (`ClosingKeepsLedger`). `LevelsGrow` then says that capacities never shrink, and
a balance is never more than the capacity of the moment it was computed at
(`BalanceMoves`, `CappedBalance`).

*Economy.* With agreeing clocks a request's `now` is at most `MaxRequestAge` behind the
clock, and no balance is stamped with the future (`DatedInv`). The projection
`BalanceAt` at the clock is what `TickEconomy` calls the stock: a tick adds one rate to
it, cut off at the capacity (`SecondIsTick`, with `ProjectedTwice`: cutting off twice is
cutting off once). A transaction dated `now` writes the projection at `now`, or leaves
the row if that is stamped later; from there the projection at the clock gains or loses
what the rate brings in the time between (`ProjectedApart`), so applying production is
late by that much and no more (`ApplyingIsLate`), and an order takes its price but for as
much (`OrderTakesPrice`). A tick keeps the difference and never adds to it. Only the
delivery of a building changes a rate that the next projection applies to a time longer
than a request; all other steps map to `TickEconomy` (`EconomyStep`).

*Session.* `TypeOK` is not inductive because a sign-in saves the tokens of its answer:
`CallOK` adds that a successful sign-in has some, that a request not answered "ok" has
not been executed (so the retry is the first execution), and that none was executed
twice. For the users, `OwnTokens` says of every call that is not in `mixedCalls` that each
token it holds and each execution of its request belong to the user of the session it
loaded, `OwnSignIn` that a sign-in's tokens are its user's, and the session's own token is
its user's while `mixed` is false. Sign-ins move none of the other calls, since each
works on the session it has loaded; only the retry loads again, and `RetryUser` shows
that it keeps all this unless the session it finds is another user's (`Mixes`).
`UserMove` shows once that the calls which do not move keep theirs.

*Universes.* A request reads, and commits long after. `Linked` says what it may rely
on meanwhile: the rows it names exist, and the planets it still has to recompute are
in its universe. That is kept because rows are only added and a planet stays where it
is (`Grow`, lemma `LinksStay`). The unique constraints then give `Slots` and
`Addresses`. `FillOrder` needs to know what a registration found out when it read:
`Filled`, no slot of an earlier system is free, which nothing makes false again as
long as all sizes have the same number of positions (`SamePositions`; an
administrator who adds positions reopens systems that were full). For `Rates` each
planet is either current or awaited by some update; a commit makes its planet current
because Serializable isolation has kept the speed it read, and lemma `AwaitedStays`
follows the others through the update that moves.

*Live view.* `RestingView` speaks of a moment at which nothing is under way; the
invariant says of every earlier one why it will hold. Every list on its way, in an
event, an answer or a page, is `Dated`: as new as the last commit it has exactly
what is pending, and otherwise it is older. A page that `Waits`, because it is behind its last
call of `reload` in something not `lapsed`, has a reload in flight that will bring it
(`Answers`): one asked for after that date, or answered from a read as new. A call that
returns early lapses at once and a reload that fails lapses with its answer
(`AsksMoves`, `ReloadFailsStep`); whatever replaces a list or a balance that was new
enough lapses it too (`ShowType`, `ShowFundsType`). Events, answers and commits each keep
this for the pages they do not touch (`BusMoves`, `PageMoves`, `ReloadMoves`). At rest no
reload is in flight, so nothing waits. `OwnOrder` adds that what a handler answers about
has been committed (`Owned`).

*Formulas.* The tables of `Growth` are the real ones, so its theorems are about every
level, position and setting a planet could have, and TLC's 32 bits and the bounds of
`Sites` are no limit to them. A power is a recursive function, and the library's
induction takes an operator; so `Induction` is derived for sets of numbers from the
least counterexample, and `PowersExist`, `PowersAgree` and `PowerStep` give the power its
recursion. `Times` multiplies exactly (`TimesIsProduct`), and rounding keeps the order
(`RoundedOrder`). That the next level costs strictly more needs a factor of 1.5 at least
and a price of ten at least (`RoundedMore`): rounding could otherwise hide the
increase. `AtMost` compares fractions by Euclid's algorithm; it is the comparison of the
cross products, because these satisfy the same recursion and the remainders shrink
(`AtMostIsOrder`). `LevelsHelp` needs more than that order: who promises a second less takes one less, rounded
or not (`RoundedSaves`); a share grows strictly when the full rate gains more than the
energy used, while energy is left, or with the energy it is short of (`ShareGrows`). So a
mine that runs yields strictly more at a higher level (`RunningYieldsMore`) and a mine
short of energy with a higher plant (`MoreEnergyYieldsMore`), and there is energy because
the starter's plant is never lost (`Powered`, `PoweredMeansEnergy`). A rate is then a share of the full rate, and one inequality
(`ShareOrder`: more output, and energy no scarcer) stands behind the mines, the plants,
the positions and the settings. `StoragesEnd` compares two numbers: level 12 of a
storage would cost at least 2 048 000 metal, and what level 11 holds is less than that.

## 6. Left to model checking, and left out

* Liveness (`OrdersEventuallyDone`, `PendingEventuallyDone`, `CallEnds`) is only
  model-checked: it needs fairness, which is out of the prover's reach. Of the first and
  the third, `UnderWayCarried` and `CallsAdvance` prove the part that needs none. Of the
  page no liveness is claimed: whatever it is told may be lost with its connection or
  overtaken, and the code promises it nothing.
* What is checked of `Astraxis` and not of `Transactions` (`PendingHasJob`,
  `BuildingLedger` and what follows from it, the economy, the liveness of orders) holds
  of transactions in one step. With overlapping ones "no fault" is not enough: a finish
  that contradicts another transaction is refused, which spends its job, and the
  order stays pending.
* `InstallationHelps`, `MineHelps` and the like say what the formulas give. The metadata
  say more: a robotics factory speeds up construction (`metadata.ts:57`), which
  `BuildingTime` does not know; a shipyard permits ships and a laboratory research
  (`metadata.ts:63`, `:69`), which `startShips` and `startResearch` do not ask for, though
  every planet starts with both.
* `README.md:59` promises no hard limit on levels ("Pas de limite dure sur les niveaux").
  No level is compared with a limit in the code; but `StoragesEnd` shows that the
  capacities make one, as level 12 of a storage costs more than level 11 holds.
* Observed while modelling, and not claimed by any run. The windows of the overview
  and the building page show rates without the universe's `speedProduction`, which
  the panel above them includes. Deuterium is not always better farther out: short of
  energy, position 15 yields less than position 11. A page that was disconnected
  does not reload when it connects again, and a research order hides the other
  pending orders on the player's other pages until their next reload (`partial` in
  `LiveView`); the view is then older than the database without a reload being due,
  and `RestingView`, which is about reloads, does not speak of it.
* Not modelled yet: see section 7. Not planned: login throttling and password
  hashing (no protocol state), presentation, internationalisation, Docker and
  CI files, styling.

## 7. Plan

`Transactions` and its theorems justify the atomic transactions of `Astraxis` for
everything that is a matter of orders, levels, rates, fleets and jobs. What is left:

* the economy (`TicksButDeliveries`, `PaysAllButAge`, `WithinCapacity`) over
  `Transactions`: an open transaction's balance is that of its snapshot, and the commits
  it survives have written no balance of its planet;
* the reads of `UniverseService` as rows of `Transactions`, so that a finish and an
  `updateUniverse` that race are refused by the same rule as two orders;
* the building ledger over `Transactions`, with the refused finish as the one event that
  leaves an order behind.
