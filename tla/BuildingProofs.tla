---------------------------- MODULE BuildingProofs ----------------------------
(***************************************************************************)
(* The building queue when nothing fails, one process serves and requests  *)
(* are shorter than constructions: buildings are delivered in the order in *)
(* which they were ordered, so levels count the orders and never drop, and *)
(* balances stay under the storage.                                        *)
(***************************************************************************)
EXTENDS ClockProofs

OneProcess == \A p, q \in Procs : p = q

\* A request is over before the building it ordered can be due.
ShortRequests ==
  \A k \in Buildings, n \in Levels : MaxRequestAge < BuildingTime[k][n]

Reliably == NoFaults /\ ClocksAgree /\ OneProcess /\ ShortRequests

-----------------------------------------------------------------------------
(* The inductive invariant.  Pending buildings of a planet are ordered by  *)
(* their ends, and so are their jobs: an earlier one is never overtaken,   *)
(* neither by a job on the list nor by the job at work.                    *)

Ahead(a, b) ==
  /\ Pending(a) /\ Pending(b)
  /\ items[a].type = "BUILDING" /\ items[b].type = "BUILDING"
  /\ items[a].planet = items[b].planet
  /\ items[a].endAt < items[b].endAt

\* Requests are young, and their buildings not due before they are over.
RequestsYoung ==
  \A h \in Handlers : req[h].pc # "idle" => clock <= req[h].now + MaxRequestAge
Committed(h) == req[h].pc = "committed"
CommittedEarly ==
  \A h \in Handlers :
    Committed(h) /\ items[req[h].item].type = "BUILDING" =>
      req[h].now + MaxRequestAge < items[req[h].item].endAt

\* A committed request is the only one that will add the job of its item.
CommittedNoJob == \A h \in Handlers : Committed(h) => job[req[h].item] = NoJob
CommittedApart ==
  \A h, g \in Handlers :
    Committed(h) /\ Committed(g) /\ req[h].item = req[g].item => h = g

DueAtEnd ==
  \A i \in ItemIds :
    job[i] # NoJob /\ items[i].type = "BUILDING" => job[i].due = items[i].endAt
WaitingListed ==
  \A i \in ItemIds :
    job[i].state = "waiting" => \E k \in 1 .. Len(wait) : wait[k] = i
WaitInOrder ==
  \A k \in 1 .. Len(wait), a \in ItemIds :
    Ahead(a, wait[k]) =>
      job[a].state = "active" \/ \E l \in 1 .. Len(wait) : l < k /\ wait[l] = a
FirstInLine ==
  \A p \in Procs, a \in ItemIds :
    worker[p].step # "free" => ~Ahead(a, worker[p].item)

Commitments == CommittedEarly /\ CommittedNoJob /\ CommittedApart
Line == DueAtEnd /\ WaitingListed /\ WaitInOrder /\ FirstInLine

\* Buildings take time, and their levels follow each other as they do.
Lasting ==
  \A i \in ItemIds :
    Created(i) /\ items[i].type = "BUILDING" => items[i].startAt < items[i].endAt
LevelsInOrder ==
  \A a, b \in ItemIds :
    Ahead(a, b) /\ items[a].key = items[b].key => items[a].n < items[b].n

BuildingInv ==
  /\ RequestsYoung /\ Commitments /\ Line
  /\ Lasting /\ LevelsInOrder /\ BuildingLedger

-----------------------------------------------------------------------------
(* What every step leaves as it is.                                        *)

(* An order keeps its fields for ever.                                     *)
LEMMA FieldsStay ==
  ASSUME TypeInv, [Next]_vars, NEW i \in ItemIds, Created(i)
  PROVE  /\ items'[i].type = items[i].type
         /\ items'[i].planet = items[i].planet
         /\ items'[i].key = items[i].key
         /\ items'[i].n = items[i].n
         /\ items'[i].startAt = items[i].startAt
         /\ items'[i].endAt = items[i].endAt
         /\ Pending(i)' => Pending(i)
<1>1. CASE TouchesNoOrder
  BY <1>1 DEF TouchesNoOrder, Pending
<1>2. ASSUME NEW f \in ItemIds, NEW order \in QueueItem, Places(f, order)
      PROVE  items'[i] = items[i]
  BY <1>2, PlacedItems DEF Places, Created
<1>3. ASSUME NEW p \in Procs, NEW c \in ItemIds, Closes(p, c)
      PROVE  /\ items'[i].type = items[i].type
             /\ items'[i].planet = items[i].planet
             /\ items'[i].key = items[i].key
             /\ items'[i].n = items[i].n
             /\ items'[i].startAt = items[i].startAt
             /\ items'[i].endAt = items[i].endAt
             /\ Pending(i)' => Pending(i)
  <2>1. Pending(c) /\ Finish(c)
    BY <1>3 DEF Closes, Finalizable
  <2> QED
    BY <2>1, ClosedItems
<1> QED
  BY <1>1, <1>2, <1>3, OrderSteps DEF Pending

(* Nobody gets ahead of an order that exists: a new building ends last.    *)
LEMMA AheadStays ==
  ASSUME TypeInv, [Next]_vars, NEW a \in ItemIds, NEW b \in ItemIds,
         Created(b), Ahead(a, b)'
  PROVE  Ahead(a, b)
<1>1. CASE Created(a)
  BY <1>1, FieldsStay DEF Ahead
<1>2. CASE ~Created(a)
  <2>1. Pending(a)' /\ ~Pending(a)
    BY <1>2, ItemExists DEF Ahead, Created, TypeInv, TypeOK
  <2>2. \A c \in ItemIds : Pending(c) /\ Finish(c) => FALSE
    BY <2>1, ClosedItems
  <2>3. PICK f \in ItemIds, order \in QueueItem : Places(f, order)
    BY <2>1, <2>2, OrderSteps DEF TouchesNoOrder, Pending, Closes, Finalizable
  <2>4. a = f /\ items'[a] = order /\ items'[b] = items[b] /\ Pending(b)
    BY <1>2, <2>1, <2>3, PlacedItems DEF Places, Created, Ahead, Pending
  <2>5. b \in PendingOf("BUILDING", order.planet) /\ order.type = "BUILDING"
    BY <2>4 DEF Ahead, PendingOf
  <2>6. /\ items[b].endAt <= order.startAt /\ order.startAt < order.endAt
        /\ order.endAt < items[b].endAt
    BY <2>3, <2>4, <2>5 DEF Places, Legal, Ahead
  <2>7. /\ items[b].endAt \in Nat
        /\ order.startAt \in Nat /\ order.endAt \in Nat
    BY ItemExists, ItemFields DEF Created, TypeInv, TypeOK
  <2> QED
    BY <2>6, <2>7
<1> QED
  BY <1>1, <1>2

(* Of two pending buildings of a planet one is ahead of the other.         *)
LEMMA OneAhead ==
  ASSUME TypeInv, BuildingsSequential, Lasting,
         NEW pl \in Planets, NEW a \in PendingOf("BUILDING", pl),
         NEW b \in PendingOf("BUILDING", pl), a # b
  PROVE  Ahead(a, b) \/ Ahead(b, a)
<1>1. \A i \in {a, b} : /\ i \in ItemIds /\ Created(i) /\ Pending(i)
                        /\ items[i].type = "BUILDING" /\ items[i].planet = pl
                        /\ items[i].startAt \in Nat /\ items[i].endAt \in Nat
  BY ItemExists, ItemFields DEF PendingOf, Created, TypeInv, TypeOK
<1>2. items[a].endAt <= items[b].startAt \/ items[b].endAt <= items[a].startAt
  BY DEF BuildingsSequential
<1>3. items[a].startAt < items[a].endAt /\ items[b].startAt < items[b].endAt
  BY <1>1 DEF Lasting
<1> QED
  BY <1>1, <1>2, <1>3 DEF Ahead
-----------------------------------------------------------------------------
(* Requests.                                                               *)

(* A step gives a handler a request dated now, lets one commit or end, or  *)
(* leaves all of them alone.                                               *)
LEMMA HandlerMoves ==
  ASSUME NoFaults, TypeInv, Watched, [Next]_vars
  PROVE  \/ UNCHANGED req
         \/ \E h \in Handlers :
              /\ \A g \in Handlers : g # h => req'[g] = req[g]
              /\ UNCHANGED clock
              /\ \/ /\ Receive(h) /\ req'[h].pc = "received"
                    /\ req'[h].now = Now(Host[h])
                 \/ \E f \in ItemIds, order \in QueueItem :
                      /\ Places(f, order) /\ Commits(h, f, order)
                      /\ req'[h].pc = "committed" /\ req'[h].item = f
                      /\ req'[h].now = req[h].now
                 \/ /\ req'[h].pc = "idle" /\ UNCHANGED <<items, job>>
                 \/ /\ req'[h].pc = "idle" /\ ScheduleQueueItem(h)
<1>1. req \in [Handlers -> InFlight \cup {Idle}]
  BY DEF TypeInv, TypeOK, QueueTypeOK
<1>2. ASSUME NEW h \in Handlers, Receive(h) \/ Handle(h)
      PROVE  /\ \A g \in Handlers : g # h => req'[g] = req[g]
             /\ UNCHANGED clock
             /\ \/ /\ Receive(h) /\ req'[h].pc = "received"
                   /\ req'[h].now = Now(Host[h])
                \/ \E f \in ItemIds, order \in QueueItem :
                     /\ Places(f, order) /\ Commits(h, f, order)
                     /\ req'[h].pc = "committed" /\ req'[h].item = f
                     /\ req'[h].now = req[h].now
                \/ /\ req'[h].pc = "idle" /\ UNCHANGED <<items, job>>
                \/ /\ req'[h].pc = "idle" /\ ScheduleQueueItem(h)
  <2>1. CASE Receive(h)
    <3>1. PICK body \in Requests :
            req' = [req EXCEPT ![h] = [pc |-> "received", now |-> Now(Host[h]),
                                       body |-> body]]
      BY <2>1 DEF Receive
    <3>2. req'[h] = [pc |-> "received", now |-> Now(Host[h]), body |-> body]
      BY <1>1, <3>1
    <3>3. req'[h].pc = "received" /\ req'[h].now = Now(Host[h])
      BY <3>2
    <3> QED
      BY <1>1, <2>1, <3>1, <3>3 DEF Receive
  <2>2. CASE GetOverview(h) \/ UpdateProductionFactor(h) \/ Reject(h) \/ ScheduleQueueItem(h)
    <3>1. UNCHANGED clock /\ Reply(h)
          /\ (~ScheduleQueueItem(h) => UNCHANGED <<items, job>>)
      BY <2>2 DEF GetOverview, UpdateProductionFactor, Reject, ScheduleQueueItem,
                  database, redis
    <3>2. req'[h].pc = "idle" /\ \A g \in Handlers : g # h => req'[g] = req[g]
      BY <1>1, <3>1 DEF Reply, Idle
    <3> QED
      BY <3>1, <3>2
  <2>3. CASE StartBuilding(h) \/ StartShips(h) \/ StartResearch(h)
    <3>1. PICK f \in ItemIds, order \in QueueItem :
            Places(f, order) /\ Commits(h, f, order)
      BY <2>3, StartBuildingPlaces, StartShipsPlaces, StartResearchPlaces
    <3>2. /\ UNCHANGED clock
          /\ req' = [req EXCEPT ![h] = [pc |-> "committed", now |-> req[h].now,
                                        item |-> f]]
      BY <3>1 DEF Commits
    <3>3. /\ req'[h] = [pc |-> "committed", now |-> req[h].now, item |-> f]
          /\ \A g \in Handlers : g # h => req'[g] = req[g]
      BY <1>1, <3>2
    <3>4. /\ req'[h].pc = "committed" /\ req'[h].item = f
          /\ req'[h].now = req[h].now
      BY <3>3
    <3> QED
      BY <3>1, <3>2, <3>3, <3>4
  <2> QED
    BY <1>2, <2>1, <2>2, <2>3 DEF Handle
<1>3. ASSUME ~\E h \in Handlers : Receive(h) \/ Handle(h)
      PROVE  UNCHANGED req
  <2>1. ~\E i \in ItemIds : Stalled(i)
    BY DEF Stalled, NoFaults, Watched, ActiveServed
  <2> QED
    BY <1>3, <2>1 DEF Next, vars, Tick, Abort, Crash, FinalizeFails, NoFaults,
                      Work, Promote, Take, FinishBuilding, FinishResearch,
                      FinishShips, SkipFinalize, CompleteJob, Settle
<1> QED
  BY <1>2, <1>3

(* Time waits for a request that is as old as it may be.                   *)
LEMMA YoungStep ==
  ASSUME NoFaults, ClocksAgree, TypeInv, Watched, RequestsYoung, [Next]_vars
  PROVE  RequestsYoung'
<1>1. \A h \in Handlers :
        /\ Now(Host[h]) = clock /\ clock \in Nat /\ MaxRequestAge \in Nat
        /\ req[h].pc # "idle" => req[h].now \in Nat
  BY ProcessesAssumption, BoundsAssumption
     DEF ClocksAgree, Now, TypeInv, TypeOK, QueueTypeOK, InFlight, Idle
<1>2. CASE Tick
  BY <1>1, <1>2 DEF Tick, Age, RequestsYoung
<1>3. CASE ~Tick
  <2>1. clock' = clock
    BY <1>3 DEF Next, vars, Receive, Handle, Abort, Reject, ScheduleQueueItem,
                GetOverview, UpdateProductionFactor, StartBuilding, StartShips,
                StartResearch, PlaceOrder, Work, FinalizeFails, Crash, Promote,
                Take, FinishBuilding, FinishResearch, FinishShips, SkipFinalize,
                CompleteJob, Settle, Stalled
  <2>2. ASSUME NEW g \in Handlers, req'[g].pc # "idle"
        PROVE  clock <= req'[g].now + MaxRequestAge
    <3>1. CASE req'[g] = req[g]
      BY <2>2, <3>1 DEF RequestsYoung
    <3>2. CASE req'[g] # req[g]
      <4>1. \/ req'[g].now = Now(Host[g])
            \/ req[g].pc = "received" /\ req'[g].now = req[g].now
        BY <2>2, <3>2, HandlerMoves DEF Commits
      <4> QED
        BY <1>1, <4>1 DEF RequestsYoung
    <3> QED
      BY <3>1, <3>2
  <2> QED
    BY <2>1, <2>2 DEF RequestsYoung
<1> QED
  BY <1>2, <1>3
(* Only the request that ordered it adds the first job of an order.        *)
LEMMA JobsAppear ==
  ASSUME TypeInv, [Next]_vars, NEW i \in ItemIds, job[i] = NoJob,
         job'[i] # NoJob
  PROVE  \E h \in Handlers : ScheduleQueueItem(h) /\ req[h].item = i
<1>1. /\ job \in [ItemIds -> Job \cup {NoJob}] /\ wait \in Seq(ItemIds)
      /\ job[i].state = "absent"
  BY DEF TypeInv, TypeOK, QueueTypeOK, NoJob
<1>2. ASSUME NEW p \in Procs, Promote(p)
      PROVE  job'[i] = job[i]
  BY <1>1, <1>2 DEF Promote
<1>3. ASSUME NEW p \in Procs, Take(p)
      PROVE  job'[i] = job[i]
  <2>1. wait # <<>> /\ Head(wait) = wait[1] /\ 1 \in 1 .. Len(wait)
    BY <1>1, <1>3 DEF Take
  <2>2. Head(wait) # i
    BY <2>1 DEF TypeInv, WaitHasJob
  <2> QED
    BY <1>1, <1>3, <2>2 DEF Take
<1>4. ASSUME NEW p \in Procs, NEW state, Settle(p, state)
      PROVE  job'[i] = job[i]
  BY <1>1, <1>4 DEF Settle, HoldsLock
<1>5. ASSUME NEW j \in ItemIds, Stalled(j)
      PROVE  job'[i] = job[i]
  BY <1>1, <1>5 DEF Stalled
<1>6. ASSUME NEW h \in Handlers, ScheduleQueueItem(h)
      PROVE  req[h].item = i
  BY <1>1, <1>6 DEF ScheduleQueueItem
<1> QED
  BY <1>2, <1>3, <1>4, <1>5, <1>6
     DEF Next, vars, redis, Tick, Receive, Handle, Abort, Reject, GetOverview,
         UpdateProductionFactor, StartBuilding, StartShips, StartResearch,
         PlaceOrder, Work, FinalizeFails, Crash, FinishBuilding,
         FinishResearch, FinishShips, SkipFinalize, CompleteJob

(* A committed request keeps its item to itself, which has no job yet and  *)
(* is not due before the request is too old to be about.                   *)
LEMMA CommitmentsStep ==
  ASSUME NoFaults, ShortRequests, TypeInv, JobInv, Watched, Commitments,
         [Next]_vars
  PROVE  Commitments'
<1>1. ASSUME NEW g \in Handlers, Committed(g)'
      PROVE  \/ /\ Committed(g) /\ req'[g] = req[g]
                /\ ~ScheduleQueueItem(g)
             \/ \E f \in ItemIds, order \in QueueItem :
                  /\ Places(f, order) /\ Commits(g, f, order)
                  /\ req'[g].item = f /\ req'[g].now = req[g].now
                  /\ \A h \in Handlers : h # g => req'[h] = req[h]
  <2>1. CASE UNCHANGED req
    <3>1. ~ScheduleQueueItem(g)
      BY <1>1, <2>1 DEF ScheduleQueueItem, Reply, Idle, Committed, TypeInv,
                        TypeOK, QueueTypeOK
    <3> QED
      BY <1>1, <2>1, <3>1 DEF Committed
  <2>2. CASE ~UNCHANGED req
    <3>1. ~ScheduleQueueItem(g)
      BY <1>1 DEF ScheduleQueueItem, Reply, Idle, Committed, TypeInv, TypeOK,
                  QueueTypeOK
    <3> QED
      BY <1>1, <2>2, <3>1, HandlerMoves DEF Committed
  <2> QED
    BY <2>1, <2>2
<1>2. ASSUME NEW g \in Handlers, Committed(g)
      PROVE  req[g].item \in ItemIds /\ Created(req[g].item)
  BY <1>2, RequestType DEF Committed, TypeInv, CommittedHasItem
<1>3. ASSUME NEW g \in Handlers, Committed(g), req'[g] = req[g], Committed(g)',
             ~ScheduleQueueItem(g)
      PROVE  /\ job'[req'[g].item] = NoJob
             /\ items'[req'[g].item].type = "BUILDING" =>
                  req'[g].now + MaxRequestAge < items'[req'[g].item].endAt
  <2> DEFINE i == req[g].item
  <2>1. i \in ItemIds /\ Created(i) /\ req'[g].item = i /\ job[i] = NoJob
    BY <1>2, <1>3 DEF Commitments, CommittedNoJob
  <2>2. job'[i] = NoJob
    <3>1. ~\E h \in Handlers : ScheduleQueueItem(h) /\ req[h].item = i
      BY <1>3 DEF ScheduleQueueItem, Committed, Commitments, CommittedApart
    <3> QED
      BY <2>1, <3>1, JobsAppear
  <2>3. items'[i].type = items[i].type /\ items'[i].endAt = items[i].endAt
    BY <2>1, FieldsStay
  <2> QED
    BY <1>3, <2>1, <2>2, <2>3 DEF Commitments, CommittedEarly
<1>4. ASSUME NEW g \in Handlers, NEW f \in ItemIds, NEW order \in QueueItem,
             Places(f, order), Commits(g, f, order)
      PROVE  /\ job'[f] = NoJob /\ ~Created(f) /\ items'[f] = order
             /\ order.type = "BUILDING" =>
                  req[g].now + MaxRequestAge < order.endAt
  <2>1. job'[f] = job[f] /\ ~Created(f) /\ items'[f] = order
    BY <1>4, PlacedItems DEF Commits, Places, redis, Created
  <2>2. job[f] = NoJob
    BY <2>1 DEF JobInv, JobsDue
  <2>3. ASSUME order.type = "BUILDING"
        PROVE  req[g].now + MaxRequestAge < order.endAt
    <3>1. order.key \in Buildings /\ order.n \in Levels /\ order.endAt \in Nat
      BY <2>3, ItemFields DEF BuildingItem
    <3>2. /\ order.endAt >= req[g].now + BuildingTime[order.key][order.n]
          /\ req[g].now \in Nat
      BY <1>4, <2>3, RequestType DEF Commits, TypeInv
    <3>3. BuildingTime[order.key][order.n] \in Nat /\ MaxRequestAge \in Nat
      BY <3>1, FormulasAssumption, BoundsAssumption DEF Positive
    <3>4. MaxRequestAge < BuildingTime[order.key][order.n]
      BY <3>1 DEF ShortRequests
    <3> QED
      BY <3>1, <3>2, <3>3, <3>4
  <2> QED
    BY <2>1, <2>2, <2>3
<1>5. CommittedNoJob' /\ CommittedEarly'
  <2>1. ASSUME NEW g \in Handlers, Committed(g)'
        PROVE  /\ job'[req'[g].item] = NoJob
               /\ items'[req'[g].item].type = "BUILDING" =>
                    req'[g].now + MaxRequestAge < items'[req'[g].item].endAt
    BY <1>1, <1>3, <1>4, <2>1
  <2> QED
    BY <2>1 DEF CommittedNoJob, CommittedEarly
<1>6. CommittedApart'
  <2> SUFFICES ASSUME NEW h \in Handlers, NEW g \in Handlers, Committed(h)',
                      Committed(g)', req'[h].item = req'[g].item, h # g
               PROVE  FALSE
    BY DEF CommittedApart
  <2>1. ~(req'[h] = req[h] /\ req'[g] = req[g] /\ Committed(h) /\ Committed(g))
    BY DEF Commitments, CommittedApart
  <2>2. PICK k \in {h, g}, f \in ItemIds, order \in QueueItem :
          /\ Places(f, order) /\ Commits(k, f, order) /\ req'[k].item = f
          /\ \A j \in Handlers : j # k => req'[j] = req[j]
    BY <1>1, <2>1
  <2>3. PICK other \in {h, g} : other # k
    OBVIOUS
  <2>4. req'[other] = req[other] /\ Committed(other) /\ req[other].item = f
    BY <2>2, <2>3 DEF Committed
  <2>5. Created(f) /\ ~Created(f)
    BY <1>2, <1>4, <2>2, <2>4
  <2> QED
    BY <2>5
<1> QED
  BY <1>5, <1>6 DEF Commitments
-----------------------------------------------------------------------------
(* The line of jobs.                                                       *)

(* What is on the list or has a job exists.                                *)
LEMMA ListCreated ==
  ASSUME TypeInv, JobInv
  PROVE  /\ \A k \in 1 .. Len(wait) : wait[k] \in ItemIds /\ Created(wait[k])
         /\ \A i \in ItemIds : job[i] # NoJob => Created(i)
BY DEF TypeInv, TypeOK, QueueTypeOK, JobInv, WaitRipe, Ripe, JobsDue

(* A step that moves no job but takes time, places or closes orders keeps  *)
(* the line, as long as the workers keep their items or put them down.     *)
LEMMA LineUntouched ==
  ASSUME TypeInv, JobInv, Line, [Next]_vars, UNCHANGED <<job, wait>>,
         \A p \in Procs : worker'[p].step # "free" =>
           worker[p].step # "free" /\ worker'[p].item = worker[p].item
  PROVE  Line'
<1>1. DueAtEnd'
  BY ListCreated, FieldsStay DEF Line, DueAtEnd
<1>2. WaitingListed'
  BY DEF Line, WaitingListed
<1>3. WaitInOrder'
  BY ListCreated, AheadStays DEF Line, WaitInOrder
<1>4. FirstInLine'
  <2>1. \A p \in Procs : worker[p].step # "free" =>
          worker[p].item \in ItemIds /\ Created(worker[p].item)
    BY WorkerType DEF TypeInv, JobInv, WorkersRipe, Ripe
  <2>2. ASSUME NEW p \in Procs, NEW a \in ItemIds, worker'[p].step # "free",
               NEW b \in ItemIds, b = worker'[p].item
        PROVE  ~Ahead(a, b)'
    BY <2>1, <2>2, AheadStays DEF Line, FirstInLine
  <2>3. \A p \in Procs : worker'[p].step # "free" => worker'[p].item \in ItemIds
    BY <2>1
  <2> QED
    BY <2>2, <2>3 DEF FirstInLine, Ahead, Pending
<1> QED
  BY <1>1, <1>2, <1>3, <1>4 DEF Line
(* A building's job is added before it is due, so it waits for its end;    *)
(* the jobs that go straight to the list are of other orders.              *)
LEMMA ScheduleKeepsLine ==
  ASSUME ClocksAgree, TypeInv, JobInv, RequestsYoung, Commitments, Line,
         NEW h \in Handlers, ScheduleQueueItem(h)
  PROVE  Line'
<1> DEFINE i == req[h].item
           delay == DelayOf(i, Now(Host[h]))
           record == [state |-> IF delay > 0 THEN "delayed" ELSE "waiting",
                      due |-> Now(Host[h]) + delay, stalls |-> 0]
<1>1. /\ job' = [job EXCEPT ![i] = record]
      /\ wait' = IF delay > 0 THEN wait ELSE Append(wait, i)
      /\ UNCHANGED <<items, worker>> /\ Committed(h)
  BY DEF ScheduleQueueItem, database, Committed
<1>2. /\ i \in ItemIds /\ Created(i) /\ job[i] = NoJob
      /\ req[h].now \in Nat
  BY <1>1, RequestType
     DEF Committed, Commitments, CommittedNoJob, TypeInv, CommittedHasItem
<1>3. /\ clock \in Nat /\ Now(Host[h]) = clock /\ items[i].endAt \in Nat
      /\ MaxRequestAge \in Nat
  BY <1>2, ItemExists, ItemFields, ProcessesAssumption, BoundsAssumption
     DEF Created, ClocksAgree, Now, TypeInv, TypeOK
<1>4. items[i].type = "BUILDING" =>
        delay > 0 /\ record.state = "delayed" /\ record.due = items[i].endAt
  <2> SUFFICES ASSUME items[i].type = "BUILDING"
               PROVE  delay > 0 /\ Now(Host[h]) + delay = items[i].endAt
    OBVIOUS
  <2>1. clock < items[i].endAt
    BY <1>1, <1>2, <1>3 DEF RequestsYoung, Commitments, CommittedEarly, Committed
  <2> QED
    BY <1>3, <2>1 DEF DelayOf, Greater
<1>5. record.state # "active" /\ (record.state = "waiting" => ~(delay > 0))
  OBVIOUS
<1>6. \A j \in ItemIds : job'[j] = IF j = i THEN record ELSE job[j]
  BY <1>1 DEF TypeInv, TypeOK, QueueTypeOK
<1>7. wait \in Seq(ItemIds) /\ Len(wait) \in Nat /\ job[i].state = "absent"
  BY <1>2 DEF TypeInv, TypeOK, QueueTypeOK, NoJob
<1> HIDE DEF record, i, delay
<1>8. /\ Len(wait') \in Nat /\ Len(wait) <= Len(wait')
      /\ \A k \in 1 .. Len(wait) : wait'[k] = wait[k]
      /\ \A k \in 1 .. Len(wait') :
           ~(k \in 1 .. Len(wait)) => ~(delay > 0) /\ wait'[k] = i
      /\ ~(delay > 0) => \E k \in 1 .. Len(wait') : wait'[k] = i
  <2>1. CASE delay > 0
    BY <1>1, <1>7, <2>1
  <2>2. CASE ~(delay > 0)
    <3>1. wait' = Append(wait, i)
      BY <1>1, <2>2
    <3>2. /\ Len(wait') = Len(wait) + 1 /\ wait'[Len(wait) + 1] = i
          /\ \A k \in 1 .. Len(wait) : wait'[k] = wait[k]
      BY <1>2, <1>7, <3>1
    <3>3. Len(wait) + 1 \in 1 .. Len(wait')
      BY <1>7, <3>2
    <3> QED
      BY <1>7, <2>2, <3>2, <3>3
  <2> QED
    BY <2>1, <2>2
<1>9. DueAtEnd'
  BY <1>1, <1>4, <1>6 DEF Line, DueAtEnd
<1>10. WaitingListed'
  <2> SUFFICES ASSUME NEW j \in ItemIds, job'[j].state = "waiting"
               PROVE  \E k \in 1 .. Len(wait') : wait'[k] = j
    BY DEF WaitingListed
  <2>1. CASE j = i
    BY <1>5, <1>6, <1>8, <2>1
  <2>2. CASE j # i
    BY <1>6, <1>7, <1>8, <2>2 DEF Line, WaitingListed
  <2> QED
    BY <2>1, <2>2
<1>11. \A a, b \in ItemIds : Ahead(a, b)' <=> Ahead(a, b)
  BY <1>1 DEF Ahead, Pending
<1>12. WaitInOrder'
  <2> SUFFICES ASSUME NEW k \in 1 .. Len(wait'), NEW a \in ItemIds,
                      NEW b \in ItemIds, b = wait'[k], Ahead(a, b)
               PROVE  \/ job'[a].state = "active"
                      \/ \E l \in 1 .. Len(wait') : l < k /\ wait'[l] = a
    <3>1. \A k \in 1 .. Len(wait') : wait'[k] \in ItemIds
      BY <1>2, <1>7, <1>8
    <3> QED
      BY <1>11, <3>1 DEF WaitInOrder, Ahead, Pending
  <2>1. k \in 1 .. Len(wait) /\ wait[k] = b
    BY <1>4, <1>8 DEF Ahead
  <2>2. CASE job[a].state = "active"
    BY <1>6, <1>7, <2>2
  <2>3. ASSUME NEW l \in 1 .. Len(wait), l < k, wait[l] = a
        PROVE  \E m \in 1 .. Len(wait') : m < k /\ wait'[m] = a
    BY <1>7, <1>8, <2>3
  <2> QED
    BY <2>1, <2>2, <2>3 DEF Line, WaitInOrder
<1>13. FirstInLine'
  BY <1>1 DEF Line, FirstInLine, Ahead, Pending
<1> QED
  BY <1>9, <1>10, <1>12, <1>13 DEF Line

(* The job that is promoted was due first, and its order ends after every  *)
(* order ahead of it: those are on the list already, or at work.           *)
LEMMA PromoteKeepsLine ==
  ASSUME ClocksAgree, TypeInv, JobInv, Watched, RequestsYoung, Commitments,
         Line, NEW p \in Procs, Promote(p)
  PROVE  Line'
<1>1. PICK i \in ItemIds :
        /\ job[i].state = "delayed" /\ job[i].due <= Now(p)
        /\ \A j \in ItemIds : job[j].state = "delayed" => job[i].due <= job[j].due
        /\ job' = [job EXCEPT ![i] = Settled(i, "waiting")]
        /\ wait' = Append(wait, i)
  BY DEF Promote
<1>2. UNCHANGED <<items, worker>>
  BY DEF Promote, database
<1>3. /\ Settled(i, "waiting").state = "waiting"
      /\ Settled(i, "waiting").due = job[i].due
      /\ job[i] # NoJob
  BY <1>1 DEF Settled, NoJob
<1>4. /\ \A j \in ItemIds : job'[j] = IF j = i THEN Settled(i, "waiting") ELSE job[j]
      /\ wait \in Seq(ItemIds) /\ Len(wait) \in Nat
  BY <1>1 DEF TypeInv, TypeOK, QueueTypeOK
<1>5. /\ Len(wait') = Len(wait) + 1 /\ wait'[Len(wait) + 1] = i
      /\ \A k \in 1 .. Len(wait) : wait'[k] = wait[k]
  BY <1>1, <1>4
<1>6. DueAtEnd'
  BY <1>2, <1>3, <1>4 DEF Line, DueAtEnd
<1>7. WaitingListed'
  <2> SUFFICES ASSUME NEW j \in ItemIds, job'[j].state = "waiting"
               PROVE  \E k \in 1 .. Len(wait') : wait'[k] = j
    BY DEF WaitingListed
  <2>1. CASE j = i
    BY <1>4, <1>5, <2>1
  <2>2. CASE j # i
    BY <1>4, <1>5, <2>2 DEF Line, WaitingListed
  <2> QED
    BY <2>1, <2>2
<1>8. ASSUME NEW a \in ItemIds, Ahead(a, i)
      PROVE  job[a].state = "active" \/ \E l \in 1 .. Len(wait) : wait[l] = a
  <2>1. /\ Created(a) /\ Created(i) /\ job[i].due = items[i].endAt
        /\ items[a].endAt \in Nat /\ items[i].endAt \in Nat
        /\ clock \in Nat /\ Now(p) = clock /\ MaxRequestAge \in Nat
    BY <1>3, <1>8, ItemExists, ItemFields, ProcessesAssumption, BoundsAssumption
       DEF Ahead, Created, ClocksAgree, Now, Line, DueAtEnd, TypeInv, TypeOK
  <2>2. ASSUME NEW h \in Handlers, Committed(h), req[h].item = a
        PROVE  FALSE
    <3>1. req[h].now + MaxRequestAge < items[a].endAt /\ req[h].now \in Nat
      BY <1>8, <2>2, RequestType
         DEF Ahead, Commitments, CommittedEarly, Committed, TypeInv
    <3>2. clock <= req[h].now + MaxRequestAge
      BY <2>2 DEF RequestsYoung, Committed
    <3>3. items[a].endAt < items[i].endAt /\ items[i].endAt <= clock
      BY <1>1, <1>8, <2>1 DEF Ahead
    <3> QED
      BY <2>1, <3>1, <3>2, <3>3
  <2>3. job[a].state \in {"delayed", "waiting", "active"}
    BY <1>8, <2>2 DEF Ahead, Watched, PendingHasJob, Committed
  <2>4. job[a].state # "delayed"
    <3> SUFFICES ASSUME job[a].state = "delayed" PROVE FALSE
      OBVIOUS
    <3>1. job[a].due = items[a].endAt
      BY <1>8 DEF Ahead, Line, DueAtEnd, NoJob
    <3>2. items[i].endAt <= items[a].endAt /\ items[a].endAt < items[i].endAt
      BY <1>1, <1>8, <2>1, <3>1 DEF Ahead
    <3> QED
      BY <2>1, <3>2
  <2> QED
    BY <2>3, <2>4 DEF Line, WaitingListed
<1>9. WaitInOrder'
  <2>1. \A k \in 1 .. Len(wait') : wait'[k] \in ItemIds
    BY <1>4, <1>5
  <2> SUFFICES ASSUME NEW k \in 1 .. Len(wait'), NEW a \in ItemIds,
                      NEW b \in ItemIds, b = wait'[k], Ahead(a, b)
               PROVE  \/ job'[a].state = "active"
                      \/ \E l \in 1 .. Len(wait') : l < k /\ wait'[l] = a
    BY <1>2, <2>1 DEF WaitInOrder, Ahead, Pending
  <2>2. \/ job[a].state = "active"
        \/ \E l \in 1 .. Len(wait) : l < k /\ wait[l] = a
    <3>1. CASE k \in 1 .. Len(wait)
      BY <1>5, <3>1 DEF Line, WaitInOrder
    <3>2. CASE ~(k \in 1 .. Len(wait))
      <4>1. k = Len(wait) + 1 /\ b = i
        BY <1>4, <1>5, <3>2
      <4>2. \A l \in 1 .. Len(wait) : l < k
        BY <1>4, <4>1
      <4> QED
        BY <1>8, <4>1, <4>2
    <3> QED
      BY <3>1, <3>2
  <2>3. CASE job[a].state = "active"
    BY <1>1, <1>4, <2>3
  <2>4. ASSUME NEW l \in 1 .. Len(wait), l < k, wait[l] = a
        PROVE  \E m \in 1 .. Len(wait') : m < k /\ wait'[m] = a
    BY <1>4, <1>5, <2>4
  <2> QED
    BY <2>2, <2>3, <2>4
<1>10. FirstInLine'
  BY <1>2 DEF Line, FirstInLine, Ahead, Pending
<1> QED
  BY <1>6, <1>7, <1>9, <1>10 DEF Line
(* A free worker is the only one, so no job is active: nothing is ahead of *)
(* the first on the list, and what was behind it may now be first.         *)
LEMMA TakeKeepsLine ==
  ASSUME OneProcess, TypeInv, JobInv, Watched, Line, NEW p \in Procs, Take(p)
  PROVE  Line'
<1> DEFINE i == Head(wait)
           record == [state |-> "active", due |-> job[i].due,
                      stalls |-> job[i].stalls, owner |-> p]
           busy == [step |-> "processing", item |-> i]
<1>1. /\ job' = [job EXCEPT ![i] = record]
      /\ worker' = [worker EXCEPT ![p] = busy]
      /\ wait' = Tail(wait) /\ wait # <<>>
      /\ UNCHANGED items /\ worker[p].step = "free"
  BY DEF Take, database
<1>2. /\ wait \in Seq(ItemIds) /\ Len(wait) \in Nat
      /\ i \in ItemIds /\ i = wait[1] /\ 1 \in 1 .. Len(wait)
  BY <1>1 DEF TypeInv, TypeOK, QueueTypeOK
<1>3. job[i] # NoJob
  BY <1>2 DEF TypeInv, WaitHasJob
<1>4. record.state = "active" /\ record.due = job[i].due /\ busy.item = i
  OBVIOUS
<1>5. Len(wait') = Len(wait) - 1 /\ \A k \in 1 .. Len(wait') : wait'[k] = wait[k + 1]
  BY <1>1, <1>2
<1> HIDE DEF record, busy, i
<1>6. /\ \A j \in ItemIds : job'[j] = IF j = i THEN record ELSE job[j]
      /\ worker'[p] = busy
  BY <1>1, <1>2 DEF TypeInv, TypeOK, QueueTypeOK
<1>7. \A j \in ItemIds : job[j].state # "active"
  <2> SUFFICES ASSUME NEW j \in ItemIds, job[j].state = "active" PROVE FALSE
    OBVIOUS
  <2>1. job[j].owner \in Procs
    BY JobExists, JobFields DEF TypeInv, TypeOK
  <2>2. job[j].owner = p
    BY <2>1 DEF OneProcess
  <2> QED
    BY <1>1, <2>2 DEF Watched, ActiveServed, Serving
<1>8. DueAtEnd'
  BY <1>1, <1>3, <1>4, <1>6 DEF Line, DueAtEnd
<1>9. WaitingListed'
  <2> SUFFICES ASSUME NEW j \in ItemIds, job'[j].state = "waiting"
               PROVE  \E k \in 1 .. Len(wait') : wait'[k] = j
    BY DEF WaitingListed
  <2>1. j # i /\ job[j].state = "waiting"
    BY <1>4, <1>6
  <2>2. PICK k \in 1 .. Len(wait) : wait[k] = j
    BY <2>1 DEF Line, WaitingListed
  <2>3. k # 1
    BY <1>2, <2>1, <2>2
  <2>4. k - 1 \in 1 .. Len(wait') /\ (k - 1) + 1 = k
    BY <1>2, <1>5, <2>3
  <2> QED
    BY <1>5, <2>2, <2>4
<1>10. WaitInOrder'
  <2>1. \A k \in 1 .. Len(wait') : k + 1 \in 1 .. Len(wait) /\ wait'[k] \in ItemIds
    BY <1>2, <1>5
  <2> SUFFICES ASSUME NEW k \in 1 .. Len(wait'), NEW a \in ItemIds,
                      NEW b \in ItemIds, b = wait'[k], Ahead(a, b)
               PROVE  \/ job'[a].state = "active"
                      \/ \E l \in 1 .. Len(wait') : l < k /\ wait'[l] = a
    BY <1>1, <2>1 DEF WaitInOrder, Ahead, Pending
  <2>2. PICK l \in 1 .. Len(wait) : l < k + 1 /\ wait[l] = a
    BY <1>5, <1>7, <2>1 DEF Line, WaitInOrder
  <2>3. CASE l = 1
    BY <1>2, <1>4, <1>6, <2>2, <2>3
  <2>4. CASE l # 1
    <3>1. l - 1 \in 1 .. Len(wait') /\ l - 1 < k /\ (l - 1) + 1 = l
      BY <1>2, <1>5, <2>1, <2>2, <2>4
    <3>2. wait'[l - 1] = a
      BY <1>5, <2>2, <3>1
    <3> QED
      BY <3>1, <3>2
  <2> QED
    BY <2>3, <2>4
<1>11. FirstInLine'
  <2> SUFFICES ASSUME NEW q \in Procs, NEW a \in ItemIds, Ahead(a, i)
               PROVE  FALSE
    BY <1>1, <1>4, <1>6 DEF FirstInLine, OneProcess, Ahead, Pending
  <2>1. \E l \in 1 .. Len(wait) : l < 1 /\ wait[l] = a
    BY <1>2, <1>7 DEF Line, WaitInOrder
  <2> QED
    BY <2>1
<1> QED
  BY <1>8, <1>9, <1>10, <1>11 DEF Line

(* A completed job was for a delivered order, which is ahead of nobody.    *)
LEMMA CompleteKeepsLine ==
  ASSUME TypeInv, JobInv, Line, NEW p \in Procs, CompleteJob(p)
  PROVE  Line'
<1> DEFINE i == worker[p].item
<1>1. /\ worker[p].step = "finalized" /\ i \in ItemIds /\ Done(i)
      /\ job' = IF HoldsLock(p, i) THEN [job EXCEPT ![i] = Settled(i, "completed")]
                ELSE job
      /\ worker' = [worker EXCEPT ![p] = Free] /\ UNCHANGED <<items, wait>>
  BY WorkerType
     DEF CompleteJob, Settle, database, TypeInv, JobInv, WorkersRipe
<1>2. \A j \in ItemIds : \/ job'[j] = job[j]
                         \/ /\ j = i /\ job[j].state = "active"
                            /\ job'[j].state = "completed"
                            /\ job'[j].due = job[j].due
  BY <1>1 DEF Settled, HoldsLock, TypeInv, TypeOK, QueueTypeOK
<1>3. DueAtEnd'
  BY <1>1, <1>2 DEF Line, DueAtEnd, NoJob
<1>4. WaitingListed'
  BY <1>1, <1>2 DEF Line, WaitingListed
<1>5. WaitInOrder'
  <2>1. \A a, b \in ItemIds : Ahead(a, b)' => Ahead(a, b) /\ a # i
    BY <1>1 DEF Ahead, Pending, Done
  <2>2. \A k \in 1 .. Len(wait) : wait[k] \in ItemIds
    BY DEF TypeInv, TypeOK, QueueTypeOK
  <2> SUFFICES ASSUME NEW k \in 1 .. Len(wait), NEW a \in ItemIds,
                      NEW b \in ItemIds, b = wait[k], Ahead(a, b)'
               PROVE  \/ job'[a].state = "active"
                      \/ \E l \in 1 .. Len(wait) : l < k /\ wait[l] = a
    BY <1>1, <2>2 DEF WaitInOrder, Ahead, Pending
  <2> QED
    BY <1>2, <2>1 DEF Line, WaitInOrder
<1>6. FirstInLine'
  <2>1. \A q \in Procs : worker'[q] = worker[q] \/ worker'[q].step = "free"
    BY <1>1 DEF Free, TypeInv, TypeOK, QueueTypeOK
  <2> QED
    BY <1>1, <2>1 DEF Line, FirstInLine, Ahead, Pending
<1> QED
  BY <1>3, <1>4, <1>5, <1>6 DEF Line

(* Every step keeps the line.                                              *)
LEMMA LineStep ==
  ASSUME NoFaults, ClocksAgree, OneProcess, TypeInv, JobInv, Watched,
         RequestsYoung, Commitments, Line, [Next]_vars
  PROVE  Line'
<1>1. CASE UNCHANGED <<job, wait, worker>>
  BY <1>1, LineUntouched
<1>2. ASSUME NEW h \in Handlers, Receive(h) \/ Handle(h)
      PROVE  UNCHANGED <<job, wait, worker>> \/ Line'
  <2>1. CASE ScheduleQueueItem(h)
    BY <2>1, ScheduleKeepsLine
  <2>2. CASE ~ScheduleQueueItem(h)
    BY <1>2, <2>2 DEF Receive, Handle, Reject, GetOverview, StartBuilding,
                      UpdateProductionFactor, StartShips, StartResearch,
                      PlaceOrder, redis
  <2> QED
    BY <2>1, <2>2
<1>3. ASSUME NEW p \in Procs, Work(p)
      PROVE  Line'
  <2>1. CASE Promote(p)
    BY <2>1, PromoteKeepsLine
  <2>2. CASE Take(p)
    BY <2>2, TakeKeepsLine
  <2>3. CASE CompleteJob(p)
    BY <2>3, CompleteKeepsLine
  <2>4. CASE FinishBuilding(p) \/ FinishResearch(p) \/ FinishShips(p) \/ SkipFinalize(p)
    <3>1. /\ UNCHANGED <<job, wait>> /\ worker[p].step = "processing"
          /\ worker' = [worker EXCEPT ![p].step = "finalized"]
      BY <2>4 DEF FinishBuilding, FinishResearch, FinishShips, SkipFinalize,
                  Processed, redis
    <3>2. worker[p] \in Busy
      BY <3>1, WorkerType DEF TypeInv
    <3>3. \A q \in Procs : worker'[q].step # "free" =>
            worker[q].step # "free" /\ worker'[q].item = worker[q].item
      BY <3>1, <3>2 DEF Busy, TypeInv, TypeOK, QueueTypeOK
    <3> QED
      BY <3>1, <3>3, LineUntouched
  <2> QED
    BY <1>3, <2>1, <2>2, <2>3, <2>4 DEF Work
<1>4. ~\E i \in ItemIds : Stalled(i)
  BY DEF Stalled, NoFaults, Watched, ActiveServed
<1> QED
  BY <1>1, <1>2, <1>3, <1>4
     DEF Next, Tick, vars, redis, Abort, FinalizeFails, Crash, NoFaults
-----------------------------------------------------------------------------
(* The ledger of a planet's levels.                                        *)

Ordered(pl, k) == {i \in PendingOf("BUILDING", pl) : items[i].key = k}
Numbers(pl, k) == {items[i].n : i \in Ordered(pl, k)}

(* What the ledger says, and what is finite and a number in it.            *)
LEMMA LedgerFacts ==
  ASSUME TypeInv, NEW pl \in Planets, NEW k \in Buildings
  PROVE  /\ IsFiniteSet(Ordered(pl, k)) /\ Cardinality(Ordered(pl, k)) \in Nat
         /\ IsFiniteSet(DoneOf("BUILDING", pl, k))
         /\ Cardinality(DoneOf("BUILDING", pl, k)) \in Nat
         /\ level[pl][k] \in Nat
         /\ BuildingLedger =>
              /\ level[pl][k] =
                   InitialLevel[k] + Cardinality(DoneOf("BUILDING", pl, k))
              /\ Numbers(pl, k) =
                   level[pl][k] + 1 .. level[pl][k] + Cardinality(Ordered(pl, k))
<1>1. Ordered(pl, k) \in SUBSET ItemIds /\ DoneOf("BUILDING", pl, k) \in SUBSET ItemIds
  BY DEF Ordered, PendingOf, DoneOf
<1>2. /\ IsFiniteSet(Ordered(pl, k)) /\ Cardinality(Ordered(pl, k)) \in Nat
      /\ IsFiniteSet(DoneOf("BUILDING", pl, k))
      /\ Cardinality(DoneOf("BUILDING", pl, k)) \in Nat
  BY <1>1, FS_Subset, FS_CardinalityType, BoundsAssumption
<1>3. level[pl][k] \in Nat
  BY BoundsAssumption DEF TypeInv, TypeOK, DatabaseTypeOK, LevelMap, Levels
<1> QED
  BY <1>2, <1>3 DEF BuildingLedger, Ordered, Numbers

\* The converse, pair by pair.
LedgerOf(pl, k) ==
  /\ level[pl][k] = InitialLevel[k] + Cardinality(DoneOf("BUILDING", pl, k))
  /\ Numbers(pl, k) =
       level[pl][k] + 1 .. level[pl][k] + Cardinality(Ordered(pl, k))

LEMMA LedgerByPair ==
  (\A pl \in Planets, k \in Buildings : LedgerOf(pl, k)) <=> BuildingLedger
BY DEF LedgerOf, BuildingLedger, Ordered, Numbers

(* A new building is for the level after the last one ordered, and ends    *)
(* after it.                                                               *)
LEMMA PlacingKeepsLedger ==
  ASSUME TypeInv, Lasting, LevelsInOrder, BuildingLedger, [Next]_vars,
         NEW f \in ItemIds, NEW order \in QueueItem, Places(f, order),
         AtNextLevel(order)
  PROVE  Lasting' /\ LevelsInOrder' /\ BuildingLedger' /\ UNCHANGED level
<1>1. /\ UNCHANGED level /\ items'[f] = order /\ ~Created(f)
      /\ \A i \in ItemIds : i # f => items'[i] = items[i]
      /\ \A i \in ItemIds : Pending(i)' <=> Pending(i) \/ i = f
      /\ \A i \in ItemIds : Done(i)' <=> Done(i)
      /\ ~Pending(f) /\ ~Done(f)
  BY PlacedItems DEF Places, Created
<1>2. Lasting'
  BY <1>1 DEF Places, Legal, Lasting, Created
<1>3. ASSUME order.type = "BUILDING"
      PROVE  /\ order.planet \in Planets /\ order.key \in Buildings
             /\ order.n = level[order.planet][order.key] +
                            Cardinality(Ordered(order.planet, order.key)) + 1
  BY <1>3, ItemFields DEF BuildingItem, AtNextLevel, NextLevel, Ordered
<1>4. LevelsInOrder'
  <2> SUFFICES ASSUME NEW a \in ItemIds, NEW b \in ItemIds, Ahead(a, b)',
                      items'[a].key = items'[b].key
               PROVE  items'[a].n < items'[b].n
    BY DEF LevelsInOrder
  <2>1. CASE Created(b)
    <3>1. Ahead(a, b)
      BY <2>1, AheadStays
    <3> QED
      BY <1>1, <3>1 DEF Ahead, LevelsInOrder
  <2>2. CASE ~Created(b)
    <3>1. b = f
      BY <1>1, <2>2, ItemExists DEF Ahead, Created, TypeInv, TypeOK
    <3>2. /\ order.type = "BUILDING" /\ order.endAt \in Nat
          /\ items'[a].endAt < order.endAt
      BY <1>1, <3>1, ItemFields DEF Ahead
    <3>3. a # f
      BY <1>1, <3>2
    <3>4. a \in Ordered(order.planet, order.key)
      BY <1>1, <3>1, <3>3 DEF Ahead, Ordered, PendingOf
    <3>5. items[a].n \in Numbers(order.planet, order.key)
      BY <3>4 DEF Numbers
    <3>6. /\ level[order.planet][order.key] \in Nat
          /\ Cardinality(Ordered(order.planet, order.key)) \in Nat
          /\ Numbers(order.planet, order.key) =
               level[order.planet][order.key] + 1 ..
                 level[order.planet][order.key] +
                   Cardinality(Ordered(order.planet, order.key))
      BY <1>3, <3>2, LedgerFacts
    <3>7. items[a].n < order.n
      BY <1>3, <3>2, <3>5, <3>6
    <3> QED
      BY <1>1, <3>1, <3>3, <3>7
  <2> QED
    BY <2>1, <2>2
<1>5. ASSUME NEW pl \in Planets, NEW k \in Buildings
      PROVE  LedgerOf(pl, k)'
  <2>1. DoneOf("BUILDING", pl, k)' = DoneOf("BUILDING", pl, k)
    BY <1>1 DEF DoneOf
  <2>2. CASE order.type = "BUILDING" /\ order.planet = pl /\ order.key = k
    <3>1. Ordered(pl, k)' = Ordered(pl, k) \cup {f} /\ f \notin Ordered(pl, k)
      BY <1>1, <2>2 DEF Ordered, PendingOf
    <3>2. Cardinality(Ordered(pl, k)') = Cardinality(Ordered(pl, k)) + 1
      BY <3>1, LedgerFacts, FS_AddElement
    <3>3. Numbers(pl, k)' = Numbers(pl, k) \cup {order.n}
      <4>1. \A i \in Ordered(pl, k) : i \in ItemIds /\ items'[i].n = items[i].n
        BY <1>1, <3>1 DEF Ordered, PendingOf
      <4>2. \A i \in Ordered(pl, k)' : i = f \/ i \in Ordered(pl, k)
        BY <3>1
      <4>3. Numbers(pl, k)' = {items'[i].n : i \in Ordered(pl, k)'}
        BY DEF Numbers
      <4> QED
        BY <1>1, <3>1, <4>1, <4>2, <4>3 DEF Numbers
    <3>4. order.n = level[pl][k] + Cardinality(Ordered(pl, k)) + 1
      BY <1>3, <2>2
    <3>5. Numbers(pl, k)' = level[pl][k] + 1 ..
                              level[pl][k] + Cardinality(Ordered(pl, k)')
      BY <3>2, <3>3, <3>4, LedgerFacts
    <3> QED
      BY <1>1, <2>1, <3>5, LedgerFacts DEF LedgerOf
  <2>3. CASE ~(order.type = "BUILDING" /\ order.planet = pl /\ order.key = k)
    <3>1. Ordered(pl, k)' = Ordered(pl, k)
      BY <1>1, <2>3 DEF Ordered, PendingOf
    <3>2. Numbers(pl, k)' = Numbers(pl, k)
      <4>1. \A i \in Ordered(pl, k) : items'[i].n = items[i].n
        BY <1>1 DEF Ordered, PendingOf
      <4> QED
        BY <3>1, <4>1 DEF Numbers
    <3> QED
      BY <1>1, <2>1, <3>1, <3>2, LedgerFacts DEF LedgerOf
  <2> QED
    BY <2>2, <2>3
<1>6. (\A pl \in Planets, k \in Buildings : LedgerOf(pl, k))'
  BY <1>5
<1>7. BuildingLedger'
  BY <1>6, LedgerByPair, PTL
<1> QED
  BY <1>1, <1>2, <1>4, <1>7
(* The building that is finished is for the very next level, as those      *)
(* ordered before it are finished and those after it end later.            *)
LEMMA FirstIsNext ==
  ASSUME TypeInv, BuildingsSequential, Line, Lasting, LevelsInOrder,
         BuildingLedger, NEW p \in Procs, NEW c \in ItemIds, Closes(p, c),
         items[c].type = "BUILDING"
  PROVE  /\ items[c].planet \in Planets /\ items[c].key \in Buildings
         /\ c \in Ordered(items[c].planet, items[c].key)
         /\ items[c].n = level[items[c].planet][items[c].key] + 1
         /\ \A a \in Ordered(items[c].planet, items[c].key) :
              a # c => items[a].n \in Nat /\ items[c].n < items[a].n
<1> DEFINE pl == items[c].planet
           k == items[c].key
           L == level[pl][k]
           C == Cardinality(Ordered(pl, k))
<1>1. /\ Pending(c) /\ worker[p].step # "free" /\ worker[p].item = c
      /\ items[c] \in QueueItem
  BY ItemExists DEF Closes, Finalizable, TypeInv, TypeOK
<1>2. pl \in Planets /\ k \in Buildings /\ c \in Ordered(pl, k)
  BY <1>1, ItemFields DEF BuildingItem, Ordered, PendingOf
<1>3. /\ L \in Nat /\ C \in Nat /\ Numbers(pl, k) = L + 1 .. L + C
  BY <1>2, LedgerFacts
<1>4. ASSUME NEW a \in Ordered(pl, k), a # c
      PROVE  items[a].n \in Nat /\ items[c].n < items[a].n
  <2>1. Ahead(a, c) \/ Ahead(c, a)
    BY <1>2, <1>4, OneAhead DEF Ordered
  <2>2. ~Ahead(a, c)
    BY <1>1, <1>4 DEF Line, FirstInLine, Ordered, PendingOf
  <2>3. items[a].n \in Numbers(pl, k)
    BY DEF Numbers
  <2>4. items[a].n \in Nat
    BY <1>3, <2>3
  <2> QED
    BY <1>2, <1>4, <2>1, <2>2, <2>4 DEF LevelsInOrder, Ordered, PendingOf
<1>5. items[c].n \in L + 1 .. L + C
  BY <1>2, <1>3 DEF Numbers
<1>6. L + 1 \in Numbers(pl, k)
  <2> HIDE DEF L, C
  <2> QED
    BY <1>3, <1>5
<1>7. PICK x \in Ordered(pl, k) : items[x].n = L + 1
  BY <1>6 DEF Numbers
<1>8. items[c].n = L + 1
  <2>1. CASE x = c
    BY <1>7, <2>1
  <2>2. CASE x # c
    <3>1. items[c].n < L + 1
      BY <1>4, <1>7, <2>2
    <3> HIDE DEF L, C
    <3> QED
      BY <1>3, <1>5, <3>1
  <2> QED
    BY <2>1, <2>2
<1> QED
  BY <1>2, <1>4, <1>8

(* Delivering an order moves it from the pending to the finished ones.     *)
LEMMA ClosingKeepsLedger ==
  ASSUME TypeInv, BuildingsSequential, Line, Lasting, LevelsInOrder,
         BuildingLedger, [Next]_vars,
         NEW p \in Procs, NEW c \in ItemIds, Closes(p, c)
  PROVE  /\ Lasting' /\ LevelsInOrder' /\ BuildingLedger'
         /\ \A pl \in Planets, k \in Buildings : level'[pl][k] >= level[pl][k]
<1>1. /\ Pending(c) /\ Finish(c) /\ Created(c)
      /\ \A i \in ItemIds : i # c => items'[i] = items[i]
      /\ \A i \in ItemIds : Pending(i)' <=> Pending(i) /\ i # c
      /\ \A i \in ItemIds : Done(i)' <=> Done(i) \/ i = c
      /\ ~Done(c)
  BY ClosedItems, ItemFields DEF Closes, Finalizable, Created
<1>2. ASSUME NEW i \in ItemIds
      PROVE  /\ Created(i)' => Created(i)
             /\ Pending(i) \/ Done(i) => Created(i)
  BY <1>1, ItemExists DEF Created, TypeInv, TypeOK
<1>3. Lasting'
  BY <1>2, FieldsStay DEF Lasting
<1>4. LevelsInOrder'
  <2> SUFFICES ASSUME NEW a \in ItemIds, NEW b \in ItemIds, Ahead(a, b)',
                      items'[a].key = items'[b].key
               PROVE  items'[a].n < items'[b].n
    BY DEF LevelsInOrder
  <2>1. Created(a) /\ Created(b)
    BY <1>1, <1>2 DEF Ahead
  <2>2. Ahead(a, b)
    BY <2>1, AheadStays
  <2> QED
    BY <2>1, <2>2, FieldsStay DEF LevelsInOrder
<1>5. ASSUME NEW pl \in Planets, NEW k \in Buildings
      PROVE  LedgerOf(pl, k)' /\ level'[pl][k] >= level[pl][k]
  <2> DEFINE Mine == /\ items[c].type = "BUILDING" /\ items[c].planet = pl
                     /\ items[c].key = k
  <2>1. /\ \A i \in ItemIds : i \in DoneOf("BUILDING", pl, k)' <=>
              i \in DoneOf("BUILDING", pl, k) \/ (i = c /\ Mine)
        /\ \A i \in ItemIds : i \in Ordered(pl, k)' <=>
              i \in Ordered(pl, k) /\ i # c
    BY <1>1, <1>2, FieldsStay DEF DoneOf, Ordered, PendingOf
  <2>2. /\ Ordered(pl, k) \in SUBSET ItemIds /\ Ordered(pl, k)' \in SUBSET ItemIds
        /\ DoneOf("BUILDING", pl, k) \in SUBSET ItemIds
        /\ DoneOf("BUILDING", pl, k)' \in SUBSET ItemIds
    BY DEF Ordered, PendingOf, DoneOf
  <2>3. Numbers(pl, k)' = {items[i].n : i \in Ordered(pl, k) \ {c}}
    <3>1. Ordered(pl, k)' = Ordered(pl, k) \ {c}
      BY <2>1, <2>2
    <3>2. \A i \in Ordered(pl, k) \ {c} : items'[i].n = items[i].n
      BY <1>1, <2>2
    <3> QED
      BY <3>1, <3>2 DEF Numbers
  <2>4. CASE Mine
    <3>1. /\ c \in Ordered(pl, k) /\ items[c].n = level[pl][k] + 1
          /\ \A a \in Ordered(pl, k) :
               a # c => items[a].n \in Nat /\ items[c].n < items[a].n
      BY <2>4, FirstIsNext
    <3>2. level'[pl][k] = level[pl][k] + 1
      <4>1. level' = [level EXCEPT ![pl][k] = items[c].n]
        BY <2>4 DEF Closes, DeliveringBuilding, DeliveringResearch, DeliveringShips
      <4> QED
        BY <3>1, <4>1 DEF TypeInv, TypeOK, DatabaseTypeOK, LevelMap
    <3>3. Ordered(pl, k)' = Ordered(pl, k) \ {c}
      BY <2>1, <2>2
    <3>4. /\ Cardinality(Ordered(pl, k)') = Cardinality(Ordered(pl, k)) - 1
          /\ Cardinality(Ordered(pl, k)) \in Nat
      BY <3>1, <3>3, LedgerFacts, FS_RemoveElement
    <3>5. DoneOf("BUILDING", pl, k)' = DoneOf("BUILDING", pl, k) \cup {c}
          /\ c \notin DoneOf("BUILDING", pl, k)
      BY <1>1, <2>1, <2>2, <2>4 DEF DoneOf
    <3>6. Cardinality(DoneOf("BUILDING", pl, k)') =
            Cardinality(DoneOf("BUILDING", pl, k)) + 1
      BY <3>5, LedgerFacts, FS_AddElement
    <3>7. /\ level[pl][k] \in Nat
          /\ level[pl][k] = InitialLevel[k] + Cardinality(DoneOf("BUILDING", pl, k))
          /\ Numbers(pl, k) = level[pl][k] + 1 ..
                                level[pl][k] + Cardinality(Ordered(pl, k))
      BY LedgerFacts
    <3>8. Numbers(pl, k)' = Numbers(pl, k) \ {items[c].n}
      <4>1. \A v \in Numbers(pl, k)' : v \in Numbers(pl, k) /\ v # items[c].n
        <5> SUFFICES ASSUME NEW a \in Ordered(pl, k), a # c
                     PROVE  items[a].n \in Numbers(pl, k) /\ items[a].n # items[c].n
          BY <2>3
        <5>1. items[c].n < items[a].n /\ items[a].n \in Nat
          BY <3>1
        <5>2. items[c].n \in Nat
          BY <3>1, <3>7
        <5> QED
          BY <5>1, <5>2 DEF Numbers
      <4>2. \A v \in Numbers(pl, k) : v # items[c].n => v \in Numbers(pl, k)'
        <5> SUFFICES ASSUME NEW a \in Ordered(pl, k), items[a].n # items[c].n
                     PROVE  items[a].n \in Numbers(pl, k)'
          BY DEF Numbers
        <5> QED
          BY <2>3
      <4> QED
        BY <4>1, <4>2
    <3>9. Numbers(pl, k)' = level'[pl][k] + 1 ..
                              level'[pl][k] + Cardinality(Ordered(pl, k)')
      BY <3>1, <3>2, <3>4, <3>7, <3>8
    <3>10. InitialLevel[k] \in Nat
      BY FormulasAssumption, BoundsAssumption DEF LevelMap, Levels
    <3>11. level'[pl][k] = InitialLevel[k] + Cardinality(DoneOf("BUILDING", pl, k)')
      BY <3>2, <3>6, <3>7, <3>10, LedgerFacts
    <3> QED
      BY <3>2, <3>7, <3>9, <3>11 DEF LedgerOf
  <2>5. CASE ~Mine
    <3>1. level'[pl][k] = level[pl][k]
      <4>1. CASE items[c].type # "BUILDING"
        BY <4>1 DEF Closes, DeliveringBuilding, DeliveringResearch, DeliveringShips
      <4>2. CASE items[c].type = "BUILDING"
        <5>1. level' = [level EXCEPT ![items[c].planet][items[c].key] = items[c].n]
          BY <4>2 DEF Closes, DeliveringBuilding, DeliveringResearch, DeliveringShips
        <5> QED
          BY <2>5, <4>2, <5>1 DEF TypeInv, TypeOK, DatabaseTypeOK, LevelMap
      <4> QED
        BY <4>1, <4>2
    <3>2. Ordered(pl, k)' = Ordered(pl, k) /\ c \notin Ordered(pl, k)
      BY <2>1, <2>2, <2>5 DEF Ordered, PendingOf
    <3>3. DoneOf("BUILDING", pl, k)' = DoneOf("BUILDING", pl, k)
      BY <2>1, <2>2, <2>5
    <3>4. Numbers(pl, k)' = Numbers(pl, k)
      BY <2>3, <3>2 DEF Numbers
    <3> QED
      BY <3>1, <3>2, <3>3, <3>4, LedgerFacts DEF LedgerOf
  <2> QED
    BY <2>4, <2>5
<1>6. (\A pl \in Planets, k \in Buildings : LedgerOf(pl, k))'
  BY <1>5
<1>7. BuildingLedger'
  BY <1>6, LedgerByPair, PTL
<1> QED
  BY <1>3, <1>4, <1>5, <1>7
(* Every step keeps the ledger and takes no level away.                    *)
LEMMA LedgerStep ==
  ASSUME TypeInv, BuildingsSequential, Line, Lasting, LevelsInOrder,
         BuildingLedger, [Next]_vars
  PROVE  /\ Lasting' /\ LevelsInOrder' /\ BuildingLedger'
         /\ \A pl \in Planets, k \in Buildings : level'[pl][k] >= level[pl][k]
<1>1. \A pl \in Planets, k \in Buildings : level[pl][k] \in Nat
  BY LedgerFacts
<1>2. CASE TouchesNoOrder
  <2>1. Lasting' /\ LevelsInOrder' /\ UNCHANGED level
    BY <1>2 DEF TouchesNoOrder, Lasting, LevelsInOrder, Ahead, Pending, Created
  <2>2. BuildingLedger'
    <3>1. UNCHANGED <<items, level>>
      BY <1>2 DEF TouchesNoOrder
    <3>2. ASSUME NEW pl \in Planets, NEW k \in Buildings
          PROVE  LedgerOf(pl, k)'
      <4>1. /\ DoneOf("BUILDING", pl, k)' = DoneOf("BUILDING", pl, k)
            /\ Ordered(pl, k)' = Ordered(pl, k)
        BY <3>1 DEF DoneOf, Ordered, PendingOf, Done, Pending
      <4>2. Numbers(pl, k)' = Numbers(pl, k)
        BY <3>1, <4>1 DEF Numbers
      <4> QED
        BY <3>1, <4>1, <4>2, LedgerFacts DEF LedgerOf
    <3>3. (\A pl \in Planets, k \in Buildings : LedgerOf(pl, k))'
      BY <3>2
    <3> QED
      BY <3>3, LedgerByPair, PTL
  <2> QED
    BY <1>1, <2>1, <2>2
<1>3. ASSUME NEW f \in ItemIds, NEW order \in QueueItem, Places(f, order),
             AtNextLevel(order)
      PROVE  /\ Lasting' /\ LevelsInOrder' /\ BuildingLedger'
             /\ \A pl \in Planets, k \in Buildings : level'[pl][k] >= level[pl][k]
  BY <1>1, <1>3, PlacingKeepsLedger
<1> QED
  BY <1>2, <1>3, ClosingKeepsLedger, OrderSteps

-----------------------------------------------------------------------------
(* The theorems.                                                           *)

LEMMA InitBuildings == Init => BuildingInv
<1> SUFFICES ASSUME Init PROVE BuildingInv
  OBVIOUS
<1>1. /\ \A i \in ItemIds : items[i] = NoItem /\ job[i] = NoJob
      /\ wait = <<>> /\ \A h \in Handlers : req[h].pc = "idle"
      /\ \A p \in Procs : worker[p].step = "free"
  BY DEF Init, Idle, Free
<1>2. \A i \in ItemIds : ~Created(i) /\ ~Pending(i) /\ ~Done(i)
  BY <1>1 DEF Created, Pending, Done, NoItem
<1>3. RequestsYoung /\ Commitments
  BY <1>1 DEF RequestsYoung, Commitments, CommittedEarly, CommittedNoJob,
              CommittedApart, Committed
<1>4. Line
  BY <1>1, <1>2 DEF Line, DueAtEnd, WaitingListed, WaitInOrder, FirstInLine, NoJob
<1>5. Lasting /\ LevelsInOrder
  BY <1>2 DEF Lasting, LevelsInOrder, Ahead
<1>6. ASSUME NEW pl \in Planets, NEW k \in Buildings
      PROVE  LedgerOf(pl, k)
  <2>1. DoneOf("BUILDING", pl, k) = {} /\ Ordered(pl, k) = {}
    BY <1>2 DEF DoneOf, Ordered, PendingOf
  <2>2. Numbers(pl, k) = {} /\ Cardinality({}) = 0
    BY <2>1, FS_EmptySet DEF Numbers
  <2>3. level[pl][k] = InitialLevel[k] /\ InitialLevel[k] \in Nat
    BY FormulasAssumption, BoundsAssumption DEF Init, LevelMap, Levels
  <2> QED
    BY <2>1, <2>2, <2>3 DEF LedgerOf
<1>7. BuildingLedger
  BY <1>6, LedgerByPair
<1> QED
  BY <1>3, <1>4, <1>5, <1>7 DEF BuildingInv

(* The invariant holds in every behaviour of a backend that works well.    *)
THEOREM BuildingInvariant ==
  ASSUME Reliably
  PROVE  Spec => []BuildingInv
<1>1. TypeInv /\ JobInv /\ Watched /\ BuildingsSequential /\ BuildingInv
        /\ [Next]_vars => BuildingInv'
  BY YoungStep, CommitmentsStep, LineStep, LedgerStep DEF BuildingInv, Reliably
<1> QED
  BY <1>1, InitBuildings, TypeInvariant, JobInvariant, WatchInvariant, SequentialHolds,
     PTL DEF Spec, Reliably

(* Without faults, with one process and requests shorter than any          *)
(* construction, the level of a building counts the orders that were paid  *)
(* for, and the pending orders are for the levels that follow, each once:  *)
(* no interleaving of requests, promotions and jobs skips a level.         *)
THEOREM LevelsCount ==
  ASSUME Reliably
  PROVE  Spec => []BuildingLedger
<1>1. BuildingInv => BuildingLedger
  BY DEF BuildingInv
<1> QED
  BY <1>1, BuildingInvariant, PTL

(* Under the same conditions no job of a building order ever lowers a      *)
(* level, although finalizeQueueItem assigns it.                           *)
THEOREM LevelsGrow ==
  ASSUME Reliably
  PROVE  Spec => LevelNeverDecreases
<1>1. TypeInv /\ BuildingsSequential /\ BuildingInv /\ [Next]_vars =>
        [\A pl \in Planets, k \in Buildings : level'[pl][k] >= level[pl][k]]_vars
  BY LedgerStep DEF BuildingInv
<1> QED
  BY <1>1, TypeInvariant, SequentialHolds, BuildingInvariant, PTL
     DEF Spec, LevelNeverDecreases

-----------------------------------------------------------------------------
(* The orderly book.                                                       *)

(* The building a job delivers is the one its planet has waited for        *)
(* longest, and for the next level.                                        *)
LEMMA ClosedInTurn ==
  ASSUME TypeInv, BuildingInv, BuildingsSequential,
         NEW p \in Procs, NEW c \in ItemIds, Closes(p, c)
  PROVE  Book!InTurn(c)
<1> SUFFICES ASSUME items[c].type = "BUILDING"
             PROVE  /\ items[c].n = level[items[c].planet][items[c].key] + 1
                    /\ \A j \in PendingOf("BUILDING", items[c].planet) :
                         items[c].endAt <= items[j].endAt
  BY OpenIsPending DEF Book!InTurn
<1>1. items[c].n = level[items[c].planet][items[c].key] + 1
  BY FirstIsNext DEF BuildingInv
<1>2. ASSUME NEW j \in PendingOf("BUILDING", items[c].planet)
      PROVE  items[c].endAt <= items[j].endAt
  <2>1. /\ Pending(c) /\ worker[p].step # "free" /\ worker[p].item = c
        /\ j \in ItemIds /\ Pending(j)
        /\ items[j].type = "BUILDING" /\ items[j].planet = items[c].planet
    BY DEF Closes, Finalizable, PendingOf
  <2>2. items[c].endAt \in Nat /\ items[j].endAt \in Nat
    <3>1. items[c] \in QueueItem /\ items[j] \in QueueItem
      BY <2>1, ItemExists DEF TypeInv, TypeOK
    <3> QED
      BY <3>1 DEF QueueItem, BuildingItem, ResearchItem, ShipItem
  <2>3. ~(items[j].endAt < items[c].endAt)
    BY <2>1 DEF BuildingInv, Line, FirstInLine, Ahead
  <2> QED
    BY <2>2, <2>3
<1> QED
  BY <1>1, <1>2

(* Every step is a step of the orderly book, or none of the book changes.  *)
LEMMA OrderlyStep ==
  ASSUME TypeInv, ResearchLedger, BuildingsSequential, BuildingInv, [Next]_vars
  PROVE  [Book!OrderlyNext]_(Book!vars)
<1>1. CASE TouchesNoOrder
  BY <1>1 DEF TouchesNoOrder, Book!vars
<1>2. ASSUME NEW f \in ItemIds, NEW order \in QueueItem, Places(f, order)
      PROVE  Book!OrderlyNext
  BY <1>2, PlacedIsEntered DEF Book!OrderlyNext
<1>3. ASSUME NEW p \in Procs, NEW i \in ItemIds, Closes(p, i)
      PROVE  Book!OrderlyNext
  BY <1>3, ClosedIsDelivered, ClosedInTurn DEF Book!OrderlyNext
<1> QED
  BY <1>1, <1>2, <1>3, OrderSteps

(* Under the same conditions buildings are delivered in their turn, one    *)
(* level at a time, although finalizeQueueItem assigns the level and looks *)
(* at no other order.                                                      *)
THEOREM OrderlyBook ==
  ASSUME Reliably
  PROVE  Spec => ImplementsOrderlyBook
<1>1. TypeInv /\ ResearchLedger /\ BuildingsSequential /\ BuildingInv
        /\ [Next]_vars => [Book!OrderlyNext]_(Book!vars)
  BY OrderlyStep
<1> QED
  BY <1>1, BookOpens, TypeInvariant, LedgerHolds, SequentialHolds, BuildingInvariant, PTL
     DEF Spec, ImplementsOrderlyBook, Book!OrderlySpec

-----------------------------------------------------------------------------
(* Balances and the storage.                                               *)

\* calculateStorageCapacity grows with the level of the storage building,
\* and the starter balance fits the starter storage.
StorageGrows ==
  \A lv, lw \in LevelMap :
    (\A k \in Buildings : lv[k] <= lw[k]) =>
      \A r \in Resources : StorageCapacity[lv][r] <= StorageCapacity[lw][r]
InitialFits ==
  \A r \in Resources : InitialBalance[r] <= StorageCapacity[InitialLevel][r]

(* No step adds more to a balance than applyProductionTx does.             *)
LEMMA BalanceMoves ==
  ASSUME TypeInv, [Next]_vars, NEW pl \in Planets, NEW r \in Resources
  PROVE  \/ balance'[pl][r] = balance[pl][r]
         \/ /\ UNCHANGED level
            /\ \E now \in Nat : balance'[pl][r] <= BalanceAt(pl, now)[r]
<1>1. balance \in [Planets -> Amount]
  BY DEF TypeInv, TypeOK, DatabaseTypeOK
<1>2. ASSUME NEW h \in Handlers, Receive(h) \/ Handle(h) \/ Abort(h)
      PROVE  \/ balance'[pl][r] = balance[pl][r]
             \/ /\ UNCHANGED level
                /\ \E now \in Nat : balance'[pl][r] <= BalanceAt(pl, now)[r]
  <2>1. CASE Receive(h) \/ Abort(h) \/ Reject(h) \/ ScheduleQueueItem(h)
    BY <2>1 DEF Receive, Abort, Reject, ScheduleQueueItem, database
  <2>2. CASE GetOverview(h) \/ UpdateProductionFactor(h)
    <3> DEFINE q == req[h].body.planet
               now == req[h].now
    <3>1. /\ balance' = [balance EXCEPT ![q] = BalanceAt(q, now)]
          /\ UNCHANGED level /\ req[h].pc = "received"
      BY <2>2 DEF GetOverview, UpdateProductionFactor, ApplyProduction, Handling
    <3>2. now \in Nat
      BY <3>1, RequestType DEF TypeInv
    <3>3. balance'[pl] = balance[pl] \/ (pl = q /\ balance'[pl] = BalanceAt(pl, now))
      BY <1>1, <3>1
    <3>4. BalanceAt(pl, now)[r] \in Nat
      BY <3>2, BalanceType DEF Amount, TypeInv, TypeOK
    <3> QED
      BY <3>1, <3>2, <3>3, <3>4
  <2>3. CASE StartBuilding(h) \/ StartShips(h) \/ StartResearch(h)
    <3>1. PICK f \in ItemIds, order \in QueueItem :
            Places(f, order) /\ Commits(h, f, order)
      BY <2>3, StartBuildingPlaces, StartShipsPlaces, StartResearchPlaces
    <3> DEFINE q == order.planet
               now == req[h].now
               price == PriceOf(order)
    <3>2. /\ balance' = [balance EXCEPT
               ![q] = [x \in Resources |-> BalanceAt(q, now)[x] - price[x]]]
          /\ UNCHANGED level /\ req[h].pc = "received"
      BY <3>1 DEF Places, Commits, Spend
    <3>3. now \in Nat /\ price[r] \in Nat
      BY <3>1, <3>2, RequestType, PriceType DEF TypeInv, Places, Amount
    <3>4. \/ balance'[pl] = balance[pl]
          \/ balance'[pl][r] = BalanceAt(pl, now)[r] - price[r]
      BY <1>1, <3>2
    <3>5. BalanceAt(pl, now)[r] \in Nat
      BY <3>3, BalanceType DEF Amount, TypeInv, TypeOK
    <3> HIDE DEF now, price
    <3>6. CASE balance'[pl][r] = BalanceAt(pl, now)[r] - price[r]
      <4>1. balance'[pl][r] <= BalanceAt(pl, now)[r]
        BY <3>3, <3>5, <3>6
      <4> QED
        BY <3>2, <3>3, <4>1
    <3> QED
      BY <3>4, <3>6
  <2> QED
    BY <1>2, <2>1, <2>2, <2>3 DEF Handle
<1>3. CASE ~\E h \in Handlers : Receive(h) \/ Handle(h) \/ Abort(h)
  <2>1. UNCHANGED balance
    BY <1>3 DEF Next, vars, Tick, Work, FinalizeFails, Crash, Promote, Take,
                FinishBuilding, FinishResearch, FinishShips, SkipFinalize,
                CompleteJob, Settle, Stalled, database
  <2> QED
    BY <2>1
<1> QED
  BY <1>2, <1>3

(* Production stops at the capacity: what is below it stays below it.      *)
LEMMA CappedBalance ==
  ASSUME TypeInv, WithinCapacity, NEW pl \in Planets, NEW r \in Resources,
         NEW now \in Nat
  PROVE  BalanceAt(pl, now)[r] <= Capacity(pl)[r]
<1> DEFINE elapsed == now - lastCalculatedAt[pl]
           sum == balance[pl][r] + production[pl][r] * elapsed
<1>1. /\ Capacity(pl)[r] \in Nat /\ elapsed \in Int
      /\ balance[pl][r] \in Nat /\ production[pl][r] \in Nat
  BY FormulasAssumption DEF Capacity, Amount, TypeInv, TypeOK, DatabaseTypeOK
<1>2. CASE elapsed <= 0
  BY <1>2 DEF BalanceAt, WithinCapacity
<1>3. CASE ~(elapsed <= 0)
  <2>1. BalanceAt(pl, now)[r] = Lesser(sum, Capacity(pl)[r])
    BY <1>3 DEF BalanceAt
  <2>2. sum \in Int
    BY <1>1
  <2> HIDE DEF sum
  <2> QED
    BY <1>1, <2>1, <2>2 DEF Lesser
<1> QED
  BY <1>2, <1>3

(* Under the conditions of LevelsGrow a balance never exceeds the storage: *)
(* production is capped by the capacity of its moment, and no later moment *)
(* has less.                                                               *)
THEOREM BalancesFit ==
  ASSUME Reliably, StorageGrows, InitialFits
  PROVE  Spec => []WithinCapacity
<1>1. Init => WithinCapacity
  BY DEF Init, WithinCapacity, Capacity, InitialFits
<1>2. ASSUME TypeInv, TypeInv', WithinCapacity, [Next]_vars,
             \A pl \in Planets, k \in Buildings : level'[pl][k] >= level[pl][k]
      PROVE  WithinCapacity'
  <2> SUFFICES ASSUME NEW pl \in Planets, NEW r \in Resources
               PROVE  balance'[pl][r] <= StorageCapacity[level'[pl]][r]
    BY DEF WithinCapacity, Capacity
  <2>1. /\ level[pl] \in LevelMap /\ level'[pl] \in LevelMap
        /\ balance[pl][r] \in Nat /\ balance'[pl][r] \in Nat
    BY <1>2 DEF TypeInv, TypeOK, DatabaseTypeOK, Amount
  <2>2. /\ StorageCapacity[level[pl]][r] \in Nat
        /\ StorageCapacity[level'[pl]][r] \in Nat
    BY <2>1, FormulasAssumption DEF Amount
  <2>3. CASE balance'[pl][r] = balance[pl][r]
    <3>1. \A k \in Buildings : level[pl][k] <= level'[pl][k]
      BY <1>2, <2>1, BoundsAssumption DEF LevelMap, Levels
    <3>2. StorageCapacity[level[pl]][r] <= StorageCapacity[level'[pl]][r]
      BY <2>1, <3>1 DEF StorageGrows
    <3>3. balance[pl][r] <= StorageCapacity[level[pl]][r]
      BY <1>2 DEF WithinCapacity, Capacity
    <3> QED
      BY <2>1, <2>2, <2>3, <3>2, <3>3
  <2>4. ASSUME UNCHANGED level, NEW now \in Nat,
               balance'[pl][r] <= BalanceAt(pl, now)[r]
        PROVE  balance'[pl][r] <= StorageCapacity[level'[pl]][r]
    <3>1. BalanceAt(pl, now)[r] <= StorageCapacity[level[pl]][r]
      BY <1>2, CappedBalance DEF Capacity
    <3>2. BalanceAt(pl, now)[r] \in Nat
      BY <1>2, BalanceType DEF Amount, TypeInv, TypeOK
    <3> QED
      BY <2>1, <2>2, <2>4, <3>1, <3>2
  <2> QED
    BY <1>2, <2>3, <2>4, BalanceMoves
<1>3. TypeInv /\ TypeInv' /\ WithinCapacity /\ BuildingsSequential /\ BuildingInv
        /\ [Next]_vars => WithinCapacity'
  BY <1>2, LedgerStep DEF BuildingInv
<1> QED
  BY <1>1, <1>3, TypeInvariant, SequentialHolds, BuildingInvariant, PTL DEF Spec
=============================================================================
