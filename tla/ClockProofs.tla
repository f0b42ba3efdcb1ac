----------------------------- MODULE ClockProofs -----------------------------
(***************************************************************************)
(* What the agreement of the processes' clocks gives.  Jobs and orders: a  *)
(* job that BullMQ counts as a success has delivered its order, every      *)
(* order under way is carried on by a request or by its one job (which it  *)
(* has whatever the clocks show), and while nothing fails every pending    *)
(* order is under way.                                                     *)
(* Balances: however requests overlap, every step but the delivery of a    *)
(* building is one of an economy with a tick whose books are as late as a  *)
(* request may be old, and an order takes its price but for that.          *)
(***************************************************************************)
EXTENDS AstraxisProofs

ClocksAgree == \A p \in Procs : Skew[p] = 0

-----------------------------------------------------------------------------
(* The early return of finalizeQueueItem is harmless because no worker     *)
(* gets a job before its order is due: every job on its way to a worker is *)
(* for a ripe order.                                                       *)

Ripe(i) == Created(i) /\ items[i].endAt <= clock

JobsDue == \A i \in ItemIds :
  job[i] # NoJob => Created(i) /\ items[i].endAt <= job[i].due
ActiveRipe == \A i \in ItemIds : job[i].state = "active" => Ripe(i)
WaitRipe == \A k \in 1 .. Len(wait) : Ripe(wait[k])
WorkersRipe == \A p \in Procs :
  /\ worker[p].step # "free" => Ripe(worker[p].item)
  /\ worker[p].step = "finalized" => Done(worker[p].item)

JobInv == JobsDue /\ ActiveRipe /\ WaitRipe /\ WorkersRipe /\ CompletedMeansDone

(* Time does not run backwards.                                            *)
LEMMA ClockGrows ==
  ASSUME TypeInv, [Next]_vars
  PROVE  clock \in Nat /\ clock' \in Nat /\ clock <= clock'
<1>1. clock \in Nat
  BY DEF TypeInv, TypeOK
<1>2. CASE Tick
  BY <1>1, <1>2 DEF Tick
<1>3. CASE ~Tick
  <2>1. clock' = clock
    BY <1>3 DEF Next, vars, Receive, Handle, Abort, Reject, ScheduleQueueItem,
                GetOverview, UpdateProductionFactor, StartBuilding, StartShips,
                StartResearch, PlaceOrder, Work, FinalizeFails, Crash, Promote,
                Take, FinishBuilding, FinishResearch, FinishShips, SkipFinalize,
                CompleteJob, Settle, Stalled
  <2> QED
    BY <1>1, <2>1
<1> QED
  BY <1>2, <1>3

\* All that jobs need to know of a step: what it does to orders and time.
GameStep == OrderStep /\ clock' \in Nat /\ clock <= clock'

LEMMA GameStepOfNext == TypeInv /\ [Next]_vars => GameStep
BY ClockGrows, OrderStepOfNext DEF GameStep

(* What is created, ripe or done stays so, and keeps its end.              *)
LEMMA ItemsStay ==
  ASSUME TypeInv, GameStep, NEW i \in ItemIds
  PROVE  /\ Created(i) => Created(i)' /\ items'[i].endAt = items[i].endAt
         /\ Ripe(i) => Ripe(i)'
         /\ Done(i) => Done(i)'
<1>1. /\ Created(i) => Created(i)' /\ items'[i].endAt = items[i].endAt
      /\ Done(i) => Done(i)'
  <2>1. CASE TouchesNoOrder
    BY <2>1 DEF TouchesNoOrder, Created, Done
  <2>2. ASSUME NEW f \in ItemIds, NEW order \in QueueItem, Places(f, order)
        PROVE  /\ Created(i) => Created(i)' /\ items'[i].endAt = items[i].endAt
               /\ Done(i) => Done(i)'
    <3>1. items[f] = NoItem
      BY <2>2 DEF Places
    <3> QED
      BY <2>2, <3>1, PlacedItems DEF Created
  <2>3. ASSUME NEW p \in Procs, NEW c \in ItemIds, Closes(p, c)
        PROVE  /\ Created(i) => Created(i)' /\ items'[i].endAt = items[i].endAt
               /\ Done(i) => Done(i)'
    <3>1. Pending(c) /\ Finish(c)
      BY <2>3 DEF Closes, Finalizable
    <3>2. Created(i) => Created(i)'
      BY <3>1, FinishType
    <3>3. /\ Created(i) => items'[i].endAt = items[i].endAt
          /\ Done(i) => Done(i)'
      BY <3>1, ClosedItems
    <3> QED
      BY <3>2, <3>3
  <2> QED
    BY <2>1, <2>2, <2>3 DEF GameStep, OrderStep
<1>2. Ripe(i) => Ripe(i)'
  <2> SUFFICES ASSUME Ripe(i)
               PROVE  Created(i)' /\ items'[i].endAt <= clock'
    BY DEF Ripe
  <2>1. items[i].endAt \in Nat
    BY ItemExists, ItemFields DEF Ripe, Created, TypeInv, TypeOK
  <2> QED
    BY <1>1, <2>1 DEF Ripe, GameStep, TypeInv, TypeOK
<1> QED
  BY <1>1, <1>2

(* A worker that keeps its job, is freed, or gets or has processed a job   *)
(* of a ripe order keeps WorkersRipe.                                      *)
LEMMA WorkersStay ==
  ASSUME TypeInv, JobInv, GameStep,
         \A p \in Procs :
           \/ worker'[p] = worker[p]
           \/ worker'[p] = Free
           \/ \E i \in ItemIds : /\ worker'[p].item = i /\ Ripe(i)
                                 /\ worker'[p].step = "finalized" => Done(i)'
  PROVE  WorkersRipe'
<1> SUFFICES ASSUME NEW p \in Procs, worker'[p].step # "free"
             PROVE  /\ items'[worker'[p].item] # NoItem
                    /\ items'[worker'[p].item].endAt <= clock'
                    /\ worker'[p].step = "finalized" =>
                         items'[worker'[p].item].status = "DONE"
  BY DEF WorkersRipe, Ripe, Created, Done
<1>1. CASE worker'[p] = worker[p]
  <2>1. PICK j \in ItemIds : /\ worker[p].item = j /\ Ripe(j)
                             /\ worker[p].step = "finalized" => Done(j)
    BY <1>1, WorkerType DEF JobInv, WorkersRipe, TypeInv
  <2> QED
    BY <1>1, <2>1, ItemsStay DEF Ripe, Created, Done
<1>2. CASE worker'[p] = Free
  BY <1>2 DEF Free
<1>3. ASSUME NEW i \in ItemIds, worker'[p].item = i, Ripe(i),
             worker'[p].step = "finalized" => Done(i)'
      PROVE  /\ items'[worker'[p].item] # NoItem
             /\ items'[worker'[p].item].endAt <= clock'
             /\ worker'[p].step = "finalized" =>
                  items'[worker'[p].item].status = "DONE"
  BY <1>3, ItemsStay DEF Ripe, Created, Done
<1> QED
  BY <1>1, <1>2, <1>3

(* A step that leaves the queue alone keeps the invariant.                 *)
LEMMA QueueUntouched ==
  ASSUME TypeInv, JobInv, GameStep, WorkersRipe', UNCHANGED <<job, wait>>
  PROVE  JobInv'
<1>1. \A k \in 1 .. Len(wait) : wait[k] \in ItemIds
  BY DEF TypeInv, TypeOK, QueueTypeOK
<1>2. JobsDue'
  BY ItemsStay DEF JobInv, JobsDue
<1>3. ActiveRipe'
  BY ItemsStay DEF JobInv, ActiveRipe
<1>4. WaitRipe'
  BY <1>1, ItemsStay DEF JobInv, WaitRipe
<1>5. CompletedMeansDone'
  BY ItemsStay DEF JobInv, CompletedMeansDone
<1> QED
  BY <1>2, <1>3, <1>4, <1>5 DEF JobInv

(* A step that changes the record of one job, which is for a ripe order if *)
(* it becomes active and for a done one if it completes, and that adds     *)
(* only a ripe order to the list, keeps the invariant.                     *)
LEMMA QueueMoves ==
  ASSUME TypeInv, JobInv, GameStep, WorkersRipe',
         NEW i \in ItemIds, NEW record,
         job' = [job EXCEPT ![i] = record],
         Created(i) /\ items[i].endAt <= record.due,
         record.state = "active" => Ripe(i),
         record.state = "completed" => Done(i),
         \A k \in 1 .. Len(wait') :
           \/ Ripe(i) /\ wait'[k] = i
           \/ \E l \in 1 .. Len(wait) : wait'[k] = wait[l]
  PROVE  JobInv'
<1>1. job \in [ItemIds -> Job \cup {NoJob}]
  BY DEF TypeInv, TypeOK, QueueTypeOK
<1>2. \A j \in ItemIds : job'[j] = IF j = i THEN record ELSE job[j]
  BY <1>1
<1>3. \A l \in 1 .. Len(wait) : wait[l] \in ItemIds
  BY DEF TypeInv, TypeOK, QueueTypeOK
<1>4. JobsDue'
  BY <1>2, ItemsStay DEF JobInv, JobsDue
<1>5. ActiveRipe'
  BY <1>2, ItemsStay DEF JobInv, ActiveRipe
<1>6. WaitRipe'
  <2> SUFFICES ASSUME NEW k \in 1 .. Len(wait')
               PROVE  /\ items'[wait'[k]] # NoItem
                      /\ items'[wait'[k]].endAt <= clock'
    BY DEF WaitRipe, Ripe, Created
  <2>1. PICK j \in ItemIds : wait'[k] = j /\ Ripe(j)
    BY <1>3 DEF JobInv, WaitRipe
  <2> QED
    BY <2>1, ItemsStay DEF Ripe, Created
<1>7. CompletedMeansDone'
  BY <1>2, ItemsStay DEF JobInv, CompletedMeansDone
<1> QED
  BY <1>4, <1>5, <1>6, <1>7 DEF JobInv

(* The job a request adds is due when its order ends or at once, and is    *)
(* put on the list only when the order has ended by the clock.             *)
LEMMA ScheduleKeepsJobs ==
  ASSUME ClocksAgree, TypeInv, JobInv,
         NEW h \in Handlers, ScheduleQueueItem(h)
  PROVE  JobInv'
<1> DEFINE i == req[h].item
           now == Now(Host[h])
           delay == DelayOf(i, now)
           record == [state |-> IF delay > 0 THEN "delayed" ELSE "waiting",
                      due |-> now + delay, stalls |-> 0]
<1>1. req[h].pc = "committed" /\ i \in ItemIds /\ Created(i)
  BY RequestType DEF ScheduleQueueItem, TypeInv, CommittedHasItem
<1>2. clock \in Nat /\ now = clock
  BY ProcessesAssumption DEF ClocksAgree, Now, TypeInv, TypeOK
<1>3. items[i].endAt \in Nat
  BY <1>1, ItemExists, ItemFields DEF Created, TypeInv, TypeOK
<1>4. /\ delay \in Nat /\ items[i].endAt <= now + delay
      /\ ~(delay > 0) => Ripe(i)
  BY <1>1, <1>2, <1>3 DEF DelayOf, Greater, Ripe
<1>5. /\ job' = [job EXCEPT ![i] = record]
      /\ wait' = IF delay > 0 THEN wait ELSE Append(wait, i)
      /\ UNCHANGED <<items, worker>>
  BY DEF ScheduleQueueItem, database
<1>6. /\ items[i].endAt <= record.due
      /\ record.state # "active" /\ record.state # "completed"
  BY <1>4
<1>7. wait \in Seq(ItemIds)
  BY DEF TypeInv, TypeOK, QueueTypeOK
<1>8. GameStep
  BY GameStepOfNext DEF Next, Handle
<1>9. WorkersRipe'
  BY <1>5, <1>8, WorkersStay
<1> HIDE DEF record, i, now, delay
<1>10. \A k \in 1 .. Len(wait') :
         \/ Ripe(i) /\ wait'[k] = i
         \/ \E l \in 1 .. Len(wait) : wait'[k] = wait[l]
  BY <1>1, <1>4, <1>5, <1>7
<1> QED
  BY <1>1, <1>5, <1>6, <1>8, <1>9, <1>10, QueueMoves

(* A job is moved to the list when it is due, and so is its order.         *)
LEMMA PromoteKeepsJobs ==
  ASSUME ClocksAgree, TypeInv, JobInv, NEW p \in Procs, Promote(p)
  PROVE  JobInv'
<1>1. PICK i \in ItemIds : /\ job[i].state = "delayed" /\ job[i].due <= Now(p)
                           /\ job' = [job EXCEPT ![i] = Settled(i, "waiting")]
                           /\ wait' = Append(wait, i)
  BY DEF Promote
<1>2. clock \in Nat /\ Now(p) = clock
  BY ProcessesAssumption DEF ClocksAgree, Now, TypeInv, TypeOK
<1>3. job[i] \in Job /\ job[i].due \in Nat /\ job[i] # NoJob
  BY <1>1, JobExists, JobFields DEF NoJob, TypeInv, TypeOK
<1>4. Created(i) /\ items[i].endAt <= job[i].due
  BY <1>3 DEF JobInv, JobsDue
<1>5. items[i].endAt \in Nat
  BY <1>4, ItemExists, ItemFields DEF Created, TypeInv, TypeOK
<1>6. Ripe(i)
  BY <1>1, <1>2, <1>3, <1>4, <1>5 DEF Ripe
<1>7. /\ Settled(i, "waiting").due = job[i].due
      /\ Settled(i, "waiting").state = "waiting"
  BY DEF Settled
<1>8. wait \in Seq(ItemIds) /\ UNCHANGED <<items, worker>>
  BY DEF Promote, database, TypeInv, TypeOK, QueueTypeOK
<1>9. \A k \in 1 .. Len(wait') :
        \/ Ripe(i) /\ wait'[k] = i
        \/ \E l \in 1 .. Len(wait) : wait'[k] = wait[l]
  BY <1>1, <1>6, <1>8
<1>10. GameStep
  BY GameStepOfNext DEF Next, Work
<1>11. WorkersRipe'
  BY <1>8, <1>10, WorkersStay
<1> QED
  BY <1>1, <1>4, <1>7, <1>8, <1>9, <1>10, <1>11, QueueMoves

(* A stalled job was active, so its order is ripe.                         *)
LEMMA StalledKeepsJobs ==
  ASSUME TypeInv, JobInv, NEW i \in ItemIds, Stalled(i)
  PROVE  JobInv'
<1> DEFINE again == [state |-> "waiting", due |-> job[i].due, stalls |-> 1]
<1>1. job[i].state = "active" /\ UNCHANGED <<items, worker>>
  BY DEF Stalled, database
<1>2. job[i] \in Job /\ job[i] # NoJob
  BY <1>1, JobExists DEF NoJob, TypeInv, TypeOK
<1>3. Ripe(i) /\ Created(i) /\ items[i].endAt <= job[i].due
  BY <1>1, <1>2 DEF JobInv, JobsDue, ActiveRipe
<1>4. wait \in Seq(ItemIds)
  BY DEF TypeInv, TypeOK, QueueTypeOK
<1>5. GameStep /\ WorkersRipe'
  <2>1. GameStep
    BY GameStepOfNext DEF Next
  <2> QED
    BY <1>1, <2>1, WorkersStay
<1>6. CASE job[i].stalls = 0
  <2>1. job' = [job EXCEPT ![i] = again] /\ wait' = <<i>> \o wait
    BY <1>6 DEF Stalled
  <2>2. again.due = job[i].due /\ again.state = "waiting"
    OBVIOUS
  <2>3. \A k \in 1 .. Len(wait') :
          wait'[k] = i \/ \E l \in 1 .. Len(wait) : wait'[k] = wait[l]
    BY <1>4, <2>1, PrependFacts
  <2> HIDE DEF again
  <2> QED
    BY <1>1, <1>3, <1>5, <2>1, <2>2, <2>3, QueueMoves
<1>7. CASE job[i].stalls # 0
  <2>1. job' = [job EXCEPT ![i] = Settled(i, "failed")] /\ wait' = wait
    BY <1>7 DEF Stalled
  <2>2. /\ Settled(i, "failed").due = job[i].due
        /\ Settled(i, "failed").state = "failed"
    BY DEF Settled
  <2> QED
    BY <1>1, <1>3, <1>5, <2>1, <2>2, QueueMoves
<1> QED
  BY <1>6, <1>7

(* A worker takes the job of a ripe order.                                 *)
LEMMA TakeKeepsJobs ==
  ASSUME TypeInv, JobInv, NEW p \in Procs, Take(p)
  PROVE  JobInv'
<1> DEFINE i == Head(wait)
           record == [state |-> "active", due |-> job[i].due,
                      stalls |-> job[i].stalls, owner |-> p]
<1>1. wait \in Seq(ItemIds) /\ wait # <<>> /\ WaitHasJob
  BY DEF Take, TypeInv, TypeOK, QueueTypeOK
<1>2. i \in ItemIds /\ i = wait[1] /\ 1 \in 1 .. Len(wait)
  BY <1>1
<1>3. Ripe(i) /\ job[i] # NoJob
  BY <1>1, <1>2 DEF JobInv, WaitRipe, WaitHasJob
<1>4. Created(i) /\ items[i].endAt <= job[i].due
  BY <1>2, <1>3 DEF JobInv, JobsDue
<1>5. /\ job' = [job EXCEPT ![i] = record]
      /\ worker' = [worker EXCEPT ![p] = [step |-> "processing", item |-> i]]
      /\ wait' = Tail(wait) /\ UNCHANGED items
  BY DEF Take, database
<1>6. record.due = job[i].due /\ record.state = "active"
  OBVIOUS
<1>7. \A k \in 1 .. Len(Tail(wait)) :
        Tail(wait)[k] = wait[k + 1] /\ k + 1 \in 1 .. Len(wait)
  BY <1>1
<1>8. GameStep
  BY GameStepOfNext DEF Next, Work
<1>9. WorkersRipe'
  <2>1. \A q \in Procs : \/ worker'[q] = worker[q]
                         \/ worker'[q] = [step |-> "processing", item |-> i]
    BY <1>5 DEF TypeInv, TypeOK, QueueTypeOK
  <2> HIDE DEF i
  <2> QED
    BY <1>2, <1>3, <1>8, <2>1, WorkersStay
<1> HIDE DEF record, i
<1>10. \A k \in 1 .. Len(wait') : \E l \in 1 .. Len(wait) : wait'[k] = wait[l]
  BY <1>5, <1>7
<1> QED
  BY <1>2, <1>3, <1>4, <1>5, <1>6, <1>8, <1>9, <1>10, QueueMoves

(* A worker that still holds the lock reports success for a done order.    *)
LEMMA SettleKeepsJobs ==
  ASSUME TypeInv, JobInv, GameStep, NEW p \in Procs,
         worker[p].step # "free",
         NEW state \in {"completed", "failed"}, Settle(p, state),
         state = "completed" => worker[p].step = "finalized"
  PROVE  JobInv'
<1> DEFINE i == worker[p].item
<1>1. i \in ItemIds /\ Ripe(i) /\ (state = "completed" => Done(i))
  BY WorkerType DEF JobInv, WorkersRipe, TypeInv
<1>2. /\ UNCHANGED <<items, wait>>
      /\ worker' = [worker EXCEPT ![p] = Free]
  BY DEF Settle, database
<1>3. /\ job \in [ItemIds -> Job \cup {NoJob}]
      /\ worker \in [Procs -> Busy \cup {Free}]
  BY DEF TypeInv, TypeOK, QueueTypeOK
<1>4. WorkersRipe'
  <2>1. \A q \in Procs : worker'[q] = worker[q] \/ worker'[q] = Free
    BY <1>2, <1>3
  <2> QED
    BY <2>1, WorkersStay
<1>5. CASE HoldsLock(p, i)
  <2>1. job[i] # NoJob
    BY <1>5 DEF HoldsLock, NoJob
  <2>2. Created(i) /\ items[i].endAt <= job[i].due
    BY <1>1, <2>1 DEF JobInv, JobsDue
  <2>3. job' = [job EXCEPT ![i] = Settled(i, state)]
    BY <1>5 DEF Settle
  <2>4. Settled(i, state).due = job[i].due /\ Settled(i, state).state = state
    BY DEF Settled
  <2> QED
    BY <1>1, <1>2, <1>4, <2>2, <2>3, <2>4, QueueMoves
<1>6. CASE ~HoldsLock(p, i)
  <2>1. job' = job
    BY <1>6 DEF Settle
  <2> QED
    BY <1>2, <1>4, <2>1, QueueUntouched
<1> QED
  BY <1>5, <1>6

(* The worker's transaction is over: the order of its job is done, either  *)
(* by this transaction or, if that returned early, before it.              *)
LEMMA ProcessedKeepsJobs ==
  ASSUME TypeInv, JobInv, GameStep, NEW p \in Procs,
         worker[p].step = "processing", Processed(p), UNCHANGED <<job, wait>>,
         items'[worker[p].item].status = "DONE"
  PROVE  JobInv'
<1>1. worker[p] \in Busy /\ worker[p].item \in ItemIds /\ Ripe(worker[p].item)
  BY WorkerType DEF JobInv, WorkersRipe, TypeInv
<1>2. [worker[p] EXCEPT !.step = "finalized"].item = worker[p].item
  BY <1>1 DEF Busy
<1>3. \A q \in Procs : \/ worker'[q] = worker[q]
                       \/ q = p /\ worker'[q].item = worker[p].item
  BY <1>2 DEF Processed, TypeInv, TypeOK, QueueTypeOK
<1>4. WorkersRipe'
  <2> DEFINE i == worker[p].item
  <2>1. \A q \in Procs : \/ worker'[q] = worker[q]
                         \/ worker'[q].item = i /\ Ripe(i) /\ items'[i].status = "DONE"
    BY <1>1, <1>3 DEF Done
  <2>2. i \in ItemIds
    BY <1>1
  <2> HIDE DEF i
  <2> QED
    BY <2>1, <2>2, WorkersStay DEF Done
<1> QED
  BY <1>4, QueueUntouched

(* A worker finalizes a ripe order: whatever it does, the order is done.   *)
LEMMA FinalizeKeepsJobs ==
  ASSUME ClocksAgree, TypeInv, JobInv, NEW p \in Procs,
         \/ FinishBuilding(p) \/ FinishResearch(p) \/ FinishShips(p)
         \/ SkipFinalize(p)
  PROVE  JobInv'
<1> DEFINE i == worker[p].item
<1>1. /\ worker[p].step = "processing" /\ Processed(p) /\ UNCHANGED <<job, wait>>
      /\ [Next]_vars
  BY DEF FinishBuilding, FinishResearch, FinishShips, SkipFinalize, redis, Next, Work
<1> GameStep
  BY <1>1, GameStepOfNext
<1>2. i \in ItemIds /\ Ripe(i)
  BY <1>1, WorkerType DEF JobInv, WorkersRipe, TypeInv
<1>3. items'[i].status = "DONE"
  <2>1. CASE FinishBuilding(p) \/ FinishResearch(p) \/ FinishShips(p)
    <3>1. Pending(i) /\ Finish(i)
      BY <2>1 DEF FinishBuilding, FinishResearch, FinishShips, Finalizable
    <3>2. \A j \in ItemIds : items'[j].status = "DONE" <=> Done(j) \/ j = i
      <4> HIDE DEF i
      <4> QED
        BY <1>2, <3>1, ClosedItems DEF Done
    <3> QED
      BY <1>2, <3>2
  <2>2. CASE SkipFinalize(p)
    <3>1. ~Finalizable(p, i) /\ items' = items
      BY <2>2 DEF SkipFinalize, database
    <3>2. Now(p) = clock
      BY DEF ClocksAgree, Now, TypeInv, TypeOK
    <3>3. items[i] \in QueueItem
      BY <1>2, ItemExists DEF Ripe, Created, TypeInv, TypeOK
    <3>4. items[i].status \in {"PENDING", "DONE"}
      BY <3>3, ItemFields
    <3> QED
      BY <1>2, <3>1, <3>2, <3>4 DEF Finalizable, Ripe, Pending
  <2> QED
    BY <2>1, <2>2
<1> QED
  BY <1>1, <1>3, ProcessedKeepsJobs DEF Done

(* Every step keeps the invariant.                                         *)
LEMMA JobStep ==
  ASSUME ClocksAgree, TypeInv, JobInv, [Next]_vars
  PROVE  JobInv'
<1> GameStep
  BY GameStepOfNext
<1>1. CASE UNCHANGED <<job, wait, worker>>
  BY <1>1, WorkersStay, QueueUntouched
<1>2. ASSUME NEW h \in Handlers, Receive(h) \/ Handle(h) \/ Abort(h)
      PROVE  UNCHANGED <<job, wait, worker>> \/ JobInv'
  <2>1. CASE ScheduleQueueItem(h)
    BY <2>1, ScheduleKeepsJobs
  <2>2. CASE ~ScheduleQueueItem(h)
    BY <1>2, <2>2 DEF Receive, Handle, Abort, Reject, GetOverview,
                      UpdateProductionFactor, StartBuilding, StartShips,
                      StartResearch, PlaceOrder, redis
  <2> QED
    BY <2>1, <2>2
<1>3. ASSUME NEW p \in Procs, Work(p) \/ FinalizeFails(p)
      PROVE  JobInv'
  <2>1. CASE Promote(p)
    BY <2>1, PromoteKeepsJobs
  <2>2. CASE Take(p)
    BY <2>2, TakeKeepsJobs
  <2>3. CASE FinishBuilding(p) \/ FinishResearch(p) \/ FinishShips(p) \/ SkipFinalize(p)
    BY <2>3, FinalizeKeepsJobs
  <2>4. CASE CompleteJob(p)
    BY <2>4, SettleKeepsJobs DEF CompleteJob
  <2>5. CASE FinalizeFails(p)
    BY <2>5, SettleKeepsJobs DEF FinalizeFails
  <2> QED
    BY <1>3, <2>1, <2>2, <2>3, <2>4, <2>5 DEF Work
<1>4. ASSUME NEW p \in Procs, Crash(p)
      PROVE  JobInv'
  <2>1. UNCHANGED <<job, wait>> /\ worker' = [worker EXCEPT ![p] = Free]
    BY <1>4 DEF Crash, redis
  <2>2. \A q \in Procs : worker'[q] = worker[q] \/ worker'[q] = Free
    BY <2>1 DEF TypeInv, TypeOK, QueueTypeOK
  <2>3. WorkersRipe'
    BY <2>2, WorkersStay
  <2> QED
    BY <2>1, <2>3, QueueUntouched
<1>5. ASSUME NEW i \in ItemIds, Stalled(i)
      PROVE  JobInv'
  BY <1>5, StalledKeepsJobs
<1>6. CASE Tick \/ UNCHANGED vars
  BY <1>1, <1>6 DEF Tick, vars, redis
<1> QED
  BY <1>1, <1>2, <1>3, <1>4, <1>5, <1>6 DEF Next

(* They hold at the start, and in the backend of single-step transactions. *)
LEMMA JobsAtFirst == Init => JobInv
BY DEF Init, NoJob, Free, JobInv, JobsDue, ActiveRipe, WaitRipe, WorkersRipe,
       CompletedMeansDone

LEMMA JobInvariant ==
  ASSUME ClocksAgree
  PROVE  Spec => []JobInv
<1>1. TypeInv /\ JobInv /\ [Next]_vars => JobInv'
  BY JobStep
<1> QED
  BY <1>1, JobsAtFirst, TypeInvariant, PTL DEF Spec

-----------------------------------------------------------------------------
(* An order has one job, whatever fails and whatever the clocks show.      *)

Has(s, x) == \E k \in 1 .. Len(s) : s[k] = x
Once(s) == \A k, l \in 1 .. Len(s) : s[k] = s[l] => k = l

(* A sequence gets a new last element.                                     *)
LEMMA AppendedOnce ==
  ASSUME NEW S, NEW s \in Seq(S), NEW e \in S, Once(s), ~Has(s, e)
  PROVE  /\ Once(Append(s, e))
         /\ \A x : Has(Append(s, e), x) <=> Has(s, x) \/ x = e
<1> DEFINE t == Append(s, e)
<1>1. /\ Len(s) \in Nat /\ Len(t) = Len(s) + 1 /\ t[Len(s) + 1] = e
      /\ \A k \in 1 .. Len(s) : t[k] = s[k]
  OBVIOUS
<1> HIDE DEF t
<1>2. \A k \in 1 .. Len(t) : k \in 1 .. Len(s) \/ k = Len(s) + 1
  BY <1>1
<1>3. Once(t)
  BY <1>1, <1>2 DEF Once, Has
<1>4. \A x : Has(t, x) <=> Has(s, x) \/ x = e
  <2>1. /\ Len(s) + 1 \in 1 .. Len(t)
        /\ \A k \in 1 .. Len(s) : k \in 1 .. Len(t)
    BY <1>1
  <2> QED
    BY <1>1, <1>2, <2>1 DEF Has
<1> QED
  BY <1>3, <1>4 DEF t

(* A sequence gets a new first element.                                    *)
LEMMA PrependedOnce ==
  ASSUME NEW S, NEW s \in Seq(S), NEW e \in S, Once(s), ~Has(s, e)
  PROVE  /\ Once(<<e>> \o s)
         /\ \A x : Has(<<e>> \o s, x) <=> Has(s, x) \/ x = e
<1> DEFINE t == <<e>> \o s
<1>1. /\ Len(s) \in Nat /\ Len(t) = Len(s) + 1 /\ t[1] = e
      /\ \A k \in 1 .. Len(t) : k = 1 \/ (k - 1 \in 1 .. Len(s) /\ t[k] = s[k - 1])
  <2>1. <<e>> \in Seq(S) /\ Len(<<e>>) = 1 /\ <<e>>[1] = e /\ Len(s) \in Nat
    OBVIOUS
  <2>2. Len(t) = 1 + Len(s) /\ t[1] = e
    BY <2>1
  <2>3. ASSUME NEW k \in 1 .. Len(t), k # 1
        PROVE  k - 1 \in 1 .. Len(s) /\ t[k] = s[k - 1]
    BY <2>1, <2>2, <2>3
  <2> QED
    BY <2>1, <2>2, <2>3
<1> HIDE DEF t
<1>2. ASSUME NEW l \in 1 .. Len(s)
      PROVE  l + 1 \in 1 .. Len(t) /\ l + 1 # 1 /\ (l + 1) - 1 = l /\ t[l + 1] = s[l]
  <2>1. l + 1 \in 1 .. Len(t) /\ l + 1 # 1 /\ (l + 1) - 1 = l
    BY <1>1
  <2>2. t[l + 1] = s[(l + 1) - 1]
    BY <1>1, <2>1
  <2> QED
    BY <2>1, <2>2
<1>3. Once(t)
  <2> SUFFICES ASSUME NEW k \in 1 .. Len(t), NEW l \in 1 .. Len(t), t[k] = t[l]
               PROVE  k = l
    BY DEF Once
  <2>1. CASE k # 1 /\ l # 1
    <3>1. k - 1 = l - 1
      BY <1>1, <2>1 DEF Once
    <3> QED
      BY <1>1, <3>1
  <2>2. CASE k = 1 \/ l = 1
    BY <1>1, <2>2 DEF Has
  <2> QED
    BY <2>1, <2>2
<1>4. \A x : Has(t, x) <=> Has(s, x) \/ x = e
  <2>1. 1 \in 1 .. Len(t)
    BY <1>1
  <2> QED
    BY <1>1, <1>2, <2>1 DEF Has
<1> QED
  BY <1>3, <1>4 DEF t

(* A sequence loses its first element.                                     *)
LEMMA TailOnce ==
  ASSUME NEW S, NEW s \in Seq(S), s # <<>>, Once(s)
  PROVE  /\ Once(Tail(s))
         /\ \A x : Has(Tail(s), x) <=> Has(s, x) /\ x # Head(s)
<1> DEFINE t == Tail(s)
<1>1. /\ Len(s) \in Nat /\ 1 \in 1 .. Len(s) /\ Head(s) = s[1]
      /\ Len(t) = Len(s) - 1
      /\ \A k \in 1 .. Len(t) : t[k] = s[k + 1]
  OBVIOUS
<1> HIDE DEF t
<1>2. \A k \in 1 .. Len(t) : k + 1 \in 1 .. Len(s) /\ k + 1 # 1
  BY <1>1
<1>3. \A k \in 1 .. Len(s) : k # 1 => k - 1 \in 1 .. Len(t) /\ (k - 1) + 1 = k
  BY <1>1
<1>4. Once(t)
  <2> SUFFICES ASSUME NEW k \in 1 .. Len(t), NEW l \in 1 .. Len(t), t[k] = t[l]
               PROVE  k = l
    BY DEF Once
  <2>1. k + 1 = l + 1
    BY <1>1, <1>2 DEF Once
  <2> QED
    BY <1>1, <2>1
<1>5. ASSUME NEW x
      PROVE  Has(t, x) <=> Has(s, x) /\ x # Head(s)
  <2>1. ASSUME Has(t, x) PROVE Has(s, x) /\ x # Head(s)
    <3>1. PICK k \in 1 .. Len(t) : t[k] = x
      BY <2>1 DEF Has
    <3>2. s[k + 1] = x /\ k + 1 \in 1 .. Len(s) /\ k + 1 # 1
      BY <1>1, <1>2, <3>1
    <3> QED
      BY <1>1, <3>2 DEF Has, Once
  <2>2. ASSUME Has(s, x), x # Head(s) PROVE Has(t, x)
    <3>1. PICK k \in 1 .. Len(s) : s[k] = x
      BY <2>2 DEF Has
    <3>2. k - 1 \in 1 .. Len(t) /\ (k - 1) + 1 = k
      BY <1>1, <1>3, <2>2, <3>1
    <3>3. t[k - 1] = x
      BY <1>1, <3>1, <3>2
    <3> QED
      BY <3>2, <3>3 DEF Has
  <2> QED
    BY <2>1, <2>2
<1> QED
  BY <1>4, <1>5 DEF t

(* The inductive invariant: a job is there for an order.                   *)
JobHasItem == \A i \in ItemIds : job[i] # NoJob => Created(i)
OneJobInv == OneJobPerOrder /\ JobHasItem

(* The list and the jobs in two words.                                     *)
LEMMA OneJobParts ==
  OneJobPerOrder <=>
    /\ \A i \in ItemIds, h \in Handlers : Scheduling(h, i) =>
         job[i] = NoJob /\ \A g \in Handlers : Scheduling(g, i) => g = h
    /\ \A i \in ItemIds : job[i].state = "waiting" <=> Has(wait, i)
    /\ Once(wait)
BY DEF OneJobPerOrder, Has, Once

(* A step that moves no job keeps the invariant if no request commits.     *)
LEMMA NoJobMoves ==
  ASSUME TypeInv, OneJobInv, GameStep, UNCHANGED <<job, wait>>,
         \A h \in Handlers, i \in ItemIds : Scheduling(h, i)' => Scheduling(h, i)
  PROVE  OneJobInv'
<1>1. JobHasItem'
  BY ItemsStay DEF OneJobInv, JobHasItem
<1>2. OneJobPerOrder'
  BY DEF OneJobInv, OneJobPerOrder
<1> QED
  BY <1>1, <1>2 DEF OneJobInv

(* A request that commits is the first to have its item, which has no job. *)
LEMMA CommitKeepsOneJob ==
  ASSUME TypeInv, OneJobInv, GameStep, NEW h \in Handlers, NEW f \in ItemIds,
         items[f] = NoItem, UNCHANGED <<job, wait>>,
         req' = [req EXCEPT ![h] = [pc |-> "committed", now |-> req[h].now,
                                    item |-> f]]
  PROVE  OneJobInv'
<1>1. ~Created(f) /\ req \in [Handlers -> InFlight \cup {Idle}]
  BY DEF Created, TypeInv, TypeOK, QueueTypeOK
<1>2. job[f] = NoJob /\ \A g \in Handlers : ~Scheduling(g, f)
  BY <1>1 DEF OneJobInv, JobHasItem, Scheduling, TypeInv, CommittedHasItem
<1>3. \A g \in Handlers, i \in ItemIds :
        Scheduling(g, i)' => (g = h /\ i = f) \/ (g # h /\ Scheduling(g, i))
  BY <1>1 DEF Scheduling
<1>4. JobHasItem'
  BY <1>1, ItemsStay DEF OneJobInv, JobHasItem
<1>5. OneJobPerOrder'
  BY <1>1, <1>2, <1>3 DEF OneJobInv, OneJobPerOrder
<1> QED
  BY <1>4, <1>5 DEF OneJobInv

(* A step that gives one job a new record keeps the invariant if nobody is *)
(* about to add that job and the list follows the record.                  *)
LEMMA OneJobMoves ==
  ASSUME TypeInv, OneJobInv, GameStep, NEW i \in ItemIds, NEW record,
         job' = [job EXCEPT ![i] = record], Created(i),
         \A h \in Handlers : ~Scheduling(h, i)',
         \A h \in Handlers, j \in ItemIds : Scheduling(h, j)' => Scheduling(h, j),
         Once(wait'),
         \A j \in ItemIds :
           Has(wait', j) <=> IF j = i THEN record.state = "waiting" ELSE Has(wait, j)
  PROVE  OneJobInv'
<1>1. \A j \in ItemIds : job'[j] = IF j = i THEN record ELSE job[j]
  BY DEF TypeInv, TypeOK, QueueTypeOK
<1>2. JobHasItem'
  BY <1>1, ItemsStay DEF OneJobInv, JobHasItem
<1>3. ASSUME NEW j \in ItemIds, NEW h \in Handlers, Scheduling(h, j)'
      PROVE  job'[j] = NoJob /\ \A g \in Handlers : Scheduling(g, j)' => g = h
  BY <1>1, <1>3, OneJobParts DEF OneJobInv
<1>4. \A j \in ItemIds : job'[j].state = "waiting" <=> Has(wait', j)
  BY <1>1, OneJobParts DEF OneJobInv
<1>5. OneJobPerOrder'
  BY <1>3, <1>4 DEF OneJobPerOrder, Has, Once
<1> QED
  BY <1>2, <1>5 DEF OneJobInv

(* The job a request adds is the first of its order, and the request is    *)
(* over.                                                                   *)
LEMMA ScheduleKeepsOneJob ==
  ASSUME TypeInv, OneJobInv, NEW h \in Handlers, ScheduleQueueItem(h)
  PROVE  OneJobInv'
<1> DEFINE i == req[h].item
           delay == DelayOf(i, Now(Host[h]))
           record == [state |-> IF delay > 0 THEN "delayed" ELSE "waiting",
                      due |-> Now(Host[h]) + delay, stalls |-> 0]
<1>1. /\ job' = [job EXCEPT ![i] = record]
      /\ wait' = IF delay > 0 THEN wait ELSE Append(wait, i)
      /\ req' = [req EXCEPT ![h] = Idle] /\ Scheduling(h, i)
      /\ req \in [Handlers -> InFlight \cup {Idle}]
      /\ wait \in Seq(ItemIds)
  BY DEF ScheduleQueueItem, Reply, Scheduling, TypeInv, TypeOK, QueueTypeOK
<1>2. i \in ItemIds /\ Created(i)
  BY <1>1, RequestType DEF Scheduling, TypeInv, CommittedHasItem
<1>3. /\ job[i] = NoJob /\ ~Has(wait, i) /\ Once(wait)
      /\ \A g \in Handlers : Scheduling(g, i) => g = h
  <2>1. job[i] = NoJob /\ \A g \in Handlers : Scheduling(g, i) => g = h
    BY <1>1, <1>2, OneJobParts DEF OneJobInv
  <2>2. job[i].state # "waiting"
    BY <2>1 DEF NoJob
  <2> QED
    BY <1>2, <2>1, <2>2, OneJobParts DEF OneJobInv
<1>4. \A g \in Handlers, j \in ItemIds :
        Scheduling(g, j)' => g # h /\ Scheduling(g, j)
  BY <1>1 DEF Scheduling, Idle
<1>5. record.state = "waiting" <=> ~(delay > 0)
  OBVIOUS
<1> HIDE DEF record, i, delay
<1>6. /\ Once(wait')
      /\ \A j \in ItemIds :
           Has(wait', j) <=> IF j = i THEN record.state = "waiting" ELSE Has(wait, j)
  <2>1. CASE delay > 0
    BY <1>1, <1>3, <1>5, <2>1
  <2>2. CASE ~(delay > 0)
    <3>1. wait' = Append(wait, i)
      BY <1>1, <2>2
    <3>2. /\ Once(Append(wait, i))
          /\ \A x : Has(Append(wait, i), x) <=> Has(wait, x) \/ x = i
      BY <1>1, <1>2, <1>3, AppendedOnce
    <3> QED
      BY <1>5, <2>2, <3>1, <3>2
  <2> QED
    BY <2>1, <2>2
<1>7. GameStep
  BY GameStepOfNext DEF Next, Handle
<1> QED
  BY <1>1, <1>2, <1>3, <1>4, <1>6, <1>7, OneJobMoves

(* A delayed job is not on the list, and has its place there once it is    *)
(* due.                                                                    *)
LEMMA PromoteKeepsOneJob ==
  ASSUME TypeInv, OneJobInv, NEW p \in Procs, Promote(p)
  PROVE  OneJobInv'
<1>1. PICK i \in ItemIds : /\ job[i].state = "delayed"
                           /\ job' = [job EXCEPT ![i] = Settled(i, "waiting")]
                           /\ wait' = Append(wait, i)
  BY DEF Promote
<1>2. UNCHANGED req /\ wait \in Seq(ItemIds) /\ Settled(i, "waiting").state = "waiting"
  BY DEF Promote, Settled, TypeInv, TypeOK, QueueTypeOK
<1>3. Created(i) /\ ~Has(wait, i) /\ Once(wait) /\ \A h \in Handlers : ~Scheduling(h, i)
  <2>1. job[i] # NoJob
    BY <1>1 DEF NoJob
  <2> QED
    BY <1>1, <2>1, OneJobParts DEF OneJobInv, JobHasItem
<1>4. /\ Once(wait')
      /\ \A x : Has(wait', x) <=> Has(wait, x) \/ x = i
  BY <1>1, <1>2, <1>3, AppendedOnce
<1>5. GameStep
  BY GameStepOfNext DEF Next, Work
<1> QED
  BY <1>1, <1>2, <1>3, <1>4, <1>5, OneJobMoves DEF Scheduling

(* The job a worker takes leaves the list, where it stood once.            *)
LEMMA TakeKeepsOneJob ==
  ASSUME TypeInv, OneJobInv, NEW p \in Procs, Take(p)
  PROVE  OneJobInv'
<1> DEFINE i == Head(wait)
           record == [state |-> "active", due |-> job[i].due,
                      stalls |-> job[i].stalls, owner |-> p]
<1>1. /\ job' = [job EXCEPT ![i] = record]
      /\ wait' = Tail(wait) /\ wait # <<>> /\ UNCHANGED req
      /\ wait \in Seq(ItemIds)
  BY DEF Take, TypeInv, TypeOK, QueueTypeOK
<1>2. i \in ItemIds /\ i = wait[1] /\ 1 \in 1 .. Len(wait)
  BY <1>1
<1>3. /\ job[i] # NoJob /\ Created(i) /\ Once(wait)
      /\ \A h \in Handlers : ~Scheduling(h, i)
  <2>1. job[i] # NoJob
    BY <1>2 DEF TypeInv, WaitHasJob
  <2> HIDE DEF i
  <2> QED
    BY <1>2, <2>1, OneJobParts DEF OneJobInv, JobHasItem
<1>4. /\ Once(wait')
      /\ \A x : Has(wait', x) <=> Has(wait, x) /\ x # i
  BY <1>1, <1>3, TailOnce
<1>5. record.state # "waiting"
  OBVIOUS
<1>6. GameStep
  BY GameStepOfNext DEF Next, Work
<1> HIDE DEF record, i
<1> QED
  BY <1>1, <1>2, <1>3, <1>4, <1>5, <1>6, OneJobMoves DEF Scheduling

(* A stalled job was at work, so it is not on the list when it is put back *)
(* there.                                                                  *)
LEMMA StalledKeepsOneJob ==
  ASSUME TypeInv, OneJobInv, NEW i \in ItemIds, Stalled(i)
  PROVE  OneJobInv'
<1> DEFINE again == [state |-> "waiting", due |-> job[i].due, stalls |-> 1]
<1>1. job[i].state = "active" /\ UNCHANGED req /\ wait \in Seq(ItemIds)
  BY DEF Stalled, TypeInv, TypeOK, QueueTypeOK
<1>2. Created(i) /\ ~Has(wait, i) /\ Once(wait) /\ \A h \in Handlers : ~Scheduling(h, i)
  <2>1. job[i] # NoJob
    BY <1>1 DEF NoJob
  <2> QED
    BY <1>1, <2>1, OneJobParts DEF OneJobInv, JobHasItem
<1>3. GameStep
  BY GameStepOfNext DEF Next
<1>4. CASE job[i].stalls = 0
  <2>1. job' = [job EXCEPT ![i] = again] /\ wait' = <<i>> \o wait
    BY <1>4 DEF Stalled
  <2>2. /\ Once(wait')
        /\ \A x : Has(wait', x) <=> Has(wait, x) \/ x = i
    BY <1>1, <1>2, <2>1, PrependedOnce
  <2>3. again.state = "waiting"
    OBVIOUS
  <2> HIDE DEF again
  <2> QED
    BY <1>1, <1>2, <1>3, <2>1, <2>2, <2>3, OneJobMoves DEF Scheduling
<1>5. CASE job[i].stalls # 0
  <2>1. job' = [job EXCEPT ![i] = Settled(i, "failed")] /\ wait' = wait
    BY <1>5 DEF Stalled
  <2>2. Settled(i, "failed").state # "waiting"
    BY DEF Settled
  <2> QED
    BY <1>1, <1>2, <1>3, <2>1, <2>2, OneJobMoves DEF Scheduling
<1> QED
  BY <1>4, <1>5

(* A worker settles only a job whose lock it has, and that job is at work. *)
LEMMA SettleKeepsOneJob ==
  ASSUME TypeInv, OneJobInv, GameStep, NEW p \in Procs,
         worker[p].step # "free",
         NEW state \in {"completed", "failed"}, Settle(p, state)
  PROVE  OneJobInv'
<1> DEFINE i == worker[p].item
<1>1. i \in ItemIds /\ UNCHANGED <<wait, req>>
  BY WorkerType DEF Settle, TypeInv
<1>2. CASE HoldsLock(p, i)
  <2>1. job[i].state = "active" /\ job' = [job EXCEPT ![i] = Settled(i, state)]
    BY <1>2 DEF HoldsLock, Settle
  <2>2. job[i] # NoJob /\ Settled(i, state).state # "waiting"
    BY <2>1 DEF NoJob, Settled
  <2> HIDE DEF i
  <2>3. Created(i) /\ ~Has(wait, i) /\ Once(wait) /\ \A h \in Handlers : ~Scheduling(h, i)
    BY <1>1, <2>1, <2>2, OneJobParts DEF OneJobInv, JobHasItem
  <2> QED
    BY <1>1, <2>1, <2>2, <2>3, OneJobMoves DEF Scheduling
<1>3. CASE ~HoldsLock(p, i)
  <2>1. UNCHANGED job
    BY <1>3 DEF Settle
  <2> QED
    BY <1>1, <2>1, NoJobMoves DEF Scheduling
<1> QED
  BY <1>2, <1>3

(* Every step keeps the invariant.                                         *)
LEMMA OneJobStep ==
  ASSUME TypeInv, OneJobInv, [Next]_vars
  PROVE  OneJobInv'
<1> GameStep
  BY GameStepOfNext
<1>1. req \in [Handlers -> InFlight \cup {Idle}]
  BY DEF TypeInv, TypeOK, QueueTypeOK
<1>2. CASE Tick \/ UNCHANGED vars
  BY <1>2, NoJobMoves DEF Tick, vars, redis, Scheduling
<1>3. ASSUME NEW h \in Handlers, Receive(h) \/ Handle(h) \/ Abort(h)
      PROVE  OneJobInv'
  <2>1. CASE Receive(h) \/ GetOverview(h) \/ UpdateProductionFactor(h) \/ Reject(h)
               \/ Abort(h)
    <3>1. UNCHANGED <<job, wait>>
      BY <2>1 DEF Receive, GetOverview, UpdateProductionFactor, Reject, Abort, redis
    <3>2. \E r : req' = [req EXCEPT ![h] = r] /\ r.pc # "committed"
      <4>1. CASE Receive(h)
        BY <4>1 DEF Receive
      <4>2. CASE ~Receive(h)
        <5>1. req' = [req EXCEPT ![h] = Idle] /\ Idle.pc # "committed"
          BY <2>1, <4>2 DEF GetOverview, UpdateProductionFactor, Reject, Abort,
                            Reply, Idle
        <5> QED
          BY <5>1
      <4> QED
        BY <4>1, <4>2
    <3>3. \A g \in Handlers, i \in ItemIds : Scheduling(g, i)' => Scheduling(g, i)
      BY <1>1, <3>2 DEF Scheduling
    <3> QED
      BY <3>1, <3>3, NoJobMoves
  <2>2. CASE StartBuilding(h) \/ StartShips(h) \/ StartResearch(h)
    BY <2>2, StartBuildingPlaces, StartShipsPlaces, StartResearchPlaces,
       CommitKeepsOneJob DEF Places, Commits, redis
  <2>3. CASE ScheduleQueueItem(h)
    BY <2>3, ScheduleKeepsOneJob
  <2> QED
    BY <1>3, <2>1, <2>2, <2>3 DEF Handle
<1>4. ASSUME NEW p \in Procs, Work(p) \/ FinalizeFails(p) \/ Crash(p)
      PROVE  OneJobInv'
  <2>1. CASE FinishBuilding(p) \/ FinishResearch(p) \/ FinishShips(p) \/ SkipFinalize(p)
    BY <2>1, NoJobMoves
       DEF FinishBuilding, FinishResearch, FinishShips, SkipFinalize, redis,
           Scheduling
  <2>2. CASE CompleteJob(p) \/ FinalizeFails(p)
    BY <2>2, SettleKeepsOneJob DEF CompleteJob, FinalizeFails
  <2>3. CASE Crash(p)
    <3>1. \A g \in Handlers, i \in ItemIds : Scheduling(g, i)' => Scheduling(g, i)
      BY <2>3 DEF Crash, Scheduling, Idle
    <3> QED
      BY <2>3, <3>1, NoJobMoves DEF Crash, redis
  <2> QED
    BY <1>4, <2>1, <2>2, <2>3, PromoteKeepsOneJob, TakeKeepsOneJob DEF Work
<1> QED
  BY <1>2, <1>3, <1>4, StalledKeepsOneJob DEF Next

LEMMA NoJobYet == Init => OneJobInv
BY DEF Init, NoJob, Idle, OneJobInv, OneJobPerOrder, JobHasItem, Scheduling

\* What will still bring an order to a worker.
Carried(i) ==
  \/ \E h \in Handlers : Scheduling(h, i)
  \/ job[i].state \in {"delayed", "active"}
  \/ job[i].state = "waiting" /\ Has(wait, i)

(* An order that is under way has something that will bring it to a worker.*)
LEMMA UnderWayIsCarried ==
  ASSUME TypeInv, JobInv, OneJobInv, NEW i \in UnderWay
  PROVE  Carried(i)
<1>1. i \in ItemIds /\ Pending(i) /\ ~Left(i)
  BY DEF UnderWay
<1>2. job[i].state \in {"absent", "delayed", "waiting", "active", "completed", "failed"}
  BY <1>1, JobExists, JobFields DEF NoJob, TypeInv, TypeOK
<1>3. job[i].state # "completed"
  BY <1>1 DEF JobInv, CompletedMeansDone, Done, Pending
<1>4. job[i].state = "waiting" => Has(wait, i)
  BY <1>1, OneJobParts DEF OneJobInv
<1> QED
  BY <1>1, <1>2, <1>3, <1>4 DEF Left, Carried, Scheduling

-----------------------------------------------------------------------------
(* Without faults no order is left behind.                                 *)

NoFaults == Faults = {}

\* An active job is in the hands of its worker: the stalled check finds none.
ActiveServed ==
  \A i \in ItemIds : job[i].state = "active" => Serving(job[i].owner, i)

Watched == PendingHasJob /\ ActiveServed

(* A handler that has not committed can move without harm: what was        *)
(* pending is still watched, and so is the order it places.                *)
LEMMA HandlerKeepsWatch ==
  ASSUME TypeInv, Watched, NEW h \in Handlers, req[h].pc # "committed",
         UNCHANGED <<job, worker>>,
         \A g \in Handlers : g # h => req'[g] = req[g],
         \A i \in ItemIds : Pending(i)' =>
           Pending(i) \/ (req'[h].pc = "committed" /\ req'[h].item = i)
  PROVE  Watched'
<1>1. PendingHasJob'
  BY DEF Watched, PendingHasJob
<1>2. ActiveServed'
  BY DEF Watched, ActiveServed, Serving
<1> QED
  BY <1>1, <1>2 DEF Watched

(* The operations of a handler keep every pending order watched.           *)
LEMMA RequestKeepsWatch ==
  ASSUME TypeInv, Watched, NEW h \in Handlers, Receive(h) \/ Handle(h)
  PROVE  Watched'
<1>1. req \in [Handlers -> InFlight \cup {Idle}]
  BY DEF TypeInv, TypeOK, QueueTypeOK
<1>2. CASE Receive(h) \/ GetOverview(h) \/ UpdateProductionFactor(h) \/ Reject(h)
  <2>1. /\ UNCHANGED <<items, job, worker>> /\ req[h].pc # "committed"
        /\ \A g \in Handlers : g # h => req'[g] = req[g]
    BY <1>1, <1>2 DEF Receive, GetOverview, UpdateProductionFactor, Reject,
                      Handling, Reply, database, redis
  <2> QED
    BY <2>1, HandlerKeepsWatch DEF Pending
<1>3. CASE StartBuilding(h) \/ StartShips(h) \/ StartResearch(h)
  <2>1. PICK f \in ItemIds, order \in QueueItem :
          Places(f, order) /\ Commits(h, f, order)
    BY <1>3, StartBuildingPlaces, StartShipsPlaces, StartResearchPlaces
  <2>2. /\ UNCHANGED <<job, worker>> /\ req[h].pc # "committed"
        /\ \A g \in Handlers : g # h => req'[g] = req[g]
        /\ req'[h].pc = "committed" /\ req'[h].item = f
    BY <1>1, <2>1 DEF Commits, redis
  <2>3. \A i \in ItemIds : Pending(i)' => Pending(i) \/ i = f
    BY <2>1, PlacedItems
  <2> QED
    BY <2>2, <2>3, HandlerKeepsWatch
<1>4. CASE ScheduleQueueItem(h)
  <2> DEFINE i == req[h].item
             delay == DelayOf(i, Now(Host[h]))
             record == [state |-> IF delay > 0 THEN "delayed" ELSE "waiting",
                        due |-> Now(Host[h]) + delay, stalls |-> 0]
  <2>1. /\ job' = [job EXCEPT ![i] = record]
        /\ \A g \in Handlers : g # h => req'[g] = req[g]
        /\ req[h].pc = "committed" /\ UNCHANGED <<items, worker>>
        /\ job \in [ItemIds -> Job \cup {NoJob}]
    BY <1>1, <1>4 DEF ScheduleQueueItem, Reply, database, TypeInv, TypeOK, QueueTypeOK
  <2>2. record.state \in {"delayed", "waiting"}
    OBVIOUS
  <2> HIDE DEF record
  <2>3. \A j \in ItemIds : job'[j] = IF j = i THEN record ELSE job[j]
    BY <2>1
  <2>4. PendingHasJob'
    BY <2>1, <2>2, <2>3 DEF Watched, PendingHasJob, Pending
  <2>5. ActiveServed'
    BY <2>1, <2>2, <2>3 DEF Watched, ActiveServed, Serving
  <2> QED
    BY <2>4, <2>5 DEF Watched
<1> QED
  BY <1>2, <1>3, <1>4 DEF Handle

(* A worker takes, serves and completes jobs without leaving an order: it  *)
(* is free when it takes one, and has delivered what it completes.         *)
LEMMA WorkKeepsWatch ==
  ASSUME TypeInv, JobInv, Watched, NEW p \in Procs, Work(p)
  PROVE  Watched'
<1>1. /\ job \in [ItemIds -> Job \cup {NoJob}]
      /\ worker \in [Procs -> Busy \cup {Free}]
      /\ wait \in Seq(ItemIds)
  BY DEF TypeInv, TypeOK, QueueTypeOK
<1>2. CASE Promote(p)
  <2>1. PICK i \in ItemIds : /\ job[i].state = "delayed"
                             /\ job' = [job EXCEPT ![i] = Settled(i, "waiting")]
    BY <1>2 DEF Promote
  <2>2. UNCHANGED <<items, req, worker>> /\ Settled(i, "waiting").state = "waiting"
    BY <1>2 DEF Promote, database, Settled
  <2>3. \A j \in ItemIds : job'[j] = IF j = i THEN Settled(i, "waiting") ELSE job[j]
    BY <1>1, <2>1
  <2>4. PendingHasJob'
    BY <2>2, <2>3 DEF Watched, PendingHasJob, Pending
  <2>5. ActiveServed'
    BY <2>2, <2>3 DEF Watched, ActiveServed, Serving
  <2> QED
    BY <2>4, <2>5 DEF Watched
<1>3. CASE Take(p)
  <2> DEFINE i == Head(wait)
             record == [state |-> "active", due |-> job[i].due,
                        stalls |-> job[i].stalls, owner |-> p]
             busy == [step |-> "processing", item |-> i]
  <2>1. /\ job' = [job EXCEPT ![i] = record]
        /\ worker' = [worker EXCEPT ![p] = busy]
        /\ UNCHANGED <<items, req>> /\ worker[p].step = "free"
    BY <1>3 DEF Take, database
  <2>2. /\ record.state = "active" /\ record.owner = p
        /\ busy.step = "processing" /\ busy.item = i
    OBVIOUS
  <2> HIDE DEF record, busy
  <2>3. /\ \A j \in ItemIds : job'[j] = IF j = i THEN record ELSE job[j]
        /\ worker'[p] = busy
        /\ \A q \in Procs : q # p => worker'[q] = worker[q]
    BY <1>1, <2>1
  <2>4. PendingHasJob'
    BY <2>1, <2>2, <2>3 DEF Watched, PendingHasJob, Pending
  <2>5. ASSUME NEW j \in ItemIds, job'[j].state = "active"
        PROVE  worker'[job'[j].owner].step # "free" /\ worker'[job'[j].owner].item = j
    <3>1. CASE j = i
      BY <2>2, <2>3, <3>1
    <3>2. CASE j # i
      <4>1. job'[j] = job[j] /\ Serving(job[j].owner, j) /\ job[j].owner \in Procs
        BY <1>1, <2>3, <2>5, <3>2, JobExists, JobFields
           DEF Watched, ActiveServed, TypeInv, TypeOK
      <4> QED
        BY <2>1, <2>3, <4>1 DEF Serving
    <3> QED
      BY <3>1, <3>2
  <2> QED
    BY <2>4, <2>5 DEF Watched, ActiveServed, Serving
<1>4. CASE FinishBuilding(p) \/ FinishResearch(p) \/ FinishShips(p) \/ SkipFinalize(p)
  <2>1. /\ UNCHANGED <<job, req>> /\ worker[p].step = "processing"
        /\ worker' = [worker EXCEPT ![p].step = "finalized"]
    BY <1>4 DEF FinishBuilding, FinishResearch, FinishShips, SkipFinalize,
                Processed, redis
  <2>2. worker[p] \in Busy
    BY <2>1, WorkerType DEF TypeInv
  <2>3. \A q \in Procs, j \in ItemIds :
          (worker'[q].step # "free" /\ worker'[q].item = j) <=> Serving(q, j)
    BY <1>1, <2>1, <2>2 DEF Serving, Busy
  <2>4. \A j \in ItemIds : Pending(j)' => Pending(j)
    <3>1. CASE SkipFinalize(p)
      BY <3>1 DEF SkipFinalize, database, Pending
    <3>2. CASE ~SkipFinalize(p)
      <4>1. /\ worker[p].item \in ItemIds /\ Pending(worker[p].item)
            /\ Finish(worker[p].item)
        BY <1>4, <3>2, WorkerType DEF FinishBuilding, FinishResearch, FinishShips,
                                      Finalizable, TypeInv
      <4> QED
        BY <4>1, ClosedItems
    <3> QED
      BY <3>1, <3>2
  <2>5. PendingHasJob'
    BY <2>1, <2>4 DEF Watched, PendingHasJob
  <2>6. ActiveServed'
    <3>1. \A j \in ItemIds : job[j].state = "active" => job[j].owner \in Procs
      BY JobExists, JobFields DEF TypeInv, TypeOK
    <3> QED
      BY <2>1, <2>3, <3>1 DEF Watched, ActiveServed, Serving
  <2> QED
    BY <2>5, <2>6 DEF Watched
<1>5. CASE CompleteJob(p)
  <2> DEFINE i == worker[p].item
  <2>1. /\ worker[p].step = "finalized" /\ i \in ItemIds /\ Done(i)
        /\ job' = IF HoldsLock(p, i) THEN [job EXCEPT ![i] = Settled(i, "completed")]
                  ELSE job
        /\ worker' = [worker EXCEPT ![p] = Free] /\ UNCHANGED <<items, req>>
    BY <1>5, WorkerType
       DEF CompleteJob, Settle, database, TypeInv, JobInv, WorkersRipe
  <2>2. \A j \in ItemIds : \/ job'[j] = job[j]
                           \/ j = i /\ job'[j].state = "completed"
    BY <1>1, <2>1 DEF Settled
  <2>3. PendingHasJob'
    BY <2>1, <2>2 DEF Watched, PendingHasJob, Pending, Done
  <2>4. ASSUME NEW j \in ItemIds, job'[j].state = "active"
        PROVE  worker'[job'[j].owner].step # "free" /\ worker'[job'[j].owner].item = j
    <3>1. job'[j] = job[j] /\ Serving(job[j].owner, j) /\ job[j].owner \in Procs
      BY <2>2, <2>4, JobExists, JobFields
         DEF Watched, ActiveServed, TypeInv, TypeOK
    <3>2. job[j].owner # p
      <4> SUFFICES ASSUME job[j].owner = p PROVE FALSE
        OBVIOUS
      <4>1. j = i /\ HoldsLock(p, i)
        BY <2>4, <3>1 DEF Serving, HoldsLock
      <4>2. job'[i].state = "completed"
        BY <1>1, <2>1, <4>1 DEF Settled
      <4> QED
        BY <2>4, <4>1, <4>2
    <3> QED
      BY <1>1, <2>1, <3>1, <3>2 DEF Serving
  <2> QED
    BY <2>3, <2>4 DEF Watched, ActiveServed, Serving
<1> QED
  BY <1>2, <1>3, <1>4, <1>5 DEF Work

(* Without faults every step keeps every pending order watched.            *)
LEMMA WatchStep ==
  ASSUME NoFaults, TypeInv, JobInv, Watched, [Next]_vars
  PROVE  Watched'
<1>1. CASE Tick \/ UNCHANGED vars
  BY <1>1 DEF Tick, vars, database, redis, Watched, PendingHasJob, ActiveServed,
              Pending, Serving
<1>2. ASSUME NEW h \in Handlers, Receive(h) \/ Handle(h) \/ Abort(h)
      PROVE  Watched'
  BY <1>2, RequestKeepsWatch DEF Abort, NoFaults
<1>3. ASSUME NEW p \in Procs, Work(p) \/ FinalizeFails(p) \/ Crash(p)
      PROVE  Watched'
  BY <1>3, WorkKeepsWatch DEF FinalizeFails, Crash, NoFaults
<1>4. ASSUME NEW i \in ItemIds, Stalled(i)
      PROVE  Watched'
  BY <1>4 DEF Stalled, NoFaults, Watched, ActiveServed
<1> QED
  BY <1>1, <1>2, <1>3, <1>4 DEF Next

(* The watch is kept in every behaviour.                                   *)
THEOREM WatchInvariant ==
  ASSUME ClocksAgree, NoFaults
  PROVE  Spec => []Watched
<1>1. Init => Watched
  BY DEF Init, NoItem, NoJob, Watched, PendingHasJob, ActiveServed, Pending
<1>2. TypeInv /\ JobInv /\ Watched /\ [Next]_vars => Watched'
  BY WatchStep
<1> QED
  BY <1>1, <1>2, TypeInvariant, JobInvariant, PTL DEF Spec

(* While no process dies or stalls and no transaction fails, every pending *)
(* order has a request about to add its job, or a job that is not settled: *)
(* no interleaving of requests and workers alone loses one.  It needs      *)
(* agreeing clocks, for the early return of finalizeQueueItem.             *)
THEOREM Reliable ==
  ASSUME ClocksAgree, NoFaults
  PROVE  Spec => []PendingHasJob
<1>1. Watched => PendingHasJob
  BY DEF Watched
<1> QED
  BY <1>1, WatchInvariant, PTL

-----------------------------------------------------------------------------
(* Resources computed on demand.                                           *)

(* The inductive invariant: a request has read the clock, and not long     *)
(* ago, and no balance is stamped with the future.                         *)

RequestsDated == \A h \in Handlers : req[h].pc # "idle" =>
  req[h].now <= clock /\ clock <= req[h].now + MaxRequestAge
StampsPast == \A pl \in Planets : lastCalculatedAt[pl] <= clock

DatedInv == RequestsDated /\ StampsPast

(* The transaction of an order, and no other step, makes its item appear.  *)
LEMMA ItemAppears ==
  ASSUME TypeInv, [Next]_vars, NEW i \in ItemIds,
         items[i] = NoItem, items'[i] # NoItem
  PROVE  \E h \in Handlers : /\ Places(i, items'[i]) /\ Commits(h, i, items'[i])
                             /\ items'[i] \in QueueItem
<1>1. ASSUME NEW h \in Handlers,
             StartBuilding(h) \/ StartShips(h) \/ StartResearch(h)
      PROVE  /\ Places(i, items'[i]) /\ Commits(h, i, items'[i])
             /\ items'[i] \in QueueItem
  <2>1. PICK f \in ItemIds, order \in QueueItem :
          Places(f, order) /\ Commits(h, f, order)
    BY <1>1, StartBuildingPlaces, StartShipsPlaces, StartResearchPlaces
  <2>2. f = i /\ items'[f] = order
    BY <2>1, PlacedItems
  <2> QED
    BY <2>1, <2>2
<1>2. ASSUME NEW p \in Procs, NEW c \in ItemIds, Closes(p, c)
      PROVE  FALSE
  <2>1. Pending(c) /\ Finish(c)
    BY <1>2 DEF Closes, Finalizable
  <2>2. c # i
    BY <2>1, ClosedItems, ItemFields
  <2> QED
    BY <2>1, <2>2, ClosedItems
<1>3. ASSUME NEW p \in Procs, Work(p)
      PROVE  UNCHANGED items
  <2>1. CASE FinishBuilding(p) \/ FinishResearch(p) \/ FinishShips(p)
    <3>1. worker[p].item \in ItemIds
      BY <2>1, WorkerType DEF FinishBuilding, FinishResearch, FinishShips, TypeInv
    <3>2. Closes(p, worker[p].item)
      BY <2>1 DEF FinishBuilding, FinishResearch, FinishShips, Closes,
                  DeliveringBuilding, DeliveringResearch, DeliveringShips
    <3> QED
      BY <1>2, <3>1, <3>2
  <2>2. CASE Promote(p) \/ Take(p) \/ SkipFinalize(p) \/ CompleteJob(p)
    BY <2>2 DEF Promote, Take, SkipFinalize, CompleteJob, Settle, database
  <2> QED
    BY <1>3, <2>1, <2>2 DEF Work
<1> QED
  BY <1>1, <1>3 DEF Next, vars, database, Tick, Receive, Handle, Abort, Reject,
     GetOverview, UpdateProductionFactor, ScheduleQueueItem, FinalizeFails,
     Settle, Crash, Stalled

(* Time passes for all, and only as long as every request stays young.     *)
LEMMA TimePasses ==
  ASSUME ClocksAgree, TypeInv, RequestsDated, [Next]_vars
  PROVE  \/ /\ clock' = clock + 1 /\ UNCHANGED <<database, redis, req, worker>>
            /\ \A h \in Handlers : req[h].pc # "idle" =>
                 clock' <= req[h].now + MaxRequestAge
         \/ UNCHANGED clock
<1>1. CASE Tick
  <2>1. ASSUME NEW h \in Handlers, req[h].pc # "idle"
        PROVE  clock' <= req[h].now + MaxRequestAge
    <3>1. Now(Host[h]) = clock /\ clock \in Nat
      BY ProcessesAssumption DEF ClocksAgree, Now, TypeInv, TypeOK
    <3>2. req[h].now \in Nat
      BY <2>1 DEF TypeInv, TypeOK, QueueTypeOK, InFlight, Idle
    <3>3. Now(Host[h]) - req[h].now < MaxRequestAge /\ clock' = clock + 1
      BY <1>1, <2>1 DEF Tick, Age
    <3> QED
      BY <3>1, <3>2, <3>3, BoundsAssumption
  <2> QED
    BY <1>1, <2>1 DEF Tick
<1>2. CASE ~Tick
  BY <1>2 DEF Next, vars, Receive, Handle, Abort, Reject, ScheduleQueueItem,
              GetOverview, UpdateProductionFactor, StartBuilding, StartShips,
              StartResearch, PlaceOrder, Work, FinalizeFails, Crash, Promote,
              Take, FinishBuilding, FinishResearch, FinishShips, SkipFinalize,
              CompleteJob, Settle, Stalled
<1> QED
  BY <1>1, <1>2

(* A handler keeps the date it has read.                                   *)
LEMMA DatesStay ==
  ASSUME ClocksAgree, TypeInv, RequestsDated, [Next]_vars
  PROVE  RequestsDated'
<1>1. req \in [Handlers -> InFlight \cup {Idle}] /\ clock \in Nat
  BY DEF TypeInv, TypeOK, QueueTypeOK
<1>2. ASSUME NEW h \in Handlers, Receive(h)
      PROVE  RequestsDated'
  <2>1. PICK body \in Requests :
          req' = [req EXCEPT ![h] = [pc |-> "received", now |-> Now(Host[h]),
                                     body |-> body]]
    BY <1>2 DEF Receive
  <2>2. /\ req'[h] = [pc |-> "received", now |-> Now(Host[h]), body |-> body]
        /\ \A g \in Handlers : g # h => req'[g] = req[g]
    BY <1>1, <2>1
  <2>3. Now(Host[h]) = clock /\ UNCHANGED clock
    <3>1. UNCHANGED clock
      BY <1>2 DEF Receive
    <3>2. Host[h] \in Procs
      BY ProcessesAssumption
    <3> QED
      BY <1>1, <3>1, <3>2 DEF ClocksAgree, Now
  <2>4. req'[h].now = Now(Host[h])
    BY <2>2
  <2> QED
    BY <1>1, <2>2, <2>3, <2>4, BoundsAssumption DEF RequestsDated
<1>3. ASSUME NEW h \in Handlers, Handle(h) \/ Abort(h)
      PROVE  RequestsDated'
  <2>1. CASE StartBuilding(h) \/ StartShips(h) \/ StartResearch(h)
    <3>1. PICK f \in ItemIds, order \in QueueItem :
            Places(f, order) /\ Commits(h, f, order)
      BY <2>1, StartBuildingPlaces, StartShipsPlaces, StartResearchPlaces
    <3>2. /\ UNCHANGED clock /\ req[h].pc = "received"
          /\ req' = [req EXCEPT ![h] = [pc |-> "committed", now |-> req[h].now,
                                        item |-> f]]
      BY <3>1 DEF Commits
    <3>3. /\ req'[h] = [pc |-> "committed", now |-> req[h].now, item |-> f]
          /\ \A g \in Handlers : g # h => req'[g] = req[g]
      BY <1>1, <3>2
    <3>4. req'[h].now = req[h].now
      BY <3>3
    <3> QED
      BY <3>2, <3>3, <3>4 DEF RequestsDated
  <2>2. CASE ~(StartBuilding(h) \/ StartShips(h) \/ StartResearch(h))
    <3>1. UNCHANGED clock /\ Reply(h)
      BY <1>3, <2>2 DEF Handle, Abort, GetOverview, UpdateProductionFactor,
                        Reject, ScheduleQueueItem
    <3>2. req'[h].pc = "idle" /\ \A g \in Handlers : g # h => req'[g] = req[g]
      BY <1>1, <3>1 DEF Reply, Idle
    <3> QED
      BY <3>1, <3>2 DEF RequestsDated
  <2> QED
    BY <2>1, <2>2
<1>4. ASSUME NEW p \in Procs, Crash(p)
      PROVE  RequestsDated'
  <2>1. \A h \in Handlers : req'[h] = Idle \/ req'[h] = req[h]
    BY <1>4 DEF Crash
  <2> QED
    BY <1>4, <2>1 DEF Crash, RequestsDated, Idle
<1>5. CASE UNCHANGED req
  <2>1. CASE UNCHANGED clock
    BY <1>5, <2>1 DEF RequestsDated
  <2>2. CASE /\ clock' = clock + 1
             /\ \A h \in Handlers : req[h].pc # "idle" =>
                  clock' <= req[h].now + MaxRequestAge
    <3>1. \A h \in Handlers : req[h].pc # "idle" => req[h].now \in Nat
      BY DEF TypeInv, TypeOK, QueueTypeOK, InFlight, Idle
    <3> QED
      BY <1>1, <1>5, <2>2, <3>1 DEF RequestsDated
  <2> QED
    BY <2>1, <2>2, TimePasses
<1> QED
  BY <1>2, <1>3, <1>4, <1>5 DEF Next, vars, Tick, Work, Promote, Take,
     FinishBuilding, FinishResearch, FinishShips, SkipFinalize, CompleteJob,
     FinalizeFails, Settle, Stalled

(* How old a request is when it commits.                                   *)
LEMMA AgeOfRequest ==
  ASSUME TypeInv, RequestsDated, NEW h \in Handlers, req[h].pc # "idle"
  PROVE  /\ clock \in Nat /\ req[h].now \in Nat
         /\ clock - req[h].now \in 0 .. MaxRequestAge
<1>1. clock \in Nat /\ req[h].now \in Nat
  BY DEF TypeInv, TypeOK, QueueTypeOK, InFlight, Idle
<1> QED
  BY <1>1, BoundsAssumption DEF RequestsDated

-----------------------------------------------------------------------------
(* A balance computed on demand, resource by resource.                     *)

Projected(b, rate, e, c) == IF e <= 0 THEN b ELSE Lesser(b + rate * e, c)

(* More time brings more.                                                  *)
LEMMA TimesGrow ==
  ASSUME NEW rate \in Nat, NEW d \in Nat, NEW e \in Nat, d <= e
  PROVE  rate * d \in Nat /\ rate * e \in Nat /\ rate * d <= rate * e
<1> DEFINE x == e - d
<1>1. x \in Nat /\ e = d + x
  OBVIOUS
<1> HIDE DEF x
<1>2. rate * e = rate * d + rate * x
  BY <1>1
<1>3. rate * x \in Nat /\ rate * d \in Nat
  BY <1>1
<1> QED
  BY <1>2, <1>3

(* Waiting adds at most what is produced meanwhile.                        *)
LEMMA ProjectedBound ==
  ASSUME NEW b \in Nat, NEW rate \in Nat, NEW c \in Nat, NEW e \in Nat
  PROVE  /\ Projected(b, rate, e, c) \in Nat
         /\ Projected(b, rate, e, c) <= b + rate * e
<1> DEFINE x == rate * e
<1>1. x \in Nat
  OBVIOUS
<1> HIDE DEF x
<1>2. Projected(b, rate, e, c) \in Nat /\ Projected(b, rate, e, c) <= b + x
  BY <1>1 DEF Projected, Lesser, x
<1> QED
  BY <1>2 DEF x

(* Once the balance has been capped, time takes nothing from it.           *)
LEMMA ProjectedGrows ==
  ASSUME NEW b \in Nat, NEW rate \in Nat, NEW c \in Nat,
         NEW d \in Nat, NEW e \in Nat, d > 0, d <= e
  PROVE  Projected(b, rate, d, c) <= Projected(b, rate, e, c)
<1> DEFINE x == rate * d
           y == rate * e
<1>1. x \in Nat /\ y \in Nat /\ x <= y
  BY TimesGrow
<1>2. ~(d <= 0) /\ ~(e <= 0)
  OBVIOUS
<1>3. /\ Projected(b, rate, d, c) = Lesser(b + x, c)
      /\ Projected(b, rate, e, c) = Lesser(b + y, c)
  BY <1>2 DEF Projected
<1> HIDE DEF x, y
<1> QED
  BY <1>1, <1>3 DEF Lesser

(* Capping on the way is no loss.                                          *)
LEMMA ProjectedTwice ==
  ASSUME NEW b \in Nat, NEW rate \in Nat, NEW c \in Nat,
         NEW d \in Nat, NEW e \in Nat, d > 0
  PROVE  Projected(b, rate, d + e, c) = Projected(Projected(b, rate, d, c), rate, e, c)
<1> DEFINE x == rate * d
           y == rate * e
<1>1. x \in Nat /\ y \in Nat /\ rate * (d + e) = x + y
  OBVIOUS
<1>2. ~(d <= 0) /\ ~(d + e <= 0)
  OBVIOUS
<1>3. /\ Projected(b, rate, d, c) = Lesser(b + x, c)
      /\ Projected(b, rate, d + e, c) = Lesser(b + (x + y), c)
  BY <1>1, <1>2 DEF Projected
<1>4. CASE e = 0
  <2>1. y = 0 /\ e <= 0
    BY <1>4
  <2>2. Projected(Lesser(b + x, c), rate, e, c) = Lesser(b + x, c)
    BY <2>1 DEF Projected
  <2> HIDE DEF x, y
  <2> QED
    BY <1>1, <1>3, <2>1, <2>2
<1>5. CASE e # 0
  <2>1. Projected(Lesser(b + x, c), rate, e, c) = Lesser(Lesser(b + x, c) + y, c)
    BY <1>5 DEF Projected
  <2> HIDE DEF x, y
  <2>2. Lesser(b + (x + y), c) = Lesser(Lesser(b + x, c) + y, c)
    BY <1>1 DEF Lesser
  <2> QED
    BY <1>3, <2>1, <2>2
<1> QED
  BY <1>4, <1>5

(* From the same balance, another rate or a longer wait is worth at most   *)
(* what that rate brings in that time.                                     *)
LEMMA ProjectedApart ==
  ASSUME NEW b \in Nat, NEW a \in Nat, NEW rate \in Nat, NEW other \in Nat,
         NEW c \in Nat, NEW d \in Nat, NEW e \in Nat, a <= b, d <= e
  PROVE  Projected(a, rate, e, c) <= Projected(b, other, d, c) + rate * e
<1> DEFINE x == rate * e
           y == other * d
<1>1. x \in Nat /\ y \in Nat
  OBVIOUS
<1>2. Projected(a, rate, e, c) <= a + x /\ Projected(a, rate, e, c) \in Nat
  BY ProjectedBound
<1>3. CASE d = 0
  <2>1. Projected(b, other, d, c) = b
    BY <1>3 DEF Projected
  <2> HIDE DEF x, y
  <2> QED
    BY <1>1, <1>2, <2>1 DEF x
<1>4. CASE d # 0
  <2>1. /\ Projected(b, other, d, c) = Lesser(b + y, c)
        /\ Projected(a, rate, e, c) = Lesser(a + x, c)
    BY <1>4 DEF Projected
  <2> HIDE DEF x, y
  <2>2. Lesser(a + x, c) <= Lesser(b + y, c) + x
    BY <1>1 DEF Lesser
  <2> QED
    BY <2>1, <2>2 DEF x
<1> QED
  BY <1>3, <1>4

(* The balance at a date, of one resource.                                 *)
LEMMA BalanceValue ==
  ASSUME TypeInv, NEW pl \in Planets, NEW now \in Nat, NEW r \in Resources
  PROVE  /\ balance[pl][r] \in Nat /\ production[pl][r] \in Nat
         /\ Capacity(pl)[r] \in Nat /\ lastCalculatedAt[pl] \in Nat
         /\ BalanceAt(pl, now)[r] \in Nat
         /\ BalanceAt(pl, now)[r] =
              Projected(balance[pl][r], production[pl][r],
                        now - lastCalculatedAt[pl], Capacity(pl)[r])
<1>1. /\ balance[pl] \in Amount /\ production[pl] \in Amount
      /\ Capacity(pl) \in Amount /\ lastCalculatedAt[pl] \in Nat
  BY FormulasAssumption DEF Capacity, TypeInv, TypeOK, DatabaseTypeOK
<1>2. BalanceAt(pl, now) \in Amount
  BY BalanceType DEF TypeInv, TypeOK
<1> QED
  BY <1>1, <1>2 DEF BalanceAt, Projected, Amount

-----------------------------------------------------------------------------
(* The economy with a tick.                                                *)

AmountsOK ==
  /\ Stocks \in [Planets -> Amount]
  /\ Capacities \in [Planets -> Amount]
  /\ production \in [Planets -> Amount]

(* What a request would find is an amount.                                 *)
LEMMA StockType == TypeInv => AmountsOK
<1> SUFFICES ASSUME TypeInv PROVE AmountsOK
  OBVIOUS
<1>1. \A pl \in Planets : Stock(pl) \in Amount
  BY BalanceType DEF Stock, TypeInv, TypeOK
<1>2. \A pl \in Planets : Capacity(pl) \in Amount
  BY FormulasAssumption DEF Capacity, TypeInv, TypeOK, DatabaseTypeOK
<1> QED
  BY <1>1, <1>2 DEF AmountsOK, Stocks, Capacities, TypeInv, TypeOK, DatabaseTypeOK

(* One more second since the last request is one more tick of production.  *)
LEMMA SecondIsTick ==
  ASSUME TypeInv, StampsPast, clock' = clock + 1, UNCHANGED database,
         NEW pl \in Planets, NEW r \in Resources
  PROVE  Stock(pl)'[r] = Lesser(Stock(pl)[r] + production[pl][r], Capacity(pl)[r])
<1> DEFINE e == clock - lastCalculatedAt[pl]
           b == balance[pl][r]
           rate == production[pl][r]
           c == Capacity(pl)[r]
<1>1. /\ b \in Nat /\ rate \in Nat /\ c \in Nat /\ e \in Nat
      /\ clock \in Nat /\ lastCalculatedAt[pl] \in Nat
      /\ Stock(pl)[r] = Projected(b, rate, e, c)
  BY BalanceValue DEF StampsPast, Stock, TypeInv, TypeOK
<1>2. Stock(pl)'[r] = Projected(b, rate, e + 1, c)
  <2>1. clock' - lastCalculatedAt'[pl] = e + 1
    BY <1>1 DEF database
  <2> HIDE DEF e
  <2>2. ~(e + 1 <= 0)
    BY <1>1
  <2> QED
    BY <2>1, <2>2 DEF Stock, BalanceAt, Capacity, Projected, database
<1>3. rate * 1 = rate /\ rate * 0 = 0
  BY <1>1
<1> HIDE DEF e, b, rate, c
<1>4. CASE e = 0
  BY <1>1, <1>2, <1>3, <1>4 DEF Projected, rate, c
<1>5. CASE e > 0
  <2>1. Stock(pl)'[r] = Projected(Stock(pl)[r], rate, 1, c)
    BY <1>1, <1>2, <1>5, ProjectedTwice
  <2> QED
    BY <1>3, <2>1 DEF Projected, rate, c
<1> QED
  BY <1>1, <1>4, <1>5

(* An order takes its price out of the balance at its date, and dates the  *)
(* balance so: what was produced since is earned once more, and no more.   *)
LEMMA OrderTakesPrice ==
  ASSUME TypeInv, DatedInv, NEW h \in Handlers, NEW f \in ItemIds,
         NEW order \in QueueItem, Places(f, order), Commits(h, f, order)
  PROVE  /\ UNCHANGED <<clock, production, level>>
         /\ lastCalculatedAt' =
              [lastCalculatedAt EXCEPT ![order.planet] = req[h].now]
         /\ \A pl \in Planets : pl # order.planet => Stock(pl)' = Stock(pl)
         /\ \A r \in Resources :
              LET earned == production[order.planet][r] * MaxRequestAge
                  stock  == Stock(order.planet)[r]
              IN  /\ Stock(order.planet)'[r] <= stock + earned
                  /\ Stock(order.planet)'[r] + PriceOf(order)[r]
                       <= Greater(stock, balance[order.planet][r]) + earned
<1> DEFINE q == order.planet
           now == req[h].now
           price == PriceOf(order)
           left == [r \in Resources |-> BalanceAt(q, now)[r] - price[r]]
<1>1. /\ q \in Planets /\ price \in Amount /\ req[h].pc = "received"
  BY ItemFields, PriceType DEF Commits
<1>2. /\ now \in Nat /\ clock \in Nat /\ clock - now \in 0 .. MaxRequestAge
  BY <1>1, AgeOfRequest DEF DatedInv
<1>3. /\ balance' = [balance EXCEPT ![q] = left]
      /\ lastCalculatedAt' = [lastCalculatedAt EXCEPT ![q] = now]
      /\ HasEnough(BalanceAt(q, now), price)
      /\ UNCHANGED <<clock, production, level>>
  BY DEF Commits, Places, Spend
<1>4. /\ balance \in [Planets -> Amount] /\ lastCalculatedAt \in [Planets -> Nat]
  BY DEF TypeInv, TypeOK, DatabaseTypeOK
<1>5. ASSUME NEW pl \in Planets, pl # q
      PROVE  Stock(pl)' = Stock(pl)
  BY <1>3, <1>4, <1>5 DEF Stock, BalanceAt, Capacity
<1>6. ASSUME NEW r \in Resources
      PROVE  LET earned == production[q][r] * MaxRequestAge
             IN  /\ Stock(q)'[r] <= Stock(q)[r] + earned
                 /\ Stock(q)'[r] + price[r]
                      <= Greater(Stock(q)[r], balance[q][r]) + earned
  <2> DEFINE b == balance[q][r]
             rate == production[q][r]
             c == Capacity(q)[r]
             last == lastCalculatedAt[q]
             x == BalanceAt(q, now)[r]
             a == x - price[r]
             e == clock - now
             earned == rate * MaxRequestAge
             gained == rate * e
             stock == Stock(q)[r]
  <2>1. /\ b \in Nat /\ rate \in Nat /\ c \in Nat /\ last \in Nat
        /\ x \in Nat /\ x = Projected(b, rate, now - last, c)
        /\ stock \in Nat /\ stock = Projected(b, rate, clock - last, c)
    BY <1>1, <1>2, BalanceValue DEF Stock
  <2>2. price[r] \in Nat /\ a \in Nat /\ a <= x /\ x = a + price[r] /\ left[r] = a
    BY <1>1, <1>3, <2>1 DEF Amount, HasEnough
  <2>3. e \in Nat /\ e <= MaxRequestAge /\ last <= clock
    BY <1>1, <1>2, BoundsAssumption DEF DatedInv, StampsPast
  <2>4. Stock(q)'[r] = Projected(a, rate, e, c)
    <3>1. /\ balance'[q] = left /\ lastCalculatedAt'[q] = now /\ clock' = clock
          /\ production'[q][r] = rate /\ Capacity(q)' = Capacity(q)
      BY <1>1, <1>3, <1>4 DEF Capacity
    <3>2. Stock(q)'[r] = Projected(left[r], rate, clock - now, c)
      BY <3>1 DEF Stock, BalanceAt, Projected
    <3> QED
      BY <2>2, <3>2
  <2>5. gained \in Nat /\ earned \in Nat /\ gained <= earned
    BY <2>1, <2>3, TimesGrow, BoundsAssumption
  <2> DEFINE remains == Projected(a, rate, e, c)
  <2> HIDE DEF b, rate, c, last, x, a, e, earned, gained, stock, remains
  <2>6. remains \in Nat /\ remains <= a + gained
    BY <2>1, <2>2, <2>3, ProjectedBound DEF remains, gained
  <2>7. remains <= stock + earned /\ remains + price[r] <= Greater(stock, b) + earned
    <3>1. CASE now > last
      <4>1. now - last \in Nat /\ now - last > 0 /\ clock - last \in Nat
            /\ now - last <= clock - last
        BY <1>2, <2>1, <2>3, <3>1 DEF e
      <4>2. x <= stock
        BY <2>1, <4>1, ProjectedGrows
      <4> QED
        BY <2>1, <2>2, <2>5, <2>6, <4>2 DEF Greater
    <3>2. CASE now <= last
      <4>1. x = b
        BY <1>2, <2>1, <3>2 DEF Projected
      <4>2. clock - last \in Nat /\ clock - last <= e
        BY <1>2, <2>1, <2>3, <3>2 DEF e
      <4>3. remains <= stock + gained
        BY <2>1, <2>2, <2>3, <4>1, <4>2, ProjectedApart DEF remains, gained
      <4> QED
        BY <2>1, <2>2, <2>5, <2>6, <4>1, <4>3 DEF Greater
    <3> QED
      BY <1>2, <2>1, <3>1, <3>2
  <2> QED
    BY <2>4, <2>7 DEF remains, stock, earned, rate, b
<1> QED
  BY <1>3, <1>5, <1>6

(* Applying production at the date of a request leaves the stock as it is, *)
(* but for what an old and a new rate bring in the time since then.        *)
LEMMA ApplyingIsLate ==
  ASSUME TypeInv, TypeInv', StampsPast, NEW q \in Planets, NEW now \in Nat,
         clock - now \in 0 .. MaxRequestAge, ApplyProduction(q, now),
         UNCHANGED <<clock, level>>,
         \A pl \in Planets : pl # q => production'[pl] = production[pl]
  PROVE  /\ lastCalculatedAt' =
              [lastCalculatedAt EXCEPT ![q] = Greater(lastCalculatedAt[q], now)]
         /\ \A pl \in Planets : pl # q => Stock(pl)' = Stock(pl)
         /\ \A r \in Resources :
              /\ Stock(q)'[r] <= Stock(q)[r] + production'[q][r] * MaxRequestAge
              /\ Stock(q)[r] <= Stock(q)'[r] + production[q][r] * MaxRequestAge
<1>1. /\ clock \in Nat /\ lastCalculatedAt \in [Planets -> Nat]
      /\ balance \in [Planets -> Amount] /\ production' \in [Planets -> Amount]
  BY DEF TypeInv, TypeOK, DatabaseTypeOK
<1>2. /\ lastCalculatedAt' =
           [lastCalculatedAt EXCEPT ![q] = Greater(lastCalculatedAt[q], now)]
      /\ balance' = [balance EXCEPT ![q] = BalanceAt(q, now)]
  BY DEF ApplyProduction
<1>3. ASSUME NEW pl \in Planets, pl # q
      PROVE  Stock(pl)' = Stock(pl)
  BY <1>1, <1>2, <1>3 DEF Stock, BalanceAt, Capacity
<1>4. ASSUME NEW r \in Resources
      PROVE  /\ Stock(q)'[r] <= Stock(q)[r] + production'[q][r] * MaxRequestAge
             /\ Stock(q)[r] <= Stock(q)'[r] + production[q][r] * MaxRequestAge
  <2> DEFINE b == balance[q][r]
             rate == production[q][r]
             new == production'[q][r]
             c == Capacity(q)[r]
             last == lastCalculatedAt[q]
             x == BalanceAt(q, now)[r]
             e == clock - now
  <2>1. /\ b \in Nat /\ rate \in Nat /\ new \in Nat /\ c \in Nat /\ last \in Nat
        /\ x \in Nat /\ x = Projected(b, rate, now - last, c)
        /\ Stock(q)[r] = Projected(b, rate, clock - last, c)
    BY <1>1, BalanceValue DEF Stock, Amount
  <2>2. e \in Nat /\ e <= MaxRequestAge /\ last <= clock
    BY <1>1, BoundsAssumption DEF StampsPast
  <2>3. Stock(q)'[r] = Projected(x, new, clock - Greater(last, now), c)
    <3>1. /\ balance'[q] = BalanceAt(q, now) /\ Capacity(q)' = Capacity(q)
          /\ lastCalculatedAt'[q] = Greater(last, now) /\ clock' = clock
      BY <1>1, <1>2 DEF Capacity
    <3> QED
      BY <3>1 DEF Stock, BalanceAt, Projected
  <2> HIDE DEF b, rate, new, c, last, x
  <2>4. PICK y \in Nat, d \in Nat : /\ d <= e
                                    /\ Stock(q)'[r] = Projected(y, new, d, c)
                                    /\ Stock(q)[r] = Projected(y, rate, d, c)
    <3>1. CASE now > last
      <4>1. now - last \in Nat /\ now - last > 0
            /\ clock - last = (now - last) + e /\ Greater(last, now) = now
        BY <1>1, <2>1, <3>1 DEF Greater
      <4> HIDE DEF e
      <4>2. Projected(b, rate, (now - last) + e, c) = Projected(x, rate, e, c)
        BY <2>1, <2>2, <4>1, ProjectedTwice
      <4>3. Stock(q)[r] = Projected(x, rate, e, c)
        BY <2>1, <4>1, <4>2
      <4> QED
        BY <2>1, <2>2, <2>3, <4>1, <4>3 DEF e
    <3>2. CASE now <= last
      <4>1. x = b /\ Greater(last, now) = last
            /\ clock - last \in Nat /\ clock - last <= e
        BY <1>1, <2>1, <2>2, <3>2 DEF Projected, Greater
      <4> QED
        BY <2>1, <2>3, <4>1
    <3> QED
      BY <2>1, <3>1, <3>2
  <2>5. /\ Projected(y, new, d, c) <= Projected(y, rate, d, c) + new * d
        /\ Projected(y, rate, d, c) <= Projected(y, new, d, c) + rate * d
    <3>1. y <= y /\ d <= d
      BY <2>4
    <3> QED
      BY <2>1, <2>4, <3>1, ProjectedApart
  <2>6. /\ new * d <= new * MaxRequestAge /\ rate * d <= rate * MaxRequestAge
        /\ new * d \in Nat /\ new * MaxRequestAge \in Nat
        /\ rate * d \in Nat /\ rate * MaxRequestAge \in Nat
    BY <2>1, <2>2, <2>4, TimesGrow, BoundsAssumption
  <2>7. Projected(y, new, d, c) \in Nat /\ Projected(y, rate, d, c) \in Nat
    BY <2>1, <2>4, ProjectedBound
  <2> DEFINE u == new * d
             v == new * MaxRequestAge
             w == rate * d
             z == rate * MaxRequestAge
             old == Projected(y, rate, d, c)
             later == Projected(y, new, d, c)
  <2> HIDE DEF u, v, w, z, old, later
  <2>8. later <= old + v /\ old <= later + z
    <3>1. later <= old + u /\ old <= later + w
      BY <2>5 DEF u, w, old, later
    <3>2. u <= v /\ w <= z /\ u \in Nat /\ v \in Nat /\ w \in Nat /\ z \in Nat
          /\ old \in Nat /\ later \in Nat
      BY <2>6, <2>7 DEF u, v, w, z, old, later
    <3> QED
      BY <3>1, <3>2
  <2> QED
    BY <2>4, <2>8 DEF v, z, old, later, new, rate
<1> QED
  BY <1>2, <1>3, <1>4

(* Every step is one of TickEconomy, but for the delivery of a building,   *)
(* which changes the rate without applying production first.               *)
LEMMA EconomyStep ==
  ASSUME ClocksAgree, TypeInv, TypeInv', DatedInv, [Next]_vars
  PROVE  StampsPast' /\ TicksOrDelivers
<1> DEFINE Still == UNCHANGED <<clock, balance, lastCalculatedAt, production, level>>
<1>1. /\ RequestsDated /\ StampsPast /\ AmountsOK /\ clock \in Nat
      /\ lastCalculatedAt \in [Planets -> Nat]
  BY StockType DEF DatedInv, TypeInv, TypeOK, DatabaseTypeOK
<1>2. AmountsOK'
  BY StockType, PTL
<1>3. CASE Still
  <2>1. Stocks' = Stocks /\ Capacities' = Capacities
    BY <1>3 DEF Stocks, Capacities, Stock, BalanceAt, Capacity
  <2> QED
    BY <1>1, <1>3, <2>1 DEF StampsPast, TicksOrDelivers, Economy!vars
<1>4. ASSUME clock' = clock + 1, UNCHANGED <<database, redis, req, worker>>
      PROVE  StampsPast' /\ Economy!Tick
  <2>1. UNCHANGED <<lastCalculatedAt, production, level>>
    BY <1>4 DEF database
  <2>2. StampsPast'
    BY <1>1, <1>4, <2>1 DEF StampsPast
  <2>3. Capacities' = Capacities
    BY <2>1 DEF Capacities, Capacity
  <2>4. ASSUME NEW pl \in Planets
        PROVE  Stocks'[pl] = Economy!Produced(pl)
    <3>1. /\ Stocks[pl] = Stock(pl) /\ Stocks'[pl] = Stock(pl)'
          /\ Capacities[pl] = Capacity(pl) /\ Stocks'[pl] \in Amount
      BY <1>2 DEF Stocks, Capacities, AmountsOK
    <3>2. \A r \in Resources :
            Stock(pl)'[r] = Lesser(Stock(pl)[r] + production[pl][r], Capacity(pl)[r])
      BY <1>1, <1>4, SecondIsTick
    <3> QED
      BY <3>1, <3>2 DEF Economy!Produced, Lesser, Amount
  <2>5. Stocks' = [pl \in Planets |-> Economy!Produced(pl)]
    BY <2>4 DEF Stocks
  <2> QED
    BY <1>4, <2>1, <2>2, <2>3, <2>5 DEF Economy!Tick
<1>5. ASSUME NEW h \in Handlers, GetOverview(h) \/ UpdateProductionFactor(h)
      PROVE  StampsPast' /\ Economy!Next
  <2>0. PICK q \in Planets, now \in Nat : /\ q = req[h].body.planet
                                          /\ now = req[h].now
    BY <1>1, <1>5, RequestType, BodyType
       DEF GetOverview, UpdateProductionFactor, Handling, TypeInv
  <2>1. /\ req[h].pc # "idle"
        /\ ApplyProduction(q, now) /\ UNCHANGED <<clock, level>>
    BY <1>5, <2>0 DEF GetOverview, UpdateProductionFactor, Handling
  <2>2. now \in Nat /\ clock - now \in 0 .. MaxRequestAge
    BY <1>1, <2>0, <2>1, AgeOfRequest
  <2>3. \A pl \in Planets : pl # q => production'[pl] = production[pl]
    BY <1>5, <2>0 DEF GetOverview, UpdateProductionFactor, RecomputeProduction,
                      TypeInv, TypeOK, DatabaseTypeOK
  <2>4. /\ lastCalculatedAt' =
             [lastCalculatedAt EXCEPT ![q] = Greater(lastCalculatedAt[q], now)]
        /\ \A pl \in Planets : pl # q => Stock(pl)' = Stock(pl)
        /\ \A r \in Resources :
             /\ Stock(q)'[r] <= Stock(q)[r] + production'[q][r] * MaxRequestAge
             /\ Stock(q)[r] <= Stock(q)'[r] + production[q][r] * MaxRequestAge
    BY <1>1, <2>1, <2>2, <2>3, ApplyingIsLate
  <2>5. Greater(lastCalculatedAt[q], now) <= clock
    BY <1>1, <2>1, <2>2, BoundsAssumption DEF Greater, StampsPast
  <2>6. StampsPast'
    BY <1>1, <2>1, <2>4, <2>5 DEF StampsPast
  <2>7. Capacities' = Capacities
    BY <2>1 DEF Capacities, Capacity
  <2>8. Economy!Adjust(q)
    <3>1. /\ production' \in [Planets -> Economy!Amount]
          /\ Capacities' \in [Planets -> Economy!Amount]
          /\ Stocks' \in [Planets -> Economy!Amount]
      BY <1>2 DEF AmountsOK, Economy!Amount, Amount
    <3>2. /\ Stocks[q] = Stock(q) /\ Stocks'[q] = Stock(q)'
          /\ \A pl \in Planets : pl # q => Stocks'[pl] = Stocks[pl]
      BY <2>1, <2>4 DEF Stocks
    <3>3. \A r \in Resources :
            /\ Stocks'[q][r] <= Stocks[q][r] + production'[q][r] * MaxRequestAge
            /\ Stocks[q][r] <= Stocks'[q][r] + production[q][r] * MaxRequestAge
      BY <2>4, <3>2
    <3>4. \A pl \in Planets \ {q} : /\ production'[pl] = production[pl]
                                    /\ Capacities'[pl] = Capacities[pl]
                                    /\ Stocks'[pl] = Stocks[pl]
      BY <2>3, <2>7, <3>2
    <3> QED
      BY <2>1, <3>1, <3>3, <3>4 DEF Economy!Adjust
  <2> QED
    BY <2>1, <2>6, <2>8 DEF Economy!Next
<1>6. ASSUME NEW h \in Handlers,
             StartBuilding(h) \/ StartShips(h) \/ StartResearch(h)
      PROVE  StampsPast' /\ Economy!Next
  <2>1. PICK f \in ItemIds, order \in QueueItem :
          Places(f, order) /\ Commits(h, f, order)
    BY <1>6, StartBuildingPlaces, StartShipsPlaces, StartResearchPlaces
  <2> DEFINE q == order.planet
             now == req[h].now
  <2>2. /\ q \in Planets /\ UNCHANGED <<clock, production, level>>
        /\ \A pl \in Planets : pl # q => Stock(pl)' = Stock(pl)
        /\ \A r \in Resources :
             Stock(q)'[r] <= Stock(q)[r] + production[q][r] * MaxRequestAge
        /\ lastCalculatedAt' = [lastCalculatedAt EXCEPT ![q] = now]
    BY <2>1, OrderTakesPrice, ItemFields
  <2>3. now <= clock
    BY <1>1, <2>1 DEF Commits, RequestsDated
  <2>4. StampsPast'
    BY <1>1, <2>2, <2>3 DEF StampsPast
  <2>5. Capacities' = Capacities
    BY <2>2 DEF Capacities, Capacity
  <2>6. Economy!Spend(q)
    BY <1>2, <2>2, <2>5
       DEF Economy!Spend, Economy!Amount, Amount, AmountsOK, Stocks
  <2> QED
    BY <2>2, <2>4, <2>6 DEF Economy!Next
<1>7. \/ Still
      \/ clock' = clock + 1 /\ UNCHANGED <<database, redis, req, worker>>
      \/ \E h \in Handlers :
           \/ GetOverview(h) \/ UpdateProductionFactor(h)
           \/ StartBuilding(h) \/ StartShips(h) \/ StartResearch(h)
      \/ \E p \in Procs : FinishBuilding(p) /\ UNCHANGED <<clock, lastCalculatedAt>>
  BY DEF Next, vars, database, Tick, Receive, Handle, Abort, Reject,
         ScheduleQueueItem, Work, FinalizeFails, Crash, Promote, Take,
         FinishBuilding, FinishResearch, FinishShips, SkipFinalize,
         CompleteJob, Settle, Stalled
<1> HIDE DEF Still
<1>8. ASSUME NEW p \in Procs, FinishBuilding(p), UNCHANGED <<clock, lastCalculatedAt>>
      PROVE  StampsPast' /\ FinishesBuilding
  <2>1. PICK i \in ItemIds : i = worker[p].item
    BY <1>8, WorkerType DEF FinishBuilding, TypeInv
  <2>2. Pending(i) /\ items[i].type = "BUILDING" /\ Finish(i)
    BY <1>8, <2>1 DEF FinishBuilding, Finalizable
  <2>3. Delivers(i)
    BY <2>2, ClosedItems DEF Delivers
  <2> QED
    BY <1>1, <1>8, <2>2, <2>3 DEF StampsPast, FinishesBuilding
<1>9. CASE \E h \in Handlers : \/ GetOverview(h) \/ UpdateProductionFactor(h)
                               \/ StartBuilding(h) \/ StartShips(h) \/ StartResearch(h)
  BY <1>5, <1>6, <1>9 DEF TicksOrDelivers
<1>10. CASE /\ clock' = clock + 1 /\ UNCHANGED <<database, redis, req, worker>>
  BY <1>4, <1>10 DEF TicksOrDelivers, Economy!Next
<1> QED
  BY <1>3, <1>7, <1>8, <1>9, <1>10 DEF TicksOrDelivers

(* Dates stay right in every behaviour.                                    *)
LEMMA Dated ==
  ASSUME ClocksAgree
  PROVE  Spec => []DatedInv
<1>1. Init => DatedInv
  BY DEF Init, Idle, DatedInv, RequestsDated, StampsPast
<1>2. TypeInv /\ TypeInv' /\ DatedInv /\ [Next]_vars => DatedInv'
  BY DatesStay, EconomyStep DEF DatedInv
<1> QED
  BY <1>1, <1>2, TypeInvariant, PTL DEF Spec

(* When the clocks agree, the projected balances move like those of a game *)
(* with a global tick whose books are as late as a request may be old,     *)
(* however requests overlap and whatever fails, except where a building is *)
(* delivered: that step alone changes the rate for all the time before it. *)
THEOREM TicksWithGrace ==
  ASSUME ClocksAgree
  PROVE  Spec => TicksButDeliveries
<1>1. TypeInv /\ TypeInv' /\ DatedInv /\ [Next]_vars => [TicksOrDelivers]_vars
  BY EconomyStep
<1> QED
  BY <1>1, TypeInvariant, Dated, PTL DEF Spec, TicksButDeliveries

(* When the clocks agree, an order takes its price, but for what is        *)
(* produced while its request lives: requests that overlap cannot have     *)
(* more than that back, however late they commit and in whatever order.    *)
THEOREM OrdersArePaid ==
  ASSUME ClocksAgree
  PROVE  Spec => PaysAllButAge
<1>1. ASSUME TypeInv, DatedInv, [Next]_vars,
             NEW i \in ItemIds, NEW pl \in Planets, NEW r \in Resources,
             Enters(i, pl)
      PROVE  Stock(pl)'[r] + PriceOf(items'[i])[r]
               <= Greater(Stock(pl)[r], balance[pl][r])
                    + production[pl][r] * MaxRequestAge
  <2>1. PICK h \in Handlers : /\ Places(i, items'[i]) /\ Commits(h, i, items'[i])
                              /\ items'[i] \in QueueItem
    BY <1>1, ItemAppears DEF Enters
  <2> QED
    BY <1>1, <2>1, OrderTakesPrice DEF Enters
<1>2. TypeInv /\ DatedInv /\ [Next]_vars => [TakesPrice]_vars
  BY <1>1 DEF TakesPrice
<1> QED
  BY <1>2, TypeInvariant, Dated, PTL DEF Spec, PaysAllButAge
=============================================================================
