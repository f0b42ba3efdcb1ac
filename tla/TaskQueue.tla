----------------------------- MODULE TaskQueue -----------------------------
(***************************************************************************)
(* The BullMQ queue `tasks` and its workers: one worker per backend        *)
(* process, one job at a time (tasks.processor.ts, queue.service.ts).      *)
(*                                                                         *)
(* BullMQ is modelled from how the code uses it, with its defaults: a job  *)
(* whose worker is lost or blocked is given to another worker once, a job  *)
(* whose processor throws has no attempt left, and a worker whose lock is  *)
(* gone cannot settle its job.                                             *)
(***************************************************************************)
EXTENDS GameState

Serving(p, i) == worker[p].step # "free" /\ worker[p].item = i

\* A variant that lets a worker settle a job it has lost.
HoldsLockStill(p, i) == job[i].state # "absent"

HoldsLock(p, i) == job[i].state = "active" /\ job[i].owner = p

Settled(i, state) == [state |-> state, due |-> job[i].due,
                      stalls |-> job[i].stalls]

-----------------------------------------------------------------------------
(* BullMQ.                                                                 *)

\* The delayed job that is due first goes to the end of the list.
Promote(p) ==
  /\ \E i \in ItemIds :
       /\ job[i].state = "delayed"
       /\ job[i].due <= Now(p)
       /\ \A j \in ItemIds : job[j].state = "delayed" => job[i].due <= job[j].due
       /\ job' = [job EXCEPT ![i] = Settled(i, "waiting")]
       /\ wait' = Append(wait, i)
  /\ UNCHANGED <<clock, database, req, worker>>

Take(p) ==
  /\ worker[p].step = "free"
  /\ wait # <<>>
  /\ LET i == Head(wait)
     IN  /\ job' = [job EXCEPT ![i] = [state |-> "active", due |-> job[i].due,
                                       stalls |-> job[i].stalls, owner |-> p]]
         /\ worker' = [worker EXCEPT ![p] = [step |-> "processing", item |-> i]]
  /\ wait' = Tail(wait)
  /\ UNCHANGED <<clock, database, req>>

\* The job of a dead worker, or of one too busy to renew its lock, goes back
\* to the front of the list; the second time it fails.
Stalled(i) ==
  /\ job[i].state = "active"
  /\ "stall" \in Faults \/ ~Serving(job[i].owner, i)
  /\ IF job[i].stalls = 0
     THEN /\ job' = [job EXCEPT ![i] = [state |-> "waiting", due |-> job[i].due,
                                        stalls |-> 1]]
          /\ wait' = <<i>> \o wait
     ELSE job' = [job EXCEPT ![i] = Settled(i, "failed")] /\ UNCHANGED wait
  /\ UNCHANGED <<clock, database, req, worker>>

-----------------------------------------------------------------------------
(* finalizeQueueItem: one transaction, run by the worker that has the job. *)

\* Variants: one does not look at the status, one not at the boundary.
FinalizableAgain(p, i) == items[i] # NoItem /\ items[i].endAt <= Now(p)
FinalizableLater(p, i) == Pending(i) /\ items[i].endAt < Now(p)

\* The early return of finalizeQueueItem is the negation of this.
Finalizable(p, i) == Pending(i) /\ items[i].endAt <= Now(p)

Finish(i) == items' = [items EXCEPT ![i].status = "DONE"]

\* The transaction is over; the job is still to be settled.
Processed(p) == worker' = [worker EXCEPT ![p].step = "finalized"]

\* A new level changes the rates; the balance row is left as it is.
FinishBuilding(p) ==
  LET i  == worker[p].item
      pl == items[i].planet
  IN  /\ worker[p].step = "processing"
      /\ Finalizable(p, i) /\ items[i].type = "BUILDING"
      /\ level' = [level EXCEPT ![pl][items[i].key] = items[i].n]
      /\ RecomputeProduction(pl, level'[pl], factor[pl])
      /\ Finish(i) /\ Processed(p)
      /\ UNCHANGED <<clock, balance, lastCalculatedAt, factor, research, ships,
                     redis, req>>

FinishResearch(p) ==
  LET i == worker[p].item
  IN  /\ worker[p].step = "processing"
      /\ Finalizable(p, i) /\ items[i].type = "RESEARCH"
      /\ research' = [research EXCEPT ![items[i].planet][items[i].key] = items[i].n]
      /\ Finish(i) /\ Processed(p)
      /\ UNCHANGED <<clock, balance, lastCalculatedAt, production, level, factor,
                     ships, redis, req>>

FinishShips(p) ==
  LET i == worker[p].item
  IN  /\ worker[p].step = "processing"
      /\ Finalizable(p, i) /\ items[i].type = "SHIP"
      /\ ships' = [ships EXCEPT ![items[i].planet][items[i].key] = @ + items[i].n]
      /\ Finish(i) /\ Processed(p)
      /\ UNCHANGED <<clock, balance, lastCalculatedAt, production, level, factor,
                     research, redis, req>>

\* finalizeQueueItem returns null and process() returns with it: for BullMQ
\* that is a success.
SkipFinalize(p) ==
  /\ worker[p].step = "processing"
  /\ ~Finalizable(p, worker[p].item)
  /\ Processed(p)
  /\ UNCHANGED <<clock, database, redis, req>>

\* What a worker reports about its job counts only while it has the lock.
Settle(p, state) ==
  LET i == worker[p].item
  IN  /\ job' = IF HoldsLock(p, i) THEN [job EXCEPT ![i] = Settled(i, state)]
                ELSE job
      /\ worker' = [worker EXCEPT ![p] = Free]
      /\ UNCHANGED <<clock, database, wait, req>>

CompleteJob(p) == worker[p].step = "finalized" /\ Settle(p, "completed")

\* The transaction throws: rolled back, and no attempt is left.
FinalizeFails(p) ==
  /\ "abort" \in Faults
  /\ worker[p].step = "processing"
  /\ Settle(p, "failed")

Work(p) ==
  \/ Promote(p)
  \/ Take(p)
  \/ FinishBuilding(p)
  \/ FinishResearch(p)
  \/ FinishShips(p)
  \/ SkipFinalize(p)
  \/ CompleteJob(p)
=============================================================================
