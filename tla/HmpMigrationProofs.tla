------------------------- MODULE HmpMigrationProofs -------------------------
(***************************************************************************)
(* The HMP task migration, for any number of CPUs and tasks, any affinities  *)
(* and both builds: the handshake with the stopper thread, the references on *)
(* tasks, the hmp_force_migration lock and the placement of tasks.           *)
(***************************************************************************)
EXTENDS HmpMigration, FiniteSetTheorems, TLAPS

(* What the steps have in common.                                            *)

(* A balancer is done with a queue: it goes on scanning, with the lock, or   *)
(* it has released it if it had it.                                          *)
Rests(b) ==
  /\ bal' = [bal EXCEPT ![b] = bal'[b]]
  /\ bal'[b] \in Balancing /\ bal'[b].pc \in {"idle", "up", "scan"}
  /\ bal'[b].fn = "none" /\ bal'[b].p = NONE
  /\ bal'[b].pc = "scan" => hmpLock \in {NONE, b}
  /\ hmpLock' = IF bal'[b].pc = "scan" THEN b ELSE IF hmpLock = b THEN NONE ELSE hmpLock

(* The orders to the stoppers stay what they are. *)
RqKept ==
  /\ rq' \in [CPU -> RunQueue]
  /\ \A c \in CPU : /\ rq'[c].active = rq[c].active /\ rq'[c].push = rq[c].push
                    /\ rq'[c].task = rq[c].task /\ rq'[c].work = rq[c].work

(* The three outcomes of Order: the stopper is to move the task, the         *)
(* balancer is to move it, or it is left alone.                              *)
OrderStopper(b, fn, src, p, dst) ==
  /\ rq' = [rq EXCEPT ![src].push = dst, ![src].task = p, ![src].active = TRUE]
  /\ bal' = [bal EXCEPT ![b] = Step("queue", fn, src, p, dst)]
  /\ hmpLock' = hmpLock
  /\ tsk' = [tsk EXCEPT ![p].usage = @ + 1]

OrderMove(b, fn, src, p, dst) ==
  /\ rq' = rq
  /\ bal' = [bal EXCEPT ![b] = Step("move", fn, src, p, dst)]
  /\ hmpLock' = hmpLock
  /\ tsk' = [tsk EXCEPT ![p].usage = @ + 1]

OrderNone(b, fn, src) ==
  /\ rq' = rq /\ tsk' = tsk
  /\ bal' = [bal EXCEPT ![b] = After(fn, src)]
  /\ hmpLock' = LockAfter(fn)

(* An order for the stopper, an order for hmp_migrate_runnable_task, or *)
(* none.                                                                *)
LEMMA OrderCases ==
  ASSUME NEW b, NEW fn, NEW src, NEW p, NEW dst, Order(b, fn, src, p, dst)
  PROVE  \/ OrderStopper(b, fn, src, p, dst) \/ OrderMove(b, fn, src, p, dst)
         \/ OrderNone(b, fn, src)
BY DEF Order, NoteOrder, Wanted, OrderStopper, OrderMove, OrderNone

(* What follows a balancer's function is idle, the up pass or the next *)
(* domain.                                                             *)
LEMMA AfterRests ==
  ASSUME NEW fn, NEW d \in CPU
  PROVE  /\ After(fn, d) \in Balancing /\ After(fn, d).pc \in {"idle", "up", "scan"}
         /\ After(fn, d).fn = "none" /\ After(fn, d).p = NONE
         /\ After(fn, d).pc = "scan" <=> fn = "down"
<1>1. After(fn, d) = IF fn = "down" THEN Scan(d) ELSE IF fn = "pull" THEN Up ELSE Idle
  BY DEF After
<1>2. Scan(d) \in Balancing /\ Up \in Balancing /\ Idle \in Balancing
  BY DEF Scan, Up, Idle, Step, Balancing
<1>3. \A r \in {Scan(d), Up, Idle} : r.fn = "none" /\ r.p = NONE /\ r.pc \in {"idle", "up", "scan"}
  BY DEF Scan, Up, Idle, Step
<1>4. Scan(d).pc = "scan" /\ Up.pc # "scan" /\ Idle.pc # "scan"
  BY DEF Scan, Up, Idle, Step
<1> QED BY <1>1, <1>2, <1>3, <1>4

(* A balancer that releases or keeps the lock as the code does. *)
LEMMA RestsAfter ==
  ASSUME HInv, NEW b \in CPU, NEW fn, NEW d \in CPU, hmpLock = b,
         bal' = [bal EXCEPT ![b] = After(fn, d)], hmpLock' = LockAfter(fn)
  PROVE  Rests(b)
<1>1. bal'[b] = After(fn, d)
  BY DEF HInv, HmpTypeOK
<1>2. bal' = [bal EXCEPT ![b] = bal'[b]]
  BY <1>1
<1> QED BY <1>1, <1>2, AfterRests DEF Rests, LockAfter

(* hmp_migrate_runnable_task ends its balancer's function. *)
LEMMA MigrateRunnableRests ==
  ASSUME HInv, NEW b \in CPU, MigrateRunnable(b) PROVE Rests(b) /\ RqKept /\ UNCHANGED stopper
<1>1. bal[b].pc = "move" /\ bal[b].src \in CPU /\ bal[b].fn # "lb"
  BY DEF HInv, OrdersNamed, MigrateRunnable
<1>2. hmpLock = b
  BY <1>1 DEF HInv, OneMigrator
<1> QED BY <1>1, <1>2, RestsAfter DEF MigrateRunnable, RqKept, HInv, HmpTypeOK

(* Queueing active_balance_work ends the function too. *)
LEMMA QueueStopperRests ==
  ASSUME HInv, NEW b \in CPU, QueueStopper(b) PROVE Rests(b) /\ UNCHANGED stopper
<1>1. bal[b].pc = "queue" /\ bal[b].src \in CPU /\ bal[b].fn # "none"
  BY DEF HInv, OrdersNamed, QueueStopper
<1>2. bal[b].fn # "lb" <=> hmpLock = b
  BY <1>1 DEF HInv, OneMigrator
<1>3. PICK next \in {After(bal[b].fn, bal[b].src), Idle} :
        bal' = [bal EXCEPT ![b] = next] /\ (bal[b].fn # "pull" => next = After(bal[b].fn, bal[b].src))
  BY DEF QueueStopper
<1>4. bal'[b] = next /\ bal' = [bal EXCEPT ![b] = bal'[b]]
  BY <1>3 DEF HInv, HmpTypeOK
<1>5. /\ next \in Balancing /\ next.pc \in {"idle", "up", "scan"} /\ next.fn = "none"
      /\ next.p = NONE
      /\ next.pc = "scan" <=> bal[b].fn = "down"
  <2>1. CASE next = After(bal[b].fn, bal[b].src)
    BY <2>1, <1>1, AfterRests
  <2>2. CASE next = Idle /\ bal[b].fn = "pull"
    BY <2>2 DEF Idle, Step, Balancing
  <2> QED BY <1>3, <2>1, <2>2
<1>6. hmpLock' = IF bal[b].fn = "lb" THEN hmpLock ELSE LockAfter(bal[b].fn)
  BY DEF QueueStopper
<1>7. UNCHANGED stopper
  BY DEF QueueStopper
<1> QED BY <1>1, <1>2, <1>4, <1>5, <1>6, <1>7 DEF Rests, LockAfter

(* hmp_force_up_migration starts with no order of its own. *)
LEMMA ForceBeginRests ==
  ASSUME HInv, NEW b \in CPU, ForceBegin(b) PROVE Rests(b) /\ RqKept /\ UNCHANGED stopper
<1>1. bal[b].pc = "up"
  BY DEF ForceBegin, Up, Step
<1>2. hmpLock # b
  BY <1>1 DEF HInv, OneMigrator
<1>3. Scan(-1) \in Balancing /\ Idle \in Balancing
  BY DEF Scan, Idle, Step, Balancing
<1>4. bal'[b] \in {Scan(-1), Idle} /\ bal' = [bal EXCEPT ![b] = bal'[b]]
  BY DEF ForceBegin, HInv, HmpTypeOK
<1>5. /\ bal'[b] = Scan(-1) => hmpLock = NONE /\ hmpLock' = b
      /\ bal'[b] = Idle => hmpLock' = hmpLock
  BY DEF ForceBegin, HInv, HmpTypeOK, Scan, Idle, Step
<1>6. RqKept /\ UNCHANGED stopper
  BY DEF ForceBegin, RqKept, HInv, HmpTypeOK
<1> QED BY <1>2, <1>3, <1>4, <1>5, <1>6 DEF Rests, Scan, Idle, Step

(* hmp_force_up_migration stops scanning. *)
LEMMA ScanEndRests ==
  ASSUME HInv, NEW b \in CPU, bal[b].pc = "scan", bal' = [bal EXCEPT ![b] = Idle], hmpLock' = NONE
  PROVE  Rests(b)
<1>1. hmpLock = b
  BY DEF HInv, OneMigrator, OrdersNamed
<1>2. bal'[b] = Idle /\ bal' = [bal EXCEPT ![b] = bal'[b]]
  BY DEF HInv, HmpTypeOK
<1> QED BY <1>1, <1>2 DEF Rests, Idle, Step, Balancing

(* It ends with none. *)
LEMMA ForceEndRests ==
  ASSUME HInv, NEW b \in CPU, ForceEnd(b) PROVE Rests(b) /\ RqKept /\ UNCHANGED stopper
BY ScanEndRests DEF ForceEnd, RqKept, HInv, HmpTypeOK

(* wake_for_idle_pull is not part of an order. *)
LEMMA WakeKeepsOrders ==
  ASSUME rq \in [CPU -> RunQueue], NEW f \in CPU, NEW w \in BOOLEAN,
         rq' = [rq EXCEPT ![f].wake = w]
  PROVE  RqKept
<1>1. rq' \in [CPU -> RunQueue]
  BY DEF RunQueue
<1>2. ASSUME NEW c \in CPU
      PROVE  /\ rq'[c].active = rq[c].active /\ rq'[c].push = rq[c].push
             /\ rq'[c].task = rq[c].task /\ rq'[c].work = rq[c].work
  BY DEF RunQueue
<1> QED BY <1>1, <1>2 DEF RqKept

(* The delayed build asks an idle fast CPU to pull and orders nothing. *)
LEMMA ForceUpDelayedRests ==
  ASSUME HInv, NEW b \in CPU, NEW d \in CPU, NEW f \in CPU, ForceUpDelayed(b, d, f)
  PROVE  Rests(b) /\ RqKept /\ UNCHANGED stopper
<1>1. Rests(b)
  BY ScanEndRests DEF ForceUpDelayed, AskToPull
<1>2. RqKept
  BY WakeKeepsOrders DEF ForceUpDelayed, AskToPull, HInv, HmpTypeOK
<1> QED BY <1>1, <1>2 DEF ForceUpDelayed, AskToPull

(* A balancer meets a candidate, and has the lock. *)
Meets(b) ==
  /\ bal' = [bal EXCEPT ![b] = bal'[b]] /\ bal'[b] \in Balancing
  /\ bal[b].pc = "idle" /\ bal'[b].pc = "found"
  /\ bal'[b].fn \in {"pull", "newidle"} /\ bal'[b].src \in CPU /\ bal'[b].p \in Task
  /\ running[bal'[b].src] = bal'[b].p \/ Ready(bal'[b].p)
  /\ hmpLock = NONE /\ hmpLock' = b
  /\ UNCHANGED <<tsk, running, stopper, cfg>>

(* hmp_idle_pull meets a task, with the migration lock taken. *)
LEMMA PullFindMeets ==
  ASSUME HInv, NEW b \in CPU, NEW fn \in {"pull", "newidle"}, Free(b), PullFind(b, fn)
  PROVE  Meets(b)
<1>1. PICK d \in Slow, p \in Task :
        Candidate(d, p) /\ bal' = [bal EXCEPT ![b] = Step("found", fn, d, p, NONE)]
  BY DEF PullFind
<1>2. d \in CPU /\ bal'[b] = Step("found", fn, d, p, NONE) /\ bal[b].pc = "idle"
  BY <1>1 DEF HInv, HmpTypeOK, Free, Idle, Step, CPU
<1>3. Step("found", fn, d, p, NONE) \in Balancing
  BY <1>2 DEF Step, Balancing
<1>4. running[d] = p \/ Ready(p)
  BY <1>1 DEF Candidate, Queue
<1>5. bal'[b].pc = "found" /\ bal'[b].fn = fn /\ bal'[b].src = d /\ bal'[b].p = p
  BY <1>2 DEF Step
<1>6. hmpLock = NONE /\ hmpLock' = b /\ UNCHANGED <<tsk, running, stopper, cfg>>
  BY DEF PullFind
<1> QED BY <1>1, <1>2, <1>3, <1>4, <1>5, <1>6 DEF Meets

(* run_rebalance_domains: pull, or go on to hmp_force_up_migration. *)
LEMMA RebalanceCases ==
  ASSUME HInv, NEW b \in CPU, Rebalance(b)
  PROVE  /\ RqKept /\ UNCHANGED <<tsk, running, stopper, cfg>> /\ bal[b].pc = "idle"
         /\ Meets(b) \/ Rests(b)
<1>1. RqKept
  BY WakeKeepsOrders DEF Rebalance, HInv, HmpTypeOK
<1>2. bal[b].pc = "idle" /\ hmpLock # b
  BY DEF Rebalance, Free, Idle, Step, HInv, OneMigrator
<1>3. CASE PullFind(b, "pull")
  <2>1. Meets(b)
    BY <1>3, PullFindMeets DEF Rebalance
  <2> QED BY <1>1, <1>2, <2>1 DEF Meets
<1>4. CASE bal' = [bal EXCEPT ![b] = Up] /\ UNCHANGED <<tsk, running, stopper, hmpLock, cfg>>
  <2>1. bal'[b] = Up /\ bal' = [bal EXCEPT ![b] = bal'[b]]
    BY <1>4 DEF HInv, HmpTypeOK
  <2>2. Rests(b)
    BY <1>2, <1>4, <2>1 DEF Rests, Up, Step, Balancing
  <2> QED BY <1>1, <1>2, <1>4, <2>2
<1> QED BY <1>3, <1>4 DEF Rebalance
-----------------------------------------------------------------------------
(* The orders of hmp_idle_pull and hmp_force_up_migration.                   *)

(* A balancer with the lock names a live task to a queue without an order. *)
OrderReady(b, fn, src, p, dst) ==
  /\ fn \in {"up", "down", "pull", "newidle"} /\ src \in CPU /\ dst \in CPU /\ p \in Task
  /\ bal[b].pc \in {"scan", "found"} /\ hmpLock = b
  /\ ~rq[src].active /\ tsk[p].state # "reaped"
  /\ UNCHANGED <<running, stopper, cfg>>

(* A step that gives an order, or that leaves the task alone. *)
Orders(b) == \E fn, src, p, dst :
  /\ OrderReady(b, fn, src, p, dst)
  /\ OrderStopper(b, fn, src, p, dst) \/ OrderMove(b, fn, src, p, dst)

(* A step that only ends what a balancer did. *)
Gives(b) == /\ Rests(b) /\ RqKept /\ bal[b].pc \notin {"queue", "move"}
            /\ UNCHANGED <<tsk, running, stopper, cfg>>

(* An order that may be given is given, or the balancer goes on without *)
(* one.                                                                 *)
LEMMA OrderOutcome ==
  ASSUME HInv, NEW b \in CPU, NEW fn, NEW src, NEW p, NEW dst,
         OrderReady(b, fn, src, p, dst), Order(b, fn, src, p, dst)
  PROVE  Orders(b) \/ Gives(b)
<1>1. CASE OrderNone(b, fn, src)
  <2>1. Rests(b)
    BY <1>1, RestsAfter DEF OrderReady, OrderNone
  <2>2. RqKept
    BY <1>1 DEF RqKept, OrderNone, HInv, HmpTypeOK
  <2> QED BY <1>1, <2>1, <2>2 DEF Gives, OrderReady, OrderNone
<1> QED BY <1>1, OrderCases DEF Orders

(* A candidate of a slow or a fast queue is alive. *)
LEMMA CandidateAlive ==
  ASSUME HInv, NEW d \in CPU, NEW p \in Task, Candidate(d, p) PROVE tsk[p].state # "reaped"
BY DEF HInv, TasksAlive, Candidate, Queue, Ready

(* Who looks for a task holds hmp_force_migration. *)
LEMMA ScanHasLock ==
  ASSUME HInv, NEW b \in CPU, bal[b].pc \in {"scan", "found"} PROVE hmpLock = b
BY DEF HInv, OneMigrator, OrdersNamed

(* Both outcomes of the up migration. *)
LEMMA ForceUpOutcome ==
  ASSUME HInv, NEW b \in CPU, NEW d \in CPU, NEW p \in Task, ForceUp(b, d, p)
  PROVE  Orders(b) \/ Gives(b)
<1>1. OrderReady(b, "up", d, p, b)
  BY CandidateAlive, ScanHasLock DEF ForceUp, OrderReady
<1> QED BY <1>1, OrderOutcome DEF ForceUp

(* Both outcomes of the down migration. *)
LEMMA ForceDownOutcome ==
  ASSUME HInv, NEW b \in CPU, NEW d \in CPU, NEW dst \in CPU, NEW p \in Task,
         ForceDown(b, d, p, dst)
  PROVE  Orders(b) \/ Gives(b)
<1>1. OrderReady(b, "down", d, p, dst)
  BY CandidateAlive, ScanHasLock DEF ForceDown, OrderReady
<1> QED BY <1>1, OrderOutcome DEF ForceDown

(* Both outcomes of the idle pull, which had met its task a step before. *)
LEMMA PullOrderOutcome ==
  ASSUME HInv, NEW b \in CPU, PullOrder(b)
  PROVE  Orders(b) \/ Gives(b)
<1>1. bal[b].pc = "found" /\ UNCHANGED <<running, stopper, cfg>>
  BY DEF PullOrder
<1>2. bal[b].src \in CPU /\ bal[b].p \in Task /\ bal[b].fn \in {"pull", "newidle"}
  BY <1>1 DEF HInv, OrdersNamed
<1>3. hmpLock = b
  BY <1>1, ScanHasLock
<1>4. tsk[bal[b].p].state # "reaped"
  BY <1>1 DEF HInv, TasksAlive
<1>5. CASE ~rq[bal[b].src].active /\ Order(b, bal[b].fn, bal[b].src, bal[b].p, b)
  <2>1. OrderReady(b, bal[b].fn, bal[b].src, bal[b].p, b)
    BY <1>1, <1>2, <1>3, <1>4, <1>5 DEF OrderReady
  <2> QED BY <1>5, <2>1, OrderOutcome
<1>6. CASE /\ bal' = [bal EXCEPT ![b] = After(bal[b].fn, bal[b].src)]
           /\ hmpLock' = NONE /\ UNCHANGED <<tsk, rq>>
  <2>1. Rests(b)
    BY <1>2, <1>3, <1>6, RestsAfter DEF LockAfter
  <2>2. RqKept
    BY <1>6 DEF RqKept, HInv, HmpTypeOK
  <2> QED BY <1>1, <1>6, <2>1, <2>2 DEF Gives
<1> QED BY <1>5, <1>6 DEF PullOrder
-----------------------------------------------------------------------------
(* The steps of a balancer, by what they do to the shared state. *)
LEMMA BalancerCases ==
  ASSUME HInv, NEW b \in CPU, IdleBalance(b) \/ Rebalance(b) \/ BalanceStep(b)
  PROVE  \/ Meets(b) /\ RqKept
         \/ Gives(b) \/ Orders(b) \/ MigrateRunnable(b) \/ QueueStopper(b)
<1>1. CASE IdleBalance(b)
  <2>1. Meets(b)
    BY <1>1, PullFindMeets DEF IdleBalance
  <2>2. RqKept
    BY <1>1 DEF IdleBalance, RqKept, HInv, HmpTypeOK
  <2> QED BY <2>1, <2>2
<1>2. CASE Rebalance(b)
  BY <1>2, RebalanceCases DEF Gives
<1>3. CASE PullOrder(b)
  BY <1>3, PullOrderOutcome
<1>4. CASE ForceBegin(b)
  <2>1. bal[b].pc = "up"
    BY <1>4 DEF ForceBegin, Up, Step
  <2> QED BY <1>4, <2>1, ForceBeginRests DEF Gives, ForceBegin
<1>5. CASE ScanStep(b)
  <2>1. ASSUME NEW d \in CPU, NEW f \in CPU, ForceUpDelayed(b, d, f) PROVE Gives(b)
    BY <2>1, ForceUpDelayedRests DEF Gives, ForceUpDelayed, AskToPull
  <2>2. ASSUME ForceEnd(b) PROVE Gives(b)
    BY <2>2, ForceEndRests DEF Gives, ForceEnd
  <2> QED BY <1>5, <2>1, <2>2, ForceUpOutcome, ForceDownOutcome DEF ScanStep
<1> QED BY <1>1, <1>2, <1>3, <1>4, <1>5 DEF BalanceStep

(* The steps of the scheduler around it leave balancers and stoppers alone. *)
SchedOnly == /\ UNCHANGED <<rq, stopper, bal, hmpLock, cfg>>
             /\ \/ \E c \in CPU, s \in {"asleep", "dead"} : Deactivate(c, s)
                \/ \E c \in CPU : ContextSwitch(c)
                \/ \E t \in Task, c \in CPU : TryToWakeUp(t, c)
                \/ \E t \in Task : Reap(t)
                \/ \E b, d \in CPU, t \in Task : LoadBalance(b, d, t)
                \/ \E c \in CPU : SchedulerIpi(c)

(* Every step, by what it does to the orders. *)
LEMMA StepCases ==
  ASSUME HInv, HNext
  PROVE  \/ SchedOnly
         \/ \E b, d \in CPU : LoadBalanceActive(b, d)
         \/ \E b \in CPU : \/ Meets(b) /\ RqKept
                           \/ Gives(b) \/ Orders(b) \/ MigrateRunnable(b) \/ QueueStopper(b)
                           \/ StopperRun(b) \/ StopperCheck(b) \/ StopperMove(b) \/ StopperPut(b)
<1>1. CASE SchedStep
  <2>1. ASSUME NEW c \in CPU, NEW s \in {"asleep", "dead"}, Deactivate(c, s) PROVE SchedOnly
    BY <2>1 DEF SchedOnly, Deactivate
  <2>2. ASSUME NEW c \in CPU, ContextSwitch(c) PROVE SchedOnly
    BY <2>2 DEF SchedOnly, ContextSwitch
  <2>3. ASSUME NEW t \in Task, NEW c \in CPU, TryToWakeUp(t, c) PROVE SchedOnly
    BY <2>3 DEF SchedOnly, TryToWakeUp
  <2>4. ASSUME NEW t \in Task, Reap(t) PROVE SchedOnly
    BY <2>4 DEF SchedOnly, Reap
  <2>5. ASSUME NEW b \in CPU, NEW d \in CPU, NEW t \in Task, LoadBalance(b, d, t) PROVE SchedOnly
    BY <2>5 DEF SchedOnly, LoadBalance
  <2> QED BY <1>1, <2>1, <2>2, <2>3, <2>4, <2>5 DEF SchedStep
<1>2. ASSUME NEW c \in CPU, SchedulerIpi(c) PROVE SchedOnly
  BY <1>2 DEF SchedOnly, SchedulerIpi
<1> QED BY <1>1, <1>2, BalancerCases DEF HNext, StopperStep
-----------------------------------------------------------------------------
(* What the stopper does.                                                    *)

(* It gives up or is done: the order is gone, its reference is still held. *)
LEMMA LeaveEffect ==
  ASSUME HInv, NEW c \in CPU, stopper[c].pc \in {"check", "move"}, StopperLeave(c)
  PROVE  /\ rq' \in [CPU -> RunQueue] /\ stopper' \in [CPU -> StopCall]
         /\ ~rq'[c].active /\ rq'[c].work = rq[c].work
         /\ \A d \in CPU \ {c} : rq'[d] = rq[d] /\ stopper'[d] = stopper[d]
         /\ stopper'[c].pc = (IF stopper[c].fn = "hmp" THEN "put" ELSE "idle")
         /\ stopper'[c].fn = (IF stopper[c].fn = "hmp" THEN "hmp" ELSE "none")
         /\ stopper[c].fn = "hmp" => stopper'[c].p = stopper[c].p
<1> DEFINE r == IF stopper[c].fn = "hmp"
                THEN Step("put", stopper[c].fn, NONE, stopper[c].p, NONE) ELSE Idle
<1>1. stopper' = [stopper EXCEPT ![c] = r]
  BY DEF StopperLeave
<1>2. r \in StopCall
  BY DEF HInv, HmpTypeOK, StopCall, Step, Idle
<1>3. /\ r.pc = (IF stopper[c].fn = "hmp" THEN "put" ELSE "idle")
      /\ r.fn = (IF stopper[c].fn = "hmp" THEN "hmp" ELSE "none")
      /\ stopper[c].fn = "hmp" => r.p = stopper[c].p
  BY DEF Step, Idle
<1> HIDE DEF r
<1>4. /\ stopper'[c] = r /\ \A d \in CPU \ {c} : stopper'[d] = stopper[d]
      /\ stopper' \in [CPU -> StopCall]
  BY <1>1, <1>2 DEF HInv, HmpTypeOK
<1>5. /\ rq' \in [CPU -> RunQueue]
      /\ ~rq'[c].active /\ rq'[c].work = rq[c].work
      /\ \A d \in CPU \ {c} : rq'[d] = rq[d]
  <2>1. /\ rq \in [CPU -> RunQueue]
        /\ rq' = [rq EXCEPT ![c].active = FALSE, ![c].push = c, ![c].task = NONE]
    BY DEF StopperLeave, HInv, HmpTypeOK
  <2> DEFINE q1 == [rq[c] EXCEPT !.active = FALSE]
             q2 == [q1 EXCEPT !.push = c]
             q3 == [q2 EXCEPT !.task = NONE]
  <2>2. rq' = [rq EXCEPT ![c] = q3]
    BY <2>1
  <2>3. rq[c] \in RunQueue
    BY <2>1
  <2>4. q1 \in RunQueue /\ ~q1.active /\ q1.work = rq[c].work
    BY <2>3 DEF RunQueue
  <2> HIDE DEF q1
  <2>5. q2 \in RunQueue /\ ~q2.active /\ q2.work = rq[c].work
    BY <2>4 DEF RunQueue
  <2> HIDE DEF q2
  <2>6. q3 \in RunQueue /\ ~q3.active /\ q3.work = rq[c].work
    BY <2>5 DEF RunQueue
  <2> HIDE DEF q3
  <2> QED BY <2>1, <2>2, <2>6
<1> QED BY <1>3, <1>4, <1>5

(* It takes the work off its list. *)
LEMMA StopperRunEffect ==
  ASSUME HInv, NEW c \in CPU, StopperRun(c)
  PROVE  /\ rq' \in [CPU -> RunQueue] /\ stopper' \in [CPU -> StopCall]
         /\ rq[c].work # "none" /\ stopper[c].pc = "idle" /\ stopper[c].fn = "none"
         /\ rq'[c].work = "none" /\ rq'[c].active = rq[c].active /\ rq'[c].push = rq[c].push
         /\ rq'[c].task = rq[c].task
         /\ \A d \in CPU \ {c} : rq'[d] = rq[d] /\ stopper'[d] = stopper[d]
         /\ stopper'[c].pc = "check" /\ stopper'[c].fn = rq[c].work
         /\ stopper'[c].p = rq[c].task /\ stopper'[c].dst = rq[c].push
<1>1. rq[c].work # "none" /\ stopper[c].pc = "idle" /\ stopper[c].fn = "none"
  BY DEF StopperRun, Free, Idle, Step
<1> DEFINE r == Step("check", rq[c].work, c, rq[c].task, rq[c].push)
<1>2. r \in StopCall
  BY <1>1 DEF HInv, HmpTypeOK, RunQueue, StopCall, Step
<1>3. /\ r.pc = "check" /\ r.fn = rq[c].work /\ r.p = rq[c].task /\ r.dst = rq[c].push
  BY DEF Step
<1>4. stopper' = [stopper EXCEPT ![c] = r]
  BY DEF StopperRun
<1> HIDE DEF r
<1>5. /\ stopper'[c] = r /\ \A d \in CPU \ {c} : stopper'[d] = stopper[d]
      /\ stopper' \in [CPU -> StopCall]
  BY <1>2, <1>4 DEF HInv, HmpTypeOK
<1>6. rq \in [CPU -> RunQueue] /\ rq' = [rq EXCEPT ![c].work = "none"]
  BY DEF StopperRun, HInv, HmpTypeOK
<1>7. /\ rq' \in [CPU -> RunQueue]
      /\ rq'[c].work = "none" /\ rq'[c].active = rq[c].active /\ rq'[c].push = rq[c].push
      /\ rq'[c].task = rq[c].task
      /\ \A d \in CPU \ {c} : rq'[d] = rq[d]
  BY <1>6 DEF RunQueue
<1> QED BY <1>1, <1>3, <1>5, <1>7

(* It finds the task still there, and looks for the locks. *)
StopperStays(c) ==
  /\ stopper[c].pc = "check" /\ stopper' = [stopper EXCEPT ![c].pc = "move"]
  /\ UNCHANGED <<tsk, running, rq, bal, hmpLock, cfg>>

(* A stopper that may move the task goes on to move it. *)
LEMMA StaysEffect ==
  ASSUME HInv, NEW c \in CPU, StopperStays(c)
  PROVE  /\ stopper' \in [CPU -> StopCall] /\ stopper'[c].pc = "move"
         /\ stopper'[c].fn = stopper[c].fn /\ stopper'[c].p = stopper[c].p
         /\ stopper'[c].dst = stopper[c].dst
         /\ \A d \in CPU \ {c} : stopper'[d] = stopper[d]
<1>1. stopper \in [CPU -> StopCall] /\ stopper' = [stopper EXCEPT ![c].pc = "move"]
  BY DEF HInv, HmpTypeOK, StopperStays
<1> QED BY <1>1 DEF StopCall

(* It gives up. *)
StopperQuits(c) ==
  /\ stopper[c].pc \in {"check", "move"} /\ StopperLeave(c)
  /\ UNCHANGED <<running, bal, hmpLock, cfg>>

(* hmp_active_task_migration_cpu_stop goes on or quits. *)
LEMMA StopperCheckCases ==
  ASSUME NEW c \in CPU, StopperCheck(c)
  PROVE  StopperStays(c) \/ (StopperQuits(c) /\ UNCHANGED tsk)
BY DEF StopperCheck, StopperStays, StopperQuits

(* It drops its reference. *)
LEMMA PutEffect ==
  ASSUME HInv, NEW c \in CPU, StopperPut(c)
  PROVE  /\ stopper[c].pc = "put" /\ stopper[c].fn = "hmp" /\ stopper[c].p \in Task
         /\ stopper' \in [CPU -> StopCall]
         /\ stopper'[c].pc = "idle" /\ stopper'[c].fn = "none"
         /\ \A d \in CPU \ {c} : stopper'[d] = stopper[d]
<1>1. stopper[c].pc = "put" /\ stopper[c].fn = "hmp" /\ stopper[c].p \in Task
  BY DEF StopperPut, HInv, OrdersNamed
<1>2. Idle \in StopCall /\ Idle.pc = "idle" /\ Idle.fn = "none"
  BY DEF Idle, Step, StopCall
<1> QED BY <1>1, <1>2 DEF StopperPut, HInv, HmpTypeOK

(* stop_one_cpu_nowait puts the work on its list. *)
LEMMA QueueStopperEffect ==
  ASSUME HInv, NEW b \in CPU, QueueStopper(b)
  PROVE  /\ bal[b].pc = "queue" /\ bal[b].src \in CPU
         /\ rq' \in [CPU -> RunQueue]
         /\ rq'[bal[b].src].work = (IF bal[b].fn = "lb" THEN "lb" ELSE "hmp")
         /\ rq'[bal[b].src].active = rq[bal[b].src].active
         /\ rq'[bal[b].src].push = rq[bal[b].src].push
         /\ rq'[bal[b].src].task = rq[bal[b].src].task
         /\ \A d \in CPU \ {bal[b].src} : rq'[d] = rq[d]
<1> DEFINE d == bal[b].src
           w == IF bal[b].fn = "lb" THEN "lb" ELSE "hmp"
<1>1. bal[b].pc = "queue" /\ d \in CPU
  BY DEF HInv, OrdersNamed, QueueStopper
<1>2. rq \in [CPU -> RunQueue] /\ rq' = [rq EXCEPT ![d].work = w] /\ w \in {"lb", "hmp"}
  BY DEF QueueStopper, HInv, HmpTypeOK
<1> HIDE DEF d, w
<1>3. /\ rq' \in [CPU -> RunQueue]
      /\ rq'[d].work = w /\ rq'[d].active = rq[d].active /\ rq'[d].push = rq[d].push
      /\ rq'[d].task = rq[d].task /\ \A c \in CPU \ {d} : rq'[c] = rq[c]
  BY <1>1, <1>2 DEF RunQueue
<1> QED BY <1>1, <1>3 DEF d, w

(* An order is noted for the stopper. *)
LEMMA OrderStopperEffect ==
  ASSUME HInv, NEW b \in CPU, NEW fn, NEW src, NEW p, NEW dst,
         OrderReady(b, fn, src, p, dst), OrderStopper(b, fn, src, p, dst)
  PROVE  /\ rq' \in [CPU -> RunQueue]
         /\ rq'[src].active /\ rq'[src].push = dst /\ rq'[src].task = p
         /\ rq'[src].work = rq[src].work
         /\ \A d \in CPU \ {src} : rq'[d] = rq[d]
<1>1. /\ rq \in [CPU -> RunQueue] /\ src \in CPU /\ dst \in CPU /\ p \in Task
      /\ rq' = [rq EXCEPT ![src].push = dst, ![src].task = p, ![src].active = TRUE]
  BY DEF HInv, HmpTypeOK, OrderReady, OrderStopper
<1>2. rq' \in [CPU -> RunQueue]
  BY <1>1 DEF RunQueue
<1> QED BY <1>1, <1>2 DEF RunQueue

(* The balancer notes the order it has given. *)
LEMMA OrderBalancing ==
  ASSUME HInv, NEW b \in CPU, NEW fn, NEW src, NEW p, NEW dst, NEW how \in {"queue", "move"},
         OrderReady(b, fn, src, p, dst), bal' = [bal EXCEPT ![b] = Step(how, fn, src, p, dst)]
  PROVE  /\ bal' \in [CPU -> Balancing]
         /\ bal'[b].pc = how /\ bal'[b].fn = fn /\ bal'[b].src = src /\ bal'[b].p = p
         /\ bal'[b].dst = dst
         /\ \A a \in CPU \ {b} : bal'[a] = bal[a]
<1> DEFINE r == Step(how, fn, src, p, dst)
<1>1. /\ r \in Balancing /\ r.pc = how /\ r.fn = fn /\ r.src = src /\ r.p = p /\ r.dst = dst
  BY DEF OrderReady, Step, Balancing
<1> HIDE DEF r
<1> QED BY <1>1 DEF HInv, HmpTypeOK, r

(* load_balance orders the stopper to push the task its CPU runs. *)
LEMMA LoadBalanceActiveEffect ==
  ASSUME HInv, NEW b \in CPU, NEW d \in CPU, LoadBalanceActive(b, d)
  PROVE  /\ rq' \in [CPU -> RunQueue] /\ bal' \in [CPU -> Balancing]
         /\ ~rq[d].active /\ rq'[d].active
         /\ rq'[d].work = rq[d].work /\ rq'[d].task = rq[d].task
         /\ \A c \in CPU \ {d} : rq'[c] = rq[c]
         /\ bal[b].pc = "idle" /\ bal'[b].pc = "queue" /\ bal'[b].fn = "lb"
         /\ bal'[b].src = d /\ bal'[b].p = NONE
         /\ \A a \in CPU \ {b} : bal'[a] = bal[a]
<1>1. bal[b].pc = "idle" /\ ~rq[d].active
  BY DEF LoadBalanceActive, Free, Idle, Step
<1>2. /\ rq \in [CPU -> RunQueue]
      /\ rq' = [rq EXCEPT ![d].active = TRUE, ![d].push = b]
  BY DEF LoadBalanceActive, HInv, HmpTypeOK
<1>3. rq' \in [CPU -> RunQueue]
  BY <1>2 DEF RunQueue
<1>4. /\ rq'[d].active /\ rq'[d].work = rq[d].work /\ rq'[d].task = rq[d].task
      /\ \A c \in CPU \ {d} : rq'[c] = rq[c]
  BY <1>2 DEF RunQueue
<1> DEFINE r == Step("queue", "lb", d, NONE, NONE)
<1>5. r \in Balancing /\ r.pc = "queue" /\ r.fn = "lb" /\ r.src = d /\ r.p = NONE
  BY DEF Step, Balancing
<1>6. bal' = [bal EXCEPT ![b] = r]
  BY DEF LoadBalanceActive
<1> HIDE DEF r
<1>7. bal' \in [CPU -> Balancing] /\ bal'[b] = r /\ \A a \in CPU \ {b} : bal'[a] = bal[a]
  BY <1>5, <1>6 DEF HInv, HmpTypeOK
<1> QED BY <1>1, <1>3, <1>4, <1>5, <1>7
-----------------------------------------------------------------------------
(* The handshake.                                                            *)

(* Steps that neither begin nor end an order. *)
LEMMA HandshakeFrame ==
  ASSUME HInv, RqKept, UNCHANGED stopper,
         \A a \in CPU : bal[a].pc = "queue" \/ bal'[a].pc = "queue" => bal'[a] = bal[a]
  PROVE  HandshakeOwned'
<1>1. \A c \in CPU : StopperOwes(c)' <=> StopperOwes(c)
  BY DEF StopperOwes
<1>2. \A c \in CPU : OrderPending(c)' <=> OrderPending(c)
  BY DEF OrderPending, RqKept
<1>3. \A a, c \in CPU : Ordering(a, c)' <=> Ordering(a, c)
  BY DEF Ordering
<1> QED BY <1>1, <1>2, <1>3 DEF HInv, HandshakeOwned, RqKept

(* A queue without an order has nobody who works on one. *)
LEMMA NoOrder ==
  ASSUME HInv, NEW d \in CPU, ~rq[d].active
  PROVE  ~StopperOwes(d) /\ ~OrderPending(d) /\ \A a \in CPU : ~Ordering(a, d)
BY DEF HInv, HandshakeOwned

(* A balancer that is at work on no order begins one, at a queue that has none. *)
LEMMA HandshakeBegin ==
  ASSUME HInv, NEW b \in CPU, NEW d \in CPU, ~rq[d].active, UNCHANGED stopper,
         rq'[d].active, rq'[d].work = rq[d].work, \A c \in CPU \ {d} : rq'[c] = rq[c],
         bal[b].pc # "queue", bal'[b].pc = "queue", bal'[b].src = d,
         \A a \in CPU \ {b} : bal'[a] = bal[a]
  PROVE  HandshakeOwned'
<1>1. \A c \in CPU : StopperOwes(c)' <=> StopperOwes(c)
  BY DEF StopperOwes
<1>2. \A c \in CPU : OrderPending(c)' <=> OrderPending(c)
  BY DEF OrderPending
<1>3. \A a, c \in CPU : Ordering(a, c)' <=> (Ordering(a, c) \/ (a = b /\ c = d))
  BY DEF Ordering
<1> QED BY <1>1, <1>2, <1>3, NoOrder DEF HInv, HandshakeOwned

(* Every step keeps active_balance owned. *)
LEMMA HandshakeStep ==
  ASSUME HInv, HNext PROVE HandshakeOwned'
<1>1. CASE SchedOnly
  <2>1. RqKept
    BY <1>1 DEF SchedOnly, RqKept, HInv, HmpTypeOK
  <2> QED BY <1>1, <2>1, HandshakeFrame DEF SchedOnly
<1>2. ASSUME NEW b \in CPU, NEW d \in CPU, LoadBalanceActive(b, d) PROVE HandshakeOwned'
  <2>1. UNCHANGED stopper
    BY <1>2 DEF LoadBalanceActive
  <2> QED BY <1>2, <2>1, LoadBalanceActiveEffect, HandshakeBegin
<1>3. ASSUME NEW b \in CPU, Meets(b), RqKept PROVE HandshakeOwned'
  <2>1. \A a \in CPU : bal[a].pc = "queue" \/ bal'[a].pc = "queue" => bal'[a] = bal[a]
    BY <1>3 DEF Meets, HInv, HmpTypeOK
  <2> QED BY <1>3, <2>1, HandshakeFrame DEF Meets
<1>4. ASSUME NEW b \in CPU, Rests(b), RqKept, UNCHANGED stopper, bal[b].pc # "queue"
      PROVE HandshakeOwned'
  <2>1. \A a \in CPU : bal[a].pc = "queue" \/ bal'[a].pc = "queue" => bal'[a] = bal[a]
    BY <1>4 DEF Rests, HInv, HmpTypeOK
  <2> QED BY <1>4, <2>1, HandshakeFrame
<1>5. ASSUME NEW b \in CPU, MigrateRunnable(b) PROVE HandshakeOwned'
  <2>1. bal[b].pc # "queue"
    BY <1>5 DEF MigrateRunnable
  <2> QED BY <1>4, <1>5, <2>1, MigrateRunnableRests
<1>6. ASSUME NEW b \in CPU, Orders(b) PROVE HandshakeOwned'
  <2>1. PICK fn, src, p, dst : /\ OrderReady(b, fn, src, p, dst)
                               /\ \/ OrderStopper(b, fn, src, p, dst)
                                  \/ OrderMove(b, fn, src, p, dst)
    BY <1>6 DEF Orders
  <2>2. /\ src \in CPU /\ ~rq[src].active /\ UNCHANGED stopper
        /\ bal[b].pc \notin {"queue", "move"}
    BY <2>1 DEF OrderReady
  <2>3. CASE OrderStopper(b, fn, src, p, dst)
    <3>1. /\ rq'[src].active /\ rq'[src].work = rq[src].work
          /\ \A d \in CPU \ {src} : rq'[d] = rq[d]
      BY <2>1, <2>3, OrderStopperEffect
    <3>2. /\ bal'[b].pc = "queue" /\ bal'[b].src = src
          /\ \A a \in CPU \ {b} : bal'[a] = bal[a]
      BY <2>1, <2>3, OrderBalancing DEF OrderStopper
    <3> QED BY <2>2, <3>1, <3>2, HandshakeBegin
  <2>4. CASE OrderMove(b, fn, src, p, dst)
    <3>1. bal'[b].pc = "move" /\ \A a \in CPU \ {b} : bal'[a] = bal[a]
      BY <2>1, <2>4, OrderBalancing DEF OrderMove
    <3>2. RqKept
      BY <2>4 DEF OrderMove, RqKept, HInv, HmpTypeOK
    <3> QED BY <2>2, <3>1, <3>2, HandshakeFrame
  <2> QED BY <2>1, <2>3, <2>4
<1>7. ASSUME NEW b \in CPU, QueueStopper(b) PROVE HandshakeOwned'
  <2> DEFINE d == bal[b].src
  <2>1. /\ bal'[b].pc # "queue" /\ \A a \in CPU \ {b} : bal'[a] = bal[a]
        /\ UNCHANGED stopper
    BY <1>7, QueueStopperRests DEF Rests, HInv, HmpTypeOK
  <2>2. /\ bal[b].pc = "queue" /\ d \in CPU /\ rq'[d].work # "none"
        /\ rq'[d].active = rq[d].active /\ rq'[d].push = rq[d].push
        /\ \A c \in CPU \ {d} : rq'[c] = rq[c]
    BY <1>7, QueueStopperEffect
  <2>3. \A c \in CPU : StopperOwes(c)' <=> StopperOwes(c)
    BY <2>1 DEF StopperOwes
  <2>4. \A c \in CPU : OrderPending(c)' <=> (OrderPending(c) \/ c = d)
    BY <2>2 DEF OrderPending
  <2>5. \A a, c \in CPU : Ordering(a, c)' <=> (Ordering(a, c) /\ a # b)
    BY <2>1 DEF Ordering
  <2>6. Ordering(b, d) /\ \A c \in CPU : Ordering(b, c) => c = d
    BY <2>2 DEF Ordering
  <2> HIDE DEF d
  <2>7. ASSUME NEW c \in CPU
        PROVE /\ rq'[c].active <=> rq[c].active
              /\ rq'[c].push = rq[c].push
    BY <2>2
  <2> QED BY <2>1, <2>2, <2>3, <2>4, <2>5, <2>6, <2>7 DEF HInv, HandshakeOwned
<1>8. ASSUME NEW c \in CPU, StopperRun(c) PROVE HandshakeOwned'
  <2>1. UNCHANGED bal
    BY <1>8 DEF StopperRun
  <2>2. \A a, d \in CPU : Ordering(a, d)' <=> Ordering(a, d)
    BY <2>1 DEF Ordering
  <2>3. /\ OrderPending(c) /\ ~OrderPending(c)' /\ StopperOwes(c)'
        /\ rq'[c].active = rq[c].active /\ stopper'[c].dst = rq'[c].push
    BY <1>8, StopperRunEffect DEF OrderPending, StopperOwes
  <2>4. \A d \in CPU \ {c} : /\ OrderPending(d)' <=> OrderPending(d)
                             /\ StopperOwes(d)' <=> StopperOwes(d)
                             /\ rq'[d] = rq[d] /\ stopper'[d] = stopper[d]
    BY <1>8, StopperRunEffect DEF OrderPending, StopperOwes
  <2> QED BY <2>2, <2>3, <2>4 DEF HInv, HandshakeOwned
<1>9. ASSUME NEW c \in CPU, StopperStays(c) PROVE HandshakeOwned'
  <2>1. UNCHANGED <<bal, rq>>
    BY <1>9 DEF StopperStays
  <2>2. /\ \A a, d \in CPU : Ordering(a, d)' <=> Ordering(a, d)
        /\ \A d \in CPU : OrderPending(d)' <=> OrderPending(d)
    BY <2>1 DEF Ordering, OrderPending
  <2>3. /\ \A d \in CPU : StopperOwes(d)' <=> StopperOwes(d)
        /\ \A d \in CPU : stopper'[d].dst = stopper[d].dst
    BY <1>9, StaysEffect DEF StopperOwes, StopperStays
  <2> QED BY <2>1, <2>2, <2>3 DEF HInv, HandshakeOwned
<1>10. ASSUME NEW c \in CPU, StopperQuits(c) PROVE HandshakeOwned'
  <2>1. UNCHANGED bal /\ stopper[c].pc \in {"check", "move"} /\ StopperLeave(c)
    BY <1>10 DEF StopperQuits
  <2>2. \A a, d \in CPU : Ordering(a, d)' <=> Ordering(a, d)
    BY <2>1 DEF Ordering
  <2>3. StopperOwes(c) /\ ~StopperOwes(c)' /\ ~rq'[c].active /\ (OrderPending(c)' <=> OrderPending(c))
    BY <2>1, LeaveEffect DEF OrderPending, StopperOwes
  <2>4. \A d \in CPU \ {c} : /\ OrderPending(d)' <=> OrderPending(d)
                             /\ StopperOwes(d)' <=> StopperOwes(d)
                             /\ rq'[d] = rq[d] /\ stopper'[d] = stopper[d]
    BY <2>1, LeaveEffect DEF OrderPending, StopperOwes
  <2> QED BY <2>2, <2>3, <2>4 DEF HInv, HandshakeOwned
<1>11. ASSUME NEW c \in CPU, StopperPut(c) PROVE HandshakeOwned'
  <2>1. UNCHANGED <<bal, rq>>
    BY <1>11 DEF StopperPut
  <2>2. /\ \A a, d \in CPU : Ordering(a, d)' <=> Ordering(a, d)
        /\ \A d \in CPU : OrderPending(d)' <=> OrderPending(d)
    BY <2>1 DEF Ordering, OrderPending
  <2>3. /\ \A d \in CPU : StopperOwes(d)' <=> StopperOwes(d)
        /\ \A d \in CPU : StopperOwes(d) => stopper'[d].dst = stopper[d].dst
    BY <1>11, PutEffect DEF StopperOwes
  <2> QED BY <2>1, <2>2, <2>3 DEF HInv, HandshakeOwned
<1> QED BY StepCases, <1>1, <1>2, <1>3, <1>4, <1>5, <1>6, <1>7, <1>8, <1>9, <1>10, <1>11,
  StopperCheckCases DEF Gives, StopperMove, StopperQuits
-----------------------------------------------------------------------------
(* The hmp_force_migration lock.                                             *)
LEMMA OneMigratorStep ==
  ASSUME HInv, HNext PROVE OneMigrator'
<1> DEFINE Migrates(b) == bal[b].pc \in {"scan", "found", "move", "queue"} /\ bal[b].fn # "lb"
<1>0. \A b \in CPU : Migrates(b) <=> hmpLock = b
  BY DEF HInv, OneMigrator
<1>1. CASE UNCHANGED <<bal, hmpLock>>
  BY <1>0, <1>1 DEF OneMigrator
<1>2. ASSUME NEW b \in CPU, NEW d \in CPU, LoadBalanceActive(b, d) PROVE OneMigrator'
  <2>1. UNCHANGED hmpLock
    BY <1>2 DEF LoadBalanceActive
  <2>2. ~Migrates(b) /\ ~Migrates(b)' /\ \A a \in CPU \ {b} : bal'[a] = bal[a]
    BY <1>2, LoadBalanceActiveEffect
  <2> QED BY <1>0, <2>1, <2>2 DEF OneMigrator
<1>3. ASSUME NEW b \in CPU, Meets(b) PROVE OneMigrator'
  <2>1. hmpLock = NONE /\ hmpLock' = b /\ Migrates(b)' /\ \A a \in CPU \ {b} : bal'[a] = bal[a]
    BY <1>3 DEF Meets, HInv, HmpTypeOK
  <2> QED BY <1>0, <2>1, HmpAssumption DEF OneMigrator
<1>4. ASSUME NEW b \in CPU, Rests(b) PROVE OneMigrator'
  <2>1. /\ Migrates(b)' <=> bal'[b].pc = "scan"
        /\ \A a \in CPU \ {b} : bal'[a] = bal[a]
        /\ bal'[b].pc = "scan" => hmpLock \in {NONE, b}
        /\ hmpLock' = IF bal'[b].pc = "scan" THEN b ELSE IF hmpLock = b THEN NONE ELSE hmpLock
    BY <1>4 DEF Rests, HInv, HmpTypeOK
  <2> QED BY <1>0, <2>1, HmpAssumption DEF OneMigrator
<1>5. ASSUME NEW b \in CPU, Orders(b) PROVE OneMigrator'
  <2>1. PICK fn, src, p, dst : /\ OrderReady(b, fn, src, p, dst)
                               /\ \/ OrderStopper(b, fn, src, p, dst)
                                  \/ OrderMove(b, fn, src, p, dst)
    BY <1>5 DEF Orders
  <2>2. /\ bal'[b].pc \in {"queue", "move"} /\ bal'[b].fn = fn
        /\ \A a \in CPU \ {b} : bal'[a] = bal[a]
    BY <2>1, OrderBalancing DEF OrderMove, OrderStopper
  <2>3. fn # "lb" /\ hmpLock = b /\ hmpLock' = hmpLock
    BY <2>1 DEF OrderReady, OrderMove, OrderStopper
  <2> QED BY <1>0, <2>2, <2>3 DEF OneMigrator
<1>6. ASSUME NEW c \in CPU, StopperRun(c) \/ StopperCheck(c) \/ StopperMove(c) \/ StopperPut(c)
      PROVE  UNCHANGED <<bal, hmpLock>>
  BY <1>6 DEF StopperRun, StopperCheck, StopperMove, StopperPut
<1> QED BY StepCases, <1>1, <1>2, <1>3, <1>4, <1>5, <1>6, MigrateRunnableRests, QueueStopperRests
  DEF SchedOnly, Gives
-----------------------------------------------------------------------------
(* What an order names.                                                      *)

(* The two halves of OrdersNamed. *)
BalancerNamed(b) ==
  LET s == bal[b] IN
  /\ s.pc \in {"idle", "up", "scan"} => s.fn = "none"
  /\ s.pc \in {"found", "move"} => s.src \in CPU /\ s.p \in Task
  /\ s.pc = "found" => s.fn \in {"pull", "newidle"}
  /\ s.pc = "move" => s.fn \in {"up", "down", "pull", "newidle"} /\ s.dst \in CPU
  /\ s.pc = "queue" => /\ s.src \in CPU /\ s.fn # "none"
                       /\ IF s.fn = "lb" THEN s.p = NONE
                                         ELSE s.p \in Task /\ rq[s.src].task = s.p

StopperNamed(c) ==
  /\ rq[c].work = "hmp" => rq[c].task \in Task
  /\ stopper[c].pc = "idle" <=> stopper[c].fn = "none"
  /\ stopper[c].fn = "hmp" => stopper[c].p \in Task
  /\ stopper[c].pc = "put" => stopper[c].fn = "hmp"

(* OrdersNamed, per balancer and per stopper. *)
LEMMA OrdersNamedParts ==
  OrdersNamed <=> (\A b \in CPU : BalancerNamed(b)) /\ (\A c \in CPU : StopperNamed(c))
BY DEF OrdersNamed, BalancerNamed, StopperNamed

(* A balancer at rest keeps its order while the run queue keeps the task. *)
LEMMA BalancerNamedFrame ==
  ASSUME NEW a \in CPU, bal'[a] = bal[a], BalancerNamed(a),
         \A c \in CPU : bal[a].pc = "queue" /\ bal[a].src = c => rq'[c].task = rq[c].task
  PROVE  BalancerNamed(a)'
BY DEF BalancerNamed

(* An order that a balancer works on is overwritten by nobody else. *)
LEMMA OrderOwned ==
  ASSUME HInv, NEW a \in CPU, bal[a].pc = "queue", NEW c \in CPU, bal[a].src = c
  PROVE  /\ rq[c].active /\ stopper[c].pc \notin {"check", "move"}
         /\ \A b \in CPU \ {a} : ~(bal[b].pc = "queue" /\ bal[b].src = c)
BY DEF HInv, HandshakeOwned, Ordering, StopperOwes

(* Every step keeps the orders named. *)
LEMMA OrdersNamedStep ==
  ASSUME HInv, HNext PROVE OrdersNamed'
<1>0. (\A b \in CPU : BalancerNamed(b)) /\ (\A c \in CPU : StopperNamed(c))
  BY OrdersNamedParts DEF HInv
<1> DEFINE Goal == (\A b \in CPU : BalancerNamed(b)') /\ (\A c \in CPU : StopperNamed(c)')
<1>a. ASSUME RqKept PROVE \A a \in CPU : bal'[a] = bal[a] => BalancerNamed(a)'
  BY <1>0, <1>a, BalancerNamedFrame DEF RqKept
<1>b. ASSUME RqKept, UNCHANGED stopper PROVE \A c \in CPU : StopperNamed(c)'
  BY <1>0, <1>b DEF StopperNamed, RqKept
<1>1. ASSUME SchedOnly PROVE Goal
  <2>1. RqKept /\ UNCHANGED <<bal, stopper>>
    BY <1>1 DEF SchedOnly, RqKept, HInv, HmpTypeOK
  <2> QED BY <2>1, <1>a, <1>b
<1>2. ASSUME NEW b \in CPU, NEW d \in CPU, LoadBalanceActive(b, d) PROVE Goal
  <2>1. UNCHANGED stopper
    BY <1>2 DEF LoadBalanceActive
  <2>2. /\ bal'[b].pc = "queue" /\ bal'[b].fn = "lb" /\ bal'[b].src = d /\ bal'[b].p = NONE
        /\ \A a \in CPU \ {b} : bal'[a] = bal[a]
    BY <1>2, LoadBalanceActiveEffect
  <2>3. \A c \in CPU : rq'[c].work = rq[c].work /\ rq'[c].task = rq[c].task
    BY <1>2, LoadBalanceActiveEffect
  <2>4. BalancerNamed(b)'
    BY <2>2 DEF BalancerNamed
  <2>5. \A a \in CPU \ {b} : BalancerNamed(a)'
    BY <1>0, <2>2, <2>3, BalancerNamedFrame
  <2>6. \A c \in CPU : StopperNamed(c)'
    BY <1>0, <2>1, <2>3 DEF StopperNamed
  <2> QED BY <2>4, <2>5, <2>6
<1>3. ASSUME NEW b \in CPU, Meets(b), RqKept PROVE Goal
  <2>1. BalancerNamed(b)' /\ \A a \in CPU \ {b} : bal'[a] = bal[a]
    BY <1>3 DEF Meets, BalancerNamed, HInv, HmpTypeOK
  <2>2. UNCHANGED stopper
    BY <1>3 DEF Meets
  <2> QED BY <1>3, <2>1, <2>2, <1>a, <1>b
<1>4. ASSUME NEW b \in CPU, Rests(b)
      PROVE BalancerNamed(b)' /\ \A a \in CPU \ {b} : bal'[a] = bal[a]
  BY <1>4 DEF Rests, BalancerNamed, HInv, HmpTypeOK
<1>5. ASSUME NEW b \in CPU, Rests(b), RqKept, UNCHANGED stopper PROVE Goal
  BY <1>4, <1>5, <1>a, <1>b
<1>6. ASSUME NEW b \in CPU, Orders(b) PROVE Goal
  <2>1. PICK fn, src, p, dst : /\ OrderReady(b, fn, src, p, dst)
                               /\ \/ OrderStopper(b, fn, src, p, dst)
                                  \/ OrderMove(b, fn, src, p, dst)
    BY <1>6 DEF Orders
  <2>2. /\ src \in CPU /\ dst \in CPU /\ p \in Task /\ fn \in {"up", "down", "pull", "newidle"}
        /\ ~rq[src].active /\ UNCHANGED stopper
    BY <2>1 DEF OrderReady
  <2>3. CASE OrderStopper(b, fn, src, p, dst)
    <3>1. /\ rq'[src].task = p /\ rq'[src].work = rq[src].work
          /\ \A d \in CPU \ {src} : rq'[d] = rq[d]
      BY <2>1, <2>3, OrderStopperEffect
    <3>2. /\ bal'[b].pc = "queue" /\ bal'[b].fn = fn /\ bal'[b].src = src /\ bal'[b].p = p
          /\ \A a \in CPU \ {b} : bal'[a] = bal[a]
      BY <2>1, <2>3, OrderBalancing DEF OrderStopper
    <3>3. BalancerNamed(b)'
      BY <2>2, <3>1, <3>2 DEF BalancerNamed
    <3>4. \A a \in CPU \ {b} : BalancerNamed(a)'
      BY <1>0, <2>2, <3>1, <3>2, OrderOwned, BalancerNamedFrame
    <3>5. \A c \in CPU : StopperNamed(c)'
      BY <1>0, <2>2, <3>1 DEF StopperNamed
    <3> QED BY <3>3, <3>4, <3>5
  <2>4. CASE OrderMove(b, fn, src, p, dst)
    <3>1. /\ bal'[b].pc = "move" /\ bal'[b].fn = fn /\ bal'[b].src = src /\ bal'[b].p = p
          /\ bal'[b].dst = dst /\ \A a \in CPU \ {b} : bal'[a] = bal[a]
      BY <2>1, <2>4, OrderBalancing DEF OrderMove
    <3>2. RqKept
      BY <2>4 DEF OrderMove, RqKept, HInv, HmpTypeOK
    <3>3. BalancerNamed(b)'
      BY <2>2, <3>1 DEF BalancerNamed
    <3> QED BY <2>2, <3>1, <3>2, <3>3, <1>a, <1>b
  <2> QED BY <2>1, <2>3, <2>4
<1>7. ASSUME NEW b \in CPU, QueueStopper(b) PROVE Goal
  <2>1. BalancerNamed(b)' /\ (\A a \in CPU \ {b} : bal'[a] = bal[a]) /\ UNCHANGED stopper
    BY <1>4, <1>7, QueueStopperRests
  <2>2. /\ bal[b].pc = "queue" /\ bal[b].src \in CPU
        /\ rq'[bal[b].src].work = (IF bal[b].fn = "lb" THEN "lb" ELSE "hmp")
        /\ \A c \in CPU : rq'[c].task = rq[c].task
        /\ \A c \in CPU \ {bal[b].src} : rq'[c] = rq[c]
    BY <1>7, QueueStopperEffect
  <2>3. \A a \in CPU \ {b} : BalancerNamed(a)'
    BY <1>0, <2>1, <2>2, BalancerNamedFrame
  <2>4. bal[b].fn # "lb" => rq[bal[b].src].task \in Task
    BY <1>0, <2>2 DEF BalancerNamed
  <2>5. \A c \in CPU : StopperNamed(c)'
    BY <1>0, <2>1, <2>2, <2>4 DEF StopperNamed
  <2> QED BY <2>1, <2>3, <2>5
<1>8. ASSUME NEW c \in CPU, StopperRun(c) PROVE Goal
  <2>1. UNCHANGED bal
    BY <1>8 DEF StopperRun
  <2>2. \A d \in CPU : rq'[d].task = rq[d].task
    BY <1>8, StopperRunEffect
  <2>3. \A a \in CPU : BalancerNamed(a)'
    BY <1>0, <2>1, <2>2, BalancerNamedFrame
  <2>4. StopperNamed(c)'
    BY <1>0, <1>8, StopperRunEffect DEF StopperNamed
  <2>5. \A d \in CPU \ {c} : StopperNamed(d)'
    BY <1>0, <1>8, StopperRunEffect DEF StopperNamed
  <2> QED BY <2>3, <2>4, <2>5
<1>9. ASSUME NEW c \in CPU, StopperStays(c) PROVE Goal
  <2>1. UNCHANGED <<bal, rq>> /\ stopper[c].pc = "check"
    BY <1>9 DEF StopperStays
  <2>2. \A a \in CPU : BalancerNamed(a)'
    BY <1>0, <2>1, BalancerNamedFrame
  <2>3. \A d \in CPU : StopperNamed(d)'
    BY <1>0, <1>9, <2>1, StaysEffect DEF StopperNamed
  <2> QED BY <2>2, <2>3
<1>10. ASSUME NEW c \in CPU, StopperQuits(c) PROVE Goal
  <2>1. UNCHANGED bal /\ stopper[c].pc \in {"check", "move"} /\ StopperLeave(c)
    BY <1>10 DEF StopperQuits
  <2>2. \A d \in CPU \ {c} : rq'[d] = rq[d] /\ stopper'[d] = stopper[d]
    BY <2>1, LeaveEffect
  <2>3. \A a \in CPU : BalancerNamed(a)'
    BY <1>0, <2>1, <2>2, OrderOwned, BalancerNamedFrame
  <2>4. rq[c].work = "none" /\ rq'[c].work = "none"
    BY <2>1, LeaveEffect DEF HInv, HandshakeOwned, StopperOwes, OrderPending
  <2>5. StopperNamed(c)'
    BY <1>0, <2>1, <2>4, LeaveEffect DEF StopperNamed
  <2>6. \A d \in CPU \ {c} : StopperNamed(d)'
    BY <1>0, <2>2 DEF StopperNamed
  <2> QED BY <2>3, <2>5, <2>6
<1>11. ASSUME NEW c \in CPU, StopperPut(c) PROVE Goal
  <2>1. UNCHANGED <<bal, rq>>
    BY <1>11 DEF StopperPut
  <2>2. \A a \in CPU : BalancerNamed(a)'
    BY <1>0, <2>1, BalancerNamedFrame
  <2>3. \A d \in CPU : StopperNamed(d)'
    BY <1>0, <1>11, <2>1, PutEffect DEF StopperNamed
  <2> QED BY <2>2, <2>3
<1>12. Goal
  <2> HIDE DEF Goal
  <2> QED BY StepCases, <1>1, <1>2, <1>3, <1>5, <1>6, <1>7, <1>8, <1>9, <1>10, <1>11,
    MigrateRunnableRests, StopperCheckCases DEF Gives, StopperMove, StopperQuits
<1> QED BY <1>12 DEF OrdersNamed, BalancerNamed, StopperNamed
-----------------------------------------------------------------------------
(* The tasks.                                                                *)

(* get_task_struct and put_task_struct. *)
LEMMA UsageEffect ==
  ASSUME tsk \in [Task -> TaskStruct], NEW p \in Task, NEW n \in Nat,
         tsk' = [tsk EXCEPT ![p].usage = n]
  PROVE  /\ tsk' \in [Task -> TaskStruct] /\ tsk'[p].usage = n
         /\ \A t \in Task \ {p} : tsk'[t] = tsk[t]
         /\ \A t \in Task : tsk'[t].state = tsk[t].state /\ tsk'[t].cpu = tsk[t].cpu
<1>1. tsk' \in [Task -> TaskStruct]
  BY DEF TaskStruct
<1>2. tsk'[p].usage = n /\ tsk'[p].state = tsk[p].state /\ tsk'[p].cpu = tsk[p].cpu
  BY DEF TaskStruct
<1>3. \A t \in Task \ {p} : tsk'[t] = tsk[t]
  BY DEF TaskStruct
<1> QED BY <1>1, <1>2, <1>3

(* A task moves from one queue to another. *)
LEMMA CpuEffect ==
  ASSUME tsk \in [Task -> TaskStruct], NEW p \in Task, NEW c \in CPU,
         tsk' = [tsk EXCEPT ![p].cpu = c]
  PROVE  /\ tsk' \in [Task -> TaskStruct] /\ tsk'[p].cpu = c
         /\ \A t \in Task \ {p} : tsk'[t] = tsk[t]
         /\ \A t \in Task : tsk'[t].state = tsk[t].state /\ tsk'[t].usage = tsk[t].usage
<1>1. tsk' \in [Task -> TaskStruct]
  BY DEF TaskStruct
<1>2. tsk'[p].cpu = c /\ tsk'[p].state = tsk[p].state /\ tsk'[p].usage = tsk[p].usage
  BY DEF TaskStruct
<1>3. \A t \in Task \ {p} : tsk'[t] = tsk[t]
  BY DEF TaskStruct
<1> QED BY <1>1, <1>2, <1>3

(* A task goes to sleep, exits or is reaped. *)
LEMMA StateEffect ==
  ASSUME tsk \in [Task -> TaskStruct], NEW p \in Task, NEW s \in {"ready", "asleep", "dead", "reaped"},
         tsk' = [tsk EXCEPT ![p].state = s]
  PROVE  /\ tsk' \in [Task -> TaskStruct] /\ tsk'[p].state = s
         /\ \A t \in Task \ {p} : tsk'[t] = tsk[t]
         /\ \A t \in Task : tsk'[t].cpu = tsk[t].cpu /\ tsk'[t].usage = tsk[t].usage
<1>1. tsk' \in [Task -> TaskStruct]
  BY DEF TaskStruct
<1>2. tsk'[p].cpu = tsk[p].cpu /\ tsk'[p].state = s /\ tsk'[p].usage = tsk[p].usage
  BY DEF TaskStruct
<1>3. \A t \in Task \ {p} : tsk'[t] = tsk[t]
  BY DEF TaskStruct
<1> QED BY <1>1, <1>2, <1>3

(* What holds a reference has one to give back. *)
LEMMA RefsNat ==
  ASSUME NEW t
  PROVE  /\ IsFiniteSet(MovingRefs(t)) /\ IsFiniteSet(OrderRefs(t)) /\ IsFiniteSet(StopperRefs(t))
         /\ Cardinality(MovingRefs(t)) \in Nat /\ Cardinality(OrderRefs(t)) \in Nat
         /\ Cardinality(StopperRefs(t)) \in Nat
<1>1. MovingRefs(t) \subseteq CPU /\ OrderRefs(t) \subseteq CPU /\ StopperRefs(t) \subseteq CPU
  BY DEF MovingRefs, OrderRefs, StopperRefs
<1>2. IsFiniteSet(MovingRefs(t)) /\ IsFiniteSet(OrderRefs(t)) /\ IsFiniteSet(StopperRefs(t))
  BY <1>1, HmpAssumption, FS_Subset
<1> QED BY <1>2, FS_CardinalityType

(* A task that somebody refers to has a usage count to drop. *)
LEMMA HeldUsage ==
  ASSUME HInv, NEW t \in Task, NEW c \in CPU,
         c \in MovingRefs(t) \/ c \in OrderRefs(t) \/ c \in StopperRefs(t)
  PROVE  tsk[t].usage - 1 \in Nat
<1>1. tsk[t].usage = Refs(t) + (IF tsk[t].state = "reaped" THEN 0 ELSE 1)
  BY DEF HInv, RefsCounted
<1>2. \/ Cardinality(MovingRefs(t)) # 0 \/ Cardinality(OrderRefs(t)) # 0
      \/ Cardinality(StopperRefs(t)) # 0
  BY RefsNat, FS_EmptySet
<1> QED BY <1>1, <1>2, RefsNat DEF Refs

(* hmp_migrate_runnable_task. *)
LEMMA MigrateRunnableEffect ==
  ASSUME HInv, NEW b \in CPU, MigrateRunnable(b)
  PROVE  /\ bal[b].pc = "move" /\ bal[b].p \in Task
         /\ tsk' \in [Task -> TaskStruct]
         /\ tsk'[bal[b].p].usage = tsk[bal[b].p].usage - 1
         /\ \A t \in Task \ {bal[b].p} : tsk'[t] = tsk[t]
         /\ \A t \in Task : tsk'[t].state = tsk[t].state
         /\ \A t \in Task : \/ tsk'[t].cpu = tsk[t].cpu
                            \/ ~IsRunning(t) /\ tsk'[t].cpu \in Allowed(t)
         /\ UNCHANGED <<running, rq, stopper, cfg>>
<1> DEFINE p == bal[b].p
           d == IF Movable(p, bal[b].src, bal[b].dst) THEN bal[b].dst ELSE tsk[p].cpu
           n == tsk[p].usage - 1
<1>1. bal[b].pc = "move" /\ p \in Task /\ bal[b].dst \in CPU
  BY DEF HInv, OrdersNamed, MigrateRunnable
<1>2. n \in Nat
  BY <1>1, HeldUsage DEF MovingRefs
<1>3. d \in CPU
  BY <1>1 DEF HInv, HmpTypeOK, TaskStruct
<1>4. d = tsk[p].cpu \/ (~IsRunning(p) /\ d \in Allowed(p))
  BY DEF Movable
<1>5. tsk' = [tsk EXCEPT ![p].usage = n, ![p].cpu = d]
  BY <1>1 DEF MigrateRunnable, HInv, HmpTypeOK, TaskStruct
<1> HIDE DEF p, d, n
<1>6. tsk \in [Task -> TaskStruct]
  BY DEF HInv, HmpTypeOK
<1>7. tsk' \in [Task -> TaskStruct]
  BY <1>1, <1>2, <1>3, <1>5, <1>6 DEF TaskStruct
<1>8. tsk'[p].usage = n /\ tsk'[p].cpu = d /\ tsk'[p].state = tsk[p].state
  BY <1>1, <1>2, <1>3, <1>5, <1>6 DEF TaskStruct
<1>9. \A t \in Task \ {p} : tsk'[t] = tsk[t]
  BY <1>1, <1>5, <1>6 DEF TaskStruct
<1>10. UNCHANGED <<running, rq, stopper, cfg>>
  BY DEF MigrateRunnable
<1>11. \A t \in Task : tsk'[t].state = tsk[t].state
  BY <1>8, <1>9
<1>12. \A t \in Task : tsk'[t].cpu = tsk[t].cpu \/ (~IsRunning(t) /\ tsk'[t].cpu \in Allowed(t))
  BY <1>4, <1>8, <1>9
<1> QED BY <1>1, <1>7, <1>8, <1>9, <1>10, <1>11, <1>12 DEF p, n

(* move_specific_task and move_one_task. *)
LEMMA StopperMoveEffect ==
  ASSUME HInv, NEW c \in CPU, StopperMove(c)
  PROVE  /\ StopperQuits(c)
         /\ tsk' \in [Task -> TaskStruct]
         /\ \A t \in Task : tsk'[t].usage = tsk[t].usage /\ tsk'[t].state = tsk[t].state
         /\ \A t \in Task : \/ tsk'[t].cpu = tsk[t].cpu
                            \/ ~IsRunning(t) /\ tsk'[t].cpu \in Allowed(t)
<1> DEFINE d == stopper[c].dst
           movable == {t \in Task : Movable(t, c, d)}
<1>1. StopperQuits(c)
  BY DEF StopperMove, StopperQuits
<1>2. stopper[c].pc = "move" /\ d \in CPU
  BY DEF StopperMove, HInv, HandshakeOwned, StopperOwes, HmpTypeOK, RunQueue
<1>3. PICK moved \in SUBSET movable :
        tsk' = [t \in Task |-> IF t \in moved THEN [tsk[t] EXCEPT !.cpu = d] ELSE tsk[t]]
  BY DEF StopperMove
<1>4. \A t \in moved : ~IsRunning(t) /\ d \in Allowed(t)
  BY DEF Movable
<1> HIDE DEF d, movable
<1>5. tsk \in [Task -> TaskStruct]
  BY DEF HInv, HmpTypeOK
<1>6. ASSUME NEW t \in Task
      PROVE  /\ tsk'[t] \in TaskStruct
             /\ tsk'[t].usage = tsk[t].usage /\ tsk'[t].state = tsk[t].state
             /\ tsk'[t].cpu = tsk[t].cpu \/ (t \in moved /\ tsk'[t].cpu = d)
  BY <1>2, <1>3, <1>5 DEF TaskStruct
<1>7. tsk' \in [Task -> TaskStruct]
  BY <1>3, <1>6
<1> QED BY <1>1, <1>4, <1>6, <1>7

(* An order takes a reference. *)
LEMMA OrdersEffect ==
  ASSUME HInv, NEW b \in CPU, NEW fn, NEW src, NEW p, NEW dst, OrderReady(b, fn, src, p, dst),
         OrderStopper(b, fn, src, p, dst) \/ OrderMove(b, fn, src, p, dst)
  PROVE  /\ p \in Task /\ tsk' \in [Task -> TaskStruct] /\ tsk'[p].usage = tsk[p].usage + 1
         /\ \A t \in Task \ {p} : tsk'[t] = tsk[t]
         /\ \A t \in Task : tsk'[t].state = tsk[t].state /\ tsk'[t].cpu = tsk[t].cpu
         /\ UNCHANGED <<running, stopper, cfg>>
<1>1. p \in Task /\ UNCHANGED <<running, stopper, cfg>>
  BY DEF OrderReady
<1>2. tsk \in [Task -> TaskStruct] /\ tsk[p].usage + 1 \in Nat
  BY <1>1 DEF HInv, HmpTypeOK, TaskStruct
<1>3. tsk' = [tsk EXCEPT ![p].usage = tsk[p].usage + 1]
  BY <1>1, <1>2 DEF OrderStopper, OrderMove, TaskStruct
<1> QED BY <1>1, <1>2, <1>3, UsageEffect

(* The stopper gives its reference back. *)
LEMMA PutUsage ==
  ASSUME HInv, NEW c \in CPU, StopperPut(c)
  PROVE  LET p == stopper[c].p IN
         /\ p \in Task /\ tsk' \in [Task -> TaskStruct] /\ tsk'[p].usage = tsk[p].usage - 1
         /\ \A t \in Task \ {p} : tsk'[t] = tsk[t]
         /\ \A t \in Task : tsk'[t].state = tsk[t].state /\ tsk'[t].cpu = tsk[t].cpu
         /\ UNCHANGED <<running, rq, bal, hmpLock, cfg>>
<1> DEFINE p == stopper[c].p
           n == tsk[p].usage - 1
<1>1. p \in Task /\ c \in StopperRefs(p)
  BY PutEffect DEF StopperRefs
<1>2. n \in Nat
  BY <1>1, HeldUsage
<1>3. tsk \in [Task -> TaskStruct] /\ UNCHANGED <<running, rq, bal, hmpLock, cfg>>
  BY DEF HInv, HmpTypeOK, StopperPut
<1>4. tsk' = [tsk EXCEPT ![p].usage = n]
  BY <1>1, <1>3 DEF StopperPut, TaskStruct
<1> HIDE DEF n
<1>5. /\ tsk' \in [Task -> TaskStruct] /\ tsk'[p].usage = n
      /\ \A t \in Task \ {p} : tsk'[t] = tsk[t]
      /\ \A t \in Task : tsk'[t].state = tsk[t].state /\ tsk'[t].cpu = tsk[t].cpu
  BY <1>1, <1>2, <1>3, <1>4, UsageEffect
<1> QED BY <1>1, <1>3, <1>5 DEF n

(* What balancers and stoppers do to the tasks. *)
TasksMoved ==
  /\ tsk' \in [Task -> TaskStruct] /\ cfg' = cfg
  /\ running' \in [CPU -> Task \cup {NONE}] /\ \A c \in CPU : running'[c] \in {running[c], NONE}
  /\ \A t \in Task : /\ tsk'[t].state = tsk[t].state
                     /\ \/ tsk'[t].cpu = tsk[t].cpu
                        \/ ~IsRunning(t) /\ tsk'[t].cpu \in Allowed(t)

(* Every step is the scheduler's or moves tasks as PlacementSound allows. *)
LEMMA TasksMovedStep == ASSUME HInv, HNext PROVE SchedOnly \/ TasksMoved
<1>1. ASSUME UNCHANGED <<tsk, running, cfg>> PROVE TasksMoved
  BY <1>1 DEF TasksMoved, HInv, HmpTypeOK
<1>2. ASSUME NEW b \in CPU, NEW d \in CPU, LoadBalanceActive(b, d) PROVE UNCHANGED <<tsk, running, cfg>>
  BY <1>2 DEF LoadBalanceActive
<1>3. ASSUME NEW b \in CPU, Meets(b) \/ Gives(b) \/ QueueStopper(b) PROVE UNCHANGED <<tsk, running, cfg>>
  BY <1>3 DEF Meets, Gives, QueueStopper
<1>4. ASSUME NEW b \in CPU, Orders(b) PROVE TasksMoved
  BY <1>4, OrdersEffect DEF Orders, TasksMoved, HInv, HmpTypeOK
<1>5. ASSUME NEW b \in CPU, MigrateRunnable(b) PROVE TasksMoved
  BY <1>5, MigrateRunnableEffect DEF TasksMoved, HInv, HmpTypeOK
<1>6. ASSUME NEW c \in CPU, StopperRun(c) PROVE TasksMoved
  BY <1>6 DEF StopperRun, TasksMoved, HInv, HmpTypeOK
<1>7. ASSUME NEW c \in CPU, StopperCheck(c) PROVE UNCHANGED <<tsk, running, cfg>>
  BY <1>7 DEF StopperCheck
<1>8. ASSUME NEW c \in CPU, StopperMove(c) PROVE TasksMoved
  BY <1>8, StopperMoveEffect DEF TasksMoved, HInv, HmpTypeOK, StopperQuits
<1>9. ASSUME NEW c \in CPU, StopperPut(c) PROVE TasksMoved
  BY <1>9, PutUsage DEF TasksMoved, HInv, HmpTypeOK
<1> QED BY StepCases, <1>1, <1>2, <1>3, <1>4, <1>5, <1>6, <1>7, <1>8, <1>9

(* No balancer moves a task that runs, or to a CPU it may not run on. *)
LEMMA PlacementStep == ASSUME HInv, HNext PROVE PlacementSound'
<1>0. /\ tsk \in [Task -> TaskStruct] /\ running \in [CPU -> Task \cup {NONE}]
      /\ \A c \in CPU : running[c] # NONE => tsk[running[c]].cpu = c
      /\ \A t \in Task : tsk[t].cpu \in Allowed(t)
  BY DEF HInv, HmpTypeOK, PlacementSound
<1>1. CASE TasksMoved
  <2>1. \A t \in Task : Allowed(t)' = Allowed(t)
    BY <1>1 DEF TasksMoved, Allowed
  <2>2. \A c \in CPU : running'[c] # NONE => tsk'[running'[c]].cpu = c
    BY <1>0, <1>1 DEF TasksMoved, IsRunning
  <2>3. \A t \in Task : tsk'[t].cpu \in Allowed(t)'
    BY <1>0, <1>1, <2>1 DEF TasksMoved
  <2> QED BY <2>2, <2>3 DEF PlacementSound
<1>2. CASE SchedOnly
  <2>0. \A t \in Task : Allowed(t)' = Allowed(t)
    BY <1>2 DEF SchedOnly, Allowed
  <2>1. ASSUME NEW c \in CPU, NEW s \in {"asleep", "dead"}, Deactivate(c, s) PROVE PlacementSound'
    <3>1. \A t \in Task : tsk'[t].cpu = tsk[t].cpu
      BY <1>0, <2>1, StateEffect DEF Deactivate
    <3>2. UNCHANGED running
      BY <2>1 DEF Deactivate
    <3> QED BY <1>0, <2>0, <3>1, <3>2 DEF PlacementSound
  <2>2. ASSUME NEW c \in CPU, ContextSwitch(c) PROVE PlacementSound'
    <3>1. PICK t \in Task \cup {NONE} : /\ running' = [running EXCEPT ![c] = t]
                                        /\ t # NONE => t \in Queue(c)
      BY <2>2 DEF ContextSwitch, Queue
    <3>2. UNCHANGED tsk
      BY <2>2 DEF ContextSwitch
    <3> QED BY <1>0, <2>0, <3>1, <3>2 DEF PlacementSound, Queue
  <2>3. ASSUME NEW t \in Task, NEW c \in CPU, TryToWakeUp(t, c) PROVE PlacementSound'
    <3>1. /\ tsk' = [tsk EXCEPT ![t].state = "ready", ![t].cpu = c] /\ UNCHANGED running
          /\ c \in Allowed(t) /\ \A d \in CPU : running[d] # t
      BY <2>3 DEF TryToWakeUp, IsRunning
    <3>2. tsk'[t].cpu = c /\ \A u \in Task \ {t} : tsk'[u] = tsk[u]
      BY <1>0, <3>1 DEF TaskStruct
    <3> QED BY <1>0, <2>0, <3>1, <3>2 DEF PlacementSound
  <2>4. ASSUME NEW t \in Task, Reap(t) PROVE PlacementSound'
    <3>1. /\ tsk' = [tsk EXCEPT ![t].state = "reaped", ![t].usage = tsk[t].usage - 1]
          /\ UNCHANGED running
      BY <1>0, <2>4 DEF Reap, TaskStruct
    <3>2. \A u \in Task : tsk'[u].cpu = tsk[u].cpu
      BY <1>0, <3>1 DEF TaskStruct
    <3> QED BY <1>0, <2>0, <3>1, <3>2 DEF PlacementSound
  <2>5. ASSUME NEW b \in CPU, NEW d \in CPU, NEW t \in Task, LoadBalance(b, d, t) PROVE PlacementSound'
    <3>1. UNCHANGED running /\ b \in Allowed(t) /\ \A c \in CPU : running[c] # t
      BY <2>5 DEF LoadBalance, Movable, IsRunning
    <3>2. tsk'[t].cpu = b /\ \A u \in Task \ {t} : tsk'[u] = tsk[u]
      BY <1>0, <2>5, CpuEffect DEF LoadBalance
    <3> QED BY <1>0, <2>0, <3>1, <3>2 DEF PlacementSound
  <2>6. ASSUME NEW c \in CPU, SchedulerIpi(c) PROVE PlacementSound'
    BY <1>0, <2>0, <2>6 DEF SchedulerIpi, PlacementSound
  <2> QED BY <1>2, <2>1, <2>2, <2>3, <2>4, <2>5, <2>6 DEF SchedOnly
<1> QED BY <1>1, <1>2, TasksMovedStep

(* The balancers that have met a task, and are still in the same softirq. *)
LEMMA FoundStep ==
  ASSUME HInv, HNext, NEW b \in CPU, bal'[b].pc = "found"
  PROVE  bal'[b] = bal[b] \/ (Meets(b) /\ RqKept)
<1>1. ASSUME UNCHANGED bal PROVE bal'[b] = bal[b]
  BY <1>1
<1>2. ASSUME NEW a \in CPU, NEW d \in CPU, LoadBalanceActive(a, d) PROVE bal'[b] = bal[b]
  BY <1>2, LoadBalanceActiveEffect
<1>3. ASSUME NEW a \in CPU, Rests(a) PROVE bal'[b] = bal[b]
  BY <1>3 DEF Rests, HInv, HmpTypeOK
<1>4. ASSUME NEW a \in CPU, Orders(a) PROVE bal'[b] = bal[b]
  <2>1. PICK fn, src, p, dst : /\ OrderReady(a, fn, src, p, dst)
                               /\ \/ OrderStopper(a, fn, src, p, dst)
                                  \/ OrderMove(a, fn, src, p, dst)
    BY <1>4 DEF Orders
  <2>2. bal'[a].pc \in {"queue", "move"} /\ \A c \in CPU \ {a} : bal'[c] = bal[c]
    BY <2>1, OrderBalancing DEF OrderMove, OrderStopper
  <2> QED BY <2>2
<1>5. ASSUME NEW a \in CPU, Meets(a), RqKept PROVE bal'[b] = bal[b] \/ (Meets(b) /\ RqKept)
  <2>1. \A c \in CPU \ {a} : bal'[c] = bal[c]
    BY <1>5 DEF Meets, HInv, HmpTypeOK
  <2> QED BY <1>5, <2>1
<1>6. ASSUME NEW c \in CPU, StopperRun(c) \/ StopperCheck(c) \/ StopperMove(c) \/ StopperPut(c)
      PROVE  UNCHANGED bal
  BY <1>6 DEF StopperRun, StopperCheck, StopperMove, StopperPut
<1> QED BY StepCases, <1>1, <1>2, <1>3, <1>4, <1>5, <1>6, MigrateRunnableRests, QueueStopperRests
  DEF SchedOnly, Gives

(* Only a reaped task was reaped. *)
LEMMA StateStep ==
  ASSUME HInv, HNext, NEW t \in Task, tsk[t].state # "reaped", ~Reap(t)
  PROVE  tsk'[t].state # "reaped"
<1>0. tsk \in [Task -> TaskStruct] /\ running \in [CPU -> Task \cup {NONE}]
  BY DEF HInv, HmpTypeOK
<1>1. CASE TasksMoved
  BY <1>1 DEF TasksMoved
<1>2. CASE SchedOnly
  <2>1. ASSUME NEW c \in CPU, NEW s \in {"asleep", "dead"}, Deactivate(c, s)
        PROVE  tsk'[t].state # "reaped"
    BY <1>0, <2>1, StateEffect DEF Deactivate
  <2>2. ASSUME NEW c \in CPU, ContextSwitch(c) \/ SchedulerIpi(c) PROVE tsk'[t].state # "reaped"
    BY <2>2 DEF ContextSwitch, SchedulerIpi
  <2>3. ASSUME NEW u \in Task, NEW c \in CPU, TryToWakeUp(u, c) PROVE tsk'[t].state # "reaped"
    BY <1>0, <2>3 DEF TryToWakeUp, TaskStruct
  <2>4. ASSUME NEW u \in Task, Reap(u) PROVE tsk'[t].state # "reaped"
    <3>1. u # t
      BY <2>4
    <3>2. tsk' = [tsk EXCEPT ![u].state = "reaped", ![u].usage = tsk[u].usage - 1]
      BY <1>0, <2>4 DEF Reap, TaskStruct
    <3> QED BY <1>0, <3>1, <3>2 DEF TaskStruct
  <2>5. ASSUME NEW b \in CPU, NEW d \in CPU, NEW u \in Task, LoadBalance(b, d, u)
        PROVE  tsk'[t].state # "reaped"
    BY <1>0, <2>5, CpuEffect DEF LoadBalance
  <2> QED BY <1>2, <2>1, <2>2, <2>3, <2>4, <2>5 DEF SchedOnly
<1> QED BY <1>1, <1>2, TasksMovedStep

(* No step reaps a task that runs or that a balancer has met. *)
LEMMA TasksAliveStep == ASSUME HInv, HNext PROVE TasksAlive'
<1>0. /\ running \in [CPU -> Task \cup {NONE}]
      /\ \A c \in CPU : running[c] # NONE => tsk[running[c]].state # "reaped"
      /\ \A b \in CPU : bal[b].pc = "found" => bal[b].p \in Task /\ tsk[bal[b].p].state # "reaped"
  BY DEF HInv, HmpTypeOK, TasksAlive, OrdersNamed
<1>1. ASSUME NEW c \in CPU, running'[c] # NONE PROVE tsk'[running'[c]].state # "reaped"
  <2>1. CASE running'[c] = running[c]
    <3>1. running[c] \in Task /\ ~Reap(running[c])
      BY <1>0, <1>1, <2>1 DEF Reap, IsRunning
    <3> QED BY <1>0, <1>1, <2>1, <3>1, StateStep
  <2>2. CASE running'[c] # running[c] /\ SchedOnly
    <3>1. PICK d \in CPU : ContextSwitch(d)
      BY <2>2 DEF SchedOnly, Deactivate, TryToWakeUp, Reap, LoadBalance, SchedulerIpi
    <3>2. PICK t \in Task \cup {NONE} : /\ running' = [running EXCEPT ![d] = t]
                                        /\ t # NONE => t \in Queue(d)
      BY <3>1 DEF ContextSwitch, Queue
    <3>3. UNCHANGED tsk
      BY <3>1 DEF ContextSwitch
    <3> QED BY <1>0, <1>1, <2>2, <3>2, <3>3 DEF Queue, Ready
  <2> QED BY <1>1, <2>1, <2>2, TasksMovedStep DEF TasksMoved
<1>2. ASSUME NEW b \in CPU, bal'[b].pc = "found" PROVE tsk'[bal'[b].p].state # "reaped"
  <2>1. CASE bal'[b] = bal[b]
    <3>1. ~Reap(bal[b].p)
      BY <1>2, <2>1 DEF Reap
    <3> QED BY <1>0, <1>2, <2>1, <3>1, StateStep
  <2>2. CASE Meets(b)
    BY <1>0, <2>2, HmpAssumption DEF Meets, Ready, HInv, TasksAlive
  <2> QED BY <1>2, <2>1, <2>2, FoundStep
<1> QED BY <1>1, <1>2 DEF TasksAlive
-----------------------------------------------------------------------------
(* The types.                                                                *)
LEMMA TypeStep == ASSUME HInv, HNext PROVE HmpTypeOK'
<1>0. /\ tsk \in [Task -> TaskStruct] /\ running \in [CPU -> Task \cup {NONE}]
      /\ rq \in [CPU -> RunQueue] /\ stopper \in [CPU -> StopCall] /\ bal \in [CPU -> Balancing]
      /\ hmpLock \in CPU \cup {NONE} /\ ipi \subseteq CPU /\ cfg \in Configs
  BY DEF HInv, HmpTypeOK
<1>1. tsk' \in [Task -> TaskStruct] /\ running' \in [CPU -> Task \cup {NONE}] /\ cfg' \in Configs
  <2>1. CASE TasksMoved
    BY <1>0, <2>1 DEF TasksMoved
  <2>2. CASE SchedOnly
    <3>0. cfg' \in Configs
      BY <1>0, <2>2 DEF SchedOnly
    <3>1. ASSUME NEW c \in CPU, NEW s \in {"asleep", "dead"}, Deactivate(c, s)
          PROVE  tsk' \in [Task -> TaskStruct] /\ running' \in [CPU -> Task \cup {NONE}]
      BY <1>0, <3>1, StateEffect DEF Deactivate
    <3>2. ASSUME NEW c \in CPU, ContextSwitch(c)
          PROVE  tsk' \in [Task -> TaskStruct] /\ running' \in [CPU -> Task \cup {NONE}]
      BY <1>0, <3>2 DEF ContextSwitch, Queue
    <3>3. ASSUME NEW t \in Task, NEW c \in CPU, TryToWakeUp(t, c)
          PROVE  tsk' \in [Task -> TaskStruct] /\ running' \in [CPU -> Task \cup {NONE}]
      BY <1>0, <3>3 DEF TryToWakeUp, TaskStruct
    <3>4. ASSUME NEW t \in Task, Reap(t)
          PROVE  tsk' \in [Task -> TaskStruct] /\ running' \in [CPU -> Task \cup {NONE}]
      <4>1. tsk[t].usage = Refs(t) + 1 /\ Refs(t) \in Nat
        BY <3>4, RefsNat DEF Reap, HInv, RefsCounted, Refs
      <4>2. tsk' = [tsk EXCEPT ![t].state = "reaped", ![t].usage = Refs(t)]
        BY <1>0, <3>4, <4>1 DEF Reap, TaskStruct
      <4>3. UNCHANGED running
        BY <3>4 DEF Reap
      <4> QED BY <1>0, <4>1, <4>2, <4>3 DEF TaskStruct
    <3>5. ASSUME NEW b \in CPU, NEW d \in CPU, NEW t \in Task, LoadBalance(b, d, t)
          PROVE  tsk' \in [Task -> TaskStruct] /\ running' \in [CPU -> Task \cup {NONE}]
      BY <1>0, <3>5, CpuEffect DEF LoadBalance
    <3>6. ASSUME NEW c \in CPU, SchedulerIpi(c)
          PROVE  tsk' \in [Task -> TaskStruct] /\ running' \in [CPU -> Task \cup {NONE}]
      BY <1>0, <3>6 DEF SchedulerIpi
    <3> QED BY <2>2, <3>0, <3>1, <3>2, <3>3, <3>4, <3>5, <3>6 DEF SchedOnly
  <2> QED BY <2>1, <2>2, TasksMovedStep
<1>2. ipi' \subseteq CPU
  <2>1. CASE SchedStep
    BY <1>0, <2>1 DEF SchedStep, Deactivate, ContextSwitch, TryToWakeUp, Reap, LoadBalance,
      LoadBalanceActive
  <2>2. ASSUME NEW c \in CPU, ScanStep(c) PROVE ipi' \subseteq CPU
    BY <1>0, <2>2 DEF ScanStep, ForceUpDelayed, AskToPull, ForceUp, ForceDown, ForceEnd
  <2>3. ASSUME NEW c \in CPU, BalanceStep(c) PROVE ipi' \subseteq CPU
    BY <1>0, <2>2, <2>3 DEF BalanceStep, MigrateRunnable, QueueStopper, PullOrder, ForceBegin
  <2>4. ASSUME NEW c \in CPU, IdleBalance(c) \/ Rebalance(c) PROVE ipi' \subseteq CPU
    BY <1>0, <2>4 DEF IdleBalance, Rebalance, PullFind
  <2>5. ASSUME NEW c \in CPU, SchedulerIpi(c) \/ StopperRun(c) \/ StopperStep(c)
        PROVE ipi' \subseteq CPU
    BY <1>0, <2>5 DEF SchedulerIpi, StopperRun, StopperStep, StopperCheck, StopperMove, StopperPut
  <2> QED BY <2>1, <2>3, <2>4, <2>5 DEF HNext
<1> DEFINE Rest == /\ rq' \in [CPU -> RunQueue] /\ stopper' \in [CPU -> StopCall]
                   /\ bal' \in [CPU -> Balancing] /\ hmpLock' \in CPU \cup {NONE}
<1>3. Rest
  <2>1. ASSUME SchedOnly PROVE Rest
    BY <1>0, <2>1 DEF SchedOnly
  <2>2. ASSUME NEW b \in CPU, NEW d \in CPU, LoadBalanceActive(b, d) PROVE Rest
    <3>1. UNCHANGED <<stopper, hmpLock>>
      BY <2>2 DEF LoadBalanceActive
    <3> QED BY <1>0, <2>2, <3>1, LoadBalanceActiveEffect
  <2>3. ASSUME NEW b \in CPU, Meets(b), RqKept PROVE Rest
    BY <1>0, <2>3 DEF Meets, RqKept
  <2>4. ASSUME NEW b \in CPU, Rests(b)
        PROVE  bal' \in [CPU -> Balancing] /\ hmpLock' \in CPU \cup {NONE}
    BY <1>0, <2>4 DEF Rests
  <2>5. ASSUME NEW b \in CPU, Rests(b), RqKept, UNCHANGED stopper PROVE Rest
    BY <1>0, <2>4, <2>5 DEF RqKept
  <2>6. ASSUME NEW b \in CPU, Orders(b) PROVE Rest
    <3>1. PICK fn, src, p, dst : /\ OrderReady(b, fn, src, p, dst)
                                 /\ \/ OrderStopper(b, fn, src, p, dst)
                                    \/ OrderMove(b, fn, src, p, dst)
      BY <2>6 DEF Orders
    <3>2. bal' \in [CPU -> Balancing]
      BY <3>1, OrderBalancing DEF OrderMove, OrderStopper
    <3>3. rq' \in [CPU -> RunQueue]
      BY <1>0, <3>1, OrderStopperEffect DEF OrderMove
    <3> QED BY <1>0, <3>1, <3>2, <3>3 DEF OrderReady, OrderMove, OrderStopper
  <2>7. ASSUME NEW b \in CPU, QueueStopper(b) PROVE Rest
    BY <1>0, <2>4, <2>7, QueueStopperRests, QueueStopperEffect
  <2>8. ASSUME NEW c \in CPU, StopperRun(c) PROVE Rest
    <3>1. UNCHANGED <<bal, hmpLock>>
      BY <2>8 DEF StopperRun
    <3> QED BY <1>0, <2>8, <3>1, StopperRunEffect
  <2>9. ASSUME NEW c \in CPU, StopperStays(c) PROVE Rest
    BY <1>0, <2>9, StaysEffect DEF StopperStays
  <2>10. ASSUME NEW c \in CPU, StopperQuits(c) PROVE Rest
    <3>1. rq' \in [CPU -> RunQueue] /\ stopper' \in [CPU -> StopCall]
      BY <2>10, LeaveEffect DEF StopperQuits
    <3> QED BY <1>0, <2>10, <3>1 DEF StopperQuits
  <2>11. ASSUME NEW c \in CPU, StopperPut(c) PROVE Rest
    BY <1>0, <2>11, PutEffect DEF StopperPut
  <2> HIDE DEF Rest
  <2> QED BY StepCases, <2>1, <2>2, <2>3, <2>5, <2>6, <2>7, <2>8, <2>9, <2>10, <2>11,
    MigrateRunnableRests, StopperCheckCases DEF Gives, StopperMove, StopperQuits
<1> QED BY <1>1, <1>2, <1>3 DEF HmpTypeOK
-----------------------------------------------------------------------------
(* The references.                                                           *)

(* A task is moved by one balancer more, or fewer. *)
LEMMA MovingAdded ==
  ASSUME NEW t, NEW b \in CPU, b \notin MovingRefs(t), MovingRefs(t)' = MovingRefs(t) \cup {b}
  PROVE  Cardinality(MovingRefs(t)') = Cardinality(MovingRefs(t)) + 1
BY RefsNat, FS_AddElement

(* One reference less, of a balancer that moves a task itself. *)
LEMMA MovingRemoved ==
  ASSUME NEW t, NEW b \in CPU, b \in MovingRefs(t), MovingRefs(t)' = MovingRefs(t) \ {b}
  PROVE  Cardinality(MovingRefs(t)') = Cardinality(MovingRefs(t)) - 1
BY RefsNat, FS_RemoveElement

(* One reference more, of a queued order. *)
LEMMA OrderAdded ==
  ASSUME NEW t, NEW c \in CPU, c \notin OrderRefs(t), OrderRefs(t)' = OrderRefs(t) \cup {c}
  PROVE  Cardinality(OrderRefs(t)') = Cardinality(OrderRefs(t)) + 1
BY RefsNat, FS_AddElement

(* One reference less, of a queued order. *)
LEMMA OrderRemoved ==
  ASSUME NEW t, NEW c \in CPU, c \in OrderRefs(t), OrderRefs(t)' = OrderRefs(t) \ {c}
  PROVE  Cardinality(OrderRefs(t)') = Cardinality(OrderRefs(t)) - 1
BY RefsNat, FS_RemoveElement

(* One reference more, of a stopper. *)
LEMMA StopperAdded ==
  ASSUME NEW t, NEW c \in CPU, c \notin StopperRefs(t), StopperRefs(t)' = StopperRefs(t) \cup {c}
  PROVE  Cardinality(StopperRefs(t)') = Cardinality(StopperRefs(t)) + 1
BY RefsNat, FS_AddElement

(* One reference less, of a stopper. *)
LEMMA StopperRemoved ==
  ASSUME NEW t, NEW c \in CPU, c \in StopperRefs(t), StopperRefs(t)' = StopperRefs(t) \ {c}
  PROVE  Cardinality(StopperRefs(t)') = Cardinality(StopperRefs(t)) - 1
BY RefsNat, FS_RemoveElement

(* The usage count moves with the references, whatever the step. *)
LEMMA RefsStep ==
  ASSUME HInv, HNext, NEW t \in Task
  PROVE  tsk'[t].usage = Refs(t)' + (IF tsk'[t].state = "reaped" THEN 0 ELSE 1)
<1> DEFINE Goal == tsk'[t].usage = Refs(t)' + (IF tsk'[t].state = "reaped" THEN 0 ELSE 1)
<1>0. /\ tsk \in [Task -> TaskStruct] /\ t # NONE
      /\ tsk[t].usage = Refs(t) + (IF tsk[t].state = "reaped" THEN 0 ELSE 1)
      /\ tsk[t].usage \in Nat
  BY HmpAssumption DEF HInv, HmpTypeOK, RefsCounted, TaskStruct
<1>n. /\ Cardinality(MovingRefs(t)) \in Nat /\ Cardinality(OrderRefs(t)) \in Nat
      /\ Cardinality(StopperRefs(t)) \in Nat
  BY RefsNat
<1>a. ASSUME tsk'[t].usage = tsk[t].usage, tsk'[t].state = tsk[t].state, Refs(t)' = Refs(t)
      PROVE  Goal
  BY <1>0, <1>a
<1>b. ASSUME UNCHANGED stopper PROVE StopperRefs(t)' = StopperRefs(t)
  BY <1>b DEF StopperRefs
<1>c. ASSUME RqKept PROVE OrderRefs(t)' = OrderRefs(t)
  BY <1>c DEF OrderRefs, RqKept
<1>d. ASSUME UNCHANGED bal PROVE MovingRefs(t)' = MovingRefs(t)
  BY <1>d DEF MovingRefs
<1>e. ASSUME UNCHANGED rq PROVE OrderRefs(t)' = OrderRefs(t)
  BY <1>e DEF OrderRefs
<1>1. ASSUME SchedOnly PROVE Goal
  <2>1. Refs(t)' = Refs(t)
    BY <1>1, <1>b, <1>d, <1>e DEF SchedOnly, Refs
  <2>2. ASSUME tsk'[t].usage = tsk[t].usage, tsk[t].state # "reaped", tsk'[t].state # "reaped"
        PROVE  Goal
    BY <1>0, <2>1, <2>2
  <2>3. ASSUME tsk'[t].usage = tsk[t].usage, tsk'[t].state = tsk[t].state PROVE Goal
    BY <1>a, <2>1, <2>3
  <2>4. ASSUME NEW c \in CPU, NEW s \in {"asleep", "dead"}, Deactivate(c, s) PROVE Goal
    <3>1. running[c] \in Task /\ tsk[running[c]].state # "reaped"
      BY <2>4 DEF Deactivate, HInv, HmpTypeOK, TasksAlive
    <3>2. /\ tsk'[running[c]].state = s /\ tsk'[t].usage = tsk[t].usage
          /\ t # running[c] => tsk'[t] = tsk[t]
      BY <1>0, <2>4, <3>1, StateEffect DEF Deactivate
    <3> QED BY <2>2, <2>3, <3>1, <3>2
  <2>5. ASSUME NEW c \in CPU, ContextSwitch(c) \/ SchedulerIpi(c) PROVE Goal
    BY <2>3, <2>5 DEF ContextSwitch, SchedulerIpi
  <2>6. ASSUME NEW u \in Task, NEW c \in CPU, TryToWakeUp(u, c) PROVE Goal
    <3>1. /\ tsk' = [tsk EXCEPT ![u].state = "ready", ![u].cpu = c] /\ tsk[u].state = "asleep"
      BY <2>6 DEF TryToWakeUp
    <3>2. /\ tsk'[t].usage = tsk[t].usage
          /\ t # u => tsk'[t].state = tsk[t].state
          /\ tsk'[u].state = "ready"
      BY <1>0, <3>1 DEF TaskStruct
    <3> QED BY <2>2, <2>3, <3>1, <3>2
  <2>7. ASSUME NEW u \in Task, Reap(u) PROVE Goal
    <3>1. /\ tsk' = [tsk EXCEPT ![u].state = "reaped", ![u].usage = tsk[u].usage - 1]
          /\ tsk[u].state = "dead"
      BY <1>0, <2>7 DEF Reap, TaskStruct
    <3>2. /\ t # u => tsk'[t] = tsk[t]
          /\ tsk'[u].state = "reaped" /\ tsk'[u].usage = tsk[u].usage - 1
      BY <1>0, <3>1 DEF TaskStruct
    <3>3. CASE t = u
      BY <1>0, <1>n, <2>1, <3>1, <3>2, <3>3 DEF Refs
    <3> QED BY <2>3, <3>2, <3>3
  <2>8. ASSUME NEW b \in CPU, NEW d \in CPU, NEW u \in Task, LoadBalance(b, d, u) PROVE Goal
    BY <1>0, <2>3, <2>8, CpuEffect DEF LoadBalance
  <2> QED BY <1>1, <2>4, <2>5, <2>6, <2>7, <2>8 DEF SchedOnly
<1>2. ASSUME NEW b \in CPU, NEW d \in CPU, LoadBalanceActive(b, d) PROVE Goal
  <2>1. UNCHANGED <<tsk, stopper>>
    BY <1>2 DEF LoadBalanceActive
  <2>2. MovingRefs(t)' = MovingRefs(t)
    BY <1>0, <1>2, LoadBalanceActiveEffect DEF MovingRefs
  <2>3. OrderRefs(t)' = OrderRefs(t)
    BY <1>2, LoadBalanceActiveEffect DEF OrderRefs
  <2> QED BY <1>a, <1>b, <2>1, <2>2, <2>3 DEF Refs
<1>3. ASSUME NEW b \in CPU, Meets(b), RqKept PROVE Goal
  <2>1. MovingRefs(t)' = MovingRefs(t)
    BY <1>3 DEF Meets, MovingRefs, HInv, HmpTypeOK
  <2> QED BY <1>3, <1>a, <1>b, <1>c, <2>1 DEF Refs, Meets
<1>4. ASSUME NEW b \in CPU, Gives(b) PROVE Goal
  <2>1. MovingRefs(t)' = MovingRefs(t)
    BY <1>4 DEF Gives, Rests, MovingRefs, HInv, HmpTypeOK
  <2> QED BY <1>4, <1>a, <1>b, <1>c, <2>1 DEF Refs, Gives
<1>5. ASSUME NEW b \in CPU, Orders(b) PROVE Goal
  <2>1. PICK fn, src, p, dst : /\ OrderReady(b, fn, src, p, dst)
                               /\ \/ OrderStopper(b, fn, src, p, dst)
                                  \/ OrderMove(b, fn, src, p, dst)
    BY <1>5 DEF Orders
  <2>2. /\ p \in Task /\ tsk'[p].usage = tsk[p].usage + 1
        /\ t # p => tsk'[t] = tsk[t]
        /\ tsk'[t].state = tsk[t].state /\ UNCHANGED stopper
    BY <2>1, OrdersEffect
  <2>3. /\ bal'[b].pc \in {"queue", "move"} /\ bal'[b].p = p
        /\ \A a \in CPU \ {b} : bal'[a] = bal[a]
    BY <2>1, OrderBalancing DEF OrderMove, OrderStopper
  <2>4. bal[b].pc \notin {"queue", "move"} /\ src \in CPU /\ ~rq[src].active
    BY <2>1 DEF OrderReady
  <2>5. OrderRefs(t)' = OrderRefs(t)
    <3>1. CASE OrderMove(b, fn, src, p, dst)
      BY <1>e, <3>1 DEF OrderMove
    <3>2. CASE OrderStopper(b, fn, src, p, dst)
      <4>1. rq[src].work = "none"
        BY <2>4, NoOrder DEF OrderPending
      <4>2. rq'[src].work = "none" /\ \A d \in CPU \ {src} : rq'[d] = rq[d]
        BY <2>1, <3>2, <4>1, OrderStopperEffect
      <4> QED BY <4>1, <4>2 DEF OrderRefs
    <3> QED BY <2>1, <3>1, <3>2
  <2>6. CASE t # p
    <3>1. MovingRefs(t)' = MovingRefs(t)
      BY <2>3, <2>4, <2>6 DEF MovingRefs
    <3> QED BY <1>a, <1>b, <2>2, <2>5, <2>6, <3>1 DEF Refs
  <2>7. CASE t = p
    <3>1. b \notin MovingRefs(t) /\ MovingRefs(t)' = MovingRefs(t) \cup {b}
      BY <2>3, <2>4, <2>7 DEF MovingRefs
    <3>2. Cardinality(MovingRefs(t)') = Cardinality(MovingRefs(t)) + 1
      BY <3>1, MovingAdded
    <3> QED BY <1>0, <1>n, <1>b, <2>2, <2>5, <2>7, <3>2 DEF Refs
  <2> QED BY <2>6, <2>7
<1>6. ASSUME NEW b \in CPU, MigrateRunnable(b) PROVE Goal
  <2> DEFINE p == bal[b].p
  <2>1. /\ bal[b].pc = "move" /\ p \in Task /\ tsk'[p].usage = tsk[p].usage - 1
        /\ t # p => tsk'[t] = tsk[t]
        /\ tsk'[t].state = tsk[t].state /\ UNCHANGED <<rq, stopper>>
    BY <1>6, MigrateRunnableEffect
  <2>2. bal'[b].pc \notin {"move", "queue"} /\ \A a \in CPU \ {b} : bal'[a] = bal[a]
    BY <1>6, MigrateRunnableRests DEF Rests, HInv, HmpTypeOK
  <2>3. CASE t # p
    <3>1. MovingRefs(t)' = MovingRefs(t)
      BY <2>1, <2>2, <2>3 DEF MovingRefs
    <3> QED BY <1>a, <1>b, <1>e, <2>1, <2>3, <3>1 DEF Refs
  <2>4. CASE t = p
    <3>1. b \in MovingRefs(t) /\ MovingRefs(t)' = MovingRefs(t) \ {b}
      BY <2>1, <2>2, <2>4 DEF MovingRefs
    <3>2. Cardinality(MovingRefs(t)') = Cardinality(MovingRefs(t)) - 1
      BY <3>1, MovingRemoved
    <3> HIDE DEF p
    <3> QED BY <1>0, <1>n, <1>b, <1>e, <2>1, <2>4, <3>2 DEF Refs
  <2> QED BY <2>3, <2>4
<1>7. ASSUME NEW b \in CPU, QueueStopper(b) PROVE Goal
  <2> DEFINE p == bal[b].p
             d == bal[b].src
  <2>1. /\ bal[b].pc = "queue" /\ d \in CPU
        /\ rq'[d].work = (IF bal[b].fn = "lb" THEN "lb" ELSE "hmp")
        /\ rq'[d].task = rq[d].task /\ \A c \in CPU \ {d} : rq'[c] = rq[c]
    BY <1>7, QueueStopperEffect
  <2>2. /\ bal'[b].pc \notin {"move", "queue"} /\ \A a \in CPU \ {b} : bal'[a] = bal[a]
        /\ UNCHANGED <<tsk, stopper>>
    BY <1>7, QueueStopperRests DEF Rests, QueueStopper, HInv, HmpTypeOK
  <2>3. rq[d].work = "none"
    BY <2>1 DEF HInv, HandshakeOwned, Ordering, OrderPending
  <2>4. IF bal[b].fn = "lb" THEN p = NONE ELSE p \in Task /\ rq[d].task = p
    BY <2>1 DEF HInv, OrdersNamed
  <2> HIDE DEF p, d
  <2>5. CASE t # p
    <3>1. MovingRefs(t)' = MovingRefs(t)
      BY <2>1, <2>2, <2>5 DEF MovingRefs, p
    <3>2. OrderRefs(t)' = OrderRefs(t)
      BY <2>1, <2>3, <2>4, <2>5 DEF OrderRefs
    <3> QED BY <1>a, <1>b, <2>2, <3>1, <3>2 DEF Refs
  <2>6. CASE t = p
    <3>1. bal[b].fn # "lb" /\ rq[d].task = t
      BY <1>0, <2>4, <2>6
    <3>2. b \in MovingRefs(t) /\ MovingRefs(t)' = MovingRefs(t) \ {b}
      BY <2>1, <2>2, <2>6 DEF MovingRefs, p
    <3>3. d \notin OrderRefs(t) /\ OrderRefs(t)' = OrderRefs(t) \cup {d}
      BY <2>1, <2>3, <3>1 DEF OrderRefs
    <3>4. /\ Cardinality(MovingRefs(t)') = Cardinality(MovingRefs(t)) - 1
          /\ Cardinality(OrderRefs(t)') = Cardinality(OrderRefs(t)) + 1
      BY <2>1, <3>2, <3>3, MovingRemoved, OrderAdded
    <3>5. Refs(t)' = Refs(t)
      BY <1>n, <1>b, <2>2, <3>4 DEF Refs
    <3> QED BY <1>a, <2>2, <3>5
  <2> QED BY <2>5, <2>6
<1>8. ASSUME NEW c \in CPU, StopperRun(c) PROVE Goal
  <2>1. UNCHANGED <<tsk, bal>>
    BY <1>8 DEF StopperRun
  <2>2. /\ rq[c].work # "none" /\ stopper[c].fn = "none" /\ rq'[c].work = "none"
        /\ stopper'[c].fn = rq[c].work /\ stopper'[c].p = rq[c].task
        /\ \A d \in CPU \ {c} : rq'[d] = rq[d] /\ stopper'[d] = stopper[d]
    BY <1>8, StopperRunEffect
  <2>3. CASE rq[c].work = "hmp" /\ rq[c].task = t
    <3>1. c \in OrderRefs(t) /\ OrderRefs(t)' = OrderRefs(t) \ {c}
      BY <2>2, <2>3 DEF OrderRefs
    <3>2. c \notin StopperRefs(t) /\ StopperRefs(t)' = StopperRefs(t) \cup {c}
      BY <2>2, <2>3 DEF StopperRefs
    <3>3. /\ Cardinality(OrderRefs(t)') = Cardinality(OrderRefs(t)) - 1
          /\ Cardinality(StopperRefs(t)') = Cardinality(StopperRefs(t)) + 1
      BY <3>1, <3>2, OrderRemoved, StopperAdded
    <3>4. Refs(t)' = Refs(t)
      BY <1>n, <1>d, <2>1, <3>3 DEF Refs
    <3> QED BY <1>a, <2>1, <3>4
  <2>4. CASE ~(rq[c].work = "hmp" /\ rq[c].task = t)
    <3>1. OrderRefs(t)' = OrderRefs(t)
      BY <2>2, <2>4 DEF OrderRefs
    <3>2. StopperRefs(t)' = StopperRefs(t)
      BY <2>2, <2>4 DEF StopperRefs
    <3> QED BY <1>a, <1>d, <2>1, <3>1, <3>2 DEF Refs
  <2> QED BY <2>3, <2>4
<1>9. ASSUME NEW c \in CPU, StopperStays(c) PROVE Goal
  <2>1. UNCHANGED <<tsk, bal, rq>>
    BY <1>9 DEF StopperStays
  <2>2. StopperRefs(t)' = StopperRefs(t)
    BY <1>9, StaysEffect DEF StopperRefs
  <2> QED BY <1>a, <1>d, <1>e, <2>1, <2>2 DEF Refs
<1>10. ASSUME NEW c \in CPU, StopperQuits(c), tsk'[t].usage = tsk[t].usage, tsk'[t].state = tsk[t].state
       PROVE  Goal
  <2>1. UNCHANGED bal /\ stopper[c].pc \in {"check", "move"} /\ StopperLeave(c)
    BY <1>10 DEF StopperQuits
  <2>2. StopperRefs(t)' = StopperRefs(t)
    BY <2>1, LeaveEffect DEF StopperRefs
  <2>3. rq[c].work = "none" /\ rq'[c].work = "none" /\ \A d \in CPU \ {c} : rq'[d] = rq[d]
    BY <2>1, LeaveEffect DEF HInv, HandshakeOwned, StopperOwes, OrderPending
  <2>4. OrderRefs(t)' = OrderRefs(t)
    BY <2>3 DEF OrderRefs
  <2> QED BY <1>10, <1>a, <1>d, <2>1, <2>2, <2>4 DEF Refs
<1>11. ASSUME NEW c \in CPU, StopperPut(c) PROVE Goal
  <2> DEFINE p == stopper[c].p
  <2>1. /\ tsk'[p].usage = tsk[p].usage - 1
        /\ t # p => tsk'[t] = tsk[t]
        /\ tsk'[t].state = tsk[t].state /\ UNCHANGED <<bal, rq>>
    BY <1>11, PutUsage
  <2>2. /\ stopper[c].fn = "hmp" /\ stopper'[c].fn = "none"
        /\ \A d \in CPU \ {c} : stopper'[d] = stopper[d]
    BY <1>11, PutEffect
  <2>3. CASE t # p
    <3>1. StopperRefs(t)' = StopperRefs(t)
      BY <2>2, <2>3 DEF StopperRefs
    <3> QED BY <1>a, <1>d, <1>e, <2>1, <2>3, <3>1 DEF Refs
  <2>4. CASE t = p
    <3>1. c \in StopperRefs(t) /\ StopperRefs(t)' = StopperRefs(t) \ {c}
      BY <2>2, <2>4 DEF StopperRefs
    <3>2. Cardinality(StopperRefs(t)') = Cardinality(StopperRefs(t)) - 1
      BY <3>1, StopperRemoved
    <3> HIDE DEF p
    <3> QED BY <1>0, <1>n, <1>d, <1>e, <2>1, <2>4, <3>2 DEF Refs
  <2> QED BY <2>3, <2>4
<1>12. Goal
  <2>1. ASSUME NEW c \in CPU, StopperCheck(c) PROVE Goal
    BY <1>9, <1>10, <2>1, StopperCheckCases
  <2>2. ASSUME NEW c \in CPU, StopperMove(c) PROVE Goal
    BY <1>10, <2>2, StopperMoveEffect
  <2> HIDE DEF Goal
  <2> QED BY StepCases, <1>1, <1>2, <1>3, <1>4, <1>5, <1>6, <1>7, <1>8, <1>11, <2>1, <2>2
<1> QED BY <1>12
-----------------------------------------------------------------------------
(* The inductive invariant.                                                  *)
LEMMA HInitInv == HInit => HInv
<1> SUFFICES ASSUME HInit PROVE HInv
  OBVIOUS
<1>1. HmpTypeOK
  BY DEF HInit, HmpTypeOK, TaskStruct, RunQueue, StopCall, Balancing, Idle, Step
<1>2. \A c \in CPU : /\ bal[c].pc = "idle" /\ bal[c].fn = "none"
                     /\ stopper[c].pc = "idle" /\ stopper[c].fn = "none"
                     /\ ~rq[c].active /\ rq[c].work = "none" /\ running[c] = NONE
  BY DEF HInit, Idle, Step
<1>3. HandshakeOwned
  BY <1>2 DEF HandshakeOwned, Ordering, StopperOwes, OrderPending
<1>4. OneMigrator
  BY <1>2, HmpAssumption DEF OneMigrator, HInit
<1>5. PlacementSound
  BY <1>2 DEF PlacementSound, HInit, Allowed
<1>6. OrdersNamed /\ TasksAlive
  BY <1>2 DEF OrdersNamed, TasksAlive
<1>7. RefsCounted
  <2>1. \A t \in Task : MovingRefs(t) = {} /\ OrderRefs(t) = {} /\ StopperRefs(t) = {}
    BY <1>2 DEF MovingRefs, OrderRefs, StopperRefs
  <2>2. \A t \in Task : Refs(t) = 0
    BY <2>1, FS_EmptySet DEF Refs
  <2>3. \A t \in Task : tsk[t].usage = 1 /\ tsk[t].state = "ready"
    BY DEF HInit
  <2> QED BY <1>2, <2>2, <2>3 DEF RefsCounted
<1> QED BY <1>1, <1>3, <1>4, <1>5, <1>6, <1>7 DEF HInv

(* HInv is inductive. *)
LEMMA HInvStep == HInv /\ [HNext]_hvars => HInv'
<1> SUFFICES ASSUME HInv, [HNext]_hvars PROVE HInv'
  OBVIOUS
<1>1. CASE HNext
  <2>1. HmpTypeOK' /\ HandshakeOwned' /\ OneMigrator' /\ PlacementSound' /\ OrdersNamed' /\ TasksAlive'
    BY <1>1, TypeStep, HandshakeStep, OneMigratorStep, PlacementStep, OrdersNamedStep, TasksAliveStep
  <2>2. RefsCounted'
    <3>1. \A t \in Task : tsk'[t].usage = Refs(t)' + (IF tsk'[t].state = "reaped" THEN 0 ELSE 1)
      BY <1>1, RefsStep
    <3>2. ASSUME NEW t \in Task PROVE Refs(t)' \in Nat
      <4>1. MovingRefs(t)' \subseteq CPU /\ OrderRefs(t)' \subseteq CPU /\ StopperRefs(t)' \subseteq CPU
        BY DEF MovingRefs, OrderRefs, StopperRefs
      <4>2. /\ Cardinality(MovingRefs(t)') \in Nat /\ Cardinality(OrderRefs(t)') \in Nat
            /\ Cardinality(StopperRefs(t)') \in Nat
        BY <4>1, HmpAssumption, FS_Subset, FS_CardinalityType
      <4> QED BY <4>2 DEF Refs
    <3>3. ASSUME NEW t \in Task, NEW b \in CPU, bal'[b].pc = "found", bal'[b].p = t
          PROVE  tsk'[t].usage > 0
      BY <2>1, <3>1, <3>2, <3>3 DEF TasksAlive
    <3> QED BY <3>1, <3>3 DEF RefsCounted
  <2> QED BY <2>1, <2>2 DEF HInv
<1>2. CASE UNCHANGED hvars
  <2> USE <1>2 DEF HInv, hvars
  <2>1. HmpTypeOK' /\ OneMigrator' /\ PlacementSound' /\ OrdersNamed' /\ TasksAlive'
    BY DEF HmpTypeOK, OneMigrator, PlacementSound, Allowed, OrdersNamed, TasksAlive
  <2>2. HandshakeOwned'
    BY DEF HandshakeOwned, Ordering, StopperOwes, OrderPending
  <2>3. RefsCounted'
    BY DEF RefsCounted, Refs, MovingRefs, OrderRefs, StopperRefs
  <2> QED BY <2>1, <2>2, <2>3
<1> QED BY <1>1, <1>2

(* The inductive invariant holds of every behaviour of the HMP balancers,    *)
(* for any CPUs, tasks, affinities and for both builds.                      *)
THEOREM HmpInvariant == HSafetySpec => []HInv
BY HInitInv, HInvStep, PTL DEF HSafetySpec

(* rq->active_balance is owned by one of balancer, work list and stopper at  *)
(* a time: active_balance_work is never queued twice, and an order does not  *)
(* change under the stopper that has read it without the lock.               *)
THEOREM HmpHandshake == HSafetySpec => []HandshakeOwned
<1>1. HInv => HandshakeOwned
  BY DEF HInv
<1> QED BY <1>1, HmpInvariant, PTL

(* Every get_task_struct of the HMP code is matched by one put_task_struct,  *)
(* and no task_struct is freed while a balancer or a stopper reads it.       *)
THEOREM HmpRefsCounted == HSafetySpec => []RefsCounted
<1>1. HInv => RefsCounted
  BY DEF HInv
<1> QED BY <1>1, HmpInvariant, PTL

(* One CPU at a time picks and moves HMP tasks, and releases the lock itself. *)
THEOREM HmpOneMigrator == HSafetySpec => []OneMigrator
<1>1. HInv => OneMigrator
  BY DEF HInv
<1> QED BY <1>1, HmpInvariant, PTL

(* No task is migrated while it runs, or to a CPU outside its affinity.      *)
THEOREM HmpPlacement == HSafetySpec => []PlacementSound
<1>1. HInv => PlacementSound
  BY DEF HInv
<1> QED BY <1>1, HmpInvariant, PTL

(* Every variable of the HMP balancers keeps its type. *)
THEOREM HmpTypes == HSafetySpec => []HmpTypeOK
<1>1. HInv => HmpTypeOK
  BY DEF HInv
<1> QED BY <1>1, HmpInvariant, PTL
=============================================================================
