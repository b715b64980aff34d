---------------------------- MODULE HmpMigration ----------------------------
(***************************************************************************)
(* Task migration between the slow and the fast CPUs by the HMP scheduler    *)
(* (kernel/sched/fair.c, CONFIG_SCHED_HMP): hmp_force_up_migration and       *)
(* hmp_idle_pull, run by any CPU from its SCHED_SOFTIRQ or on going idle,    *)
(* move a task that waits themselves and leave one that runs to the stopper  *)
(* thread of its CPU.  The order to the stopper is rq->active_balance,       *)
(* ->push_cpu and ->migrate_task, which the ordinary load balancer of a      *)
(* cluster also uses.                                                        *)
(*                                                                           *)
(* A section under a run queue's lock is one step; double_lock_balance,      *)
(* which may drop the lock it is called with, separates two.  Load averages, *)
(* priorities and migration timestamps are data: wherever the code compares  *)
(* them, either outcome is possible.  What hmp_idle_pull only reads, queue   *)
(* by queue, is reduced to the moment it reads its final candidate.          *)
(***************************************************************************)
EXTENDS Integers, FiniteSets

CONSTANTS Slow, Fast,  \* the CPUs of hmp_domains
          Task,
          NONE,
          Configs      \* the builds and affinities considered: see cfg

CPU == Slow \cup Fast

ASSUME HmpAssumption == /\ CPU \subseteq Nat /\ IsFiniteSet(CPU)
                        /\ Slow \cap Fast = {}
                        /\ NONE \notin Task \cup CPU
                        /\ Configs \subseteq [delayUp : BOOLEAN,
                                              allowed : [Task -> (SUBSET CPU) \ {{}}]]

VARIABLES tsk,      \* a task: its state, the CPU of its run queue, its usage count
          running,  \* the fair task a CPU runs, NONE for the idle or the stopper thread
          rq,       \* active_balance, push_cpu, migrate_task, wake_for_idle_pull and
                    \* what active_balance_work is queued for
          stopper,  \* the stopper thread's call of __do_active_load_balance_cpu_stop
          bal,      \* the balancing a CPU is in the middle of
          hmpLock,  \* holder of hmp_force_migration
          ipi,      \* CPUs with a reschedule interrupt on its way
          cfg       \* CONFIG_HMP_DELAY_UP_MIGRATION and every tsk_cpus_allowed; never changes

hvars == <<tsk, running, rq, stopper, bal, hmpLock, ipi, cfg>>

Step(pc, fn, src, p, dst) == [pc |-> pc, fn |-> fn, src |-> src, p |-> p, dst |-> dst]
Idle    == Step("idle", "none", NONE, NONE, NONE)
Up      == Step("up", "none", NONE, NONE, NONE)
Scan(d) == Step("scan", "none", d, NONE, NONE)

TaskStruct == [state : {"ready", "asleep", "dead", "reaped"}, cpu : CPU, usage : Nat]
RunQueue   == [active : BOOLEAN, push : CPU, task : Task \cup {NONE}, wake : BOOLEAN,
               work : {"none", "hmp", "lb"}]
StopCall   == [pc : {"idle", "check", "move", "put"}, fn : {"hmp", "lb", "none"},
               src : CPU \cup {NONE}, p : Task \cup {NONE}, dst : CPU \cup {NONE}]
Balancing  == [pc : {"idle", "up", "scan", "found", "move", "queue"},
               fn : {"up", "down", "pull", "newidle", "lb", "none"},
               src : CPU \cup {NONE, -1}, p : Task \cup {NONE}, dst : CPU \cup {NONE}]

(* Every variable holds a value of the C object it stands for. *)
HmpTypeOK ==
  /\ tsk \in [Task -> TaskStruct]
  /\ running \in [CPU -> Task \cup {NONE}]
  /\ rq \in [CPU -> RunQueue]
  /\ stopper \in [CPU -> StopCall]
  /\ bal \in [CPU -> Balancing]
  /\ hmpLock \in CPU \cup {NONE} /\ ipi \subseteq CPU /\ cfg \in Configs

(* Tasks wait on some CPU each; nothing has been balanced yet. *)
HInit ==
  /\ cfg \in Configs
  /\ tsk \in [Task -> [state : {"ready"}, cpu : CPU, usage : {1}]]
  /\ \A t \in Task : tsk[t].cpu \in cfg.allowed[t]
  /\ running = [c \in CPU |-> NONE]
  /\ rq = [c \in CPU |-> [active |-> FALSE, push |-> c, task |-> NONE, wake |-> FALSE,
                          work |-> "none"]]
  /\ stopper = [c \in CPU |-> Idle] /\ bal = [c \in CPU |-> Idle]
  /\ hmpLock = NONE /\ ipi = {}

Ready(t)   == tsk[t].state = "ready"
IsRunning(t) == \E c \in CPU : running[c] = t
Queue(c)   == {t \in Task : Ready(t) /\ tsk[t].cpu = c}
Leaving(c) == running[c] # NONE /\ ~Ready(running[c])
Allowed(t) == cfg.allowed[t]
Domain(c)  == IF c \in Slow THEN Slow ELSE Fast
(* rq->nr_running counts the stopper thread as well, once it is woken. *)
Stopping(c) == rq[c].work # "none" \/ stopper[c].pc # "idle"
NrRunning(c) == Cardinality(Queue(c)) + (IF Stopping(c) THEN 1 ELSE 0)
(* No softirq, schedule() or stopper is in progress on the CPU. *)
Free(c) == bal[c] = Idle /\ stopper[c] = Idle
-----------------------------------------------------------------------------
(* The scheduler around it. *)

(* __schedule: the running task goes to sleep or has exited; it is off its   *)
(* queue but still running until the switch.                                 *)
Deactivate(c, s) ==
  /\ Free(c) /\ running[c] # NONE /\ Ready(running[c])
  /\ tsk' = [tsk EXCEPT ![running[c]].state = s]
  /\ UNCHANGED <<running, rq, stopper, bal, hmpLock, ipi, cfg>>

(* __schedule: pick the next task. *)
ContextSwitch(c) ==
  /\ Free(c) /\ rq[c].work = "none"
  /\ \E t \in IF Queue(c) = {} THEN {NONE} ELSE Queue(c) :
       t # running[c] /\ running' = [running EXCEPT ![c] = t]
  /\ UNCHANGED <<tsk, rq, stopper, bal, hmpLock, ipi, cfg>>

(* try_to_wake_up: once it no longer runs, a sleeping task goes to the CPU   *)
(* that select_task_rq_fair has found, in its own domain, up or down.        *)
TryToWakeUp(t, c) ==
  /\ tsk[t].state = "asleep" /\ ~IsRunning(t)
  /\ c \in Allowed(t)
  /\ tsk' = [tsk EXCEPT ![t].state = "ready", ![t].cpu = c]
  /\ UNCHANGED <<running, rq, stopper, bal, hmpLock, ipi, cfg>>

(* finish_task_switch and delayed_put_task_struct: the last reference of the *)
(* task itself goes a grace period after its exit, so not while a CPU that   *)
(* has met it on its queue is still in the same softirq.                     *)
Reap(t) ==
  /\ tsk[t].state = "dead" /\ ~IsRunning(t)
  /\ \A b \in CPU : bal[b].pc = "found" => bal[b].p # t
  /\ tsk' = [tsk EXCEPT ![t].state = "reaped", ![t].usage = @ - 1]
  /\ UNCHANGED <<running, rq, stopper, bal, hmpLock, ipi, cfg>>

(* A mutant: the task may have started to run. *)
BugMovable(t, src, dst) == t \in Queue(src) /\ dst \in Allowed(t)

(* hmp_can_migrate_task and the checks under both locks. *)
Movable(t, src, dst) == t \in Queue(src) /\ dst \in Allowed(t) /\ ~IsRunning(t)

(* load_balance inside a cluster: pull a waiting task, ... *)
LoadBalance(b, d, t) ==
  /\ Free(b) /\ b # d /\ Domain(b) = Domain(d)
  /\ Movable(t, d, b)
  /\ tsk' = [tsk EXCEPT ![t].cpu = b]
  /\ UNCHANGED <<running, rq, stopper, bal, hmpLock, ipi, cfg>>

(* ... or, having failed to, order the stopper to push the running one. *)
LoadBalanceActive(b, d) ==
  /\ Free(b) /\ b # d /\ Domain(b) = Domain(d)
  /\ running[d] # NONE /\ b \in Allowed(running[d])
  /\ ~rq[d].active
  /\ rq' = [rq EXCEPT ![d].active = TRUE, ![d].push = b]
  /\ bal' = [bal EXCEPT ![b] = Step("queue", "lb", d, NONE, NONE)]
  /\ UNCHANGED <<tsk, running, stopper, hmpLock, ipi, cfg>>
-----------------------------------------------------------------------------
(* What the HMP balancers share. *)

(* Where a balancer goes when it is done with a queue.  hmp_force_up_        *)
(* migration goes on to the next CPU, but returns after an up-migration;     *)
(* run_rebalance_domains calls it after hmp_idle_pull.                       *)
After(fn, d) == CASE fn = "down" -> Scan(d) [] fn = "pull" -> Up [] OTHER -> Idle
LockAfter(fn) == IF fn = "down" THEN hmpLock ELSE NONE

(* With src's lock held: note the order.  A task that runs is left to the    *)
(* stopper, one that waits is moved right away, once hmp_migrate_runnable_   *)
(* task has found it is not alone.                                           *)
Wanted(src, p) == IsRunning(p) \/ NrRunning(src) > 1

NoteOrder(b, fn, src, p, dst) ==
  /\ rq' = IF IsRunning(p)
           THEN [rq EXCEPT ![src].push = dst, ![src].task = p, ![src].active = TRUE]
           ELSE rq
  /\ bal' = [bal EXCEPT ![b] =
               IF Wanted(src, p)
               THEN Step(IF IsRunning(p) THEN "queue" ELSE "move", fn, src, p, dst)
               ELSE After(fn, src)]
  /\ hmpLock' = IF Wanted(src, p) THEN hmpLock ELSE LockAfter(fn)

(* A mutant: the task is named without a reference to it. *)
BugOrder(b, fn, src, p, dst) == NoteOrder(b, fn, src, p, dst) /\ UNCHANGED tsk

(* get_task_struct; given back at once if the task is alone. *)
Order(b, fn, src, p, dst) ==
  /\ NoteOrder(b, fn, src, p, dst)
  /\ tsk' = IF Wanted(src, p) THEN [tsk EXCEPT ![p].usage = @ + 1] ELSE tsk

(* hmp_migrate_runnable_task, with both locks: move the task if it is still  *)
(* there and does not run, and drop the reference.                           *)
MigrateRunnable(b) ==
  LET s == bal[b] IN
  /\ s.pc = "move"
  /\ tsk' = [tsk EXCEPT ![s.p].usage = @ - 1,
                        ![s.p].cpu = IF Movable(s.p, s.src, s.dst) THEN s.dst ELSE @]
  /\ bal' = [bal EXCEPT ![b] = After(s.fn, s.src)]
  /\ hmpLock' = LockAfter(s.fn)
  /\ UNCHANGED <<running, rq, stopper, ipi, cfg>>

(* stop_one_cpu_nowait.  A softirq that has pulled may end here. *)
QueueStopper(b) ==
  LET s == bal[b] IN
  /\ s.pc = "queue"
  /\ rq' = [rq EXCEPT ![s.src].work = IF s.fn = "lb" THEN "lb" ELSE "hmp"]
  /\ \E next \in {After(s.fn, s.src)} \cup (IF s.fn = "pull" THEN {Idle} ELSE {}) :
       bal' = [bal EXCEPT ![b] = next]
  /\ hmpLock' = IF s.fn = "lb" THEN hmpLock ELSE LockAfter(s.fn)
  /\ UNCHANGED <<tsk, running, stopper, ipi, cfg>>
-----------------------------------------------------------------------------
(* hmp_idle_pull, by a fast CPU.                                             *)

(* The candidate: the task running on a slow CPU, or a heavier one waiting   *)
(* there, that may run here.                                                 *)
Candidate(d, p) == running[d] # NONE /\ p \in {running[d]} \cup Queue(d)

PullFind(b, fn) ==
  /\ hmpLock = NONE /\ b \in Fast
  /\ \E d \in Slow, p \in Task :
       /\ Candidate(d, p) /\ b \in Allowed(p)
       /\ bal' = [bal EXCEPT ![b] = Step("found", fn, d, p, NONE)]
  /\ hmpLock' = b
  /\ UNCHANGED <<tsk, running, stopper, ipi, cfg>>

(* A mutant: whether the queue has an order already is not looked at. *)
BugPullOrder(b) ==
  LET s == bal[b] IN
  /\ s.pc = "found" /\ tsk[s.p].cpu = s.src
  /\ Order(b, s.fn, s.src, s.p, b)
  /\ UNCHANGED <<running, stopper, ipi, cfg>>

(* Back under the lock of the candidate's queue: it may have left. *)
PullOrder(b) ==
  LET s == bal[b] IN
  /\ s.pc = "found"
  /\ IF ~rq[s.src].active /\ tsk[s.p].cpu = s.src
     THEN Order(b, s.fn, s.src, s.p, b)
     ELSE /\ bal' = [bal EXCEPT ![b] = After(s.fn, s.src)]
          /\ hmpLock' = NONE
          /\ UNCHANGED <<tsk, rq>>
  /\ UNCHANGED <<running, stopper, ipi, cfg>>

(* idle_balance, when the running task leaves an empty queue behind. *)
IdleBalance(b) ==
  /\ cfg.delayUp /\ Free(b) /\ Leaving(b) /\ Queue(b) = {}
  /\ PullFind(b, "newidle")
  /\ UNCHANGED rq
-----------------------------------------------------------------------------
(* run_rebalance_domains: in the tick of a busy CPU, or on an idle CPU that  *)
(* a busy one of its own domain has kicked.                                  *)

Kicked(b) == running[b] # NONE \/ \E d \in Domain(b) : NrRunning(d) > 1

(* A CPU asked to pull does so first; if another balancer is at work, or     *)
(* there is no candidate, the request is dropped.                            *)
Rebalance(b) ==
  /\ Free(b) /\ ~Leaving(b) /\ Kicked(b)
  /\ rq' = [rq EXCEPT ![b].wake = FALSE]
  /\ \/ rq[b].wake /\ PullFind(b, "pull")
     \/ /\ bal' = [bal EXCEPT ![b] = Up]
        /\ UNCHANGED <<tsk, running, stopper, hmpLock, ipi, cfg>>

(* hmp_force_up_migration: spin_trylock. *)
ForceBegin(b) ==
  /\ bal[b] = Up
  /\ IF hmpLock = NONE THEN hmpLock' = b /\ bal' = [bal EXCEPT ![b] = Scan(-1)]
                       ELSE bal' = [bal EXCEPT ![b] = Idle] /\ UNCHANGED hmpLock
  /\ UNCHANGED <<tsk, running, rq, stopper, ipi, cfg>>

(* A task on a slow CPU should go up.  With CONFIG_HMP_DELAY_UP_MIGRATION an *)
(* idle fast CPU is asked to pull it, ...                                    *)
AskToPull(b, d, f) ==
  /\ cfg.delayUp /\ bal[b].pc = "scan" /\ d > bal[b].src
  /\ d \in Slow /\ ~rq[d].active
  /\ \E p \in Task : Candidate(d, p) /\ f \in Fast \cap Allowed(p)
  /\ rq' = [rq EXCEPT ![f].wake = TRUE]
  /\ ipi' = ipi \cup {f}
  /\ hmpLock' = NONE
  /\ UNCHANGED <<tsk, running, stopper, cfg>>

(* A mutant: having released the lock, it goes on to the next CPU. *)
BugForceUpDelayed(b, d, f) == AskToPull(b, d, f) /\ bal' = [bal EXCEPT ![b] = Scan(d)]

ForceUpDelayed(b, d, f) == AskToPull(b, d, f) /\ bal' = [bal EXCEPT ![b] = Idle]

(* ... without it the order is given at once, for the balancing CPU itself. *)
ForceUp(b, d, p) ==
  /\ ~cfg.delayUp /\ bal[b].pc = "scan" /\ d > bal[b].src
  /\ d \in Slow /\ ~rq[d].active
  /\ Candidate(d, p) /\ Fast \cap Allowed(p) # {}
  /\ Order(b, "up", d, p, b)
  /\ UNCHANGED <<running, stopper, ipi, cfg>>

(* A fast CPU with more than one task offloads one to an idle slow CPU. *)
ForceDown(b, d, p, dst) ==
  /\ bal[b].pc = "scan" /\ d > bal[b].src
  /\ d \in Fast /\ ~rq[d].active /\ Cardinality(Queue(d)) >= 2
  /\ Candidate(d, p) /\ dst \in Slow \cap Allowed(p)
  /\ Order(b, "down", d, p, dst)
  /\ UNCHANGED <<running, stopper, ipi, cfg>>

(* The last CPU has been visited. *)
ForceEnd(b) ==
  /\ bal[b].pc = "scan"
  /\ bal' = [bal EXCEPT ![b] = Idle] /\ hmpLock' = NONE
  /\ UNCHANGED <<tsk, running, rq, stopper, ipi, cfg>>

(* scheduler_ipi: nothing to do for wake_for_idle_pull, as the test for it   *)
(* is compiled under CONFIG_HMP_DELAY_UP_MIRGATION.                          *)
SchedulerIpi(c) ==
  /\ c \in ipi /\ ipi' = ipi \ {c}
  /\ UNCHANGED <<tsk, running, rq, stopper, bal, hmpLock, cfg>>
-----------------------------------------------------------------------------
(* The stopper thread, which preempts whatever the CPU runs.                 *)

(* It takes the work off its list and reads the order, before any lock. *)
StopperRun(c) ==
  /\ Free(c) /\ rq[c].work # "none"
  /\ stopper' = [stopper EXCEPT ![c] = Step("check", rq[c].work, c, rq[c].task, rq[c].push)]
  /\ rq' = [rq EXCEPT ![c].work = "none"]
  /\ running' = [running EXCEPT ![c] = NONE]
  /\ UNCHANGED <<tsk, bal, hmpLock, ipi, cfg>>

(* A mutant: a stopper that gives up leaves active_balance set. *)
BugStopperLeave(c) ==
  /\ rq' = [rq EXCEPT ![c].task = NONE]
  /\ stopper' = [stopper EXCEPT ![c] =
                   IF @.fn = "hmp" THEN Step("put", @.fn, NONE, @.p, NONE) ELSE Idle]

(* active_balance is cleared; what was ordered is never read again. *)
StopperLeave(c) ==
  /\ rq' = [rq EXCEPT ![c].active = FALSE, ![c].push = c, ![c].task = NONE]
  /\ stopper' = [stopper EXCEPT ![c] =
                   IF @.fn = "hmp" THEN Step("put", @.fn, NONE, @.p, NONE) ELSE Idle]

(* Under the queue's lock: is there a task to move, and is it still here? *)
StopperCheck(c) ==
  LET s == stopper[c] IN
  /\ s.pc = "check"
  /\ IF ~rq[c].active \/ NrRunning(c) <= 1 \/ (s.fn = "hmp" /\ tsk[s.p].cpu # c)
     THEN StopperLeave(c)
     ELSE stopper' = [stopper EXCEPT ![c].pc = "move"] /\ UNCHANGED rq
  /\ UNCHANGED <<tsk, running, bal, hmpLock, ipi, cfg>>

(* With both locks: move_specific_task, or move_one_task for the ordinary    *)
(* balancer.                                                                 *)
StopperMove(c) ==
  LET s == stopper[c]
      movable == {t \in Task : Movable(t, c, s.dst)}
  IN
  /\ s.pc = "move"
  /\ \E moved \in IF s.fn = "hmp" THEN {movable \cap {s.p}} ELSE {{t} : t \in movable} \cup {{}} :
       tsk' = [t \in Task |-> IF t \in moved THEN [tsk[t] EXCEPT !.cpu = s.dst] ELSE tsk[t]]
  /\ StopperLeave(c)
  /\ UNCHANGED <<running, bal, hmpLock, ipi, cfg>>

(* The lock is dropped: put_task_struct. *)
StopperPut(c) ==
  /\ stopper[c].pc = "put"
  /\ tsk' = [tsk EXCEPT ![stopper[c].p].usage = @ - 1]
  /\ stopper' = [stopper EXCEPT ![c] = Idle]
  /\ UNCHANGED <<running, rq, bal, hmpLock, ipi, cfg>>
-----------------------------------------------------------------------------
SchedStep == \/ \E c \in CPU, s \in {"asleep", "dead"} : Deactivate(c, s)
             \/ \E c \in CPU : ContextSwitch(c)
             \/ \E t \in Task, c \in CPU : TryToWakeUp(t, c)
             \/ \E t \in Task : Reap(t)
             \/ \E b, d \in CPU : LoadBalanceActive(b, d) \/ \E t \in Task : LoadBalance(b, d, t)

ScanStep(b) == \/ \E d, f \in CPU : ForceUpDelayed(b, d, f)
               \/ \E d \in CPU, p \in Task : ForceUp(b, d, p)
               \/ \E d, dst \in CPU, p \in Task : ForceDown(b, d, p, dst)
               \/ ForceEnd(b)

BalanceStep(b) == MigrateRunnable(b) \/ QueueStopper(b) \/ PullOrder(b) \/ ForceBegin(b) \/ ScanStep(b)
StopperStep(c) == StopperCheck(c) \/ StopperMove(c) \/ StopperPut(c)

HNext == \/ SchedStep
         \/ \E c \in CPU : \/ IdleBalance(c) \/ Rebalance(c) \/ BalanceStep(c)
                           \/ SchedulerIpi(c) \/ StopperRun(c) \/ StopperStep(c)

HSafetySpec == HInit /\ [][HNext]_hvars

(* Softirqs and stopper functions run to completion, and the stopper thread  *)
(* preempts every other as soon as its CPU is between two of them.           *)
HFairness == \A c \in CPU : /\ WF_hvars(BalanceStep(c)) /\ WF_hvars(StopperStep(c))
                            /\ SF_hvars(StopperRun(c))

HSpec == HSafetySpec /\ HFairness

(* Interrupts arrive, threads are scheduled and busy CPUs have ticks; an     *)
(* idle CPU has none, and is not bound to be kicked.                         *)
HTickSpec == /\ HSpec
             /\ \A c \in CPU : /\ WF_hvars(SchedulerIpi(c)) /\ SF_hvars(ContextSwitch(c))
                               /\ SF_hvars(running[c] # NONE /\ Rebalance(c))
-----------------------------------------------------------------------------
(* Who will clear rq->active_balance of a CPU. *)
Ordering(b, c)    == bal[b].pc = "queue" /\ bal[b].src = c
StopperOwes(c)    == stopper[c].pc \in {"check", "move"}
OrderPending(c)   == rq[c].work # "none"

(* rq->active_balance is a handshake: it is set exactly while one balancer   *)
(* is about to queue the work, or the work is queued, or the stopper has it, *)
(* and never two of these.  So active_balance_work is not queued twice, and  *)
(* push_cpu and migrate_task do not change under the stopper that read them  *)
(* without the lock.                                                         *)
HandshakeOwned == \A c \in CPU :
  /\ rq[c].active <=> StopperOwes(c) \/ OrderPending(c) \/ \E b \in CPU : Ordering(b, c)
  /\ ~(StopperOwes(c) /\ OrderPending(c))
  /\ \A b \in CPU : Ordering(b, c) =>
        /\ ~StopperOwes(c) /\ ~OrderPending(c)
        /\ \A a \in CPU \ {b} : ~Ordering(a, c)
  /\ StopperOwes(c) => stopper[c].dst = rq[c].push

(* The references the HMP code holds on a task: a balancer that moves it, an *)
(* order that names it, a stopper that has read the order.                   *)
MovingRefs(t)  == {b \in CPU : bal[b].pc \in {"move", "queue"} /\ bal[b].p = t}
OrderRefs(t)   == {c \in CPU : rq[c].work = "hmp" /\ rq[c].task = t}
StopperRefs(t) == {c \in CPU : stopper[c].fn = "hmp" /\ stopper[c].p = t}
Refs(t) == Cardinality(MovingRefs(t)) + Cardinality(OrderRefs(t)) + Cardinality(StopperRefs(t))

(* Every get_task_struct is matched by one put_task_struct, whichever way a  *)
(* migration ends: a task_struct is never leaked, nor freed while a balancer *)
(* or a stopper still reads it, however early its task exits.                *)
RefsCounted == \A t \in Task :
  /\ tsk[t].usage = Refs(t) + (IF tsk[t].state = "reaped" THEN 0 ELSE 1)
  /\ \A b \in CPU : bal[b].pc = "found" /\ bal[b].p = t => tsk[t].usage > 0

(* hmp_force_migration: one CPU at a time picks and moves HMP tasks, and the *)
(* lock is released by the CPU that took it.                                 *)
OneMigrator == \A b \in CPU :
  (bal[b].pc \in {"scan", "found", "move", "queue"} /\ bal[b].fn # "lb") <=> hmpLock = b

(* No task is moved while it runs, and none to a CPU it may not run on,      *)
(* though the checks are made before double_lock_balance drops the lock.     *)
PlacementSound ==
  /\ \A c \in CPU : running[c] # NONE => tsk[running[c]].cpu = c
  /\ \A t \in Task : tsk[t].cpu \in Allowed(t)

(* An order is given for a task of the queue it is given to, and stays what   *)
(* it was until the stopper has it: who carries it out finds a task in it.   *)
OrdersNamed ==
  /\ \A b \in CPU : LET s == bal[b] IN
       /\ s.pc \in {"idle", "up", "scan"} => s.fn = "none"
       /\ s.pc \in {"found", "move"} => s.src \in CPU /\ s.p \in Task
       /\ s.pc = "found" => s.fn \in {"pull", "newidle"}
       /\ s.pc = "move" => s.fn \in {"up", "down", "pull", "newidle"} /\ s.dst \in CPU
       /\ s.pc = "queue" => /\ s.src \in CPU /\ s.fn # "none"
                            /\ IF s.fn = "lb" THEN s.p = NONE
                                              ELSE s.p \in Task /\ rq[s.src].task = s.p
  /\ \A c \in CPU : /\ rq[c].work = "hmp" => rq[c].task \in Task
                    /\ stopper[c].pc = "idle" <=> stopper[c].fn = "none"
                    /\ stopper[c].fn = "hmp" => stopper[c].p \in Task
                    /\ stopper[c].pc = "put" => stopper[c].fn = "hmp"

(* A task that runs, or that a balancer has met, has not been reaped. *)
TasksAlive ==
  /\ \A c \in CPU : running[c] # NONE => tsk[running[c]].state # "reaped"
  /\ \A b \in CPU : bal[b].pc = "found" => tsk[bal[b].p].state # "reaped"

(* The inductive invariant. *)
HInv == /\ HmpTypeOK /\ HandshakeOwned /\ RefsCounted /\ OneMigrator /\ PlacementSound
        /\ OrdersNamed /\ TasksAlive

(* BUG_ON(src_rq == dst_rq) in hmp_migrate_runnable_task, BUG_ON(busiest_rq  *)
(* == target_rq) in __do_active_load_balance_cpu_stop: "This condition is    *)
(* impossible".                                                              *)
NeverSameQueue == \A c \in CPU :
  /\ bal[c].pc = "move" => bal[c].src # bal[c].dst
  /\ stopper[c].pc = "move" => c # stopper[c].dst

(* An order to the stopper is always carried out or given up: the queue is   *)
(* never blocked for further migrations.                                     *)
MigrationCompletes == \A c \in CPU : rq[c].active ~> ~rq[c].active

(* Kconfig-hmp, HMP_DELAY_UP_MIGRATION: "we now wake a big CPU with an IPI   *)
(* and ask it to pull a task when ready".  A fast CPU that was asked looks    *)
(* for a task sooner or later, unless none is left that it could pull.       *)
WakeIsPulled == \A c \in Fast :
  rq[c].wake ~> \/ ~rq[c].wake
                \/ ~\E d \in Slow, p \in Task : Candidate(d, p) /\ c \in Allowed(p)
=============================================================================
