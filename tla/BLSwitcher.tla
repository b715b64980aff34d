----------------------------- MODULE BLSwitcher -----------------------------
(***************************************************************************)
(* The in-kernel switcher (arch/arm/common/bL_switcher.c): pairing of the    *)
(* CPUs of two clusters, one kernel thread per remaining logical CPU that    *)
(* serves switch requests, and the run-time enabling and disabling of it     *)
(* all through sysfs.                                                        *)
(*                                                                           *)
(* A physical CPU is named by the logical CPU it is at boot, so that the     *)
(* initial cpu_logical_map is the identity.  bL_switch_to is one step that   *)
(* exchanges two entries of the map: BLHandover has the handover between the *)
(* two physical CPUs below it.  A section under t->lock                      *)
(* is one step; the accesses to struct bL_thread made outside the lock are   *)
(* steps of their own.  bL_switcher_enable and bL_switcher_disable exclude   *)
(* each other (bL_switcher_activation_lock): one sysfs writer is enough.     *)
(***************************************************************************)
EXTENDS Integers, FiniteSets, FiniteSetsExt

CONSTANTS N,          \* number of logical CPUs
          ClusterOf,  \* the cluster of each physical CPU
          Req,        \* clients of bL_switch_request_cb
          Notified,   \* those that stop at BL_NOTIFY_PRE_DISABLE (as cpufreq does)
          NONE,
          Failures,   \* may thread creation, hotplug, power_up or a notifier fail?
          MaxPend     \* bound: requests with a completer outstanding per client

CPU     == 0 .. N - 1
Cluster == {0, 1}

ASSUME SwitcherAssumption == /\ N \in Nat \ {0}
                             /\ ClusterOf \in [CPU -> Cluster]
                             /\ Notified \subseteq Req /\ NONE \notin Req
                             /\ Failures \in BOOLEAN
                             /\ MaxPend \in Nat \ {0}

VARIABLES active,     \* bL_switcher_active
          map,        \* cpu_logical_map
          online,     \* cpu_online_mask
          pairing,    \* bL_switcher_cpu_pairing; -1 where there is none
          removed,    \* bL_switcher_removed_logical_cpus
          original,   \* bL_switcher_cpu_original_cluster
          task,       \* t->task: NULL, an ERR_PTR or a thread
          wanted,     \* t->wanted_cluster
          completer,  \* t->completer, named by the client it belongs to
          started,    \* t->started
          thread,     \* where the kernel thread of the CPU is, "none" if gone
          stop,       \* has kthread_stop been called on it?
          wq,         \* CPUs whose thread sleeps on t->wq
          job,        \* the thread's cluster and completer locals
          admin,      \* where bL_switcher_enable or _disable is
          todo,       \* CPUs its for_each_online_cpu loop has yet to visit
          open,       \* do the notified clients use the switcher?
          call,       \* the call each client is in
          pend,       \* requests accepted whose completer has not been called
          last,       \* history: cluster of the last request accepted on a CPU
          late        \* history: clients that stored a request on a CPU while
                      \* bL_switcher_disable had it switched back

threadVars == <<task, wanted, completer, started, thread, stop, wq, job>>
adminVars  == <<active, online, pairing, removed, original, admin, todo, open>>
history    == <<pend, last, late>>
svars == <<map, threadVars, adminVars, call, history>>

ThreadPc == {"none", "created", "wait", "switch", "complete", "loop"}
AdminPc  == {"idle", "halve", "create", "drain", "stop", "stopped", "started", "restored"}
NoCall   == [fn |-> "none"]
NoJob    == [cluster |-> -1, completer |-> NONE]
Call     == {NoCall} \cup
            [fn : {"request"}, cpu : CPU, cluster : Cluster, completer : Req \cup {NONE}] \cup
            [fn : {"wake", "detach"}, cpu : CPU]

(* Every variable holds a value of the C object it stands for. *)
SwTypeOK ==
  /\ active \in BOOLEAN /\ open \in BOOLEAN
  /\ map \in [CPU -> CPU] /\ online \subseteq CPU
  /\ pairing \in [CPU -> CPU \cup {-1}] /\ removed \subseteq CPU
  /\ original \in [CPU -> Cluster]
  /\ task \in [CPU -> {"null", "err", "thread"}]
  /\ wanted \in [CPU -> Cluster \cup {-1}] /\ completer \in [CPU -> Req \cup {NONE}]
  /\ started \in [CPU -> BOOLEAN] /\ stop \in [CPU -> BOOLEAN]
  /\ thread \in [CPU -> ThreadPc] /\ wq \subseteq CPU
  /\ job \in [CPU -> [cluster : Cluster \cup {-1}, completer : Req \cup {NONE}]]
  /\ admin \in AdminPc /\ todo \subseteq CPU
  /\ call \in [Req -> Call] /\ pend \in [Req -> 0 .. MaxPend]
  /\ last \in [CPU -> Cluster \cup {-1}] /\ late \subseteq Req

(* Static initialisation: bL_threads is zero, and all CPUs are online. *)
SwInit ==
  /\ active = FALSE /\ open = FALSE
  /\ map = [c \in CPU |-> c] /\ online = CPU
  /\ pairing = [c \in CPU |-> 0] /\ removed = {} /\ original = [c \in CPU |-> 0]
  /\ task = [c \in CPU |-> "null"]
  /\ wanted = [c \in CPU |-> 0] /\ completer = [c \in CPU |-> NONE]
  /\ started = [c \in CPU |-> FALSE] /\ stop = [c \in CPU |-> FALSE]
  /\ thread = [c \in CPU |-> "none"] /\ wq = {} /\ job = [c \in CPU |-> NoJob]
  /\ admin = "idle" /\ todo = {}
  /\ call = [r \in Req |-> NoCall] /\ pend = [r \in Req |-> 0]
  /\ last = [c \in CPU |-> -1] /\ late = {}

(* The cluster a logical CPU runs on. *)
Current(c) == ClusterOf[map[c]]

-----------------------------------------------------------------------------
(* bL_switcher_thread *)

(* kthread(): a thread that is stopped before it first runs never calls      *)
(* bL_switcher_thread; otherwise the thread announces itself and waits.      *)
ThreadRun(c) ==
  /\ thread[c] = "created"
  /\ IF stop[c]
     THEN thread' = [thread EXCEPT ![c] = "none"] /\ UNCHANGED started
     ELSE /\ thread' = [thread EXCEPT ![c] = "wait"]
          /\ started' = [started EXCEPT ![c] = TRUE]
  /\ UNCHANGED <<map, task, wanted, completer, stop, wq, job, adminVars, call, history>>

(* wait_event_interruptible: the thread goes to sleep on t->wq when it has     *)
(* neither a request nor an order to stop; being queued before it looks, it    *)
(* misses no wake-up between the look and the sleep.                           *)
ThreadSleep(c) ==
  /\ thread[c] = "wait" /\ c \notin wq
  /\ wanted[c] = -1 /\ ~stop[c]
  /\ wq' = wq \cup {c}
  /\ UNCHANGED <<map, task, wanted, completer, started, thread, stop, job, adminVars, call,
                 history>>

(* Take the request under t->lock. *)
Fetch(c) ==
  /\ thread[c] = "wait" /\ c \notin wq
  /\ job' = [job EXCEPT ![c] = [cluster |-> wanted[c], completer |-> completer[c]]]
  /\ wanted' = [wanted EXCEPT ![c] = -1]
  /\ thread' = [thread EXCEPT ![c] = IF wanted[c] = -1 THEN "loop" ELSE "switch"]
  /\ UNCHANGED <<map, task, started, stop, wq, adminVars, call, history>>

(* A mutant: the completer is left in place for the next request. *)
BugThreadFetch(c) == (wanted[c] # -1 \/ stop[c]) /\ Fetch(c) /\ completer' = completer

(* A mutant: kthread_stop is not part of what the thread waits for. *)
BugThreadFetchWait(c) ==
  wanted[c] # -1 /\ Fetch(c) /\ completer' = [completer EXCEPT ![c] = NONE]

(* Awake, the thread finds a request, or that kthread_stop was called. *)
ThreadFetch(c) ==
  /\ wanted[c] # -1 \/ stop[c]
  /\ Fetch(c) /\ completer' = [completer EXCEPT ![c] = NONE]

(* The thread calls bL_switch_to, which makes m of cpu_logical_map. *)
Switch(c, m) ==
  /\ thread[c] = "switch"
  /\ thread' = [thread EXCEPT ![c] = "complete"]
  /\ map' = IF job[c].cluster = Current(c) THEN map ELSE m
  /\ UNCHANGED <<task, completer, started, stop, wq, job, adminVars, call, history>>

Swapped(c) == [map EXCEPT ![c] = map[pairing[c]], ![pairing[c]] = map[c]]

(* A mutant: a request that arrived during the switch is dropped at its end. *)
BugThreadSwitch(c) == Switch(c, Swapped(c)) /\ wanted' = [wanted EXCEPT ![c] = -1]

(* A mutant: the counterpart's entry of cpu_logical_map is not updated. *)
BugThreadSwitchMap(c) ==
  Switch(c, [map EXCEPT ![c] = map[pairing[c]]]) /\ UNCHANGED wanted

(* bL_switch_to: nothing to do on the right cluster; else exchange the two   *)
(* physical CPUs in the logical map, unless the inbound cannot be powered up. *)
ThreadSwitch(c) ==
  /\ Switch(c, Swapped(c)) \/ (Failures /\ Switch(c, map))
  /\ UNCHANGED wanted

(* The completer fetched with the request is called. *)
ThreadComplete(c) ==
  LET r == job[c].completer IN
  /\ thread[c] = "complete"
  /\ thread' = [thread EXCEPT ![c] = "loop"]
  /\ pend' = IF r = NONE THEN pend ELSE [pend EXCEPT ![r] = @ - 1]
  /\ UNCHANGED <<map, task, wanted, completer, started, stop, wq, job, adminVars, call, last,
                 late>>

Loop(c, next) ==
  /\ thread[c] = "loop"
  /\ thread' = [thread EXCEPT ![c] = next]
  /\ job' = [job EXCEPT ![c] = NoJob]
  /\ UNCHANGED <<map, task, wanted, completer, started, stop, wq, adminVars, call, history>>

(* A mutant: the loop ends after a request even when nobody stops it. *)
BugThreadLoop(c) == Loop(c, "none")

(* while (!kthread_should_stop()) *)
ThreadLoop(c) == Loop(c, IF stop[c] THEN "none" ELSE "wait")

-----------------------------------------------------------------------------
(* bL_switch_request_cb and bL_switch_request_detach *)

(* Some client may call into the switcher at any time, one that is notified  *)
(* of PRE_DISABLE only while it is told that the switcher is enabled.  The   *)
(* call returns an error unless t->task is a thread.                         *)
MayCall(r, c) == /\ call[r] = NoCall
                 /\ r \in Notified => open
                 /\ task[c] = "thread"

RequestCheck(r, c, k, cb) ==
  /\ MayCall(r, c)
  /\ cb # NONE => pend[r] < MaxPend
  /\ call' = [call EXCEPT ![r] = [fn |-> "request", cpu |-> c, cluster |-> k, completer |-> cb]]
  /\ UNCHANGED <<map, threadVars, adminVars, history>>

(* Under t->lock: -EBUSY while a completer is registered, else store.  The     *)
(* thread is woken after the lock is dropped.                                  *)
RequestStore(r) ==
  LET q == call[r] IN
  /\ q.fn = "request"
  /\ IF completer[q.cpu] # NONE
     THEN /\ call' = [call EXCEPT ![r] = NoCall]
          /\ UNCHANGED <<completer, wanted, history>>
     ELSE /\ call' = [call EXCEPT ![r] = [fn |-> "wake", cpu |-> q.cpu]]
          /\ completer' = [completer EXCEPT ![q.cpu] = q.completer]
          /\ wanted' = [wanted EXCEPT ![q.cpu] = q.cluster]
          /\ last' = [last EXCEPT ![q.cpu] = q.cluster]
          /\ pend' = IF q.completer = NONE THEN pend ELSE [pend EXCEPT ![r] = @ + 1]
          /\ late' = IF admin \in {"started", "restored"} /\ q.cpu = Min(todo)
                     THEN late \cup {r} ELSE late
  /\ UNCHANGED <<map, task, started, thread, stop, wq, job, adminVars>>

(* The end of the request. *)
Return(r) ==
  /\ call[r].fn = "wake"
  /\ call' = [call EXCEPT ![r] = NoCall]
  /\ UNCHANGED <<map, task, wanted, completer, started, thread, stop, job, adminVars, history>>

(* A mutant: the thread is not woken. *)
BugRequestWake(r) == Return(r) /\ UNCHANGED wq

(* wake_up(&t->wq), whoever sleeps there by now. *)
RequestWake(r) == Return(r) /\ wq' = wq \ {call[r].cpu}

DetachCheck(r, c) ==
  /\ MayCall(r, c)
  /\ call' = [call EXCEPT ![r] = [fn |-> "detach", cpu |-> c]]
  /\ UNCHANGED <<map, threadVars, adminVars, history>>

(* Under t->lock: forget the completer if it is still the caller's. *)
DetachStore(r) ==
  LET q == call[r] IN
  /\ q.fn = "detach"
  /\ call' = [call EXCEPT ![r] = NoCall]
  /\ IF completer[q.cpu] = r
     THEN /\ completer' = [completer EXCEPT ![q.cpu] = NONE]
          /\ pend' = [pend EXCEPT ![r] = @ - 1]
     ELSE UNCHANGED <<completer, pend>>
  /\ UNCHANGED <<map, task, wanted, started, thread, stop, wq, job, adminVars, last, late>>

-----------------------------------------------------------------------------
(* bL_switcher_enable *)

(* The pairing of bL_switcher_halve_cpus: in increasing order, each CPU that *)
(* is on the cluster of the first one takes the last CPU still available on  *)
(* the other cluster.                                                        *)
PairStep(p, c) ==
  LET cluster0 == Current(Min(online))
      match    == {j \in p.avail \ {c} : Current(j) # cluster0}
  IN CASE c \notin p.avail \/ Current(c) # cluster0 -> p
       [] c \in p.avail /\ Current(c) = cluster0 /\ match = {} ->
            [p EXCEPT !.avail = @ \ {c}]
       [] OTHER -> [avail |-> p.avail \ {c, Max(match)},
                    pair  |-> [p.pair EXCEPT ![c] = Max(match)]]

HalvePass[i \in 0 .. N] ==
  IF i = 0 THEN [avail |-> online, pair |-> [c \in CPU |-> -1]]
  ELSE PairStep(HalvePass[i - 1], i - 1)

Pairing == HalvePass[N].pair

(* BL_NOTIFY_PRE_ENABLE, which a client may veto. *)
EnableBegin ==
  /\ admin = "idle" /\ ~active
  /\ admin' = "halve"
  /\ UNCHANGED <<map, threadVars, active, online, pairing, removed, original, todo, open,
                 call, history>>

(* bL_switcher_halve_cpus: only both clusters together can be paired; the    *)
(* unpaired CPUs go offline.  If one does not, those already removed return. *)
HalveCpus ==
  /\ admin = "halve"
  /\ {Current(c) : c \in online} = Cluster
  /\ pairing' = Pairing
  /\ online' = {c \in online : pairing'[c] # -1}
  /\ removed' = online \ online'
  /\ original' = [c \in CPU |-> IF c \in online' THEN Current(c) ELSE original[c]]
  /\ admin' = "create" /\ todo' = online'
  /\ UNCHANGED <<map, threadVars, active, open, call, history>>

(* The error label of bL_switcher_enable.  A pass that fails half way brings  *)
(* back the CPUs it has removed, as far as cpu_up does; the tables it has     *)
(* filled are filled again before anything reads them.                        *)
EnableFails ==
  /\ admin = "halve"
  /\ \/ {Current(c) : c \in online} # Cluster /\ UNCHANGED online
     \/ /\ Failures
        /\ \E lost \in SUBSET {c \in online : Pairing[c] = -1} : online' = online \ lost
  /\ admin' = "idle"
  /\ UNCHANGED <<map, threadVars, active, pairing, removed, original, todo, open, call, history>>

(* One CPU's struct bL_thread is set up, without t->lock, and its thread      *)
(* created; t->completer is not touched.                                     *)
CreateThread ==
  LET c == Min(todo) IN
  /\ admin = "create" /\ todo # {}
  /\ todo' = todo \ {c}
  /\ wanted' = [wanted EXCEPT ![c] = -1]
  /\ started' = [started EXCEPT ![c] = FALSE]
  /\ last' = [last EXCEPT ![c] = -1]
  /\ \/ /\ task' = [task EXCEPT ![c] = "thread"]
        /\ thread' = [thread EXCEPT ![c] = "created"]
        /\ stop' = [stop EXCEPT ![c] = FALSE]
     \/ /\ Failures
        /\ task' = [task EXCEPT ![c] = "err"]
        /\ UNCHANGED <<thread, stop>>
  /\ UNCHANGED <<map, completer, wq, job, active, online, pairing, removed, original, admin,
                 open, call, pend, late>>

(* BL_NOTIFY_POST_ENABLE. *)
EnableDone ==
  /\ admin = "create" /\ todo = {}
  /\ active' = TRUE /\ open' = TRUE
  /\ admin' = "idle"
  /\ UNCHANGED <<map, threadVars, online, pairing, removed, original, todo, call, history>>

-----------------------------------------------------------------------------
(* bL_switcher_disable *)

(* BL_NOTIFY_PRE_DISABLE tells the notified clients to stop. *)
DisableBegin ==
  /\ admin = "idle" /\ active
  /\ admin' = "drain" /\ open' = FALSE
  /\ UNCHANGED <<map, threadVars, active, online, pairing, removed, original, todo, call, history>>

(* A mutant: the notifier does not wait for the calls in flight. *)
BugDrained ==
  /\ admin = "drain"
  /\ active' = FALSE
  /\ admin' = "stop" /\ todo' = online
  /\ UNCHANGED <<map, threadVars, online, pairing, removed, original, open, call, history>>

(* The notifier chain returns once none of them is in a call. *)
NoneCalls == \A r \in Notified : call[r] = NoCall
Drained   == NoneCalls /\ BugDrained

(* A client vetoes: BL_NOTIFY_POST_ENABLE is sent instead. *)
DisableVetoed ==
  /\ admin = "drain" /\ Failures /\ NoneCalls
  /\ admin' = "idle" /\ open' = TRUE
  /\ UNCHANGED <<map, threadVars, active, online, pairing, removed, original, todo, call, history>>

(* t->task is cleared and its thread told to stop, and woken, by kthread_stop; *)
(* a CPU without one is done.                                                *)
StopThread ==
  LET c == Min(todo) IN
  /\ admin = "stop" /\ todo # {}
  /\ task' = [task EXCEPT ![c] = "null"]
  /\ IF task[c] = "thread"
     THEN /\ stop' = [stop EXCEPT ![c] = TRUE] /\ wq' = wq \ {c}
          /\ admin' = "stopped" /\ UNCHANGED todo
     ELSE todo' = todo \ {c} /\ UNCHANGED <<stop, wq, admin>>
  /\ UNCHANGED <<map, wanted, completer, started, thread, job, active, online, pairing, removed,
                 original, open, call, history>>

(* A mutant: the thread is told to stop but not waited for. *)
BugStopped ==
  LET c == Min(todo) IN
  /\ admin = "stopped"
  /\ Current(c) = original[c]
  /\ admin' = "stop" /\ todo' = todo \ {c}
  /\ UNCHANGED <<map, threadVars, active, online, pairing, removed, original, open, call, history>>

(* kthread_stop has returned.  A CPU on its original cluster is done; for    *)
(* another a thread is created to switch it back.                            *)
Stopped ==
  LET c == Min(todo) IN
  /\ admin = "stopped" /\ thread[c] = "none"
  /\ \/ /\ Current(c) = original[c]
        /\ admin' = "stop" /\ todo' = todo \ {c}
        /\ UNCHANGED <<wanted, started, thread, stop, removed>>
     \/ /\ Current(c) # original[c]
        /\ wanted' = [wanted EXCEPT ![c] = original[c]]
        /\ started' = [started EXCEPT ![c] = FALSE]
        /\ \/ /\ thread' = [thread EXCEPT ![c] = "created"]
              /\ stop' = [stop EXCEPT ![c] = FALSE]
              /\ admin' = "started" /\ UNCHANGED <<todo, removed>>
           \/ /\ Failures
              /\ removed' = removed \ {pairing[c]}
              /\ admin' = "stop" /\ todo' = todo \ {c}
              /\ UNCHANGED <<thread, stop>>
  /\ UNCHANGED <<map, task, completer, wq, job, active, online, pairing, original, open, call,
                 history>>

(* The second thread has started: kthread_stop tells it to stop and wakes it. *)
Started ==
  LET c == Min(todo) IN
  /\ admin = "started" /\ started[c]
  /\ stop' = [stop EXCEPT ![c] = TRUE] /\ wq' = wq \ {c}
  /\ admin' = "restored"
  /\ UNCHANGED <<map, task, wanted, completer, started, thread, job, active, online, pairing,
                 removed, original, todo, open, call, history>>

(* It is gone, and this CPU done. *)
Done ==
  /\ admin = "restored" /\ thread[Min(todo)] = "none"
  /\ admin' = "stop" /\ todo' = todo \ {Min(todo)}
  /\ UNCHANGED <<map, threadVars, active, online, pairing, original, open, call, history>>

(* A mutant: the outcome of the switch back is not looked at. *)
BugRestored == Done /\ UNCHANGED removed

(* If the CPU is still not back, its counterpart stays removed. *)
Restored ==
  LET c == Min(todo) IN
  Done /\ removed' = IF Current(c) = original[c] THEN removed ELSE removed \ {pairing[c]}

(* bL_switcher_restore_cpus, which ignores what cpu_up returns, and then     *)
(* BL_NOTIFY_POST_DISABLE.                                                   *)
DisableDone ==
  /\ admin = "stop" /\ todo = {}
  /\ \E back \in IF Failures THEN SUBSET removed ELSE {removed} :
       online' = online \cup back
  /\ admin' = "idle"
  /\ UNCHANGED <<map, threadVars, active, pairing, removed, original, todo, open, call, history>>

-----------------------------------------------------------------------------
ThreadStep(c) == \/ ThreadRun(c) \/ ThreadSleep(c) \/ ThreadFetch(c) \/ ThreadSwitch(c)
                 \/ ThreadComplete(c) \/ ThreadLoop(c)
CallReturns(r) == RequestStore(r) \/ RequestWake(r) \/ DetachStore(r)
ClientStep(r) == \/ \E c \in CPU, k \in Cluster, cb \in {NONE, r} : RequestCheck(r, c, k, cb)
                 \/ \E c \in CPU : DetachCheck(r, c)
                 \/ CallReturns(r)
AdminWork == \/ HalveCpus \/ EnableFails \/ CreateThread \/ EnableDone
             \/ Drained \/ DisableVetoed \/ StopThread \/ Stopped \/ Started \/ Restored
             \/ DisableDone

SwNext == \/ \E c \in CPU : ThreadStep(c)
          \/ \E r \in Req : ClientStep(r)
          \/ EnableBegin \/ DisableBegin
          \/ AdminWork

SwSafetySpec == SwInit /\ [][SwNext]_svars

(* Threads, calls in progress and a sysfs write in progress are scheduled. *)
SwFairness == /\ \A c \in CPU : WF_svars(ThreadStep(c))
              /\ \A r \in Req : WF_svars(CallReturns(r))
              /\ WF_svars(AdminWork)

SwSpec == SwSafetySpec /\ SwFairness
-----------------------------------------------------------------------------
(* The parts of the inductive invariant.                                     *)

(* Are the CPUs paired, and half of them offline? *)
Halved == active \/ admin \notin {"idle", "halve"}

(* Where bL_switcher_enable and bL_switcher_disable are. *)
Stopping == {"stop", "stopped", "started", "restored"}

AdminSound ==
  /\ active => admin \in {"idle", "drain"}
  /\ admin = "drain" => active
  /\ admin \in {"idle", "halve", "drain"} => todo = {}
  /\ admin \in {"stopped", "started", "restored"} => todo # {} /\ task[Min(todo)] = "null"
  /\ todo \subseteq online

(* The CPU that bL_switcher_disable is bringing home. *)
Homing(c) == admin \in {"stopped", "started", "restored"} /\ c = Min(todo)

(* A CPU has the thread that its t->task names and no other, except that the  *)
(* thread which switches it back is never visible to clients.                 *)
ThreadsSound == \A c \in CPU :
  /\ task[c] = "thread" => /\ thread[c] # "none" /\ ~stop[c]
                           /\ c \in online /\ Halved
                           /\ admin = "create" => c \notin todo
                           /\ admin \in Stopping => c \in todo
  /\ task[c] # "thread" /\ thread[c] # "none" => Homing(c)

(* A thread asleep on t->wq has nothing to do, or a client that has stored a   *)
(* request for it and is about to wake it.                                     *)
WakePending == \A c \in wq :
  /\ thread[c] = "wait" /\ ~stop[c]
  /\ wanted[c] # -1 => \E r \in Req : call[r] = [fn |-> "wake", cpu |-> c]

(* A client registers its own completer only, within its bound. *)
CallsSound == \A r \in Req : LET q == call[r] IN
  q.fn = "request" => q.completer = NONE \/ (q.completer = r /\ pend[r] < MaxPend)

(* No physical CPU belongs to two logical ones; every online CPU has an       *)
(* offline counterpart of its own on the other cluster.                       *)
PairsSound ==
  /\ \A c, d \in CPU : map[c] = map[d] => c = d
  /\ Halved => \A c \in online : /\ pairing[c] \in CPU \ online
                                 /\ Current(pairing[c]) # Current(c)
                                 /\ \A d \in online : pairing[c] = pairing[d] => c = d

(* The CPUs that were online when the switcher was enabled, and a physical    *)
(* CPU that is not the boot CPU of any of them but x.                         *)
Managed == online \cup removed \cup {pairing[c] : c \in online}
Own(x, p) == p = x \/ p \notin Managed

(* On its original cluster a CPU is on what it was given at the start, on the *)
(* other one it has its counterpart's; and a CPU left without a thread is     *)
(* back, or its counterpart does not return.                                  *)
HomesKept ==
  /\ ~Halved => \A c \in online : map[c] # c => map[c] \notin online
  /\ Halved =>
       /\ \A c \in online : LET d == pairing[c] IN
            /\ Current(c) = original[c] => Own(c, map[c]) /\ Own(d, map[d])
            /\ Current(c) # original[c] => Own(c, map[d]) /\ Own(d, map[c])
            /\ \/ task[c] = "thread" \/ Homing(c)
               \/ Current(c) = original[c] \/ d \notin removed
       /\ \A d \in removed \ online : (\A c \in online : pairing[c] # d) => Own(d, map[d])

(* The last request is in t->wanted_cluster, in the thread's hands, or done. *)
RequestsKept == ~Failures => \A c \in CPU : task[c] = "thread" =>
  /\ wanted[c] # -1 => last[c] = wanted[c]
  /\ wanted[c] = -1 /\ last[c] # -1 =>
       \/ thread[c] = "switch" /\ job[c].cluster = last[c]
       \/ thread[c] \in {"complete", "loop", "wait"} /\ Current(c) = last[c]

(* Nothing fails, and no request has come too late. *)
Undisturbed == ~Failures /\ late = {}

(* The clients that stop when they are told to are never late. *)
NotifiedSound ==
  /\ open => active /\ admin = "idle"
  /\ admin \in Stopping => NoneCalls
  /\ late \cap Notified = {}

(* The thread that switches CPU c back has its request, or has done it. *)
Returning(c) ==
  /\ thread[c] = "created" => /\ admin = "started" /\ ~started[c] /\ ~stop[c]
                              /\ wanted[c] = original[c]
  /\ thread[c] = "wait" => wanted[c] # -1 \/ Current(c) = original[c]
  /\ thread[c] = "switch" => job[c].cluster = original[c]
  /\ thread[c] \in {"complete", "loop", "none"} => Current(c) = original[c]
  /\ wanted[c] \in {-1, original[c]}
  /\ thread[c] \notin {"created", "wait"} => wanted[c] = -1

RestoreSound == Undisturbed =>
  /\ ~Halved => map = [c \in CPU |-> c] /\ online = CPU
  /\ Halved => online \cup removed = CPU /\ \A c \in online : pairing[c] \in removed
  /\ \A c \in online : Homing(c) /\ admin # "stopped" => Returning(c)
-----------------------------------------------------------------------------
(* The logical CPUs that bL_switcher_get_logical_index may answer for p. *)
LogicalIndex(p) == {c \in online : p \in {map[c], map[pairing[c]]}}

(* While the switcher is active, every online CPU has a counterpart that is  *)
(* offline and on the other cluster, whatever switches have been made, and   *)
(* no physical CPU belongs to two logical ones (bL_switcher_halve_cpus,      *)
(* bL_switch_to, bL_switcher_get_logical_index).                             *)
PairingSound == active =>
  /\ \A c \in online : /\ pairing[c] \in CPU \ online
                       /\ ClusterOf[map[pairing[c]]] # Current(c)
  /\ \A p \in CPU : Cardinality(LogicalIndex(p)) <= 1

(* A completer is called at most once for each request accepted with it:     *)
(* what t->completer and the threads still hold never exceeds the requests   *)
(* not yet completed or detached, even after a thread is stopped with a      *)
(* request pending and the switcher is enabled again over it.                *)
CompleterOnce == \A r \in Req :
  Cardinality({c \in CPU : completer[c] = r})
  + Cardinality({c \in CPU : thread[c] \in {"switch", "complete"} /\ job[c].completer = r})
    <= pend[r]

(* The inductive invariant.  The struct bL_thread of a CPU is in use by the   *)
(* one thread that it stands for, through every enable and disable; pairs and *)
(* physical CPUs stay one to one; no completer is called too often; and each  *)
(* CPU is on its way to the cluster it was last asked to be on, or home.      *)
SwInv == /\ SwTypeOK /\ AdminSound /\ ThreadsSound /\ WakePending /\ CallsSound
         /\ CompleterOnce /\ PairsSound /\ HomesKept /\ RequestsKept /\ NotifiedSound
         /\ RestoreSound

(* A CPU handed back by bL_switcher_disable never has its own physical CPU   *)
(* in use under another logical CPU: where the switch back failed, its       *)
(* counterpart stays offline (the pr_crit path of bL_switcher_disable).      *)
HomeNotTaken == admin = "idle" /\ ~active =>
  \A c \in online : map[c] # c => map[c] \notin online

(* The request accepted last decides: with the thread idle again, the CPU is *)
(* on the cluster that request asked for, however requests and switches      *)
(* overlapped (bL_switch_request_cb overwrites, bL_switcher_thread refetches). *)
LastRequestWins == \A c \in CPU :
  active /\ thread[c] = "wait" /\ wanted[c] = -1 /\ last[c] # -1 => Current(c) = last[c]

(* After bL_switcher_disable every CPU is back on its own physical CPU and   *)
(* online: "without any possibility for interference from external requests". *)
(* A client that checked t->task before it was cleared can still store its    *)
(* request in t->wanted_cluster over the one to switch back.                  *)
DisableRestores == admin = "idle" /\ ~active => map = [c \in CPU |-> c] /\ online = CPU

(* That late store is the only interference there is: unless some client made *)
(* one, bL_switcher_disable brings every CPU back.  A client that ends its    *)
(* calls at BL_NOTIFY_PRE_DISABLE never makes one.                            *)
RestoredUnlessLate == /\ late \cap Notified = {}
                      /\ late = {} => DisableRestores

(* A write to the sysfs file always returns: kthread_stop, the notifiers and *)
(* wait_for_completion(&t->started) cannot block bL_switcher_disable forever. *)
AdminCompletes == admin # "idle" ~> admin = "idle"

(* While the switcher stays enabled, a stored request is picked up by the    *)
(* thread: it is never left asleep on t->wq beside the request, whether it    *)
(* looked before the store, between the store and wake_up, or after.          *)
RequestServed == \A c \in CPU :
  (active /\ task[c] = "thread" /\ wanted[c] # -1) ~> (~active \/ wanted[c] = -1)

=============================================================================
