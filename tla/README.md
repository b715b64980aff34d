# big.LITTLE power and switching: a TLA+ verification project

The repository is a Linux 3.10 tree with the two ways of running a
big.LITTLE machine: the in-kernel switcher (IKS), where a logical CPU hops
between a big and a LITTLE core, and global task scheduling (GTS, "HMP"), where
the scheduler sees all cores and moves tasks.  Both rest on multi-cluster power
management (MCPM), which lets CPUs and whole clusters lose power and come back
while nobody else notices.  This project models that foundation (the most
concurrent part of the code, which runs with caches off and without ordinary
locks), the switcher with its handover and its cpufreq client, and the task
migration of the HMP scheduler.

Source paths below are relative to `src/3.10/`.

## Inventory

| Part | State | Operations | Interaction | Hard behaviour | What makes it correct |
|---|---|---|---|---|---|
| Voting lock, `arch/arm/common/vlock.S` | owner byte, one voting byte per CPU | `vlock_trylock`, `vlock_unlock` | used by `mcpm_entry_point` before coherency | plain loads and stores by several CPUs at once, voting bytes over several words | one holder; somebody wins; every call returns |
| MCPM protocol, `mcpm_head.S`, `mcpm_entry.c` | state of each CPU, of the cluster, of the inbound side | entry code (first man), `__mcpm_*` (last man) | backends call it, firmware jumps into it | wake-ups during teardown, aborts, waiting in both directions | teardown and setup exclude each other and every user of the cluster; nobody waits forever |
| TC2 backend, `mach-vexpress/tc2_pm.c` | use counts, a lock, power-controller registers | `power_up`, `power_down`, `suspend`, `powered_up`, `power_up_setup` | callback table of MCPM | unordered `power_up`/`power_down`, last man waits with the lock held | one last man; power cut only when safe; a wanted CPU can be woken |
| Hotplug and idle, `mcpm_platsmp.c`, `kernel/smp.c`, `drivers/cpuidle/arm_big_little.c` | entry vector, completions, online mask | boot, die, suspend | call MCPM | a CPU declared dead is still running; boot timeout and retry | a boot ends with the CPU online |
| Switcher, `bL_switcher.c` | pairing, logical map, one `bL_thread` per CPU | request, detach, thread, enable, disable | cpufreq and a test device are clients; uses MCPM | requests racing with disable, lost or repeated completions, failures half way | a switch is what was asked for last; disabling brings every CPU home |
| Handover, `bL_switch_to` in `bL_switcher.c` | entry vectors, early pokes, saved context, handshake | switch, suspend, entry | between the switcher thread, MCPM and cpuidle | two CPUs around one saved context; vectors and pokes left over from an earlier life | one CPU runs the context; every switch ends |
| cpufreq, `drivers/cpufreq/arm_big_little.c` | requested rate and cluster of each CPU, two locks | set rate, notifier | client of the switcher | two locks in turn, ignored errors | a cluster ends up at the highest rate its CPUs ask for; no deadlock |
| HMP scheduler, `kernel/sched/fair.c` | `active_balance`, `push_cpu`, `migrate_task` per run queue, load averages | forced up/down migration, idle pull, stopper | all CPUs' balancers against one CPU's stopper | task pointers kept across unlocks, locks dropped inside loops | at most one migration per queue; the task outlives it; locks balanced |
| Load tracking, `fair.c` | decayed sums | update, decay | input of HMP | fixed-point arithmetic, table ends | bounds, monotonicity |
| DCSCB and PSCI backends | use counts, reset register | as TC2 | as TC2 | as TC2 | as TC2 |

`PROJECT.json` lists the components with their status, and the hazards with
the properties that watch them.

## Modules

* `Vlock`: the voting lock, one action per memory access.  `NWords = 1` is the
  build of this tree (four CPUs to a cluster at most), more words the other
  branch of the `#if`.
* `TryLock`: what callers may rely on: one holder, and an attempt fails only if
  it met another CPU.  `VlockTryLock` adds to `Vlock` the history variable that
  records whether an attempt has met another CPU, and the mapping to `TryLock`.
* `Mcpm` (extends `Vlock`): the protocol for one cluster of `N` CPUs.  `pc` is
  where a CPU executes; `cpu`, `cluster` and `inbound` are `mcpm_sync`; `scan`
  is the loop index of the last man; `coherent` says whether the cluster's CCI
  port is on.  One action is one access to shared memory.  The backend appears
  as two guards, its obligations: `EnterCritical` (one last man at a time, in a
  cluster that is up) and `PoweredUp` (no CPU gets back into the kernel while
  the last man looks around).
* `Tc2Pm` (extends `Mcpm`): `tc2_pm.c` with its callers.  It reuses the steps of
  `Mcpm` *without* the two guards and adds lock, counts, power controller,
  hotplug state and entry vectors; `ImplementsMcpm` says that the guards hold
  all the same.  Between taking and releasing `tc2_pm_lock` there is one step,
  except for the last man, who keeps it while scanning.  Hotplug is driven from
  a CPU of another cluster and serialised, as by the hotplug lock.
  `wfi`, the interrupt routing and the resume address are external hardware: a
  CPU in `wfi` can be woken if its interrupt is routed to the controller and an
  address is set.  A CPU is taken as in reach of `__cpu_up`'s timeout only when
  it is stuck at its gate: one second is long enough for one that is not.  The
  boot may then be tried again, as often as user space likes, and counts the CPU
  once more (`recounted` is history); the `BUG()` of `tc2_pm_power_up` leaves the
  lock held (`PowerUpBug`).  `Unplugged` bounds the CPUs that user space unplugs.
  `cpuidle` always passes residency 0; `Suspend` also covers the short
  residencies the interface allows (`DownNotLast`).
* `BLSwitcher`: the switcher.  A physical CPU is named by the logical CPU it is
  at boot.  Each section under `t->lock` is a step; accesses outside the lock
  (the check of `t->task`, the set-up in enable and disable) are steps of their
  own.  Clients in `Notified` stop calling at `BL_NOTIFY_PRE_DISABLE`, which
  waits for their calls, as cpufreq does by unregistering; the others do not, as
  `bL_switcher_dummy_if.c`.  `Failures` lets thread creation, hotplug,
  `mcpm_cpu_power_up` and notifiers fail.  A pass of `bL_switcher_halve_cpus` that
  fails half way is undone by `bL_switcher_restore_cpus`, which may itself leave
  CPUs offline (`EnableFails`).  `Pairing` is the pairing loop, as a function of
  the number of CPUs visited.  A thread that finds nothing to do sleeps on `t->wq`
  (`wq`) and runs again only when it is woken, by `kthread_stop` or by a client's
  `wake_up`, which is a step after the store (`RequestStore`, `RequestWake`).
  `pend`, `last` and `late` (the clients whose request reached a CPU that was being
  switched back) are history.
* `BLHandover`: the inside of `bL_switch_to`, which `BLSwitcher` takes as one
  step, for one logical CPU and its pair of physical CPUs: gates, early poke,
  `inbound_alive`, the swap of the logical map, the saved context (`slot`), the
  isolated stack with its handshake, and the way down and up of each physical
  CPU reduced to what the handover can see (use count, resume address, gate).
  The early poke is the first act of the entry code (`Enter`), the way through the
  first-man protocol to the gate a later step (`Setup`): the outbound may swap the
  map, save its context and open the gate before the inbound has reached it.
  While the thread sleeps the logical CPU may be suspended by cpuidle, which
  uses the same vectors and the same save area.
* `LogicalCpu`: what the handover promises: a CPU that runs in one place and
  moves in one step, or gives up.  `BLHandover` implements it under the mapping
  `on <- ` the CPU that holds the context.
* `BLCpufreq`: `bL_cpufreq_set_target` and `bL_cpufreq_set_rate` with the switcher
  enabled.  The two cluster locks, each store to `cpu_last_req_freq` and
  `physical_cluster` (in either order) and each CPU that `find_cluster_maxfreq`
  reads are steps of their own.  `clk_set_rate` reaches the SPC, which refuses a
  rate that is not in the cluster's table without reporting it; it may also
  fail with an error, as may `bL_switch_request` (`MayFail`; `failed` is history).
  Of the switcher only the last accepted request matters (`asked`), which it
  carries out in the end: `LastRequestWins` and `RequestServed` of `BLSwitcher`.
* `HmpMigration`: `hmp_force_up_migration`, `hmp_idle_pull`, `hmp_migrate_runnable_task`
  and the stopper function of `kernel/sched/fair.c`, in the plain
  `CONFIG_SCHED_HMP` build, with and without `CONFIG_HMP_DELAY_UP_MIGRATION`
  (`cfg`), together with what they race with: `schedule`, `try_to_wake_up`, exit,
  and `load_balance` inside a cluster.  A section under a run queue's lock is a
  step; `double_lock_balance` separates two.  Wherever the code compares loads,
  priorities or time stamps either outcome is possible.  The `BUG_ON`s do not
  halt the model: `NeverSameQueue` says whether they can fire.
* `VlockProofs`, `VlockTryLockProofs`, `McpmProofs`, `Tc2PmProofs`,
  `BLSwitcherProofs`, `BLHandoverProofs`, `BLCpufreqProofs`, `HmpMigrationProofs`:
  the proofs, each of the module whose name it carries.  `MC*`: constants for TLC.

Operators named `Bug...` stand before the definition they vary: each is the
mistake that one property is there to catch.

All modules assume that shared variables are sequentially consistent: the lock
lives in strongly-ordered memory, and the protocol's variables are accessed
with the `sync_cache_*` operations and barriers that are there to make it so.

## Runs

| Run | Shows | Bounds |
|---|---|---|
| `vlock` | the inductive invariant, a winner, termination, refinement of `TryLock` (exclusion included) | 4 CPUs, 2 words with two CPUs each: votes are overwritten within and across words that are polled in turn |
| `mcpm` | the inductive invariant and the properties below; entries and exits complete | 3 CPUs: a last man or first man, a loser of the election, and a CPU going down at once |
| `tc2` | the inductive invariant, refinement of `Mcpm`, no `BUG` but after a retried boot, power-off safety, wake-up, no lock deadlock; downs and power-ups complete | 2 CPUs, both unplugged and booted: a last man and a CPU that is booted, woken or going down against it; both as boot cluster and as the other.  The refinement and the invariants are proved for every number of CPUs, and `mcpm` has three; the safety part passes with `N = 3`, `Unplugged = {0}` too |
| `switcher` | pairing, completers, CPUs handed back, with all failures | 2+2 CPUs, one client outside the notifiers |
| `switcher_clients` | the inductive invariant; last request wins; disable restores unless a request came late; sysfs writes return; requests are served | 1+1 CPUs, a client that heeds the notifiers and one that does not, two pending completions each; no failures, which is when every part of the invariant speaks |
| `handover` | the inductive invariant; one context, gates, handshake, completion; refinement of `LogicalCpu`, so every switch ends | the pair of CPUs is the whole system; `mcpm_cpu_power_up` may fail |
| `cpufreq` | the inductive invariant; rates settle, calls complete | 2 CPUs moving in any direction, two rates per cluster, meeting in one frequency as the tables of the TC2 do |
| `hmp` | the inductive invariant (one migrator included), handshake, references, placement, orders end | 2 slow CPUs and a fast one, 2 tasks; affinities such that a task may be anywhere or on some CPUs only; both builds |
| `tc2_retry`, `switcher_interference`, `hmp_same_queue`, `hmp_wake` | end in a violation, see below | as `tc2`, `switcher_clients` with one client, and `hmp` |

Deadlock is checked except in `tc2`, where CPUs may end up stuck at their gates
and a `BUG()` stops with the lock held (disagreement 1), and in the `hmp` runs,
where all tasks may have exited.  `MaxPend` bounds the completions outstanding
per client.

The properties that matter most:

* `TeardownExclusive`, `SetupExclusive`, `CommittedCoherent`: the cluster is
  taken down by one CPU on which nobody depends, set up by one CPU while nobody
  takes it down, and coherent for everyone the entry code lets through.
* `NotStranded`: whoever waits at `mcpm_setup_wait` has somebody who will bring
  the cluster up.  It depends on the second obligation of backends: without it
  (`BugPoweredUp`) a CPU that the last man already found up may go down again,
  and a loser of the election waits for a cluster that is down for good.
* `PowerOffSafe`, `WantedCanWake`, `PowerUpDelivered`: the power controller is
  never allowed to cut a cluster that was not torn down, and no request to come
  up is lost however it is ordered against the way down, with one exception: the
  CPU that has itself cleared the vector it then waits for (disagreement 1).
* `OneContext`, `GateSound`, `HandshakeAlive`: outbound and inbound never run the
  same context, no vector left behind by cpuidle or by an earlier switch lets a
  CPU through, and the inbound writes its handshake to a stack that still waits
  for it.  `GateSound` is why `bL_switch_to` closes both gates: with only its own
  closed, the vector of the previous switch lets the inbound through at once.
* `RateSettles`: a rate computed from half of another CPU's move may be too low,
  or one that the cluster does not have and the SPC refuses; it does not stay,
  because the mover recomputes the cluster it leaves.
* `HandshakeOwned`, `RefsCounted`, `OneMigrator`, `PlacementSound`: the order to a
  stopper has one owner at a time, every `get_task_struct` has its
  `put_task_struct` however a migration ends, `hmp_force_migration` excludes, and
  nothing is moved that runs or may not run there, although the checks precede
  an unlock.
* `PmLockSafe`: whoever waits for `tc2_pm_lock` finds what the `BUG_ON`s of
  `tc2_pm_down` ask for, the last man who holds it waits for nobody who wants it,
  and the `BUG()` of `tc2_pm_power_up` is reached by no other way than
  disagreement 1.
* `CompleterOnce`, `HomeNotTaken`, `LastRequestWins`, `RestoredUnlessLate`:
  requests and failures of the switcher against its life cycle.
* `RequestServed`: no wake-up is lost between a thread that is about to sleep and a
  client that stores a request.  Without the `wake_up` (`BugRequestWake`) the
  thread sleeps on beside it.

### Fairness

A CPU that executes keeps executing (weak fairness of its own steps); what a
policy or the hardware decides (going down, waking by itself, a new request, a
write to sysfs) is never promised.  `tc2_pm_lock` is a ticket lock, so strong
fairness is assumed for those who want it.  A CPU in `wfi` answers the wake-up
interrupt that `mcpm_boot_secondary` sends.  Kernel threads that are awake,
calls in progress (their `wake_up` included) and a sysfs write in progress are
scheduled; a thread asleep on `t->wq` is not.  A mutex queues its waiters, so
whoever wants a `cluster_lock` that is free again and again gets it (strong
fairness), and interrupts are taken, since they are enabled between any two
idle periods.  Softirqs and stopper functions run to completion, and a stopper
thread preempts every other.  `hmp_wake` adds that interrupts arrive and that a
CPU that runs a task has ticks; an idle CPU has none.  Some liveness properties carry
the proviso "unless CPUs are sent down (or call `vlock_trylock`) forever": each
of these can delay an entry once more, and nothing in the code bounds them.
`DownCompletes` excepts a cluster in which `tc2_pm_power_up` has run into `BUG()`.

### Disagreements (runs that end in a violation)

1. `tc2_retry`: a CPU booted immediately after `complete(&cpu_died)` may clear
   its entry vector (`mcpm_platsmp.c:70`) after the booting CPU set it, and stays at
   its gate.  `__cpu_up` gives up after a second and leaves the use count at 1
   (`tc2_pm.c:63`).  Booting the CPU again makes it 2 while the CPU runs, and a boot
   that overtakes its next `power_down` makes it 3, which is `BUG()`
   (`tc2_pm.c:68-77`).
2. `switcher_interference`: `bL_switch_request_cb` checks `t->task` without the lock
   (`bL_switcher.c:386`), so that a client without a notifier, as
   `bL_switcher_dummy_if.c:44`, can overwrite the request by which
   `bL_switcher_disable` brings a CPU home "without any possibility for
   interference" (`687-689`).  `RestoredUnlessLate` says that this is the only way.
3. `hmp_same_queue`: without `CONFIG_HMP_DELAY_UP_MIGRATION` an up-migration is
   ordered to the CPU that does the balancing (`fair.c:10130`), not to the one
   `hmp_up_migration` has found; a slow CPU that visits its own queue then meets
   `BUG_ON(src_rq == dst_rq)`.
4. `hmp_wake`: `scheduler_ipi` tests `wake_for_idle_pull` under a misspelt
   `CONFIG_HMP_DELAY_UP_MIRGATION` (`core.c:1411`, `1441`), so the interrupt to an
   idle fast CPU has no effect.

Observed while modelling, without a run of their own:

* `Documentation/arm/cluster-pm-race-avoidance.txt:359-365` lacks the abort from
  `CLUSTER_GOING_DOWN` to `CLUSTER_UP` at a CPU found coming up.  It is harmless:
  `ClusterDiagram`, proved, includes it.
* A new request is accepted while a switch with a completer is being made, since
  `t->completer` is cleared before it (`bL_switcher.c:323`); the kernel-doc (`369-371`)
  permits none "until after the switch is complete, and @completer has returned".
  The model has the code's order; `LastRequestWins` and `CompleterOnce` hold of it.
* A completer that the thread has already copied (`320`) is called after
  `bL_switch_request_detach` (`409-413`); a request accepted just before the thread
  is stopped is never completed (`332`), and its completer blocks later ones.
* With `CONFIG_HMP_PACK_STOP_MACHINE` a failed dispatch clears `active_balance`
  but keeps the reference (`fair.c:10147-10153`, `10240-10246`, `10360-10366`).
* In the enhanced build the reference is not taken (`fair.c:9625`) and both locks
  are released inside the loop that goes on (`9616`): these are the mutants
  `BugOrder` and `BugForceUpDelayed` of `HmpMigration`.
* `wake_for_idle_pull` is cleared before the pull is known to be possible
  (`fair.c:10410`); the slow CPU asks again in a later tick.
* After an ignored error of `bL_switch_request` (`arm_big_little.c:149`) the recorded
  cluster of a CPU is not the real one, and after a failed `clk_set_rate` (`137`)
  the old cluster is not recomputed; `RateSettles` excludes both (`failed`).
* If the tables of the clusters overlapped in more than one frequency,
  `bL_cpufreq_set_target` could keep a CPU on a cluster that does not have the
  frequency asked for; `CpufreqAssumption` rules that out, as on the TC2.

## Proofs

The theorems hold for every value of the constants that the named assumptions
admit.  Each component has one inductive invariant, a conjunction of named parts
that stands beside the actions, is checked by TLC in a run and proved action
by action; the properties are consequences of it.  Why the properties alone are
not inductive:

* **Voting lock** (`VlockProofs`: `VlockInvariant`, `VlockMutualExclusion`).  A
  holder must know that nobody is about to overwrite the owner byte.  `VInv` says
  so: a voting byte is set exactly while its CPU may vote (`VotingFlag`); a CPU
  that the owner byte still names knows that no CPU of the words it has polled is
  about to vote (`PolledWords`), hence at the end nobody at all
  (`ElectionClosed`).  `VlockImplementsTryLock` (`VlockTryLockProofs`) needs in
  addition that whoever is bound to lose has met another CPU (`RivalSound`): the
  CPU the owner byte named when it looked, or the voter who overwrote it.
* **MCPM** (`McpmProofs`: `McpmInvariant`, `McpmTypeCorrect`,
  `McpmTeardownExclusive`, `McpmCommittedCoherent`, `McpmSetupExclusive`,
  `McpmClusterDiagram`, `McpmNotStranded`).  `MInv` adds to the lock's invariant
  that the advertised CPU states are true, that the first man holds the lock, that
  there is one outbound CPU and the cluster state shows it, and the parts that
  carry the argument.  A CPU the last man has passed in its scan is, and stays
  until the end of the teardown, one that does not depend on the cluster
  (`ScannedUncommitted`, then `TeardownExclusive`), because whoever wakes up
  finds `CLUSTER_GOING_DOWN`.  Nobody depends on a cluster that is down, while
  only such a cluster is set up (`DownUnused`).  A loser of the election has a
  rescuer, or a last man who will give up; and if that last man has already
  passed him, somebody is on the way to the kernel whom he has still to meet
  (`LosersRescued`): this is where the second obligation of the backend is used.
  `McpmStepsVlock` shows that each step of the protocol is a step of the lock or
  leaves it alone, so its invariant carries over.
* **TC2 backend** (`Tc2PmProofs`: `BackendInvariant`, `BackendImplementsMcpm`,
  `BackendLockSafe`, `BackendPowerOffSafe`, `BackendWantedCanWake`).  The actions of
  `Tc2Pm` lack the two guards of `Mcpm`, so the refinement is the claim that the
  use counts supply them.  `TInv` relates each count to where its CPU is, to a
  power-up not yet answered and to a boot that was tried again (`UseCounted`); a
  CPU counted once too often keeps that count until it skips `wfi` for it, and its
  next boot ends in `BUG()` if it overtakes the way down (`RecountKept`); only
  `mcpm_boot_secondary` opens the gate of a CPU that is offline (`GateGuarded`).
  It says that the last man scans with
  `tc2_pm_lock` held and every count at zero (`LastManLocked`), that an unplugged
  CPU keeps going down until somebody powers it up, that what wakes a wanted CPU
  is not withdrawn (`WakeupKept`), and that the power controller is armed only
  while somebody is there to disarm it or the cluster is torn down
  (`ArmedWatched`).  `BackendLockSafe` is `PmLockSafe`: the counts of all CPUs but
  those whose boot was retried are legal.  By the refinement the results on `Mcpm` hold of the backend.
* **Switcher** (`BLSwitcherProofs`: `SwitcherInvariant`, `SwitcherCompleterOnce`,
  `SwitcherPairing`, `SwitcherHomeNotTaken`, `SwitcherLastRequestWins`,
  `SwitcherRestores`).  `SwInv`: the thread of a CPU is the one its
  `t->task` names, or the one that switches it back (`ThreadsSound`); the pairs are
  one to one (`PairsSound`); each physical CPU stays with its pair, and which of
  the two a CPU is on tells whether it is on its original cluster (`HomesKept`);
  the last request is stored, in the thread's hands, or done (`RequestsKept`); a
  thread sleeps only beside a request whose `wake_up` is still to come
  (`WakePending`); clients that heed the notifiers are never late
  (`NotifiedSound`); the thread that switches back has its request or has done it,
  as long as nobody was late (`RestoreSound`).  That
  `bL_switcher_halve_cpus` produces such pairs, for every distribution of CPUs over
  the clusters, is an induction over its loop.  `HalvePass` is a recursive
  function, and the induction is made by taking the least iteration that breaks
  the loop invariant (`PairStepSound`, `HalvePassSteps`, `PairingFacts`), which needs
  no induction rule with an operator parameter.
  `SwitcherLastRequestWins` assumes `~Failures`, since a `bL_switch_to` that fails
  leaves the CPU where it was, and so does `SwitcherRestores`, for any set of
  notified clients: what is not restored was disturbed by a late request, and not
  of a notified client.  The other theorems hold with all failures and clients.
* **Handover** (`BLHandoverProofs`: `HandoverInvariant`, `HandoverOneContext`,
  `HandoverGateSound`, `HandoverHandshakeAlive`, `HandoverCompletionAwaited`,
  `HandoverImplementsSteps`).  The two CPUs are symmetric, so `HandoverInv` speaks
  of the CPU that called `bL_switch_to` (`From`) and the other one: where each is on
  its way down or up, with the count, resume address and gate that go with it
  (`Running`, `Suspended`, `Resuming`, `Leaving`, `Arriving`), for each stage of the
  switch (`ContextSound`); a completion is under way only for an inbound that has
  sent its early poke and is waiting or still on its way to its gate
  (`CompletionSound`); the handshake is set once (`HandshakeSound`).
  `HandoverImplementsSteps` is the safety half of `ImplementsSwitch`: under the
  mapping, only the inbound's passage through its gate moves the context.
* **cpufreq** (`BLCpufreqProofs`: `CpufreqInvariant`, `CpufreqRateSettles`).
  `CpufreqInv`: the lock of a cluster belongs to the one call that is in its
  section; what a call has written and asked for shows in how far it is
  (`CallsTracked`); the clock of a cluster that nobody locks or is leaving is right,
  and a scan that nobody leaves behind its back has the maximum of what it has
  seen (`RatesTracked`).  A mover counts as leaving until it has recomputed the old
  cluster, which is what makes the stale maxima of other scans harmless.
* **HMP** (`HmpMigrationProofs`: `HmpInvariant`, `HmpHandshake`, `HmpRefsCounted`,
  `HmpOneMigrator`, `HmpPlacement`, `HmpTypes`), for both builds, any CPUs, tasks and
  affinities.  The four properties support each other in `HInv`, with two additions:
  what a balancer, an order or a stopper names is a task (`OrdersNamed`), and one
  that runs or was met under a queue's lock has not been reaped (`TasksAlive`).
  The reference counts are sums of cardinalities, so each action is shown to add
  or remove one element of one of three sets, or to pass one on.

Assumptions: `NONE` is none of the values it stands beside; `WordOf` maps CPUs to
words; `CPU = 0..N-1` in `Mcpm` and `BLSwitcher`, with two clusters in the latter; a
finite set of CPUs (numbers, as `double_lock_balance` and the loops order them), disjoint
domains and non-empty affinities in `HmpMigration`; in `BLCpufreq` two tables of
positive frequencies with a least big and a greatest LITTLE one, which do not
overlap in more than that one, as on the TC2.

Only model-checked: everything that has to happen eventually (`ElectionHasWinner`,
`TrylockReturns`, `InboundCompletes`, `DownCompletes`, `PowerUpDelivered`,
`AdminCompletes`, `RequestServed`, `CallsComplete`, `MigrationCompletes`, and the
fairness of `ImplementsSwitch`), because the prover does not do liveness; and the
four properties that are violated.

## Not modelled

Caches, barriers and the memory model; timers, interrupts and the GIC except
as wake-up; the second cluster under the same `tc2_pm_lock` (the state of the
protocol is per cluster, only the lock and `gwi` are shared); `secondary_data`;
CPU hotplug by the user beside the switcher (`bL_switcher_hotplug_callback`
vetoes it while the switcher is active, and the hotplug driver lock keeps it out
of enable and disable; while the switcher is off it is not modelled);
`CONFIG_SCHED_HMP_ENHANCEMENT`, load statistics, thresholds and task packing of
the HMP scheduler; per-entity load tracking, which is sequential arithmetic;
the DCSCB backend, which is `tc2_pm.c` with a simpler power controller, and the
PSCI backend, whose protocol is firmware outside the repository; registration
and policies of cpufreq with the switcher off; tracing and statistics; the rest
of the kernel.

## Plan

1. `BLSwitcher` over the abstract `LogicalCpu`, one instance per pair, so that
   the theorems about the handover and the switcher are joined by a third.
2. The enhanced HMP build as a further configuration of `HmpMigration`.
3. `BLHandover` over two instances of the full MCPM entry code.
