------------------------------- MODULE Tc2Pm -------------------------------
(***************************************************************************)
(* The TC2 power backend (mach-vexpress/tc2_pm.c) under the protocol of      *)
(* Mcpm, with its callers: CPU hotplug (mcpm_platsmp.c, kernel/smp.c) and    *)
(* cpuidle (drivers/cpuidle/arm_big_little.c).  One cluster; hotplug is      *)
(* driven from a CPU outside it, and is serialised by the hotplug lock.      *)
(*                                                                           *)
(* The steps of Mcpm are reused without the obligations that Mcpm imposes on *)
(* its backend: that they are met is what ImplementsMcpm says.  What happens *)
(* between taking and releasing tc2_pm_lock is one step, except for the last *)
(* man, who keeps the lock during __mcpm_outbound_enter_critical.            *)
(***************************************************************************)
EXTENDS Mcpm

CONSTANT Unplugged  \* bound: the CPUs that user space takes offline

ASSUME UnpluggedAssumption == Unplugged \subseteq CPU

VARIABLES lock,      \* tc2_pm_lock: its holder, or NONE
          useCount,  \* tc2_pm_use_count[][cluster]
          pden,      \* vexpress_spc_powerdown_enable(cluster, .)
          gwi,       \* vexpress_spc_set_global_wakeup_intr(.)
          wakeIrq,   \* vexpress_spc_set_cpu_wakeup_irq(cpu, cluster, .)
          resume,    \* is a resume address set (vexpress_spc_write_resume_reg)?
          go,        \* progress of tc2_pm_down: before the lock, then how it ends
          vector,    \* is mcpm_entry_vectors[cluster][cpu] set?
          hp,        \* hotplug state of each CPU
          boot,      \* what mcpm_boot_secondary does next, and for which CPU
          recounted  \* history: the CPUs counted once too often in useCount
                     \* since their boot was retried after a timeout

spcVars == <<pden, gwi, wakeIrq, resume>>
smpVars == <<vector, hp, boot, recounted>>
tvars == <<mvars, lock, useCount, spcVars, go, smpVars>>

Go      == {"no", "lock", "wfi", "skip"}
Hotplug == {"online", "died", "dying", "offline", "failed"}
Idle    == [step |-> "idle", cpu |-> NONE]
Boot    == [step : {"idle", "power_up", "bug", "vector", "wait"}, cpu : CPU \cup {NONE}]

TPmTypeOK == /\ TypeOK
             /\ lock \in CPU \cup {NONE}
             /\ useCount \in [CPU -> Nat]
             /\ pden \in BOOLEAN /\ gwi \in BOOLEAN
             /\ wakeIrq \in [CPU -> BOOLEAN] /\ resume \in [CPU -> BOOLEAN]
             /\ go \in [CPU -> Go]
             /\ vector \in [CPU -> BOOLEAN]
             /\ hp \in [CPU -> Hotplug]
             /\ boot \in Boot
             /\ recounted \subseteq CPU

(* tc2_pm_init, before any secondary CPU is booted. *)
TInit == /\ MInit
         /\ lock = NONE
         /\ useCount = [c \in CPU |-> IF pc[c] = "kernel" THEN 1 ELSE 0]
         /\ pden = FALSE /\ gwi = FALSE
         /\ wakeIrq = [c \in CPU |-> FALSE] /\ resume = [c \in CPU |-> FALSE]
         /\ go = [c \in CPU |-> IF pc[c] = "kernel" THEN "no" ELSE "wfi"]
         /\ vector = [c \in CPU |-> FALSE]
         /\ hp = [c \in CPU |-> IF pc[c] = "kernel" THEN "online" ELSE "offline"]
         /\ boot = Idle
         /\ recounted = {}

AllUnused == \A d \in CPU : useCount[d] = 0

(* tc2_pm_lock can be taken.  A tc2_pm_power_up that has run into its BUG()  *)
(* holds it for good.                                                        *)
LockFree == lock = NONE /\ boot.step # "bug"
-----------------------------------------------------------------------------
(* The callers.                                                              *)

(* kernel/smp.c, cpu_die: complete(&cpu_died), which ends the hotplug        *)
(* operation.  From here on the CPU may be brought up again, although it is  *)
(* still running.                                                            *)
CpuDied(c) ==
  /\ boot = Idle /\ c \in Unplugged
  /\ pc[c] = "kernel" /\ hp[c] = "online"
  /\ hp' = [hp EXCEPT ![c] = "died"]
  /\ UNCHANGED <<mvars, lock, useCount, spcVars, go, vector, boot, recounted>>

(* mcpm_cpu_die: mcpm_set_entry_vector(pcpu, pcluster, NULL). *)
McpmCpuDie(c) ==
  /\ hp[c] = "died"
  /\ hp' = [hp EXCEPT ![c] = "dying"]
  /\ vector' = [vector EXCEPT ![c] = FALSE]
  /\ UNCHANGED <<mvars, lock, useCount, spcVars, go, boot, recounted>>

(* mcpm_cpu_power_down and tc2_pm_power_down, up to the lock. *)
PowerDown(c) ==
  /\ hp[c] = "dying"
  /\ hp' = [hp EXCEPT ![c] = "offline"]
  /\ GoingDown(c)
  /\ go' = [go EXCEPT ![c] = "lock"]
  /\ UNCHANGED <<lock, useCount, spcVars, vector, boot, recounted>>

(* A mutant of Suspend: no resume address. *)
BugSuspend(c) ==
  /\ hp[c] = "online"
  /\ vector' = [vector EXCEPT ![c] = TRUE]
  /\ GoingDown(c)
  /\ go' = [go EXCEPT ![c] = "lock"]
  /\ UNCHANGED <<lock, useCount, spcVars, hp, boot, recounted>>

(* bl_powerdown_finisher, mcpm_cpu_suspend and tc2_pm_suspend, up to the     *)
(* lock: nobody else touches the vector and the resume address of an online  *)
(* CPU.                                                                      *)
Suspend(c) ==
  /\ hp[c] = "online"
  /\ vector' = [vector EXCEPT ![c] = TRUE]
  /\ resume' = [resume EXCEPT ![c] = TRUE]
  /\ GoingDown(c)
  /\ go' = [go EXCEPT ![c] = "lock"]
  /\ UNCHANGED <<lock, useCount, pden, gwi, wakeIrq, hp, boot, recounted>>

(* mcpm_boot_secondary: close the gate, ...  Nothing keeps a CPU that missed *)
(* the deadline of an earlier boot from being booted again.                  *)
BootSecondary(c) ==
  /\ boot = Idle /\ hp[c] # "online"
  /\ boot' = [step |-> "power_up", cpu |-> c]
  /\ vector' = [vector EXCEPT ![c] = FALSE]
  /\ UNCHANGED <<mvars, lock, useCount, spcVars, go, hp, recounted>>

(* The use count of tc2_pm_power_up, and the routing of the wakeup.  The     *)
(* count of a boot that timed out was never given back.                      *)
CountUp(c) ==
  /\ boot = [step |-> "power_up", cpu |-> c] /\ LockFree
  /\ useCount[c] < 2
  /\ boot' = [step |-> "vector", cpu |-> c]
  /\ useCount' = [useCount EXCEPT ![c] = @ + 1]
  /\ resume' = [resume EXCEPT ![c] = @ \/ useCount[c] = 0]
  /\ wakeIrq' = [wakeIrq EXCEPT ![c] = @ \/ useCount[c] = 0]
  /\ recounted' = IF hp[c] = "failed" THEN recounted \cup {c} ELSE recounted
  /\ UNCHANGED <<mvars, lock, gwi, go, vector, hp>>

(* A mutant of PowerUp: the cluster stays armed for power-down. *)
BugPowerUp(c) == CountUp(c) /\ pden' = pden

(* ... tc2_pm_power_up, ... *)
PowerUp(c) == CountUp(c) /\ pden' = (pden /\ ~AllUnused)

(* ... which counts to 3 and stops at its BUG(), with tc2_pm_lock and the    *)
(* hotplug lock held, ...                                                    *)
PowerUpBug(c) ==
  /\ boot = [step |-> "power_up", cpu |-> c] /\ LockFree
  /\ useCount[c] >= 2
  /\ boot' = [step |-> "bug", cpu |-> c]
  /\ useCount' = [useCount EXCEPT ![c] = @ + 1]
  /\ UNCHANGED <<mvars, lock, spcVars, go, vector, hp, recounted>>

(* ... open the gate and send the wakeup interrupt, ... *)
BootVector(c) ==
  /\ boot = [step |-> "vector", cpu |-> c]
  /\ boot' = [step |-> "wait", cpu |-> c]
  /\ vector' = [vector EXCEPT ![c] = TRUE]
  /\ UNCHANGED <<mvars, lock, useCount, spcVars, go, hp, recounted>>

(* ... and __cpu_up waits for the CPU to come online. *)
CpuRunning(c) ==
  /\ boot = [step |-> "wait", cpu |-> c] /\ hp[c] = "online"
  /\ boot' = Idle
  /\ UNCHANGED <<mvars, lock, useCount, spcVars, go, vector, hp, recounted>>

(* Or it gives up: the timeout is taken to be long enough for a CPU that is  *)
(* not stuck at its gate.                                                    *)
BootTimeout(c) ==
  /\ boot = [step |-> "wait", cpu |-> c]
  /\ pc[c] = "gated" /\ ~vector[c]
  /\ boot' = Idle
  /\ hp' = [hp EXCEPT ![c] = "failed"]
  /\ UNCHANGED <<mvars, lock, useCount, spcVars, go, vector, recounted>>
-----------------------------------------------------------------------------
(* tc2_pm_down, with the lock.  The last man is whoever brings the last      *)
(* count to zero, if the expected residency is worth a cluster power-down.   *)

OthersUnused(c) == \A d \in CPU \ {c} : useCount[d] = 0

(* A mutant of DownLastMan: a suspending CPU forgets the other CPUs. *)
BugDownLastMan(c) ==
  /\ go[c] = "lock" /\ LockFree /\ useCount[c] = 1
  /\ lock' = c
  /\ useCount' = [useCount EXCEPT ![c] = 0]
  /\ wakeIrq' = [wakeIrq EXCEPT ![c] = TRUE]
  /\ pden' = TRUE /\ gwi' = TRUE
  /\ go' = [go EXCEPT ![c] = "wfi"]
  /\ UNCHANGED <<mvars, resume, smpVars>>

DownLastMan(c) == OthersUnused(c) /\ BugDownLastMan(c)

(* Not the last man, or suspended for a residency of 5 ms or less (a CPU that *)
(* is unplugged passes none).                                                *)
DownNotLast(c) ==
  /\ go[c] = "lock" /\ LockFree /\ useCount[c] = 1
  /\ ~OthersUnused(c) \/ hp[c] = "online"
  /\ useCount' = [useCount EXCEPT ![c] = 0]
  /\ wakeIrq' = [wakeIrq EXCEPT ![c] = TRUE]
  /\ go' = [go EXCEPT ![c] = "wfi"]
  /\ UNCHANGED <<mvars, lock, pden, gwi, resume, smpVars>>

(* The count says that a power_up request went ahead of us. *)
Overtaken(c, how) ==
  /\ go[c] = "lock" /\ LockFree /\ useCount[c] = 2
  /\ useCount' = [useCount EXCEPT ![c] = 1]
  /\ go' = [go EXCEPT ![c] = how]
  /\ UNCHANGED <<mvars, lock, spcVars, smpVars>>

(* A mutant of DownSkipWfi: it is forgotten. *)
BugDownSkipWfi(c) == Overtaken(c, "wfi")

DownSkipWfi(c) == Overtaken(c, "skip")

(* The last man, in __mcpm_outbound_enter_critical with the lock held. *)
DownEnterCritical(c) ==
  /\ lock = c
  /\ \/ WarnInbound(c) \/ CheckInbound(c)
     \/ ScanNext(c) \/ ScanAbort(c) \/ ScanDone(c)
     \/ OutboundAbort(c)
  /\ UNCHANGED <<lock, useCount, spcVars, go, smpVars>>

(* It was entered: drop the lock, then tear the cluster down. *)
DownUnlock(c) ==
  /\ pc[c] = "critical" /\ lock = c
  /\ lock' = NONE
  /\ UNCHANGED <<mvars, useCount, spcVars, go, smpVars>>

DownTeardown(c) ==
  /\ lock # c
  /\ ClusterTeardown(c) \/ LeaveCritical(c)
  /\ UNCHANGED <<lock, useCount, spcVars, go, smpVars>>

(* It was not: undo any setup done previously. *)
DownUndo(c) ==
  /\ pc[c] = "aborted" /\ lock = c
  /\ pden' = FALSE /\ gwi' = FALSE
  /\ lock' = NONE
  /\ UNCHANGED <<mvars, useCount, wakeIrq, resume, go, smpVars>>

(* __mcpm_cpu_down, once the lock is dropped and the caches are flushed. *)
DownCpuDown(c) ==
  /\ go[c] \in {"wfi", "skip"} /\ lock # c
  /\ CpuDown(c)
  /\ UNCHANGED <<lock, useCount, spcVars, go, smpVars>>

(* The power controller wakes a CPU from wfi, at the address that was set    *)
(* for it (tc2_resume leads to mcpm_entry_point as well).                    *)
WakeUp(c) ==
  /\ go[c] = "wfi" /\ wakeIrq[c] /\ resume[c]
  /\ Wake(c)
  /\ UNCHANGED <<lock, useCount, spcVars, go, smpVars>>

(* mcpm_cpu_power_down: power_down returned, phys_reset(mcpm_entry_point). *)
ReEnter(c) ==
  /\ go[c] = "skip"
  /\ Wake(c)
  /\ UNCHANGED <<lock, useCount, spcVars, go, smpVars>>
-----------------------------------------------------------------------------
(* The way in. *)
EntryStep(c) ==
  /\ \/ McpmEntryPoint(c) \/ FirstManTrylock(c) \/ NotFirstMan(c)
     \/ FirstManCheck(c) \/ McpmSetup(c) \/ McpmTeardownWait(c)
     \/ FirstManSetup(c) \/ SetClusterUp(c) \/ McpmSetupLeave(c)
     \/ FirstManUnlock(c) \/ McpmSetupWait(c)
  /\ UNCHANGED <<lock, useCount, spcVars, go, smpVars>>

(* mcpm_setup_complete; tc2_pm_power_up_setup(0) clears the resume address. *)
EntryComplete(c) ==
  /\ McpmSetupComplete(c)
  /\ resume' = [resume EXCEPT ![c] = FALSE]
  /\ UNCHANGED <<lock, useCount, pden, gwi, wakeIrq, go, smpVars>>

(* mcpm_entry_gated: wait for the vector. *)
EntryGated(c) ==
  /\ vector[c]
  /\ McpmEntryGated(c)
  /\ UNCHANGED <<lock, useCount, spcVars, go, smpVars>>

(* tc2_pm_powered_up with the lock, leaving the use count at n. *)
Powered(c, n) ==
  /\ EnterKernel(c)
  /\ pden' = (pden /\ ~AllUnused) /\ gwi' = (gwi /\ ~AllUnused)
  /\ useCount' = [useCount EXCEPT ![c] = n]
  /\ wakeIrq' = [wakeIrq EXCEPT ![c] = FALSE]
  /\ resume' = [resume EXCEPT ![c] = FALSE]
  /\ go' = [go EXCEPT ![c] = "no"]
  /\ hp' = [hp EXCEPT ![c] = "online"]
  /\ recounted' = IF useCount[c] < 2 THEN recounted \ {c} ELSE recounted
  /\ UNCHANGED <<lock, vector, boot>>

Counted(c) == IF useCount[c] = 0 THEN 1 ELSE useCount[c]

(* A mutant of PmPoweredUp: the lock is not taken. *)
BugPmPoweredUp(c) == Powered(c, Counted(c))

(* A mutant of PmPoweredUp: a CPU that power_up has counted is counted again. *)
BugPmPoweredUpCount(c) == LockFree /\ Powered(c, useCount[c] + 1)

(* tc2_pm_powered_up, by a resuming CPU or by a new one that goes online. *)
PmPoweredUp(c) == LockFree /\ Powered(c, Counted(c))
-----------------------------------------------------------------------------
(* The steps that take tc2_pm_lock, and the other steps of a CPU and of the  *)
(* booting CPU.                                                              *)
LockStep(c) == \/ DownLastMan(c) \/ DownNotLast(c) \/ DownSkipWfi(c)
               \/ PmPoweredUp(c)

RunStep(c) == \/ McpmCpuDie(c) \/ PowerDown(c)
              \/ DownEnterCritical(c) \/ DownUnlock(c) \/ DownTeardown(c)
              \/ DownUndo(c) \/ DownCpuDown(c) \/ ReEnter(c)
              \/ EntryStep(c) \/ EntryComplete(c) \/ EntryGated(c)

BootStep(c) == BootVector(c) \/ CpuRunning(c) \/ BootTimeout(c)

TNext == \E c \in CPU : \/ CpuDied(c) \/ Suspend(c) \/ WakeUp(c)
                        \/ BootSecondary(c) \/ PowerUp(c) \/ PowerUpBug(c)
                        \/ BootStep(c)
                        \/ LockStep(c) \/ RunStep(c)

TSafetySpec == TInit /\ [][TNext]_tvars

(* A CPU that runs keeps running; tc2_pm_lock is a ticket lock, so whoever   *)
(* waits for it gets it; and a CPU in wfi answers the wakeup interrupt that  *)
(* mcpm_boot_secondary has sent.  Going down, and other interrupts, are not  *)
(* promised.                                                                 *)
BootWakeUp(c) == boot = [step |-> "wait", cpu |-> c] /\ WakeUp(c)

TFairness ==
  \A c \in CPU : /\ WF_tvars(RunStep(c))
                 /\ SF_tvars(LockStep(c))
                 /\ WF_tvars(BootStep(c))
                 /\ SF_tvars(PowerUp(c) \/ PowerUpBug(c))
                 /\ WF_tvars(BootWakeUp(c))

TSpec == TSafetySpec /\ TFairness
-----------------------------------------------------------------------------
(* tc2_pm.c meets the obligations of a backend: it elects one last man at a  *)
(* time, with the cluster up, and tc2_pm_powered_up waits for it.            *)
ImplementsMcpm == MSafetySpec

(* The BUG_ONs of tc2_pm_down do not fire: whoever gets the lock finds the   *)
(* cluster up and itself counted.                                            *)
NoBugOn ==
  \A c \in CPU : go[c] = "lock" /\ LockFree =>
                    cluster = "CLUSTER_UP" /\ useCount[c] \in {1, 2}

(* tc2_pm_power_up: "The only possible values are: 0 = CPU down, 1 = CPU     *)
(* (still) up, 2 = CPU requested to be up before it had a chance to actually *)
(* make itself down.  Any other value is a bug."                             *)
UseCountLegal == \A c \in CPU : useCount[c] \in 0 .. 2

(* While the cluster is armed for power-down, and every CPU in it sits in    *)
(* wfi, the power controller may cut its power at any time: only a cluster   *)
(* that has been torn down, and that nobody is setting up, is ever exposed.  *)
PowerOffSafe ==
  pden /\ (\A c \in CPU : pc[c] = "off" /\ go[c] = "wfi") =>
     cluster = "CLUSTER_DOWN" /\ inbound = "INBOUND_NOT_COMING_UP"

(* A CPU in wfi that is wanted (it sleeps while online, or a power_up has    *)
(* been counted for it) can be woken: its interrupt is routed to the power   *)
(* controller and it has an address to resume at.                            *)
WantedCanWake ==
  \A c \in CPU : /\ pc[c] = "off" /\ go[c] = "wfi"
                 /\ hp[c] = "online" \/ useCount[c] > 0
                 => wakeIrq[c] /\ resume[c]

(* The last man waits, with tc2_pm_lock held, for the CPUs that are still    *)
(* GOING_DOWN: none of those is waiting for that lock.                       *)
LastManNoDeadlock ==
  \A c, d \in CPU : pc[c] = "oe_scan" /\ d # c => go[d] # "lock"

(* The retry of a boot that timed out is the only way to the BUG() of        *)
(* tc2_pm_power_up: for any other CPU the count stays within 0, 1 and 2.     *)
BugOnlyAfterRetry == /\ \A c \in CPU \ recounted : useCount[c] \in 0 .. 2
                     /\ boot.step = "bug" => boot.cpu \in recounted

(* The three facts above, that tc2_pm.c relies on whenever it takes its lock. *)
PmLockSafe == NoBugOn /\ LastManNoDeadlock /\ BugOnlyAfterRetry
-----------------------------------------------------------------------------
(* The parts of the inductive invariant.                                     *)

(* A power_up has been counted for the CPU that it has not answered yet. *)
Ordered(c) == \/ /\ boot.cpu = c /\ boot.step \in {"bug", "vector", "wait"}
                 /\ hp[c] # "online"
              \/ hp[c] = "failed"

(* How far a CPU is in tc2_pm_down, and in hotplug, goes with where it is. *)
ProgressTruthful == \A c \in CPU :
  /\ go[c] = "no" <=> pc[c] = "kernel"
  /\ go[c] = "lock" => pc[c] = "going"
  /\ hp[c] \in {"died", "dying"} => pc[c] = "kernel"
  /\ pc[c] = "kernel" => hp[c] \in {"online", "died", "dying"}

(* The use count is one for a CPU that has not given it back in tc2_pm_down, *)
(* one for a power_up, and one for a power_up that was retried.              *)
UseCounted == \A c \in CPU :
  useCount[c] = (IF go[c] \in {"no", "lock"} THEN 1 ELSE 0)
                + (IF Ordered(c) THEN 1 ELSE 0)
                + (IF c \in recounted THEN 1 ELSE 0)

(* A CPU counted once too often has that count until it skips wfi for it and *)
(* comes back: it never sits in wfi, and its boots do not time out, since    *)
(* one that races with its power_down ends in BUG().                         *)
RecountKept ==
  /\ boot.step = "bug" => boot.cpu \in recounted
  /\ \A c \in CPU : hp[c] = "failed" => pc[c] \in {"gated", "resumed"}
  /\ \A c \in recounted :
        /\ go[c] = "wfi" => pc[c] \in {"gated", "resumed"} /\ Ordered(c)
        /\ hp[c] = "failed" => boot.cpu = c /\ boot.step \in {"vector", "wait"}
        /\ boot.cpu = c /\ boot.step \in {"vector", "wait"} /\ hp[c] # "online" =>
              go[c] \in {"wfi", "skip"} /\ (boot.step = "wait" => vector[c])

(* Only mcpm_boot_secondary opens the gate of a CPU that is not online: one  *)
(* that is through comes online before anything else is booted.             *)
GateGuarded == \A c \in CPU :
  hp[c] # "online" /\ (pc[c] = "resumed" \/ (vector[c] /\ hp[c] # "died")) =>
     boot = [step |-> "wait", cpu |-> c]

(* The last man looks around with the lock held, and nobody is counted then. *)
LastManLocked == \A c \in CPU :
  /\ pc[c] \in Entering => lock = c
  /\ lock = c => /\ go[c] = "wfi" /\ AllUnused
                 /\ pc[c] \in {"going", "critical", "aborted"} \cup Entering
                 /\ pc[c] = "going" => cluster = "CLUSTER_UP"

(* A CPU that was unplugged stays on its way down until a power_up. *)
UnpluggedStaysDown == \A c \in CPU :
  /\ hp[c] # "online" /\ ~Ordered(c) /\ c \notin recounted =>
        /\ pc[c] \in {"kernel", "going", "aborted", "left", "off"} \cup Outbound
        /\ go[c] # "skip" /\ ~resume[c]
  /\ boot = [step |-> "power_up", cpu |-> c] => hp[c] # "online"
  /\ pc[c] = "kernel" => ~resume[c]

(* What wakes a wanted CPU lasts until it has passed mcpm_setup_complete, its *)
(* vector until it is back in the kernel.                                     *)
WakeupKept == \A c \in CPU :
  /\ \/ hp[c] = "online" /\ go[c] \in {"lock", "wfi"}
     \/ Ordered(c) /\ go[c] = "wfi"
     => pc[c] \in {"gated", "resumed"} \/ resume[c]
  /\ go[c] = "wfi" /\ (hp[c] = "online" \/ Ordered(c)) => wakeIrq[c]
  /\ hp[c] = "online" /\ pc[c] # "kernel" => vector[c]

(* A cluster armed for power-down is up only while the last man decides, or  *)
(* while a CPU is on its way to tc2_pm_powered_up, which will disarm it.     *)
ArmedWatched ==
  pden => /\ AllUnused
          /\ cluster = "CLUSTER_UP" /\ lock = NONE =>
                \E c \in CPU : pc[c] \in {"setup_leave", "unlock", "skip", "complete",
                                          "gated", "resumed"}

(* The inductive invariant of the backend, on top of that of the protocol.   *)
BackendInv == /\ ProgressTruthful /\ UseCounted /\ RecountKept /\ GateGuarded
              /\ LastManLocked /\ UnpluggedStaysDown /\ WakeupKept /\ ArmedWatched

TInv == MInv /\ TPmTypeOK /\ BackendInv
-----------------------------------------------------------------------------
(* Every CPU that starts tc2_pm_down gets to the end of it, unless the BUG() *)
(* of tc2_pm_power_up has taken the lock away for good.                      *)
DownCompletes == \A c \in CPU : go[c] = "lock" ~> pc[c] = "off" \/ boot.step = "bug"

(* A power_up is never lost, even if it overtakes the power_down of the same *)
(* CPU.  mcpm_entry.c, mcpm_cpu_power_down: then "We must perform a re-entry  *)
(* in the kernel as if the power_up method just had deasserted reset on the   *)
(* CPU."  Once mcpm_boot_secondary is done, the CPU comes online, or it is at  *)
(* its gate and has itself cleared, in mcpm_cpu_die, the vector it waits for. *)
PowerUpDelivered ==
  \/ []<><<\E d \in CPU : Suspend(d) \/ PowerDown(d)>>_tvars
  \/ \A c \in CPU : boot = [step |-> "wait", cpu |-> c] /\ hp[c] # "online"
                        ~> hp[c] = "online" \/ (pc[c] = "gated" /\ ~vector[c])
=============================================================================
