---------------------------- MODULE Tc2PmProofs ----------------------------
(***************************************************************************)
(* The TC2 power backend, for any number of CPUs in the cluster: it meets    *)
(* the obligations that Mcpm leaves to a backend, so that every result about *)
(* the protocol holds of tc2_pm.c, and its use counts, its lock and what it  *)
(* writes to the power controller stay consistent with where the CPUs are.   *)
(***************************************************************************)
EXTENDS Tc2Pm, McpmProofs

USE CpuAssumption

(* Where a CPU is between the cluster coming up and tc2_pm_powered_up. *)
OnTheWay == {"setup_leave", "unlock", "skip", "complete", "gated", "resumed"}
-----------------------------------------------------------------------------
(* The obligations of a backend.                                             *)

(* While nobody holds tc2_pm_lock nobody looks around for the other CPUs. *)
LEMMA UnlockedNotEntering ==
  ASSUME TInv, LockFree PROVE \A d \in CPU : pc[d] \notin Entering
BY NoneAssumption DEF TInv, BackendInv, LastManLocked, LockFree

(* A CPU that waits for tc2_pm_lock finds the cluster up. *)
LEMMA LockFindsUp ==
  ASSUME TInv, LockFree, NEW c \in CPU, pc[c] = "going"
  PROVE  cluster = "CLUSTER_UP"
<1>1. cluster # "CLUSTER_DOWN" /\ \A d \in CPU : pc[d] \notin TearingDown
  BY CommittedFacts DEF TInv, Uncommitted, TearingDown, SettingUp
<1>2. cluster # "CLUSTER_GOING_DOWN"
  BY <1>1, UnlockedNotEntering DEF TInv, MInv, ProtocolInv, OneOutbound, Outbound
<1> QED BY <1>1, <1>2 DEF TInv, MInv, TypeOK, ClusterState

(* The last man starts __mcpm_outbound_enter_critical alone, in a cluster    *)
(* that is up.                                                               *)
LEMMA LastManAlone ==
  ASSUME TInv, NEW c \in CPU, lock = c, WarnInbound(c)
  PROVE  EnterCritical(c)
<1>1. cluster = "CLUSTER_UP"
  BY DEF TInv, BackendInv, LastManLocked, WarnInbound, Goto
<1>2. \A d \in CPU : pc[d] \notin Outbound
  BY <1>1 DEF TInv, MInv, ProtocolInv, OneOutbound
<1> QED BY <1>1, <1>2 DEF EnterCritical

(* Every step of the backend is a step of the protocol, or changes only what *)
(* the protocol does not know of.                                            *)
LEMMA BackendStepsMcpm == TInv /\ [TNext]_tvars => [MNext]_mvars
<1> SUFFICES ASSUME TInv, [TNext]_tvars PROVE [MNext]_mvars
  OBVIOUS
<1>1. CASE UNCHANGED tvars
  BY <1>1 DEF tvars
<1>2. ASSUME NEW c \in CPU, LockStep(c) PROVE [MNext]_mvars
  <2>1. CASE PmPoweredUp(c)
    BY <2>1, UnlockedNotEntering DEF PmPoweredUp, Powered, PoweredUp, InboundStep, MNext
  <2>2. CASE DownLastMan(c) \/ DownNotLast(c) \/ DownSkipWfi(c)
    BY <2>2 DEF DownLastMan, BugDownLastMan, DownNotLast, DownSkipWfi, Overtaken
  <2> QED BY <1>2, <2>1, <2>2 DEF LockStep
<1>3. ASSUME NEW c \in CPU, RunStep(c) PROVE [MNext]_mvars
  <2>1. CASE DownEnterCritical(c)
    BY <2>1, LastManAlone DEF DownEnterCritical, OutboundStep, MNext
  <2>2. CASE DownTeardown(c) \/ DownCpuDown(c) \/ ReEnter(c) \/ PowerDown(c)
    BY <2>2 DEF DownTeardown, DownCpuDown, ReEnter, PowerDown, OutboundStep, MNext
  <2>3. CASE EntryStep(c) \/ EntryComplete(c) \/ EntryGated(c)
    BY <2>3 DEF EntryStep, EntryComplete, EntryGated, InboundStep, MNext
  <2>4. CASE McpmCpuDie(c) \/ DownUnlock(c) \/ DownUndo(c)
    BY <2>4 DEF McpmCpuDie, DownUnlock, DownUndo
  <2> QED BY <1>3, <2>1, <2>2, <2>3, <2>4 DEF RunStep
<1>4. ASSUME NEW c \in CPU, CpuDied(c) \/ BootSecondary(c) \/ PowerUp(c) \/ PowerUpBug(c)
                               \/ BootStep(c)
      PROVE  [MNext]_mvars
  BY <1>4 DEF CpuDied, BootSecondary, PowerUp, CountUp, PowerUpBug, BootStep, BootVector,
    CpuRunning, BootTimeout
<1>5. ASSUME NEW c \in CPU, Suspend(c) \/ WakeUp(c) PROVE [MNext]_mvars
  BY <1>5 DEF Suspend, WakeUp, MNext
<1> QED BY <1>1, <1>2, <1>3, <1>4, <1>5 DEF TNext
-----------------------------------------------------------------------------
(* What a step of the protocol does, as far as the backend can tell.         *)

(* The last man moves within __mcpm_outbound_enter_critical. *)
LEMMA EnterCriticalEffect ==
  ASSUME pc \in [CPU -> PC], NEW c \in CPU, DownEnterCritical(c)
  PROVE  /\ lock = c /\ pc[c] \in {"going"} \cup Entering
         /\ pc' = [pc EXCEPT ![c] = pc'[c]]
         /\ pc'[c] \in {"critical", "aborted"} \cup Entering
         /\ UNCHANGED <<lock, useCount, spcVars, go, smpVars>>
<1>1. lock = c /\ UNCHANGED <<lock, useCount, spcVars, go, smpVars>>
  BY DEF DownEnterCritical
<1>2. CASE ScanNext(c)
  BY <1>1, <1>2 DEF ScanNext, Entering
<1>3. CASE \/ WarnInbound(c) \/ CheckInbound(c) \/ ScanAbort(c) \/ ScanDone(c)
           \/ OutboundAbort(c)
  BY <1>1, <1>3 DEF WarnInbound, CheckInbound, ScanAbort, ScanDone, OutboundAbort, Goto,
    Entering
<1> QED BY <1>2, <1>3 DEF DownEnterCritical

(* A CPU moves between mcpm_entry_point and mcpm_setup_complete; the cluster *)
(* comes up only under the first man.                                        *)
LEMMA EntryStepEffect ==
  ASSUME pc \in [CPU -> PC], NEW c \in CPU, EntryStep(c)
  PROVE  /\ pc[c] \in {"entry"} \cup ComingUp
         /\ pc' = [pc EXCEPT ![c] = pc'[c]] /\ pc'[c] \in ComingUp
         /\ pc[c] \in OnTheWay => pc'[c] \in OnTheWay
         /\ cluster' = cluster \/ pc'[c] = "setup_leave"
         /\ UNCHANGED <<lock, useCount, spcVars, go, smpVars>>
<1> USE DEF ComingUp, FirstMan, SettingUp, OnTheWay, Goto, syncVars
<1>1. UNCHANGED <<lock, useCount, spcVars, go, smpVars>>
  BY DEF EntryStep
<1>2. CASE FirstManTrylock(c)
  BY <1>1, <1>2 DEF FirstManTrylock
<1>3. CASE \/ McpmEntryPoint(c) \/ NotFirstMan(c) \/ FirstManCheck(c) \/ McpmSetup(c)
           \/ McpmTeardownWait(c)
  BY <1>1, <1>3 DEF McpmEntryPoint, NotFirstMan, FirstManCheck, McpmSetup, McpmTeardownWait
<1>4. CASE \/ FirstManSetup(c) \/ SetClusterUp(c) \/ McpmSetupLeave(c)
           \/ FirstManUnlock(c) \/ McpmSetupWait(c)
  BY <1>1, <1>4 DEF FirstManSetup, SetClusterUp, McpmSetupLeave, FirstManUnlock, McpmSetupWait
<1> QED BY <1>2, <1>3, <1>4 DEF EntryStep
-----------------------------------------------------------------------------
(* One lemma for each part of the invariant; under it, the actions that can  *)
(* disturb that part.                                                        *)

(* tc2_pm_down and hotplug keep their own state well typed. *)
LEMMA BackendTypeStep ==
  ASSUME TInv, MInv', TNext PROVE TPmTypeOK'
<1> USE NoneAssumption DEF TInv, TPmTypeOK, MInv, Go, Hotplug, Boot, Idle, spcVars, smpVars
<1>1. ASSUME NEW c \in CPU, CpuDied(c)
      PROVE  TPmTypeOK'
  BY <1>1 DEF CpuDied
<1>2. ASSUME NEW c \in CPU, BootSecondary(c)
      PROVE  TPmTypeOK'
  BY <1>2 DEF BootSecondary
<1>3. ASSUME NEW c \in CPU, BootVector(c)
      PROVE  TPmTypeOK'
  BY <1>3 DEF BootVector
<1>4. ASSUME NEW c \in CPU, CpuRunning(c)
      PROVE  TPmTypeOK'
  BY <1>4 DEF CpuRunning
<1>5. ASSUME NEW c \in CPU, BootTimeout(c)
      PROVE  TPmTypeOK'
  BY <1>5 DEF BootTimeout
<1>6. ASSUME NEW c \in CPU, McpmCpuDie(c)
      PROVE  TPmTypeOK'
  BY <1>6 DEF McpmCpuDie
<1>7. ASSUME NEW c \in CPU, PowerUp(c)
      PROVE  TPmTypeOK'
  BY <1>7 DEF PowerUp, CountUp
<1>8. ASSUME NEW c \in CPU, Suspend(c)
      PROVE  TPmTypeOK'
  BY <1>8 DEF Suspend, GoingDown
<1>9. ASSUME NEW c \in CPU, PowerDown(c)
      PROVE  TPmTypeOK'
  BY <1>9 DEF PowerDown, GoingDown
<1>10. ASSUME NEW c \in CPU, DownLastMan(c)
      PROVE  TPmTypeOK'
  BY <1>10 DEF DownLastMan, BugDownLastMan
<1>11. ASSUME NEW c \in CPU, DownNotLast(c)
      PROVE  TPmTypeOK'
  BY <1>11 DEF DownNotLast
<1>12. ASSUME NEW c \in CPU, DownSkipWfi(c)
      PROVE  TPmTypeOK'
  BY <1>12 DEF DownSkipWfi, Overtaken
<1>13. ASSUME NEW c \in CPU, PmPoweredUp(c)
      PROVE  TPmTypeOK'
  BY <1>13 DEF PmPoweredUp, Powered, EnterKernel, Counted
<1>14. ASSUME NEW c \in CPU, WakeUp(c) \/ DownEnterCritical(c) \/ DownTeardown(c) \/
      DownCpuDown(c) \/ ReEnter(c) \/ EntryStep(c) \/ EntryGated(c)
      PROVE  TPmTypeOK'
  BY <1>14 DEF WakeUp, Wake, DownEnterCritical, DownTeardown, ClusterTeardown,
    LeaveCritical, DownCpuDown, CpuDown, ReEnter, EntryStep, EntryGated, McpmEntryGated
<1>15. ASSUME NEW c \in CPU, DownUnlock(c) \/ DownUndo(c)
      PROVE  TPmTypeOK'
  BY <1>15 DEF DownUnlock, DownUndo
<1>16. ASSUME NEW c \in CPU, EntryComplete(c)
      PROVE  TPmTypeOK'
  BY <1>16 DEF EntryComplete, McpmSetupComplete
<1>17. ASSUME NEW c \in CPU, PowerUpBug(c)
      PROVE  TPmTypeOK'
  BY <1>17 DEF PowerUpBug
<1> HIDE DEF TPmTypeOK
<1> QED BY <1>1, <1>2, <1>3, <1>4, <1>5, <1>6, <1>7, <1>8, <1>9, <1>10, <1>11, <1>12, <1>13,
  <1>14, <1>15, <1>16, <1>17 DEF TNext, LockStep, RunStep, BootStep

(* Each step moves a CPU along tc2_pm_down and hotplug as it moves its pc. *)
LEMMA ProgressStep ==
  ASSUME TInv, TNext PROVE ProgressTruthful'
<1> USE DEF TInv, BackendInv, TPmTypeOK, MInv, TypeOK, Goto, mvars, syncVars, spcVars,
  smpVars, ProgressTruthful
<1>1. ASSUME NEW c \in CPU, BootSecondary(c) \/ PowerUp(c) \/ PowerUpBug(c) \/ BootVector(c)
      \/ CpuRunning(c) \/ DownUnlock(c) \/ DownUndo(c)
      PROVE  ProgressTruthful'
  BY <1>1 DEF BootSecondary, PowerUp, CountUp, PowerUpBug, BootVector, CpuRunning, DownUnlock,
    DownUndo
<1>2. ASSUME NEW c \in CPU, CpuDied(c)
      PROVE  ProgressTruthful'
  BY <1>2 DEF CpuDied
<1>3. ASSUME NEW c \in CPU, BootTimeout(c)
      PROVE  ProgressTruthful'
  BY <1>3 DEF BootTimeout
<1>4. ASSUME NEW c \in CPU, McpmCpuDie(c)
      PROVE  ProgressTruthful'
  BY <1>4 DEF McpmCpuDie
<1>5. ASSUME NEW c \in CPU, PowerDown(c)
      PROVE  ProgressTruthful'
  BY <1>5 DEF PowerDown, GoingDown
<1>6. ASSUME NEW c \in CPU, Suspend(c)
      PROVE  ProgressTruthful'
  BY <1>6 DEF Suspend, GoingDown
<1>7. ASSUME NEW c \in CPU, DownLastMan(c)
      PROVE  ProgressTruthful'
  BY <1>7 DEF DownLastMan, BugDownLastMan
<1>8. ASSUME NEW c \in CPU, DownNotLast(c)
      PROVE  ProgressTruthful'
  BY <1>8 DEF DownNotLast
<1>9. ASSUME NEW c \in CPU, DownSkipWfi(c)
      PROVE  ProgressTruthful'
  BY <1>9 DEF DownSkipWfi, Overtaken
<1>10. ASSUME NEW c \in CPU, DownEnterCritical(c)
      PROVE  ProgressTruthful'
  <2>1. /\ lock = c /\ pc[c] \in {"going"} \cup Entering
        /\ pc' = [pc EXCEPT ![c] = pc'[c]]
        /\ pc'[c] \in {"critical", "aborted"} \cup Entering
    BY <1>10, EnterCriticalEffect
  <2>2. UNCHANGED <<lock, useCount, spcVars, go, smpVars>>
    BY <1>10, EnterCriticalEffect
  <2> QED BY <2>1, <2>2 DEF LastManLocked, Entering
<1>11. ASSUME NEW c \in CPU, DownTeardown(c)
      PROVE  ProgressTruthful'
  BY <1>11 DEF DownTeardown, ClusterTeardown, LeaveCritical
<1>12. ASSUME NEW c \in CPU, DownCpuDown(c)
      PROVE  ProgressTruthful'
  BY <1>12 DEF DownCpuDown, CpuDown
<1>13. ASSUME NEW c \in CPU, WakeUp(c) \/ ReEnter(c)
      PROVE  ProgressTruthful'
  BY <1>13 DEF WakeUp, Wake, ReEnter
<1>14. ASSUME NEW c \in CPU, EntryStep(c)
      PROVE  ProgressTruthful'
  <2>1. /\ pc[c] \in {"entry"} \cup ComingUp
        /\ pc' = [pc EXCEPT ![c] = pc'[c]]
        /\ pc'[c] \in ComingUp
    BY <1>14, EntryStepEffect
  <2>2. UNCHANGED <<lock, useCount, spcVars, go, smpVars>>
    BY <1>14, EntryStepEffect
  <2> QED BY <2>1, <2>2 DEF ComingUp, FirstMan, SettingUp
<1>15. ASSUME NEW c \in CPU, EntryComplete(c) \/ EntryGated(c)
      PROVE  ProgressTruthful'
  BY <1>15 DEF EntryComplete, McpmSetupComplete, EntryGated, McpmEntryGated
<1>16. ASSUME NEW c \in CPU, PmPoweredUp(c)
      PROVE  ProgressTruthful'
  BY <1>16 DEF PmPoweredUp, Powered, EnterKernel
<1> HIDE DEF ProgressTruthful
<1> QED BY <1>1, <1>2, <1>3, <1>4, <1>5, <1>6, <1>7, <1>8, <1>9, <1>10, <1>11, <1>12, <1>13,
  <1>14, <1>15, <1>16 DEF TNext, LockStep, RunStep, BootStep

(* What a power_up that is not answered yet means is changed by tc2_pm_power_up *)
(* and tc2_pm_powered_up only.  Nobody touches it without hotplug.           *)
LEMMA OrderedFrame ==
  ASSUME UNCHANGED <<hp, boot>> PROVE \A d \in CPU : Ordered(d)' <=> Ordered(d)
BY DEF Ordered

(* The steps of hotplug that move a CPU, or the booting CPU, on. *)
LEMMA OrderedHotplug ==
  ASSUME TInv, NEW c \in CPU,
         \/ CpuDied(c) \/ McpmCpuDie(c) \/ PowerDown(c) \/ BootSecondary(c) \/ BootVector(c)
         \/ CpuRunning(c) \/ BootTimeout(c)
  PROVE  \A d \in CPU : Ordered(d)' <=> Ordered(d)
<1> USE NoneAssumption DEF TInv, TPmTypeOK, Ordered
<1>1. CASE CpuDied(c)
  BY <1>1 DEF CpuDied, Idle
<1>2. CASE McpmCpuDie(c)
  BY <1>2 DEF McpmCpuDie
<1>3. CASE PowerDown(c)
  BY <1>3 DEF PowerDown
<1>4. CASE BootSecondary(c)
  BY <1>4 DEF BootSecondary, Idle
<1>5. CASE BootVector(c)
  BY <1>5 DEF BootVector
<1>6. CASE CpuRunning(c)
  BY <1>6 DEF CpuRunning, Idle
<1>7. CASE BootTimeout(c)
  <2>1. hp[c] # "online"
    BY <1>7 DEF BackendInv, WakeupKept, BootTimeout
  <2> QED BY <1>7, <2>1 DEF BootTimeout, Idle
<1> QED BY <1>1, <1>2, <1>3, <1>4, <1>5, <1>6, <1>7

(* tc2_pm_power_up orders its CPU.  Unless an earlier boot of it timed out,  *)
(* it was not ordered before.                                                *)
LEMMA OrderedPowerUp ==
  ASSUME TInv, NEW c \in CPU, PowerUp(c) \/ PowerUpBug(c)
  PROVE  /\ Ordered(c)'
         /\ Ordered(c) <=> hp[c] = "failed"
         /\ \A d \in CPU \ {c} : Ordered(d)' <=> Ordered(d)
<1>1. boot = [step |-> "power_up", cpu |-> c] /\ UNCHANGED hp
  BY DEF PowerUp, CountUp, PowerUpBug
<1>2. hp[c] # "online"
  BY <1>1 DEF TInv, BackendInv, UnpluggedStaysDown
<1>3. boot' \in {[step |-> "vector", cpu |-> c], [step |-> "bug", cpu |-> c]}
  BY DEF PowerUp, CountUp, PowerUpBug
<1> QED BY <1>1, <1>2, <1>3 DEF Ordered

(* What it finds: a CPU whose boot timed out sits at its gate and was counted *)
(* once; the count of any other CPU is two only if it was counted once too   *)
(* often before and has not given its own count back.                        *)
LEMMA PowerUpFinds ==
  ASSUME TInv, NEW c \in CPU, PowerUp(c) \/ PowerUpBug(c)
  PROVE  /\ hp[c] # "online" /\ boot = [step |-> "power_up", cpu |-> c]
         /\ hp[c] = "failed" => /\ c \notin recounted /\ go[c] \notin {"no", "lock"}
                                /\ pc[c] \in {"gated", "resumed"} /\ useCount[c] = 1
         /\ hp[c] # "failed" =>
               useCount[c] = (IF go[c] \in {"no", "lock"} THEN 1 ELSE 0)
                             + (IF c \in recounted THEN 1 ELSE 0)
<1>1. boot = [step |-> "power_up", cpu |-> c]
  BY DEF PowerUp, CountUp, PowerUpBug
<1>2. hp[c] # "online"
  BY <1>1 DEF TInv, BackendInv, UnpluggedStaysDown
<1>3. Ordered(c) <=> hp[c] = "failed"
  BY OrderedPowerUp
<1>4. useCount[c] = (IF go[c] \in {"no", "lock"} THEN 1 ELSE 0)
                    + (IF Ordered(c) THEN 1 ELSE 0) + (IF c \in recounted THEN 1 ELSE 0)
  BY DEF TInv, BackendInv, UseCounted
<1>5. ASSUME hp[c] = "failed"
      PROVE  /\ c \notin recounted /\ go[c] \notin {"no", "lock"}
             /\ pc[c] \in {"gated", "resumed"}
  BY <1>1, <1>5 DEF TInv, BackendInv, RecountKept, ProgressTruthful
<1> QED BY <1>1, <1>2, <1>3, <1>4, <1>5

(* A CPU in tc2_pm_powered_up answers. *)
LEMMA OrderedPoweredUp ==
  ASSUME TInv, NEW c \in CPU, PmPoweredUp(c)
  PROVE  /\ ~Ordered(c)'
         /\ \A d \in CPU \ {c} : Ordered(d)' <=> Ordered(d)
BY DEF TInv, TPmTypeOK, PmPoweredUp, Powered, Ordered

(* The count goes up with a power_up, and down or not in tc2_pm_down.        *)
LEMMA UseCountStep ==
  ASSUME TInv, TNext PROVE UseCounted'
<1> USE DEF TInv, BackendInv, TPmTypeOK, spcVars, smpVars, UseCounted
<1>1. ASSUME NEW c \in CPU, CpuDied(c)
      PROVE  UseCounted'
  <2>1. \A d \in CPU : Ordered(d)' <=> Ordered(d)
    BY <1>1, OrderedHotplug
  <2> QED BY <1>1, <2>1 DEF CpuDied
<1>2. ASSUME NEW c \in CPU, McpmCpuDie(c)
      PROVE  UseCounted'
  <2>1. \A d \in CPU : Ordered(d)' <=> Ordered(d)
    BY <1>2, OrderedHotplug
  <2> QED BY <1>2, <2>1 DEF McpmCpuDie
<1>3. ASSUME NEW c \in CPU, BootSecondary(c)
      PROVE  UseCounted'
  <2>1. \A d \in CPU : Ordered(d)' <=> Ordered(d)
    BY <1>3, OrderedHotplug
  <2> QED BY <1>3, <2>1 DEF BootSecondary
<1>4. ASSUME NEW c \in CPU, BootVector(c)
      PROVE  UseCounted'
  <2>1. \A d \in CPU : Ordered(d)' <=> Ordered(d)
    BY <1>4, OrderedHotplug
  <2> QED BY <1>4, <2>1 DEF BootVector
<1>5. ASSUME NEW c \in CPU, CpuRunning(c)
      PROVE  UseCounted'
  <2>1. \A d \in CPU : Ordered(d)' <=> Ordered(d)
    BY <1>5, OrderedHotplug
  <2> QED BY <1>5, <2>1 DEF CpuRunning
<1>6. ASSUME NEW c \in CPU, BootTimeout(c)
      PROVE  UseCounted'
  <2>1. \A d \in CPU : Ordered(d)' <=> Ordered(d)
    BY <1>6, OrderedHotplug
  <2> QED BY <1>6, <2>1 DEF BootTimeout
<1>7. ASSUME NEW c \in CPU, PowerDown(c)
      PROVE  UseCounted'
  <2>1. \A d \in CPU : Ordered(d)' <=> Ordered(d)
    BY <1>7, OrderedHotplug
  <2> QED BY <1>7, <2>1 DEF PowerDown, GoingDown, ProgressTruthful, Goto
<1>8. ASSUME NEW c \in CPU, PowerUp(c) \/ PowerUpBug(c)
      PROVE  UseCounted'
  <2>1. /\ Ordered(c)'
        /\ Ordered(c) <=> hp[c] = "failed"
        /\ \A d \in CPU \ {c} : Ordered(d)' <=> Ordered(d)
    BY <1>8, OrderedPowerUp
  <2>2. hp[c] = "failed" => c \notin recounted /\ go[c] \notin {"no", "lock"} /\ useCount[c] = 1
    BY <1>8, PowerUpFinds
  <2>3. CASE PowerUp(c)
    BY <2>1, <2>2, <2>3 DEF PowerUp, CountUp
  <2>4. CASE PowerUpBug(c)
    BY <2>1, <2>2, <2>4 DEF PowerUpBug
  <2> QED BY <1>8, <2>3, <2>4
<1>9. ASSUME NEW c \in CPU, PmPoweredUp(c)
      PROVE  UseCounted'
  <2>1. /\ ~Ordered(c)'
        /\ \A d \in CPU \ {c} : Ordered(d)' <=> Ordered(d)
    BY <1>9, OrderedPoweredUp
  <2>2. go[c] \notin {"no", "lock"}
    BY <1>9 DEF PmPoweredUp, Powered, EnterKernel, ProgressTruthful, Goto
  <2>3. useCount[c] \in 0 .. 2 /\ (useCount[c] = 2 => c \in recounted)
    BY <2>2
  <2>4. go' = [go EXCEPT ![c] = "no"] /\ useCount' = [useCount EXCEPT ![c] = Counted(c)]
        /\ recounted' = IF useCount[c] < 2 THEN recounted \ {c} ELSE recounted
    BY <1>9 DEF PmPoweredUp, Powered
  <2>5. \A d \in CPU \ {c} : go'[d] = go[d] /\ useCount'[d] = useCount[d]
                           /\ (d \in recounted' <=> d \in recounted)
    BY <2>4
  <2>6. /\ go'[c] = "no" /\ useCount'[c] = Counted(c)
        /\ c \in recounted' <=> useCount[c] = 2
    BY <2>3, <2>4
  <2>7. Counted(c) = 1 + (IF useCount[c] = 2 THEN 1 ELSE 0)
    BY <2>3 DEF Counted
  <2>8. \A d \in CPU \ {c} :
          useCount'[d] = (IF go'[d] \in {"no", "lock"} THEN 1 ELSE 0)
                         + (IF Ordered(d)' THEN 1 ELSE 0) + (IF d \in recounted' THEN 1 ELSE 0)
    BY <2>1, <2>5
  <2>9. useCount'[c] = (IF go'[c] \in {"no", "lock"} THEN 1 ELSE 0)
                       + (IF Ordered(c)' THEN 1 ELSE 0) + (IF c \in recounted' THEN 1 ELSE 0)
    BY <2>1, <2>6, <2>7
  <2> QED BY <2>8, <2>9
<1>10. ASSUME NEW c \in CPU, DownLastMan(c)
      PROVE  UseCounted'
  <2>1. \A d \in CPU : Ordered(d)' <=> Ordered(d)
    BY <1>10, OrderedFrame DEF DownLastMan, BugDownLastMan, smpVars
  <2> QED BY <1>10, <2>1 DEF DownLastMan, BugDownLastMan
<1>11. ASSUME NEW c \in CPU, DownNotLast(c)
      PROVE  UseCounted'
  <2>1. \A d \in CPU : Ordered(d)' <=> Ordered(d)
    BY <1>11, OrderedFrame DEF DownNotLast, smpVars
  <2> QED BY <1>11, <2>1 DEF DownNotLast
<1>12. ASSUME NEW c \in CPU, DownSkipWfi(c)
      PROVE  UseCounted'
  <2>1. \A d \in CPU : Ordered(d)' <=> Ordered(d)
    BY <1>12, OrderedFrame DEF DownSkipWfi, Overtaken, smpVars
  <2> QED BY <1>12, <2>1 DEF DownSkipWfi, Overtaken
<1>13. ASSUME NEW c \in CPU, Suspend(c)
      PROVE  UseCounted'
  <2>1. \A d \in CPU : Ordered(d)' <=> Ordered(d)
    BY <1>13, OrderedFrame DEF Suspend, GoingDown, smpVars
  <2> QED BY <1>13, <2>1 DEF Suspend, GoingDown, ProgressTruthful, Goto
<1>14. ASSUME NEW c \in CPU, DownUnlock(c) \/ DownUndo(c) \/ DownTeardown(c) \/
      DownCpuDown(c) \/ WakeUp(c) \/ ReEnter(c) \/ EntryComplete(c) \/ EntryGated(c) \/
      DownEnterCritical(c) \/ EntryStep(c)
      PROVE  UseCounted'
  <2>1. UNCHANGED <<useCount, go, hp, boot, recounted>>
    BY <1>14 DEF DownUnlock, DownUndo, DownTeardown, DownCpuDown, WakeUp, ReEnter,
      EntryComplete, EntryGated, DownEnterCritical, EntryStep
  <2>2. \A d \in CPU : Ordered(d)' <=> Ordered(d)
    BY <2>1, OrderedFrame
  <2> QED BY <2>1, <2>2 DEF DownUnlock, DownUndo, DownTeardown, ClusterTeardown,
    LeaveCritical, DownCpuDown, CpuDown, WakeUp, Wake, ReEnter, EntryComplete,
    McpmSetupComplete, EntryGated, McpmEntryGated
<1> HIDE DEF UseCounted
<1> QED BY <1>1, <1>2, <1>3, <1>4, <1>5, <1>6, <1>7, <1>8, <1>9, <1>10, <1>11, <1>12, <1>13,
  <1>14 DEF TNext, LockStep, RunStep, BootStep

(* Once the retried boot of a CPU is over, mcpm_cpu_die may close its gate. *)
LEMMA RecountDying ==
  ASSUME RecountKept, NEW c \in CPU, hp[c] = "died", pc[c] = "kernel", go[c] = "no",
         hp'[c] = "dying", UNCHANGED <<pc, go, boot, recounted>>,
         \A d \in CPU \ {c} : hp'[d] = hp[d] /\ vector'[d] = vector[d],
         \A d \in CPU : Ordered(d)' <=> Ordered(d),
         recounted \subseteq CPU
  PROVE  RecountKept'
<1>1. ~(c \in recounted /\ boot.cpu = c /\ boot.step \in {"vector", "wait"})
  BY DEF RecountKept
<1> QED BY <1>1 DEF RecountKept

(* A CPU is counted once too often only by the retry of a boot that timed    *)
(* out, and until it has given the surplus back.                             *)
LEMMA RecountStep ==
  ASSUME TInv, TNext PROVE RecountKept'
<1> USE NoneAssumption DEF TInv, BackendInv, TPmTypeOK, MInv, TypeOK, Goto, mvars, syncVars,
  spcVars, smpVars, RecountKept
<1>1. ASSUME NEW c \in CPU, CpuDied(c)
      PROVE  RecountKept'
  <2>1. \A d \in CPU : Ordered(d)' <=> Ordered(d)
    BY <1>1, OrderedHotplug
  <2> QED BY <1>1, <2>1 DEF CpuDied, ProgressTruthful, Idle
<1>2. ASSUME NEW c \in CPU, McpmCpuDie(c)
      PROVE  RecountKept'
  <2>1. \A d \in CPU : Ordered(d)' <=> Ordered(d)
    BY <1>2, OrderedHotplug
  <2>2. /\ hp[c] = "died" /\ pc[c] = "kernel" /\ go[c] = "no"
        /\ hp'[c] = "dying" /\ UNCHANGED <<pc, go, boot, recounted>>
        /\ \A d \in CPU \ {c} : hp'[d] = hp[d] /\ vector'[d] = vector[d]
    BY <1>2 DEF McpmCpuDie, ProgressTruthful
  <2> QED BY <2>1, <2>2, RecountDying
<1>3. ASSUME NEW c \in CPU, BootSecondary(c)
      PROVE  RecountKept'
  <2>1. \A d \in CPU : Ordered(d)' <=> Ordered(d)
    BY <1>3, OrderedHotplug
  <2> QED BY <1>3, <2>1 DEF BootSecondary, Idle
<1>4. ASSUME NEW c \in CPU, BootVector(c)
      PROVE  RecountKept'
  <2>1. \A d \in CPU : Ordered(d)' <=> Ordered(d)
    BY <1>4, OrderedHotplug
  <2> QED BY <1>4, <2>1 DEF BootVector
<1>5. ASSUME NEW c \in CPU, CpuRunning(c)
      PROVE  RecountKept'
  <2>1. \A d \in CPU : Ordered(d)' <=> Ordered(d)
    BY <1>5, OrderedHotplug
  <2> QED BY <1>5, <2>1 DEF CpuRunning, Idle
<1>6. ASSUME NEW c \in CPU, BootTimeout(c)
      PROVE  RecountKept'
  <2>1. \A d \in CPU : Ordered(d)' <=> Ordered(d)
    BY <1>6, OrderedHotplug
  <2> QED BY <1>6, <2>1 DEF BootTimeout, Idle, WakeupKept
<1>7. ASSUME NEW c \in CPU, PowerDown(c)
      PROVE  RecountKept'
  <2>1. \A d \in CPU : Ordered(d)' <=> Ordered(d)
    BY <1>7, OrderedHotplug
  <2> QED BY <1>7, <2>1 DEF PowerDown, GoingDown, ProgressTruthful
<1>8. ASSUME NEW c \in CPU, DownLastMan(c)
      PROVE  RecountKept'
  <2>1. \A d \in CPU : Ordered(d)' <=> Ordered(d)
    BY <1>8, OrderedFrame DEF DownLastMan, BugDownLastMan, smpVars
  <2> QED BY <1>8, <2>1 DEF DownLastMan, BugDownLastMan, UseCounted
<1>9. ASSUME NEW c \in CPU, DownNotLast(c)
      PROVE  RecountKept'
  <2>1. \A d \in CPU : Ordered(d)' <=> Ordered(d)
    BY <1>9, OrderedFrame DEF DownNotLast, smpVars
  <2> QED BY <1>9, <2>1 DEF DownNotLast, UseCounted
<1>10. ASSUME NEW c \in CPU, DownSkipWfi(c)
      PROVE  RecountKept'
  <2>1. \A d \in CPU : Ordered(d)' <=> Ordered(d)
    BY <1>10, OrderedFrame DEF DownSkipWfi, Overtaken, smpVars
  <2> QED BY <1>10, <2>1 DEF DownSkipWfi, Overtaken
<1>11. ASSUME NEW c \in CPU, Suspend(c)
      PROVE  RecountKept'
  <2>1. \A d \in CPU : Ordered(d)' <=> Ordered(d)
    BY <1>11, OrderedFrame DEF Suspend, GoingDown, smpVars
  <2> QED BY <1>11, <2>1 DEF Suspend, GoingDown, ProgressTruthful
<1>12. ASSUME NEW c \in CPU, DownUnlock(c)
      PROVE  RecountKept'
  <2>1. \A d \in CPU : Ordered(d)' <=> Ordered(d)
    BY <1>12, OrderedFrame DEF DownUnlock, smpVars
  <2> QED BY <1>12, <2>1 DEF DownUnlock
<1>13. ASSUME NEW c \in CPU, DownUndo(c)
      PROVE  RecountKept'
  <2>1. \A d \in CPU : Ordered(d)' <=> Ordered(d)
    BY <1>13, OrderedFrame DEF DownUndo, smpVars
  <2> QED BY <1>13, <2>1 DEF DownUndo
<1>14. ASSUME NEW c \in CPU, DownTeardown(c)
      PROVE  RecountKept'
  <2>1. /\ pc[c] \notin {"gated", "resumed"} /\ UNCHANGED <<go, smpVars>>
        /\ \A d \in CPU \ {c} : pc'[d] = pc[d]
    BY <1>14 DEF DownTeardown, ClusterTeardown, LeaveCritical
  <2>2. \A d \in CPU : Ordered(d)' <=> Ordered(d)
    BY <2>1, OrderedFrame
  <2> QED BY <2>1, <2>2
<1>15. ASSUME NEW c \in CPU, DownCpuDown(c)
      PROVE  RecountKept'
  <2>1. /\ pc[c] \notin {"gated", "resumed"} /\ UNCHANGED <<go, smpVars>>
        /\ \A d \in CPU \ {c} : pc'[d] = pc[d]
    BY <1>15 DEF DownCpuDown, CpuDown
  <2>2. \A d \in CPU : Ordered(d)' <=> Ordered(d)
    BY <2>1, OrderedFrame
  <2> QED BY <2>1, <2>2
<1>16. ASSUME NEW c \in CPU, WakeUp(c)
      PROVE  RecountKept'
  <2>1. /\ pc[c] \notin {"gated", "resumed"} /\ UNCHANGED <<go, smpVars>>
        /\ \A d \in CPU \ {c} : pc'[d] = pc[d]
    BY <1>16 DEF WakeUp, Wake
  <2>2. \A d \in CPU : Ordered(d)' <=> Ordered(d)
    BY <2>1, OrderedFrame
  <2> QED BY <2>1, <2>2
<1>17. ASSUME NEW c \in CPU, ReEnter(c)
      PROVE  RecountKept'
  <2>1. /\ pc[c] \notin {"gated", "resumed"} /\ UNCHANGED <<go, smpVars>>
        /\ \A d \in CPU \ {c} : pc'[d] = pc[d]
    BY <1>17 DEF ReEnter, Wake
  <2>2. \A d \in CPU : Ordered(d)' <=> Ordered(d)
    BY <2>1, OrderedFrame
  <2> QED BY <2>1, <2>2
<1>18. ASSUME NEW c \in CPU, EntryComplete(c)
      PROVE  RecountKept'
  <2>1. /\ pc[c] \notin {"gated", "resumed"} /\ UNCHANGED <<go, smpVars>>
        /\ \A d \in CPU \ {c} : pc'[d] = pc[d]
    BY <1>18 DEF EntryComplete, McpmSetupComplete
  <2>2. \A d \in CPU : Ordered(d)' <=> Ordered(d)
    BY <2>1, OrderedFrame
  <2> QED BY <2>1, <2>2
<1>19. ASSUME NEW c \in CPU, EntryGated(c)
      PROVE  RecountKept'
  <2>1. /\ pc[c] = "gated" /\ pc'[c] = "resumed" /\ UNCHANGED <<go, smpVars>>
        /\ \A d \in CPU \ {c} : pc'[d] = pc[d]
    BY <1>19 DEF EntryGated, McpmEntryGated
  <2>2. \A d \in CPU : Ordered(d)' <=> Ordered(d)
    BY <2>1, OrderedFrame
  <2> QED BY <2>1, <2>2
<1>20. ASSUME NEW c \in CPU, DownEnterCritical(c)
      PROVE  RecountKept'
  <2>1. /\ lock = c /\ pc[c] \in {"going"} \cup Entering
        /\ pc' = [pc EXCEPT ![c] = pc'[c]]
        /\ pc'[c] \in {"critical", "aborted"} \cup Entering
    BY <1>20, EnterCriticalEffect
  <2>2. UNCHANGED <<lock, useCount, spcVars, go, smpVars>>
    BY <1>20, EnterCriticalEffect
  <2>3. \A d \in CPU : Ordered(d)' <=> Ordered(d)
    BY <2>2, OrderedFrame DEF smpVars
  <2> QED BY <2>1, <2>2, <2>3 DEF Entering
<1>21. ASSUME NEW c \in CPU, EntryStep(c)
      PROVE  RecountKept'
  <2>1. /\ pc[c] \in {"entry"} \cup ComingUp
        /\ pc' = [pc EXCEPT ![c] = pc'[c]]
        /\ pc'[c] \in ComingUp
    BY <1>21, EntryStepEffect
  <2>2. UNCHANGED <<lock, useCount, spcVars, go, smpVars>>
    BY <1>21, EntryStepEffect
  <2>3. \A d \in CPU : Ordered(d)' <=> Ordered(d)
    BY <2>2, OrderedFrame DEF smpVars
  <2> QED BY <2>1, <2>2, <2>3 DEF ComingUp, FirstMan, SettingUp
<1>22. ASSUME NEW c \in CPU, PowerUp(c) \/ PowerUpBug(c)
      PROVE  RecountKept'
  <2>1. /\ Ordered(c)'
        /\ \A d \in CPU \ {c} : Ordered(d)' <=> Ordered(d)
    BY <1>22, OrderedPowerUp
  <2>2. /\ hp[c] # "online" /\ boot = [step |-> "power_up", cpu |-> c]
        /\ hp[c] = "failed" => /\ c \notin recounted /\ go[c] \notin {"no", "lock"}
                               /\ pc[c] \in {"gated", "resumed"} /\ useCount[c] = 1
        /\ hp[c] # "failed" =>
              useCount[c] = (IF go[c] \in {"no", "lock"} THEN 1 ELSE 0)
                            + (IF c \in recounted THEN 1 ELSE 0)
    BY <1>22, PowerUpFinds
  <2>3. CASE PowerUp(c)
    <3>1. c \in recounted' => go[c] \notin {"no", "lock"}
      BY <2>2, <2>3 DEF PowerUp, CountUp
    <3>2. /\ boot' = [step |-> "vector", cpu |-> c] /\ UNCHANGED <<pc, go, vector, hp>>
          /\ recounted' = IF hp[c] = "failed" THEN recounted \cup {c} ELSE recounted
      BY <2>3 DEF PowerUp, CountUp
    <3> QED BY <2>1, <2>2, <3>1, <3>2 DEF Go
  <2>4. CASE PowerUpBug(c)
    <3>1. /\ boot' = [step |-> "bug", cpu |-> c]
          /\ UNCHANGED <<pc, go, vector, hp, recounted>>
          /\ useCount[c] >= 2
      BY <2>4 DEF PowerUpBug
    <3>2. c \in recounted /\ hp[c] # "failed"
      BY <2>2, <3>1
    <3> QED BY <2>1, <2>2, <3>1, <3>2
  <2> QED BY <1>22, <2>3, <2>4
<1>23. ASSUME NEW c \in CPU, PmPoweredUp(c)
      PROVE  RecountKept'
  <2>1. /\ ~Ordered(c)'
        /\ \A d \in CPU \ {c} : Ordered(d)' <=> Ordered(d)
    BY <1>23, OrderedPoweredUp
  <2>2. boot.step = "bug" => boot.cpu # c
    BY <1>23 DEF PmPoweredUp, LockFree
  <2>3. \A d \in CPU \ {c} : d \in recounted' <=> d \in recounted
    BY <1>23 DEF PmPoweredUp, Powered
  <2>4. /\ go' = [go EXCEPT ![c] = "no"] /\ hp' = [hp EXCEPT ![c] = "online"]
        /\ \A d \in CPU \ {c} : pc'[d] = pc[d]
        /\ UNCHANGED <<vector, boot>>
    BY <1>23 DEF PmPoweredUp, Powered, EnterKernel
  <2>5. boot.step # "bug"
    BY <1>23 DEF PmPoweredUp, LockFree
  <2>6. go'[c] = "no" /\ hp'[c] = "online"
    BY <2>4
  <2>7. \A d \in CPU \ {c} : go'[d] = go[d] /\ hp'[d] = hp[d]
    BY <2>4
  <2>8. (\A d \in CPU : hp[d] = "failed" => pc[d] \in {"gated", "resumed"})'
    BY <2>4, <2>6, <2>7
  <2>9. boot'.step # "bug"
    BY <2>4, <2>5
  <2>10. ASSUME NEW d \in recounted'
         PROVE  (/\ go[d] = "wfi" => pc[d] \in {"gated", "resumed"} /\ Ordered(d)
                 /\ hp[d] = "failed" => boot.cpu = d /\ boot.step \in {"vector", "wait"}
                 /\ boot.cpu = d /\ boot.step \in {"vector", "wait"} /\ hp[d] # "online" =>
                      go[d] \in {"wfi", "skip"} /\ (boot.step = "wait" => vector[d]))'
    <3>1. CASE d = c
      BY <2>6, <3>1
    <3>2. CASE d # c
      <4>1. d \in CPU /\ d \in recounted
        BY <1>23, <3>2 DEF PmPoweredUp, Powered
      <4> QED BY <2>1, <2>4, <2>7, <3>2, <4>1
    <3> QED BY <3>1, <3>2
  <2> QED BY <2>8, <2>9, <2>10
<1> HIDE DEF RecountKept
<1> QED BY <1>1, <1>2, <1>3, <1>4, <1>5, <1>6, <1>7, <1>8, <1>9, <1>10, <1>11, <1>12, <1>13, <1>14, <1>15, <1>16, <1>17, <1>18, <1>19, <1>20, <1>21, <1>22, <1>23
  DEF TNext, LockStep, RunStep, BootStep

(* The gate of a CPU that is not online opens for its boot only.             *)
LEMMA GateStep ==
  ASSUME TInv, TNext PROVE GateGuarded'
<1> USE NoneAssumption DEF TInv, BackendInv, TPmTypeOK, MInv, TypeOK, Goto, mvars, syncVars,
  spcVars, smpVars, GateGuarded
<1>1. ASSUME NEW c \in CPU, CpuDied(c)
      PROVE  GateGuarded'
  BY <1>1 DEF CpuDied, ProgressTruthful, Idle
<1>2. ASSUME NEW c \in CPU, McpmCpuDie(c)
      PROVE  GateGuarded'
  BY <1>2 DEF McpmCpuDie, ProgressTruthful
<1>3. ASSUME NEW c \in CPU, BootSecondary(c)
      PROVE  GateGuarded'
  BY <1>3 DEF BootSecondary, Idle
<1>4. ASSUME NEW c \in CPU, BootVector(c)
      PROVE  GateGuarded'
  BY <1>4 DEF BootVector
<1>5. ASSUME NEW c \in CPU, CpuRunning(c)
      PROVE  GateGuarded'
  BY <1>5 DEF CpuRunning, Idle
<1>6. ASSUME NEW c \in CPU, BootTimeout(c)
      PROVE  GateGuarded'
  BY <1>6 DEF BootTimeout, Idle, WakeupKept
<1>7. ASSUME NEW c \in CPU, PowerDown(c)
      PROVE  GateGuarded'
  BY <1>7 DEF PowerDown, GoingDown, ProgressTruthful
<1>8. ASSUME NEW c \in CPU, DownLastMan(c)
      PROVE  GateGuarded'
  BY <1>8 DEF DownLastMan, BugDownLastMan
<1>9. ASSUME NEW c \in CPU, DownNotLast(c)
      PROVE  GateGuarded'
  BY <1>9 DEF DownNotLast
<1>10. ASSUME NEW c \in CPU, DownSkipWfi(c)
      PROVE  GateGuarded'
  BY <1>10 DEF DownSkipWfi, Overtaken
<1>11. ASSUME NEW c \in CPU, Suspend(c)
      PROVE  GateGuarded'
  BY <1>11 DEF Suspend, GoingDown
<1>12. ASSUME NEW c \in CPU, DownUnlock(c)
      PROVE  GateGuarded'
  BY <1>12 DEF DownUnlock
<1>13. ASSUME NEW c \in CPU, DownUndo(c)
      PROVE  GateGuarded'
  BY <1>13 DEF DownUndo
<1>14. ASSUME NEW c \in CPU, DownTeardown(c)
      PROVE  GateGuarded'
  BY <1>14 DEF DownTeardown, ClusterTeardown, LeaveCritical
<1>15. ASSUME NEW c \in CPU, DownCpuDown(c)
      PROVE  GateGuarded'
  BY <1>15 DEF DownCpuDown, CpuDown
<1>16. ASSUME NEW c \in CPU, WakeUp(c)
      PROVE  GateGuarded'
  BY <1>16 DEF WakeUp, Wake
<1>17. ASSUME NEW c \in CPU, ReEnter(c)
      PROVE  GateGuarded'
  BY <1>17 DEF ReEnter, Wake
<1>18. ASSUME NEW c \in CPU, EntryComplete(c)
      PROVE  GateGuarded'
  BY <1>18 DEF EntryComplete, McpmSetupComplete
<1>19. ASSUME NEW c \in CPU, EntryGated(c)
      PROVE  GateGuarded'
  BY <1>19 DEF EntryGated, McpmEntryGated, ProgressTruthful
<1>20. ASSUME NEW c \in CPU, DownEnterCritical(c)
      PROVE  GateGuarded'
  <2>1. /\ lock = c /\ pc[c] \in {"going"} \cup Entering
        /\ pc' = [pc EXCEPT ![c] = pc'[c]]
        /\ pc'[c] \in {"critical", "aborted"} \cup Entering
    BY <1>20, EnterCriticalEffect
  <2>2. UNCHANGED <<lock, useCount, spcVars, go, smpVars>>
    BY <1>20, EnterCriticalEffect
  <2> QED BY <2>1, <2>2 DEF Entering
<1>21. ASSUME NEW c \in CPU, EntryStep(c)
      PROVE  GateGuarded'
  <2>1. /\ pc[c] \in {"entry"} \cup ComingUp
        /\ pc' = [pc EXCEPT ![c] = pc'[c]]
        /\ pc'[c] \in ComingUp
    BY <1>21, EntryStepEffect
  <2>2. UNCHANGED <<lock, useCount, spcVars, go, smpVars>>
    BY <1>21, EntryStepEffect
  <2> QED BY <2>1, <2>2 DEF ComingUp, FirstMan, SettingUp
<1>22. ASSUME NEW c \in CPU, PowerUp(c) \/ PowerUpBug(c)
      PROVE  GateGuarded'
  <2>1. boot = [step |-> "power_up", cpu |-> c] /\ hp[c] # "online"
    BY <1>22, PowerUpFinds
  <2>2. UNCHANGED <<pc, vector, hp>>
    BY <1>22 DEF PowerUp, CountUp, PowerUpBug
  <2> QED BY <2>1, <2>2
<1>23. ASSUME NEW c \in CPU, PmPoweredUp(c)
      PROVE  GateGuarded'
  BY <1>23 DEF PmPoweredUp, Powered, EnterKernel
<1> HIDE DEF GateGuarded
<1> QED BY <1>1, <1>2, <1>3, <1>4, <1>5, <1>6, <1>7, <1>8, <1>9, <1>10, <1>11, <1>12, <1>13, <1>14, <1>15, <1>16, <1>17, <1>18, <1>19, <1>20, <1>21, <1>22, <1>23
  DEF TNext, LockStep, RunStep, BootStep

(* The lock is taken with everything unused and the cluster up, and kept     *)
(* until the last man has decided.                                           *)
LEMMA LastManStep ==
  ASSUME TInv, TNext PROVE LastManLocked'
<1> USE NoneAssumption DEF TInv, BackendInv, TPmTypeOK, MInv, TypeOK, Goto, mvars, syncVars,
  spcVars, smpVars, AllUnused, LastManLocked
<1>1. ASSUME NEW c \in CPU, BootSecondary(c) \/ CpuDied(c) \/ BootVector(c) \/ CpuRunning(c)
      \/ BootTimeout(c) \/ McpmCpuDie(c)
      PROVE  LastManLocked'
  BY <1>1 DEF BootSecondary, CpuDied, BootVector, CpuRunning, BootTimeout, McpmCpuDie
<1>2. ASSUME NEW c \in CPU, PowerUp(c) \/ PowerUpBug(c)
      PROVE  LastManLocked'
  BY <1>2 DEF PowerUp, CountUp, PowerUpBug, LockFree
<1>3. ASSUME NEW c \in CPU, PowerDown(c) \/ Suspend(c)
      PROVE  LastManLocked'
  <2>1. pc[c] = "kernel" /\ pc' = [pc EXCEPT ![c] = "going"] /\ go' = [go EXCEPT ![c] = "lock"]
    BY <1>3 DEF PowerDown, Suspend, GoingDown
  <2>2. UNCHANGED <<lock, useCount, cluster>>
    BY <1>3 DEF PowerDown, Suspend, GoingDown
  <2> QED BY <2>1, <2>2 DEF ProgressTruthful, Entering
<1>4. ASSUME NEW c \in CPU, DownLastMan(c)
      PROVE  LastManLocked'
  BY <1>4, LockFindsUp DEF DownLastMan, BugDownLastMan, OthersUnused, ProgressTruthful, LockFree
<1>5. ASSUME NEW c \in CPU, DownNotLast(c)
      PROVE  LastManLocked'
  BY <1>5 DEF DownNotLast
<1>6. ASSUME NEW c \in CPU, DownSkipWfi(c)
      PROVE  LastManLocked'
  BY <1>6 DEF DownSkipWfi, Overtaken
<1>7. ASSUME NEW c \in CPU, DownEnterCritical(c)
      PROVE  LastManLocked'
  <2>1. /\ lock = c /\ pc[c] \in {"going"} \cup Entering
        /\ pc' = [pc EXCEPT ![c] = pc'[c]]
        /\ pc'[c] \in {"critical", "aborted"} \cup Entering
    BY <1>7, EnterCriticalEffect
  <2>2. UNCHANGED <<lock, useCount, spcVars, go, smpVars>>
    BY <1>7, EnterCriticalEffect
  <2> QED BY <2>1, <2>2 DEF Entering
<1>8. ASSUME NEW c \in CPU, DownUnlock(c)
      PROVE  LastManLocked'
  BY <1>8 DEF DownUnlock, Entering
<1>9. ASSUME NEW c \in CPU, DownUndo(c)
      PROVE  LastManLocked'
  BY <1>9 DEF DownUndo, Entering
<1>10. ASSUME NEW c \in CPU, DownTeardown(c)
      PROVE  LastManLocked'
  BY <1>10 DEF DownTeardown, ClusterTeardown, LeaveCritical, ProtocolInv, OneOutbound,
    Outbound, TearingDown, Entering
<1>11. ASSUME NEW c \in CPU, DownCpuDown(c)
      PROVE  LastManLocked'
  BY <1>11 DEF DownCpuDown, CpuDown, Entering
<1>12. ASSUME NEW c \in CPU, WakeUp(c) \/ ReEnter(c)
      PROVE  LastManLocked'
  BY <1>12 DEF WakeUp, Wake, ReEnter, Entering
<1>13. ASSUME NEW c \in CPU, EntryStep(c)
      PROVE  LastManLocked'
  <2>1. /\ pc[c] \in {"entry"} \cup ComingUp
        /\ pc' = [pc EXCEPT ![c] = pc'[c]]
        /\ pc'[c] \in ComingUp
    BY <1>13, EntryStepEffect
  <2>2. UNCHANGED <<lock, useCount, spcVars, go, smpVars>>
    BY <1>13, EntryStepEffect
  <2>3. cluster' = cluster \/ cluster' = "CLUSTER_UP"
    BY <1>13 DEF EntryStep, McpmEntryPoint, FirstManTrylock, NotFirstMan, FirstManCheck,
      McpmSetup, McpmTeardownWait, FirstManSetup, SetClusterUp, McpmSetupLeave,
      FirstManUnlock, McpmSetupWait
  <2> QED BY <2>1, <2>2, <2>3 DEF ComingUp, FirstMan, SettingUp, Entering
<1>14. ASSUME NEW c \in CPU, EntryComplete(c) \/ EntryGated(c)
      PROVE  LastManLocked'
  BY <1>14 DEF EntryComplete, McpmSetupComplete, EntryGated, McpmEntryGated, Entering
<1>15. ASSUME NEW c \in CPU, PmPoweredUp(c)
      PROVE  LastManLocked'
  BY <1>15 DEF PmPoweredUp, Powered, EnterKernel, Entering, LockFree
<1> HIDE DEF LastManLocked
<1> QED BY <1>1, <1>2, <1>3, <1>4, <1>5, <1>6, <1>7, <1>8, <1>9, <1>10, <1>11, <1>12, <1>13,
  <1>14, <1>15 DEF TNext, LockStep, RunStep, BootStep

(* Only a power_up gives an unplugged CPU an address to wake up at.          *)
LEMMA UnpluggedStep ==
  ASSUME TInv, TNext PROVE UnpluggedStaysDown'
<1> USE DEF TInv, BackendInv, TPmTypeOK, MInv, TypeOK, Goto, mvars, syncVars, spcVars,
  smpVars, UnpluggedStaysDown
<1>1. ASSUME NEW c \in CPU, CpuDied(c)
      PROVE  UnpluggedStaysDown'
  <2>1. \A d \in CPU : Ordered(d)' <=> Ordered(d)
    BY <1>1, OrderedHotplug
  <2> QED BY <1>1, <2>1 DEF CpuDied, ProgressTruthful
<1>2. ASSUME NEW c \in CPU, McpmCpuDie(c)
      PROVE  UnpluggedStaysDown'
  <2>1. \A d \in CPU : Ordered(d)' <=> Ordered(d)
    BY <1>2, OrderedHotplug
  <2> QED BY <1>2, <2>1 DEF McpmCpuDie
<1>3. ASSUME NEW c \in CPU, BootSecondary(c)
      PROVE  UnpluggedStaysDown'
  <2>1. \A d \in CPU : Ordered(d)' <=> Ordered(d)
    BY <1>3, OrderedHotplug
  <2> QED BY <1>3, <2>1 DEF BootSecondary, ProgressTruthful
<1>4. ASSUME NEW c \in CPU, BootVector(c)
      PROVE  UnpluggedStaysDown'
  <2>1. \A d \in CPU : Ordered(d)' <=> Ordered(d)
    BY <1>4, OrderedHotplug
  <2> QED BY <1>4, <2>1 DEF BootVector
<1>5. ASSUME NEW c \in CPU, CpuRunning(c)
      PROVE  UnpluggedStaysDown'
  <2>1. \A d \in CPU : Ordered(d)' <=> Ordered(d)
    BY <1>5, OrderedHotplug
  <2> QED BY <1>5, <2>1 DEF CpuRunning, Idle
<1>6. ASSUME NEW c \in CPU, BootTimeout(c)
      PROVE  UnpluggedStaysDown'
  <2>1. \A d \in CPU : Ordered(d)' <=> Ordered(d)
    BY <1>6, OrderedHotplug
  <2> QED BY <1>6, <2>1 DEF BootTimeout, Idle, WakeupKept, Outbound, Entering, TearingDown
<1>7. ASSUME NEW c \in CPU, PowerDown(c)
      PROVE  UnpluggedStaysDown'
  <2>1. \A d \in CPU : Ordered(d)' <=> Ordered(d)
    BY <1>7, OrderedHotplug
  <2> QED BY <1>7, <2>1 DEF PowerDown, GoingDown
<1>8. ASSUME NEW c \in CPU, PowerUp(c) \/ PowerUpBug(c)
      PROVE  UnpluggedStaysDown'
  <2>1. /\ Ordered(c)'
        /\ \A d \in CPU \ {c} : Ordered(d)' <=> Ordered(d)
    BY <1>8, OrderedPowerUp
  <2>2. pc[c] = "kernel" => useCount[c] # 0
    <3>1. ASSUME pc[c] = "kernel" PROVE go[c] = "no"
      BY <3>1 DEF ProgressTruthful
    <3>2. ASSUME go[c] = "no" PROVE useCount[c] # 0
      <4>1. useCount[c] = 1 + (IF Ordered(c) THEN 1 ELSE 0) + (IF c \in recounted THEN 1 ELSE 0)
        BY <3>2 DEF UseCounted
      <4> QED BY <4>1
    <3> QED BY <3>1, <3>2
  <2>3. CASE PowerUp(c)
    BY <2>1, <2>2, <2>3 DEF PowerUp, CountUp
  <2>4. CASE PowerUpBug(c)
    BY <2>1, <2>4 DEF PowerUpBug
  <2> QED BY <1>8, <2>3, <2>4
<1>9. ASSUME NEW c \in CPU, PmPoweredUp(c)
      PROVE  UnpluggedStaysDown'
  <2>1. /\ ~Ordered(c)'
        /\ \A d \in CPU \ {c} : Ordered(d)' <=> Ordered(d)
    BY <1>9, OrderedPoweredUp
  <2>2. pc[c] = "resumed"
    BY <1>9 DEF PmPoweredUp, Powered, EnterKernel
  <2>3. boot # [step |-> "power_up", cpu |-> c]
    BY <2>2 DEF GateGuarded
  <2>4. \A d \in CPU \ {c} : d \in recounted' <=> d \in recounted
    BY <1>9 DEF PmPoweredUp, Powered
  <2> QED BY <1>9, <2>1, <2>3, <2>4 DEF PmPoweredUp, Powered, EnterKernel
<1>10. ASSUME NEW c \in CPU, DownLastMan(c)
      PROVE  UnpluggedStaysDown'
  <2>1. \A d \in CPU : Ordered(d)' <=> Ordered(d)
    BY <1>10, OrderedFrame DEF DownLastMan, BugDownLastMan, smpVars
  <2> QED BY <1>10, <2>1 DEF DownLastMan, BugDownLastMan
<1>11. ASSUME NEW c \in CPU, DownNotLast(c)
      PROVE  UnpluggedStaysDown'
  <2>1. \A d \in CPU : Ordered(d)' <=> Ordered(d)
    BY <1>11, OrderedFrame DEF DownNotLast, smpVars
  <2> QED BY <1>11, <2>1 DEF DownNotLast
<1>12. ASSUME NEW c \in CPU, DownSkipWfi(c)
      PROVE  UnpluggedStaysDown'
  <2>1. \A d \in CPU : Ordered(d)' <=> Ordered(d)
    BY <1>12, OrderedFrame DEF DownSkipWfi, Overtaken, smpVars
  <2> QED BY <1>12, <2>1 DEF DownSkipWfi, Overtaken, UseCounted
<1>13. ASSUME NEW c \in CPU, Suspend(c)
      PROVE  UnpluggedStaysDown'
  <2>1. \A d \in CPU : Ordered(d)' <=> Ordered(d)
    BY <1>13, OrderedFrame DEF Suspend, GoingDown, smpVars
  <2> QED BY <1>13, <2>1 DEF Suspend, GoingDown
<1>14. ASSUME NEW c \in CPU, DownUnlock(c)
      PROVE  UnpluggedStaysDown'
  <2>1. \A d \in CPU : Ordered(d)' <=> Ordered(d)
    BY <1>14, OrderedFrame DEF DownUnlock, smpVars
  <2> QED BY <1>14, <2>1 DEF DownUnlock
<1>15. ASSUME NEW c \in CPU, DownUndo(c)
      PROVE  UnpluggedStaysDown'
  <2>1. \A d \in CPU : Ordered(d)' <=> Ordered(d)
    BY <1>15, OrderedFrame DEF DownUndo, smpVars
  <2> QED BY <1>15, <2>1 DEF DownUndo
<1>16. ASSUME NEW c \in CPU, DownTeardown(c)
      PROVE  UnpluggedStaysDown'
  <2>1. \A d \in CPU : Ordered(d)' <=> Ordered(d)
    BY <1>16, OrderedFrame DEF DownTeardown, ClusterTeardown, LeaveCritical, smpVars
  <2> QED BY <1>16, <2>1 DEF DownTeardown, ClusterTeardown, LeaveCritical, Outbound,
    TearingDown
<1>17. ASSUME NEW c \in CPU, DownCpuDown(c)
      PROVE  UnpluggedStaysDown'
  <2>1. \A d \in CPU : Ordered(d)' <=> Ordered(d)
    BY <1>17, OrderedFrame DEF DownCpuDown, CpuDown, smpVars
  <2> QED BY <1>17, <2>1 DEF DownCpuDown, CpuDown
<1>18. ASSUME NEW c \in CPU, WakeUp(c)
      PROVE  UnpluggedStaysDown'
  <2>1. \A d \in CPU : Ordered(d)' <=> Ordered(d)
    BY <1>18, OrderedFrame DEF WakeUp, Wake, smpVars
  <2> QED BY <1>18, <2>1 DEF WakeUp, Wake
<1>19. ASSUME NEW c \in CPU, ReEnter(c)
      PROVE  UnpluggedStaysDown'
  <2>1. \A d \in CPU : Ordered(d)' <=> Ordered(d)
    BY <1>19, OrderedFrame DEF ReEnter, Wake, smpVars
  <2> QED BY <1>19, <2>1 DEF ReEnter, Wake
<1>20. ASSUME NEW c \in CPU, EntryComplete(c)
      PROVE  UnpluggedStaysDown'
  <2>1. \A d \in CPU : Ordered(d)' <=> Ordered(d)
    BY <1>20, OrderedFrame DEF EntryComplete, McpmSetupComplete, smpVars
  <2> QED BY <1>20, <2>1 DEF EntryComplete, McpmSetupComplete, Outbound, Entering,
    TearingDown
<1>21. ASSUME NEW c \in CPU, EntryGated(c)
      PROVE  UnpluggedStaysDown'
  <2>1. \A d \in CPU : Ordered(d)' <=> Ordered(d)
    BY <1>21, OrderedFrame DEF EntryGated, McpmEntryGated, smpVars
  <2> QED BY <1>21, <2>1 DEF EntryGated, McpmEntryGated, Outbound, Entering, TearingDown
<1>22. ASSUME NEW c \in CPU, DownEnterCritical(c)
      PROVE  UnpluggedStaysDown'
  <2>1. /\ lock = c /\ pc[c] \in {"going"} \cup Entering
        /\ pc' = [pc EXCEPT ![c] = pc'[c]]
        /\ pc'[c] \in {"critical", "aborted"} \cup Entering
    BY <1>22, EnterCriticalEffect
  <2>2. UNCHANGED <<lock, useCount, spcVars, go, smpVars>>
    BY <1>22, EnterCriticalEffect
  <2>3. \A d \in CPU : Ordered(d)' <=> Ordered(d)
    BY <2>2, OrderedFrame DEF smpVars
  <2> QED BY <2>1, <2>2, <2>3 DEF Outbound, Entering, TearingDown
<1>23. ASSUME NEW c \in CPU, EntryStep(c)
      PROVE  UnpluggedStaysDown'
  <2>1. /\ pc[c] \in {"entry"} \cup ComingUp
        /\ pc' = [pc EXCEPT ![c] = pc'[c]]
        /\ pc'[c] \in ComingUp
    BY <1>23, EntryStepEffect
  <2>2. UNCHANGED <<lock, useCount, spcVars, go, smpVars>>
    BY <1>23, EntryStepEffect
  <2>3. \A d \in CPU : Ordered(d)' <=> Ordered(d)
    BY <2>2, OrderedFrame DEF smpVars
  <2> QED BY <2>1, <2>2, <2>3 DEF ComingUp, FirstMan, SettingUp, Outbound, Entering,
    TearingDown
<1> HIDE DEF UnpluggedStaysDown
<1> QED BY <1>1, <1>2, <1>3, <1>4, <1>5, <1>6, <1>7, <1>8, <1>9, <1>10, <1>11, <1>12, <1>13,
  <1>14, <1>15, <1>16, <1>17, <1>18, <1>19, <1>20, <1>21, <1>22, <1>23 DEF TNext, LockStep,
  RunStep, BootStep

(* A CPU that is counted once when it gets the lock in tc2_pm_down has no    *)
(* power_up to answer.                                                       *)
LEMMA CountedOnce ==
  ASSUME TInv, NEW c \in CPU, useCount[c] = 1, go[c] = "lock" PROVE ~Ordered(c)
<1>1. useCount[c] = (IF go[c] \in {"no", "lock"} THEN 1 ELSE 0)
                    + (IF Ordered(c) THEN 1 ELSE 0)
                    + (IF c \in recounted THEN 1 ELSE 0)
  BY DEF TInv, BackendInv, UseCounted
<1> QED BY <1>1

(* Nobody but the CPU itself, once it is in, takes back what wakes it.       *)
LEMMA WakeupStep ==
  ASSUME TInv, TNext PROVE WakeupKept'
<1> USE DEF TInv, BackendInv, TPmTypeOK, MInv, TypeOK, Goto, mvars, syncVars, spcVars,
  smpVars, WakeupKept
<1>1. ASSUME NEW c \in CPU, CpuDied(c)
      PROVE  WakeupKept'
  <2>1. \A d \in CPU : Ordered(d)' <=> Ordered(d)
    BY <1>1, OrderedHotplug
  <2> QED BY <1>1, <2>1 DEF CpuDied, ProgressTruthful
<1>2. ASSUME NEW c \in CPU, McpmCpuDie(c)
      PROVE  WakeupKept'
  <2>1. \A d \in CPU : Ordered(d)' <=> Ordered(d)
    BY <1>2, OrderedHotplug
  <2> QED BY <1>2, <2>1 DEF McpmCpuDie, ProgressTruthful
<1>3. ASSUME NEW c \in CPU, BootSecondary(c)
      PROVE  WakeupKept'
  <2>1. \A d \in CPU : Ordered(d)' <=> Ordered(d)
    BY <1>3, OrderedHotplug
  <2> QED BY <1>3, <2>1 DEF BootSecondary
<1>4. ASSUME NEW c \in CPU, BootVector(c)
      PROVE  WakeupKept'
  <2>1. \A d \in CPU : Ordered(d)' <=> Ordered(d)
    BY <1>4, OrderedHotplug
  <2> QED BY <1>4, <2>1 DEF BootVector
<1>5. ASSUME NEW c \in CPU, CpuRunning(c)
      PROVE  WakeupKept'
  <2>1. \A d \in CPU : Ordered(d)' <=> Ordered(d)
    BY <1>5, OrderedHotplug
  <2> QED BY <1>5, <2>1 DEF CpuRunning
<1>6. ASSUME NEW c \in CPU, BootTimeout(c)
      PROVE  WakeupKept'
  <2>1. \A d \in CPU : Ordered(d)' <=> Ordered(d)
    BY <1>6, OrderedHotplug
  <2> QED BY <1>6, <2>1 DEF BootTimeout
<1>7. ASSUME NEW c \in CPU, PowerDown(c)
      PROVE  WakeupKept'
  <2>1. \A d \in CPU : Ordered(d)' <=> Ordered(d)
    BY <1>7, OrderedHotplug
  <2> QED BY <1>7, <2>1 DEF PowerDown, GoingDown
<1>8. ASSUME NEW c \in CPU, PowerUp(c) \/ PowerUpBug(c)
      PROVE  WakeupKept'
  <2>1. /\ Ordered(c) <=> hp[c] = "failed"
        /\ \A d \in CPU \ {c} : Ordered(d)' <=> Ordered(d)
    BY <1>8, OrderedPowerUp
  <2>2. hp[c] # "online"
    BY <1>8, PowerUpFinds
  <2>3. go[c] = "wfi" /\ ~Ordered(c) => useCount[c] = 0
    <3>1. ASSUME go[c] = "wfi", ~Ordered(c) PROVE c \notin recounted
      BY <3>1 DEF RecountKept
    <3>2. hp[c] # "failed" =>
             useCount[c] = (IF go[c] \in {"no", "lock"} THEN 1 ELSE 0)
                           + (IF c \in recounted THEN 1 ELSE 0)
      BY <1>8, PowerUpFinds
    <3> QED BY <2>1, <3>1, <3>2
  <2>4. CASE PowerUp(c)
    BY <2>1, <2>2, <2>3, <2>4 DEF PowerUp, CountUp
  <2>5. CASE PowerUpBug(c)
    <3>1. go[c] = "wfi" => Ordered(c)
      BY <2>3, <2>5 DEF PowerUpBug
    <3> QED BY <2>1, <2>2, <2>5, <3>1 DEF PowerUpBug
  <2> QED BY <1>8, <2>4, <2>5
<1>9. ASSUME NEW c \in CPU, PmPoweredUp(c)
      PROVE  WakeupKept'
  <2>1. /\ ~Ordered(c)'
        /\ \A d \in CPU \ {c} : Ordered(d)' <=> Ordered(d)
    BY <1>9, OrderedPoweredUp
  <2> QED BY <1>9, <2>1 DEF PmPoweredUp, Powered, EnterKernel
<1>10. ASSUME NEW c \in CPU, DownLastMan(c)
      PROVE  WakeupKept'
  <2>1. \A d \in CPU : Ordered(d)' <=> Ordered(d)
    BY <1>10, OrderedFrame DEF DownLastMan, BugDownLastMan, smpVars
  <2>2. useCount[c] = 1 /\ go[c] = "lock"
    BY <1>10 DEF DownLastMan, BugDownLastMan
  <2>3. ~Ordered(c)
    BY <2>2, CountedOnce
  <2> QED BY <1>10, <2>1, <2>2, <2>3 DEF DownLastMan, BugDownLastMan
<1>11. ASSUME NEW c \in CPU, DownNotLast(c)
      PROVE  WakeupKept'
  <2>1. \A d \in CPU : Ordered(d)' <=> Ordered(d)
    BY <1>11, OrderedFrame DEF DownNotLast, smpVars
  <2>2. useCount[c] = 1 /\ go[c] = "lock"
    BY <1>11 DEF DownNotLast
  <2>3. ~Ordered(c)
    BY <2>2, CountedOnce
  <2> QED BY <1>11, <2>1, <2>2, <2>3 DEF DownNotLast
<1>12. ASSUME NEW c \in CPU, DownSkipWfi(c)
      PROVE  WakeupKept'
  <2>1. \A d \in CPU : Ordered(d)' <=> Ordered(d)
    BY <1>12, OrderedFrame DEF DownSkipWfi, Overtaken, smpVars
  <2> QED BY <1>12, <2>1 DEF DownSkipWfi, Overtaken
<1>13. ASSUME NEW c \in CPU, Suspend(c)
      PROVE  WakeupKept'
  <2>1. \A d \in CPU : Ordered(d)' <=> Ordered(d)
    BY <1>13, OrderedFrame DEF Suspend, GoingDown, smpVars
  <2> QED BY <1>13, <2>1 DEF Suspend, GoingDown
<1>14. ASSUME NEW c \in CPU, DownUnlock(c)
      PROVE  WakeupKept'
  <2>1. \A d \in CPU : Ordered(d)' <=> Ordered(d)
    BY <1>14, OrderedFrame DEF DownUnlock, smpVars
  <2> QED BY <1>14, <2>1 DEF DownUnlock
<1>15. ASSUME NEW c \in CPU, DownUndo(c)
      PROVE  WakeupKept'
  <2>1. \A d \in CPU : Ordered(d)' <=> Ordered(d)
    BY <1>15, OrderedFrame DEF DownUndo, smpVars
  <2> QED BY <1>15, <2>1 DEF DownUndo
<1>16. ASSUME NEW c \in CPU, DownTeardown(c)
      PROVE  WakeupKept'
  <2>1. \A d \in CPU : Ordered(d)' <=> Ordered(d)
    BY <1>16, OrderedFrame DEF DownTeardown, ClusterTeardown, LeaveCritical, smpVars
  <2> QED BY <1>16, <2>1 DEF DownTeardown, ClusterTeardown, LeaveCritical
<1>17. ASSUME NEW c \in CPU, DownCpuDown(c)
      PROVE  WakeupKept'
  <2>1. \A d \in CPU : Ordered(d)' <=> Ordered(d)
    BY <1>17, OrderedFrame DEF DownCpuDown, CpuDown, smpVars
  <2> QED BY <1>17, <2>1 DEF DownCpuDown, CpuDown
<1>18. ASSUME NEW c \in CPU, WakeUp(c)
      PROVE  WakeupKept'
  <2>1. \A d \in CPU : Ordered(d)' <=> Ordered(d)
    BY <1>18, OrderedFrame DEF WakeUp, Wake, smpVars
  <2> QED BY <1>18, <2>1 DEF WakeUp, Wake
<1>19. ASSUME NEW c \in CPU, ReEnter(c)
      PROVE  WakeupKept'
  <2>1. \A d \in CPU : Ordered(d)' <=> Ordered(d)
    BY <1>19, OrderedFrame DEF ReEnter, Wake, smpVars
  <2> QED BY <1>19, <2>1 DEF ReEnter, Wake
<1>20. ASSUME NEW c \in CPU, EntryComplete(c)
      PROVE  WakeupKept'
  <2>1. \A d \in CPU : Ordered(d)' <=> Ordered(d)
    BY <1>20, OrderedFrame DEF EntryComplete, McpmSetupComplete, smpVars
  <2> QED BY <1>20, <2>1 DEF EntryComplete, McpmSetupComplete
<1>21. ASSUME NEW c \in CPU, EntryGated(c)
      PROVE  WakeupKept'
  <2>1. \A d \in CPU : Ordered(d)' <=> Ordered(d)
    BY <1>21, OrderedFrame DEF EntryGated, McpmEntryGated, smpVars
  <2> QED BY <1>21, <2>1 DEF EntryGated, McpmEntryGated
<1>22. ASSUME NEW c \in CPU, DownEnterCritical(c)
      PROVE  WakeupKept'
  <2>1. /\ lock = c /\ pc[c] \in {"going"} \cup Entering
        /\ pc' = [pc EXCEPT ![c] = pc'[c]]
        /\ pc'[c] \in {"critical", "aborted"} \cup Entering
    BY <1>22, EnterCriticalEffect
  <2>2. UNCHANGED <<lock, useCount, spcVars, go, smpVars>>
    BY <1>22, EnterCriticalEffect
  <2>3. \A d \in CPU : Ordered(d)' <=> Ordered(d)
    BY <2>2, OrderedFrame DEF smpVars
  <2> QED BY <2>1, <2>2, <2>3 DEF Entering
<1>23. ASSUME NEW c \in CPU, EntryStep(c)
      PROVE  WakeupKept'
  <2>1. /\ pc[c] \in {"entry"} \cup ComingUp
        /\ pc' = [pc EXCEPT ![c] = pc'[c]]
        /\ pc'[c] \in ComingUp
    BY <1>23, EntryStepEffect
  <2>2. UNCHANGED <<lock, useCount, spcVars, go, smpVars>>
    BY <1>23, EntryStepEffect
  <2>3. \A d \in CPU : Ordered(d)' <=> Ordered(d)
    BY <2>2, OrderedFrame DEF smpVars
  <2> QED BY <2>1, <2>2, <2>3 DEF ComingUp, FirstMan, SettingUp
<1> HIDE DEF WakeupKept
<1> QED BY <1>1, <1>2, <1>3, <1>4, <1>5, <1>6, <1>7, <1>8, <1>9, <1>10, <1>11, <1>12, <1>13,
  <1>14, <1>15, <1>16, <1>17, <1>18, <1>19, <1>20, <1>21, <1>22, <1>23 DEF TNext, LockStep,
  RunStep, BootStep

(* The cluster is disarmed by whoever is counted first.                      *)
LEMMA ArmedStep ==
  ASSUME TInv, TNext PROVE ArmedWatched'
<1> USE NoneAssumption DEF TInv, BackendInv, TPmTypeOK, MInv, TypeOK, Goto, mvars, syncVars,
  spcVars, smpVars, AllUnused, ArmedWatched
<1>1. ASSUME NEW c \in CPU, BootSecondary(c) \/ CpuDied(c) \/ BootVector(c) \/ CpuRunning(c)
      \/ BootTimeout(c) \/ McpmCpuDie(c)
      PROVE  ArmedWatched'
  BY <1>1 DEF BootSecondary, CpuDied, BootVector, CpuRunning, BootTimeout, McpmCpuDie
<1>2. ASSUME NEW c \in CPU, PowerUp(c) \/ PowerUpBug(c)
      PROVE  ArmedWatched'
  <2>1. CASE PowerUp(c)
    BY <2>1 DEF PowerUp, CountUp
  <2>2. CASE PowerUpBug(c)
    BY <2>2 DEF PowerUpBug
  <2> QED BY <1>2, <2>1, <2>2
<1>3. ASSUME NEW c \in CPU, PowerDown(c) \/ Suspend(c)
      PROVE  ArmedWatched'
  BY <1>3 DEF PowerDown, GoingDown, Suspend
<1>4. ASSUME NEW c \in CPU, DownLastMan(c)
      PROVE  ArmedWatched'
  BY <1>4 DEF DownLastMan, BugDownLastMan, OthersUnused
<1>5. ASSUME NEW c \in CPU, DownNotLast(c)
      PROVE  ArmedWatched'
  BY <1>5 DEF DownNotLast
<1>6. ASSUME NEW c \in CPU, DownSkipWfi(c)
      PROVE  ArmedWatched'
  BY <1>6 DEF DownSkipWfi, Overtaken
<1>7. ASSUME NEW c \in CPU, DownEnterCritical(c)
      PROVE  ArmedWatched'
  BY <1>7, EnterCriticalEffect
<1>8. ASSUME NEW c \in CPU, DownUnlock(c)
      PROVE  ArmedWatched'
  BY <1>8 DEF DownUnlock, ProtocolInv, OneOutbound, Outbound, TearingDown
<1>9. ASSUME NEW c \in CPU, DownUndo(c)
      PROVE  ArmedWatched'
  BY <1>9 DEF DownUndo
<1>10. ASSUME NEW c \in CPU, DownTeardown(c)
      PROVE  ArmedWatched'
  BY <1>10 DEF DownTeardown, ClusterTeardown, LeaveCritical
<1>11. ASSUME NEW c \in CPU, DownCpuDown(c)
      PROVE  ArmedWatched'
  BY <1>11 DEF DownCpuDown, CpuDown
<1>12. ASSUME NEW c \in CPU, WakeUp(c) \/ ReEnter(c)
      PROVE  ArmedWatched'
  BY <1>12 DEF WakeUp, Wake, ReEnter
<1>13. ASSUME NEW c \in CPU, EntryStep(c)
      PROVE  ArmedWatched'
  BY <1>13, EntryStepEffect DEF OnTheWay
<1>14. ASSUME NEW c \in CPU, EntryComplete(c) \/ EntryGated(c)
      PROVE  ArmedWatched'
  BY <1>14 DEF EntryComplete, McpmSetupComplete, EntryGated, McpmEntryGated
<1>15. ASSUME NEW c \in CPU, PmPoweredUp(c)
      PROVE  ArmedWatched'
  BY <1>15 DEF PmPoweredUp, Powered, EnterKernel, Counted
<1> HIDE DEF ArmedWatched
<1> QED BY <1>1, <1>2, <1>3, <1>4, <1>5, <1>6, <1>7, <1>8, <1>9, <1>10, <1>11, <1>12, <1>13,
  <1>14, <1>15 DEF TNext, LockStep, RunStep, BootStep
-----------------------------------------------------------------------------
(* The inductive invariant.                                                  *)

(* tc2_pm_init establishes it. *)
LEMMA BackendInitInv == TInit => TInv
<1> SUFFICES ASSUME TInit PROVE TInv
  OBVIOUS
<1>1. MInv
  BY McpmInitInv DEF TInit
<1>2. \A c \in CPU : /\ pc[c] \in {"kernel", "off"}
                    /\ hp[c] = (IF pc[c] = "kernel" THEN "online" ELSE "offline")
                    /\ go[c] = (IF pc[c] = "kernel" THEN "no" ELSE "wfi")
                    /\ useCount[c] = (IF pc[c] = "kernel" THEN 1 ELSE 0)
                    /\ ~resume[c]
  BY DEF TInit, MInit, McpmSyncInit
<1>3. TPmTypeOK
  BY <1>1 DEF TInit, MInv, TPmTypeOK, Go, Hotplug, Boot, Idle
<1>4. \A c \in CPU : ~Ordered(c)
  BY <1>2, NoneAssumption DEF TInit, Ordered, Idle
<1>5. recounted = {} /\ boot = Idle /\ \A c \in CPU : ~vector[c]
  BY DEF TInit
<1>8. ProgressTruthful /\ UseCounted
  BY <1>2, <1>4, <1>5 DEF ProgressTruthful, UseCounted
<1>9. RecountKept /\ GateGuarded
  BY <1>2, <1>5 DEF RecountKept, GateGuarded, Idle
<1>6. LastManLocked /\ ArmedWatched
  BY <1>2, NoneAssumption DEF TInit, LastManLocked, ArmedWatched, Entering
<1>7. UnpluggedStaysDown /\ WakeupKept
  BY <1>2, <1>4 DEF TInit, UnpluggedStaysDown, WakeupKept, Idle
<1> QED BY <1>1, <1>3, <1>6, <1>7, <1>8, <1>9 DEF TInv, BackendInv

(* Every step of tc2_pm.c and of its callers preserves it. *)
LEMMA BackendInvStep == TInv /\ [TNext]_tvars => TInv'
<1> SUFFICES ASSUME TInv, [TNext]_tvars PROVE TInv'
  OBVIOUS
<1>1. MInv'
  BY BackendStepsMcpm, McpmInvStep DEF TInv
<1>2. CASE TNext
  <2>1. TPmTypeOK'
    BY <1>1, <1>2, BackendTypeStep
  <2>2. BackendInv'
    BY <1>2, ProgressStep, UseCountStep, RecountStep, GateStep, LastManStep, UnpluggedStep,
      WakeupStep, ArmedStep
    DEF BackendInv
  <2> QED BY <1>1, <2>1, <2>2 DEF TInv
<1>3. CASE UNCHANGED tvars
  <2> USE <1>3 DEF TInv, tvars, mvars, spcVars, smpVars
  <2>1. TPmTypeOK'
    BY <1>1 DEF TPmTypeOK, MInv
  <2>2. \A c \in CPU : Ordered(c)' <=> Ordered(c)
    BY OrderedFrame
  <2>3. ProgressTruthful' /\ UseCounted'
    BY <2>2 DEF BackendInv, ProgressTruthful, UseCounted
  <2>6. RecountKept'
    <3>1. \A c \in recounted : c \in CPU
      BY DEF TPmTypeOK
    <3>2. RecountKept
      BY DEF BackendInv
    <3> QED BY <2>2, <3>1, <3>2 DEF RecountKept
  <2>7. GateGuarded'
    BY DEF BackendInv, GateGuarded
  <2>4. LastManLocked' /\ ArmedWatched'
    BY DEF BackendInv, LastManLocked, ArmedWatched, AllUnused
  <2>5. UnpluggedStaysDown' /\ WakeupKept'
    BY <2>2 DEF BackendInv, UnpluggedStaysDown, WakeupKept
  <2> QED BY <1>1, <2>1, <2>3, <2>4, <2>5, <2>6, <2>7 DEF BackendInv
<1> QED BY <1>2, <1>3
-----------------------------------------------------------------------------
(* The inductive invariant holds of tc2_pm.c with any number of CPUs: its    *)
(* use counts, its lock and what it wrote to the power controller agree with *)
(* where every CPU is on its way down or up.                                 *)
THEOREM BackendInvariant == TSafetySpec => []TInv
BY BackendInitInv, BackendInvStep, PTL DEF TSafetySpec

(* tc2_pm.c is a backend as the protocol of mcpm_entry.c and mcpm_head.S     *)
(* requires: every behaviour of it is one of the protocol, so the results of *)
(* McpmProofs hold of it.                                                    *)
THEOREM BackendImplementsMcpm == TSafetySpec => ImplementsMcpm
<1>1. TInit => MInit
  BY DEF TInit
<1> QED BY <1>1, BackendStepsMcpm, BackendInvariant, PTL DEF TSafetySpec, ImplementsMcpm, MSafetySpec

(* The BUG_ONs of tc2_pm_down never fire, the BUG() of tc2_pm_power_up only  *)
(* for a CPU that was booted again after a boot of it had timed out, and no  *)
(* CPU for which the last man waits is itself waiting for tc2_pm_lock.       *)
THEOREM BackendLockSafe == TSafetySpec => []PmLockSafe
<1>1. TInv => PmLockSafe
  <2> SUFFICES ASSUME TInv PROVE PmLockSafe
    OBVIOUS
  <2>1. \A c \in CPU \ recounted : useCount[c] \in 0 .. 2
    BY DEF TInv, BackendInv, UseCounted
  <2>2. boot.step = "bug" => boot.cpu \in recounted
    BY DEF TInv, BackendInv, RecountKept
  <2>3. ASSUME NEW c \in CPU, go[c] = "lock", LockFree
        PROVE  useCount[c] \in {1, 2}
    <3>1. useCount[c] = 1 + (IF Ordered(c) THEN 1 ELSE 0) + (IF c \in recounted THEN 1 ELSE 0)
      BY <2>3 DEF TInv, BackendInv, UseCounted
    <3>2. ASSUME c \in recounted, Ordered(c) PROVE FALSE
      <4>1. hp[c] # "failed"
        BY <2>3 DEF TInv, BackendInv, RecountKept, ProgressTruthful
      <4>2. boot.cpu = c /\ boot.step \in {"vector", "wait"} /\ hp[c] # "online"
        BY <2>3, <3>2, <4>1 DEF Ordered, LockFree
      <4> QED BY <2>3, <3>2, <4>2 DEF TInv, BackendInv, RecountKept
    <3> QED BY <3>1, <3>2
  <2>4. \A c \in CPU : go[c] = "lock" => pc[c] = "going" /\ useCount[c] # 0
    BY DEF TInv, BackendInv, ProgressTruthful, UseCounted
  <2>5. NoBugOn
    BY <2>3, <2>4, LockFindsUp DEF NoBugOn
  <2>6. LastManNoDeadlock
    BY <2>4 DEF TInv, BackendInv, LastManLocked, AllUnused, LastManNoDeadlock, Entering
  <2> QED BY <2>1, <2>2, <2>5, <2>6 DEF PmLockSafe, BugOnlyAfterRetry
<1> QED BY <1>1, BackendInvariant, PTL

(* The power controller never gets to cut a cluster that is not torn down,   *)
(* or that a CPU has begun to set up again.                                  *)
THEOREM BackendPowerOffSafe == TSafetySpec => []PowerOffSafe
<1>1. TInv => PowerOffSafe
  <2> SUFFICES ASSUME TInv, pden, \A c \in CPU : pc[c] = "off" /\ go[c] = "wfi"
               PROVE  cluster = "CLUSTER_DOWN" /\ inbound = "INBOUND_NOT_COMING_UP"
    BY DEF PowerOffSafe
  <2>1. lock = NONE
    BY DEF TInv, TPmTypeOK, BackendInv, LastManLocked, Entering
  <2>2. cluster # "CLUSTER_UP"
    BY <2>1 DEF TInv, BackendInv, ArmedWatched
  <2>3. cluster # "CLUSTER_GOING_DOWN"
    BY DEF TInv, MInv, ProtocolInv, OneOutbound, Outbound, Entering, TearingDown
  <2>4. inbound # "INBOUND_COMING_UP"
    BY DEF TInv, MInv, ProtocolInv, InboundTruthful, SettingUp
  <2> QED BY <2>2, <2>3, <2>4 DEF TInv, MInv, TypeOK, ClusterState, InboundState
<1> QED BY <1>1, BackendInvariant, PTL

(* A CPU in wfi that sleeps while online, or that a power_up was counted     *)
(* for, can always be woken.                                                 *)
THEOREM BackendWantedCanWake == TSafetySpec => []WantedCanWake
<1>1. TInv => WantedCanWake
  <2> SUFFICES ASSUME TInv, NEW c \in CPU, pc[c] = "off", go[c] = "wfi",
                      hp[c] = "online" \/ useCount[c] > 0
               PROVE  wakeIrq[c] /\ resume[c]
    BY DEF WantedCanWake
  <2>1. c \notin recounted
    BY DEF TInv, BackendInv, RecountKept
  <2>2. hp[c] = "online" \/ Ordered(c)
    BY <2>1 DEF TInv, BackendInv, UseCounted
  <2> QED BY <2>2 DEF TInv, BackendInv, WakeupKept
<1> QED BY <1>1, BackendInvariant, PTL
=============================================================================
