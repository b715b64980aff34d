-------------------------------- MODULE Mcpm --------------------------------
(***************************************************************************)
(* The cluster power-down race avoidance protocol: mcpm_entry_point         *)
(* (mcpm_head.S) on the inbound side, the __mcpm_* functions                *)
(* (mcpm_entry.c) on the outbound side, for the CPUs of one cluster.        *)
(*                                                                          *)
(* This is the protocol as a platform backend may use it.  The backend is   *)
(* represented by its obligations only: it calls the outbound functions in  *)
(* the documented order, it elects one last man at a time, while the        *)
(* cluster is up (the guard of EnterCritical), and it holds back CPUs that  *)
(* wake up while the last man looks around (the guard of PoweredUp).  Tc2Pm *)
(* is one such backend.                                                     *)
(*                                                                          *)
(* Every action is one access to the memory the CPUs share; the sync_cache  *)
(* operations and barriers around them are what makes that memory           *)
(* sequentially consistent.                                                 *)
(***************************************************************************)
EXTENDS Vlock, Integers

CONSTANT N          \* CPUs of the cluster

ASSUME CpuAssumption == N \in Nat \ {0} /\ CPU = 0 .. N - 1

VARIABLES pc,       \* where each CPU executes
          cpu,      \* mcpm_sync.clusters[cluster].cpus[].cpu
          cluster,  \* mcpm_sync.clusters[cluster].cluster
          inbound,  \* mcpm_sync.clusters[cluster].inbound
          scan,     \* i of __mcpm_outbound_enter_critical (0 outside the loop)
          coherent  \* cluster-level coherency: the CCI port is enabled

syncVars == <<cpu, cluster, inbound>>
mvars == <<pc, cpu, cluster, inbound, scan, coherent, vvars>>

(* Program counters, by role.  A CPU in Uncommitted does not depend on the   *)
(* cluster; every other CPU has found it up, or is taking it down.           *)
Entering    == {"oe_inbound", "oe_scan", "oe_abort"}
TearingDown == {"critical", "torndown"}
Outbound    == Entering \cup TearingDown
SettingUp   == {"cluster_setup", "cluster_up"}
FirstMan    == {"setup", "teardown_wait", "setup_leave", "unlock", "skip"}
                 \cup SettingUp
Uncommitted == {"left", "off", "entry", "trylock", "setup", "teardown_wait",
                "setup_wait"} \cup SettingUp
ComingUp    == {"trylock", "setup_wait", "complete"} \cup FirstMan
Up          == {"gated", "resumed", "kernel"}
PC          == {"going", "aborted", "left", "off", "entry"}
                 \cup Outbound \cup ComingUp \cup Up

CpuState     == {"CPU_DOWN", "CPU_COMING_UP", "CPU_UP", "CPU_GOING_DOWN"}
ClusterState == {"CLUSTER_DOWN", "CLUSTER_UP", "CLUSTER_GOING_DOWN"}
InboundState == {"INBOUND_NOT_COMING_UP", "INBOUND_COMING_UP"}

TypeOK == /\ pc \in [CPU -> PC]
          /\ cpu \in [CPU -> CpuState]
          /\ cluster \in ClusterState
          /\ inbound \in InboundState
          /\ scan \in [CPU -> 0 .. N]
          /\ coherent \in BOOLEAN
          /\ VTypeOK

(* mcpm_sync_init: the cluster that booted Linux has the boot CPU up, any    *)
(* other cluster is down.                                                    *)
McpmSyncInit ==
  /\ inbound = "INBOUND_NOT_COMING_UP"
  /\ \E up \in {{}, {0}} :
       /\ pc = [c \in CPU |-> IF c \in up THEN "kernel" ELSE "off"]
       /\ cpu = [c \in CPU |-> IF c \in up THEN "CPU_UP" ELSE "CPU_DOWN"]
       /\ cluster = IF up = {} THEN "CLUSTER_DOWN" ELSE "CLUSTER_UP"
       /\ coherent = (up # {})

MInit == /\ McpmSyncInit
         /\ scan = [c \in CPU |-> 0]
         /\ VInit

Goto(c, from, to) == pc[c] = from /\ pc' = [pc EXCEPT ![c] = to]
SetCpu(c, s) == cpu' = [cpu EXCEPT ![c] = s]
-----------------------------------------------------------------------------
(* Outbound side: mcpm_entry.c. *)

(* __mcpm_cpu_going_down: the CPU commits to its own teardown. *)
GoingDown(c) ==
  /\ Goto(c, "kernel", "going")
  /\ SetCpu(c, "CPU_GOING_DOWN")
  /\ UNCHANGED <<cluster, inbound, scan, coherent, vvars>>

(* __mcpm_outbound_enter_critical, first step: warn the inbound CPUs. *)
WarnInbound(c) ==
  /\ Goto(c, "going", "oe_inbound")
  /\ cluster' = "CLUSTER_GOING_DOWN"
  /\ UNCHANGED <<cpu, inbound, scan, coherent, vvars>>

(* A mutant of EnterCritical: a last man while another is still at work. *)
BugEnterCritical(c) == WarnInbound(c)

(* The backend's obligation: one last man at a time, in a cluster that is up.*)
EnterCritical(c) ==
  /\ cluster = "CLUSTER_UP"
  /\ \A d \in CPU : pc[d] \notin Outbound
  /\ WarnInbound(c)

(* Back out if an inbound CPU is already setting the cluster up. *)
CheckInbound(c) ==
  /\ Goto(c, "oe_inbound",
          IF inbound = "INBOUND_COMING_UP" THEN "oe_abort" ELSE "oe_scan")
  /\ UNCHANGED <<syncVars, scan, coherent, vvars>>

(* A mutant of ScanNext: a CPU that is still GOING_DOWN is not waited for. *)
BugScanNext(c) ==
  /\ pc[c] = "oe_scan" /\ scan[c] < N
  /\ scan[c] = c \/ cpu[scan[c]] \in {"CPU_DOWN", "CPU_GOING_DOWN"}
  /\ scan' = [scan EXCEPT ![c] = @ + 1]
  /\ UNCHANGED <<pc, syncVars, coherent, vvars>>

(* The loop over the other CPUs: pass one that is down ... *)
ScanNext(c) ==
  /\ pc[c] = "oe_scan" /\ scan[c] < N
  /\ scan[c] = c \/ cpu[scan[c]] = "CPU_DOWN"
  /\ scan' = [scan EXCEPT ![c] = @ + 1]
  /\ UNCHANGED <<pc, syncVars, coherent, vvars>>

(* ... give up at one that is coming up or up; one that is going down is     *)
(* waited for (neither action is enabled).                                   *)
ScanAbort(c) ==
  /\ scan[c] < N /\ scan[c] # c
  /\ cpu[scan[c]] \in {"CPU_COMING_UP", "CPU_UP"}
  /\ Goto(c, "oe_scan", "oe_abort")
  /\ scan' = [scan EXCEPT ![c] = 0]
  /\ UNCHANGED <<syncVars, coherent, vvars>>

(* __mcpm_outbound_enter_critical returns true. *)
ScanDone(c) ==
  /\ scan[c] = N
  /\ Goto(c, "oe_scan", "critical")
  /\ scan' = [scan EXCEPT ![c] = 0]
  /\ UNCHANGED <<syncVars, coherent, vvars>>

(* The abort label: the cluster stays up, the function returns false. *)
OutboundAbort(c) ==
  /\ Goto(c, "oe_abort", "aborted")
  /\ cluster' = "CLUSTER_UP"
  /\ UNCHANGED <<cpu, inbound, scan, coherent, vvars>>

(* The backend tears the cluster down: flush all, then cut its coherency. *)
ClusterTeardown(c) ==
  /\ Goto(c, "critical", "torndown")
  /\ coherent' = FALSE
  /\ UNCHANGED <<syncVars, scan, vvars>>

(* __mcpm_outbound_leave_critical(cluster, CLUSTER_DOWN). *)
LeaveCritical(c) ==
  /\ Goto(c, "torndown", "left")
  /\ cluster' = "CLUSTER_DOWN"
  /\ UNCHANGED <<cpu, inbound, scan, coherent, vvars>>

(* __mcpm_cpu_down, at the end of every way down. *)
CpuDown(c) ==
  /\ \E from \in {"going", "aborted", "left"} : Goto(c, from, "off")
  /\ SetCpu(c, "CPU_DOWN")
  /\ UNCHANGED <<cluster, inbound, scan, coherent, vvars>>

(* The CPU leaves wfi, or did not need it, and is at mcpm_entry_point. *)
Wake(c) ==
  /\ Goto(c, "off", "entry")
  /\ UNCHANGED <<syncVars, scan, coherent, vvars>>
-----------------------------------------------------------------------------
(* Inbound side: mcpm_head.S. *)

(* mcpm_entry_point: signal that this CPU is coming up. *)
McpmEntryPoint(c) ==
  /\ Goto(c, "entry", "trylock")
  /\ SetCpu(c, "CPU_COMING_UP")
  /\ UNCHANGED <<cluster, inbound, scan, coherent, vvars>>

(* bl vlock_trylock. *)
FirstManTrylock(c) ==
  /\ pc[c] = "trylock"
  /\ VotingBegin(c) \/ TrylockStep(c)
  /\ UNCHANGED <<pc, syncVars, scan, coherent>>

(* bne mcpm_setup_wait. *)
NotFirstMan(c) ==
  /\ Goto(c, "trylock", "setup_wait")
  /\ TrylockLost(c)
  /\ UNCHANGED <<syncVars, scan, coherent>>

(* The first man reads the cluster state. *)
FirstManCheck(c) ==
  /\ vpc[c] = "held"
  /\ Goto(c, "trylock", IF cluster = "CLUSTER_UP" THEN "skip" ELSE "setup")
  /\ UNCHANGED <<syncVars, scan, coherent, vvars>>

(* mcpm_setup: signal that the cluster is being brought up. *)
McpmSetup(c) ==
  /\ Goto(c, "setup", "teardown_wait")
  /\ inbound' = "INBOUND_COMING_UP"
  /\ UNCHANGED <<cpu, cluster, scan, coherent, vvars>>

(* A mutant of McpmTeardownWait: a pending teardown is not waited for. *)
BugMcpmTeardownWait(c) ==
  /\ Goto(c, "teardown_wait",
          IF cluster = "CLUSTER_UP" THEN "setup_leave" ELSE "cluster_setup")
  /\ UNCHANGED <<syncVars, scan, coherent, vvars>>

(* mcpm_teardown_wait and first_man_setup: the value that ends the loop also *)
(* decides whether there is anything to set up.                              *)
McpmTeardownWait(c) ==
  /\ cluster # "CLUSTER_GOING_DOWN"
  /\ Goto(c, "teardown_wait",
          IF cluster = "CLUSTER_UP" THEN "setup_leave" ELSE "cluster_setup")
  /\ UNCHANGED <<syncVars, scan, coherent, vvars>>

(* blxne r7: power_up_setup(1) restores cluster-level coherency. *)
FirstManSetup(c) ==
  /\ Goto(c, "cluster_setup", "cluster_up")
  /\ coherent' = TRUE
  /\ UNCHANGED <<syncVars, scan, vvars>>

SetClusterUp(c) ==
  /\ Goto(c, "cluster_up", "setup_leave")
  /\ cluster' = "CLUSTER_UP"
  /\ UNCHANGED <<cpu, inbound, scan, coherent, vvars>>

McpmSetupLeave(c) ==
  /\ Goto(c, "setup_leave", "unlock")
  /\ inbound' = "INBOUND_NOT_COMING_UP"
  /\ UNCHANGED <<cpu, cluster, scan, coherent, vvars>>

(* bl vlock_unlock, after setup or because the cluster was already up. *)
FirstManUnlock(c) ==
  /\ \E from \in {"unlock", "skip"} : Goto(c, from, "complete")
  /\ VlockUnlock(c)
  /\ UNCHANGED <<syncVars, scan, coherent>>

(* A mutant of McpmSetupWait: a cluster that is going down will do. *)
BugMcpmSetupWait(c) ==
  /\ cluster # "CLUSTER_DOWN"
  /\ Goto(c, "setup_wait", "complete")
  /\ UNCHANGED <<syncVars, scan, coherent, vvars>>

(* mcpm_setup_wait: the others wait for the cluster. *)
McpmSetupWait(c) ==
  /\ cluster = "CLUSTER_UP"
  /\ Goto(c, "setup_wait", "complete")
  /\ UNCHANGED <<syncVars, scan, coherent, vvars>>

(* mcpm_setup_complete. *)
McpmSetupComplete(c) ==
  /\ Goto(c, "complete", "gated")
  /\ SetCpu(c, "CPU_UP")
  /\ UNCHANGED <<cluster, inbound, scan, coherent, vvars>>

(* mcpm_entry_gated: the CPU's entry vector is (at some point) set. *)
McpmEntryGated(c) ==
  /\ Goto(c, "gated", "resumed")
  /\ UNCHANGED <<syncVars, scan, coherent, vvars>>

(* mcpm_cpu_powered_up, before the kernel does anything else. *)
EnterKernel(c) ==
  /\ Goto(c, "resumed", "kernel")
  /\ UNCHANGED <<syncVars, scan, coherent, vvars>>

(* A mutant of PoweredUp: a backend that does not make it wait. *)
BugPoweredUp(c) == EnterKernel(c)

(* The backend's obligation: a CPU that woke up by itself is not let into    *)
(* the kernel, from where it could go down again, while the last man looks   *)
(* whether everybody is down.                                                *)
PoweredUp(c) ==
  /\ \A d \in CPU : pc[d] \notin Entering
  /\ EnterKernel(c)
-----------------------------------------------------------------------------
OutboundStep(c) ==
  \/ EnterCritical(c)
  \/ CheckInbound(c)
  \/ ScanNext(c)
  \/ ScanAbort(c)
  \/ ScanDone(c)
  \/ OutboundAbort(c)
  \/ ClusterTeardown(c)
  \/ LeaveCritical(c)
  \/ CpuDown(c)

InboundStep(c) ==
  \/ McpmEntryPoint(c)
  \/ FirstManTrylock(c)
  \/ NotFirstMan(c)
  \/ FirstManCheck(c)
  \/ McpmSetup(c)
  \/ McpmTeardownWait(c)
  \/ FirstManSetup(c)
  \/ SetClusterUp(c)
  \/ McpmSetupLeave(c)
  \/ FirstManUnlock(c)
  \/ McpmSetupWait(c)
  \/ McpmSetupComplete(c)
  \/ McpmEntryGated(c)
  \/ PoweredUp(c)

MNext == \E c \in CPU : \/ GoingDown(c)
                        \/ OutboundStep(c)
                        \/ Wake(c)
                        \/ InboundStep(c)

(* A CPU that has started on its way up or down keeps executing; whether it  *)
(* is ever put to sleep or woken is a policy decision or a hardware event.   *)
MFairness == \A c \in CPU : WF_mvars(OutboundStep(c)) /\ WF_mvars(InboundStep(c))

(* What a backend has to implement. *)
MSafetySpec == MInit /\ [][MNext]_mvars

MSpec == MSafetySpec /\ MFairness
-----------------------------------------------------------------------------
(* The parts of the inductive invariant.                                     *)

(* The advertised CPU state tells where the CPU is. *)
CpuStateTruthful ==
  \A c \in CPU :
     /\ cpu[c] = "CPU_DOWN" <=> pc[c] \in {"off", "entry"}
     /\ cpu[c] = "CPU_COMING_UP" <=> pc[c] \in ComingUp
     /\ cpu[c] = "CPU_UP" <=> pc[c] \in Up

(* Only CPUs on their way in use the first-man lock, and the first man has   *)
(* it.                                                                       *)
LockProtocol ==
  \A c \in CPU : /\ vpc[c] # "idle" => pc[c] \in {"trylock"} \cup FirstMan
                 /\ pc[c] \in FirstMan => vpc[c] = "held"

(* There is at most one outbound CPU, and the cluster state shows it. *)
OneOutbound ==
  /\ \A c, d \in CPU : pc[c] \in Outbound /\ pc[d] \in Outbound => c = d
  /\ \A c \in CPU : pc[c] \in Outbound => cluster = "CLUSTER_GOING_DOWN"
  /\ cluster = "CLUSTER_GOING_DOWN" => \E c \in CPU : pc[c] \in Outbound

(* A CPU that the last man has passed does not depend on the cluster. *)
ScannedUncommitted ==
  \A c \in CPU :
     /\ pc[c] # "oe_scan" => scan[c] = 0
     /\ \A d \in CPU : pc[c] = "oe_scan" /\ d < scan[c] /\ d # c =>
                         pc[d] \in Uncommitted \ SettingUp

(* Nobody depends on a cluster that is down, and only such a cluster is set  *)
(* up.                                                                       *)
DownUnused ==
  \A c \in CPU : /\ cluster = "CLUSTER_DOWN" => pc[c] \in Uncommitted
                 /\ pc[c] \in SettingUp => cluster = "CLUSTER_DOWN"

(* The cluster is coherent until the last man cuts it off, and again once    *)
(* the first man has called power_up_setup.                                  *)
CoherencyTracked ==
  /\ cluster = "CLUSTER_UP" => coherent
  /\ \A c \in CPU : pc[c] \in Entering \cup {"critical", "cluster_up"} => coherent

(* The inbound flag is up exactly while the first man works on the cluster.  *)
InboundTruthful ==
  inbound = "INBOUND_COMING_UP" <=>
     \E c \in CPU : pc[c] \in {"teardown_wait", "setup_leave"} \cup SettingUp

(* mcpm_entry.c, __mcpm_outbound_enter_critical: "it is now safe to tear     *)
(* down the cluster".  While it is being torn down no other CPU depends on   *)
(* it, although other CPUs may have woken up meanwhile.                      *)
TeardownExclusive ==
  \A c, d \in CPU :
     pc[c] \in TearingDown /\ d # c => pc[d] \in Uncommitted \ SettingUp

(* What ties the two sides together. *)
ProtocolInv == /\ CpuStateTruthful /\ LockProtocol /\ OneOutbound
               /\ ScannedUncommitted /\ TeardownExclusive /\ DownUnused
               /\ CoherencyTracked /\ InboundTruthful

(* A CPU that has lost the election, or is bound to: it found an owner, or   *)
(* its vote has been overwritten.                                            *)
Losing(c) ==
  \/ pc[c] = "setup_wait"
  \/ /\ pc[c] = "trylock"
     /\ \/ vpc[c] \in {"failed", "lost"}
        \/ vpc[c] \in {"endvote", "wait", "result"} /\ owner # c

(* A CPU that will bring the cluster up, or has the last vote for it. *)
Rescuer(d) == \/ pc[d] \in {"setup", "teardown_wait"} \cup SettingUp
              \/ pc[d] = "trylock" /\ owner = d

(* A loser can rely on a rescuer, or on the last man to give up.  He will,   *)
(* if he passed the loser before the election: somebody is then on the way   *)
(* to the kernel and is kept out of it, so that he will meet it, or a        *)
(* rescuer waits for the end of the teardown.                                *)
LosersRescued ==
  \A c \in CPU : Losing(c) =>
     /\ cluster # "CLUSTER_UP" =>
          \E d \in CPU : pc[d] \in Entering \/ Rescuer(d)
     /\ \A o \in CPU : pc[o] = "oe_scan" /\ c < scan[o] /\ c # o =>
          \E d \in CPU : \/ Rescuer(d)
                         \/ pc[d] \in {"setup_leave", "unlock", "skip", "complete",
                                       "gated", "resumed"}

(* The inductive invariant of the protocol. *)
MInv == TypeOK /\ VInv /\ ProtocolInv /\ LosersRescued

(* The cluster is coherent for every CPU that the entry code let through.    *)
CommittedCoherent ==
  \A c \in CPU : pc[c] \notin Uncommitted \cup {"torndown"} => coherent

(* Cluster setup belongs to one CPU, and runs only once nobody is on the     *)
(* outbound side.                                                            *)
SetupExclusive ==
  \A c, d \in CPU :
     pc[c] \in SettingUp /\ d # c => pc[d] \notin Outbound \cup FirstMan

(* A CPU that lost the election may wait for the cluster to come up: there   *)
(* is always somebody left who will bring it up, or abort its teardown.      *)
NotStranded ==
  \A c \in CPU :
     pc[c] = "setup_wait" /\ cluster # "CLUSTER_UP" =>
        \E d \in CPU : pc[d] \in Entering \/ Rescuer(d)

(* The steps of the cluster and inbound states that the code can make. *)
ClusterDiagramStep ==
  \/ /\ cluster' = cluster
     /\ cluster = "CLUSTER_DOWN" => inbound' = "INBOUND_COMING_UP"
  \/ /\ inbound' = inbound
     /\ \/ cluster = "CLUSTER_UP" /\ cluster' = "CLUSTER_GOING_DOWN"
        \/ cluster = "CLUSTER_GOING_DOWN" /\ cluster' \in {"CLUSTER_UP", "CLUSTER_DOWN"}
        \/ /\ cluster = "CLUSTER_DOWN" /\ cluster' = "CLUSTER_UP"
           /\ inbound = "INBOUND_COMING_UP"

(* What one step does to the cluster and inbound states.  A cluster that is  *)
(* down is left only through INBOUND_COMING_UP, by the first man, who raises *)
(* the flag first and lowers it last; it goes down only from GOING_DOWN; and *)
(* no step changes both states.                                              *)
ClusterDiagram == [][ClusterDiagramStep]_<<cluster, inbound>>

(* Every CPU that enters gets to the gate, unless CPUs are sent down forever *)
(* (each abort of a teardown can then delay it once more).                   *)
InboundCompletes ==
  \/ []<><<\E d \in CPU : GoingDown(d)>>_mvars
  \/ \A c \in CPU : pc[c] = "entry" ~> pc[c] = "gated"

=============================================================================
