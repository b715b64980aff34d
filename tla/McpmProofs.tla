---------------------------- MODULE McpmProofs ----------------------------
(***************************************************************************)
(* Safety of the cluster power-down race avoidance protocol, for any number *)
(* of CPUs: MInv is inductive, and the safety properties of Mcpm follow     *)
(* from it.  The lock's own invariant is carried over from VlockProofs,     *)
(* because every step of the protocol is a step of the lock or leaves it    *)
(* alone.                                                                   *)
(***************************************************************************)
EXTENDS Mcpm, VlockProofs

USE CpuAssumption

(* The CPUs use the first-man lock as vlock.S expects: begin, vote, wait,    *)
(* and unlock only what they hold.                                           *)
LEMMA McpmStepsVlock == MNext => [VNext]_vvars
<1> SUFFICES ASSUME NEW c \in CPU,
                    GoingDown(c) \/ OutboundStep(c) \/ Wake(c) \/ InboundStep(c)
             PROVE  [VNext]_vvars
  BY DEF MNext
<1>1. CASE FirstManTrylock(c) \/ NotFirstMan(c) \/ FirstManUnlock(c)
  BY <1>1 DEF FirstManTrylock, NotFirstMan, FirstManUnlock, VNext
<1>2. CASE GoingDown(c) \/ OutboundStep(c) \/ Wake(c)
  BY <1>2 DEF GoingDown, OutboundStep, Wake, EnterCritical, WarnInbound, CheckInbound,
    ScanNext, ScanAbort, ScanDone, OutboundAbort, ClusterTeardown,
    LeaveCritical, CpuDown, vvars
<1>3. CASE InboundStep(c)
  BY <1>1, <1>3 DEF InboundStep, McpmEntryPoint, FirstManCheck, McpmSetup,
    McpmTeardownWait, FirstManSetup, SetClusterUp, McpmSetupLeave,
    McpmSetupWait, McpmSetupComplete, McpmEntryGated, PoweredUp, EnterKernel, vvars
<1> QED BY <1>2, <1>3

(* Every step is well typed; the scan of the last man stays within the       *)
(* cluster.                                                                  *)
LEMMA McpmTypeStep == TypeOK /\ [MNext]_mvars => TypeOK'
<1> SUFFICES ASSUME TypeOK, [MNext]_mvars PROVE TypeOK'
  OBVIOUS
<1>0. VTypeOK'
  <2>1. CASE MNext
    BY <2>1, McpmStepsVlock, VTypeStep DEF TypeOK
  <2>2. CASE UNCHANGED mvars
    BY <2>2 DEF mvars, vvars, TypeOK, VTypeOK
  <2> QED BY <2>1, <2>2
<1> USE DEF TypeOK, PC, Entering, TearingDown, Outbound, SettingUp, FirstMan,
            ComingUp, Up, CpuState, ClusterState, InboundState,
            Goto, SetCpu, syncVars
<1>1. ASSUME NEW c \in CPU, GoingDown(c) \/ OutboundStep(c) \/ Wake(c)
      PROVE  TypeOK'
  <2>1. CASE ScanNext(c)
    BY <1>0, <2>1 DEF ScanNext
  <2>2. CASE ScanAbort(c) \/ ScanDone(c)
    BY <1>0, <2>2 DEF ScanAbort, ScanDone
  <2>3. CASE EnterCritical(c) \/ CheckInbound(c) \/ OutboundAbort(c)
    BY <1>0, <2>3 DEF EnterCritical, WarnInbound, CheckInbound, OutboundAbort
  <2>4. CASE \/ GoingDown(c) \/ ClusterTeardown(c) \/ LeaveCritical(c)
             \/ CpuDown(c) \/ Wake(c)
    BY <1>0, <2>4 DEF GoingDown, ClusterTeardown, LeaveCritical, CpuDown, Wake
  <2> QED BY <1>1, <2>1, <2>2, <2>3, <2>4 DEF OutboundStep
<1>2. ASSUME NEW c \in CPU, InboundStep(c)
      PROVE  TypeOK'
  BY <1>0, <1>2 DEF InboundStep, McpmEntryPoint, FirstManTrylock, NotFirstMan,
    FirstManCheck, McpmSetup, McpmTeardownWait, FirstManSetup, SetClusterUp,
    McpmSetupLeave, FirstManUnlock, McpmSetupWait, McpmSetupComplete,
    McpmEntryGated, PoweredUp, EnterKernel
<1> QED BY <1>0, <1>1, <1>2 DEF MNext, mvars

(* A CPU that has committed to the cluster keeps everybody else from tearing *)
(* it down.                                                                  *)
LEMMA CommittedFacts ==
  ASSUME MInv, NEW c \in CPU, pc[c] \notin Uncommitted \cup TearingDown
  PROVE  cluster # "CLUSTER_DOWN" /\ \A d \in CPU : pc[d] \notin TearingDown
BY DEF MInv, ProtocolInv, TeardownExclusive, DownUnused

(* There is one first man, because there is one holder of the lock. *)
LEMMA FirstManUnique ==
  ASSUME MInv, NEW c \in CPU, NEW d \in CPU, pc[c] \in FirstMan, pc[d] \in FirstMan
  PROVE  c = d
BY DEF MInv, ProtocolInv, VInv, LockProtocol, ElectionClosed
-----------------------------------------------------------------------------
(* One lemma for each action.                                                *)

(* A CPU that starts down was up, so nobody is tearing the cluster down.     *)
LEMMA GoingDownInv ==
  ASSUME MInv, NEW c \in CPU, GoingDown(c) PROVE ProtocolInv'
<1> USE DEF MInv, TypeOK, ProtocolInv, PC, Entering, TearingDown, Outbound, SettingUp, FirstMan,
  Uncommitted, ComingUp, Up, Goto, SetCpu, GoingDown, vvars, syncVars
<1>0. cluster # "CLUSTER_DOWN" /\ \A d \in CPU : pc[d] \notin TearingDown
  BY CommittedFacts
<1>1. CpuStateTruthful' /\ LockProtocol'
  <2>1. CpuStateTruthful'
    BY DEF CpuStateTruthful
  <2>2. LockProtocol'
    BY DEF LockProtocol, VTypeOK, VPC
  <2> QED BY <2>1, <2>2
<1>2. OneOutbound'
  BY DEF OneOutbound, DownUnused
<1>3. ScannedUncommitted' /\ TeardownExclusive'
  BY <1>0 DEF ScannedUncommitted, TeardownExclusive, OneOutbound, CpuStateTruthful
<1>4. DownUnused' /\ CoherencyTracked'
  BY <1>0, FirstManUnique DEF DownUnused, CoherencyTracked, OneOutbound,
    TeardownExclusive
<1>5. InboundTruthful'
  BY FirstManUnique DEF InboundTruthful
<1> QED BY <1>1, <1>2, <1>3, <1>4, <1>5

(* The new last man is the only one, by the backend's obligation.            *)
LEMMA EnterCriticalInv ==
  ASSUME MInv, NEW c \in CPU, EnterCritical(c) PROVE ProtocolInv'
<1> USE DEF MInv, TypeOK, ProtocolInv, PC, Entering, TearingDown, Outbound, SettingUp, FirstMan,
  Uncommitted, ComingUp, Up, Goto, SetCpu, EnterCritical, WarnInbound, vvars, syncVars
<1>1. CpuStateTruthful' /\ LockProtocol'
  <2>1. CpuStateTruthful'
    BY DEF CpuStateTruthful
  <2>2. LockProtocol'
    BY DEF LockProtocol, VTypeOK, VPC
  <2> QED BY <2>1, <2>2
<1>2. OneOutbound'
  BY DEF OneOutbound, DownUnused
<1>3. ScannedUncommitted' /\ TeardownExclusive'
  BY DEF ScannedUncommitted, TeardownExclusive, OneOutbound, CpuStateTruthful
<1>4. DownUnused' /\ CoherencyTracked'
  BY FirstManUnique DEF DownUnused, CoherencyTracked, OneOutbound,
    TeardownExclusive
<1>5. InboundTruthful'
  BY FirstManUnique DEF InboundTruthful
<1> QED BY <1>1, <1>2, <1>3, <1>4, <1>5

(* The scan starts with nobody passed yet.                                   *)
LEMMA CheckInboundInv ==
  ASSUME MInv, NEW c \in CPU, CheckInbound(c) PROVE ProtocolInv'
<1> USE DEF MInv, TypeOK, ProtocolInv, PC, Entering, TearingDown, Outbound, SettingUp, FirstMan,
  Uncommitted, ComingUp, Up, Goto, SetCpu, CheckInbound, vvars, syncVars
<1>1. CpuStateTruthful' /\ LockProtocol'
  <2>1. CpuStateTruthful'
    BY DEF CpuStateTruthful
  <2>2. LockProtocol'
    BY DEF LockProtocol, VTypeOK, VPC
  <2> QED BY <2>1, <2>2
<1>2. OneOutbound'
  BY DEF OneOutbound, DownUnused
<1>3. ScannedUncommitted' /\ TeardownExclusive'
  BY DEF ScannedUncommitted, TeardownExclusive, OneOutbound, CpuStateTruthful
<1>4. DownUnused' /\ CoherencyTracked'
  BY FirstManUnique DEF DownUnused, CoherencyTracked, OneOutbound,
    TeardownExclusive
<1>5. InboundTruthful'
  BY FirstManUnique DEF InboundTruthful
<1> QED BY <1>1, <1>2, <1>3, <1>4, <1>5

(* The CPU just passed was seen CPU_DOWN: it is off, or has not gone         *)
(* further than the entry point.                                             *)
LEMMA ScanNextInv ==
  ASSUME MInv, NEW c \in CPU, ScanNext(c) PROVE ProtocolInv'
<1> USE DEF MInv, TypeOK, ProtocolInv, PC, Entering, TearingDown, Outbound, SettingUp, FirstMan,
  Uncommitted, ComingUp, Up, Goto, SetCpu, ScanNext, vvars, syncVars
<1>1. CpuStateTruthful' /\ LockProtocol'
  <2>1. CpuStateTruthful'
    BY DEF CpuStateTruthful
  <2>2. LockProtocol'
    BY DEF LockProtocol, VTypeOK, VPC
  <2> QED BY <2>1, <2>2
<1>2. OneOutbound'
  BY DEF OneOutbound, DownUnused
<1>3. ScannedUncommitted' /\ TeardownExclusive'
  BY DEF ScannedUncommitted, TeardownExclusive, OneOutbound, CpuStateTruthful
<1>4. DownUnused' /\ CoherencyTracked'
  BY FirstManUnique DEF DownUnused, CoherencyTracked, OneOutbound,
    TeardownExclusive
<1>5. InboundTruthful'
  BY FirstManUnique DEF InboundTruthful
<1> QED BY <1>1, <1>2, <1>3, <1>4, <1>5

(* Giving up forgets the scan.                                               *)
LEMMA ScanAbortInv ==
  ASSUME MInv, NEW c \in CPU, ScanAbort(c) PROVE ProtocolInv'
<1> USE DEF MInv, TypeOK, ProtocolInv, PC, Entering, TearingDown, Outbound, SettingUp, FirstMan,
  Uncommitted, ComingUp, Up, Goto, SetCpu, ScanAbort, vvars, syncVars
<1>1. CpuStateTruthful' /\ LockProtocol'
  <2>1. CpuStateTruthful'
    BY DEF CpuStateTruthful
  <2>2. LockProtocol'
    BY DEF LockProtocol, VTypeOK, VPC
  <2> QED BY <2>1, <2>2
<1>2. OneOutbound'
  BY DEF OneOutbound, DownUnused
<1>3. ScannedUncommitted' /\ TeardownExclusive'
  BY DEF ScannedUncommitted, TeardownExclusive, OneOutbound, CpuStateTruthful
<1>4. DownUnused' /\ CoherencyTracked'
  BY FirstManUnique DEF DownUnused, CoherencyTracked, OneOutbound,
    TeardownExclusive
<1>5. InboundTruthful'
  BY FirstManUnique DEF InboundTruthful
<1> QED BY <1>1, <1>2, <1>3, <1>4, <1>5

(* All the other CPUs have been passed, so the cluster is not used.          *)
LEMMA ScanDoneInv ==
  ASSUME MInv, NEW c \in CPU, ScanDone(c) PROVE ProtocolInv'
<1> USE DEF MInv, TypeOK, ProtocolInv, PC, Entering, TearingDown, Outbound, SettingUp, FirstMan,
  Uncommitted, ComingUp, Up, Goto, SetCpu, ScanDone, vvars, syncVars
<1>1. CpuStateTruthful' /\ LockProtocol'
  <2>1. CpuStateTruthful'
    BY DEF CpuStateTruthful
  <2>2. LockProtocol'
    BY DEF LockProtocol, VTypeOK, VPC
  <2> QED BY <2>1, <2>2
<1>2. OneOutbound'
  BY DEF OneOutbound, DownUnused
<1>3. ScannedUncommitted' /\ TeardownExclusive'
  BY DEF ScannedUncommitted, TeardownExclusive, OneOutbound, CpuStateTruthful
<1>4. DownUnused' /\ CoherencyTracked'
  BY FirstManUnique DEF DownUnused, CoherencyTracked, OneOutbound,
    TeardownExclusive
<1>5. InboundTruthful'
  BY FirstManUnique DEF InboundTruthful
<1> QED BY <1>1, <1>2, <1>3, <1>4, <1>5

(* An aborted teardown leaves the cluster as it was: coherent and up.        *)
LEMMA OutboundAbortInv ==
  ASSUME MInv, NEW c \in CPU, OutboundAbort(c) PROVE ProtocolInv'
<1> USE DEF MInv, TypeOK, ProtocolInv, PC, Entering, TearingDown, Outbound, SettingUp, FirstMan,
  Uncommitted, ComingUp, Up, Goto, SetCpu, OutboundAbort, vvars, syncVars
<1>1. CpuStateTruthful' /\ LockProtocol'
  <2>1. CpuStateTruthful'
    BY DEF CpuStateTruthful
  <2>2. LockProtocol'
    BY DEF LockProtocol, VTypeOK, VPC
  <2> QED BY <2>1, <2>2
<1>2. OneOutbound'
  BY DEF OneOutbound, DownUnused
<1>3. ScannedUncommitted' /\ TeardownExclusive'
  BY DEF ScannedUncommitted, TeardownExclusive, OneOutbound, CpuStateTruthful
<1>4. DownUnused' /\ CoherencyTracked'
  BY FirstManUnique DEF DownUnused, CoherencyTracked, OneOutbound,
    TeardownExclusive
<1>5. InboundTruthful'
  BY FirstManUnique DEF InboundTruthful
<1> QED BY <1>1, <1>2, <1>3, <1>4, <1>5

(* Coherency is cut for nobody but the last man.                             *)
LEMMA ClusterTeardownInv ==
  ASSUME MInv, NEW c \in CPU, ClusterTeardown(c) PROVE ProtocolInv'
<1> USE DEF MInv, TypeOK, ProtocolInv, PC, Entering, TearingDown, Outbound, SettingUp, FirstMan,
  Uncommitted, ComingUp, Up, Goto, SetCpu, ClusterTeardown, vvars, syncVars
<1>1. CpuStateTruthful' /\ LockProtocol'
  <2>1. CpuStateTruthful'
    BY DEF CpuStateTruthful
  <2>2. LockProtocol'
    BY DEF LockProtocol, VTypeOK, VPC
  <2> QED BY <2>1, <2>2
<1>2. OneOutbound'
  BY DEF OneOutbound, DownUnused
<1>3. ScannedUncommitted' /\ TeardownExclusive'
  BY DEF ScannedUncommitted, TeardownExclusive, OneOutbound, CpuStateTruthful
<1>4. DownUnused' /\ CoherencyTracked'
  BY FirstManUnique DEF DownUnused, CoherencyTracked, OneOutbound,
    TeardownExclusive
<1>5. InboundTruthful'
  BY FirstManUnique DEF InboundTruthful
<1> QED BY <1>1, <1>2, <1>3, <1>4, <1>5

(* The cluster is down, and no CPU depends on it.                            *)
LEMMA LeaveCriticalInv ==
  ASSUME MInv, NEW c \in CPU, LeaveCritical(c) PROVE ProtocolInv'
<1> USE DEF MInv, TypeOK, ProtocolInv, PC, Entering, TearingDown, Outbound, SettingUp, FirstMan,
  Uncommitted, ComingUp, Up, Goto, SetCpu, LeaveCritical, vvars, syncVars
<1>1. CpuStateTruthful' /\ LockProtocol'
  <2>1. CpuStateTruthful'
    BY DEF CpuStateTruthful
  <2>2. LockProtocol'
    BY DEF LockProtocol, VTypeOK, VPC
  <2> QED BY <2>1, <2>2
<1>2. OneOutbound'
  BY DEF OneOutbound, DownUnused
<1>3. ScannedUncommitted' /\ TeardownExclusive'
  BY DEF ScannedUncommitted, TeardownExclusive, OneOutbound, CpuStateTruthful
<1>4. DownUnused' /\ CoherencyTracked'
  BY FirstManUnique DEF DownUnused, CoherencyTracked, OneOutbound,
    TeardownExclusive
<1>5. InboundTruthful'
  BY FirstManUnique DEF InboundTruthful
<1> QED BY <1>1, <1>2, <1>3, <1>4, <1>5

(* A CPU that reports itself down is no longer outbound.                     *)
LEMMA CpuDownInv ==
  ASSUME MInv, NEW c \in CPU, CpuDown(c) PROVE ProtocolInv'
<1> USE DEF MInv, TypeOK, ProtocolInv, PC, Entering, TearingDown, Outbound, SettingUp, FirstMan,
  Uncommitted, ComingUp, Up, Goto, SetCpu, CpuDown, vvars, syncVars
<1>1. CpuStateTruthful' /\ LockProtocol'
  <2>1. CpuStateTruthful'
    BY DEF CpuStateTruthful
  <2>2. LockProtocol'
    BY DEF LockProtocol
  <2> QED BY <2>1, <2>2
<1>2. OneOutbound'
  BY DEF OneOutbound, DownUnused
<1>3. ScannedUncommitted' /\ TeardownExclusive'
  BY DEF ScannedUncommitted, TeardownExclusive, OneOutbound, CpuStateTruthful
<1>4. DownUnused' /\ CoherencyTracked'
  <2>1. DownUnused'
    BY DEF DownUnused
  <2>2. CoherencyTracked'
    BY DEF CoherencyTracked
  <2> QED BY <2>1, <2>2
<1>5. InboundTruthful'
  BY FirstManUnique DEF InboundTruthful
<1> QED BY <1>1, <1>2, <1>3, <1>4, <1>5

(* A CPU at the entry point is still CPU_DOWN for the others.                *)
LEMMA WakeInv ==
  ASSUME MInv, NEW c \in CPU, Wake(c) PROVE ProtocolInv'
<1> USE DEF MInv, TypeOK, ProtocolInv, PC, Entering, TearingDown, Outbound, SettingUp, FirstMan,
  Uncommitted, ComingUp, Up, Goto, SetCpu, Wake, vvars, syncVars
<1>1. CpuStateTruthful' /\ LockProtocol'
  <2>1. CpuStateTruthful'
    BY DEF CpuStateTruthful
  <2>2. LockProtocol'
    BY DEF LockProtocol, VTypeOK, VPC
  <2> QED BY <2>1, <2>2
<1>2. OneOutbound'
  BY DEF OneOutbound, DownUnused
<1>3. ScannedUncommitted' /\ TeardownExclusive'
  BY DEF ScannedUncommitted, TeardownExclusive, OneOutbound, CpuStateTruthful
<1>4. DownUnused' /\ CoherencyTracked'
  BY FirstManUnique DEF DownUnused, CoherencyTracked, OneOutbound,
    TeardownExclusive
<1>5. InboundTruthful'
  BY FirstManUnique DEF InboundTruthful
<1> QED BY <1>1, <1>2, <1>3, <1>4, <1>5

(* A CPU may announce itself at any time: it is not committed yet.           *)
LEMMA McpmEntryPointInv ==
  ASSUME MInv, NEW c \in CPU, McpmEntryPoint(c) PROVE ProtocolInv'
<1> USE DEF MInv, TypeOK, ProtocolInv, PC, Entering, TearingDown, Outbound, SettingUp, FirstMan,
  Uncommitted, ComingUp, Up, Goto, SetCpu, McpmEntryPoint, vvars, syncVars
<1>1. CpuStateTruthful' /\ LockProtocol'
  <2>1. CpuStateTruthful'
    BY DEF CpuStateTruthful
  <2>2. LockProtocol'
    BY DEF LockProtocol, VTypeOK, VPC
  <2> QED BY <2>1, <2>2
<1>2. OneOutbound'
  BY DEF OneOutbound, DownUnused
<1>3. ScannedUncommitted' /\ TeardownExclusive'
  BY DEF ScannedUncommitted, TeardownExclusive, OneOutbound, CpuStateTruthful
<1>4. DownUnused' /\ CoherencyTracked'
  BY FirstManUnique DEF DownUnused, CoherencyTracked, OneOutbound,
    TeardownExclusive
<1>5. InboundTruthful'
  BY FirstManUnique DEF InboundTruthful
<1> QED BY <1>1, <1>2, <1>3, <1>4, <1>5

(* Voting changes nothing but the lock.                                      *)
LEMMA FirstManTrylockInv ==
  ASSUME MInv, NEW c \in CPU, FirstManTrylock(c) PROVE ProtocolInv'
<1> USE DEF MInv, TypeOK, ProtocolInv, PC, Entering, TearingDown, Outbound, SettingUp, FirstMan,
  Uncommitted, ComingUp, Up, Goto, SetCpu, FirstManTrylock, vvars, syncVars
<1>0. \A d \in CPU \ {c} : vpc'[d] = vpc[d]
  BY DEF VInv, VTypeOK, VotingBegin, TrylockStep, CheckOwner, SubmitVote,
         VotingEnd, VotingWait, CheckResult, VGoto
<1>1. CpuStateTruthful' /\ LockProtocol'
  <2>1. CpuStateTruthful'
    BY <1>0 DEF CpuStateTruthful
  <2>2. LockProtocol'
    BY <1>0 DEF LockProtocol
  <2> QED BY <2>1, <2>2
<1>2. OneOutbound'
  BY DEF OneOutbound, DownUnused
<1>3. ScannedUncommitted' /\ TeardownExclusive'
  BY DEF ScannedUncommitted, TeardownExclusive, OneOutbound, CpuStateTruthful
<1>4. DownUnused' /\ CoherencyTracked'
  BY FirstManUnique DEF DownUnused, CoherencyTracked, OneOutbound,
    TeardownExclusive
<1>5. InboundTruthful'
  BY FirstManUnique DEF InboundTruthful
<1> QED BY <1>1, <1>2, <1>3, <1>4, <1>5

(* The losers give up the lock before they wait.                             *)
LEMMA NotFirstManInv ==
  ASSUME MInv, NEW c \in CPU, NotFirstMan(c) PROVE ProtocolInv'
<1> USE DEF MInv, TypeOK, ProtocolInv, PC, Entering, TearingDown, Outbound, SettingUp, FirstMan,
  Uncommitted, ComingUp, Up, Goto, SetCpu, NotFirstMan, vvars, syncVars
<1>1. CpuStateTruthful' /\ LockProtocol'
  <2>1. CpuStateTruthful'
    BY DEF CpuStateTruthful
  <2>2. LockProtocol'
    BY DEF LockProtocol, VTypeOK, VPC, TrylockLost, VGoto
  <2> QED BY <2>1, <2>2
<1>2. OneOutbound'
  BY DEF OneOutbound, DownUnused
<1>3. ScannedUncommitted' /\ TeardownExclusive'
  BY DEF ScannedUncommitted, TeardownExclusive, OneOutbound, CpuStateTruthful
<1>4. DownUnused' /\ CoherencyTracked'
  BY FirstManUnique DEF DownUnused, CoherencyTracked, OneOutbound,
    TeardownExclusive
<1>5. InboundTruthful'
  BY FirstManUnique DEF InboundTruthful
<1> QED BY <1>1, <1>2, <1>3, <1>4, <1>5

(* The first man skips the setup only of a cluster that is up.               *)
LEMMA FirstManCheckInv ==
  ASSUME MInv, NEW c \in CPU, FirstManCheck(c) PROVE ProtocolInv'
<1> USE DEF MInv, TypeOK, ProtocolInv, PC, Entering, TearingDown, Outbound, SettingUp, FirstMan,
  Uncommitted, ComingUp, Up, Goto, SetCpu, FirstManCheck, vvars, syncVars
<1>1. CpuStateTruthful' /\ LockProtocol'
  <2>1. CpuStateTruthful'
    BY DEF CpuStateTruthful
  <2>2. LockProtocol'
    BY DEF LockProtocol, VTypeOK, VPC
  <2> QED BY <2>1, <2>2
<1>2. OneOutbound'
  BY DEF OneOutbound, DownUnused
<1>3. ScannedUncommitted' /\ TeardownExclusive'
  BY DEF ScannedUncommitted, TeardownExclusive, OneOutbound, CpuStateTruthful
<1>4. DownUnused' /\ CoherencyTracked'
  BY FirstManUnique DEF DownUnused, CoherencyTracked, OneOutbound,
    TeardownExclusive
<1>5. InboundTruthful'
  BY FirstManUnique DEF InboundTruthful
<1> QED BY <1>1, <1>2, <1>3, <1>4, <1>5

(* Raising the inbound flag: only the first man does.                        *)
LEMMA McpmSetupInv ==
  ASSUME MInv, NEW c \in CPU, McpmSetup(c) PROVE ProtocolInv'
<1> USE DEF MInv, TypeOK, ProtocolInv, PC, Entering, TearingDown, Outbound, SettingUp, FirstMan,
  Uncommitted, ComingUp, Up, Goto, SetCpu, McpmSetup, vvars, syncVars
<1>1. CpuStateTruthful' /\ LockProtocol'
  <2>1. CpuStateTruthful'
    BY DEF CpuStateTruthful
  <2>2. LockProtocol'
    BY DEF LockProtocol, VTypeOK, VPC
  <2> QED BY <2>1, <2>2
<1>2. OneOutbound'
  BY DEF OneOutbound, DownUnused
<1>3. ScannedUncommitted' /\ TeardownExclusive'
  BY DEF ScannedUncommitted, TeardownExclusive, OneOutbound, CpuStateTruthful
<1>4. DownUnused' /\ CoherencyTracked'
  <2>1. DownUnused'
    BY DEF DownUnused
  <2>2. CoherencyTracked'
    BY DEF CoherencyTracked
  <2> QED BY <2>1, <2>2
<1>5. InboundTruthful'
  BY FirstManUnique DEF InboundTruthful
<1> QED BY <1>1, <1>2, <1>3, <1>4, <1>5

(* The wait ends with a cluster that is up and coherent, or down and         *)
(* unused.                                                                   *)
LEMMA McpmTeardownWaitInv ==
  ASSUME MInv, NEW c \in CPU, McpmTeardownWait(c) PROVE ProtocolInv'
<1> USE DEF MInv, TypeOK, ProtocolInv, PC, Entering, TearingDown, Outbound, SettingUp, FirstMan,
  Uncommitted, ComingUp, Up, Goto, SetCpu, McpmTeardownWait, vvars, syncVars
<1>1. CpuStateTruthful' /\ LockProtocol'
  <2>1. CpuStateTruthful'
    BY DEF CpuStateTruthful
  <2>2. LockProtocol'
    BY DEF LockProtocol, VTypeOK, VPC
  <2> QED BY <2>1, <2>2
<1>2. OneOutbound'
  BY DEF OneOutbound, DownUnused
<1>3. ScannedUncommitted' /\ TeardownExclusive'
  BY DEF ScannedUncommitted, TeardownExclusive, OneOutbound, CpuStateTruthful
<1>4. DownUnused' /\ CoherencyTracked'
  <2>1. CASE cluster = "CLUSTER_UP"
    BY <2>1 DEF DownUnused, CoherencyTracked
  <2>2. CASE cluster = "CLUSTER_DOWN"
    BY <2>2 DEF DownUnused, CoherencyTracked
  <2> QED BY <2>1, <2>2 DEF ClusterState
<1>5. InboundTruthful'
  BY FirstManUnique DEF InboundTruthful
<1> QED BY <1>1, <1>2, <1>3, <1>4, <1>5

(* power_up_setup(1) makes the cluster coherent before it is reported up.    *)
LEMMA FirstManSetupInv ==
  ASSUME MInv, NEW c \in CPU, FirstManSetup(c) PROVE ProtocolInv'
<1> USE DEF MInv, TypeOK, ProtocolInv, PC, Entering, TearingDown, Outbound, SettingUp, FirstMan,
  Uncommitted, ComingUp, Up, Goto, SetCpu, FirstManSetup, vvars, syncVars
<1>1. CpuStateTruthful' /\ LockProtocol'
  <2>1. CpuStateTruthful'
    BY DEF CpuStateTruthful
  <2>2. LockProtocol'
    BY DEF LockProtocol, VTypeOK, VPC
  <2> QED BY <2>1, <2>2
<1>2. OneOutbound'
  BY DEF OneOutbound, DownUnused
<1>3. ScannedUncommitted' /\ TeardownExclusive'
  BY DEF ScannedUncommitted, TeardownExclusive, OneOutbound, CpuStateTruthful
<1>4. DownUnused' /\ CoherencyTracked'
  BY FirstManUnique DEF DownUnused, CoherencyTracked, OneOutbound,
    TeardownExclusive
<1>5. InboundTruthful'
  BY FirstManUnique DEF InboundTruthful
<1> QED BY <1>1, <1>2, <1>3, <1>4, <1>5

(* The cluster comes up coherent, with no outbound CPU about.                *)
LEMMA SetClusterUpInv ==
  ASSUME MInv, NEW c \in CPU, SetClusterUp(c) PROVE ProtocolInv'
<1> USE DEF MInv, TypeOK, ProtocolInv, PC, Entering, TearingDown, Outbound, SettingUp, FirstMan,
  Uncommitted, ComingUp, Up, Goto, SetCpu, SetClusterUp, vvars, syncVars
<1>1. CpuStateTruthful' /\ LockProtocol'
  <2>1. CpuStateTruthful'
    BY DEF CpuStateTruthful
  <2>2. LockProtocol'
    BY DEF LockProtocol, VTypeOK, VPC
  <2> QED BY <2>1, <2>2
<1>2. OneOutbound'
  BY DEF OneOutbound, DownUnused
<1>3. ScannedUncommitted' /\ TeardownExclusive'
  BY DEF ScannedUncommitted, TeardownExclusive, OneOutbound, CpuStateTruthful
<1>4. DownUnused' /\ CoherencyTracked'
  BY FirstManUnique DEF DownUnused, CoherencyTracked, OneOutbound,
    TeardownExclusive
<1>5. InboundTruthful'
  BY FirstManUnique DEF InboundTruthful
<1> QED BY <1>1, <1>2, <1>3, <1>4, <1>5

(* Lowering the inbound flag: no other first man has raised it.              *)
LEMMA McpmSetupLeaveInv ==
  ASSUME MInv, NEW c \in CPU, McpmSetupLeave(c) PROVE ProtocolInv'
<1> USE DEF MInv, TypeOK, ProtocolInv, PC, Entering, TearingDown, Outbound, SettingUp, FirstMan,
  Uncommitted, ComingUp, Up, Goto, SetCpu, McpmSetupLeave, vvars, syncVars
<1>0. cluster # "CLUSTER_DOWN" /\ \A d \in CPU : pc[d] \notin TearingDown
  BY CommittedFacts
<1>1. CpuStateTruthful' /\ LockProtocol'
  <2>1. CpuStateTruthful'
    BY DEF CpuStateTruthful
  <2>2. LockProtocol'
    BY DEF LockProtocol, VTypeOK, VPC
  <2> QED BY <2>1, <2>2
<1>2. OneOutbound'
  BY DEF OneOutbound, DownUnused
<1>3. ScannedUncommitted' /\ TeardownExclusive'
  BY <1>0 DEF ScannedUncommitted, TeardownExclusive, OneOutbound, CpuStateTruthful
<1>4. DownUnused' /\ CoherencyTracked'
  BY <1>0, FirstManUnique DEF DownUnused, CoherencyTracked, OneOutbound,
    TeardownExclusive
<1>5. InboundTruthful'
  BY FirstManUnique DEF InboundTruthful
<1> QED BY <1>1, <1>2, <1>3, <1>4, <1>5

(* The first man releases the lock with the cluster up, or in an attempt to  *)
(* take it down that will abort.                                             *)
LEMMA FirstManUnlockInv ==
  ASSUME MInv, NEW c \in CPU, FirstManUnlock(c) PROVE ProtocolInv'
<1> USE DEF MInv, TypeOK, ProtocolInv, PC, Entering, TearingDown, Outbound, SettingUp, FirstMan,
  Uncommitted, ComingUp, Up, Goto, SetCpu, FirstManUnlock, vvars, syncVars
<1>0. cluster # "CLUSTER_DOWN" /\ \A d \in CPU : pc[d] \notin TearingDown
  BY CommittedFacts
<1>1. CpuStateTruthful' /\ LockProtocol'
  <2>1. CpuStateTruthful'
    BY DEF CpuStateTruthful
  <2>2. LockProtocol'
    BY DEF LockProtocol, VTypeOK, VPC, VlockUnlock, VGoto
  <2> QED BY <2>1, <2>2
<1>2. OneOutbound'
  BY DEF OneOutbound, DownUnused
<1>3. ScannedUncommitted' /\ TeardownExclusive'
  BY <1>0 DEF ScannedUncommitted, TeardownExclusive, OneOutbound, CpuStateTruthful
<1>4. DownUnused' /\ CoherencyTracked'
  BY <1>0, FirstManUnique DEF DownUnused, CoherencyTracked, OneOutbound,
    TeardownExclusive
<1>5. InboundTruthful'
  BY FirstManUnique DEF InboundTruthful
<1> QED BY <1>1, <1>2, <1>3, <1>4, <1>5

(* The losers go on once the cluster is up.                                  *)
LEMMA McpmSetupWaitInv ==
  ASSUME MInv, NEW c \in CPU, McpmSetupWait(c) PROVE ProtocolInv'
<1> USE DEF MInv, TypeOK, ProtocolInv, PC, Entering, TearingDown, Outbound, SettingUp, FirstMan,
  Uncommitted, ComingUp, Up, Goto, SetCpu, McpmSetupWait, vvars, syncVars
<1>1. CpuStateTruthful' /\ LockProtocol'
  <2>1. CpuStateTruthful'
    BY DEF CpuStateTruthful
  <2>2. LockProtocol'
    BY DEF LockProtocol, VTypeOK, VPC
  <2> QED BY <2>1, <2>2
<1>2. OneOutbound'
  BY DEF OneOutbound, DownUnused
<1>3. ScannedUncommitted' /\ TeardownExclusive'
  BY DEF ScannedUncommitted, TeardownExclusive, OneOutbound, CpuStateTruthful
<1>4. DownUnused' /\ CoherencyTracked'
  BY FirstManUnique DEF DownUnused, CoherencyTracked, OneOutbound,
    TeardownExclusive
<1>5. InboundTruthful'
  BY FirstManUnique DEF InboundTruthful
<1> QED BY <1>1, <1>2, <1>3, <1>4, <1>5

(* A CPU reports itself up only after it has committed.                      *)
LEMMA McpmSetupCompleteInv ==
  ASSUME MInv, NEW c \in CPU, McpmSetupComplete(c) PROVE ProtocolInv'
<1> USE DEF MInv, TypeOK, ProtocolInv, PC, Entering, TearingDown, Outbound, SettingUp, FirstMan,
  Uncommitted, ComingUp, Up, Goto, SetCpu, McpmSetupComplete, vvars, syncVars
<1>0. cluster # "CLUSTER_DOWN" /\ \A d \in CPU : pc[d] \notin TearingDown
  BY CommittedFacts
<1>1. CpuStateTruthful' /\ LockProtocol'
  <2>1. CpuStateTruthful'
    BY DEF CpuStateTruthful
  <2>2. LockProtocol'
    BY DEF LockProtocol
  <2> QED BY <2>1, <2>2
<1>2. OneOutbound'
  BY DEF OneOutbound, DownUnused
<1>3. ScannedUncommitted' /\ TeardownExclusive'
  BY <1>0 DEF ScannedUncommitted, TeardownExclusive, OneOutbound, CpuStateTruthful
<1>4. DownUnused' /\ CoherencyTracked'
  BY <1>0, FirstManUnique DEF DownUnused, CoherencyTracked, OneOutbound,
    TeardownExclusive
<1>5. InboundTruthful'
  BY FirstManUnique DEF InboundTruthful
<1> QED BY <1>1, <1>2, <1>3, <1>4, <1>5

(* Opening the gate changes no shared state.                                 *)
LEMMA McpmEntryGatedInv ==
  ASSUME MInv, NEW c \in CPU, McpmEntryGated(c) PROVE ProtocolInv'
<1> USE DEF MInv, TypeOK, ProtocolInv, PC, Entering, TearingDown, Outbound, SettingUp, FirstMan,
  Uncommitted, ComingUp, Up, Goto, SetCpu, McpmEntryGated, vvars, syncVars
<1>0. cluster # "CLUSTER_DOWN" /\ \A d \in CPU : pc[d] \notin TearingDown
  BY CommittedFacts
<1>1. CpuStateTruthful' /\ LockProtocol'
  <2>1. CpuStateTruthful'
    BY DEF CpuStateTruthful
  <2>2. LockProtocol'
    BY DEF LockProtocol, VTypeOK, VPC
  <2> QED BY <2>1, <2>2
<1>2. OneOutbound'
  BY DEF OneOutbound, DownUnused
<1>3. ScannedUncommitted' /\ TeardownExclusive'
  BY <1>0 DEF ScannedUncommitted, TeardownExclusive, OneOutbound, CpuStateTruthful
<1>4. DownUnused' /\ CoherencyTracked'
  BY <1>0, FirstManUnique DEF DownUnused, CoherencyTracked, OneOutbound,
    TeardownExclusive
<1>5. InboundTruthful'
  BY FirstManUnique DEF InboundTruthful
<1> QED BY <1>1, <1>2, <1>3, <1>4, <1>5

(* Nor does the housekeeping, at this level.                                 *)
LEMMA PoweredUpInv ==
  ASSUME MInv, NEW c \in CPU, PoweredUp(c) PROVE ProtocolInv'
<1> USE DEF MInv, TypeOK, ProtocolInv, PC, Entering, TearingDown, Outbound, SettingUp, FirstMan,
  Uncommitted, ComingUp, Up, Goto, SetCpu, PoweredUp, EnterKernel, vvars, syncVars
<1>0. cluster # "CLUSTER_DOWN" /\ \A d \in CPU : pc[d] \notin TearingDown
  BY CommittedFacts
<1>1. CpuStateTruthful' /\ LockProtocol'
  <2>1. CpuStateTruthful'
    BY DEF CpuStateTruthful
  <2>2. LockProtocol'
    BY DEF LockProtocol, VTypeOK, VPC
  <2> QED BY <2>1, <2>2
<1>2. OneOutbound'
  BY DEF OneOutbound, DownUnused
<1>3. ScannedUncommitted' /\ TeardownExclusive'
  BY <1>0 DEF ScannedUncommitted, TeardownExclusive, OneOutbound, CpuStateTruthful
<1>4. DownUnused' /\ CoherencyTracked'
  BY <1>0, FirstManUnique DEF DownUnused, CoherencyTracked, OneOutbound,
    TeardownExclusive
<1>5. InboundTruthful'
  BY FirstManUnique DEF InboundTruthful
<1> QED BY <1>1, <1>2, <1>3, <1>4, <1>5

-----------------------------------------------------------------------------
(* Whoever the owner byte names is on its way in. *)
LEMMA OwnerComing ==
  ASSUME MInv, owner # NONE PROVE owner \in CPU /\ pc[owner] \in {"trylock"} \cup FirstMan
BY DEF MInv, ProtocolInv, TypeOK, VInv, VTypeOK, OwnerClaims, LockProtocol

(* Those on the way to the kernel, who make the last man give up. *)
Committing == {"setup_leave", "unlock", "skip", "complete", "gated", "resumed"}

(* A step that strands nobody: unless it leaves the cluster up, it makes no  *)
(* new losers, and drops neither a rescuer nor the last man from his search, *)
(* nor passes a loser in it.                                                 *)
StrandsNobody ==
  /\ cluster # "CLUSTER_UP"
  /\ \A c \in CPU : Losing(c)' => Losing(c)
  /\ \A d \in CPU : Rescuer(d) => Rescuer(d)'
  /\ \A d \in CPU : pc[d] \in Entering => pc'[d] \in Entering
  /\ \A o, c \in CPU : pc'[o] = "oe_scan" /\ c < scan'[o] /\ c # o /\ Losing(c)'
                         => pc[o] = "oe_scan" /\ c < scan[o]
  /\ \A o, d \in CPU : pc'[o] = "oe_scan" /\ pc[d] \in Committing => pc'[d] \in Committing

(* Such a step keeps the losers rescued. *)
LEMMA LosersFrame ==
  ASSUME LosersRescued, OneOutbound', cluster' # "CLUSTER_UP" => StrandsNobody
  PROVE  LosersRescued'
<1>1. CASE cluster' = "CLUSTER_UP"
  BY <1>1 DEF LosersRescued, OneOutbound, Outbound, Entering
<1>2. CASE cluster' # "CLUSTER_UP"
  <2> SUFFICES ASSUME NEW c \in CPU, Losing(c)'
               PROVE  /\ \E d \in CPU : pc'[d] \in Entering \/ Rescuer(d)'
                      /\ \A o \in CPU : pc'[o] = "oe_scan" /\ c < scan'[o] /\ c # o =>
                           \E d \in CPU : Rescuer(d)' \/ pc'[d] \in Committing
    BY DEF LosersRescued, Committing
  <2>1. \E d \in CPU : pc'[d] \in Entering \/ Rescuer(d)'
    BY <1>2 DEF LosersRescued, StrandsNobody
  <2>2. ASSUME NEW o \in CPU, pc'[o] = "oe_scan", c < scan'[o], c # o
        PROVE  \E d \in CPU : Rescuer(d)' \/ pc'[d] \in Committing
    <3>1. \E d \in CPU : Rescuer(d) \/ pc[d] \in Committing
      BY <1>2, <2>2 DEF LosersRescued, StrandsNobody, Committing
    <3> QED BY <1>2, <2>2, <3>1 DEF StrandsNobody
  <2> QED BY <2>1, <2>2
<1> QED BY <1>1, <1>2

(* Every step leaves the losers of the election somebody to rely on. *)
LEMMA LosersStep ==
  ASSUME MInv, ProtocolInv', VInv', NEW a \in CPU,
         GoingDown(a) \/ OutboundStep(a) \/ Wake(a) \/ InboundStep(a)
  PROVE  LosersRescued'
<1>0. /\ LosersRescued /\ OneOutbound' /\ OneOutbound /\ CpuStateTruthful /\ LockProtocol
      /\ pc \in [CPU -> PC] /\ scan \in [CPU -> 0 .. N] /\ cluster \in ClusterState
      /\ vpc \in [CPU -> VPC] /\ CPU \subseteq Nat
      /\ \A o \in CPU : pc[o] # "oe_scan" => scan[o] = 0
      /\ \A c \in CPU : vpc[c] = "held" => owner = c
  BY DEF MInv, TypeOK, VInv, VTypeOK, ProtocolInv, ScannedUncommitted, ElectionClosed
<1> DEFINE Goal == cluster' # "CLUSTER_UP" => StrandsNobody
<1>1. ASSUME GoingDown(a) PROVE Goal
  BY <1>0, <1>1 DEF GoingDown, StrandsNobody, Losing, Rescuer, Committing, Goto, SetCpu, syncVars,
    vvars, Entering, SettingUp, Outbound, OneOutbound
<1>2. ASSUME CheckInbound(a) PROVE Goal
  BY <1>0, <1>2 DEF CheckInbound, StrandsNobody, Losing, Rescuer, Committing, Goto, SetCpu, syncVars,
    vvars, Entering, SettingUp, Outbound, OneOutbound
<1>3. ASSUME ScanAbort(a) PROVE Goal
  BY <1>0, <1>3 DEF ScanAbort, StrandsNobody, Losing, Rescuer, Committing, Goto, SetCpu, syncVars,
    vvars, Entering, SettingUp, Outbound, OneOutbound
<1>4. ASSUME OutboundAbort(a) PROVE Goal
  BY <1>0, <1>4 DEF OutboundAbort, StrandsNobody, Losing, Rescuer, Committing, Goto, SetCpu, syncVars,
    vvars, Entering, SettingUp, Outbound, OneOutbound
<1>5. ASSUME ClusterTeardown(a) PROVE Goal
  BY <1>0, <1>5 DEF ClusterTeardown, StrandsNobody, Losing, Rescuer, Committing, Goto, SetCpu, syncVars,
    vvars, Entering, SettingUp, Outbound, OneOutbound
<1>6. ASSUME LeaveCritical(a) PROVE Goal
  BY <1>0, <1>6 DEF LeaveCritical, StrandsNobody, Losing, Rescuer, Committing, Goto, SetCpu, syncVars,
    vvars, Entering, SettingUp, Outbound, OneOutbound, TearingDown
<1>7. ASSUME CpuDown(a) PROVE Goal
  BY <1>0, <1>7 DEF CpuDown, StrandsNobody, Losing, Rescuer, Committing, Goto, SetCpu, syncVars,
    vvars, Entering, SettingUp, Outbound, OneOutbound
<1>8. ASSUME Wake(a) PROVE Goal
  BY <1>0, <1>8 DEF Wake, StrandsNobody, Losing, Rescuer, Committing, Goto, SetCpu, syncVars,
    vvars, Entering, SettingUp, Outbound, OneOutbound
<1>9. ASSUME McpmEntryPoint(a) PROVE Goal
  BY <1>0, <1>9 DEF McpmEntryPoint, StrandsNobody, Losing, Rescuer, Committing, Goto, SetCpu, syncVars,
    vvars, Entering, SettingUp, Outbound, OneOutbound, LockProtocol, FirstMan
<1>10. ASSUME McpmSetup(a) PROVE Goal
  BY <1>0, <1>10 DEF McpmSetup, StrandsNobody, Losing, Rescuer, Committing, Goto, SetCpu, syncVars,
    vvars, Entering, SettingUp, Outbound, OneOutbound
<1>11. ASSUME FirstManCheck(a) PROVE Goal
  BY <1>0, <1>11 DEF FirstManCheck, StrandsNobody, Losing, Rescuer, Committing, Goto, SetCpu, syncVars,
    vvars, Entering, SettingUp, Outbound, OneOutbound, LockProtocol, FirstMan
<1>12. ASSUME McpmTeardownWait(a) PROVE Goal
  BY <1>0, <1>12 DEF McpmTeardownWait, StrandsNobody, Losing, Rescuer, Committing, Goto, SetCpu, syncVars,
    vvars, Entering, SettingUp, Outbound, OneOutbound
<1>13. ASSUME FirstManSetup(a) PROVE Goal
  BY <1>0, <1>13 DEF FirstManSetup, StrandsNobody, Losing, Rescuer, Committing, Goto, SetCpu, syncVars,
    vvars, Entering, SettingUp, Outbound, OneOutbound
<1>14. ASSUME SetClusterUp(a) PROVE Goal
  BY <1>0, <1>14 DEF SetClusterUp, StrandsNobody, Losing, Rescuer, Committing, Goto, SetCpu, syncVars,
    vvars, Entering, SettingUp, Outbound, OneOutbound
<1>15. ASSUME McpmSetupLeave(a) PROVE Goal
  BY <1>0, <1>15 DEF McpmSetupLeave, StrandsNobody, Losing, Rescuer, Committing, Goto, SetCpu, syncVars,
    vvars, Entering, SettingUp, Outbound, OneOutbound
<1>16. ASSUME McpmSetupWait(a) PROVE Goal
  BY <1>0, <1>16 DEF McpmSetupWait, StrandsNobody, Losing, Rescuer, Committing, Goto, SetCpu, syncVars,
    vvars, Entering, SettingUp, Outbound, OneOutbound
<1>17. ASSUME McpmSetupComplete(a) PROVE Goal
  BY <1>0, <1>17 DEF McpmSetupComplete, StrandsNobody, Losing, Rescuer, Committing, Goto, SetCpu, syncVars,
    vvars, Entering, SettingUp, Outbound, OneOutbound
<1>18. ASSUME McpmEntryGated(a) PROVE Goal
  BY <1>0, <1>18 DEF McpmEntryGated, StrandsNobody, Losing, Rescuer, Committing, Goto, SetCpu, syncVars,
    vvars, Entering, SettingUp, Outbound, OneOutbound
<1>19. ASSUME NotFirstMan(a) PROVE Goal
  <2>1. owner # a /\ owner' = owner /\ Losing(a)
    BY <1>19, NoneAssumption DEF NotFirstMan, TrylockLost, VGoto, Goto, MInv, VInv, OwnerClaims, Losing
  <2>2. \A c \in CPU \ {a} : pc'[c] = pc[c] /\ vpc'[c] = vpc[c]
    BY <1>0, <1>19 DEF NotFirstMan, TrylockLost, VGoto, Goto
  <2>3. pc[a] = "trylock" /\ pc'[a] = "setup_wait" /\ UNCHANGED <<cluster, scan>>
    BY <1>0, <1>19 DEF NotFirstMan, Goto, syncVars
  <2> QED BY <1>0, <2>1, <2>2, <2>3 DEF StrandsNobody, Losing, Rescuer, Committing, Entering, SettingUp
<1>20. ASSUME PoweredUp(a) PROVE Goal
  BY <1>0, <1>20 DEF PoweredUp, EnterKernel, StrandsNobody, Losing, Rescuer, Committing, Goto, SetCpu, syncVars,
    vvars, Entering, SettingUp, Outbound, OneOutbound
<1>21. ASSUME ScanNext(a) PROVE Goal
  <2>1. \A c \in CPU : c < scan'[a] /\ c # a /\ Losing(c)' => c < scan[a]
    BY <1>0, <1>21 DEF ScanNext, Losing, syncVars, vvars, CpuStateTruthful
  <2> QED BY <1>0, <1>21, <2>1 DEF ScanNext, StrandsNobody, Losing, Rescuer, syncVars, vvars
<1>30. ASSUME EnterCritical(a) PROVE LosersRescued'
  BY <1>0, <1>30 DEF EnterCritical, WarnInbound, LosersRescued, Goto, Entering, Outbound
<1>31. ASSUME ScanDone(a) PROVE LosersRescued'
  <2>1. \A d \in CPU \ {a} : pc[d] \in Uncommitted \ SettingUp
    BY <1>0, <1>31 DEF ScanDone, Goto, MInv, ProtocolInv, ScannedUncommitted
  <2>2. ASSUME NEW c \in CPU, Losing(c)' PROVE \E d \in CPU : Rescuer(d)'
    <3>1. Losing(c) /\ c # a
      BY <1>0, <1>31, <2>2 DEF ScanDone, Goto, Losing, vvars
    <3>2. PICK d \in CPU : Rescuer(d) \/ pc[d] \in Committing
      BY <1>0, <1>31, <3>1 DEF ScanDone, Goto, LosersRescued, Committing
    <3>3. d # a /\ Rescuer(d)
      BY <1>31, <2>1, <3>2 DEF ScanDone, Goto, Rescuer, Committing, Uncommitted, SettingUp
    <3> QED BY <1>31, <3>3 DEF ScanDone, Goto, Rescuer, vvars
  <2>3. \A o \in CPU : pc'[o] # "oe_scan"
    BY <1>0, <1>31 DEF ScanDone, Goto, OneOutbound, Outbound, Entering
  <2> QED BY <2>2, <2>3 DEF LosersRescued
<1>32. ASSUME FirstManUnlock(a) PROVE LosersRescued'
  <2>1. cluster # "CLUSTER_DOWN" /\ \A d \in CPU : pc[d] \notin TearingDown
    BY <1>32, CommittedFacts DEF FirstManUnlock, Goto, Uncommitted, TearingDown, SettingUp
  <2>2. pc'[a] = "complete" /\ UNCHANGED <<cluster, scan>>
    BY <1>0, <1>32 DEF FirstManUnlock, Goto, syncVars
  <2>3. cluster' # "CLUSTER_UP" => \E d \in CPU : pc'[d] \in Entering
    BY <1>0, <1>32, <2>1, <2>2 DEF FirstManUnlock, Goto, ClusterState, OneOutbound, Outbound, Entering
  <2> QED BY <2>2, <2>3 DEF LosersRescued
<1>33. ASSUME FirstManTrylock(a) PROVE LosersRescued'
  <2>0. UNCHANGED <<pc, cluster, scan>> /\ pc[a] = "trylock"
    BY <1>33 DEF FirstManTrylock, syncVars
  <2>1. CASE SubmitVote(a)
    BY <2>0, <2>1 DEF SubmitVote, LosersRescued, Rescuer
  <2>2. CASE CheckOwner(a) /\ owner # NONE
    <3>1. owner \in CPU /\ pc[owner] \in {"trylock"} \cup FirstMan /\ owner' = owner
      BY <2>2, OwnerComing DEF CheckOwner
    <3>2. Rescuer(owner)' \/ pc'[owner] \in Committing
      BY <2>0, <3>1 DEF Rescuer, Committing, FirstMan
    <3>3. cluster' # "CLUSTER_UP" => \E d \in CPU : pc'[d] \in Entering \/ Rescuer(d)'
      <4>1. CASE pc[owner] \in Committing
        <5>1. cluster # "CLUSTER_DOWN" /\ \A d \in CPU : pc[d] \notin TearingDown
          BY <3>1, <4>1, CommittedFacts DEF Committing, Uncommitted, TearingDown, SettingUp
        <5> QED BY <1>0, <2>0, <5>1 DEF ClusterState, OneOutbound, Outbound
      <4>2. CASE pc[owner] \notin Committing
        BY <2>0, <3>1, <3>2, <4>2
      <4> QED BY <4>1, <4>2
    <3> QED BY <3>1, <3>2, <3>3 DEF LosersRescued, Committing
  <2>3. CASE VotingBegin(a) \/ (CheckOwner(a) /\ owner = NONE) \/ VotingEnd(a) \/ VotingWait(a) \/ CheckResult(a)
    <3>1. owner' = owner
      BY <2>3 DEF VotingBegin, CheckOwner, VotingEnd, VotingWait, CheckResult
    <3>2. \A c \in CPU : Losing(c)' => Losing(c)
      BY <1>0, <2>0, <2>3, <3>1 DEF Losing, VGoto, VotingBegin, CheckOwner, VotingEnd, VotingWait, CheckResult
    <3>3. \A d \in CPU : Rescuer(d)' <=> Rescuer(d)
      BY <2>0, <3>1 DEF Rescuer
    <3> QED BY <1>0, <2>0, <3>2, <3>3 DEF LosersRescued
  <2> QED BY <1>33, <2>1, <2>2, <2>3 DEF FirstManTrylock, TrylockStep
<1>40. ASSUME Goal PROVE LosersRescued'
  BY <1>0, <1>40, LosersFrame
<1> HIDE DEF Goal
<1> QED BY <1>1, <1>2, <1>3, <1>4, <1>5, <1>6, <1>7, <1>8, <1>9, <1>10, <1>11, <1>12, <1>13, <1>14, <1>15, <1>16, <1>17, <1>18, <1>19, <1>20, <1>21,
  <1>30, <1>31, <1>32, <1>33, <1>40 DEF OutboundStep, InboundStep

-----------------------------------------------------------------------------
(* mcpm_sync_init establishes the invariant, for the boot cluster and for    *)
(* the others.                                                               *)
LEMMA McpmInitInv == MInit => MInv
<1> SUFFICES ASSUME MInit PROVE MInv
  OBVIOUS
<1> USE DEF MInit, McpmSyncInit
<1>1. VInv
  BY VInitInv
<1> USE DEF PC, Entering, TearingDown, Outbound, SettingUp, FirstMan,
            Uncommitted, ComingUp, Up
<1>2. TypeOK
  BY <1>1 DEF TypeOK, VInv, CpuState, ClusterState, InboundState
<1>3. ProtocolInv
  <2>1. CpuStateTruthful /\ LockProtocol
    BY DEF VInit, CpuStateTruthful, LockProtocol
  <2>2. OneOutbound /\ ScannedUncommitted /\ TeardownExclusive
    BY DEF OneOutbound, ScannedUncommitted, TeardownExclusive
  <2>3. DownUnused /\ CoherencyTracked /\ InboundTruthful
    BY DEF DownUnused, CoherencyTracked, InboundTruthful
  <2> QED BY <2>1, <2>2, <2>3 DEF ProtocolInv
<1>4. LosersRescued
  BY DEF LosersRescued, Losing
<1> QED BY <1>1, <1>2, <1>3, <1>4 DEF MInv

(* Every step preserves the invariant. *)
LEMMA McpmInvStep == MInv /\ [MNext]_mvars => MInv'
<1> SUFFICES ASSUME MInv, [MNext]_mvars PROVE MInv'
  OBVIOUS
<1>1. TypeOK'
  BY McpmTypeStep DEF MInv
<1>2. CASE UNCHANGED mvars
  <2>1. VInv'
    BY <1>2, VInvStep DEF MInv, mvars
  <2>2. ProtocolInv'
    BY <1>2 DEF MInv, ProtocolInv, mvars, vvars, CpuStateTruthful, LockProtocol,
      OneOutbound, ScannedUncommitted, TeardownExclusive, DownUnused,
      CoherencyTracked, InboundTruthful
  <2>3. LosersRescued'
    BY <1>2 DEF MInv, LosersRescued, Losing, Rescuer, mvars, vvars
  <2> QED BY <1>1, <2>1, <2>2, <2>3 DEF MInv
<1>3. CASE MNext
  <2>1. VInv'
    BY <1>3, McpmStepsVlock, VInvStep DEF MInv
  <2>2. PICK c \in CPU : GoingDown(c) \/ OutboundStep(c) \/ Wake(c) \/ InboundStep(c)
    BY <1>3 DEF MNext
  <2>3. ASSUME GoingDown(c) \/ OutboundStep(c) \/ Wake(c) PROVE ProtocolInv'
    BY <2>3, GoingDownInv, EnterCriticalInv, CheckInboundInv, ScanNextInv,
      ScanAbortInv, ScanDoneInv, OutboundAbortInv, ClusterTeardownInv,
      LeaveCriticalInv, CpuDownInv, WakeInv, <1>1, <2>1 DEF OutboundStep
  <2>4. ASSUME InboundStep(c) PROVE ProtocolInv'
    BY <2>4, McpmEntryPointInv, FirstManTrylockInv, NotFirstManInv,
      FirstManCheckInv, McpmSetupInv, McpmTeardownWaitInv, FirstManSetupInv,
      SetClusterUpInv, McpmSetupLeaveInv, FirstManUnlockInv, McpmSetupWaitInv,
      McpmSetupCompleteInv, McpmEntryGatedInv, PoweredUpInv, <1>1, <2>1
      DEF InboundStep
  <2>5. LosersRescued'
    BY <2>1, <2>2, <2>3, <2>4, LosersStep
  <2> QED BY <1>1, <2>1, <2>2, <2>3, <2>4, <2>5 DEF MInv
<1> QED BY <1>2, <1>3

(* MInv, every part of it, is an invariant of the protocol of mcpm_head.S    *)
(* and mcpm_entry.c, for any number of CPUs.                                 *)
THEOREM McpmInvariant == MSpec => []MInv
BY McpmInitInv, McpmInvStep, PTL DEF MSpec, MSafetySpec

(* mcpm_head.S and mcpm_entry.c keep their state well typed. *)
THEOREM McpmTypeCorrect == MSpec => []TypeOK
<1>1. MInv => TypeOK
  BY DEF MInv
<1> QED BY <1>1, McpmInvariant, PTL

(* Whatever the number of CPUs and however they interleave, a CPU that the   *)
(* scan of __mcpm_outbound_enter_critical has admitted to cluster teardown   *)
(* is alone: nobody depends on the cluster until it has left the critical    *)
(* section.                                                                  *)
THEOREM McpmTeardownExclusive == MSpec => []TeardownExclusive
<1>1. MInv => TeardownExclusive
  BY DEF MInv, ProtocolInv
<1> QED BY <1>1, McpmInvariant, PTL

(* No CPU gets past mcpm_entry_point into a cluster that is not coherent.    *)
THEOREM McpmCommittedCoherent == MSpec => []CommittedCoherent
<1>1. ASSUME MInv PROVE CommittedCoherent
  <2> SUFFICES ASSUME NEW c \in CPU, pc[c] \notin Uncommitted \cup {"torndown"}
               PROVE  coherent
    BY DEF CommittedCoherent
  <2>1. CASE pc[c] = "critical"
    BY <1>1, <2>1 DEF MInv, ProtocolInv, CoherencyTracked
  <2>2. CASE pc[c] # "critical"
    BY <1>1, <2>2, CommittedFacts DEF MInv, ProtocolInv, TypeOK, ClusterState,
      CoherencyTracked, OneOutbound, Outbound, TearingDown
  <2> QED BY <2>1, <2>2
<1> QED BY <1>1, McpmInvariant, PTL

(* Cluster setup runs on one CPU, and never beside a teardown. *)
THEOREM McpmSetupExclusive == MSpec => []SetupExclusive
<1>1. ASSUME MInv PROVE SetupExclusive
  BY <1>1, FirstManUnique DEF MInv, ProtocolInv, SetupExclusive, DownUnused,
    OneOutbound, FirstMan, SettingUp
<1> QED BY <1>1, McpmInvariant, PTL

(* Every step of the code on the cluster and inbound states is one of        *)
(* ClusterDiagramStep: in particular, a cluster that is down is left only    *)
(* with the inbound flag raised.                                             *)
THEOREM McpmClusterDiagram == MSpec => ClusterDiagram
<1>1. ASSUME MInv, [MNext]_mvars
      PROVE  [ClusterDiagramStep]_<<cluster, inbound>>
  <2> USE <1>1 DEF MInv, ProtocolInv, Goto, syncVars, ClusterDiagramStep
  <2>1. CASE UNCHANGED mvars
    BY <2>1 DEF mvars
  <2>2. ASSUME NEW c \in CPU, GoingDown(c) \/ OutboundStep(c) \/ Wake(c)
        PROVE  [ClusterDiagramStep]_<<cluster, inbound>>
    BY <2>2 DEF GoingDown, OutboundStep, Wake, EnterCritical, WarnInbound, CheckInbound,
      ScanNext, ScanAbort, ScanDone, OutboundAbort, ClusterTeardown,
      LeaveCritical, CpuDown, OneOutbound, Outbound, Entering, TearingDown
  <2>3. ASSUME NEW c \in CPU, McpmSetup(c) \/ SetClusterUp(c) \/ McpmSetupLeave(c)
        PROVE  [ClusterDiagramStep]_<<cluster, inbound>>
    BY <2>3 DEF McpmSetup, SetClusterUp, McpmSetupLeave, DownUnused,
      InboundTruthful, Uncommitted, SettingUp
  <2>4. ASSUME NEW c \in CPU, InboundStep(c)
        PROVE  [ClusterDiagramStep]_<<cluster, inbound>>
    BY <2>3, <2>4 DEF InboundStep, McpmEntryPoint, FirstManTrylock, NotFirstMan,
      FirstManCheck, McpmTeardownWait, FirstManSetup, FirstManUnlock,
      McpmSetupWait, McpmSetupComplete, McpmEntryGated, PoweredUp, EnterKernel
  <2> QED BY <1>1, <2>1, <2>2, <2>4 DEF MNext
<1> QED BY <1>1, McpmInvariant, PTL DEF MSpec, MSafetySpec, ClusterDiagram

(* A CPU that lost the election for first man never waits in mcpm_setup_wait *)
(* for a cluster that nobody is left to bring up.                            *)
THEOREM McpmNotStranded == MSpec => []NotStranded
<1>1. MInv => NotStranded
  BY DEF MInv, LosersRescued, Losing, NotStranded
<1> QED BY <1>1, McpmInvariant, PTL
=============================================================================
