------------------------- MODULE VlockTryLockProofs -------------------------
(***************************************************************************)
(* The voting lock implements TryLock, for any number of CPUs and words.     *)
(***************************************************************************)
EXTENDS VlockTryLock, VlockProofs

(* Nobody has met anybody. *)
LEMMA RivalInit == HInit => RivalSound
BY DEF HInit, VInit, RivalSound, Meets

(* The history follows the lock: a CPU that finds the owner byte taken meets *)
(* the CPU it names, and one whose vote is overwritten meets the voter.      *)
LEMMA RivalStep ==
  ASSUME VInv, VInv', RivalSound, HNext PROVE RivalSound'
<1> USE DEF VInv, VTypeOK, VPC
<1>1. /\ VNext
      /\ \A c \in CPU : rival'[c] = (vpc'[c] # "idle" /\ (rival[c] \/ Meets(vpc', c) # {}))
  BY DEF HNext
<1>2. PICK c \in CPU : VotingBegin(c) \/ TrylockStep(c) \/ TrylockLost(c) \/ VlockUnlock(c)
  BY <1>1 DEF VNext
<1>3. \A d \in CPU : d # c => vpc'[d] = vpc[d]
  BY <1>2 DEF VotingBegin, TrylockStep, CheckOwner, SubmitVote, VotingEnd, VotingWait, CheckResult,
              TrylockLost, VlockUnlock, VGoto
<1>4. \A d \in CPU : rival[d] => rival'[d] \/ vpc'[d] = "idle"
  BY <1>1
<1>5. ASSUME NEW d \in CPU, vpc'[d] = "failed" PROVE rival'[d]
  <2>1. CASE vpc[d] = "failed"
    BY <1>4, <1>5, <2>1 DEF RivalSound
  <2>2. CASE vpc[d] # "failed"
    <3>1. d = c /\ CheckOwner(c) /\ owner # NONE
      BY <1>2, <1>3, <1>5, <2>2 DEF VotingBegin, TrylockStep, CheckOwner, SubmitVote, VotingEnd,
         VotingWait, CheckResult, TrylockLost, VlockUnlock, VGoto
    <3>2. owner \in CPU /\ owner # c /\ vpc'[owner] \notin {"idle", "lost"}
      BY <1>3, <3>1 DEF OwnerClaims, CheckOwner, VGoto
    <3>3. owner \in Meets(vpc', d)
      BY <3>1, <3>2 DEF Meets
    <3> QED BY <1>1, <1>5, <3>3
  <2> QED BY <2>1, <2>2
<1>6. ASSUME NEW d \in CPU, vpc'[d] \in {"endvote", "wait", "result"}, owner' # d PROVE rival'[d]
  <2>1. CASE owner' = owner
    <3>1. vpc[d] \in {"endvote", "wait", "result"} /\ owner # d
      BY <1>2, <1>3, <1>6, <2>1 DEF VotingBegin, TrylockStep, CheckOwner, SubmitVote, VotingEnd,
         VotingWait, CheckResult, TrylockLost, VlockUnlock, VGoto
    <3> QED BY <1>4, <1>6, <3>1 DEF RivalSound
  <2>2. CASE owner' # owner
    <3>1. SubmitVote(c) \/ VlockUnlock(c)
      BY <1>2, <2>2 DEF VotingBegin, TrylockStep, CheckOwner, VotingEnd, VotingWait, CheckResult,
         TrylockLost
    <3>2. CASE SubmitVote(c)
      <4>1. c # d /\ vpc'[c] = "endvote"
        BY <1>6, <3>2 DEF SubmitVote, VGoto
      <4> QED BY <1>1, <1>6, <4>1 DEF Meets
    <3>3. CASE VlockUnlock(c)
      <4>1. c # d /\ owner = c /\ vpc[d] \in {"endvote", "wait", "result"}
        BY <1>3, <1>6, <3>3 DEF VlockUnlock, VGoto, ElectionClosed
      <4> QED BY <1>4, <1>6, <4>1 DEF RivalSound
    <3> QED BY <3>1, <3>2, <3>3
  <2> QED BY <2>1, <2>2
<1>7. \A d \in CPU : /\ vpc'[d] = "idle" => ~rival'[d]
                     /\ vpc'[d] # "idle" /\ Meets(vpc', d) # {} => rival'[d]
  BY <1>1
<1>8. rival' \in [CPU -> BOOLEAN]
  BY DEF HNext, RivalSound
<1> QED BY <1>5, <1>6, <1>7, <1>8 DEF RivalSound, Meets

(* The abstract state of each CPU. *)
St == [c \in CPU |-> LockState(vpc[c])]

(* The contenders of the abstract lock are the CPUs that an attempt meets. *)
LEMMA MeetsContenders ==
  ASSUME NEW pcs, NEW d \in CPU
  PROVE  Lock!Contenders([c \in CPU |-> LockState(pcs[c])]) \ {d} = Meets(pcs, d)
BY DEF Lock!Contenders, Meets, LockState

(* What the abstract lock records of a step is what the history does. *)
LEMMA RivalRecorded ==
  ASSUME HNext, NEW c \in CPU, vpc \in [CPU -> VPC], NEW to \in VPC, vpc' = [vpc EXCEPT ![c] = to]
  PROVE  Lock!Move(c, LockState(vpc[c]), LockState(to))
<1>1. St[c] = LockState(vpc[c])
  BY DEF St
<1>2. St' = [St EXCEPT ![c] = LockState(to)]
  BY DEF St
<1>3. \A d \in CPU : (St'[d] # "idle") = (vpc'[d] # "idle")
  BY DEF St, LockState
<1>4. \A d \in CPU : Lock!Contenders(St') \ {d} = Meets(vpc', d)
  BY MeetsContenders DEF St
<1>5. rival' = [d \in CPU |-> St'[d] # "idle" /\ (rival[d] \/ Lock!Contenders(St') \ {d} # {})]
  BY <1>3, <1>4 DEF HNext
<1> QED BY <1>1, <1>2, <1>5 DEF Lock!Move, St

(* Each access to the lock is a step of the abstract lock or hidden from it. *)
LEMMA TryLockStep ==
  ASSUME VInv, RivalSound, RivalSound', HNext PROVE [Lock!TNext]_(Lock!tvars)
<1> USE DEF VInv, VTypeOK
<1>2. PICK c \in CPU : VotingBegin(c) \/ TrylockStep(c) \/ TrylockLost(c) \/ VlockUnlock(c)
  BY DEF HNext, VNext
<1>3. PICK to \in VPC : vpc' = [vpc EXCEPT ![c] = to]
  <2>1. CASE VotingWait(c)
    BY <2>1 DEF VotingWait, VGoto, VPC
  <2> QED BY <1>2, <2>1 DEF VotingBegin, TrylockStep, CheckOwner, SubmitVote, VotingEnd, CheckResult,
             TrylockLost, VlockUnlock, VGoto, VPC
<1>4. Lock!Move(c, LockState(vpc[c]), LockState(to)) /\ vpc'[c] = to
  BY <1>3, RivalRecorded
<1>5. CASE LockState(vpc[c]) = LockState(to)
  <2>1. St' = St
    BY <1>3, <1>5 DEF St
  <2>2. ASSUME NEW d \in CPU PROVE rival'[d] = rival[d]
    <3>1. (vpc'[d] = "idle" <=> vpc[d] = "idle") /\ Meets(vpc', d) = Meets(vpc, d)
      BY <1>3, <1>5 DEF Meets, LockState
    <3> QED BY <3>1 DEF RivalSound, HNext
  <2>3. rival' = rival
    BY <2>2 DEF RivalSound
  <2> QED BY <2>1, <2>3 DEF Lock!tvars, St
<1>6. CASE LockState(vpc[c]) # LockState(to)
  <2>1. CASE VotingBegin(c)
    BY <1>4, <2>1 DEF VotingBegin, VGoto, LockState, Lock!TNext, Lock!Try
  <2>2. CASE VotingEnd(c)
    <3>1. vpc[c] = "failed" /\ to = "lost" /\ rival[c]
      BY <1>4, <1>6, <2>2 DEF VotingEnd, VGoto, LockState, RivalSound
    <3> QED BY <1>4, <3>1 DEF LockState, Lock!TNext, Lock!Lose
  <2>3. CASE CheckResult(c)
    <3>0. vpc[c] = "result" /\ to = IF owner = c THEN "held" ELSE "lost"
      BY <1>4, <2>3 DEF CheckResult, VGoto
    <3>1. CASE owner = c
      <4>1. \A d \in CPU : LockState(vpc[d]) # "held"
        BY <3>0, <3>1 DEF ElectionClosed, LockState
      <4> QED BY <1>4, <3>0, <3>1, <4>1 DEF LockState, Lock!TNext, Lock!Win
    <3>2. CASE owner # c
      BY <1>4, <3>0, <3>2 DEF RivalSound, LockState, Lock!TNext, Lock!Lose
    <3> QED BY <3>1, <3>2
  <2>4. CASE TrylockLost(c)
    BY <1>4, <2>4 DEF TrylockLost, VGoto, LockState, Lock!TNext, Lock!GoOn
  <2>5. CASE VlockUnlock(c)
    BY <1>4, <2>5 DEF VlockUnlock, VGoto, LockState, Lock!TNext, Lock!Unlock
  <2>6. ~CheckOwner(c) /\ ~SubmitVote(c) /\ ~VotingWait(c)
    BY <1>4, <1>6 DEF CheckOwner, SubmitVote, VotingWait, VGoto, LockState
  <2> QED BY <1>2, <2>1, <2>2, <2>3, <2>4, <2>5, <2>6 DEF TrylockStep
<1> QED BY <1>5, <1>6

(* The voting lock and its history together keep their invariants. *)
LEMMA TryLockInvariant == HSafetySpec => [](VInv /\ RivalSound)
<1>1. HInit => VInv /\ RivalSound
  BY VInitInv, RivalInit DEF HInit
<1>2. VInv /\ RivalSound /\ [HNext]_hvars => VInv' /\ RivalSound'
  <2> SUFFICES ASSUME VInv, RivalSound, [HNext]_hvars PROVE VInv' /\ RivalSound'
    OBVIOUS
  <2>1. VInv'
    BY VInvStep DEF HNext, hvars
  <2>2. CASE HNext
    BY <2>1, <2>2, RivalStep
  <2>3. CASE UNCHANGED hvars
    BY <2>1, <2>3 DEF hvars, vvars, RivalSound, Meets
  <2> QED BY <2>1, <2>2, <2>3
<1> QED BY <1>1, <1>2, PTL DEF HSafetySpec

(* vlock_trylock is a try-lock, for any number of CPUs and any layout of     *)
(* their voting bytes: at most one CPU holds it, and an attempt that meets   *)
(* no other CPU succeeds.                                                    *)
THEOREM VlockImplementsTryLock == HSafetySpec => ImplementsTryLock
<1>1. HInit => Lock!TInit
  BY DEF HInit, VInit, Lock!TInit, LockState
<1>2. /\ VInv /\ RivalSound /\ VInv' /\ RivalSound'
      /\ [HNext]_hvars
      => [Lock!TNext]_(Lock!tvars)
  <2>1. CASE UNCHANGED hvars
    BY <2>1 DEF hvars, vvars, Lock!tvars
  <2> QED BY <2>1, TryLockStep
<1> QED BY <1>1, <1>2, TryLockInvariant, PTL DEF HSafetySpec, ImplementsTryLock, Lock!TSpec
=============================================================================
