---------------------------- MODULE VlockProofs ----------------------------
(***************************************************************************)
(* Mutual exclusion of the voting lock, for any number of CPUs and any       *)
(* layout of their voting bytes in words.                                    *)
(***************************************************************************)
EXTENDS Vlock, TLAPS

USE NoneAssumption, WordsAssumption

(* The lock starts free, with nobody voting. *)
LEMMA VInitInv == VInit => VInv
BY DEF VInit, VInv, VTypeOK, VPC, VotingFlag, PolledWords, ElectionClosed,
       OwnerClaims, AboutToVote

(* Every access to the lock leaves the memory and the program counters well  *)
(* typed; in particular the polling loop never runs past the last word.      *)
LEMMA VTypeStep == VTypeOK /\ [VNext]_vvars => VTypeOK'
<1> SUFFICES ASSUME VTypeOK, [VNext]_vvars PROVE VTypeOK'
  OBVIOUS
<1> USE DEF VTypeOK, VPC, VGoto
<1>1. CASE UNCHANGED vvars
  BY <1>1 DEF vvars
<1>2. ASSUME NEW c \in CPU,
             VotingBegin(c) \/ TrylockStep(c) \/ TrylockLost(c) \/ VlockUnlock(c)
      PROVE VTypeOK'
  <2>1. CASE VotingBegin(c)
    BY <2>1 DEF VotingBegin
  <2>2. CASE CheckOwner(c)
    BY <2>2 DEF CheckOwner
  <2>3. CASE SubmitVote(c)
    BY <2>3 DEF SubmitVote
  <2>4. CASE VotingEnd(c)
    BY <2>4 DEF VotingEnd
  <2>5. CASE VotingWait(c)
    BY <2>5 DEF VotingWait
  <2>6. CASE CheckResult(c)
    BY <2>6 DEF CheckResult
  <2>7. CASE TrylockLost(c)
    BY <2>7 DEF TrylockLost
  <2>8. CASE VlockUnlock(c)
    BY <2>8 DEF VlockUnlock
  <2> QED BY <1>2, <2>1, <2>2, <2>3, <2>4, <2>5, <2>6, <2>7, <2>8 DEF TrylockStep
<1> QED BY <1>1, <1>2 DEF VNext

(* Every access to the lock preserves the inductive invariant.  The two      *)
(* interesting cases: CheckOwner opens a new vote only when the byte is      *)
(* free, and VotingWait adds a word whose CPUs have all finished voting.     *)
LEMMA VInvStep == VInv /\ [VNext]_vvars => VInv'
<1> SUFFICES ASSUME VInv, [VNext]_vvars PROVE VInv'
  OBVIOUS
<1>0. VTypeOK'
  BY VTypeStep DEF VInv
<1> USE DEF VInv, VTypeOK, VPC, VotingFlag, PolledWords, ElectionClosed,
            OwnerClaims, AboutToVote, VGoto
<1>1. CASE UNCHANGED vvars
  BY <1>1 DEF vvars
<1>2. ASSUME NEW c \in CPU,
             VotingBegin(c) \/ TrylockStep(c) \/ TrylockLost(c) \/ VlockUnlock(c)
      PROVE VInv'
  <2>1. CASE VotingBegin(c)
    BY <1>0, <2>1 DEF VotingBegin
  <2>2. CASE CheckOwner(c)
    BY <1>0, <2>2 DEF CheckOwner
  <2>3. CASE SubmitVote(c)
    BY <1>0, <2>3 DEF SubmitVote
  <2>4. CASE VotingEnd(c)
    BY <1>0, <2>4 DEF VotingEnd
  <2>5. CASE VotingWait(c)
    <3>1. \A d \in CPU : WordOf[d] \in Nat /\ WordOf[d] < NWords
      OBVIOUS
    <3>2. CASE word[c] = NWords - 1
      BY <1>0, <2>5, <3>1, <3>2 DEF VotingWait
    <3>3. CASE word[c] # NWords - 1
      BY <1>0, <2>5, <3>1, <3>3 DEF VotingWait
    <3> QED BY <3>2, <3>3
  <2>6. CASE CheckResult(c)
    BY <1>0, <2>6 DEF CheckResult
  <2>7. CASE TrylockLost(c)
    BY <1>0, <2>7 DEF TrylockLost
  <2>8. CASE VlockUnlock(c)
    BY <1>0, <2>8 DEF VlockUnlock
  <2> QED BY <1>2, <2>1, <2>2, <2>3, <2>4, <2>5, <2>6, <2>7, <2>8 DEF TrylockStep
<1> QED BY <1>1, <1>2 DEF VNext

(* Two holders would both be named by the owner byte. *)
LEMMA VInvMutex == VInv => MutualExclusion
BY DEF VInv, ElectionClosed, MutualExclusion

(* The inductive invariant itself, for any number of CPUs and words: the     *)
(* voting flag of vlock_trylock covers the window in which its CPU may vote, *)
(* a word polled as clear stays clear of voters that matter, and the owner   *)
(* byte names a CPU that still claims the lock.                              *)
THEOREM VlockInvariant == VSpec => []VInv
BY VInitInv, VInvStep, PTL DEF VSpec

(* vlock_trylock never lets two CPUs in, for any number of CPUs: the basis   *)
(* of "first man" selection in mcpm_entry_point.                             *)
THEOREM VlockMutualExclusion == VSpec => []MutualExclusion
BY VlockInvariant, VInvMutex, PTL
=============================================================================
