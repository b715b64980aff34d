------------------------------- MODULE Vlock -------------------------------
(***************************************************************************)
(* The voting lock of arch/arm/common/vlock.S, by which CPUs that are not   *)
(* yet coherent elect the "first man" of a cluster.                         *)
(*                                                                          *)
(* One action per memory access of vlock_trylock and vlock_unlock.  The     *)
(* lock lives in strongly-ordered memory, so accesses are interleaved in    *)
(* program order.  The voting bytes are polled one 32-bit word at a time:   *)
(* NWords = 1 is the FEW build (at most four CPUs in a cluster), a larger   *)
(* NWords the MANY build.                                                   *)
(***************************************************************************)
EXTENDS Naturals

CONSTANTS CPU,      \* the CPUs of one cluster
          NONE,     \* VLOCK_OWNER_NONE
          NWords,   \* VLOCK_VOTING_SIZE / 4
          WordOf    \* the word that holds each CPU's voting byte

ASSUME NoneAssumption == NONE \notin CPU
ASSUME WordsAssumption == /\ NWords \in Nat \ {0}
                          /\ WordOf \in [CPU -> 0 .. NWords - 1]

VARIABLES owner,    \* the owner byte: the last vote
          voting,   \* the voting bytes
          vpc,      \* where each CPU is in vlock_trylock
          word      \* r3: the word a waiting CPU polls next

vvars == <<owner, voting, vpc, word>>

VPC == {"idle", "check", "vote", "endvote", "failed", "wait", "result",
        "held", "lost"}

VTypeOK == /\ owner \in CPU \cup {NONE}
           /\ voting \in [CPU -> BOOLEAN]
           /\ vpc \in [CPU -> VPC]
           /\ word \in [CPU -> 0 .. NWords - 1]

VInit == /\ owner = NONE
         /\ voting = [c \in CPU |-> FALSE]
         /\ vpc = [c \in CPU |-> "idle"]
         /\ word = [c \in CPU |-> 0]

VGoto(c, from, to) == vpc[c] = from /\ vpc' = [vpc EXCEPT ![c] = to]
-----------------------------------------------------------------------------
(* vlock_trylock: announce the intention to vote. *)
VotingBegin(c) ==
  /\ VGoto(c, "idle", "check")
  /\ voting' = [voting EXCEPT ![c] = TRUE]
  /\ UNCHANGED <<owner, word>>

(* Is the lock held, or has somebody already volunteered? *)
CheckOwner(c) ==
  /\ VGoto(c, "check", IF owner = NONE THEN "vote" ELSE "failed")
  /\ UNCHANGED <<owner, voting, word>>

SubmitVote(c) ==
  /\ VGoto(c, "vote", "endvote")
  /\ owner' = c
  /\ UNCHANGED <<voting, word>>

(* A mutant of VotingEnd: the trylock_fail path forgets voting_end. *)
BugVotingEnd(c) ==
  /\ \/ VGoto(c, "endvote", "wait") /\ voting' = [voting EXCEPT ![c] = FALSE]
     \/ VGoto(c, "failed", "lost") /\ UNCHANGED voting
  /\ UNCHANGED <<owner, word>>

(* voting_end, after a vote or on the trylock_fail path. *)
VotingEnd(c) ==
  /\ \/ VGoto(c, "endvote", "wait")
     \/ VGoto(c, "failed", "lost")
  /\ voting' = [voting EXCEPT ![c] = FALSE]
  /\ UNCHANGED <<owner, word>>

(* A mutant of VotingWait: the poll ends one word late. *)
BugVotingWait(c) ==
  /\ \A d \in CPU : WordOf[d] = word[c] => ~voting[d]
  /\ IF word[c] = NWords
       THEN VGoto(c, "wait", "result") /\ word' = [word EXCEPT ![c] = 0]
       ELSE vpc[c] = "wait" /\ vpc' = vpc
            /\ word' = [word EXCEPT ![c] = @ + 1]
  /\ UNCHANGED <<owner, voting>>

(* A mutant of VotingWait: only the first word is polled. *)
BugVotingWaitFirst(c) ==
  /\ \A d \in CPU : WordOf[d] = 0 => ~voting[d]
  /\ VGoto(c, "wait", "result")
  /\ UNCHANGED <<owner, voting, word>>

(* One load of the polling loop that finds its word clear; a load that does  *)
(* not leaves the CPU in wfe and changes nothing.                            *)
VotingWait(c) ==
  /\ \A d \in CPU : WordOf[d] = word[c] => ~voting[d]
  /\ IF word[c] = NWords - 1
       THEN VGoto(c, "wait", "result") /\ word' = [word EXCEPT ![c] = 0]
       ELSE vpc[c] = "wait" /\ vpc' = vpc
            /\ word' = [word EXCEPT ![c] = @ + 1]
  /\ UNCHANGED <<owner, voting>>

CheckResult(c) ==
  /\ VGoto(c, "result", IF owner = c THEN "held" ELSE "lost")
  /\ UNCHANGED <<owner, voting, word>>

(* The caller of a failed vlock_trylock goes on. *)
TrylockLost(c) ==
  /\ VGoto(c, "lost", "idle")
  /\ UNCHANGED <<owner, voting, word>>

(* A mutant of VlockUnlock: the owner byte is not cleared. *)
BugVlockUnlock(c) ==
  /\ VGoto(c, "held", "idle")
  /\ UNCHANGED <<owner, voting, word>>

VlockUnlock(c) ==
  /\ VGoto(c, "held", "idle")
  /\ owner' = NONE
  /\ UNCHANGED <<voting, word>>

(* The steps inside vlock_trylock, which a CPU takes once it has begun. *)
TrylockStep(c) ==
  \/ CheckOwner(c)
  \/ SubmitVote(c)
  \/ VotingEnd(c)
  \/ VotingWait(c)
  \/ CheckResult(c)

VNext == \E c \in CPU : \/ VotingBegin(c)
                        \/ TrylockStep(c)
                        \/ TrylockLost(c)
                        \/ VlockUnlock(c)

(* A CPU that runs executes its next instruction; it need not call trylock  *)
(* again.                                                                   *)
VFairness == \A c \in CPU : WF_vvars(TrylockStep(c) \/ TrylockLost(c)
                                       \/ VlockUnlock(c))

VSpec == VInit /\ [][VNext]_vvars /\ VFairness
-----------------------------------------------------------------------------
(* Who may still overwrite the owner byte: the CPUs that found it free.      *)
AboutToVote(d) == vpc[d] = "vote"

(* The strengthening that makes MutualExclusion inductive.  A voting flag    *)
(* covers exactly the window in which its CPU may vote.  A CPU that the      *)
(* owner byte still names, and that has polled some words as clear, knows    *)
(* that no CPU of those words is about to overwrite the byte.                *)
VotingFlag ==
  \A c \in CPU : voting[c] <=> vpc[c] \in {"check", "vote", "endvote", "failed"}

PolledWords ==
  \A c \in CPU :
     /\ vpc[c] # "wait" => word[c] = 0
     /\ vpc[c] = "wait" /\ owner = c =>
          \A d \in CPU : WordOf[d] < word[c] => ~AboutToVote(d)

ElectionClosed ==
  \A c \in CPU :
     /\ vpc[c] = "held" => owner = c
     /\ vpc[c] \in {"result", "held"} /\ owner = c => \A d \in CPU : ~AboutToVote(d)

(* vlock.S, trylock/unlock: never two CPUs between a successful trylock and  *)
(* the matching unlock.                                                      *)
MutualExclusion ==
  \A c, d \in CPU : vpc[c] = "held" /\ vpc[d] = "held" => c = d

(* The owner byte never names a CPU that has gone away: whoever it names is  *)
(* on its way to winning, or holds the lock.  Otherwise every later trylock  *)
(* would fail and the cluster would never be set up again.                   *)
OwnerClaims ==
  owner # NONE => vpc[owner] \in {"endvote", "wait", "result", "held"}

(* The inductive invariant of the voting lock. *)
VInv == VTypeOK /\ VotingFlag /\ PolledWords /\ ElectionClosed /\ OwnerClaims

(* An election always has a winner: after any trylock some CPU holds the     *)
(* lock, although the caller itself may have lost (unless new calls of       *)
(* trylock keep coming forever, which vlocks.txt does not claim to bear).    *)
ElectionHasWinner ==
  \/ []<><<\E c \in CPU : VotingBegin(c)>>_vvars
  \/ \A c \in CPU : vpc[c] = "check" ~> \E d \in CPU : vpc[d] = "held"

(* vlock_trylock returns: no CPU is held up forever by the other voters,     *)
(* under the same proviso.                                                   *)
TrylockReturns ==
  \/ []<><<\E c \in CPU : VotingBegin(c)>>_vvars
  \/ \A c \in CPU : vpc[c] = "check" ~> vpc[c] \in {"held", "lost"}
=============================================================================
