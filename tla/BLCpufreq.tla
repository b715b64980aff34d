----------------------------- MODULE BLCpufreq -----------------------------
(***************************************************************************)
(* bL_cpufreq_set_target and bL_cpufreq_set_rate of the big.LITTLE cpufreq   *)
(* driver (drivers/cpufreq/arm_big_little.c) with the switcher enabled: each *)
(* logical CPU has a policy of its own and asks for a virtual frequency,     *)
(* which decides the cluster it should be on; the clock of a cluster runs at *)
(* the highest frequency that its CPUs ask for.                              *)
(*                                                                           *)
(* Calls for one CPU are serialised by its policy's semaphore, those for     *)
(* different CPUs are not.  physical_cluster and cpu_last_req_freq of a CPU  *)
(* are written under the lock of the cluster it moves to and read under      *)
(* either lock: each access is a step, the two writes come in any order.     *)
(* Of the switcher only the last request it has accepted matters, which it   *)
(* carries out in the end (LastRequestWins of BLSwitcher).                   *)
(***************************************************************************)
EXTENDS Integers, FiniteSetsExt

CONSTANTS CPU,                  \* the logical CPUs
          BigTable, LittleTable,\* freq_table[0] and, in virtual frequencies, freq_table[1]
          NONE,
          MayFail               \* may clk_set_rate or bL_switch_request fail?

A15 == 0   \* A15_CLUSTER
A7  == 1   \* A7_CLUSTER
Cluster == {A15, A7}
Table   == BigTable \cup LittleTable   \* merge_cluster_tables

(* Each table has a lowest and a highest frequency (get_table_min and         *)
(* get_table_max), and they meet in one frequency at most, as those of the    *)
(* TC2 do: if they overlapped, NewCluster would keep a CPU on a cluster       *)
(* without its frequency.                                                     *)
ASSUME CpufreqAssumption ==
  /\ BigTable \subseteq Nat \ {0} /\ LittleTable \subseteq Nat \ {0}
  /\ Min(BigTable) \in BigTable /\ \A f \in BigTable : Min(BigTable) <= f
  /\ Max(LittleTable) \in LittleTable /\ \A f \in LittleTable : f <= Max(LittleTable)
  /\ Max(LittleTable) <= Min(BigTable)
  /\ NONE \notin Cluster \cup CPU /\ MayFail \in BOOLEAN

VARIABLES last,    \* cpu_last_req_freq
          phys,    \* physical_cluster
          clk,     \* the rate of each cluster's clock
          lock,    \* cluster_lock
          call,    \* the set_rate that is under way for each CPU
          asked,   \* the cluster the switcher was last asked to put each CPU on
          failed   \* history: a clock or the switcher has refused a call

kvars == <<last, phys, clk, lock, call, asked, failed>>

Idle == [pc |-> "idle", old |-> NONE, new |-> NONE, rate |-> 0, prev |-> 0, todo |-> {}, max |-> 0]

(* ACTUAL_FREQ, and the rates that the clock of a cluster can be set to. *)
ActualFreq(k, f) == IF k = A7 THEN 2 * f ELSE f
Supported(k) == {ActualFreq(k, f) : f \in IF k = A7 THEN LittleTable ELSE BigTable}

(* bL_cpufreq_init: "during init, we are always running on A15". *)
CpufreqInit ==
  /\ phys = [c \in CPU |-> A15] /\ asked = phys
  /\ \E f \in BigTable, g \in LittleTable :
       /\ clk = [k \in Cluster |-> ActualFreq(k, IF k = A15 THEN f ELSE g)]
       /\ last = [c \in CPU |-> f]
  /\ lock = [k \in Cluster |-> NONE] /\ call = [c \in CPU |-> Idle]
  /\ failed = FALSE

Goto(c, from, to) == call[c].pc = from /\ call' = [call EXCEPT ![c].pc = to]
-----------------------------------------------------------------------------
(* bL_cpufreq_set_target: the cluster changes when the frequency leaves what *)
(* the present one has.                                                      *)
NewCluster(k, f) == CASE k = A15 /\ f < Min(BigTable)   -> A7
                      [] k = A7 /\ f > Max(LittleTable) -> A15
                      [] OTHER                          -> k

SetTarget(c, f) ==
  /\ call[c] = Idle /\ f # last[c]
  /\ call' = [call EXCEPT ![c] = [Idle EXCEPT !.pc = "lock_new", !.old = phys[c],
                                              !.new = NewCluster(phys[c], f), !.rate = f]]
  /\ UNCHANGED <<last, phys, clk, lock, asked, failed>>

(* bL_cpufreq_set_rate.  First the new cluster, under its lock: ... *)
LockNew(c) ==
  /\ call[c].pc = "lock_new" /\ lock[call[c].new] = NONE
  /\ lock' = [lock EXCEPT ![call[c].new] = c]
  /\ call' = [call EXCEPT ![c].pc = "store", ![c].prev = last[c], ![c].todo = {"freq", "cluster"}]
  /\ UNCHANGED <<last, phys, clk, asked, failed>>

(* ... note the request (or, after a failure, take it back), ... *)
Store(c, w, f, k) ==
  /\ w \in call[c].todo
  /\ call' = [call EXCEPT ![c].todo = @ \ {w}]
  /\ last' = IF w = "freq" THEN [last EXCEPT ![c] = f] ELSE last
  /\ phys' = IF w = "cluster" THEN [phys EXCEPT ![c] = k] ELSE phys
  /\ UNCHANGED <<clk, lock, asked, failed>>

StoreRequest(c, w) == call[c].pc = "store" /\ Store(c, w, call[c].rate, call[c].new)

(* ... look for the highest request on the cluster, ... *)
ScanNew(c) ==
  /\ call[c].todo = {}
  /\ call[c].pc = "store"
  /\ call' = [call EXCEPT ![c].pc = "scan_new", ![c].todo = CPU \ {c}, ![c].max = call[c].rate]
  /\ UNCHANGED <<last, phys, clk, lock, asked, failed>>

(* find_cluster_maxfreq: one CPU is read after the other.  What the caller's *)
(* own CPU contributes is known: its frequency here, nothing on the cluster  *)
(* it has left.                                                              *)
FindMaxfreq(c) ==
  LET s == call[c]
      k == IF s.pc = "scan_new" THEN s.new ELSE s.old
      j == CHOOSE i \in s.todo : TRUE
  IN
  /\ s.pc \in {"scan_new", "scan_old"} /\ s.todo # {}
  /\ call' = [call EXCEPT ![c].todo = @ \ {j},
                          ![c].max = IF phys[j] = k /\ last[j] > @ THEN last[j] ELSE @]
  /\ UNCHANGED <<last, phys, clk, lock, asked, failed>>

(* clk_set_rate: vexpress_spc_set_performance refuses a rate the cluster     *)
(* does not have, which clk_change_rate does not report.                     *)
SetClk(k, f) == clk' = IF ActualFreq(k, f) \in Supported(k)
                       THEN [clk EXCEPT ![k] = ActualFreq(k, f)] ELSE clk

(* The rest of set_rate, to the state nx, letting go of the lock of cluster k. *)
Unlock(c, k, nx) ==
  /\ lock' = [lock EXCEPT ![k] = NONE]
  /\ call' = [call EXCEPT ![c] = nx]

(* Of the call's locals only the clusters are used again after that. *)
Moving(s) == [Idle EXCEPT !.pc = "request", !.old = s.old, !.new = s.new]

(* A mutant: the new cluster's lock is kept until the old one is done. *)
BugSetNewClk(c) ==
  LET s == call[c] IN
  /\ s.pc = "scan_new" /\ s.todo = {}
  /\ SetClk(s.new, s.max)
  /\ IF s.old = s.new THEN Unlock(c, s.new, Idle)
     ELSE lock' = lock /\ call' = [call EXCEPT ![c] = Moving(s)]
  /\ UNCHANGED <<last, phys, asked, failed>>

(* ... and set the clock.  The lock is dropped before anything else. *)
SetNewClk(c) ==
  LET s == call[c] IN
  /\ s.pc = "scan_new" /\ s.todo = {}
  /\ SetClk(s.new, s.max)
  /\ Unlock(c, s.new, IF s.old = s.new THEN Idle ELSE Moving(s))
  /\ UNCHANGED <<last, phys, asked, failed>>

(* clk_set_rate returns an error: the request is taken back, store by store. *)
NewClkFails(c) ==
  /\ MayFail
  /\ call[c].pc = "scan_new" /\ call[c].todo = {}
  /\ call' = [call EXCEPT ![c].pc = "rollback", ![c].todo = {"freq", "cluster"}]
  /\ failed' = TRUE
  /\ UNCHANGED <<last, phys, clk, lock, asked>>

StoreBack(c, w) == call[c].pc = "rollback" /\ Store(c, w, call[c].prev, call[c].old)

Return(c) ==
  /\ call[c].pc = "rollback" /\ call[c].todo = {}
  /\ Unlock(c, call[c].new, Idle)
  /\ UNCHANGED <<last, phys, clk, asked, failed>>

(* bL_switch_request. *)
Request(c) ==
  /\ Goto(c, "request", "lock_old")
  /\ asked' = [asked EXCEPT ![c] = call[c].new]
  /\ UNCHANGED <<last, phys, clk, lock, failed>>

(* It returns an error (the switcher is busy, or not active), unnoticed. *)
RequestFails(c) ==
  /\ MayFail
  /\ Goto(c, "request", "lock_old")
  /\ failed' = TRUE
  /\ UNCHANGED <<last, phys, clk, lock, asked>>

(* Then the old cluster, under its own lock: ... *)
LockOld(c) ==
  /\ call[c].pc = "lock_old" /\ lock[call[c].old] = NONE
  /\ lock' = [lock EXCEPT ![call[c].old] = c]
  /\ call' = [call EXCEPT ![c].pc = "scan_old", ![c].todo = CPU \ {c}]
  /\ UNCHANGED <<last, phys, clk, asked, failed>>

(* A mutant: the old cluster keeps its rate. *)
BugSetOldClk(c) ==
  LET s == call[c] IN
  /\ s.pc = "scan_old" /\ s.todo = {}
  /\ clk' = clk
  /\ Unlock(c, s.old, Idle)
  /\ UNCHANGED <<last, phys, asked, failed>>

(* ... its clock follows the CPUs left on it, if there are any. *)
SetOldClk(c) ==
  LET s == call[c] IN
  /\ s.pc = "scan_old" /\ s.todo = {}
  /\ IF s.max # 0 THEN SetClk(s.old, s.max) ELSE clk' = clk
  /\ Unlock(c, s.old, Idle)
  /\ UNCHANGED <<last, phys, asked, failed>>

(* That clk_set_rate fails is logged and otherwise ignored. *)
OldClkFails(c) ==
  LET s == call[c] IN
  /\ MayFail
  /\ s.pc = "scan_old" /\ s.todo = {} /\ s.max # 0
  /\ Unlock(c, s.old, Idle)
  /\ failed' = TRUE
  /\ UNCHANGED <<last, phys, clk, asked>>
-----------------------------------------------------------------------------
Acquire(c) == LockNew(c) \/ LockOld(c)

SetRate(c) == \/ \E w \in {"freq", "cluster"} : StoreRequest(c, w) \/ StoreBack(c, w)
              \/ ScanNew(c) \/ FindMaxfreq(c)
              \/ SetNewClk(c) \/ NewClkFails(c) \/ Return(c)
              \/ Request(c) \/ RequestFails(c) \/ SetOldClk(c) \/ OldClkFails(c)

CpufreqNext == \E c \in CPU : \/ \E f \in Table : SetTarget(c, f)
                              \/ Acquire(c) \/ SetRate(c)

(* A call goes on, and a mutex is handed out fairly: its waiters queue. *)
CpufreqFairness == \A c \in CPU : SF_kvars(Acquire(c)) /\ WF_kvars(SetRate(c))

CpufreqSafetySpec == CpufreqInit /\ [][CpufreqNext]_kvars

CpufreqSpec == CpufreqSafetySpec /\ CpufreqFairness
-----------------------------------------------------------------------------
(* The parts of the inductive invariant.                                     *)

Locals == [pc : {"idle", "lock_new", "store", "scan_new", "rollback", "request", "lock_old",
                 "scan_old"},
           old : Cluster \cup {NONE}, new : Cluster \cup {NONE}, rate : Nat, prev : Nat,
           todo : SUBSET ({"freq", "cluster"} \cup CPU), max : Nat]

(* Every variable holds a value of the C object it stands for. *)
CpufreqTypeOK ==
  /\ last \in [CPU -> Nat \ {0}] /\ phys \in [CPU -> Cluster] /\ asked \in [CPU -> Cluster]
  /\ clk \in [Cluster -> Nat] /\ lock \in [Cluster -> CPU \cup {NONE}]
  /\ call \in [CPU -> Locals] /\ failed \in BOOLEAN

(* A call has its clusters, and walks over what it has to walk over. *)
CallsFormed == \A c \in CPU : LET s == call[c] IN
  /\ s.pc = "idle" => s = Idle
  /\ s.pc # "idle" => s.old \in Cluster /\ s.new \in Cluster
  /\ s.pc \in {"lock_new", "store", "scan_new"} => s.rate # 0
  /\ s.pc \in {"store", "rollback"} => s.todo \subseteq {"freq", "cluster"}
  /\ s.pc \in {"store", "scan_new", "rollback"} => s.prev # 0
  /\ s.pc \in {"scan_new", "scan_old"} => s.todo \subseteq CPU \ {c}
  /\ s.pc \in {"request", "lock_old", "scan_old"} => s.old # s.new
  /\ s.pc \in {"request", "lock_old"} => s.max = 0

(* The cluster whose lock the CPU's call has. *)
Holds(c, k) == \/ call[c].pc \in {"store", "scan_new", "rollback"} /\ call[c].new = k
               \/ call[c].pc = "scan_old" /\ call[c].old = k

LocksHeld == \A k \in Cluster, c \in CPU : Holds(c, k) <=> lock[k] = c

(* A frequency that the clock of the cluster can be set to. *)
Fits(k, f) == ActualFreq(k, f) \in Supported(k)

(* How far each call is shows in what it has written and asked for. *)
CallsTracked == \A c \in CPU : LET s == call[c] IN
  /\ s.pc \in {"idle", "lock_new"} => asked[c] = phys[c]
  /\ s.pc \in {"lock_new", "store", "scan_new", "request"} => asked[c] = s.old
  /\ s.pc \in {"lock_new", "store", "scan_new"} => Fits(s.new, s.rate)
  /\ s.pc = "store" => /\ phys[c] = IF "cluster" \in s.todo THEN s.old ELSE s.new
                       /\ "freq" \notin s.todo => last[c] = s.rate
  /\ s.pc \in {"scan_new", "request", "lock_old", "scan_old"} => phys[c] = s.new
  /\ s.pc = "scan_new" => last[c] = s.rate
  /\ s.pc \in {"lock_old", "scan_old"} => asked[c] = s.new
  /\ s.pc # "store" => Fits(phys[c], last[c])
  /\ s.pc # "rollback"

(* A CPU that is between clusters: until its call has the old one's lock and  *)
(* is through with it, that one's clock may be anything.                      *)
Leaves(c, k) == /\ call[c].old = k /\ call[c].new # k
                /\ call[c].pc \notin {"idle", "lock_new"}

(* f is the highest request among those CPUs that are on cluster k. *)
Highest(f, k, cpus) == /\ \E d \in cpus : phys[d] = k /\ last[d] = f
                       /\ \A d \in cpus : phys[d] = k => last[d] <= f

(* The clock of a cluster that nobody locks or leaves is right.               *)
ClockRight(k) ==
  lock[k] = NONE /\ (\A c \in CPU : ~Leaves(c, k)) /\ (\E c \in CPU : phys[c] = k)
    => \E c \in CPU : Highest(last[c], k, CPU) /\ clk[k] = ActualFreq(k, last[c])

(* A scan that nobody leaves behind its back has the maximum of what it has   *)
(* seen.                                                                      *)
Scans(c, k) == Holds(c, k) /\ call[c].pc \in {"scan_new", "scan_old"}

ScanRight(c, k) ==
  Scans(c, k) /\ (\A d \in CPU \ {c} : ~Leaves(d, k)) =>
    LET seen == CPU \ call[c].todo IN
    \/ Highest(call[c].max, k, seen)
    \/ call[c].max = 0 /\ \A d \in seen : phys[d] # k

RatesTracked == \A k \in Cluster : ClockRight(k) /\ \A c \in CPU : ScanRight(c, k)

(* The inductive invariant: cluster_lock is held by the one call that is in   *)
(* its section, a call has written what it has got to, and no clock of a      *)
(* cluster that is not being worked on is wrong, so long as no clk_set_rate   *)
(* or bL_switch_request has failed.                                           *)
CpufreqInv == /\ CpufreqTypeOK /\ CallsFormed /\ LocksHeld
              /\ ~failed => CallsTracked /\ RatesTracked
-----------------------------------------------------------------------------
(* Once no call is in progress that leaves or enters a cluster, its clock    *)
(* runs at the highest frequency asked for by the CPUs that the switcher     *)
(* puts on it, however the calls overlapped: a rate computed from half of    *)
(* another CPU's move, or refused because of one, does not stay.             *)
RateSettles ==
  \A k \in Cluster :
    LET here == {c \in CPU : asked[c] = k} IN
    /\ ~failed /\ here # {}
    /\ \A c \in CPU : call[c] = Idle \/ k \notin {call[c].old, call[c].new}
    => clk[k] = ActualFreq(k, Max({last[c] : c \in here}))

(* Calls that move CPUs in opposite directions do not wait for each other's  *)
(* cluster_lock for ever.                                                    *)
CallsComplete == \A c \in CPU : call[c] # Idle ~> call[c] = Idle
=============================================================================
