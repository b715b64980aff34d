-------------------------- MODULE BLCpufreqProofs --------------------------
(***************************************************************************)
(* The clocks of the big.LITTLE cpufreq driver settle at the right rates,    *)
(* for any number of CPUs and any two frequency tables: CpufreqInv is        *)
(* inductive, and RateSettles follows from it.                               *)
(***************************************************************************)
EXTENDS BLCpufreq, TLAPS

USE CpufreqAssumption

(* A call's step changes its own locals only. *)
LEMMA LocalsEffect ==
  ASSUME CpufreqTypeOK, NEW c \in CPU, NEW x \in Locals, call' = [call EXCEPT ![c] = x]
  PROVE  call' \in [CPU -> Locals] /\ call'[c] = x /\ \A d \in CPU \ {c} : call'[d] = call[d]
BY DEF CpufreqTypeOK

(* The locals of no call. *)
LEMMA IdleLocals == Idle \in Locals
BY DEF Idle, Locals

(* bL_cpufreq_set_target notes the old cluster, the new one and the rate. *)
LEMMA SetTargetEffect ==
  ASSUME CpufreqInv, NEW c \in CPU, NEW f \in Table, SetTarget(c, f)
  PROVE  /\ call' \in [CPU -> Locals] /\ \A d \in CPU \ {c} : call'[d] = call[d]
         /\ call[c].pc = "idle" /\ call'[c].pc = "lock_new" /\ call'[c].old = phys[c]
         /\ call'[c].new = NewCluster(phys[c], f) /\ call'[c].rate = f
         /\ NewCluster(phys[c], f) \in Cluster
<1> DEFINE x == [Idle EXCEPT !.pc = "lock_new", !.old = phys[c],
                             !.new = NewCluster(phys[c], f), !.rate = f]
<1>1. NewCluster(phys[c], f) \in Cluster /\ phys[c] \in Cluster
  BY DEF CpufreqInv, CpufreqTypeOK, NewCluster, Cluster
<1>2. x.pc = "lock_new" /\ x.old = phys[c] /\ x.new = NewCluster(phys[c], f) /\ x.rate = f
  BY DEF Idle
<1>3. x \in Locals
  <2>1. f \in Nat
    BY DEF Table
  <2> QED BY <1>1, <2>1 DEF Locals, Idle
<1>4. call' = [call EXCEPT ![c] = x] /\ call[c] = Idle
  BY DEF SetTarget
<1> HIDE DEF x
<1>5. call' \in [CPU -> Locals] /\ call'[c] = x /\ \A d \in CPU \ {c} : call'[d] = call[d]
  BY <1>3, <1>4, LocalsEffect DEF CpufreqInv
<1>6. call[c].pc = "idle"
  BY <1>4 DEF Idle
<1> QED BY <1>1, <1>2, <1>5, <1>6

(* The call starts to write, with the lock of the new cluster. *)
LEMMA LockNewEffect ==
  ASSUME CpufreqInv, NEW c \in CPU, LockNew(c)
  PROVE  /\ call' \in [CPU -> Locals] /\ \A d \in CPU \ {c} : call'[d] = call[d]
         /\ call'[c].pc = "store" /\ call'[c].prev = last[c] /\ call'[c].todo = {"freq", "cluster"}
         /\ call'[c].old = call[c].old /\ call'[c].new = call[c].new
         /\ call'[c].rate = call[c].rate /\ call'[c].max = call[c].max
<1> DEFINE r == call[c]
           x == [r EXCEPT !.pc = "store", !.prev = last[c], !.todo = {"freq", "cluster"}]
<1>1. r \in Locals
  BY DEF CpufreqInv, CpufreqTypeOK
<1>0. last[c] \in Nat
  BY DEF CpufreqInv, CpufreqTypeOK
<1>2. x \in Locals /\ x.pc = "store" /\ x.prev = last[c] /\ x.todo = {"freq", "cluster"}
      /\ x.old = r.old /\ x.new = r.new /\ x.rate = r.rate /\ x.max = r.max
  <2> HIDE DEF r
  <2> QED BY <1>1, <1>0 DEF Locals
<1>3. call' = [call EXCEPT ![c] = x]
  BY DEF CpufreqInv, CpufreqTypeOK, LockNew
<1> HIDE DEF x
<1> QED BY <1>2, <1>3, LocalsEffect DEF CpufreqInv

(* One of the two writes is done. *)
LEMMA StoreEffect ==
  ASSUME CpufreqInv, NEW c \in CPU, NEW w, NEW f, NEW k, Store(c, w, f, k)
  PROVE  /\ call' \in [CPU -> Locals] /\ \A d \in CPU \ {c} : call'[d] = call[d]
         /\ call'[c].todo = call[c].todo \ {w}
         /\ call'[c].pc = call[c].pc /\ call'[c].old = call[c].old /\ call'[c].new = call[c].new
         /\ call'[c].rate = call[c].rate /\ call'[c].prev = call[c].prev /\ call'[c].max = call[c].max
<1> DEFINE r == call[c]
           x == [r EXCEPT !.todo = r.todo \ {w}]
<1>1. r \in Locals
  BY DEF CpufreqInv, CpufreqTypeOK
<1>2. x \in Locals /\ x.todo = r.todo \ {w}
      /\ x.pc = r.pc /\ x.old = r.old /\ x.new = r.new /\ x.rate = r.rate /\ x.prev = r.prev /\ x.max = r.max
  <2> HIDE DEF r
  <2> QED BY <1>1 DEF Locals
<1>3. call' = [call EXCEPT ![c] = x]
  BY DEF CpufreqInv, CpufreqTypeOK, Store
<1> HIDE DEF x
<1> QED BY <1>2, <1>3, LocalsEffect DEF CpufreqInv

(* The search for the maximum starts with the own request. *)
LEMMA ScanNewEffect ==
  ASSUME CpufreqInv, NEW c \in CPU, ScanNew(c)
  PROVE  /\ call' \in [CPU -> Locals] /\ \A d \in CPU \ {c} : call'[d] = call[d]
         /\ call'[c].pc = "scan_new" /\ call'[c].todo = CPU \ {c} /\ call'[c].max = call[c].rate
         /\ call'[c].old = call[c].old /\ call'[c].new = call[c].new
         /\ call'[c].rate = call[c].rate /\ call'[c].prev = call[c].prev
<1> DEFINE r == call[c]
           x == [r EXCEPT !.pc = "scan_new", !.todo = CPU \ {c}, !.max = r.rate]
<1>1. r \in Locals
  BY DEF CpufreqInv, CpufreqTypeOK
<1>2. x \in Locals /\ x.pc = "scan_new" /\ x.todo = CPU \ {c} /\ x.max = r.rate
      /\ x.old = r.old /\ x.new = r.new /\ x.rate = r.rate /\ x.prev = r.prev
  <2> HIDE DEF r
  <2> QED BY <1>1 DEF Locals
<1>3. call' = [call EXCEPT ![c] = x]
  BY DEF CpufreqInv, CpufreqTypeOK, ScanNew
<1> HIDE DEF x
<1> QED BY <1>2, <1>3, LocalsEffect DEF CpufreqInv

(* The writes are to be taken back. *)
LEMMA NewClkFailsEffect ==
  ASSUME CpufreqInv, NEW c \in CPU, NewClkFails(c)
  PROVE  /\ call' \in [CPU -> Locals] /\ \A d \in CPU \ {c} : call'[d] = call[d]
         /\ call'[c].pc = "rollback" /\ call'[c].todo = {"freq", "cluster"}
         /\ call'[c].old = call[c].old /\ call'[c].new = call[c].new
         /\ call'[c].rate = call[c].rate /\ call'[c].prev = call[c].prev /\ call'[c].max = call[c].max
<1> DEFINE r == call[c]
           x == [r EXCEPT !.pc = "rollback", !.todo = {"freq", "cluster"}]
<1>1. r \in Locals
  BY DEF CpufreqInv, CpufreqTypeOK
<1>2. x \in Locals /\ x.pc = "rollback" /\ x.todo = {"freq", "cluster"}
      /\ x.old = r.old /\ x.new = r.new /\ x.rate = r.rate /\ x.prev = r.prev /\ x.max = r.max
  <2> HIDE DEF r
  <2> QED BY <1>1 DEF Locals
<1>3. call' = [call EXCEPT ![c] = x]
  BY DEF CpufreqInv, CpufreqTypeOK, NewClkFails
<1> HIDE DEF x
<1> QED BY <1>2, <1>3, LocalsEffect DEF CpufreqInv

(* A step to the next part of the call. *)
LEMMA GotoEffect ==
  ASSUME CpufreqInv, NEW c \in CPU, NEW from, Goto(c, from, "lock_old")
  PROVE  /\ call' \in [CPU -> Locals] /\ \A d \in CPU \ {c} : call'[d] = call[d]
         /\ call'[c].pc = "lock_old"
         /\ call'[c].old = call[c].old /\ call'[c].new = call[c].new /\ call'[c].rate = call[c].rate
         /\ call'[c].prev = call[c].prev /\ call'[c].todo = call[c].todo /\ call'[c].max = call[c].max
<1> DEFINE r == call[c]
           x == [r EXCEPT !.pc = "lock_old"]
<1>1. r \in Locals
  BY DEF CpufreqInv, CpufreqTypeOK
<1>2. x \in Locals /\ x.pc = "lock_old"
      /\ x.old = r.old /\ x.new = r.new /\ x.rate = r.rate /\ x.prev = r.prev /\ x.todo = r.todo /\ x.max = r.max
  <2> HIDE DEF r
  <2> QED BY <1>1 DEF Locals
<1>3. call' = [call EXCEPT ![c] = x]
  BY DEF CpufreqInv, CpufreqTypeOK, Goto
<1> HIDE DEF x
<1> QED BY <1>2, <1>3, LocalsEffect DEF CpufreqInv

(* The search for the maximum on the old cluster. *)
LEMMA LockOldEffect ==
  ASSUME CpufreqInv, NEW c \in CPU, LockOld(c)
  PROVE  /\ call' \in [CPU -> Locals] /\ \A d \in CPU \ {c} : call'[d] = call[d]
         /\ call'[c].pc = "scan_old" /\ call'[c].todo = CPU \ {c}
         /\ call'[c].old = call[c].old /\ call'[c].new = call[c].new
         /\ call'[c].rate = call[c].rate /\ call'[c].prev = call[c].prev /\ call'[c].max = call[c].max
<1> DEFINE r == call[c]
           x == [r EXCEPT !.pc = "scan_old", !.todo = CPU \ {c}]
<1>1. r \in Locals
  BY DEF CpufreqInv, CpufreqTypeOK
<1>2. x \in Locals /\ x.pc = "scan_old" /\ x.todo = CPU \ {c}
      /\ x.old = r.old /\ x.new = r.new /\ x.rate = r.rate /\ x.prev = r.prev /\ x.max = r.max
  <2> HIDE DEF r
  <2> QED BY <1>1 DEF Locals
<1>3. call' = [call EXCEPT ![c] = x]
  BY DEF CpufreqInv, CpufreqTypeOK, LockOld
<1> HIDE DEF x
<1> QED BY <1>2, <1>3, LocalsEffect DEF CpufreqInv

(* find_cluster_maxfreq reads one more CPU. *)
LEMMA FindMaxfreqEffect ==
  ASSUME CpufreqInv, NEW c \in CPU, FindMaxfreq(c)
  PROVE  \E j \in call[c].todo :
         /\ call' \in [CPU -> Locals] /\ \A d \in CPU \ {c} : call'[d] = call[d]
         /\ call'[c].todo = call[c].todo \ {j} /\ j \in CPU
         /\ call'[c].max = IF /\ phys[j] = IF call[c].pc = "scan_new" THEN call[c].new ELSE call[c].old
                              /\ last[j] > call[c].max
                           THEN last[j] ELSE call[c].max
         /\ call'[c].pc = call[c].pc /\ call'[c].old = call[c].old /\ call'[c].new = call[c].new
         /\ call'[c].rate = call[c].rate /\ call'[c].prev = call[c].prev
<1> DEFINE r == call[c]
           k == IF r.pc = "scan_new" THEN r.new ELSE r.old
           j == CHOOSE i \in r.todo : TRUE
           m == IF phys[j] = k /\ last[j] > r.max THEN last[j] ELSE r.max
           x == [r EXCEPT !.todo = r.todo \ {j}, !.max = m]
<1>1. r \in Locals
  BY DEF CpufreqInv, CpufreqTypeOK
<1>2. j \in r.todo /\ j \in CPU
  <2>1. r.todo # {} /\ r.pc \in {"scan_new", "scan_old"}
    BY DEF FindMaxfreq
  <2>2. j \in r.todo
    BY <2>1
  <2> QED BY <2>1, <2>2 DEF CpufreqInv, CallsFormed
<1>3. m \in Nat
  <2>1. last[j] \in Nat
    BY <1>2 DEF CpufreqInv, CpufreqTypeOK
  <2> QED BY <1>1, <2>1 DEF Locals
<1>4. call' = [call EXCEPT ![c] = x]
  BY DEF CpufreqInv, CpufreqTypeOK, FindMaxfreq
<1> HIDE DEF m, j
<1>5. x \in Locals /\ x.todo = r.todo \ {j} /\ x.max = m /\ x.pc = r.pc /\ x.old = r.old
      /\ x.new = r.new /\ x.rate = r.rate /\ x.prev = r.prev
  <2> HIDE DEF r
  <2> QED BY <1>1, <1>3 DEF Locals
<1> HIDE DEF x
<1>6. /\ call' \in [CPU -> Locals] /\ call'[c] = x
      /\ \A d \in CPU \ {c} : call'[d] = call[d]
  BY <1>4, <1>5, LocalsEffect DEF CpufreqInv
<1>7. /\ call'[c].todo = call[c].todo \ {j}
      /\ call'[c].max = IF /\ phys[j] = IF call[c].pc = "scan_new" THEN call[c].new ELSE call[c].old
                           /\ last[j] > call[c].max
                        THEN last[j] ELSE call[c].max
      /\ call'[c].pc = call[c].pc /\ call'[c].old = call[c].old /\ call'[c].new = call[c].new
      /\ call'[c].rate = call[c].rate /\ call'[c].prev = call[c].prev
  BY <1>5, <1>6 DEF m
<1> HIDE DEF k
<1> QED BY <1>2, <1>6, <1>7

(* The lock of a cluster is dropped. *)
LEMMA UnlockEffect ==
  ASSUME CpufreqInv, NEW c \in CPU, NEW k \in Cluster, NEW nx, Unlock(c, k, nx),
         nx = Idle \/ nx = Moving(call[c])
  PROVE  /\ call' \in [CPU -> Locals] /\ call'[c] = nx
         /\ \A d \in CPU \ {c} : call'[d] = call[d]
         /\ lock' \in [Cluster -> CPU \cup {NONE}] /\ lock'[k] = NONE
         /\ \A i \in Cluster \ {k} : lock'[i] = lock[i]
<1>1. Moving(call[c]) \in Locals
  <2>1. call[c] \in Locals
    BY DEF CpufreqInv, CpufreqTypeOK
  <2>2. call[c].old \in Cluster \cup {NONE} /\ call[c].new \in Cluster \cup {NONE}
    BY <2>1 DEF Locals
  <2> QED BY <2>2 DEF Moving, Idle, Locals
<1>2. nx \in Locals
  BY <1>1, IdleLocals
<1>3. call' = [call EXCEPT ![c] = nx]
  BY DEF Unlock
<1>4. lock' = [lock EXCEPT ![k] = NONE] /\ lock \in [Cluster -> CPU \cup {NONE}]
  BY DEF Unlock, CpufreqInv, CpufreqTypeOK
<1> QED BY <1>2, <1>3, <1>4, LocalsEffect DEF CpufreqInv

(* The fields of a call that moves its CPU. *)
LEMMA MovingFields ==
  ASSUME NEW s
  PROVE  /\ Moving(s).pc = "request" /\ Moving(s).old = s.old /\ Moving(s).new = s.new
         /\ Moving(s).todo = {} /\ Moving(s).max = 0 /\ Moving(s).rate = 0
BY DEF Moving, Idle

(* The lock of a cluster is taken. *)
LEMMA LockEffect ==
  ASSUME CpufreqInv, NEW c \in CPU, NEW k \in Cluster, lock' = [lock EXCEPT ![k] = c]
  PROVE  /\ lock' \in [Cluster -> CPU \cup {NONE}] /\ lock'[k] = c
         /\ \A i \in Cluster \ {k} : lock'[i] = lock[i]
BY DEF CpufreqInv, CpufreqTypeOK

(* A clock is set, or the rate refused. *)
LEMMA SetClkEffect ==
  ASSUME CpufreqInv, NEW k \in Cluster, NEW f \in Nat, SetClk(k, f)
  PROVE  /\ clk' \in [Cluster -> Nat] /\ \A i \in Cluster \ {k} : clk'[i] = clk[i]
         /\ Fits(k, f) => clk'[k] = ActualFreq(k, f)
<1>1. ActualFreq(k, f) \in Nat
  BY DEF ActualFreq
<1> QED BY <1>1 DEF CpufreqInv, CpufreqTypeOK, SetClk, Fits

(* The frequency that a CPU asks for is one of its cluster's. *)
LEMMA NewClusterFits ==
  ASSUME NEW k \in Cluster, NEW f \in Table PROVE Fits(NewCluster(k, f), f)
<1>1. f \in Nat
  BY DEF Table
<1>2. CASE NewCluster(k, f) = A7
  <2>1. f \in LittleTable
    BY <1>1, <1>2 DEF NewCluster, A15, A7, Cluster, Table
  <2> QED BY <1>2, <2>1 DEF Fits, Supported
<1>3. CASE NewCluster(k, f) # A7
  <2>1. f \in BigTable
    BY <1>1, <1>3 DEF NewCluster, A15, A7, Cluster, Table
  <2> QED BY <1>3, <2>1 DEF Fits, Supported
<1> QED BY <1>2, <1>3

(* The locks and the calls, apart from what depends on no call having failed. *)
Formed(c) == LET s == call[c] IN
  /\ s.pc = "idle" => s = Idle
  /\ s.pc # "idle" => s.old \in Cluster /\ s.new \in Cluster
  /\ s.pc \in {"lock_new", "store", "scan_new"} => s.rate # 0
  /\ s.pc \in {"store", "rollback"} => s.todo \subseteq {"freq", "cluster"}
  /\ s.pc \in {"store", "scan_new", "rollback"} => s.prev # 0
  /\ s.pc \in {"scan_new", "scan_old"} => s.todo \subseteq CPU \ {c}
  /\ s.pc \in {"request", "lock_old", "scan_old"} => s.old # s.new
  /\ s.pc \in {"request", "lock_old"} => s.max = 0

(* A step of one call leaves the others as they are. *)
LEMMA CallsFrame ==
  ASSUME CpufreqInv, NEW c \in CPU, \A d \in CPU \ {c} : call'[d] = call[d], Formed(c)',
         \A k \in Cluster : /\ Holds(c, k)' <=> lock'[k] = c
                            /\ \A d \in CPU \ {c} : lock'[k] = d <=> lock[k] = d
  PROVE  CallsFormed' /\ LocksHeld'
<1>1. ASSUME NEW d \in CPU PROVE Formed(d)'
  BY DEF Formed, CpufreqInv, CallsFormed
<1>2. ASSUME NEW d \in CPU, NEW k \in Cluster PROVE Holds(d, k)' <=> lock'[k] = d
  BY DEF CpufreqInv, LocksHeld, Holds
<1> QED BY <1>1, <1>2 DEF CallsFormed, LocksHeld, Formed

(* Every step keeps the locks and the calls formed. *)
LEMMA FormedStep ==
  ASSUME CpufreqInv, CpufreqNext PROVE CpufreqTypeOK' /\ CallsFormed' /\ LocksHeld'
<1> DEFINE Goal == CpufreqTypeOK' /\ CallsFormed' /\ LocksHeld'
<1>a. CpufreqTypeOK /\ CallsFormed /\ LocksHeld
  BY DEF CpufreqInv
<1>b. \A c \in CPU : Formed(c)
  BY <1>a DEF CallsFormed, Formed
<1>1. ASSUME NEW c \in CPU, NEW f \in Table, SetTarget(c, f) PROVE Goal
  <2>0. f \in Nat \ {0} /\ phys[c] \in Cluster
    BY <1>a DEF Table, CpufreqTypeOK
  <2>1. UNCHANGED <<last, phys, clk, lock, asked, failed>>
    BY <1>1 DEF SetTarget
  <2>2. CpufreqTypeOK'
    BY <1>a, <1>1, <2>1, SetTargetEffect DEF CpufreqTypeOK
  <2>3. Formed(c)' /\ (\A k \in Cluster : ~Holds(c, k) /\ ~Holds(c, k)')
    BY <1>1, <2>0, SetTargetEffect DEF Formed, Holds
  <2> QED BY <1>a, <1>1, <2>1, <2>2, <2>3, SetTargetEffect, CallsFrame DEF LocksHeld
<1>2. ASSUME NEW c \in CPU, LockNew(c) PROVE Goal
  <2>0. /\ call[c].pc = "lock_new" /\ lock[call[c].new] = NONE
        /\ lock' = [lock EXCEPT ![call[c].new] = c] /\ UNCHANGED <<last, phys, clk, asked, failed>>
    BY <1>2 DEF LockNew
  <2>1. call[c].new \in Cluster /\ last[c] \in Nat \ {0}
    BY <1>a, <1>b, <2>0 DEF Formed, CpufreqTypeOK
  <2>2. CpufreqTypeOK'
    BY <1>a, <1>2, <2>0, <2>1, LockNewEffect, LockEffect DEF CpufreqTypeOK
  <2>3. Formed(c)'
    BY <1>b, <1>2, <2>0, <2>1, LockNewEffect DEF Formed
  <2>4. \A k \in Cluster : Holds(c, k)' <=> k = call[c].new
    BY <1>2, LockNewEffect DEF Holds
  <2>5. \A k \in Cluster : ~Holds(c, k)
    BY <2>0 DEF Holds
  <2>9. lock'[call[c].new] = c /\ \A i \in Cluster \ {call[c].new} : lock'[i] = lock[i]
    BY <2>0, <2>1, LockEffect
  <2>6. \A k \in Cluster : /\ Holds(c, k)' <=> lock'[k] = c
                           /\ \A d \in CPU \ {c} : lock'[k] = d <=> lock[k] = d
    BY <1>a, <2>0, <2>1, <2>4, <2>5, <2>9 DEF LocksHeld
  <2>7. \A d \in CPU \ {c} : call'[d] = call[d]
    BY <1>2, LockNewEffect
  <2>8. CallsFormed' /\ LocksHeld'
    BY <2>3, <2>6, <2>7, CallsFrame
  <2> QED BY <2>2, <2>8
<1>3. ASSUME NEW c \in CPU, NEW w, NEW f \in Nat \ {0}, NEW k \in Cluster, Store(c, w, f, k),
             call[c].pc \in {"store", "rollback"}
      PROVE  Goal
  <2>1. /\ last' = IF w = "freq" THEN [last EXCEPT ![c] = f] ELSE last
        /\ phys' = IF w = "cluster" THEN [phys EXCEPT ![c] = k] ELSE phys
        /\ UNCHANGED <<clk, lock, asked, failed>>
    BY <1>3 DEF Store
  <2>2. CpufreqTypeOK'
    BY <1>a, <1>3, <2>1, StoreEffect DEF CpufreqTypeOK
  <2>3. Formed(c)' /\ (\A i \in Cluster : Holds(c, i)' <=> Holds(c, i))
    BY <1>b, <1>3, StoreEffect DEF Formed, Holds
  <2> QED BY <1>a, <1>3, <2>1, <2>2, <2>3, StoreEffect, CallsFrame DEF LocksHeld
<1>4. ASSUME NEW c \in CPU, ScanNew(c) \/ NewClkFails(c) PROVE Goal
  <2>0. /\ call[c].pc = "store" \/ call[c].pc = "scan_new"
        /\ UNCHANGED <<last, phys, clk, lock, asked>> /\ failed' \in BOOLEAN
    BY <1>a, <1>4 DEF ScanNew, NewClkFails, CpufreqTypeOK
  <2>1. /\ call'[c].pc \in {"scan_new", "rollback"} /\ call'[c].new = call[c].new
        /\ call'[c].old = call[c].old /\ call'[c].rate = call[c].rate
        /\ call'[c].prev = call[c].prev
        /\ call' \in [CPU -> Locals] /\ \A d \in CPU \ {c} : call'[d] = call[d]
    BY <1>4, ScanNewEffect, NewClkFailsEffect
  <2>2. CpufreqTypeOK'
    BY <1>a, <2>0, <2>1 DEF CpufreqTypeOK
  <2>3. Formed(c)'
    <3>1. CASE ScanNew(c)
      <4>1. call[c].pc = "store" /\ call'[c].pc = "scan_new" /\ call'[c].todo = CPU \ {c}
        BY <3>1, ScanNewEffect DEF ScanNew
      <4> QED BY <1>b, <2>1, <4>1 DEF Formed
    <3>2. CASE NewClkFails(c)
      <4>1. /\ call[c].pc = "scan_new" /\ call'[c].pc = "rollback"
            /\ call'[c].todo = {"freq", "cluster"}
        BY <3>2, NewClkFailsEffect DEF NewClkFails
      <4> QED BY <1>b, <2>1, <4>1 DEF Formed
    <3> QED BY <1>4, <3>1, <3>2
  <2>4. \A i \in Cluster : Holds(c, i)' <=> Holds(c, i)
    BY <2>0, <2>1 DEF Holds
  <2> QED BY <1>a, <2>0, <2>1, <2>2, <2>3, <2>4, CallsFrame DEF LocksHeld
<1>5. ASSUME NEW c \in CPU, FindMaxfreq(c) PROVE Goal
  <2>0. call[c].pc \in {"scan_new", "scan_old"} /\ UNCHANGED <<last, phys, clk, lock, asked, failed>>
    BY <1>5 DEF FindMaxfreq
  <2>1. PICK j \in call[c].todo :
         /\ call' \in [CPU -> Locals] /\ \A d \in CPU \ {c} : call'[d] = call[d]
         /\ call'[c].todo = call[c].todo \ {j}
         /\ call'[c].pc = call[c].pc /\ call'[c].old = call[c].old /\ call'[c].new = call[c].new
         /\ call'[c].rate = call[c].rate /\ call'[c].prev = call[c].prev
    BY <1>5, FindMaxfreqEffect
  <2>2. CpufreqTypeOK'
    BY <1>a, <2>0, <2>1 DEF CpufreqTypeOK
  <2>3. Formed(c)' /\ (\A i \in Cluster : Holds(c, i)' <=> Holds(c, i))
    BY <1>b, <2>0, <2>1 DEF Formed, Holds
  <2> QED BY <1>a, <2>0, <2>1, <2>2, <2>3, CallsFrame DEF LocksHeld
<1>6. ASSUME NEW c \in CPU, NEW k \in Cluster, NEW nx, Unlock(c, k, nx), Holds(c, k),
             nx = Idle \/ (nx = Moving(call[c]) /\ call[c].old # call[c].new),
             clk' \in [Cluster -> Nat], failed' \in BOOLEAN, UNCHANGED <<last, phys, asked>>
      PROVE  Goal
  <2>1. CpufreqTypeOK'
    BY <1>a, <1>6, UnlockEffect DEF CpufreqTypeOK
  <2>2. call[c].pc # "idle" /\ call'[c] = nx
    BY <1>6, UnlockEffect DEF Holds
  <2>3. Formed(c)' /\ \A i \in Cluster : ~Holds(c, i)'
    <3>1. CASE nx = Idle
      BY <2>2, <3>1 DEF Idle, Formed, Holds
    <3>2. CASE nx = Moving(call[c]) /\ call[c].old # call[c].new
      BY <1>b, <2>2, <3>2, MovingFields DEF Formed, Holds
    <3> QED BY <1>6, <3>1, <3>2
  <2>4. \A i \in Cluster : Holds(c, i) => i = k
    BY <1>b, <1>6 DEF Holds
  <2>5. lock[k] = c
    BY <1>a, <1>6 DEF LocksHeld
  <2> QED BY <1>a, <1>6, <2>1, <2>3, <2>4, <2>5, UnlockEffect, CallsFrame DEF LocksHeld
<1>7. ASSUME NEW c \in CPU, Request(c) \/ RequestFails(c) PROVE Goal
  <2>0. /\ Goto(c, "request", "lock_old") /\ UNCHANGED <<last, phys, clk, lock>>
        /\ failed' \in BOOLEAN /\ (asked' = asked \/ asked' = [asked EXCEPT ![c] = call[c].new])
    BY <1>a, <1>7 DEF Request, RequestFails, CpufreqTypeOK
  <2>1. call[c].pc = "request" /\ call[c].new \in Cluster
    BY <1>b, <2>0 DEF Goto, Formed
  <2>2. CpufreqTypeOK'
    BY <1>a, <2>0, <2>1, GotoEffect DEF CpufreqTypeOK
  <2>3. Formed(c)' /\ (\A i \in Cluster : ~Holds(c, i) /\ ~Holds(c, i)')
    BY <1>b, <2>0, <2>1, GotoEffect DEF Formed, Holds
  <2> QED BY <1>a, <2>0, <2>2, <2>3, GotoEffect, CallsFrame DEF LocksHeld
<1>8. ASSUME NEW c \in CPU, LockOld(c) PROVE Goal
  <2>0. /\ call[c].pc = "lock_old" /\ lock[call[c].old] = NONE
        /\ lock' = [lock EXCEPT ![call[c].old] = c] /\ UNCHANGED <<last, phys, clk, asked, failed>>
    BY <1>8 DEF LockOld
  <2>1. call[c].old \in Cluster
    BY <1>b, <2>0 DEF Formed
  <2>2. CpufreqTypeOK'
    BY <1>a, <1>8, <2>0, <2>1, LockOldEffect, LockEffect DEF CpufreqTypeOK
  <2>3. Formed(c)'
    BY <1>b, <1>8, <2>0, LockOldEffect DEF Formed
  <2>4. \A k \in Cluster : Holds(c, k)' <=> k = call[c].old
    BY <1>8, LockOldEffect DEF Holds
  <2>5. \A k \in Cluster : ~Holds(c, k)
    BY <2>0 DEF Holds
  <2>9. lock'[call[c].old] = c /\ \A i \in Cluster \ {call[c].old} : lock'[i] = lock[i]
    BY <2>0, <2>1, LockEffect
  <2>6. \A k \in Cluster : /\ Holds(c, k)' <=> lock'[k] = c
                           /\ \A d \in CPU \ {c} : lock'[k] = d <=> lock[k] = d
    BY <1>a, <2>0, <2>1, <2>4, <2>5, <2>9 DEF LocksHeld
  <2>7. \A d \in CPU \ {c} : call'[d] = call[d]
    BY <1>8, LockOldEffect
  <2>8. CallsFormed' /\ LocksHeld'
    BY <2>3, <2>6, <2>7, CallsFrame
  <2> QED BY <2>2, <2>8
<1>9. ASSUME NEW c \in CPU, NEW w, StoreRequest(c, w) \/ StoreBack(c, w) PROVE Goal
  <2>1. /\ call[c].pc \in {"store", "rollback"}
        /\ Store(c, w, call[c].rate, call[c].new) \/ Store(c, w, call[c].prev, call[c].old)
        /\ call[c].pc = "store" \/ Store(c, w, call[c].prev, call[c].old)
    BY <1>9 DEF StoreRequest, StoreBack
  <2>2. call[c].rate \in Nat /\ call[c].prev \in Nat
    BY <1>a DEF CpufreqTypeOK, Locals
  <2> QED BY <1>3, <1>b, <2>1, <2>2 DEF Formed
<1>10. ASSUME NEW c \in CPU, SetNewClk(c) PROVE Goal
  <2>1. /\ call[c].pc = "scan_new" /\ SetClk(call[c].new, call[c].max)
        /\ Unlock(c, call[c].new, IF call[c].old = call[c].new THEN Idle ELSE Moving(call[c]))
        /\ UNCHANGED <<last, phys, asked, failed>>
    BY <1>10 DEF SetNewClk
  <2>2. call[c].new \in Cluster /\ call[c].max \in Nat /\ failed \in BOOLEAN
    BY <1>a, <1>b, <2>1 DEF Formed, CpufreqTypeOK, Locals
  <2>3. clk' \in [Cluster -> Nat] /\ Holds(c, call[c].new)
    BY <2>1, <2>2, SetClkEffect DEF Holds
  <2> QED BY <1>6, <2>1, <2>2, <2>3
<1>11. ASSUME NEW c \in CPU, Return(c) \/ SetOldClk(c) \/ OldClkFails(c) PROVE Goal
  <2>1. PICK k \in Cluster : Unlock(c, k, Idle) /\ Holds(c, k)
    BY <1>b, <1>11 DEF Return, SetOldClk, OldClkFails, Holds, Formed
  <2>2. UNCHANGED <<last, phys, asked>> /\ failed' \in BOOLEAN
    BY <1>a, <1>11 DEF Return, SetOldClk, OldClkFails, CpufreqTypeOK
  <2>3. clk' \in [Cluster -> Nat]
    <3>1. CASE clk' = clk
      BY <1>a, <3>1 DEF CpufreqTypeOK
    <3>2. CASE SetOldClk(c) /\ SetClk(call[c].old, call[c].max)
      BY <1>a, <1>b, <3>2, SetClkEffect DEF SetOldClk, Formed, CpufreqTypeOK, Locals
    <3> QED BY <1>11, <3>1, <3>2 DEF Return, SetOldClk, OldClkFails
  <2> QED BY <1>6, <2>1, <2>2, <2>3
<1> HIDE DEF Goal
<1>12. Goal
  BY <1>1, <1>2, <1>4, <1>5, <1>7, <1>8, <1>9, <1>10, <1>11 DEF CpufreqNext, Acquire, SetRate
<1> QED BY <1>12 DEF Goal

(* CallsTracked, call by call. *)
Tracked(c) == LET s == call[c] IN
  /\ s.pc \in {"idle", "lock_new"} => asked[c] = phys[c]
  /\ s.pc \in {"lock_new", "store", "scan_new", "request"} => asked[c] = s.old
  /\ s.pc \in {"lock_new", "store", "scan_new"} => Fits(s.new, s.rate)
  /\ s.pc = "store" => /\ phys[c] = IF "cluster" \in s.todo THEN s.old ELSE s.new
                       /\ "freq" \notin s.todo => last[c] = s.rate
  /\ s.pc \in {"scan_new", "request", "lock_old", "scan_old"} => phys[c] = s.new
  /\ s.pc = "scan_new" => last[c] = s.rate
  /\ s.pc \in {"lock_old", "scan_old"} => asked[c] = s.new
  /\ s.pc # "store" => Fits(phys[c], last[c])
  /\ s.pc # "rollback"

(* A step of one call writes nothing that belongs to another CPU. *)
OwnStep(c) ==
  /\ \A d \in CPU \ {c} : /\ call'[d] = call[d] /\ phys'[d] = phys[d]
                          /\ last'[d] = last[d] /\ asked'[d] = asked[d]
  /\ ~failed

(* What is said of the other CPUs' calls goes on holding. *)
LEMMA TrackedFrame ==
  ASSUME CallsTracked, NEW c \in CPU, OwnStep(c), Tracked(c)' PROVE CallsTracked'
<1>1. ASSUME NEW d \in CPU PROVE Tracked(d)'
  BY DEF Tracked, CallsTracked, OwnStep
<1> QED BY <1>1 DEF CallsTracked, Tracked

(* The steps of calls that nothing has failed for: what each one changes.    *)
LEMMA SetTargetTracked ==
  ASSUME CpufreqInv, NEW c \in CPU, NEW f \in Table, SetTarget(c, f), ~failed', CallsTracked
  PROVE  OwnStep(c) /\ Tracked(c)'
<1>1. UNCHANGED <<last, phys, clk, lock, asked, failed>>
  BY DEF SetTarget
<1>2. Fits(NewCluster(phys[c], f), f)
  BY NewClusterFits DEF CpufreqInv, CpufreqTypeOK
<1>3. Tracked(c)
  BY DEF CallsTracked, Tracked
<1> QED BY <1>1, <1>2, <1>3, SetTargetEffect DEF OwnStep, Tracked

(* cluster_lock of the new cluster is taken: nothing is written yet. *)
LEMMA LockNewTracked ==
  ASSUME CpufreqInv, NEW c \in CPU, LockNew(c), ~failed', CallsTracked
  PROVE  OwnStep(c) /\ Tracked(c)'
<1>1. UNCHANGED <<last, phys, clk, asked, failed>> /\ call[c].pc = "lock_new"
  BY DEF LockNew
<1>3. Tracked(c)
  BY DEF CallsTracked, Tracked
<1> QED BY <1>1, <1>3, LockNewEffect DEF OwnStep, Tracked

(* One of cpu_last_req_freq and physical_cluster is written. *)
LEMMA StoreTracked ==
  ASSUME CpufreqInv, NEW c \in CPU, NEW w, StoreRequest(c, w), ~failed', CallsTracked
  PROVE  OwnStep(c) /\ Tracked(c)'
<1>1. /\ call[c].pc = "store" /\ w \in call[c].todo /\ UNCHANGED <<asked, failed>>
      /\ last' = IF w = "freq" THEN [last EXCEPT ![c] = call[c].rate] ELSE last
      /\ phys' = IF w = "cluster" THEN [phys EXCEPT ![c] = call[c].new] ELSE phys
  BY DEF StoreRequest, Store
<1>2. Store(c, w, call[c].rate, call[c].new) /\ w \in {"freq", "cluster"}
  BY <1>1 DEF StoreRequest, CpufreqInv, CallsFormed
<1>3. Tracked(c) /\ last \in [CPU -> Nat \ {0}] /\ phys \in [CPU -> Cluster]
  BY DEF CallsTracked, Tracked, CpufreqInv, CpufreqTypeOK
<1>4. OwnStep(c)
  BY <1>1, <1>2, <1>3, StoreEffect DEF OwnStep
<1>5. /\ phys'[c] = IF w = "cluster" THEN call[c].new ELSE phys[c]
      /\ last'[c] = IF w = "freq" THEN call[c].rate ELSE last[c]
  BY <1>1, <1>3
<1> QED BY <1>1, <1>2, <1>3, <1>4, <1>5, StoreEffect DEF Tracked

(* Both are written. *)
LEMMA ScanNewTracked ==
  ASSUME CpufreqInv, NEW c \in CPU, ScanNew(c), ~failed', CallsTracked
  PROVE  OwnStep(c) /\ Tracked(c)'
<1>1. UNCHANGED <<last, phys, clk, asked, failed>> /\ call[c].pc = "store" /\ call[c].todo = {}
  BY DEF ScanNew
<1>3. Tracked(c)
  BY DEF CallsTracked, Tracked
<1> QED BY <1>1, <1>3, ScanNewEffect DEF OwnStep, Tracked

(* find_cluster_maxfreq only reads. *)
LEMMA FindMaxfreqTracked ==
  ASSUME CpufreqInv, NEW c \in CPU, FindMaxfreq(c), ~failed', CallsTracked
  PROVE  OwnStep(c) /\ Tracked(c)'
<1>1. UNCHANGED <<last, phys, clk, asked, failed>> /\ call[c].pc \in {"scan_new", "scan_old"}
  BY DEF FindMaxfreq
<1>2. /\ \A d \in CPU \ {c} : call'[d] = call[d]
      /\ call'[c].pc = call[c].pc /\ call'[c].old = call[c].old /\ call'[c].new = call[c].new
      /\ call'[c].rate = call[c].rate
  BY FindMaxfreqEffect
<1>3. Tracked(c)
  BY DEF CallsTracked, Tracked
<1> QED BY <1>1, <1>2, <1>3 DEF OwnStep, Tracked

(* The new cluster is done: the call ends, or goes on to the old one. *)
LEMMA SetNewClkTracked ==
  ASSUME CpufreqInv, NEW c \in CPU, SetNewClk(c), ~failed', CallsTracked
  PROVE  OwnStep(c) /\ Tracked(c)'
<1>1. /\ UNCHANGED <<last, phys, asked, failed>> /\ call[c].pc = "scan_new"
      /\ Unlock(c, call[c].new, IF call[c].old = call[c].new THEN Idle ELSE Moving(call[c]))
  BY DEF SetNewClk
<1>2. call[c].new \in Cluster
  BY <1>1 DEF CpufreqInv, CallsFormed
<1>3. Tracked(c)
  BY DEF CallsTracked, Tracked
<1>4. /\ \A d \in CPU \ {c} : call'[d] = call[d]
      /\ call'[c] = IF call[c].old = call[c].new THEN Idle ELSE Moving(call[c])
  BY <1>1, <1>2, UnlockEffect
<1>5. Idle.pc = "idle"
  BY DEF Idle
<1> QED BY <1>1, <1>3, <1>4, <1>5, MovingFields DEF OwnStep, Tracked

(* bL_switch_request: the switcher has been asked for the new cluster. *)
LEMMA RequestTracked ==
  ASSUME CpufreqInv, NEW c \in CPU, Request(c), ~failed', CallsTracked
  PROVE  OwnStep(c) /\ Tracked(c)'
<1>1. /\ UNCHANGED <<last, phys, clk, lock, failed>> /\ asked' = [asked EXCEPT ![c] = call[c].new]
      /\ Goto(c, "request", "lock_old") /\ call[c].pc = "request"
  BY DEF Request, Goto
<1>3. Tracked(c) /\ asked \in [CPU -> Cluster]
  BY DEF CallsTracked, Tracked, CpufreqInv, CpufreqTypeOK
<1> QED BY <1>1, <1>3, GotoEffect DEF OwnStep, Tracked

(* cluster_lock of the old cluster is taken. *)
LEMMA LockOldTracked ==
  ASSUME CpufreqInv, NEW c \in CPU, LockOld(c), ~failed', CallsTracked
  PROVE  OwnStep(c) /\ Tracked(c)'
<1>1. UNCHANGED <<last, phys, clk, asked, failed>> /\ call[c].pc = "lock_old"
  BY DEF LockOld
<1>3. Tracked(c)
  BY DEF CallsTracked, Tracked
<1> QED BY <1>1, <1>3, LockOldEffect DEF OwnStep, Tracked

(* The old cluster is done. *)
LEMMA SetOldClkTracked ==
  ASSUME CpufreqInv, NEW c \in CPU, SetOldClk(c), ~failed', CallsTracked
  PROVE  OwnStep(c) /\ Tracked(c)'
<1>1. /\ UNCHANGED <<last, phys, asked, failed>> /\ call[c].pc = "scan_old"
      /\ Unlock(c, call[c].old, Idle)
  BY DEF SetOldClk
<1>2. call[c].old \in Cluster
  BY <1>1 DEF CpufreqInv, CallsFormed
<1>3. Tracked(c)
  BY DEF CallsTracked, Tracked
<1>4. call'[c] = Idle /\ \A d \in CPU \ {c} : call'[d] = call[d]
  BY <1>1, <1>2, UnlockEffect
<1>5. Idle.pc = "idle"
  BY DEF Idle
<1> QED BY <1>1, <1>3, <1>4, <1>5 DEF OwnStep, Tracked
(* A step of c's call that leaves cluster k as it was. *)
Untouched(c, k) ==
  /\ clk'[k] = clk[k] /\ (lock'[k] = NONE => lock[k] = NONE)
  /\ phys'[c] = k <=> phys[c] = k
  /\ phys[c] = k => last'[c] = last[c]
  /\ Leaves(c, k) => Leaves(c, k)'
  /\ ~Scans(c, k)'

(* Its clock and what the others have seen of it are as right as before. *)
LEMMA UntouchedRight ==
  ASSUME NEW c \in CPU, NEW k \in Cluster, OwnStep(c), Untouched(c, k), RatesTracked
  PROVE  ClockRight(k)' /\ \A d \in CPU : ScanRight(d, k)'
<1>1. ClockRight(k) /\ \A d \in CPU : ScanRight(d, k)
  BY DEF RatesTracked
<1>2. \A d \in CPU : /\ phys'[d] = k <=> phys[d] = k
                     /\ phys[d] = k => last'[d] = last[d]
                     /\ Leaves(d, k) => Leaves(d, k)'
  BY DEF OwnStep, Untouched, Leaves
<1>3. \A f : \A s \in SUBSET CPU : Highest(f, k, s)' <=> Highest(f, k, s)
  BY <1>2 DEF Highest
<1>4. ClockRight(k)'
  <2> SUFFICES ASSUME lock'[k] = NONE, \A d \in CPU : ~Leaves(d, k)', \E d \in CPU : phys'[d] = k
               PROVE  \E d \in CPU : Highest(last[d], k, CPU)' /\ clk'[k] = ActualFreq(k, last'[d])
    BY DEF ClockRight
  <2>1. PICK d \in CPU : Highest(last[d], k, CPU) /\ clk[k] = ActualFreq(k, last[d])
    BY <1>1, <1>2 DEF ClockRight, Untouched
  <2>2. PICK e \in CPU : phys[e] = k /\ last[e] = last[d]
    BY <2>1 DEF Highest
  <2>3. last'[e] = last[d] /\ clk'[k] = clk[k]
    BY <1>2, <2>2 DEF Untouched
  <2>4. \A i \in CPU : phys'[i] = k => last'[i] <= last'[e]
    BY <1>2, <2>1, <2>3 DEF Highest
  <2>5. Highest(last[e], k, CPU)'
    BY <1>2, <2>2, <2>4 DEF Highest
  <2> QED BY <2>1, <2>3, <2>5
<1>5. ASSUME NEW d \in CPU PROVE ScanRight(d, k)'
  <2>1. CASE d = c
    BY <2>1 DEF Untouched, ScanRight
  <2>2. CASE d # c
    <3>1. call'[d] = call[d]
      BY <2>2 DEF OwnStep
    <3> SUFFICES ASSUME Scans(d, k)', \A i \in CPU \ {d} : ~Leaves(i, k)'
                 PROVE  \/ Highest(call[d].max, k, CPU \ call[d].todo)'
                        \/ call'[d].max = 0 /\ \A i \in CPU \ call'[d].todo : phys'[i] # k
      BY DEF ScanRight
    <3>2. Scans(d, k) /\ \A i \in CPU \ {d} : ~Leaves(i, k)
      BY <1>2, <3>1 DEF Scans, Holds
    <3>3. \/ Highest(call[d].max, k, CPU \ call[d].todo)
          \/ call[d].max = 0 /\ \A i \in CPU \ call[d].todo : phys[i] # k
      BY <1>1, <3>2 DEF ScanRight
    <3> QED BY <1>2, <3>1, <3>3 DEF Highest
  <2> QED BY <2>1, <2>2
<1> QED BY <1>4, <1>5

(* Nothing is said of a cluster whose lock c's call has, but what c has seen. *)
LEMMA LockedRight ==
  ASSUME NEW c \in CPU, NEW k \in Cluster, LocksHeld', lock'[k] = c, ScanRight(c, k)'
  PROVE  ClockRight(k)' /\ \A d \in CPU : ScanRight(d, k)'
<1>1. lock'[k] # NONE
  OBVIOUS
<1>2. \A d \in CPU \ {c} : ~Scans(d, k)'
  BY DEF LocksHeld, Scans
<1> QED BY <1>1, <1>2 DEF ClockRight, ScanRight

(* Nor of one that c's CPU is about to leave. *)
LEMMA LeftRight ==
  ASSUME NEW c \in CPU, NEW k \in Cluster, Leaves(c, k)', ~Scans(c, k)'
  PROVE  ClockRight(k)' /\ \A d \in CPU : ScanRight(d, k)'
BY DEF ClockRight, ScanRight

(* A scan that has read every CPU, on a cluster that no other CPU is leaving, *)
(* has the highest request, and the clock can be set to it.                   *)
LEMMA ScanComplete ==
  ASSUME CpufreqInv, ~failed, NEW c \in CPU, NEW k \in Cluster, Scans(c, k), call[c].todo = {},
         \A d \in CPU \ {c} : ~Leaves(d, k), \E d \in CPU : phys[d] = k
  PROVE  \E d \in CPU : /\ Highest(last[d], k, CPU) /\ last[d] = call[c].max
                        /\ Fits(k, call[c].max) /\ call[c].max # 0
<1>1. Highest(call[c].max, k, CPU)
  BY DEF CpufreqInv, RatesTracked, ScanRight
<1>2. PICK d \in CPU : phys[d] = k /\ last[d] = call[c].max
  BY <1>1 DEF Highest
<1>3. Tracked(d) /\ lock[k] = c
  BY DEF CpufreqInv, CallsTracked, Tracked, LocksHeld, Scans
<1>4. call[d].pc # "store"
  <2> SUFFICES ASSUME call[d].pc = "store" PROVE FALSE
    OBVIOUS
  <2>1. d # c
    BY DEF Scans
  <2>2. call[d].new # k
    BY <1>3, <2>1 DEF CpufreqInv, LocksHeld, Holds
  <2>3. call[d].old = k
    BY <1>2, <1>3, <2>2 DEF Tracked
  <2> QED BY <2>1, <2>2, <2>3 DEF Leaves
<1>5. Fits(k, call[c].max)
  BY <1>2, <1>3, <1>4 DEF Tracked
<1>6. call[c].max # 0
  BY <1>2 DEF CpufreqInv, CpufreqTypeOK
<1> QED BY <1>1, <1>2, <1>5, <1>6
(* RatesTracked, cluster by cluster. *)
Right(k) == ClockRight(k) /\ \A c \in CPU : ScanRight(c, k)

(* The steps of calls that nothing has failed for: no clock goes wrong.       *)
LEMMA SetTargetRight ==
  ASSUME CpufreqInv, NEW c \in CPU, NEW f \in Table, SetTarget(c, f), OwnStep(c), NEW k \in Cluster
  PROVE  Right(k)'
<1>1. UNCHANGED <<last, phys, clk, lock, failed>>
  BY DEF SetTarget
<1>2. Untouched(c, k)
  BY <1>1, SetTargetEffect DEF Untouched, Leaves, Scans
<1> QED BY <1>2, UntouchedRight DEF CpufreqInv, OwnStep, Right

(* With the lock the new cluster is c's, and the old one is being left. *)
LEMMA LockNewRight ==
  ASSUME CpufreqInv, NEW c \in CPU, LockNew(c), OwnStep(c), LocksHeld', NEW k \in Cluster
  PROVE  Right(k)'
<1>1. /\ UNCHANGED <<last, phys, clk, failed>> /\ call[c].pc = "lock_new"
      /\ lock' = [lock EXCEPT ![call[c].new] = c]
  BY DEF LockNew
<1>2. ~Scans(c, k)' /\ call[c].new \in Cluster
  BY <1>1, LockNewEffect DEF Scans, CpufreqInv, CallsFormed
<1>3. lock'[call[c].new] = c /\ \A i \in Cluster \ {call[c].new} : lock'[i] = lock[i]
  BY <1>1, <1>2, LockEffect
<1>4. CASE k = call[c].new
  BY <1>2, <1>3, <1>4, LockedRight DEF ScanRight, Right
<1>5. CASE k = call[c].old /\ k # call[c].new
  <2>1. Leaves(c, k)'
    BY <1>5, LockNewEffect DEF Leaves
  <2> QED BY <1>2, <2>1, LeftRight DEF Right
<1>6. CASE k # call[c].old /\ k # call[c].new
  <2>1. Untouched(c, k)
    BY <1>1, <1>2, <1>3, <1>6, LockNewEffect DEF Untouched, Leaves
  <2> QED BY <2>1, UntouchedRight DEF CpufreqInv, OwnStep, Right
<1> QED BY <1>4, <1>5, <1>6

(* A write to a CPU's request or cluster shows on these two clusters only. *)
LEMMA StoreRight ==
  ASSUME CpufreqInv, NEW c \in CPU, NEW w, StoreRequest(c, w), OwnStep(c), LocksHeld',
         NEW k \in Cluster
  PROVE  Right(k)'
<1>1. /\ call[c].pc = "store" /\ UNCHANGED <<clk, lock, failed>>
      /\ phys' = IF w = "cluster" THEN [phys EXCEPT ![c] = call[c].new] ELSE phys
      /\ Store(c, w, call[c].rate, call[c].new)
  BY DEF StoreRequest, Store
<1>2. /\ ~Scans(c, k)' /\ call'[c].pc = "store"
      /\ call'[c].old = call[c].old /\ call'[c].new = call[c].new
  BY <1>1, StoreEffect DEF Scans
<1>3. CASE k = call[c].new
  <2>1. lock'[k] = c
    BY <1>1, <1>3 DEF CpufreqInv, LocksHeld, Holds
  <2> QED BY <1>2, <2>1, LockedRight DEF ScanRight, Right
<1>4. CASE k = call[c].old /\ k # call[c].new
  <2>1. Leaves(c, k)'
    BY <1>2, <1>4 DEF Leaves
  <2> QED BY <1>2, <2>1, LeftRight DEF Right
<1>5. CASE k # call[c].old /\ k # call[c].new
  <2>1. phys[c] # k
    BY <1>1, <1>5 DEF CpufreqInv, CallsTracked, OwnStep
  <2>2. phys'[c] # k
    BY <1>1, <1>5, <2>1 DEF CpufreqInv, CpufreqTypeOK
  <2>3. Untouched(c, k)
    BY <1>1, <1>2, <1>5, <2>1, <2>2 DEF Untouched, Leaves
  <2> QED BY <2>3, UntouchedRight DEF CpufreqInv, OwnStep, Right
<1> QED BY <1>3, <1>4, <1>5

(* The scan of the new cluster starts with the own request as the maximum. *)
LEMMA ScanNewRight ==
  ASSUME CpufreqInv, NEW c \in CPU, ScanNew(c), OwnStep(c), LocksHeld', NEW k \in Cluster
  PROVE  Right(k)'
<1>1. /\ call[c].pc = "store" /\ call[c].todo = {} /\ UNCHANGED <<last, phys, clk, lock, failed>>
  BY DEF ScanNew
<1>2. CASE k = call[c].new
  <2>1. lock'[k] = c
    BY <1>1, <1>2 DEF CpufreqInv, LocksHeld, Holds
  <2>2. phys[c] = k /\ last[c] = call[c].rate
    BY <1>1, <1>2 DEF CpufreqInv, CallsTracked, OwnStep
  <2>3. CPU \ call'[c].todo = {c} /\ call'[c].max = call[c].rate
    BY ScanNewEffect
  <2>4. last[c] <= last[c]
    BY DEF CpufreqInv, CpufreqTypeOK
  <2>5. Highest(call[c].max, k, CPU \ call[c].todo)'
    BY <1>1, <2>2, <2>3, <2>4 DEF Highest
  <2>6. ScanRight(c, k)'
    BY <2>5 DEF ScanRight
  <2> QED BY <2>1, <2>6, LockedRight DEF Right
<1>3. CASE k # call[c].new
  <2>1. Untouched(c, k)
    BY <1>1, <1>3, ScanNewEffect DEF Untouched, Leaves, Scans, Holds
  <2> QED BY <2>1, UntouchedRight DEF CpufreqInv, OwnStep, Right
<1> QED BY <1>2, <1>3

(* One more CPU is taken into the maximum of the scanned cluster. *)
LEMMA FindMaxfreqRight ==
  ASSUME CpufreqInv, NEW c \in CPU, FindMaxfreq(c), OwnStep(c), LocksHeld', NEW k \in Cluster
  PROVE  Right(k)'
<1>1. call[c].pc \in {"scan_new", "scan_old"} /\ UNCHANGED <<last, phys, clk, lock, failed>>
  BY DEF FindMaxfreq
<1>2. PICK j \in call[c].todo :
         /\ call'[c].todo = call[c].todo \ {j} /\ j \in CPU
         /\ call'[c].max = IF /\ phys[j] = IF call[c].pc = "scan_new" THEN call[c].new ELSE call[c].old
                              /\ last[j] > call[c].max
                           THEN last[j] ELSE call[c].max
         /\ call'[c].pc = call[c].pc /\ call'[c].old = call[c].old /\ call'[c].new = call[c].new
  BY FindMaxfreqEffect
<1>3. Scans(c, k)' <=> Scans(c, k)
  BY <1>2 DEF Scans, Holds
<1>4. CASE Scans(c, k)
  <2>1. lock'[k] = c
    BY <1>1, <1>4 DEF CpufreqInv, LocksHeld, Scans
  <2>2. call'[c].max = IF phys[j] = k /\ last[j] > call[c].max THEN last[j] ELSE call[c].max
    BY <1>2, <1>4 DEF Scans, Holds
  <2>3. ScanRight(c, k)'
    <3> SUFFICES ASSUME \A d \in CPU \ {c} : ~Leaves(d, k)'
                 PROVE  \/ Highest(call[c].max, k, CPU \ call[c].todo)'
                        \/ call'[c].max = 0 /\ \A d \in CPU \ call'[c].todo : phys'[d] # k
      BY DEF ScanRight
    <3>1. \A d \in CPU \ {c} : ~Leaves(d, k)
      BY DEF OwnStep, Leaves
    <3>2. \/ Highest(call[c].max, k, CPU \ call[c].todo)
          \/ call[c].max = 0 /\ \A d \in CPU \ call[c].todo : phys[d] # k
      BY <1>4, <3>1 DEF CpufreqInv, RatesTracked, ScanRight, OwnStep
    <3>3. CPU \ call'[c].todo = (CPU \ call[c].todo) \cup {j}
      BY <1>2
    <3>4. \A d \in CPU : last[d] \in Nat \ {0}
      BY DEF CpufreqInv, CpufreqTypeOK
    <3>5. call[c].max \in Nat
      BY DEF CpufreqInv, CpufreqTypeOK, Locals
    <3>6. CASE Highest(call[c].max, k, CPU \ call[c].todo)
      BY <1>1, <1>2, <2>2, <3>3, <3>4, <3>5, <3>6 DEF Highest
    <3>7. CASE call[c].max = 0 /\ \A d \in CPU \ call[c].todo : phys[d] # k
      BY <1>1, <1>2, <2>2, <3>3, <3>4, <3>7 DEF Highest
    <3> QED BY <3>2, <3>6, <3>7
  <2> QED BY <2>1, <2>3, LockedRight DEF Right
<1>5. CASE ~Scans(c, k)
  <2>1. Untouched(c, k)
    BY <1>1, <1>2, <1>3, <1>5 DEF Untouched, Leaves
  <2> QED BY <2>1, UntouchedRight DEF CpufreqInv, OwnStep, Right
<1> QED BY <1>4, <1>5
(* The clock of a cluster that has been scanned to the end is right when its  *)
(* lock is dropped.                                                           *)
LEMMA ScannedRight ==
  ASSUME CpufreqInv, NEW c \in CPU, NEW k \in Cluster, Scans(c, k), call[c].todo = {},
         OwnStep(c), LocksHeld', lock'[k] = NONE, UNCHANGED <<last, phys>>,
         call[c].max # 0 /\ Fits(k, call[c].max) => clk'[k] = ActualFreq(k, call[c].max)
  PROVE  Right(k)'
<1>1. \A d \in CPU : ScanRight(d, k)'
  <2>1. \A d \in CPU : ~Scans(d, k)'
    BY DEF LocksHeld, Scans
  <2> QED BY <2>1 DEF ScanRight
<1>2. ClockRight(k)'
  <2> SUFFICES ASSUME \A d \in CPU : ~Leaves(d, k)', \E d \in CPU : phys'[d] = k
               PROVE  \E d \in CPU : Highest(last[d], k, CPU)' /\ clk'[k] = ActualFreq(k, last'[d])
    BY DEF ClockRight
  <2>1. \A d \in CPU \ {c} : ~Leaves(d, k)
    BY DEF OwnStep, Leaves
  <2>2. \E d \in CPU : phys[d] = k
    OBVIOUS
  <2>3. PICK d \in CPU : /\ Highest(last[d], k, CPU) /\ last[d] = call[c].max
                         /\ Fits(k, call[c].max) /\ call[c].max # 0
    BY <2>1, <2>2, ScanComplete DEF OwnStep
  <2>4. Highest(last[d], k, CPU)'
    BY <2>3 DEF Highest
  <2> QED BY <2>3, <2>4
<1> QED BY <1>1, <1>2 DEF Right

(* The new cluster's clock is set to the maximum of the scan. *)
LEMMA SetNewClkRight ==
  ASSUME CpufreqInv, NEW c \in CPU, SetNewClk(c), OwnStep(c), LocksHeld', NEW k \in Cluster
  PROVE  Right(k)'
<1>1. /\ call[c].pc = "scan_new" /\ call[c].todo = {} /\ SetClk(call[c].new, call[c].max)
      /\ Unlock(c, call[c].new, IF call[c].old = call[c].new THEN Idle ELSE Moving(call[c]))
      /\ UNCHANGED <<last, phys, failed>>
  BY DEF SetNewClk
<1>2. call[c].new \in Cluster /\ call[c].max \in Nat
  BY <1>1 DEF CpufreqInv, CallsFormed, CpufreqTypeOK, Locals
<1>3. /\ call'[c] = IF call[c].old = call[c].new THEN Idle ELSE Moving(call[c])
      /\ lock'[call[c].new] = NONE /\ \A i \in Cluster \ {call[c].new} : lock'[i] = lock[i]
  BY <1>1, <1>2, UnlockEffect
<1>4. /\ \A i \in Cluster \ {call[c].new} : clk'[i] = clk[i]
      /\ Fits(call[c].new, call[c].max) => clk'[call[c].new] = ActualFreq(call[c].new, call[c].max)
  BY <1>1, <1>2, SetClkEffect
<1>5. CASE k = call[c].new
  <2>1. Scans(c, k)
    BY <1>1, <1>5 DEF Scans, Holds
  <2> QED BY <1>1, <1>3, <1>4, <1>5, <2>1, ScannedRight
<1>6. CASE k # call[c].new
  <2>1. ~Scans(c, k)'
    BY <1>3, MovingFields DEF Scans, Idle
  <2>2. Leaves(c, k) => Leaves(c, k)'
    BY <1>3, MovingFields DEF Leaves
  <2>3. Untouched(c, k)
    BY <1>1, <1>3, <1>4, <1>6, <2>1, <2>2 DEF Untouched
  <2> QED BY <2>3, UntouchedRight DEF CpufreqInv, OwnStep, Right
<1> QED BY <1>5, <1>6

(* bL_switch_request touches no clock. *)
LEMMA RequestRight ==
  ASSUME CpufreqInv, NEW c \in CPU, Request(c), OwnStep(c), NEW k \in Cluster
  PROVE  Right(k)'
<1>1. UNCHANGED <<last, phys, clk, lock, failed>> /\ Goto(c, "request", "lock_old")
  BY DEF Request
<1>2. Untouched(c, k)
  BY <1>1, GotoEffect DEF Untouched, Leaves, Scans
<1> QED BY <1>2, UntouchedRight DEF CpufreqInv, OwnStep, Right

(* The scan of the old cluster starts from nothing: c is not on it any *)
(* more.                                                               *)
LEMMA LockOldRight ==
  ASSUME CpufreqInv, NEW c \in CPU, LockOld(c), OwnStep(c), LocksHeld', NEW k \in Cluster
  PROVE  Right(k)'
<1>1. /\ call[c].pc = "lock_old" /\ UNCHANGED <<last, phys, clk, failed>>
      /\ lock' = [lock EXCEPT ![call[c].old] = c]
  BY DEF LockOld
<1>2. call[c].old \in Cluster /\ call[c].old # call[c].new /\ call[c].max = 0
  BY <1>1 DEF CpufreqInv, CallsFormed
<1>3. lock'[call[c].old] = c /\ \A i \in Cluster \ {call[c].old} : lock'[i] = lock[i]
  BY <1>1, <1>2, LockEffect
<1>4. CASE k = call[c].old
  <2>1. phys'[c] # k
    BY <1>1, <1>2, <1>4 DEF CpufreqInv, CallsTracked, OwnStep
  <2>2. CPU \ call'[c].todo = {c} /\ call'[c].max = 0
    BY <1>2, LockOldEffect
  <2>3. ScanRight(c, k)'
    BY <2>1, <2>2 DEF ScanRight
  <2> QED BY <1>3, <1>4, <2>3, LockedRight DEF Right
<1>5. CASE k # call[c].old
  <2>1. Untouched(c, k)
    BY <1>1, <1>3, <1>5, LockOldEffect DEF Untouched, Leaves, Scans, Holds
  <2> QED BY <2>1, UntouchedRight DEF CpufreqInv, OwnStep, Right
<1> QED BY <1>4, <1>5

(* The old cluster's clock is set to the maximum of the CPUs left, if any. *)
LEMMA SetOldClkRight ==
  ASSUME CpufreqInv, NEW c \in CPU, SetOldClk(c), OwnStep(c), LocksHeld', NEW k \in Cluster
  PROVE  Right(k)'
<1>1. /\ call[c].pc = "scan_old" /\ call[c].todo = {} /\ Unlock(c, call[c].old, Idle)
      /\ IF call[c].max # 0 THEN SetClk(call[c].old, call[c].max) ELSE clk' = clk
      /\ UNCHANGED <<last, phys, failed>>
  BY DEF SetOldClk
<1>2. call[c].old \in Cluster /\ call[c].max \in Nat
  BY <1>1 DEF CpufreqInv, CallsFormed, CpufreqTypeOK, Locals
<1>3. /\ call'[c] = Idle
      /\ lock'[call[c].old] = NONE /\ \A i \in Cluster \ {call[c].old} : lock'[i] = lock[i]
  BY <1>1, <1>2, UnlockEffect
<1>4. /\ \A i \in Cluster \ {call[c].old} : clk'[i] = clk[i]
      /\ call[c].max # 0 /\ Fits(call[c].old, call[c].max)
           => clk'[call[c].old] = ActualFreq(call[c].old, call[c].max)
  BY <1>1, <1>2, SetClkEffect
<1>5. CASE k = call[c].old
  <2>1. Scans(c, k)
    BY <1>1, <1>5 DEF Scans, Holds
  <2> QED BY <1>1, <1>3, <1>4, <1>5, <2>1, ScannedRight
<1>6. CASE k # call[c].old
  <2>1. ~Scans(c, k)' /\ ~Leaves(c, k)
    BY <1>3, <1>6 DEF Scans, Idle, Leaves
  <2>2. Untouched(c, k)
    BY <1>1, <1>3, <1>4, <1>6, <2>1 DEF Untouched
  <2> QED BY <2>2, UntouchedRight DEF CpufreqInv, OwnStep, Right
<1> QED BY <1>5, <1>6

(* Every step keeps the calls and the clocks tracked, unless it fails. *)
LEMMA TrackedStep ==
  ASSUME CpufreqInv, CpufreqNext, ~failed' PROVE CallsTracked' /\ RatesTracked'
<1>1. LocksHeld'
  BY FormedStep
<1>2. ~failed /\ CallsTracked
  <2>1. ~failed
    BY DEF CpufreqNext, Acquire, SetRate, SetTarget, LockNew, LockOld, StoreRequest, StoreBack, Store,
           ScanNew, FindMaxfreq, SetNewClk, NewClkFails, Return, Request, RequestFails, SetOldClk,
           OldClkFails
  <2> QED BY <2>1 DEF CpufreqInv
<1>3. PICK c \in CPU : (\E f \in Table : SetTarget(c, f)) \/ Acquire(c) \/ SetRate(c)
  BY DEF CpufreqNext
<1>4. call[c].pc # "rollback"
  BY <1>2 DEF CallsTracked
<1>5. \/ \E f \in Table : SetTarget(c, f)
      \/ LockNew(c) \/ LockOld(c) \/ \E w \in {"freq", "cluster"} : StoreRequest(c, w)
      \/ ScanNew(c) \/ FindMaxfreq(c) \/ SetNewClk(c) \/ Request(c) \/ SetOldClk(c)
  BY <1>3, <1>4 DEF Acquire, SetRate, StoreBack, NewClkFails, Return, RequestFails, OldClkFails
<1>6. OwnStep(c) /\ Tracked(c)'
  BY <1>2, <1>5, SetTargetTracked, LockNewTracked, LockOldTracked, StoreTracked, ScanNewTracked,
     FindMaxfreqTracked, SetNewClkTracked, RequestTracked, SetOldClkTracked
<1>7. ASSUME NEW k \in Cluster PROVE Right(k)'
  BY <1>1, <1>5, <1>6, SetTargetRight, LockNewRight, LockOldRight, StoreRight, ScanNewRight,
     FindMaxfreqRight, SetNewClkRight, RequestRight, SetOldClkRight
<1>8. CallsTracked'
  BY <1>2, <1>6, TrackedFrame
<1> QED BY <1>7, <1>8 DEF RatesTracked, Right

(* The invariant holds when the driver is registered: all CPUs on the A15     *)
(* cluster, at the frequency its clock has.                                   *)
LEMMA CpufreqInitInv == CpufreqInit => CpufreqInv
<1> SUFFICES ASSUME CpufreqInit PROVE CpufreqInv
  OBVIOUS
<1>1. PICK f \in BigTable, g \in LittleTable :
         /\ clk = [k \in Cluster |-> ActualFreq(k, IF k = A15 THEN f ELSE g)]
         /\ last = [c \in CPU |-> f]
  BY DEF CpufreqInit
<1>2. /\ phys = [c \in CPU |-> A15] /\ asked = phys /\ lock = [k \in Cluster |-> NONE]
      /\ call = [c \in CPU |-> Idle] /\ failed = FALSE
  BY DEF CpufreqInit
<1>3. f \in Nat \ {0} /\ g \in Nat \ {0} /\ Fits(A15, f) /\ A15 \in Cluster
  BY DEF Fits, Supported, A15, A7, Cluster
<1>4. CpufreqTypeOK
  <2>1. \A k \in Cluster : ActualFreq(k, IF k = A15 THEN f ELSE g) \in Nat
    BY <1>3 DEF ActualFreq
  <2> QED BY <1>1, <1>2, <1>3, <2>1, IdleLocals DEF CpufreqTypeOK
<1>5. \A c \in CPU : call[c] = Idle /\ call[c].pc = "idle" /\ phys[c] = A15 /\ last[c] = f
  BY <1>1, <1>2 DEF Idle
<1>6. CallsFormed
  BY <1>5 DEF CallsFormed
<1>7. LocksHeld
  BY <1>2, <1>5 DEF LocksHeld, Holds
<1>8. CallsTracked
  BY <1>2, <1>3, <1>5 DEF CallsTracked
<1>9. RatesTracked
  <2> SUFFICES ASSUME NEW k \in Cluster PROVE ClockRight(k) /\ \A c \in CPU : ScanRight(c, k)
    BY DEF RatesTracked
  <2>1. \A c \in CPU : ScanRight(c, k)
    BY <1>5 DEF ScanRight, Scans
  <2>2. ClockRight(k)
    <3> SUFFICES ASSUME NEW c \in CPU, phys[c] = k
                 PROVE  Highest(last[c], k, CPU) /\ clk[k] = ActualFreq(k, last[c])
      BY DEF ClockRight
    <3>1. k = A15 /\ clk[k] = ActualFreq(k, f)
      BY <1>1, <1>5
    <3> QED BY <1>3, <1>5, <3>1 DEF Highest
  <2> QED BY <2>1, <2>2
<1> QED BY <1>4, <1>6, <1>7, <1>8, <1>9 DEF CpufreqInv
(* CpufreqInv is an invariant of the driver's calls, for any number of CPUs   *)
(* and any tables, whatever calls fail: the locks exclude, and as long as     *)
(* nothing has failed the clock of a cluster that nobody locks or leaves is   *)
(* the highest request on it.                                                 *)
THEOREM CpufreqInvariant == CpufreqSafetySpec => []CpufreqInv
<1>1. CpufreqInv /\ [CpufreqNext]_kvars => CpufreqInv'
  <2> SUFFICES ASSUME CpufreqInv, [CpufreqNext]_kvars PROVE CpufreqInv'
    OBVIOUS
  <2>1. CASE CpufreqNext
    BY <2>1, FormedStep, TrackedStep DEF CpufreqInv
  <2>2. CASE UNCHANGED kvars
    <3>1. /\ last' = last /\ phys' = phys /\ clk' = clk /\ lock' = lock /\ call' = call
          /\ asked' = asked /\ failed' = failed
      BY <2>2 DEF kvars
    <3> QED BY <3>1 DEF CpufreqInv, CpufreqTypeOK, CallsFormed, LocksHeld, Holds, CallsTracked,
                        RatesTracked, ClockRight, ScanRight, Scans, Leaves, Highest
  <2> QED BY <2>1, <2>2
<1> QED BY <1>1, CpufreqInitInv, PTL DEF CpufreqSafetySpec

(* The maximum of a set that has one. *)
LEMMA MaxIs ==
  ASSUME NEW S \in SUBSET Nat, NEW m \in S, \A x \in S : x <= m PROVE Max(S) = m
<1>1. \E x \in S : \A y \in S : x >= y
  OBVIOUS
<1>2. Max(S) \in S /\ \A y \in S : Max(S) >= y
  BY <1>1 DEF Max
<1>3. Max(S) \in Nat /\ m \in Nat /\ Max(S) >= m /\ Max(S) <= m
  BY <1>2
<1> QED BY <1>3

(* When the calls that touch a cluster are done its clock runs at the highest *)
(* frequency that the CPUs on it ask for, however the calls interleaved.      *)
THEOREM CpufreqRateSettles == CpufreqSafetySpec => []RateSettles
<1>1. ASSUME CpufreqInv PROVE RateSettles
  <2> SUFFICES ASSUME NEW k \in Cluster, ~failed, {c \in CPU : asked[c] = k} # {},
                      \A c \in CPU : call[c] = Idle \/ k \notin {call[c].old, call[c].new}
               PROVE  clk[k] = ActualFreq(k, Max({last[c] : c \in {d \in CPU : asked[d] = k}}))
    BY DEF RateSettles
  <2>1. CpufreqTypeOK /\ CallsFormed /\ LocksHeld /\ CallsTracked /\ ClockRight(k)
    BY <1>1 DEF CpufreqInv, RatesTracked
  <2>2. Idle.pc = "idle"
    BY DEF Idle
  <2>3. \A c \in CPU : ~Holds(c, k) /\ ~Leaves(c, k)
    BY <2>2 DEF Holds, Leaves
  <2>4. lock[k] = NONE
    BY <2>1, <2>3 DEF CpufreqTypeOK, LocksHeld
  <2>5. ASSUME NEW c \in CPU PROVE asked[c] = k <=> phys[c] = k
    <3>1. Tracked(c) /\ call[c] \in Locals /\ Formed(c)
      BY <2>1 DEF CallsTracked, Tracked, CpufreqTypeOK, CallsFormed, Formed
    <3>2. call[c].pc \in {"idle", "lock_new", "store", "scan_new", "request", "lock_old", "scan_old"}
      BY <3>1 DEF Locals, Tracked
    <3>3. CASE call[c] = Idle
      BY <2>2, <3>1, <3>3 DEF Tracked
    <3>4. CASE call[c].old # k /\ call[c].new # k
      BY <3>1, <3>2, <3>4 DEF Tracked
    <3> QED BY <3>3, <3>4
  <2>6. PICK c \in CPU : Highest(last[c], k, CPU) /\ clk[k] = ActualFreq(k, last[c])
    BY <2>1, <2>3, <2>4, <2>5 DEF ClockRight
  <2> DEFINE S == {last[d] : d \in {e \in CPU : asked[e] = k}}
  <2>7. S \in SUBSET Nat
    BY <2>1 DEF CpufreqTypeOK
  <2>8. last[c] \in S /\ \A x \in S : x <= last[c]
    BY <2>5, <2>6 DEF Highest
  <2> HIDE DEF S
  <2>9. Max(S) = last[c]
    BY <2>7, <2>8, MaxIs
  <2> QED BY <2>6, <2>9 DEF S
<1> QED BY <1>1, CpufreqInvariant, PTL

=============================================================================
