-------------------------- MODULE BLSwitcherProofs --------------------------
(***************************************************************************)
(* The in-kernel switcher, for any number of CPUs in two clusters and any    *)
(* number of clients: SwInv is inductive, and the safety properties of       *)
(* BLSwitcher follow from it.                                                *)
(***************************************************************************)
EXTENDS BLSwitcher, WellFoundedInduction, FiniteSetTheorems, TLAPS

(* A set of natural numbers has a least element. *)
LEMMA LeastElement ==
  ASSUME NEW S \in SUBSET Nat, S # {} PROVE \E m \in S : \A x \in S : m <= x
<1>1. PICK m \in S : \A y \in S : ~(<<y, m>> \in OpToRel(<, Nat))
  BY NatLessThanWellFounded, WFMin
<1>2. \A y \in S : ~(y < m)
  BY <1>1 DEF OpToRel
<1> QED BY <1>2

(* A set that contains 0 and with each number the next contains all. *)
LEMMA SetInduction ==
  ASSUME NEW S, 0 \in S, \A n \in Nat : n \in S => n + 1 \in S PROVE Nat \subseteq S
<1> SUFFICES ASSUME Nat \ S # {} PROVE FALSE
  OBVIOUS
<1>1. PICK m \in Nat \ S : \A x \in Nat \ S : m <= x
  BY LeastElement
<1>2. m - 1 \in Nat /\ m - 1 \notin Nat \ S
  BY <1>1
<1> QED BY <1>1, <1>2

(* Min of a set of CPUs. *)
LEMMA MinIn ==
  ASSUME NEW S \in SUBSET Nat, S # {} PROVE Min(S) \in S
BY LeastElement DEF Min

(* Max of a set of CPUs. *)
LEMMA MaxIn ==
  ASSUME NEW S \in SUBSET CPU, S # {} PROVE Max(S) \in S
<1> DEFINE B == {n \in Nat : \A x \in S : x <= n}
<1>1. S \subseteq Nat /\ N \in B
  BY SwitcherAssumption DEF CPU
<1>2. PICK m \in B : \A n \in B : m <= n
  BY <1>1, LeastElement
<1>3. m \in S
  <2> SUFFICES ASSUME m \notin S PROVE FALSE
    OBVIOUS
  <2>1. \A x \in S : x < m
    BY <1>1, <1>2
  <2>2. m # 0
    <3>1. PICK x \in S : x \in Nat
      BY <1>1
    <3> QED BY <2>1, <3>1
  <2>3. m - 1 \in B
    BY <1>1, <1>2, <2>1, <2>2
  <2> QED BY <1>2, <2>3
<1> QED BY <1>1, <1>2, <1>3 DEF Max
-----------------------------------------------------------------------------
(* What a pass of bL_switcher_halve_cpus has done so far: the CPUs it has     *)
(* paired are not available any more, the first of a pair is on the cluster   *)
(* of the first CPU, the second is not, and nobody is in two pairs.           *)
Pass == [avail : SUBSET online, pair : [CPU -> CPU \cup {-1}]]
PassSound(p) ==
  /\ p \in Pass
  /\ \A c \in CPU : p.pair[c] # -1 =>
       /\ c \in online /\ Current(c) = Current(Min(online))
       /\ p.pair[c] \in online \ p.avail /\ Current(p.pair[c]) # Current(Min(online))
       /\ \A d \in CPU : p.pair[d] = p.pair[c] => d = c

NoPairs == [avail |-> online, pair |-> [c \in CPU |-> -1]]

(* One CPU's turn keeps it so. *)
LEMMA PairStepSound ==
  ASSUME online \in SUBSET CPU, NEW p, PassSound(p), NEW c \in CPU PROVE PassSound(PairStep(p, c))
<1> DEFINE cl0 == Current(Min(online))
           match == {j \in p.avail \ {c} : Current(j) # cl0}
           m == Max(match)
<1>0. p.avail \in SUBSET online /\ p.pair \in [CPU -> CPU \cup {-1}]
  BY DEF PassSound, Pass
<1>1. CASE c \notin p.avail \/ Current(c) # cl0
  <2>1. PairStep(p, c) = p
    BY <1>1 DEF PairStep
  <2> QED BY <2>1
<1>2. CASE c \in p.avail /\ Current(c) = cl0 /\ match = {}
  <2> DEFINE q == [p EXCEPT !.avail = p.avail \ {c}]
  <2>1. PairStep(p, c) = q
    BY <1>2 DEF PairStep
  <2>2. q.pair = p.pair /\ q.avail = p.avail \ {c} /\ q \in Pass
    BY DEF PassSound, Pass
  <2> HIDE DEF q
  <2>3. PassSound(q)
    BY <1>0, <2>2 DEF PassSound
  <2> QED BY <2>1, <2>3
<1>3. CASE c \in p.avail /\ Current(c) = cl0 /\ match # {}
  <2>1. m \in match
    <3>1. match \in SUBSET CPU
      BY <1>0
    <3> QED BY <1>3, <3>1, MaxIn
  <2> HIDE DEF m
  <2>2. m \in p.avail /\ Current(m) # cl0 /\ m \in CPU /\ m \in online /\ m # c /\ m # -1
    <3>1. m \in p.avail /\ Current(m) # cl0 /\ m \in CPU /\ m \in online /\ m # c
      BY <1>0, <2>1
    <3> QED BY <3>1, SwitcherAssumption DEF CPU
  <2> DEFINE f == [p.pair EXCEPT ![c] = m]
             q == [avail |-> p.avail \ {c, m}, pair |-> f]
  <2>3. PairStep(p, c) = q
    BY <1>3 DEF PairStep, m
  <2>4. f \in [CPU -> CPU \cup {-1}] /\ f[c] = m /\ \A d \in CPU \ {c} : f[d] = p.pair[d]
    BY <1>0, <2>2
  <2> HIDE DEF f
  <2>5. q.pair = f /\ q.avail = p.avail \ {c, m} /\ q \in Pass
    BY <1>0, <2>4 DEF Pass
  <2> HIDE DEF q
  <2>6. \A d \in CPU : p.pair[d] # m
    BY <2>2 DEF PassSound
  <2>7. ASSUME NEW d \in CPU, f[d] # -1
        PROVE  /\ d \in online /\ Current(d) = cl0
               /\ f[d] \in online \ q.avail /\ Current(f[d]) # cl0
               /\ \A e \in CPU : f[e] = f[d] => e = d
    <3>1. CASE d = c
      BY <1>0, <1>3, <2>2, <2>4, <2>5, <2>6, <3>1
    <3>2. CASE d # c
      <4>1. /\ d \in online /\ Current(d) = cl0
            /\ p.pair[d] \in online \ p.avail /\ Current(p.pair[d]) # cl0
            /\ \A e \in CPU : p.pair[e] = p.pair[d] => e = d
        BY <2>4, <2>7, <3>2 DEF PassSound
      <4> QED BY <2>4, <2>5, <2>6, <3>2, <4>1
    <3> QED BY <3>1, <3>2
  <2>8. PassSound(q)
    BY <2>5, <2>7 DEF PassSound
  <2> QED BY <2>3, <2>8
<1> QED BY <1>1, <1>2, <1>3

(* The function that HalvePass is defined to be exists. *)
LEMMA HalvePassExists ==
  ASSUME NEW n \in Nat
  PROVE  \E f : /\ f = [i \in 0 .. n |-> IF i = 0 THEN NoPairs ELSE PairStep(f[i - 1], i - 1)]
<1> DEFINE Is(f, k) == f = [i \in 0 .. k |-> IF i = 0 THEN NoPairs ELSE PairStep(f[i - 1], i - 1)]
           S == {k \in Nat : \E f : Is(f, k)}
<1>1. 0 \in S
  <2>1. Is([i \in 0 .. 0 |-> NoPairs], 0)
    OBVIOUS
  <2> QED BY <2>1
<1>2. ASSUME NEW k \in Nat, k \in S PROVE k + 1 \in S
  <2>1. PICK f : Is(f, k)
    BY <1>2
  <2> DEFINE g == [i \in 0 .. k + 1 |-> IF i = k + 1 THEN PairStep(f[k], k) ELSE f[i]]
  <2>2. \A i \in 0 .. k : g[i] = f[i]
    OBVIOUS
  <2>3. \A i \in 0 .. k : f[i] = IF i = 0 THEN NoPairs ELSE PairStep(f[i - 1], i - 1)
    BY <2>1
  <2>4. ASSUME NEW i \in 0 .. k + 1
        PROVE  g[i] = IF i = 0 THEN NoPairs ELSE PairStep(g[i - 1], i - 1)
    <3>1. CASE i = k + 1
      BY <2>2, <3>1
    <3>2. CASE i \in 0 .. k
      <4>1. i = 0 \/ i - 1 \in 0 .. k
        BY <3>2
      <4> QED BY <2>2, <2>3, <3>2, <4>1
    <3> QED BY <3>1, <3>2
  <2>5. Is(g, k + 1)
    <3>1. g = [i \in 0 .. k + 1 |-> g[i]]
      OBVIOUS
    <3> HIDE DEF g
    <3> QED BY <2>4, <3>1
  <2> HIDE DEF g, Is
  <2> QED BY <2>5
<1>3. Nat \subseteq S
  <2> HIDE DEF S
  <2> QED BY <1>1, <1>2, SetInduction
<1> QED BY <1>3

(* Every turn of the pass follows from the one before it. *)
LEMMA HalvePassSteps ==
  /\ HalvePass[0] = NoPairs
  /\ \A i \in 1 .. N : HalvePass[i] = PairStep(HalvePass[i - 1], i - 1)
<1>1. HalvePass = [i \in 0 .. N |-> IF i = 0 THEN NoPairs ELSE PairStep(HalvePass[i - 1], i - 1)]
  <2>1. N \in Nat
    BY SwitcherAssumption
  <2> QED BY <2>1, HalvePassExists DEF HalvePass, NoPairs
<1> QED BY <1>1, SwitcherAssumption

(* The pairing that bL_switcher_halve_cpus computes: each CPU of the first    *)
(* cluster has at most one counterpart, on the other one, and its own.        *)
LEMMA PairingFacts ==
  ASSUME online \in SUBSET CPU
  PROVE  /\ Pairing \in [CPU -> CPU \cup {-1}]
         /\ \A c \in CPU : Pairing[c] # -1 =>
              /\ c \in online /\ Current(c) = Current(Min(online))
              /\ Pairing[c] \in online /\ Current(Pairing[c]) # Current(Min(online))
              /\ \A d \in CPU : Pairing[d] = Pairing[c] => d = c
<1> DEFINE S == {i \in Nat : i <= N => PassSound(HalvePass[i])}
<1>1. 0 \in S
  BY HalvePassSteps DEF PassSound, Pass, NoPairs
<1>2. ASSUME NEW i \in Nat, i \in S PROVE i + 1 \in S
  <2>1. CASE i + 1 <= N
    <3>1. i \in CPU /\ i <= N /\ i + 1 \in 1 .. N /\ (i + 1) - 1 = i
      BY <2>1, SwitcherAssumption DEF CPU
    <3>2. HalvePass[i + 1] = PairStep(HalvePass[i], i)
      BY <3>1, HalvePassSteps
    <3> QED BY <1>2, <3>1, <3>2, PairStepSound
  <2> QED BY <2>1
<1>3. N \in S
  <2> HIDE DEF S
  <2> QED BY <1>1, <1>2, SetInduction, SwitcherAssumption
<1>4. PassSound(HalvePass[N])
  BY <1>3, SwitcherAssumption
<1> QED BY <1>4 DEF Pairing, PassSound, Pass
-----------------------------------------------------------------------------
(* The CPU that an administrative loop is at is one of those it has to visit. *)
LEMMA MinTodo ==
  ASSUME SwInv, todo # {} PROVE Min(todo) \in todo /\ Min(todo) \in CPU /\ Min(todo) \in online
<1>1. todo \subseteq online /\ online \subseteq CPU /\ CPU \subseteq Nat
  BY SwitcherAssumption DEF SwInv, SwTypeOK, AdminSound, CPU
<1> QED BY <1>1, MinIn

(* A CPU that has a thread has a counterpart, offline and on the other cluster. *)
LEMMA ThreadPaired ==
  ASSUME SwInv, NEW c \in CPU, thread[c] # "none"
  PROVE  /\ c \in online /\ Halved /\ pairing[c] \in CPU \ online
         /\ Current(pairing[c]) # Current(c)
<1>1. c \in online /\ Halved
  <2>1. CASE task[c] = "thread"
    BY <2>1 DEF SwInv, ThreadsSound
  <2>2. CASE task[c] # "thread"
    <3>1. Homing(c)
      BY <2>2 DEF SwInv, ThreadsSound
    <3>2. todo # {}
      BY <3>1 DEF Homing, SwInv, AdminSound
    <3> QED BY <3>1, <3>2, MinTodo DEF Homing, Halved
  <2> QED BY <2>1, <2>2
<1> QED BY <1>1 DEF SwInv, PairsSound

(* bL_switch_to exchanges the entries of cpu_logical_map. *)
LEMMA SwapEffect ==
  ASSUME SwInv, NEW c \in CPU, thread[c] # "none"
  PROVE  /\ Swapped(c) \in [CPU -> CPU] /\ Swapped(c)[c] = map[pairing[c]]
         /\ Swapped(c)[pairing[c]] = map[c]
         /\ \A d \in CPU \ {c, pairing[c]} : Swapped(c)[d] = map[d]
<1>1. pairing[c] \in CPU /\ pairing[c] # c /\ map \in [CPU -> CPU]
  BY ThreadPaired DEF SwInv, SwTypeOK
<1> QED BY <1>1 DEF Swapped

(* The outcomes of bL_switch_to: the two entries are exchanged and the CPU is *)
(* on the cluster it was asked to be on, or nothing has happened, which       *)
(* without failures means that it was there already.                          *)
LEMMA SwitchEffect ==
  ASSUME SwInv, NEW c \in CPU, ThreadSwitch(c)
  PROVE  /\ thread[c] = "switch" /\ thread' = [thread EXCEPT ![c] = "complete"]
         /\ UNCHANGED <<task, wanted, completer, started, stop, wq, job, adminVars, call, history>>
         /\ \/ map' = map /\ (~Failures => Current(c) = job[c].cluster)
            \/ map' = Swapped(c) /\ Current(c) # job[c].cluster
<1>1. /\ thread[c] = "switch" /\ thread' = [thread EXCEPT ![c] = "complete"]
      /\ UNCHANGED <<task, wanted, completer, started, stop, wq, job, adminVars, call, history>>
      /\ \/ map' = IF job[c].cluster = Current(c) THEN map ELSE Swapped(c)
         \/ Failures /\ map' = IF job[c].cluster = Current(c) THEN map ELSE map
  BY DEF ThreadSwitch, Switch
<1> QED BY <1>1

(* The sets of CPUs that CompleterOnce counts. *)
Held(r)   == {c \in CPU : completer[c] = r}
InHand(r) == {c \in CPU : thread[c] \in {"switch", "complete"} /\ job[c].completer = r}

(* Counting CPUs. *)
LEMMA CountCpus ==
  ASSUME NEW A \in SUBSET CPU, NEW B \in SUBSET CPU
  PROVE  /\ Cardinality(A) \in Nat
         /\ A \subseteq B => Cardinality(A) <= Cardinality(B)
         /\ \A c \in CPU : A \subseteq B \cup {c} => Cardinality(A) <= Cardinality(B) + 1
         /\ \A c \in B : A \subseteq B \ {c} => Cardinality(A) + 1 <= Cardinality(B)
<1>1. IsFiniteSet(CPU)
  BY FS_Interval, SwitcherAssumption DEF CPU
<1>2. IsFiniteSet(A) /\ IsFiniteSet(B)
  BY <1>1, FS_Subset
<1>3. Cardinality(A) \in Nat /\ Cardinality(B) \in Nat
  BY <1>2, FS_CardinalityType
<1>4. A \subseteq B => Cardinality(A) <= Cardinality(B)
  BY <1>2, FS_Subset
<1>5. ASSUME NEW c \in CPU, A \subseteq B \cup {c} PROVE Cardinality(A) <= Cardinality(B) + 1
  <2>1. IsFiniteSet(B \cup {c}) /\ Cardinality(B \cup {c}) <= Cardinality(B) + 1
    <3>1. /\ IsFiniteSet(B \cup {c})
          /\ Cardinality(B \cup {c}) = IF c \in B THEN Cardinality(B) ELSE Cardinality(B) + 1
      BY <1>2, FS_AddElement
    <3> QED BY <1>3, <3>1
  <2>2. Cardinality(A) <= Cardinality(B \cup {c}) /\ Cardinality(B \cup {c}) \in Nat
    BY <1>5, <2>1, FS_Subset, FS_CardinalityType
  <2> QED BY <1>3, <2>1, <2>2
<1>6. ASSUME NEW c \in B, A \subseteq B \ {c} PROVE Cardinality(A) + 1 <= Cardinality(B)
  <2>1. IsFiniteSet(B \ {c}) /\ Cardinality(B \ {c}) = Cardinality(B) - 1
    BY <1>2, FS_RemoveElement
  <2>2. Cardinality(A) <= Cardinality(B \ {c})
    BY <1>6, <2>1, FS_Subset
  <2> QED BY <1>3, <2>1, <2>2
<1> QED BY <1>3, <1>4, <1>5, <1>6

(* A completer in t->completer or in a thread's hands is one not yet called. *)
LEMMA CompleterPends ==
  ASSUME SwInv, NEW r \in Req, Held(r) \cup InHand(r) # {} PROVE pend[r] >= 1
<1>1. Cardinality(Held(r)) + Cardinality(InHand(r)) <= pend[r]
  BY DEF SwInv, CompleterOnce, Held, InHand
<1>2. PICK c : c \in Held(r) \cup InHand(r)
  OBVIOUS
<1>3. Held(r) \in SUBSET CPU /\ InHand(r) \in SUBSET CPU /\ {} \in SUBSET CPU
  BY DEF Held, InHand
<1>4. Cardinality({}) \in Nat /\ Cardinality(Held(r)) \in Nat /\ Cardinality(InHand(r)) \in Nat
  BY <1>3, CountCpus
<1>5. Cardinality(Held(r)) >= 1 \/ Cardinality(InHand(r)) >= 1
  <2>1. CASE c \in Held(r)
    <3>1. Cardinality({}) + 1 <= Cardinality(Held(r))
      BY <1>3, <2>1, CountCpus
    <3> QED BY <1>4, <3>1
  <2>2. CASE c \in InHand(r)
    <3>1. Cardinality({}) + 1 <= Cardinality(InHand(r))
      BY <1>3, <2>2, CountCpus
    <3> QED BY <1>4, <3>1
  <2> QED BY <1>2, <2>1, <2>2
<1>6. pend[r] \in Nat
  BY DEF SwInv, SwTypeOK
<1> QED BY <1>1, <1>4, <1>5, <1>6
-----------------------------------------------------------------------------
(* The types: the steps of the threads, ... *)
LEMMA ThreadTypes ==
  ASSUME SwInv, NEW c \in CPU, ThreadStep(c) PROVE SwTypeOK'
<1>a. SwTypeOK
  BY DEF SwInv
<1>1. CASE ThreadRun(c)
  BY <1>a, <1>1 DEF ThreadRun, SwTypeOK, adminVars, history, ThreadPc
<1>2. CASE ThreadFetch(c)
  <2>1. [cluster |-> wanted[c], completer |-> completer[c]]
           \in [cluster : Cluster \cup {-1}, completer : Req \cup {NONE}]
    BY <1>a DEF SwTypeOK
  <2> QED BY <1>a, <1>2, <2>1 DEF ThreadFetch, Fetch, SwTypeOK, adminVars, history, ThreadPc
<1>3. CASE ThreadSwitch(c)
  <2>1. map' \in [CPU -> CPU]
    <3>1. thread[c] = "switch" /\ (map' = map \/ map' = Swapped(c))
      BY <1>3, SwitchEffect
    <3>2. Swapped(c) \in [CPU -> CPU]
      BY <3>1, SwapEffect
    <3> QED BY <1>a, <3>1, <3>2 DEF SwTypeOK
  <2> QED BY <1>a, <1>3, <2>1, SwitchEffect DEF SwTypeOK, adminVars, history, ThreadPc
<1>4. CASE ThreadComplete(c)
  <2>1. pend' \in [Req -> 0 .. MaxPend]
    <3>1. CASE job[c].completer = NONE
      BY <1>a, <1>4, <3>1 DEF ThreadComplete, SwTypeOK
    <3>2. CASE job[c].completer # NONE
      <4> DEFINE r == job[c].completer
      <4>1. r \in Req /\ thread[c] = "complete" /\ pend' = [pend EXCEPT ![r] = pend[r] - 1]
        BY <1>a, <1>4, <3>2 DEF ThreadComplete, SwTypeOK
      <4>2. c \in InHand(r)
        BY <4>1 DEF InHand
      <4>3. pend[r] >= 1
        BY <4>1, <4>2, CompleterPends
      <4> HIDE DEF r
      <4> QED BY <1>a, <4>1, <4>3, SwitcherAssumption DEF SwTypeOK
    <3> QED BY <3>1, <3>2
  <2> QED BY <1>a, <1>4, <2>1 DEF ThreadComplete, SwTypeOK, adminVars, ThreadPc
<1>5. CASE ThreadLoop(c)
  <2>1. NoJob \in [cluster : Cluster \cup {-1}, completer : Req \cup {NONE}]
    BY DEF NoJob
  <2> QED BY <1>a, <1>5, <2>1 DEF ThreadLoop, Loop, SwTypeOK, adminVars, history, ThreadPc
<1>6. CASE ThreadSleep(c)
  BY <1>a, <1>6 DEF ThreadSleep, SwTypeOK, adminVars, history
<1> QED BY <1>1, <1>2, <1>3, <1>4, <1>5, <1>6 DEF ThreadStep

(* ... of the clients, ... *)
LEMMA ClientTypes ==
  ASSUME SwInv, NEW r \in Req, ClientStep(r) PROVE SwTypeOK'
<1>a. SwTypeOK
  BY DEF SwInv
<1>1. CASE \E c \in CPU, k \in Cluster, cb \in {NONE, r} : RequestCheck(r, c, k, cb)
  <2>1. PICK c \in CPU, k \in Cluster, cb \in {NONE, r} : RequestCheck(r, c, k, cb)
    BY <1>1
  <2>2. [fn |-> "request", cpu |-> c, cluster |-> k, completer |-> cb] \in Call
    BY DEF Call
  <2> QED BY <1>a, <2>1, <2>2 DEF RequestCheck, SwTypeOK, threadVars, adminVars, history
<1>2. CASE \E c \in CPU : DetachCheck(r, c)
  <2>1. PICK c \in CPU : DetachCheck(r, c)
    BY <1>2
  <2>2. [fn |-> "detach", cpu |-> c] \in Call
    BY DEF Call
  <2> QED BY <1>a, <2>1, <2>2 DEF DetachCheck, SwTypeOK, threadVars, adminVars, history
<1>3. CASE RequestStore(r)
  <2>1. NoCall \in Call /\ call[r] \in Call /\ call[r].fn = "request"
    BY <1>a, <1>3 DEF RequestStore, Call, SwTypeOK
  <2>2. call[r].cpu \in CPU /\ call[r].cluster \in Cluster /\ call[r].completer \in Req \cup {NONE}
    BY <2>1 DEF Call, NoCall
  <2>3. pend' \in [Req -> 0 .. MaxPend]
    <3>1. CASE pend' = pend
      BY <1>a, <3>1 DEF SwTypeOK
    <3>2. CASE pend' = [pend EXCEPT ![r] = pend[r] + 1] /\ call[r].completer # NONE
      <4>1. pend[r] < MaxPend
        BY <2>1, <3>2 DEF SwInv, CallsSound
      <4> QED BY <1>a, <3>2, <4>1, SwitcherAssumption DEF SwTypeOK
    <3> QED BY <1>3, <3>1, <3>2 DEF RequestStore, history
  <2>4. call' \in [Req -> Call]
    <3>1. [fn |-> "wake", cpu |-> call[r].cpu] \in Call
      BY <2>2 DEF Call
    <3> QED BY <1>a, <1>3, <2>1, <3>1 DEF RequestStore, SwTypeOK
  <2>5. late' \subseteq Req
    BY <1>a, <1>3 DEF RequestStore, SwTypeOK, history
  <2>6. /\ completer' \in [CPU -> Req \cup {NONE}] /\ wanted' \in [CPU -> Cluster \cup {-1}]
        /\ last' \in [CPU -> Cluster \cup {-1}]
    BY <1>a, <1>3, <2>2 DEF RequestStore, SwTypeOK, history
  <2>7. UNCHANGED <<map, task, started, thread, stop, wq, job, adminVars>>
    BY <1>3 DEF RequestStore
  <2> QED BY <1>a, <2>3, <2>4, <2>5, <2>6, <2>7 DEF SwTypeOK, adminVars
<1>4. CASE DetachStore(r)
  <2>1. NoCall \in Call /\ call[r] \in Call /\ call[r].fn = "detach"
    BY <1>a, <1>4 DEF DetachStore, Call, SwTypeOK
  <2>2. call[r].cpu \in CPU
    BY <2>1 DEF Call, NoCall
  <2>3. pend' \in [Req -> 0 .. MaxPend]
    <3>1. CASE pend' = pend
      BY <1>a, <3>1 DEF SwTypeOK
    <3>2. CASE pend' = [pend EXCEPT ![r] = pend[r] - 1] /\ completer[call[r].cpu] = r
      <4>1. call[r].cpu \in Held(r)
        BY <2>2, <3>2 DEF Held
      <4>2. pend[r] >= 1
        BY <4>1, CompleterPends
      <4> QED BY <1>a, <3>2, <4>2, SwitcherAssumption DEF SwTypeOK
    <3> QED BY <1>4, <3>1, <3>2 DEF DetachStore
  <2> QED BY <1>a, <1>4, <2>1, <2>2, <2>3 DEF DetachStore, SwTypeOK, adminVars
<1>5. CASE RequestWake(r)
  <2>1. NoCall \in Call
    BY DEF Call
  <2> QED BY <1>a, <1>5, <2>1 DEF RequestWake, Return, SwTypeOK, adminVars, history
<1> QED BY <1>1, <1>2, <1>3, <1>4, <1>5 DEF ClientStep, CallReturns

(* ... and of the writer of the sysfs file. *)
AdminStep == EnableBegin \/ DisableBegin \/ AdminWork

(* They keep the types too. *)
LEMMA AdminTypes ==
  ASSUME SwInv, AdminStep PROVE SwTypeOK'
<1>a. SwTypeOK
  BY DEF SwInv
<1>b. todo # {} => Min(todo) \in CPU
  BY MinTodo
<1>1. CASE EnableBegin \/ DisableBegin \/ EnableDone \/ Drained \/ DisableVetoed
  BY <1>a, <1>1 DEF EnableBegin, DisableBegin, EnableDone, Drained, BugDrained, DisableVetoed,
     SwTypeOK, threadVars, history, AdminPc
<1>2. CASE HalveCpus
  <2>1. pairing' \in [CPU -> CPU \cup {-1}] /\ online' \in SUBSET CPU
    BY <1>a, <1>2, PairingFacts DEF HalveCpus, SwTypeOK
  <2>2. original' \in [CPU -> Cluster]
    <3>1. \A c \in CPU : Current(c) \in Cluster
      BY <1>a, SwitcherAssumption DEF Current, SwTypeOK
    <3> QED BY <1>a, <1>2, <3>1 DEF HalveCpus, SwTypeOK
  <2>3. /\ removed' = online \ online' /\ admin' = "create" /\ todo' = online'
        /\ UNCHANGED <<map, threadVars, active, open, call, history>>
    BY <1>2 DEF HalveCpus
  <2> QED BY <1>a, <2>1, <2>2, <2>3 DEF SwTypeOK, threadVars, history, AdminPc
<1>3. CASE EnableFails
  <2>1. /\ online' \in SUBSET CPU /\ admin' = "idle"
        /\ UNCHANGED <<map, threadVars, active, pairing, removed, original, todo, open, call, history>>
    BY <1>a, <1>3 DEF EnableFails, SwTypeOK
  <2> QED BY <1>a, <2>1 DEF SwTypeOK, threadVars, history, AdminPc
<1>4. CASE CreateThread
  BY <1>a, <1>b, <1>4 DEF CreateThread, SwTypeOK, ThreadPc
<1>5. CASE StopThread
  BY <1>a, <1>b, <1>5 DEF StopThread, SwTypeOK, history, AdminPc
<1>c. admin \in {"stopped", "started", "restored"} => todo # {}
  BY DEF SwInv, AdminSound
<1>6. CASE Stopped
  <2> DEFINE c == Min(todo)
  <2>1. c \in CPU
    BY <1>b, <1>c, <1>6 DEF Stopped
  <2> HIDE DEF c
  <2>2. /\ wanted' \in [CPU -> Cluster \cup {-1}] /\ started' \in [CPU -> BOOLEAN]
        /\ thread' \in [CPU -> ThreadPc] /\ stop' \in [CPU -> BOOLEAN]
        /\ removed' \subseteq CPU /\ admin' \in AdminPc /\ todo' \subseteq CPU
    BY <1>a, <1>6, <2>1 DEF Stopped, SwTypeOK, ThreadPc, AdminPc, c
  <2>3. /\ UNCHANGED <<map, task, completer, wq, job, active, online, pairing, original, open>>
        /\ UNCHANGED <<call, history>>
    BY <1>6 DEF Stopped
  <2> QED BY <1>a, <2>2, <2>3 DEF SwTypeOK, history
<1>7. CASE Started
  BY <1>a, <1>b, <1>c, <1>7 DEF Started, SwTypeOK, history, AdminPc
<1>8. CASE Restored
  BY <1>a, <1>8 DEF Restored, Done, SwTypeOK, threadVars, history, AdminPc
<1>9. CASE DisableDone
  <2>1. /\ online' \in SUBSET CPU /\ admin' = "idle"
        /\ UNCHANGED <<map, threadVars, active, pairing, removed, original, todo, open, call, history>>
    BY <1>a, <1>9 DEF DisableDone, SwTypeOK
  <2> QED BY <1>a, <2>1 DEF SwTypeOK, threadVars, history, AdminPc
<1> QED BY <1>1, <1>2, <1>3, <1>4, <1>5, <1>6, <1>7, <1>8, <1>9 DEF AdminStep, AdminWork
-----------------------------------------------------------------------------
(* CompleterOnce, client by client. *)
Once(r) == Cardinality(Held(r)) + Cardinality(InHand(r)) <= pend[r]

(* CompleterOnce, client by client. *)
LEMMA OnceAll ==
  /\ CompleterOnce <=> \A r \in Req : Once(r)
  /\ CompleterOnce' <=> \A r \in Req : Once(r)'
BY DEF CompleterOnce, Once, Held, InHand

(* Nothing is added to what is held of a client. *)
LEMMA OnceKept ==
  ASSUME SwInv, SwTypeOK', NEW r \in Req, Held(r)' \subseteq Held(r), InHand(r)' \subseteq InHand(r),
         pend'[r] = pend[r]
  PROVE  Once(r)'
<1>1. Once(r) /\ pend[r] \in Nat
  BY OnceAll DEF SwInv, SwTypeOK
<1>2. /\ Held(r) \in SUBSET CPU /\ InHand(r) \in SUBSET CPU
      /\ Held(r)' \in SUBSET CPU /\ InHand(r)' \in SUBSET CPU
  BY DEF Held, InHand
<1>3. /\ Cardinality(Held(r)') <= Cardinality(Held(r)) /\ Cardinality(Held(r)) \in Nat
      /\ Cardinality(InHand(r)') <= Cardinality(InHand(r)) /\ Cardinality(InHand(r)) \in Nat
      /\ Cardinality(Held(r)') \in Nat /\ Cardinality(InHand(r)') \in Nat
  BY <1>2, CountCpus
<1> HIDE DEF Held, InHand
<1> QED BY <1>1, <1>3 DEF Once

(* The completer of a request goes from struct bL_thread to the thread. *)
LEMMA OnceFetched ==
  ASSUME SwInv, SwTypeOK', NEW c \in CPU, ThreadFetch(c), NEW r \in Req PROVE Once(r)'
<1>1. /\ thread[c] = "wait" /\ job' = [job EXCEPT ![c] = [cluster |-> wanted[c], completer |-> completer[c]]]
      /\ thread' = [thread EXCEPT ![c] = IF wanted[c] = -1 THEN "loop" ELSE "switch"]
      /\ completer' = [completer EXCEPT ![c] = NONE] /\ pend' = pend
  BY DEF ThreadFetch, Fetch, history
<1>2. /\ thread \in [CPU -> ThreadPc] /\ completer \in [CPU -> Req \cup {NONE}]
      /\ job \in [CPU -> [cluster : Cluster \cup {-1}, completer : Req \cup {NONE}]] /\ NONE # r
  BY SwitcherAssumption DEF SwInv, SwTypeOK
<1>3. \A d \in CPU \ {c} : thread'[d] = thread[d] /\ job'[d] = job[d] /\ completer'[d] = completer[d]
  BY <1>1, <1>2
<1>4. completer'[c] = NONE /\ job'[c].completer = completer[c]
  BY <1>1, <1>2
<1>5. CASE completer[c] # r
  <2>1. Held(r)' \subseteq Held(r) /\ InHand(r)' \subseteq InHand(r)
    BY <1>2, <1>3, <1>4, <1>5 DEF Held, InHand
  <2> QED BY <1>1, <2>1, OnceKept
<1>6. CASE completer[c] = r
  <2>1. c \in Held(r) /\ Held(r)' \subseteq Held(r) \ {c} /\ InHand(r)' \subseteq InHand(r) \cup {c}
    BY <1>2, <1>3, <1>4, <1>6 DEF Held, InHand
  <2>2. /\ Held(r) \in SUBSET CPU /\ InHand(r) \in SUBSET CPU
        /\ Held(r)' \in SUBSET CPU /\ InHand(r)' \in SUBSET CPU
    BY DEF Held, InHand
  <2>3. /\ Cardinality(Held(r)') + 1 <= Cardinality(Held(r)) /\ Cardinality(Held(r)) \in Nat
        /\ Cardinality(InHand(r)') <= Cardinality(InHand(r)) + 1 /\ Cardinality(InHand(r)) \in Nat
        /\ Cardinality(Held(r)') \in Nat /\ Cardinality(InHand(r)') \in Nat
    BY <2>1, <2>2, CountCpus
  <2>4. Once(r) /\ pend[r] \in Nat
    BY OnceAll DEF SwInv, SwTypeOK
  <2> HIDE DEF Held, InHand
  <2> QED BY <1>1, <2>3, <2>4 DEF Once
<1> QED BY <1>5, <1>6

(* The thread calls the completer it has. *)
LEMMA OnceCalled ==
  ASSUME SwInv, SwTypeOK', NEW c \in CPU, ThreadComplete(c), NEW r \in Req PROVE Once(r)'
<1>1. /\ thread[c] = "complete" /\ thread' = [thread EXCEPT ![c] = "loop"]
      /\ job' = job /\ completer' = completer
      /\ pend' = IF job[c].completer = NONE THEN pend
                 ELSE [pend EXCEPT ![job[c].completer] = pend[job[c].completer] - 1]
  BY DEF ThreadComplete
<1>2. /\ thread \in [CPU -> ThreadPc] /\ pend \in [Req -> 0 .. MaxPend]
      /\ job \in [CPU -> [cluster : Cluster \cup {-1}, completer : Req \cup {NONE}]] /\ NONE # r
  BY SwitcherAssumption DEF SwInv, SwTypeOK
<1>3. Held(r)' = Held(r) /\ InHand(r)' \subseteq InHand(r) \ {c}
  BY <1>1, <1>2 DEF Held, InHand
<1>4. CASE job[c].completer # r
  <2>1. pend'[r] = pend[r]
    BY <1>1, <1>2, <1>4
  <2> QED BY <1>3, <2>1, OnceKept
<1>5. CASE job[c].completer = r
  <2>1. c \in InHand(r) /\ pend'[r] = pend[r] - 1 /\ pend[r] \in Int
    BY <1>1, <1>2, <1>5, SwitcherAssumption DEF InHand
  <2>2. Held(r) \in SUBSET CPU /\ InHand(r) \in SUBSET CPU /\ InHand(r)' \in SUBSET CPU
    BY DEF Held, InHand
  <2>3. /\ Cardinality(Held(r)') = Cardinality(Held(r)) /\ Cardinality(Held(r)) \in Nat
        /\ Cardinality(InHand(r)') + 1 <= Cardinality(InHand(r)) /\ Cardinality(InHand(r)) \in Nat
        /\ Cardinality(InHand(r)') \in Nat
    BY <1>3, <2>1, <2>2, CountCpus
  <2>4. Once(r)
    BY OnceAll DEF SwInv
  <2> HIDE DEF Held, InHand
  <2> QED BY <2>1, <2>3, <2>4 DEF Once
<1> QED BY <1>4, <1>5

(* A request is stored with its completer, where there was none. *)
LEMMA OnceStored ==
  ASSUME SwInv, SwTypeOK', NEW s \in Req, RequestStore(s), NEW r \in Req PROVE Once(r)'
<1> DEFINE c == call[s].cpu
           cb == call[s].completer
<1>1. thread' = thread /\ job' = job
  BY DEF RequestStore
<1>2. /\ c \in CPU /\ cb \in {NONE, s} /\ NONE \notin Req
      /\ completer \in [CPU -> Req \cup {NONE}] /\ pend \in [Req -> 0 .. MaxPend]
  <2>1. call[s] \in Call /\ call[s].fn = "request"
    BY DEF RequestStore, SwInv, SwTypeOK
  <2>2. c \in CPU
    BY <2>1 DEF Call, NoCall
  <2> QED BY <2>1, <2>2, SwitcherAssumption DEF SwInv, SwTypeOK, CallsSound
<1>3. CASE completer' = completer /\ pend' = pend
  <2>1. Held(r)' \subseteq Held(r) /\ InHand(r)' \subseteq InHand(r)
    BY <1>1, <1>3 DEF Held, InHand
  <2> QED BY <1>3, <2>1, OnceKept
<1>4. CASE /\ completer[c] = NONE /\ completer' = [completer EXCEPT ![c] = cb]
           /\ pend' = IF cb = NONE THEN pend ELSE [pend EXCEPT ![s] = pend[s] + 1]
  <2>1. InHand(r)' = InHand(r)
    BY <1>1 DEF InHand
  <2>2. CASE cb # r
    <3>1. Held(r)' \subseteq Held(r) /\ pend'[r] = pend[r]
      BY <1>2, <1>4, <2>2 DEF Held
    <3> QED BY <2>1, <3>1, OnceKept
  <2>3. CASE cb = r
    <3>1. Held(r)' \subseteq Held(r) \cup {c} /\ pend'[r] = pend[r] + 1 /\ pend[r] \in Int
      BY <1>2, <1>4, <2>3, SwitcherAssumption DEF Held
    <3>2. Held(r) \in SUBSET CPU /\ InHand(r) \in SUBSET CPU /\ Held(r)' \in SUBSET CPU
      BY DEF Held, InHand
    <3>3. /\ Cardinality(Held(r)') <= Cardinality(Held(r)) + 1 /\ Cardinality(Held(r)) \in Nat
          /\ Cardinality(InHand(r)) \in Nat /\ Cardinality(Held(r)') \in Nat
      BY <1>2, <3>1, <3>2, CountCpus
    <3>4. Once(r)
      BY OnceAll DEF SwInv
    <3> HIDE DEF Held, InHand
    <3> QED BY <2>1, <3>1, <3>3, <3>4 DEF Once
  <2> QED BY <2>2, <2>3
<1> QED BY <1>3, <1>4 DEF RequestStore, history

(* A completer is taken back. *)
LEMMA OnceDetached ==
  ASSUME SwInv, SwTypeOK', NEW s \in Req, DetachStore(s), NEW r \in Req PROVE Once(r)'
<1> DEFINE c == call[s].cpu
<1>1. thread' = thread /\ job' = job
  BY DEF DetachStore
<1>2. /\ c \in CPU /\ NONE \notin Req
      /\ completer \in [CPU -> Req \cup {NONE}] /\ pend \in [Req -> 0 .. MaxPend]
  <2>1. call[s] \in Call /\ call[s].fn = "detach"
    BY DEF DetachStore, SwInv, SwTypeOK
  <2>2. c \in CPU
    BY <2>1 DEF Call, NoCall
  <2> QED BY <2>2, SwitcherAssumption DEF SwInv, SwTypeOK
<1>a. InHand(r)' = InHand(r)
  BY <1>1 DEF InHand
<1>3. CASE completer' = completer /\ pend' = pend
  <2>1. Held(r)' \subseteq Held(r)
    BY <1>3 DEF Held
  <2> QED BY <1>a, <1>3, <2>1, OnceKept
<1>4. CASE /\ completer[c] = s /\ completer' = [completer EXCEPT ![c] = NONE]
           /\ pend' = [pend EXCEPT ![s] = pend[s] - 1]
  <2>2. CASE s # r
    <3>1. Held(r)' \subseteq Held(r) /\ pend'[r] = pend[r]
      BY <1>2, <1>4, <2>2 DEF Held
    <3> QED BY <1>a, <3>1, OnceKept
  <2>3. CASE s = r
    <3>1. c \in Held(r) /\ Held(r)' \subseteq Held(r) \ {c} /\ pend'[r] = pend[r] - 1 /\ pend[r] \in Int
      BY <1>2, <1>4, <2>3, SwitcherAssumption DEF Held
    <3>2. Held(r) \in SUBSET CPU /\ InHand(r) \in SUBSET CPU /\ Held(r)' \in SUBSET CPU
      BY DEF Held, InHand
    <3>3. /\ Cardinality(Held(r)') + 1 <= Cardinality(Held(r)) /\ Cardinality(Held(r)) \in Nat
          /\ Cardinality(InHand(r)) \in Nat /\ Cardinality(Held(r)') \in Nat
      BY <3>1, <3>2, CountCpus
    <3>4. Once(r)
      BY OnceAll DEF SwInv
    <3> HIDE DEF Held, InHand
    <3> QED BY <1>a, <3>1, <3>3, <3>4 DEF Once
  <2> QED BY <2>2, <2>3
<1> QED BY <1>3, <1>4 DEF DetachStore
(* The steps that do not handle completers. *)
LEMMA OnceUntouched ==
  ASSUME SwInv, SwTypeOK', UNCHANGED <<completer, pend>>,
         \A d \in CPU : thread'[d] \in {"switch", "complete"} =>
                          thread[d] \in {"switch", "complete"} /\ job'[d] = job[d]
  PROVE  CompleterOnce'
<1>1. ASSUME NEW r \in Req PROVE Once(r)'
  <2>1. Held(r)' \subseteq Held(r) /\ InHand(r)' \subseteq InHand(r)
    BY DEF Held, InHand
  <2> QED BY <2>1, OnceKept
<1> QED BY <1>1, OnceAll

(* What a step of the admin does to a thread is to create it. *)
LEMMA AdminThreads ==
  ASSUME SwInv, AdminStep
  PROVE  /\ UNCHANGED <<map, completer, job, call, pend>>
         /\ \A d \in CPU : thread'[d] = thread[d] \/ (thread'[d] = "created" /\ d = Min(todo) /\ todo # {})
<1>a. thread \in [CPU -> ThreadPc]
  BY DEF SwInv, SwTypeOK
<1>b. admin \in {"stopped", "started", "restored"} => todo # {}
  BY DEF SwInv, AdminSound
<1>1. CASE CreateThread
  BY <1>a, <1>1 DEF CreateThread
<1>2. CASE Stopped
  BY <1>a, <1>b, <1>2 DEF Stopped, history
<1>3. CASE ~CreateThread /\ ~Stopped
  BY <1>3 DEF AdminStep, AdminWork, EnableBegin, DisableBegin, EnableDone, Drained, BugDrained,
     DisableVetoed, HalveCpus, EnableFails, StopThread, Started, Restored, Done, DisableDone,
     threadVars, history
<1> QED BY <1>1, <1>2, <1>3

(* The next-state relation by actor. *)
LEMMA Actors ==
  ASSUME SwNext
  PROVE  (\E c \in CPU : ThreadStep(c)) \/ (\E r \in Req : ClientStep(r)) \/ AdminStep
BY DEF SwNext, AdminStep

(* Every step keeps the types. *)
LEMMA TypesStep == ASSUME SwInv, SwNext PROVE SwTypeOK'
BY Actors, ThreadTypes, ClientTypes, AdminTypes

(* No completer is called too often. *)
LEMMA CompleterStep ==
  ASSUME SwInv, SwNext PROVE CompleterOnce'
<1>t. SwTypeOK' /\ thread \in [CPU -> ThreadPc]
  BY TypesStep DEF SwInv, SwTypeOK
<1>1. ASSUME NEW c \in CPU, ThreadStep(c) PROVE CompleterOnce'
  <2>1. CASE ThreadRun(c)
    <3>1. /\ UNCHANGED <<completer, pend, job>> /\ \A d \in CPU \ {c} : thread'[d] = thread[d]
          /\ thread'[c] \in {"none", "wait"}
      BY <1>t, <2>1 DEF ThreadRun, history
    <3> QED BY <1>t, <3>1, OnceUntouched
  <2>2. CASE ThreadFetch(c)
    BY <1>t, <2>2, OnceFetched, OnceAll
  <2>3. CASE ThreadSwitch(c)
    <3>1. /\ UNCHANGED <<completer, pend, job>> /\ \A d \in CPU \ {c} : thread'[d] = thread[d]
          /\ thread[c] = "switch"
      BY <1>t, <2>3, SwitchEffect DEF history
    <3> QED BY <1>t, <3>1, OnceUntouched
  <2>4. CASE ThreadComplete(c)
    BY <1>t, <2>4, OnceCalled, OnceAll
  <2>5. CASE ThreadLoop(c)
    <3>1. /\ UNCHANGED <<completer, pend>> /\ \A d \in CPU \ {c} : thread'[d] = thread[d] /\ job'[d] = job[d]
          /\ thread'[c] \in {"none", "wait"}
      BY <1>t, <2>5 DEF ThreadLoop, Loop, history, SwInv, SwTypeOK
    <3> QED BY <1>t, <3>1, OnceUntouched
  <2>6. CASE ThreadSleep(c)
    <3>1. UNCHANGED <<completer, pend, thread, job>>
      BY <2>6 DEF ThreadSleep, history
    <3> QED BY <1>t, <3>1, OnceUntouched
  <2> QED BY <1>1, <2>1, <2>2, <2>3, <2>4, <2>5, <2>6 DEF ThreadStep
<1>2. ASSUME NEW r \in Req, ClientStep(r) PROVE CompleterOnce'
  <2>1. CASE RequestStore(r)
    BY <1>t, <2>1, OnceStored, OnceAll
  <2>2. CASE DetachStore(r)
    BY <1>t, <2>2, OnceDetached, OnceAll
  <2>3. CASE ~RequestStore(r) /\ ~DetachStore(r)
    <3>1. UNCHANGED <<completer, pend, thread, job>>
      BY <1>2, <2>3 DEF ClientStep, CallReturns, RequestCheck, DetachCheck, RequestWake, Return,
         threadVars, history
    <3> QED BY <1>t, <3>1, OnceUntouched
  <2> QED BY <2>1, <2>2, <2>3
<1>3. ASSUME AdminStep PROVE CompleterOnce'
  BY <1>t, <1>3, AdminThreads, OnceUntouched
<1> QED BY <1>1, <1>2, <1>3, Actors

(* A client has one call at a time. *)
LEMMA CallsStep ==
  ASSUME SwInv, SwNext PROVE CallsSound'
<1>a. /\ CallsSound /\ pend \in [Req -> 0 .. MaxPend] /\ call \in [Req -> Call] /\ SwTypeOK'
      /\ NoCall.fn # "request"
  BY TypesStep DEF SwInv, SwTypeOK, NoCall
<1>1. ASSUME NEW c \in CPU, ThreadStep(c) PROVE CallsSound'
  <2>1. CASE pend' = pend /\ call' = call
    BY <1>a, <2>1 DEF CallsSound
  <2>2. CASE ThreadComplete(c)
    <3>1. /\ call' = call
          /\ \/ pend' = pend
             \/ pend' = [pend EXCEPT ![job[c].completer] = pend[job[c].completer] - 1]
      BY <2>2 DEF ThreadComplete
    <3>2. \A r \in Req : pend'[r] <= pend[r] /\ pend[r] \in Int /\ pend'[r] \in Int
      <4>1. \A r \in Req : pend[r] \in Int /\ pend'[r] \in Int
        BY <1>a, SwitcherAssumption DEF SwTypeOK
      <4>2. \A r \in Req : pend'[r] = pend[r] \/ pend'[r] = pend[r] - 1
        BY <1>a, <3>1
      <4> QED BY <4>1, <4>2
    <3> QED BY <1>a, <3>1, <3>2, SwitcherAssumption DEF CallsSound
  <2> QED BY <1>1, <2>1, <2>2, SwitchEffect DEF ThreadStep, ThreadRun, ThreadSleep, ThreadFetch, Fetch,
     ThreadLoop, Loop, history
<1>2. ASSUME NEW r \in Req, ClientStep(r) PROVE CallsSound'
  <2>1. CASE \E c \in CPU, k \in Cluster, cb \in {NONE, r} : RequestCheck(r, c, k, cb)
    <3>1. PICK c \in CPU, k \in Cluster, cb \in {NONE, r} : RequestCheck(r, c, k, cb)
      BY <2>1
    <3>2. /\ cb # NONE => pend[r] < MaxPend
          /\ call' = [call EXCEPT ![r] = [fn |-> "request", cpu |-> c, cluster |-> k, completer |-> cb]]
          /\ pend' = pend
      BY <3>1 DEF RequestCheck, history
    <3> QED BY <1>a, <3>2 DEF CallsSound
  <2>2. CASE \E c \in CPU : DetachCheck(r, c)
    BY <1>a, <2>2 DEF DetachCheck, history, CallsSound
  <2>3. CASE CallReturns(r)
    <3>1. /\ call'[r].fn # "request" /\ \A s \in Req \ {r} : call'[s] = call[s]
          /\ \A s \in Req \ {r} : pend'[s] = pend[s]
      <4>1. CASE RequestStore(r)
        <5>1. \/ call' = [call EXCEPT ![r] = NoCall]
              \/ call' = [call EXCEPT ![r] = [fn |-> "wake", cpu |-> call[r].cpu]]
          BY <4>1 DEF RequestStore
        <5>2. \A s \in Req \ {r} : pend'[s] = pend[s]
          BY <1>a, <4>1 DEF RequestStore, history
        <5> QED BY <1>a, <5>1, <5>2
      <4>2. CASE DetachStore(r) \/ RequestWake(r)
        BY <1>a, <4>2 DEF DetachStore, RequestWake, Return, history
      <4> QED BY <2>3, <4>1, <4>2 DEF CallReturns
    <3> QED BY <1>a, <3>1 DEF CallsSound
  <2> QED BY <1>2, <2>1, <2>2, <2>3 DEF ClientStep
<1>3. ASSUME AdminStep PROVE CallsSound'
  BY <1>a, <1>3, AdminThreads DEF CallsSound
<1> QED BY <1>1, <1>2, <1>3, Actors
-----------------------------------------------------------------------------
(* A thread's step is inside a thread, and touches nothing of the admin's.   *)
LEMMA ThreadFrame ==
  ASSUME SwInv, NEW c \in CPU, ThreadStep(c)
  PROVE  /\ UNCHANGED <<task, stop, adminVars, call, last, late>>
         /\ thread[c] # "none" /\ \A d \in CPU \ {c} : /\ thread'[d] = thread[d] /\ job'[d] = job[d]
                                                       /\ wanted'[d] = wanted[d] /\ started'[d] = started[d]
         /\ thread'[c] = "none" => stop[c]
         /\ thread'[c] # "created"
<1>a. /\ thread \in [CPU -> ThreadPc] /\ wanted \in [CPU -> Cluster \cup {-1}]
      /\ started \in [CPU -> BOOLEAN]
      /\ job \in [CPU -> [cluster : Cluster \cup {-1}, completer : Req \cup {NONE}]]
  BY DEF SwInv, SwTypeOK
<1>1. CASE ThreadRun(c)
  BY <1>a, <1>1 DEF ThreadRun, history
<1>2. CASE ThreadFetch(c)
  BY <1>a, <1>2 DEF ThreadFetch, Fetch, history
<1>3. CASE ThreadSwitch(c)
  BY <1>a, <1>3, SwitchEffect DEF history
<1>4. CASE ThreadComplete(c)
  BY <1>a, <1>4 DEF ThreadComplete
<1>5. CASE ThreadLoop(c)
  BY <1>a, <1>5 DEF ThreadLoop, Loop, history
<1>6. CASE ThreadSleep(c)
  BY <1>a, <1>6 DEF ThreadSleep, history
<1> QED BY <1>1, <1>2, <1>3, <1>4, <1>5, <1>6 DEF ThreadStep

(* A client's step leaves threads and CPUs alone. *)
LEMMA ClientFrame ==
  ASSUME NEW r \in Req, ClientStep(r) PROVE UNCHANGED <<map, task, started, thread, stop, job, adminVars>>
BY DEF ClientStep, CallReturns, RequestCheck, RequestStore, RequestWake, Return, DetachCheck, DetachStore,
   threadVars

(* The state of bL_switcher_enable and bL_switcher_disable, step by step. *)
LEMMA AdminSoundStep ==
  ASSUME SwInv, SwNext PROVE AdminSound'
<1>a. AdminSound /\ SwTypeOK
  BY DEF SwInv
<1>1. CASE UNCHANGED <<task, adminVars>>
  BY <1>a, <1>1 DEF AdminSound, adminVars
<1>b. todo # {} => Min(todo) \in todo /\ Min(todo) \in CPU /\ Min(todo) \in online
  BY MinTodo
<1>2. CASE EnableBegin \/ DisableBegin \/ EnableDone \/ Drained \/ DisableVetoed
  BY <1>a, <1>2 DEF EnableBegin, DisableBegin, EnableDone, Drained, BugDrained, DisableVetoed,
     AdminSound, threadVars
<1>3. CASE HalveCpus \/ EnableFails \/ DisableDone
  <2>1. admin \in {"halve", "stop"} /\ admin' \in {"create", "idle"} /\ active' = active
    BY <1>3 DEF HalveCpus, EnableFails, DisableDone
  <2>2. admin' = "create" => todo' = online'
    BY <1>3 DEF HalveCpus, EnableFails, DisableDone
  <2>3. admin' = "idle" => todo' = {}
    BY <1>a, <1>3 DEF HalveCpus, EnableFails, DisableDone, AdminSound
  <2> QED BY <1>a, <2>1, <2>2, <2>3 DEF AdminSound
<1>4. CASE CreateThread
  BY <1>a, <1>b, <1>4 DEF CreateThread, AdminSound
<1>5. CASE StopThread
  <2> DEFINE c == Min(todo)
  <2>1. c \in CPU /\ task' = [task EXCEPT ![c] = "null"] /\ UNCHANGED <<active, online>>
        /\ admin = "stop" /\ todo # {}
        /\ \/ admin' = "stopped" /\ todo' = todo
           \/ admin' = admin /\ todo' = todo \ {c}
    BY <1>b, <1>5 DEF StopThread
  <2>2. todo' = todo => task'[Min(todo')] = "null"
    BY <1>a, <2>1 DEF SwTypeOK
  <2> HIDE DEF c
  <2> QED BY <1>a, <2>1, <2>2 DEF AdminSound
<1>6. CASE Stopped \/ Started \/ Restored
  <2> DEFINE c == Min(todo)
  <2>1. /\ UNCHANGED <<task, active, online>> /\ admin \in {"stopped", "started", "restored"}
        /\ \/ admin' \in {"started", "restored"} /\ todo' = todo
           \/ admin' = "stop" /\ todo' = todo \ {c}
    BY <1>6 DEF Stopped, Started, Restored, Done, threadVars
  <2> HIDE DEF c
  <2> QED BY <1>a, <2>1 DEF AdminSound
<1>7. ASSUME AdminStep PROVE AdminSound'
  BY <1>2, <1>3, <1>4, <1>5, <1>6, <1>7 DEF AdminStep, AdminWork
<1> QED BY <1>1, <1>7, Actors, ThreadFrame, ClientFrame
(* ThreadsSound, CPU by CPU. *)
ThreadSound(c) ==
  /\ task[c] = "thread" => /\ thread[c] # "none" /\ ~stop[c]
                           /\ c \in online /\ Halved
                           /\ admin = "create" => c \notin todo
                           /\ admin \in Stopping => c \in todo
  /\ task[c] # "thread" /\ thread[c] # "none" => Homing(c)

(* ThreadsSound, CPU by CPU. *)
LEMMA ThreadsAll ==
  /\ ThreadsSound <=> \A c \in CPU : ThreadSound(c)
  /\ ThreadsSound' <=> \A c \in CPU : ThreadSound(c)'
BY DEF ThreadsSound, ThreadSound

(* Every CPU has the thread its struct bL_thread names, and no other. *)
LEMMA ThreadsSoundStep ==
  ASSUME SwInv, SwNext PROVE ThreadsSound'
<1>a. /\ AdminSound /\ SwTypeOK
      /\ \A c \in CPU : ThreadSound(c)
  BY ThreadsAll DEF SwInv
<1>b. todo # {} => Min(todo) \in todo /\ Min(todo) \in CPU /\ Min(todo) \in online
  BY MinTodo
<1>c. admin \in {"stopped", "started", "restored"} => todo # {} /\ task[Min(todo)] = "null"
  BY <1>a DEF AdminSound
<1>1. ASSUME NEW c \in CPU, ThreadStep(c), NEW d \in CPU PROVE ThreadSound(d)'
  <2>1. /\ UNCHANGED <<task, stop, adminVars>> /\ thread[c] # "none"
        /\ d # c => thread'[d] = thread[d]
        /\ thread'[c] = "none" => stop[c]
    BY <1>1, ThreadFrame
  <2> QED BY <1>a, <2>1 DEF ThreadSound, Halved, Homing, adminVars
<1>2. ASSUME NEW r \in Req, ClientStep(r), NEW d \in CPU PROVE ThreadSound(d)'
  BY <1>a, <1>2, ClientFrame DEF ThreadSound, Halved, Homing, adminVars
<1>3. ASSUME EnableBegin \/ DisableBegin \/ EnableDone \/ Drained \/ DisableVetoed, NEW d \in CPU
      PROVE  ThreadSound(d)'
  BY <1>a, <1>3 DEF EnableBegin, DisableBegin, EnableDone, Drained, BugDrained, DisableVetoed,
     AdminSound, ThreadSound, Halved, Homing, Stopping, threadVars
<1>4. ASSUME HalveCpus \/ EnableFails \/ DisableDone, NEW d \in CPU PROVE ThreadSound(d)'
  <2>1. /\ admin = "halve" \/ (admin = "stop" /\ todo = {})
        /\ UNCHANGED <<task, thread, stop>>
    BY <1>4 DEF HalveCpus, EnableFails, DisableDone, threadVars
  <2>2. task[d] # "thread" /\ thread[d] = "none"
    BY <1>a, <2>1 DEF ThreadSound, Halved, Homing, Stopping, AdminSound
  <2> QED BY <2>1, <2>2 DEF ThreadSound
<1>5. ASSUME CreateThread, NEW d \in CPU PROVE ThreadSound(d)'
  <2> DEFINE c == Min(todo)
  <2>1. /\ admin = "create" /\ todo # {} /\ todo' = todo \ {c} /\ UNCHANGED <<admin, active, online>>
        /\ \/ /\ task' = [task EXCEPT ![c] = "thread"] /\ thread' = [thread EXCEPT ![c] = "created"]
              /\ stop' = [stop EXCEPT ![c] = FALSE]
           \/ task' = [task EXCEPT ![c] = "err"] /\ UNCHANGED <<thread, stop>>
    BY <1>5 DEF CreateThread
  <2>2. c \in todo /\ c \in CPU /\ c \in online
    BY <1>b, <2>1
  <2> HIDE DEF c
  <2>3. task[c] # "thread" /\ thread[c] = "none"
    BY <1>a, <2>1, <2>2 DEF ThreadSound, Homing
  <2>4. CASE d = c
    BY <1>a, <2>1, <2>2, <2>3, <2>4 DEF ThreadSound, Halved, Stopping, SwTypeOK
  <2>5. CASE d # c
    <3>1. task'[d] = task[d] /\ thread'[d] = thread[d] /\ stop'[d] = stop[d]
      BY <1>a, <2>1, <2>5 DEF SwTypeOK
    <3> QED BY <1>a, <2>1, <3>1 DEF ThreadSound, Halved, Homing, Stopping
  <2> QED BY <2>4, <2>5
<1>6. ASSUME StopThread, NEW d \in CPU PROVE ThreadSound(d)'
  <2> DEFINE c == Min(todo)
  <2>1. /\ admin = "stop" /\ todo # {} /\ task' = [task EXCEPT ![c] = "null"]
        /\ UNCHANGED <<active, online, thread>>
        /\ \/ task[c] = "thread" /\ stop' = [stop EXCEPT ![c] = TRUE] /\ admin' = "stopped" /\ todo' = todo
           \/ task[c] # "thread" /\ todo' = todo \ {c} /\ UNCHANGED <<stop, admin>>
    BY <1>6 DEF StopThread
  <2>2. c \in todo /\ c \in CPU /\ c \in online
    BY <1>b, <2>1
  <2>3. d = c /\ todo' = todo => Homing(d)' \/ admin' = "stop"
    BY <2>1 DEF Homing
  <2> HIDE DEF c
  <2>4. CASE d = c
    <3>1. task'[c] = "null"
      BY <1>a, <2>1, <2>2 DEF SwTypeOK
    <3>2. task[c] # "thread" => thread'[c] = "none"
      BY <1>a, <2>1, <2>2 DEF ThreadSound, Homing
    <3> QED BY <2>1, <2>3, <2>4, <3>1, <3>2 DEF ThreadSound
  <2>5. CASE d # c
    <3>1. task'[d] = task[d] /\ stop'[d] = stop[d]
      BY <1>a, <2>1, <2>5 DEF SwTypeOK
    <3> QED BY <1>a, <2>1, <2>5, <3>1 DEF ThreadSound, Halved, Homing, Stopping
  <2> QED BY <2>4, <2>5
<1>7. ASSUME Stopped, NEW d \in CPU PROVE ThreadSound(d)'
  <2> DEFINE c == Min(todo)
  <2>1. /\ admin = "stopped" /\ thread[c] = "none" /\ UNCHANGED <<active, online, task>>
        /\ \/ /\ thread' = [thread EXCEPT ![c] = "created"] /\ stop' = [stop EXCEPT ![c] = FALSE]
              /\ admin' = "started" /\ todo' = todo
           \/ admin' = "stop" /\ todo' = todo \ {c} /\ UNCHANGED <<thread, stop>>
    BY <1>7 DEF Stopped
  <2>2. c \in todo /\ c \in CPU /\ c \in online /\ task[c] = "null"
    BY <1>b, <1>c, <2>1
  <2>3. d = c /\ todo' = todo => Homing(d)' \/ admin' = "stop"
    BY <2>1 DEF Homing
  <2>4. \A e \in CPU \ {c} : ~Homing(e)
    BY DEF Homing
  <2> HIDE DEF c
  <2>5. CASE d = c
    <3>1. task'[c] = "null"
      BY <2>1, <2>2
    <3>2. admin' = "started" \/ thread'[c] = "none"
      BY <2>1
    <3> QED BY <2>1, <2>3, <2>5, <3>1, <3>2 DEF ThreadSound
  <2>6. CASE d # c
    <3>1. thread'[d] = thread[d] /\ stop'[d] = stop[d] /\ (task[d] # "thread" => thread[d] = "none")
      BY <1>a, <2>1, <2>4, <2>6 DEF SwTypeOK, ThreadSound
    <3> QED BY <1>a, <2>1, <2>6, <3>1 DEF ThreadSound, Halved, Stopping
  <2> QED BY <2>5, <2>6
<1>8. ASSUME Started, NEW d \in CPU PROVE ThreadSound(d)'
  <2>1. /\ admin = "started" /\ admin' = "restored" /\ stop' = [stop EXCEPT ![Min(todo)] = TRUE]
        /\ UNCHANGED <<task, thread, active, online, todo>>
    BY <1>8 DEF Started
  <2>2. task[d] = "thread" => stop'[d] = stop[d]
    BY <1>a, <1>c, <2>1 DEF SwTypeOK
  <2> QED BY <1>a, <2>1, <2>2 DEF ThreadSound, Halved, Homing, Stopping
<1>9. ASSUME Restored, NEW d \in CPU PROVE ThreadSound(d)'
  <2>1. /\ admin = "restored" /\ admin' = "stop" /\ todo' = todo \ {Min(todo)}
        /\ thread[Min(todo)] = "none" /\ UNCHANGED <<task, thread, stop, active, online>>
    BY <1>9 DEF Restored, Done, threadVars
  <2>2. task[d] # "thread" => thread[d] = "none"
    BY <1>a, <2>1 DEF ThreadSound, Homing
  <2>3. task[d] = "thread" => d # Min(todo)
    BY <1>c, <2>1
  <2> QED BY <1>a, <2>1, <2>2, <2>3 DEF ThreadSound, Halved, Stopping
<1>10. ASSUME AdminStep, NEW d \in CPU PROVE ThreadSound(d)'
  BY <1>3, <1>4, <1>5, <1>6, <1>7, <1>8, <1>9, <1>10 DEF AdminStep, AdminWork
<1> QED BY <1>1, <1>2, <1>10, Actors, ThreadsAll
-----------------------------------------------------------------------------
(* An exchange concerns the two CPUs of a pair, and no other. *)
LEMMA SwapPair ==
  ASSUME SwInv, NEW c \in CPU, thread[c] # "none", map' = Swapped(c)
  PROVE  /\ map'[c] = map[pairing[c]] /\ map'[pairing[c]] = map[c]
         /\ \A d \in CPU : d # c /\ d # pairing[c] => map'[d] = map[d]
         /\ \A d \in online : d # c => map'[d] = map[d] /\ map'[pairing[d]] = map[pairing[d]]
<1>1. /\ c \in online /\ Halved /\ pairing[c] \in CPU \ online
      /\ online \subseteq CPU
  BY ThreadPaired DEF SwInv, SwTypeOK
<1>2. \A d \in online : /\ pairing[d] \in CPU \ online
                        /\ pairing[c] = pairing[d] => c = d
  BY <1>1 DEF SwInv, PairsSound
<1>3. /\ map'[c] = map[pairing[c]] /\ map'[pairing[c]] = map[c]
      /\ \A d \in CPU \ {c, pairing[c]} : map'[d] = map[d]
  BY SwapEffect
<1> QED BY <1>1, <1>2, <1>3

(* The map changes in bL_switch_to only, by exchanging the CPUs of a pair. *)
LEMMA MapChanges ==
  ASSUME SwInv, SwNext
  PROVE  \/ map' = map
         \/ \E c \in CPU : /\ ThreadSwitch(c) /\ map' = Swapped(c) /\ thread[c] = "switch"
                           /\ Current(c) # job[c].cluster
<1>1. ASSUME NEW c \in CPU, ThreadStep(c), ~ThreadSwitch(c) PROVE map' = map
  BY <1>1 DEF ThreadStep, ThreadRun, ThreadSleep, ThreadFetch, Fetch, ThreadComplete, ThreadLoop, Loop
<1> QED BY <1>1, Actors, SwitchEffect, ClientFrame, AdminThreads

(* The steps that leave pairs as they are, while the CPUs are paired. *)
LEMMA HalvedFrame ==
  ASSUME SwInv, SwNext, Halved'
  PROVE  HalveCpus \/ (Halved /\ UNCHANGED <<online, pairing, original>>)
<1>a. AdminSound
  BY DEF SwInv
<1>1. CASE UNCHANGED adminVars
  BY <1>1 DEF adminVars, Halved
<1>2. CASE AdminStep
  BY <1>a, <1>2 DEF AdminStep, AdminWork, EnableBegin, DisableBegin, EnableDone, Drained, BugDrained,
     DisableVetoed, EnableFails, CreateThread, StopThread, Stopped, Started, Restored, Done,
     DisableDone, Halved, AdminSound
<1> QED BY <1>1, <1>2, Actors, ThreadFrame, ClientFrame

(* Pairs stay pairs. *)
LEMMA PairsStep ==
  ASSUME SwInv, SwNext PROVE PairsSound'
<1>a. SwTypeOK /\ PairsSound /\ online \subseteq CPU
  BY DEF SwInv, SwTypeOK
<1>1. \A c, d \in CPU : map'[c] = map'[d] => c = d
  <2>1. CASE map' = map
    BY <1>a, <2>1 DEF PairsSound
  <2>2. CASE map' # map
    <3>1. PICK c \in CPU : map' = Swapped(c) /\ thread[c] = "switch"
      BY <2>2, MapChanges
    <3>2. /\ pairing[c] \in CPU /\ map'[c] = map[pairing[c]] /\ map'[pairing[c]] = map[c]
          /\ \A d \in CPU : d # c /\ d # pairing[c] => map'[d] = map[d]
      BY <3>1, SwapPair, ThreadPaired
    <3>3. \A d, e \in CPU : map[d] = map[e] => d = e
      BY <1>a DEF PairsSound
    <3> QED BY <3>2, <3>3
  <2> QED BY <2>1, <2>2
<1>2. ASSUME Halved', NEW c \in online'
      PROVE  /\ pairing'[c] \in CPU \ online' /\ Current(pairing[c])' # Current(c)'
             /\ \A d \in online' : pairing'[c] = pairing'[d] => c = d
  <2>1. CASE HalveCpus
    <3>1. /\ map' = map /\ pairing' = Pairing /\ online' = {d \in online : pairing'[d] # -1}
      BY <2>1 DEF HalveCpus
    <3>2. c \in CPU /\ pairing'[c] # -1 /\ online' \subseteq CPU
      BY <1>a, <1>2, <3>1
    <3>3. /\ Current(c) = Current(Min(online))
          /\ pairing'[c] \in CPU /\ Current(pairing'[c]) # Current(Min(online))
          /\ \A d \in CPU : pairing'[d] = pairing'[c] => d = c
      BY <1>a, <3>1, <3>2, PairingFacts
    <3>4. pairing'[c] \notin online'
      <4> SUFFICES ASSUME pairing'[c] \in online' PROVE FALSE
        OBVIOUS
      <4>1. Current(pairing'[c]) = Current(Min(online))
        BY <1>a, <3>1, <3>2, PairingFacts
      <4> QED BY <3>3, <4>1
    <3> QED BY <3>1, <3>2, <3>3, <3>4 DEF Current
  <2>2. CASE Halved /\ UNCHANGED <<online, pairing, original>>
    <3>1. /\ pairing[c] \in CPU \ online /\ Current(pairing[c]) # Current(c)
          /\ \A d \in online : pairing[c] = pairing[d] => c = d
      BY <1>a, <1>2, <2>2 DEF PairsSound
    <3>2. Current(pairing[c])' # Current(c)'
      <4>1. CASE map' = map
        BY <2>2, <3>1, <4>1 DEF Current
      <4>2. CASE map' # map
        <5>1. PICK e \in CPU : map' = Swapped(e) /\ thread[e] = "switch"
          BY <4>2, MapChanges
        <5>2. /\ map'[e] = map[pairing[e]] /\ map'[pairing[e]] = map[e]
              /\ c # e => map'[c] = map[c] /\ map'[pairing[c]] = map[pairing[c]]
          BY <1>2, <2>2, <5>1, SwapPair
        <5> QED BY <2>2, <3>1, <5>2 DEF Current
      <4> QED BY <4>1, <4>2
    <3> QED BY <2>2, <3>1, <3>2
  <2> QED BY <1>2, <2>1, <2>2, HalvedFrame
<1> QED BY <1>1, <1>2 DEF PairsSound
-----------------------------------------------------------------------------
(* The parts of HomesKept: where the CPUs of a pair are, ... *)
Placed(c) ==
  /\ Current(c) = original[c] => Own(c, map[c]) /\ Own(pairing[c], map[pairing[c]])
  /\ Current(c) # original[c] => Own(c, map[pairing[c]]) /\ Own(pairing[c], map[c])

(* ... and that a CPU without a thread is back, or its counterpart stays away. *)
Settled(c) == \/ task[c] = "thread" \/ Homing(c)
              \/ Current(c) = original[c] \/ pairing[c] \notin removed

(* Only bL_switcher_disable gives a pair up, when its CPU cannot be switched *)
(* back.                                                                     *)
LEMMA RemovedStep ==
  ASSUME SwInv, SwNext, ~HalveCpus
  PROVE  /\ removed' \subseteq removed
         /\ \A d \in removed \ removed' : \E c \in online : d = pairing[c]
<1>1. CASE UNCHANGED removed
  BY <1>1
<1>2. CASE Stopped \/ Restored
  <2>1. todo # {} /\ (removed' = removed \/ removed' = removed \ {pairing[Min(todo)]})
    BY <1>2 DEF Stopped, Restored, Done, SwInv, AdminSound
  <2> QED BY <2>1, MinTodo
<1>3. CASE AdminStep
  BY <1>1, <1>2, <1>3 DEF AdminStep, AdminWork, EnableBegin, DisableBegin, EnableDone, Drained,
     BugDrained, DisableVetoed, EnableFails, CreateThread, StopThread, Started, DisableDone
<1> QED BY <1>1, <1>3, Actors, ThreadFrame, ClientFrame DEF adminVars

(* The set of managed CPUs changes only with the pairing or the online *)
(* mask.                                                               *)
LEMMA ManagedKept ==
  ASSUME SwInv, SwNext, ~HalveCpus, UNCHANGED <<online, pairing>> PROVE Managed' = Managed
<1>1. {pairing'[c] : c \in online'} = {pairing[c] : c \in online}
  OBVIOUS
<1>2. Managed' = online' \cup removed' \cup {pairing'[c] : c \in online'}
  BY DEF Managed
<1> QED BY <1>1, <1>2, RemovedStep DEF Managed

(* Every physical CPU stays with the pair that it belongs to. *)
LEMMA PlacedStep ==
  ASSUME SwInv, SwNext, ~HalveCpus, Halved, UNCHANGED <<online, pairing, original>>, NEW c \in online
  PROVE  Placed(c)'
<1>a. Placed(c) /\ Managed' = Managed /\ c \in CPU
  BY ManagedKept DEF SwInv, HomesKept, Placed, SwTypeOK
<1>1. CASE map' = map
  BY <1>a, <1>1 DEF Placed, Own, Current
<1>2. CASE map' # map
  <2>1. PICK e \in CPU : map' = Swapped(e) /\ thread[e] = "switch"
    BY <1>2, MapChanges
  <2>2. CASE e # c
    <3>1. map'[c] = map[c] /\ map'[pairing[c]] = map[pairing[c]]
      BY <2>1, <2>2, SwapPair
    <3> QED BY <1>a, <3>1 DEF Placed, Own, Current
  <2>3. CASE e = c
    <3>1. map'[c] = map[pairing[c]] /\ map'[pairing[c]] = map[c] /\ Current(pairing[c]) # Current(c)
      BY <2>1, <2>3, SwapPair, ThreadPaired
    <3>2. Current(c) \in Cluster /\ Current(pairing[c]) \in Cluster /\ original[c] \in Cluster
      <4>1. pairing[c] \in CPU /\ map \in [CPU -> CPU] /\ original \in [CPU -> Cluster]
        BY <2>1, <2>3, ThreadPaired DEF SwInv, SwTypeOK
      <4> QED BY <1>a, <4>1, SwitcherAssumption DEF Current
    <3>3. Current(c)' = Current(pairing[c])
      BY <3>1 DEF Current
    <3>4. Current(c)' = original'[c] <=> Current(c) # original[c]
      BY <3>1, <3>2, <3>3 DEF Cluster
    <3> QED BY <1>a, <3>1, <3>4 DEF Placed, Own
  <2> QED BY <2>2, <2>3
<1> QED BY <1>1, <1>2

(* bL_switcher_disable leaves no CPU away from home with a counterpart that   *)
(* it brings back.                                                            *)
LEMMA SettledStep ==
  ASSUME SwInv, SwNext, ~HalveCpus, Halved, UNCHANGED <<online, pairing, original>>, NEW c \in online
  PROVE  Settled(c)'
<1>a. Settled(c) /\ c \in CPU /\ SwTypeOK
  BY DEF SwInv, HomesKept, Settled, SwTypeOK
<1>b. Current(c)' = Current(c) \/ task[c] = "thread" \/ Homing(c)
  <2>1. CASE map' = map
    BY <2>1 DEF Current
  <2>2. CASE map' # map
    <3>1. PICK e \in CPU : map' = Swapped(e) /\ thread[e] = "switch"
      BY <2>2, MapChanges
    <3>2. CASE e # c
      <4>1. map'[c] = map[c]
        BY <3>1, <3>2, SwapPair
      <4> QED BY <4>1 DEF Current
    <3>3. CASE e = c
      BY <3>1, <3>3 DEF SwInv, ThreadsSound
    <3> QED BY <3>2, <3>3
  <2> QED BY <2>1, <2>2
<1>c. removed' \subseteq removed
  BY RemovedStep
<1>1. CASE UNCHANGED <<task, admin, todo>>
  BY <1>a, <1>b, <1>c, <1>1 DEF Settled, Homing
<1>d. admin \in {"stopped", "started", "restored"} => todo # {}
  BY DEF SwInv, AdminSound
<1>2. CASE EnableBegin \/ DisableBegin \/ EnableDone \/ Drained \/ DisableVetoed \/ EnableFails \/ DisableDone
  <2>1. task' = task /\ map' = map /\ admin \notin {"stopped", "started", "restored"}
    BY <1>2 DEF EnableBegin, DisableBegin, EnableDone, Drained, BugDrained, DisableVetoed, EnableFails,
       DisableDone, threadVars
  <2> QED BY <1>a, <1>c, <2>1 DEF Settled, Homing, Current
<1>3. CASE CreateThread
  <2>1. /\ admin = "create" /\ todo # {} /\ map' = map
        /\ \E w \in {"thread", "err"} : task' = [task EXCEPT ![Min(todo)] = w]
    BY <1>3 DEF CreateThread
  <2>2. Min(todo) \in todo /\ Min(todo) \in CPU
    BY <2>1, MinTodo
  <2>3. task[c] = "thread" => task'[c] = "thread"
    <3>1. task[c] = "thread" => c \notin todo
      BY <1>a, <2>1 DEF SwInv, ThreadsSound
    <3> QED BY <1>a, <2>1, <2>2, <3>1 DEF SwTypeOK
  <2> QED BY <1>a, <1>c, <2>1, <2>3 DEF Settled, Homing, Current
<1>4. CASE StopThread
  <2>1. /\ admin = "stop" /\ map' = map /\ task' = [task EXCEPT ![Min(todo)] = "null"]
        /\ task[Min(todo)] = "thread" => admin' = "stopped" /\ todo' = todo
    BY <1>4 DEF StopThread
  <2>2. task'[c] = task[c] \/ c = Min(todo)
    BY <1>a, <2>1 DEF SwTypeOK
  <2> QED BY <1>a, <1>c, <2>1, <2>2 DEF Settled, Homing, Current
<1>5. CASE Stopped
  <2>1. /\ admin = "stopped" /\ map' = map /\ task' = task
        /\ \/ Current(Min(todo)) = original[Min(todo)]
           \/ admin' = "started" /\ todo' = todo
           \/ removed' = removed \ {pairing[Min(todo)]}
    BY <1>5 DEF Stopped
  <2> QED BY <1>a, <1>c, <2>1 DEF Settled, Homing, Current
<1>6. CASE Started
  BY <1>a, <1>c, <1>6 DEF Started, Settled, Homing, Current
<1>7. CASE Restored
  <2>1. /\ map' = map /\ task' = task
        /\ \/ Current(Min(todo)) = original[Min(todo)]
           \/ removed' = removed \ {pairing[Min(todo)]}
    BY <1>7 DEF Restored, Done, threadVars
  <2> QED BY <1>a, <1>c, <2>1 DEF Settled, Homing, Current
<1>8. CASE AdminStep
  BY <1>2, <1>3, <1>4, <1>5, <1>6, <1>7, <1>8 DEF AdminStep, AdminWork
<1> QED BY <1>1, <1>8, Actors, ThreadFrame, ClientFrame DEF adminVars
(* Enabling starts from where the CPUs are. *)
LEMMA HomesHalve ==
  ASSUME SwInv, HalveCpus PROVE HomesKept'
<1>1. /\ map' = map /\ pairing' = Pairing /\ online' = {c \in online : pairing'[c] # -1}
      /\ removed' = online \ online' /\ admin = "halve" /\ admin' = "create"
      /\ original' = [c \in CPU |-> IF c \in online' THEN Current(c) ELSE original[c]]
  BY DEF HalveCpus
<1>2. \A c \in online : map[c] # c => map[c] \notin online
  BY <1>1 DEF SwInv, HomesKept, Halved, AdminSound
<1>3. online \subseteq CPU /\ online' \subseteq online
  BY <1>1 DEF SwInv, SwTypeOK
<1>4. \A c \in online' : c \in CPU /\ pairing'[c] \in online /\ Current(c)' = original'[c]
  BY <1>1, <1>3, PairingFacts DEF Current
<1>5. Managed' \subseteq online
  BY <1>1, <1>3, <1>4 DEF Managed
<1>6. \A c \in online : Own(c, map[c])'
  BY <1>1, <1>2, <1>5 DEF Own
<1>7. ASSUME NEW c \in online' PROVE Placed(c)' /\ Settled(c)'
  <2>1. map'[pairing'[c]] = pairing'[c] \/ map'[pairing'[c]] \notin Managed'
    BY <1>1, <1>2, <1>4, <1>5
  <2>2. Own(pairing[c], map[pairing[c]])' /\ Own(c, map[c])'
    BY <1>3, <1>6, <2>1 DEF Own
  <2> QED BY <1>4, <2>2 DEF Placed, Settled
<1>8. Halved'
  BY <1>1 DEF Halved
<1> QED BY <1>1, <1>6, <1>7, <1>8 DEF HomesKept, Placed, Settled

(* Disabling puts every CPU back, or keeps away the CPU it would clash with. *)
LEMMA HomesDisabled ==
  ASSUME SwInv, DisableDone, NEW x \in online', map'[x] # x PROVE map'[x] \notin online'
<1>1. /\ admin = "stop" /\ todo = {} /\ map' = map
      /\ \E back \in SUBSET removed : online' = online \cup back
  BY DEF DisableDone
<1>2. Halved /\ online' \subseteq online \cup removed /\ online' \subseteq Managed
  BY <1>1 DEF Halved, Managed
<1>3. \A c \in online : c \in CPU /\ Placed(c) /\ (Current(c) = original[c] \/ pairing[c] \notin removed)
  <2>1. \A c \in online : c \in CPU /\ Placed(c) /\ Settled(c)
    BY <1>2 DEF SwInv, HomesKept, Placed, Settled, SwTypeOK
  <2>2. \A c \in online : task[c] # "thread" /\ ~Homing(c)
    BY <1>1, <2>1 DEF SwInv, ThreadsSound, Stopping, Homing
  <2> QED BY <2>1, <2>2 DEF Settled
<1>4. CASE x \in online /\ Current(x) = original[x]
  BY <1>1, <1>2, <1>3, <1>4 DEF Placed, Own
<1>5. CASE x \in online /\ Current(x) # original[x]
  <2>1. pairing[x] \notin online /\ pairing[x] \notin removed
    BY <1>2, <1>3, <1>5 DEF SwInv, PairsSound
  <2> QED BY <1>1, <1>2, <1>3, <1>5, <2>1 DEF Placed, Own
<1>6. CASE x \in removed \ online
  <2>1. Own(x, map[x])
    <3>1. CASE \E c \in online : pairing[c] = x
      BY <1>3, <1>6, <3>1 DEF Placed
    <3>2. CASE \A c \in online : pairing[c] # x
      BY <1>2, <1>6, <3>2 DEF SwInv, HomesKept
    <3> QED BY <3>1, <3>2
  <2> QED BY <1>1, <1>2, <2>1 DEF Own
<1> QED BY <1>2, <1>4, <1>5, <1>6

(* Every step keeps each physical CPU with its pair, and each CPU without a *)
(* thread at home or alone.                                                 *)
LEMMA HomesStep ==
  ASSUME SwInv, SwNext PROVE HomesKept'
<1>1. ASSUME ~Halved', NEW x \in online', map'[x] # x PROVE map'[x] \notin online'
  <2>1. CASE DisableDone
    BY <1>1, <2>1, HomesDisabled
  <2>2. CASE ~DisableDone
    <3>1. ~Halved /\ online' \subseteq online
      <4>a. AdminSound
        BY DEF SwInv
      <4>1. CASE UNCHANGED adminVars
        BY <1>1, <4>1 DEF adminVars, Halved
      <4>2. CASE AdminStep
        BY <1>1, <2>2, <4>a, <4>2 DEF AdminStep, AdminWork, EnableBegin, DisableBegin, EnableDone, Drained,
           BugDrained, DisableVetoed, EnableFails, CreateThread, StopThread, Stopped, Started, Restored,
           Done, HalveCpus, Halved, AdminSound
      <4> QED BY <4>1, <4>2, Actors, ThreadFrame, ClientFrame
    <3>2. map' = map
      BY <3>1, MapChanges, ThreadPaired
    <3> QED BY <1>1, <3>1, <3>2 DEF SwInv, HomesKept
  <2> QED BY <2>1, <2>2
<1>2. CASE HalveCpus
  BY <1>2, HomesHalve
<1>3. CASE Halved' /\ ~HalveCpus
  <2>1. Halved /\ UNCHANGED <<online, pairing, original>>
    BY <1>3, HalvedFrame
  <2>2. \A c \in online' : Placed(c)' /\ Settled(c)'
    BY <1>3, <2>1, PlacedStep, SettledStep
  <2>3. ASSUME NEW d \in removed' \ online', \A c \in online' : pairing'[c] # d PROVE Own(d, map[d])'
    <3>1. d \in removed \ online /\ \A c \in online : pairing[c] # d
      BY <1>3, <2>1, <2>3, RemovedStep
    <3>2. Own(d, map[d]) /\ Managed' = Managed
      BY <1>3, <2>1, <3>1, ManagedKept DEF SwInv, HomesKept
    <3>3. map'[d] = map[d]
      <4>1. CASE map' # map
        <5>1. PICK e \in CPU : map' = Swapped(e) /\ thread[e] = "switch"
          BY <4>1, MapChanges
        <5>2. e \in online /\ d \in CPU
          BY <3>1, <5>1, ThreadPaired DEF SwInv, SwTypeOK
        <5> QED BY <3>1, <5>1, <5>2, SwapPair
      <4> QED BY <4>1
    <3> QED BY <3>2, <3>3 DEF Own
  <2> QED BY <1>3, <2>2, <2>3 DEF HomesKept, Placed, Settled
<1>4. CASE ~Halved'
  BY <1>1, <1>4 DEF HomesKept
<1> QED BY <1>2, <1>3, <1>4
-----------------------------------------------------------------------------
(* RequestsKept for one CPU. *)
Kept(c) ==
  /\ wanted[c] # -1 => last[c] = wanted[c]
  /\ wanted[c] = -1 /\ last[c] # -1 =>
       \/ thread[c] = "switch" /\ job[c].cluster = last[c]
       \/ thread[c] \in {"complete", "loop", "wait"} /\ Current(c) = last[c]

(* A CPU moves when its own thread switches it. *)
LEMMA OthersStay ==
  ASSUME SwInv, SwNext, NEW c \in online, ~ThreadSwitch(c) PROVE Current(c)' = Current(c)
<1>1. CASE map' = map
  BY <1>1 DEF Current
<1>2. CASE map' # map
  <2>1. PICK e \in CPU : ThreadSwitch(e) /\ map' = Swapped(e) /\ thread[e] = "switch"
    BY <1>2, MapChanges
  <2>2. map'[c] = map[c]
    BY <2>1, SwapPair
  <2> QED BY <2>2 DEF Current
<1> QED BY <1>1, <1>2

(* A switch that does not fail puts the CPU on the cluster asked for. *)
LEMMA SwitchArrives ==
  ASSUME SwInv, ~Failures, NEW c \in CPU, ThreadSwitch(c), job[c].cluster \in Cluster
  PROVE  Current(c)' = job[c].cluster
<1>1. \/ map' = map /\ Current(c) = job[c].cluster
      \/ map' = Swapped(c) /\ Current(c) # job[c].cluster
  BY SwitchEffect
<1>2. thread[c] # "none"
  BY SwitchEffect
<1>3. CASE map' = Swapped(c) /\ Current(c) # job[c].cluster
  <2>1. map'[c] = map[pairing[c]] /\ Current(pairing[c]) # Current(c) /\ pairing[c] \in CPU
    BY <1>2, <1>3, SwapPair, ThreadPaired
  <2>2. Current(c) \in Cluster /\ Current(pairing[c]) \in Cluster
    BY <2>1, SwitcherAssumption DEF Current, SwInv, SwTypeOK
  <2> QED BY <1>3, <2>1, <2>2 DEF Current, Cluster
<1> QED BY <1>1, <1>3 DEF Current

(* No step loses the request that was accepted last. *)
LEMMA RequestsStep ==
  ASSUME SwInv, SwNext PROVE RequestsKept'
<1> SUFFICES ASSUME ~Failures, NEW c \in CPU, task'[c] = "thread" PROVE Kept(c)'
  BY DEF RequestsKept, Kept
<1>a. SwTypeOK /\ AdminSound
  BY DEF SwInv
<1>b. task[c] = "thread" => Kept(c) /\ c \in online /\ ~stop[c]
  BY DEF SwInv, RequestsKept, Kept, ThreadsSound
<1>1. CASE ThreadStep(c)
  <2>0. Kept(c) /\ c \in online /\ ~stop[c] /\ last' = last
    BY <1>1, <1>b, ThreadFrame
  <2>1. CASE ThreadRun(c)
    <3>1. /\ thread[c] = "created" /\ UNCHANGED <<wanted, job, map>>
      BY <2>1 DEF ThreadRun
    <3>2. wanted'[c] = -1 => last'[c] = -1
      BY <2>0, <3>1 DEF Kept
    <3> QED BY <2>0, <3>1, <3>2 DEF Kept
  <2>2. CASE ThreadFetch(c)
    <3>1. /\ thread[c] = "wait" /\ wanted'[c] = -1 /\ map' = map
          /\ job'[c].cluster = wanted[c]
          /\ thread'[c] = IF wanted[c] = -1 THEN "loop" ELSE "switch"
      BY <1>a, <2>2 DEF ThreadFetch, Fetch, SwTypeOK
    <3> QED BY <2>0, <3>1 DEF Kept, Current
  <2>3. CASE ThreadSwitch(c)
    <3>1. thread[c] = "switch" /\ thread'[c] = "complete" /\ UNCHANGED <<wanted, job>>
      BY <1>a, <2>3, SwitchEffect DEF SwTypeOK
    <3>2. last[c] # -1 /\ wanted[c] = -1 => job[c].cluster = last[c] /\ last[c] \in Cluster
      BY <1>a, <2>0, <3>1 DEF Kept, SwTypeOK
    <3>3. last[c] # -1 /\ wanted[c] = -1 => Current(c)' = last[c]
      BY <2>3, <3>2, SwitchArrives
    <3> QED BY <2>0, <3>1, <3>3 DEF Kept
  <2>4. CASE ThreadComplete(c)
    <3>1. thread[c] = "complete" /\ thread'[c] = "loop" /\ UNCHANGED <<wanted, job, map>>
      BY <1>a, <2>4 DEF ThreadComplete, SwTypeOK
    <3> QED BY <2>0, <3>1 DEF Kept, Current
  <2>5. CASE ThreadLoop(c)
    <3>1. thread[c] = "loop" /\ thread'[c] = "wait" /\ UNCHANGED <<wanted, map>>
      BY <1>a, <2>0, <2>5 DEF ThreadLoop, Loop, SwTypeOK
    <3> QED BY <2>0, <3>1 DEF Kept, Current
  <2>6. CASE ThreadSleep(c)
    BY <2>0, <2>6 DEF ThreadSleep, Kept, Current
  <2> QED BY <1>1, <2>1, <2>2, <2>3, <2>4, <2>5, <2>6 DEF ThreadStep
<1>2. CASE ~ThreadSwitch(c) /\ task[c] = "thread" /\ wanted'[c] = wanted[c] /\ last'[c] = last[c]
           /\ thread'[c] = thread[c] /\ job'[c] = job[c]
  <2>1. Kept(c) /\ Current(c)' = Current(c)
    BY <1>2, <1>b, OthersStay
  <2> QED BY <1>2, <2>1 DEF Kept
<1>3. ASSUME NEW e \in CPU, ThreadStep(e), e # c, ~ThreadStep(c) PROVE Kept(c)'
  BY <1>2, <1>3, ThreadFrame DEF ThreadStep
<1>4. ASSUME NEW r \in Req, ClientStep(r), ~ThreadStep(c) PROVE Kept(c)'
  <2>1. UNCHANGED <<task, thread, job>>
    BY <1>4, ClientFrame
  <2>2. CASE wanted'[c] = wanted[c] /\ last'[c] = last[c]
    BY <1>2, <1>4, <2>1, <2>2 DEF ThreadStep
  <2>3. CASE wanted'[c] = call[r].cluster /\ last'[c] = call[r].cluster /\ call[r].fn = "request"
    <3>1. call[r] \in Call
      BY <1>a DEF SwTypeOK
    <3>2. call[r].cluster \in Cluster
      BY <2>3, <3>1 DEF Call, NoCall
    <3> QED BY <2>3, <3>2 DEF Kept, Cluster
  <2>4. (wanted' = wanted /\ last' = last) \/ RequestStore(r)
    BY <1>4 DEF ClientStep, CallReturns, RequestCheck, RequestWake, Return, DetachCheck, DetachStore,
       threadVars, history
  <2>5. CASE RequestStore(r) /\ ~(wanted' = wanted /\ last' = last)
    <3>1. /\ wanted' = [wanted EXCEPT ![call[r].cpu] = call[r].cluster]
          /\ last' = [last EXCEPT ![call[r].cpu] = call[r].cluster] /\ call[r].fn = "request"
      BY <2>5 DEF RequestStore, history
    <3>2. \/ wanted'[c] = wanted[c] /\ last'[c] = last[c]
          \/ wanted'[c] = call[r].cluster /\ last'[c] = call[r].cluster
      BY <1>a, <3>1 DEF SwTypeOK
    <3> QED BY <2>2, <2>3, <3>1, <3>2
  <2> QED BY <2>2, <2>4, <2>5
<1>5. ASSUME AdminStep, ~ThreadStep(c) PROVE Kept(c)'
  <2>a. admin \in {"stopped", "started", "restored"} => todo # {} /\ task[Min(todo)] = "null"
    BY <1>a DEF AdminSound
  <2>b. todo # {} => Min(todo) \in CPU
    BY MinTodo
  <2>c. job' = job /\ ~ThreadSwitch(c)
    BY <1>5, AdminThreads DEF ThreadStep
  <2>1. CASE CreateThread
    <3>1. /\ todo # {} /\ wanted' = [wanted EXCEPT ![Min(todo)] = -1]
          /\ last' = [last EXCEPT ![Min(todo)] = -1]
          /\ \/ /\ task' = [task EXCEPT ![Min(todo)] = "thread"]
                /\ thread' = [thread EXCEPT ![Min(todo)] = "created"]
             \/ task' = [task EXCEPT ![Min(todo)] = "err"] /\ thread' = thread
      BY <2>1 DEF CreateThread
    <3>2. CASE c = Min(todo)
      <4>1. wanted'[c] = -1 /\ last'[c] = -1
        BY <1>a, <3>1, <3>2 DEF SwTypeOK
      <4> QED BY <4>1 DEF Kept
    <3>3. CASE c # Min(todo)
      BY <1>2, <1>a, <2>c, <3>1, <3>3 DEF SwTypeOK
    <3> QED BY <3>2, <3>3
  <2>2. CASE StopThread
    <3>1. UNCHANGED <<wanted, last, thread>> /\ task' = [task EXCEPT ![Min(todo)] = "null"]
      BY <2>2 DEF StopThread, history
    <3>2. task[c] = "thread"
      BY <1>a, <3>1 DEF SwTypeOK
    <3> QED BY <1>2, <2>c, <3>1, <3>2
  <2>3. CASE Stopped
    <3>1. /\ admin = "stopped" /\ UNCHANGED <<last, task>>
          /\ \/ wanted' = wanted
             \/ wanted' = [wanted EXCEPT ![Min(todo)] = original[Min(todo)]]
          /\ \/ thread' = thread
             \/ thread' = [thread EXCEPT ![Min(todo)] = "created"]
      BY <2>3 DEF Stopped, history
    <3>2. c # Min(todo) /\ task[c] = "thread"
      BY <2>a, <3>1
    <3> QED BY <1>2, <1>a, <2>c, <3>1, <3>2 DEF SwTypeOK
  <2>4. CASE ~CreateThread /\ ~StopThread /\ ~Stopped
    <3>1. UNCHANGED <<wanted, last, thread, task>>
      BY <1>5, <2>4 DEF AdminStep, AdminWork, EnableBegin, DisableBegin, EnableDone, Drained, BugDrained,
         DisableVetoed, EnableFails, HalveCpus, Started, Restored, Done, DisableDone, threadVars, history
    <3> QED BY <1>2, <2>c, <3>1
  <2> QED BY <2>1, <2>2, <2>3, <2>4
<1> QED BY <1>1, <1>3, <1>4, <1>5, Actors
-----------------------------------------------------------------------------
(* Nobody is taken off the list of late clients, and a client comes on it by   *)
(* storing a request on the CPU that is being switched back.                   *)
LEMMA LateStep ==
  ASSUME SwInv, SwNext
  PROVE  /\ late \subseteq late'
         /\ \/ late' = late
            \/ \E r \in Req : /\ late' = late \cup {r} /\ call[r].fn = "request"
                               /\ admin \in {"started", "restored"}
<1>1. ASSUME NEW c \in CPU, ThreadStep(c) PROVE late' = late
  BY <1>1, ThreadFrame
<1>2. ASSUME NEW r \in Req, ClientStep(r)
      PROVE  \/ late' = late
             \/ /\ late' = late \cup {r} /\ call[r].fn = "request"
                /\ admin \in {"started", "restored"}
  <2>1. CASE RequestStore(r)
    BY <2>1 DEF RequestStore, history
  <2>2. CASE ~RequestStore(r)
    BY <1>2, <2>2 DEF ClientStep, CallReturns, RequestCheck, RequestWake, Return, DetachCheck,
       DetachStore, history
  <2> QED BY <2>1, <2>2
<1>3. ASSUME AdminStep PROVE late' = late
  BY <1>3 DEF AdminStep, AdminWork, EnableBegin, DisableBegin, EnableDone, Drained, BugDrained,
     DisableVetoed, EnableFails, HalveCpus, CreateThread, StopThread, Stopped, Started, Restored, Done,
     DisableDone, history
<1> QED BY <1>1, <1>2, <1>3, Actors

(* A request that is not late leaves alone the CPU that is switched back. *)
LEMMA NotLate ==
  ASSUME SwInv, NEW r \in Req, ClientStep(r), late' = {}, admin \in {"started", "restored"}
  PROVE  wanted'[Min(todo)] = wanted[Min(todo)]
<1>1. CASE RequestStore(r)
  <2>1. call[r].cpu # Min(todo) \/ wanted' = wanted
    BY <1>1 DEF RequestStore
  <2>2. wanted' = wanted \/ wanted' = [wanted EXCEPT ![call[r].cpu] = call[r].cluster]
    BY <1>1 DEF RequestStore
  <2>3. wanted \in [CPU -> Cluster \cup {-1}] /\ Min(todo) \in CPU
    <3>1. todo # {}
      BY DEF SwInv, AdminSound
    <3> QED BY <3>1, MinTodo DEF SwInv, SwTypeOK
  <2> QED BY <2>1, <2>2, <2>3
<1>2. CASE ~RequestStore(r)
  BY <1>2 DEF ClientStep, CallReturns, RequestCheck, RequestWake, Return, DetachCheck,
     DetachStore, threadVars
<1> QED BY <1>1, <1>2

(* A notified client is in no call while bL_switcher_disable is at work, so    *)
(* that it is never late.                                                      *)
LEMMA NotifiedStep ==
  ASSUME SwInv, SwNext PROVE NotifiedSound'
<1>a. /\ open => active /\ admin = "idle"
      /\ admin \in Stopping => \A r \in Notified : call[r] = NoCall
      /\ late \cap Notified = {}
      /\ AdminSound /\ NoCall.fn = "none" /\ call \in [Req -> Call] /\ Notified \subseteq Req
  BY SwitcherAssumption DEF SwInv, NotifiedSound, NoneCalls, NoCall, SwTypeOK
<1>1. ASSUME NEW r \in Notified, ClientStep(r) PROVE admin \notin Stopping
  <2> SUFFICES ASSUME admin \in Stopping PROVE FALSE
    OBVIOUS
  <2>1. ~open /\ call[r] = NoCall
    BY <1>a DEF Stopping
  <2> QED BY <1>1, <1>a, <2>1 DEF ClientStep, CallReturns, RequestCheck, DetachCheck, MayCall, RequestStore,
     RequestWake, Return, DetachStore
<1>2. ASSUME NEW c \in CPU, ThreadStep(c)
      PROVE  /\ open' => active' /\ admin' = "idle"
             /\ admin' \in Stopping => \A r \in Notified : call'[r] = NoCall
  BY <1>2, <1>a, ThreadFrame DEF adminVars
<1>3. ASSUME NEW r \in Req, ClientStep(r)
      PROVE  /\ open' => active' /\ admin' = "idle"
             /\ admin' \in Stopping => \A s \in Notified : call'[s] = NoCall
  <2>1. \A s \in Req \ {r} : call'[s] = call[s]
    BY <1>3, <1>a DEF ClientStep, CallReturns, RequestCheck, DetachCheck, RequestStore, RequestWake,
       Return, DetachStore
  <2> QED BY <1>1, <1>3, <1>a, <2>1, ClientFrame DEF adminVars
<1>4. ASSUME AdminStep
      PROVE  /\ open' => active' /\ admin' = "idle"
             /\ admin' \in Stopping => \A r \in Notified : call'[r] = NoCall
  <2>1. call' = call
    BY <1>4, AdminThreads
  <2> QED BY <1>4, <1>a, <2>1 DEF AdminStep, AdminWork, EnableBegin, DisableBegin, EnableDone, Drained,
         BugDrained, NoneCalls, DisableVetoed, EnableFails, HalveCpus, CreateThread, StopThread, Stopped,
         Started, Restored, Done, DisableDone, Stopping, AdminSound
<1>5. late' \cap Notified = {}
  BY <1>a, LateStep DEF Stopping
<1> QED BY <1>2, <1>3, <1>4, <1>5, Actors DEF NotifiedSound, NoneCalls

(* The thread that switches a CPU back is not disturbed, and gets there. *)
LEMMA ReturningStep ==
  ASSUME SwInv, SwNext, ~Failures, late' = {}, NEW c \in CPU, Homing(c)', admin' # "stopped"
  PROVE  Returning(c)'
<1>a. SwTypeOK /\ ~Failures /\ admin' \in {"started", "restored"}
  BY DEF SwInv, Homing
<1>1. CASE Stopped
  <2>1. /\ todo' = todo /\ thread' = [thread EXCEPT ![Min(todo)] = "created"]
        /\ stop' = [stop EXCEPT ![Min(todo)] = FALSE] /\ started' = [started EXCEPT ![Min(todo)] = FALSE]
        /\ wanted' = [wanted EXCEPT ![Min(todo)] = original[Min(todo)]] /\ admin' = "started"
        /\ original' = original
    BY <1>a, <1>1 DEF Stopped
  <2>2. c = Min(todo)
    BY <2>1 DEF Homing
  <2>3. /\ thread'[c] = "created" /\ ~stop'[c] /\ ~started'[c] /\ wanted'[c] = original'[c]
    BY <1>a, <2>1, <2>2 DEF SwTypeOK
  <2> QED BY <2>1, <2>3 DEF Returning
<1>2. CASE ~Stopped
  <2>0. admin \in {"started", "restored"} /\ todo' = todo /\ original' = original
    <3>1. CASE UNCHANGED adminVars
      BY <1>a, <3>1 DEF adminVars
    <3>2. CASE AdminStep
      BY <1>a, <1>2, <3>2 DEF AdminStep, AdminWork, EnableBegin, DisableBegin, EnableDone, Drained,
         BugDrained, DisableVetoed, EnableFails, HalveCpus, CreateThread, StopThread, Started, Restored,
         Done, DisableDone
    <3> QED BY <3>1, <3>2, Actors, ThreadFrame, ClientFrame
  <2>1. Homing(c) /\ c \in online
    <3>1. todo # {} /\ c = Min(todo)
      BY <2>0 DEF Homing, SwInv, AdminSound
    <3> QED BY <2>0, <3>1, MinTodo DEF Homing
  <2>2. Returning(c)
    BY <2>0, <2>1, LateStep DEF SwInv, RestoreSound, Undisturbed
  <2>3. CASE ThreadStep(c)
    <3>0. admin' = admin /\ stop' = stop
      BY <2>3, ThreadFrame DEF adminVars
    <3>1. CASE ThreadRun(c)
      <4>1. thread[c] = "created" /\ UNCHANGED <<wanted, map>>
        BY <3>1 DEF ThreadRun
      <4>2. ~stop[c] /\ wanted[c] = original[c]
        BY <2>2, <4>1 DEF Returning
      <4>3. thread'[c] = "wait" /\ wanted'[c] # -1
        BY <1>a, <3>1, <4>1, <4>2 DEF ThreadRun, SwTypeOK, Cluster
      <4> QED BY <2>0, <4>1, <4>2, <4>3 DEF Returning
    <3>2. CASE ThreadFetch(c)
      <4>1. /\ thread[c] = "wait" /\ wanted'[c] = -1 /\ map' = map
            /\ job'[c].cluster = wanted[c]
            /\ thread'[c] = IF wanted[c] = -1 THEN "loop" ELSE "switch"
        BY <1>a, <3>2 DEF ThreadFetch, Fetch, SwTypeOK
      <4> QED BY <2>0, <2>2, <4>1 DEF Returning, Current
    <3>3. CASE ThreadSwitch(c)
      <4>1. thread[c] = "switch" /\ thread'[c] = "complete" /\ UNCHANGED <<wanted, job>>
        BY <1>a, <3>3, SwitchEffect DEF SwTypeOK
      <4>2. job[c].cluster = original[c] /\ original[c] \in Cluster
        BY <1>a, <2>2, <4>1 DEF Returning, SwTypeOK
      <4>3. Current(c)' = original[c]
        BY <1>a, <3>3, <4>2, SwitchArrives
      <4> QED BY <2>0, <2>2, <4>1, <4>3 DEF Returning
    <3>4. CASE ThreadComplete(c)
      <4>1. thread[c] = "complete" /\ thread'[c] = "loop" /\ UNCHANGED <<wanted, job, map>>
        BY <1>a, <3>4 DEF ThreadComplete, SwTypeOK
      <4> QED BY <2>0, <2>2, <4>1 DEF Returning, Current
    <3>5. CASE ThreadLoop(c)
      <4>1. thread[c] = "loop" /\ thread'[c] \in {"none", "wait"} /\ UNCHANGED <<wanted, map>>
        BY <1>a, <3>5 DEF ThreadLoop, Loop, SwTypeOK
      <4> QED BY <2>0, <2>2, <4>1 DEF Returning, Current
    <3>6. CASE ThreadSleep(c)
      <4>1. UNCHANGED <<wanted, thread, started, job, map>>
        BY <3>6 DEF ThreadSleep
      <4> QED BY <2>0, <2>2, <3>0, <4>1 DEF Returning, Current
    <3> QED BY <2>3, <3>1, <3>2, <3>3, <3>4, <3>5, <3>6 DEF ThreadStep
  <2>4. ASSUME NEW e \in CPU, ThreadStep(e), ~ThreadStep(c) PROVE Returning(c)'
    <3>1. /\ UNCHANGED <<stop, admin>> /\ thread'[c] = thread[c] /\ job'[c] = job[c]
          /\ wanted'[c] = wanted[c] /\ started'[c] = started[c]
      BY <2>4, ThreadFrame DEF adminVars
    <3>2. Current(c)' = Current(c)
      BY <2>1, <2>4, OthersStay DEF ThreadStep
    <3> QED BY <2>0, <2>2, <3>1, <3>2 DEF Returning
  <2>5. CASE AdminStep
    <3>1. CASE Started
      <4>1. started[c] /\ UNCHANGED <<map, wanted, started, thread, job>>
        BY <2>1, <3>1 DEF Started, Homing
      <4> QED BY <2>0, <2>2, <4>1 DEF Returning, Current
    <3>2. CASE ~Started
      BY <1>2, <2>0, <2>5, <3>2, <1>a DEF AdminStep, AdminWork, EnableBegin, DisableBegin, EnableDone, Drained,
         BugDrained, DisableVetoed, EnableFails, HalveCpus, CreateThread, StopThread, Restored,
         Done, DisableDone
    <3> QED BY <3>1, <3>2
  <2>6. ASSUME NEW r \in Req, ClientStep(r) PROVE Returning(c)'
    <3>1. UNCHANGED <<map, started, thread, stop, job, admin>>
      BY <2>6, ClientFrame DEF adminVars
    <3>2. wanted'[c] = wanted[c]
      BY <2>0, <2>1, <2>6, NotLate DEF Homing
    <3> QED BY <2>0, <2>2, <3>1, <3>2 DEF Returning, Current
  <2> QED BY <2>3, <2>4, <2>5, <2>6, Actors
<1> QED BY <1>1, <1>2

(* No thread is left asleep beside a request or an order to stop. *)
LEMMA WakeStep ==
  ASSUME SwInv, SwNext PROVE WakePending'
<1> DEFINE Awaited(c) == \E r \in Req : call[r] = [fn |-> "wake", cpu |-> c]
<1>a. /\ wq \subseteq CPU /\ SwTypeOK /\ AdminSound
      /\ \A c \in wq : thread[c] = "wait" /\ ~stop[c] /\ (wanted[c] # -1 => Awaited(c))
  BY DEF SwInv, SwTypeOK, WakePending
<1>1. ASSUME NEW e \in CPU, ThreadStep(e) PROVE WakePending'
  <2>1. /\ UNCHANGED <<stop, call>>
        /\ \A d \in CPU \ {e} : thread'[d] = thread[d] /\ wanted'[d] = wanted[d]
    BY <1>1, ThreadFrame
  <2>2. CASE ThreadSleep(e)
    <3>1. /\ thread[e] = "wait" /\ wanted[e] = -1 /\ ~stop[e] /\ wq' = wq \cup {e}
          /\ UNCHANGED <<thread, wanted>>
      BY <2>2 DEF ThreadSleep
    <3> QED BY <1>a, <2>1, <3>1 DEF WakePending
  <2>3. CASE ~ThreadSleep(e)
    <3>1. wq' = wq /\ e \notin wq
      <4>1. wq' = wq
        BY <1>1, <2>3, SwitchEffect DEF ThreadStep, ThreadRun, ThreadFetch, Fetch, ThreadComplete,
           ThreadLoop, Loop
      <4>2. e \notin wq \/ thread[e] # "wait"
        BY <1>1, <2>3, SwitchEffect DEF ThreadStep, ThreadRun, ThreadFetch, Fetch, ThreadComplete,
           ThreadLoop, Loop
      <4> QED BY <1>a, <4>1, <4>2
    <3> QED BY <1>a, <2>1, <3>1 DEF WakePending
  <2> QED BY <2>2, <2>3
<1>2. ASSUME NEW r \in Req, ClientStep(r) PROVE WakePending'
  <2>1. UNCHANGED <<thread, stop>>
    BY <1>2, ClientFrame
  <2>2. CASE RequestStore(r)
    <3>1. wq' = wq /\ call[r].fn = "request"
      BY <2>2 DEF RequestStore
    <3>2. /\ call' \in [Req -> Call] /\ \A s \in Req \ {r} : call'[s] = call[s]
      BY <1>2, <2>2, <1>a, ClientTypes DEF RequestStore, SwTypeOK
    <3>3. \A c \in CPU : Awaited(c) => Awaited(c)'
      <4> SUFFICES ASSUME NEW c \in CPU, NEW s \in Req, call[s] = [fn |-> "wake", cpu |-> c]
                   PROVE  call'[s] = [fn |-> "wake", cpu |-> c]
        OBVIOUS
      <4>1. s # r
        BY <3>1
      <4> QED BY <3>2, <4>1
    <3>4. ASSUME NEW c \in CPU PROVE wanted'[c] = wanted[c] \/ Awaited(c)'
      <4>1. CASE completer[call[r].cpu] # NONE
        BY <2>2, <4>1 DEF RequestStore
      <4>2. CASE completer[call[r].cpu] = NONE
        <5>1. /\ call' = [call EXCEPT ![r] = [fn |-> "wake", cpu |-> call[r].cpu]]
              /\ wanted' = [wanted EXCEPT ![call[r].cpu] = call[r].cluster]
          BY <2>2, <4>2 DEF RequestStore
        <5>2. CASE c = call[r].cpu
          <6>1. call'[r] = [fn |-> "wake", cpu |-> c]
            BY <1>a, <5>1, <5>2 DEF SwTypeOK
          <6> QED BY <6>1
        <5>3. CASE c # call[r].cpu
          BY <1>a, <5>1, <5>3 DEF SwTypeOK
        <5> QED BY <5>2, <5>3
      <4> QED BY <4>1, <4>2
    <3> HIDE DEF Awaited
    <3>5. \A c \in wq' : thread'[c] = "wait" /\ ~stop'[c] /\ (wanted'[c] # -1 => Awaited(c)')
      BY <1>a, <2>1, <3>1, <3>3, <3>4
    <3> QED BY <3>5 DEF WakePending, Awaited
  <2>3. CASE RequestWake(r)
    <3>1. /\ wq' = wq \ {call[r].cpu} /\ wanted' = wanted /\ call[r].fn = "wake"
          /\ \A s \in Req \ {r} : call'[s] = call[s]
      BY <2>3, <1>a DEF RequestWake, Return, SwTypeOK
    <3>2. ASSUME NEW c \in wq', wanted'[c] # -1
          PROVE  \E s \in Req : call'[s] = [fn |-> "wake", cpu |-> c]
      <4>1. PICK s \in Req : call[s] = [fn |-> "wake", cpu |-> c]
        BY <1>a, <3>1, <3>2
      <4>2. s # r
        BY <3>1, <3>2, <4>1
      <4> QED BY <3>1, <4>1, <4>2
    <3> QED BY <1>a, <2>1, <3>1, <3>2 DEF WakePending
  <2>4. CASE ~RequestStore(r) /\ ~RequestWake(r)
    <3>1. /\ UNCHANGED <<wq, wanted>> /\ call[r].fn # "wake"
          /\ \A s \in Req \ {r} : call'[s] = call[s]
      BY <1>2, <1>a, <2>4 DEF ClientStep, CallReturns, RequestCheck, DetachCheck, DetachStore, MayCall,
         NoCall, threadVars, SwTypeOK
    <3>2. ASSUME NEW c \in wq, wanted[c] # -1
          PROVE  \E s \in Req : call'[s] = [fn |-> "wake", cpu |-> c]
      <4>1. PICK s \in Req : call[s] = [fn |-> "wake", cpu |-> c]
        BY <1>a, <3>2
      <4>2. s # r
        BY <3>1, <4>1
      <4> QED BY <3>1, <4>1, <4>2
    <3> QED BY <1>a, <2>1, <3>1, <3>2 DEF WakePending
  <2> QED BY <2>2, <2>3, <2>4
<1>3. ASSUME AdminStep PROVE WakePending'
  <2>a. call' = call
    BY <1>3, AdminThreads
  <2>b. todo # {} => Min(todo) \in CPU /\ Min(todo) \in todo
    BY MinTodo
  <2>1. CASE CreateThread \/ Stopped
    <3> DEFINE c == Min(todo)
    <3>1. c \in CPU /\ thread[c] = "none"
      <4>1. CASE CreateThread
        <5>1. admin = "create" /\ c \in CPU /\ c \in todo
          BY <2>b, <4>1 DEF CreateThread
        <5> HIDE DEF c
        <5> QED BY <5>1 DEF SwInv, ThreadsSound, Homing
      <4>2. CASE Stopped
        BY <1>a, <2>b, <4>2 DEF Stopped, AdminSound
      <4> QED BY <2>1, <4>1, <4>2
    <3>2. c \notin wq
      BY <1>a, <3>1
    <3>3. /\ wq' = wq
          /\ \A d \in CPU \ {c} : thread'[d] = thread[d] /\ wanted'[d] = wanted[d] /\ stop'[d] = stop[d]
      BY <1>a, <2>1 DEF CreateThread, Stopped, SwTypeOK
    <3> HIDE DEF c
    <3> QED BY <1>a, <2>a, <3>2, <3>3 DEF WakePending
  <2>2. CASE StopThread \/ Started
    <3>1. /\ UNCHANGED <<thread, wanted>>
          /\ \/ wq' = wq /\ stop' = stop
             \/ wq' = wq \ {Min(todo)} /\ stop' = [stop EXCEPT ![Min(todo)] = TRUE]
      BY <2>2 DEF StopThread, Started
    <3>2. \A d \in wq' : d \in wq /\ stop'[d] = stop[d]
      BY <1>a, <3>1 DEF SwTypeOK
    <3> QED BY <1>a, <2>a, <3>1, <3>2 DEF WakePending
  <2>3. CASE ~CreateThread /\ ~Stopped /\ ~StopThread /\ ~Started
    <3>1. UNCHANGED <<wq, thread, wanted, stop>>
      BY <1>3, <2>3 DEF AdminStep, AdminWork, EnableBegin, DisableBegin, EnableDone, Drained, BugDrained,
         DisableVetoed, EnableFails, HalveCpus, Restored, Done, DisableDone, threadVars
    <3> QED BY <1>a, <2>a, <3>1 DEF WakePending
  <2> QED BY <2>1, <2>2, <2>3
<1> QED BY <1>1, <1>2, <1>3, Actors

(* What bL_switcher_halve_cpus takes offline, bL_switcher_restore_cpus brings *)
(* back.                                                                      *)
LEMMA RestoreStep ==
  ASSUME SwInv, SwNext PROVE RestoreSound'
<1> SUFFICES ASSUME ~Failures, late' = {}
             PROVE  /\ ~Halved' => map' = [c \in CPU |-> c] /\ online' = CPU
                    /\ Halved' => online' \cup removed' = CPU /\ \A c \in online' : pairing'[c] \in removed'
                    /\ \A c \in online' : Homing(c)' /\ admin' # "stopped" => Returning(c)'
  BY DEF RestoreSound, Undisturbed
<1>a. /\ SwTypeOK /\ SwTypeOK' /\ AdminSound /\ ~Failures
      /\ ~Halved => map = [c \in CPU |-> c] /\ online = CPU
      /\ Halved => online \cup removed = CPU /\ \A c \in online : pairing[c] \in removed
      /\ \A c \in online : Homing(c) /\ admin # "stopped" => Returning(c)
  BY TypesStep, LateStep DEF SwInv, Undisturbed, RestoreSound
<1>1. ASSUME ~Halved' PROVE map' = [c \in CPU |-> c] /\ online' = CPU
  <2>1. CASE DisableDone
    <3>1. Halved /\ online' = online \cup removed /\ map' = map
      BY <1>a, <2>1 DEF DisableDone, Halved
    <3>2. online' = CPU
      BY <1>a, <3>1
    <3>3. \A x \in CPU : map'[x] = x
      <4>1. \A x \in CPU : map'[x] \in CPU
        BY <1>a DEF SwTypeOK
      <4> QED BY <2>1, <3>2, <4>1, HomesDisabled
    <3>4. map' \in [CPU -> CPU]
      BY <1>a DEF SwTypeOK
    <3> QED BY <3>2, <3>3, <3>4
  <2>2. CASE ~DisableDone
    <3>1. ~Halved /\ online' = online
      <4>1. CASE UNCHANGED adminVars
        BY <1>1, <4>1 DEF adminVars, Halved
      <4>2. CASE AdminStep
        BY <1>1, <1>a, <2>2, <4>2 DEF AdminStep, AdminWork, EnableBegin, DisableBegin, EnableDone, Drained,
           BugDrained, DisableVetoed, EnableFails, CreateThread, StopThread, Stopped, Started, Restored,
           Done, HalveCpus, Halved, AdminSound
      <4> QED BY <4>1, <4>2, Actors, ThreadFrame, ClientFrame
    <3>2. map' = map
      BY <3>1, MapChanges, ThreadPaired
    <3> QED BY <1>a, <3>1, <3>2
  <2> QED BY <2>1, <2>2
<1>2. ASSUME Halved' PROVE online' \cup removed' = CPU /\ \A c \in online' : pairing'[c] \in removed'
  <2>1. CASE HalveCpus
    <3>1. /\ online' = {c \in online : pairing'[c] # -1} /\ removed' = online \ online' /\ ~Halved
          /\ pairing' = Pairing
      BY <1>a, <2>1 DEF HalveCpus, Halved, AdminSound
    <3>2. online = CPU
      BY <1>a, <3>1
    <3>3. \A c \in online' : pairing'[c] \in CPU \ online'
      BY <1>2, PairsStep DEF PairsSound
    <3> QED BY <3>1, <3>2, <3>3
  <2>2. CASE ~HalveCpus
    <3>1. Halved /\ UNCHANGED <<online, pairing>>
      BY <1>2, <2>2, HalvedFrame
    <3>2. removed' = removed
      <4>1. CASE UNCHANGED adminVars
        BY <4>1 DEF adminVars
      <4>2. CASE Restored
        <5>1. /\ admin = "restored" /\ thread[Min(todo)] = "none"
              /\ Current(Min(todo)) = original[Min(todo)] => removed' = removed
          BY <4>2 DEF Restored, Done
        <5>2. Min(todo) \in online /\ Homing(Min(todo))
          BY <1>a, <5>1, MinTodo DEF AdminSound, Homing
        <5>3. Returning(Min(todo))
          BY <1>a, <5>1, <5>2
        <5> QED BY <5>1, <5>3 DEF Returning
      <4>3. CASE AdminStep /\ ~Restored
        BY <1>a, <2>2, <4>3 DEF AdminStep, AdminWork, EnableBegin, DisableBegin, EnableDone, Drained,
           BugDrained, DisableVetoed, EnableFails, CreateThread, StopThread, Stopped, Started, DisableDone
      <4> QED BY <4>1, <4>2, <4>3, Actors, ThreadFrame, ClientFrame
    <3> QED BY <1>a, <3>1, <3>2
  <2> QED BY <2>1, <2>2
<1>3. ASSUME NEW c \in online', Homing(c)', admin' # "stopped" PROVE Returning(c)'
  <2>1. c \in CPU
    BY <1>a DEF SwTypeOK
  <2> QED BY <1>3, <2>1, ReturningStep
<1> QED BY <1>1, <1>2, <1>3

(* The invariant holds when bL_switcher_init has run. *)
LEMMA SwInitInv == SwInit => SwInv
<1> SUFFICES ASSUME SwInit PROVE SwInv
  OBVIOUS
<1>1. /\ active = FALSE /\ admin = "idle" /\ todo = {} /\ open = FALSE /\ online = CPU
      /\ map = [c \in CPU |-> c] /\ ~Halved
  BY DEF SwInit, Halved
<1>2. SwTypeOK
  <2>1. /\ NoJob \in [cluster : Cluster \cup {-1}, completer : Req \cup {NONE}]
        /\ NoCall \in Call /\ 0 \in CPU /\ 0 \in Cluster /\ 0 \in 0 .. MaxPend
    BY SwitcherAssumption DEF NoJob, Call, CPU, Cluster
  <2> QED BY <2>1 DEF SwInit, SwTypeOK, ThreadPc, AdminPc
<1>3. AdminSound
  BY <1>1 DEF AdminSound
<1>4. \A c \in CPU : thread[c] = "none" /\ task[c] = "null" /\ completer[c] = NONE
  BY DEF SwInit
<1>5. ThreadsSound /\ RequestsKept
  BY <1>4 DEF ThreadsSound, RequestsKept
<1>6. CallsSound
  BY DEF SwInit, CallsSound, NoCall
<1>7. CompleterOnce
  <2>1. ASSUME NEW r \in Req PROVE Once(r)
    <3>1. Held(r) = {} /\ InHand(r) = {} /\ pend[r] = 0
      BY <1>4, SwitcherAssumption DEF Held, InHand, SwInit
    <3> QED BY <3>1, FS_EmptySet DEF Once
  <2> QED BY <2>1, OnceAll
<1>8. PairsSound /\ HomesKept
  BY <1>1 DEF PairsSound, HomesKept
<1>9. RestoreSound
  BY <1>1 DEF RestoreSound, Homing
<1>10. NotifiedSound /\ WakePending
  BY <1>1 DEF SwInit, NotifiedSound, WakePending, Stopping
<1> QED BY <1>2, <1>3, <1>5, <1>6, <1>7, <1>8, <1>9, <1>10 DEF SwInv

-----------------------------------------------------------------------------
(* SwInv is an invariant of the switcher, for any number of CPUs, any two     *)
(* clusters and any clients, whatever fails.                                  *)
THEOREM SwitcherInvariant == SwSafetySpec => []SwInv
<1>1. SwInv /\ [SwNext]_svars => SwInv'
  <2> SUFFICES ASSUME SwInv, [SwNext]_svars PROVE SwInv'
    OBVIOUS
  <2>1. CASE SwNext
    BY <2>1, TypesStep, AdminSoundStep, ThreadsSoundStep, CallsStep, CompleterStep, PairsStep, HomesStep,
       RequestsStep, WakeStep, NotifiedStep, RestoreStep DEF SwInv
  <2>2. CASE UNCHANGED svars
    <3>1. /\ UNCHANGED <<active, map, online, pairing, removed, original, task, wanted, completer>>
          /\ UNCHANGED <<started, thread, stop, wq, job, admin, todo, open, call, pend, last, late>>
      BY <2>2 DEF svars, threadVars, adminVars, history
    <3>2. SwTypeOK' /\ AdminSound' /\ ThreadsSound' /\ CallsSound' /\ CompleterOnce'
      BY <3>1 DEF SwInv, SwTypeOK, AdminSound, ThreadsSound, CallsSound, CompleterOnce, Halved, Homing
    <3>3. PairsSound' /\ HomesKept' /\ RequestsKept'
      BY <3>1 DEF SwInv, PairsSound, HomesKept, RequestsKept, Halved, Homing, Current, Own, Managed
    <3>4. RestoreSound'
      BY <3>1 DEF SwInv, RestoreSound, Halved, Homing, Returning, Current, Undisturbed
    <3>5. WakePending' /\ NotifiedSound'
      BY <3>1 DEF SwInv, WakePending, NotifiedSound, NoneCalls
    <3> QED BY <3>2, <3>3, <3>4, <3>5 DEF SwInv
  <2> QED BY <2>1, <2>2
<1> QED BY <1>1, SwInitInv, PTL DEF SwSafetySpec

(* No completer is called more often than requests were accepted with it,     *)
(* even when a thread stopped with a request pending is created again.        *)
THEOREM SwitcherCompleterOnce == SwSafetySpec => []CompleterOnce
BY SwitcherInvariant, PTL DEF SwInv

(* While the switcher is active every online CPU has an offline counterpart   *)
(* on the other cluster, and every physical CPU one logical CPU at most.      *)
THEOREM SwitcherPairing == SwSafetySpec => []PairingSound
<1>1. ASSUME SwInv PROVE PairingSound
  <2> SUFFICES ASSUME active PROVE PairingSound
    BY DEF PairingSound
  <2>1. /\ Halved /\ online \subseteq CPU
        /\ \A c, d \in CPU : map[c] = map[d] => c = d
    BY <1>1 DEF Halved, SwInv, SwTypeOK, PairsSound
  <2>2. \A c \in online : /\ pairing[c] \in CPU \ online /\ Current(pairing[c]) # Current(c)
                          /\ \A d \in online : pairing[c] = pairing[d] => c = d
    BY <1>1, <2>1 DEF SwInv, PairsSound
  <2>3. ASSUME NEW p \in CPU PROVE Cardinality(LogicalIndex(p)) <= 1
    <3>1. \A c, d \in LogicalIndex(p) : c = d
      BY <2>1, <2>2 DEF LogicalIndex
    <3>2. CASE LogicalIndex(p) = {}
      BY <3>2, FS_EmptySet
    <3>3. CASE LogicalIndex(p) # {}
      <4>1. PICK c : c \in LogicalIndex(p)
        BY <3>3
      <4>2. LogicalIndex(p) = {c}
        BY <3>1, <4>1
      <4>3. Cardinality({c}) = 1
        BY FS_Singleton
      <4> QED BY <4>2, <4>3
    <3> QED BY <3>2, <3>3
  <2> QED BY <2>2, <2>3 DEF PairingSound, Current
<1> QED BY <1>1, SwitcherInvariant, PTL

(* A CPU that could not be switched back never shares its physical CPU with   *)
(* one that bL_switcher_disable brings online.                                *)
THEOREM SwitcherHomeNotTaken == SwSafetySpec => []HomeNotTaken
<1>1. ASSUME SwInv PROVE HomeNotTaken
  BY <1>1 DEF SwInv, HomesKept, HomeNotTaken, Halved
<1> QED BY <1>1, SwitcherInvariant, PTL

(* If no switch fails, a CPU whose thread is idle is on the cluster that was  *)
(* asked for last, however the requests overlapped.                           *)
THEOREM SwitcherLastRequestWins == ASSUME ~Failures PROVE SwSafetySpec => []LastRequestWins
<1>1. ASSUME SwInv PROVE LastRequestWins
  <2> SUFFICES ASSUME NEW c \in CPU, active, thread[c] = "wait", wanted[c] = -1, last[c] # -1
               PROVE  Current(c) = last[c]
    BY DEF LastRequestWins
  <2>1. task[c] = "thread"
    BY <1>1 DEF SwInv, ThreadsSound, Homing, AdminSound
  <2> QED BY <1>1, <2>1 DEF SwInv, RequestsKept
<1> QED BY <1>1, SwitcherInvariant, PTL

(* If nothing fails, a request stored while its CPU is being switched back is *)
(* the only way to have bL_switcher_disable leave a CPU off its own physical   *)
(* CPU or offline, and no client that obeys BL_NOTIFY_PRE_DISABLE makes one,   *)
(* whatever the others do.                                                     *)
THEOREM SwitcherRestores == ASSUME ~Failures PROVE SwSafetySpec => []RestoredUnlessLate
<1>1. ASSUME SwInv PROVE RestoredUnlessLate
  BY <1>1 DEF SwInv, NotifiedSound, RestoreSound, Undisturbed, RestoredUnlessLate, DisableRestores, Halved
<1> QED BY <1>1, SwitcherInvariant, PTL

=============================================================================
