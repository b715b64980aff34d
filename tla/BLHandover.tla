----------------------------- MODULE BLHandover -----------------------------
(***************************************************************************)
(* The handover inside bL_switch_to (arch/arm/common/bL_switcher.c), which   *)
(* BLSwitcher takes as one step: the outbound CPU powers its counterpart up  *)
(* behind a closed gate, saves its context, opens the gate and powers itself *)
(* down while the inbound CPU goes on with that context.                     *)
(*                                                                           *)
(* One logical CPU and its pair of physical ones, each named by its cluster. *)
(* While the switcher thread sleeps the logical CPU may go idle and be       *)
(* suspended (drivers/cpuidle/arm_big_little.c), which uses the same entry   *)
(* vectors and the same save area.  Of the power backend (tc2_pm.c) only the *)
(* use count and the resume address matter here, of the entry code           *)
(* (mcpm_head.S) the early poke and the gate: Tc2Pm and Mcpm have the rest.  *)
(***************************************************************************)
EXTENDS Integers, FiniteSets

CONSTANTS NONE,
          PowerUpMayFail   \* may mcpm_cpu_power_up return an error?

Phys     == {0, 1}
Other(p) == 1 - p

ASSUME HandoverAssumption == NONE \notin Phys /\ PowerUpMayFail \in BOOLEAN

VARIABLES pc,      \* what each physical CPU executes
          thr,     \* where the switcher thread is in bL_switch_to
          want,    \* new_cluster_id
          map,     \* cpu_logical_map(this_cpu); the counterpart has the other one
          slot,    \* sleep_save_sp[this_cpu]: saved by a switch or by cpuidle, or used up
          vector,  \* is mcpm_entry_vectors[][] cpu_resume rather than NULL?
          poke,    \* mcpm_entry_early_pokes: the CPU that IPI_COMPLETION is sent to
          alive,   \* is inbound_alive complete?
          irq,     \* interrupts pending at each physical CPU
          hs,      \* bL_do_switch's handshake, on the stack isolated for each CPU
          hsPtr,   \* handshake_ptr
          use,     \* tc2_pm_use_count
          resume   \* is a resume address set in the power controller?

powerVars == <<use, resume>>
gateVars  == <<vector, poke>>
ctxVars   == <<thr, want, map, slot, alive, hs, hsPtr>>
wvars == <<pc, ctxVars, gateVars, irq, powerVars>>

(* Every variable holds a value of the C object it stands for. *)
HandoverTypeOK ==
  /\ pc \in [Phys -> {"run", "isolated", "handshake", "down", "flush", "skip", "off", "entry",
                      "setup", "gated", "resumed"}]
  /\ thr \in {"ready", "gates", "poke", "power_up", "sgi", "alive", "zone", "save", "saved", "exit"}
  /\ want \in Phys /\ map \in Phys /\ slot \in {"used", "switch", "idle"}
  /\ vector \in [Phys -> BOOLEAN] /\ poke \in [Phys -> Phys \cup {NONE}]
  /\ alive \in BOOLEAN /\ irq \in [Phys -> SUBSET {"wakeup", "completion"}]
  /\ hs \in [Phys -> BOOLEAN] /\ hsPtr \in Phys
  /\ use \in [Phys -> 0 .. 2] /\ resume \in [Phys -> BOOLEAN]

(* The switcher has just been enabled; the counterpart went offline. *)
HandoverInit ==
  /\ map \in Phys /\ want = map
  /\ pc = [p \in Phys |-> IF p = map THEN "run" ELSE "off"]
  /\ use = [p \in Phys |-> IF p = map THEN 1 ELSE 0]
  /\ thr = "ready" /\ slot = "used" /\ alive = FALSE /\ hsPtr = map
  /\ vector \in [Phys -> BOOLEAN] /\ ~vector[Other(map)]
  /\ poke = [p \in Phys |-> NONE] /\ irq = [p \in Phys |-> {}]
  /\ hs = [p \in Phys |-> FALSE] /\ resume = [p \in Phys |-> FALSE]

Goto(p, from, to) == pc[p] = from /\ pc' = [pc EXCEPT ![p] = to]
(* The thread makes a step on the physical CPU p. *)
Thread(p, from, to) == pc[p] = "run" /\ thr = from /\ thr' = to
-----------------------------------------------------------------------------
(* bL_switch_to, on the outbound CPU.                                        *)

(* Nothing is done for the cluster the CPU is on. *)
SwitchTo(p) ==
  /\ Thread(p, "ready", "gates")
  /\ want' = Other(p)
  /\ UNCHANGED <<pc, map, slot, alive, hs, hsPtr, gateVars, irq, powerVars>>

(* A mutant: only the outbound's own gate is closed. *)
BugCloseGates(p) ==
  /\ Thread(p, "gates", "poke")
  /\ vector' = [vector EXCEPT ![p] = FALSE]
  /\ UNCHANGED <<pc, want, map, slot, alive, hs, hsPtr, poke, irq, powerVars>>

(* Close the gates. *)
CloseGates(p) ==
  /\ Thread(p, "gates", "poke")
  /\ vector' = [q \in Phys |-> FALSE]
  /\ UNCHANGED <<pc, want, map, slot, alive, hs, hsPtr, poke, irq, powerVars>>

(* Install the "inbound alive" notifier. *)
SetEarlyPoke(p) ==
  /\ Thread(p, "poke", "power_up")
  /\ alive' = FALSE
  /\ poke' = [poke EXCEPT ![Other(p)] = p]
  /\ UNCHANGED <<pc, want, map, slot, hs, hsPtr, vector, irq, powerVars>>

(* mcpm_cpu_power_up of the inbound, which may still be on its way down. *)
PowerUp(p) ==
  LET ib == Other(p) IN
  /\ Thread(p, "power_up", "sgi")
  /\ use' = [use EXCEPT ![ib] = @ + 1]
  /\ resume' = [resume EXCEPT ![ib] = @ \/ use[ib] = 0]
  /\ UNCHANGED <<pc, want, map, slot, alive, hs, hsPtr, gateVars, irq>>

(* It returns an error: so does bL_switch_to, the early poke left in place. *)
PowerUpFails(p) ==
  /\ PowerUpMayFail
  /\ Thread(p, "power_up", "ready")
  /\ want' = p
  /\ UNCHANGED <<pc, map, slot, alive, hs, hsPtr, gateVars, irq, powerVars>>

(* A mutant: the wakeup interrupt is not sent. *)
BugSendSgi(p) ==
  /\ Thread(p, "sgi", "alive")
  /\ UNCHANGED <<pc, want, map, slot, alive, hs, hsPtr, gateVars, irq, powerVars>>

SendSgi(p) ==
  /\ Thread(p, "sgi", "alive")
  /\ irq' = [irq EXCEPT ![Other(p)] = @ \cup {"wakeup"}]
  /\ UNCHANGED <<pc, want, map, slot, alive, hs, hsPtr, gateVars, powerVars>>

(* A mutant: the inbound is not waited for. *)
BugInboundAlive(p) ==
  /\ Thread(p, "alive", "zone")
  /\ poke' = [poke EXCEPT ![Other(p)] = NONE]
  /\ UNCHANGED <<pc, want, map, slot, alive, hs, hsPtr, vector, irq, powerVars>>

(* wait_for_completion(&inbound_alive) returns. *)
InboundAlive(p) == alive /\ BugInboundAlive(p)

(* With interrupts off, swap the physical CPUs in the logical map, ... *)
SwapMap(p) ==
  /\ Thread(p, "zone", "save")
  /\ map' = Other(p)
  /\ UNCHANGED <<pc, want, slot, alive, hs, hsPtr, gateVars, irq, powerVars>>

(* ... save the context and carry on, in bL_do_switch, on another stack. *)
SaveContext(p) ==
  /\ Thread(p, "save", "saved")
  /\ Goto(p, "run", "isolated")
  /\ slot' = "switch"
  /\ hs' = [hs EXCEPT ![p] = FALSE] /\ hsPtr' = p
  /\ UNCHANGED <<want, map, alive, gateVars, irq, powerVars>>

(* Release the inbound: the gate of the CPU that cpu_logical_map now names. *)
OpenGate(p) ==
  /\ Goto(p, "isolated", "handshake")
  /\ vector' = [vector EXCEPT ![map] = TRUE]
  /\ UNCHANGED <<ctxVars, poke, irq, powerVars>>

(* A mutant: the outbound powers down without waiting for its counterpart. *)
BugHandshake(p) ==
  /\ Goto(p, "handshake", "down")
  /\ UNCHANGED <<ctxVars, gateVars, irq, powerVars>>

(* while (!handshake) wfe(), then mcpm_cpu_power_down. *)
Handshake(p) == hs[p] /\ BugHandshake(p)
-----------------------------------------------------------------------------
(* bL_switch_to, on the inbound CPU.                                         *)

(* Interrupts are on again: tell the outbound, through its pointer. *)
TellOutbound(p) ==
  /\ Thread(p, "exit", "ready")
  /\ hs' = [hs EXCEPT ![hsPtr] = TRUE]
  /\ UNCHANGED <<pc, want, map, slot, alive, hsPtr, gateVars, irq, powerVars>>

(* handle_IPI: IPI_WAKEUP does nothing, ipi_complete completes what           *)
(* register_ipi_completion was given last.                                   *)
TakeInterrupts(p) ==
  /\ pc[p] = "run" /\ thr \notin {"zone", "save"}
  /\ irq[p] # {} /\ irq' = [irq EXCEPT ![p] = {}]
  /\ alive' = (alive \/ "completion" \in irq[p])
  /\ UNCHANGED <<pc, thr, want, map, slot, hs, hsPtr, gateVars, powerVars>>
-----------------------------------------------------------------------------
(* The CPU's own way down and up.                                            *)

(* bl_enter_powerdown, while the thread sleeps: save, open the own gate, set *)
(* the resume address, and power down.                                       *)
Suspend(p) ==
  /\ thr = "ready" \/ (thr = "alive" /\ ~alive)
  /\ Goto(p, "run", "down")
  /\ slot' = "idle"
  /\ vector' = [vector EXCEPT ![p] = TRUE]
  /\ resume' = [resume EXCEPT ![p] = TRUE]
  /\ UNCHANGED <<thr, want, map, alive, hs, hsPtr, poke, irq, use>>

(* tc2_pm_down: a power_up that went ahead makes it skip wfi. *)
PowerDown(p) ==
  /\ Goto(p, "down", IF use[p] = 1 THEN "flush" ELSE "skip")
  /\ use' = [use EXCEPT ![p] = @ - 1]
  /\ UNCHANGED <<ctxVars, gateVars, irq, resume>>

Wfi(p) ==
  /\ Goto(p, "flush", "off")
  /\ UNCHANGED <<ctxVars, gateVars, irq, powerVars>>

(* An interrupt makes the power controller start the CPU. *)
WakeUp(p) ==
  /\ resume[p]
  /\ Goto(p, "off", "entry")
  /\ UNCHANGED <<ctxVars, gateVars, irq, powerVars>>

(* mcpm_cpu_power_down: power_down has returned. *)
ReEnter(p) ==
  /\ Goto(p, "skip", "entry")
  /\ UNCHANGED <<ctxVars, gateVars, irq, powerVars>>

(* mcpm_entry_point begins with the early poke: the outbound may hear of it   *)
(* and go on while the inbound is still on its way to the gate.              *)
Enter(p) ==
  /\ Goto(p, "entry", "setup")
  /\ irq' = [q \in Phys |-> IF q = poke[p] THEN irq[q] \cup {"completion"} ELSE irq[q]]
  /\ UNCHANGED <<ctxVars, gateVars, powerVars>>

(* From there to the gate: the first man's protocol (see Mcpm), and           *)
(* power_up_setup, which clears the resume address.                          *)
Setup(p) ==
  /\ Goto(p, "setup", "gated")
  /\ resume' = [resume EXCEPT ![p] = FALSE]
  /\ UNCHANGED <<ctxVars, gateVars, irq, use>>

(* mcpm_entry_gated and cpu_resume. *)
PassGate(p) ==
  /\ vector[p]
  /\ Goto(p, "gated", "resumed")
  /\ slot' = "used"
  /\ UNCHANGED <<thr, want, map, alive, hs, hsPtr, gateVars, irq, powerVars>>

Powered(p, n) ==
  /\ Goto(p, "resumed", "run")
  /\ thr' = IF thr = "saved" THEN "exit" ELSE thr
  /\ use' = [use EXCEPT ![p] = n]
  /\ resume' = [resume EXCEPT ![p] = FALSE]
  /\ UNCHANGED <<want, map, slot, alive, hs, hsPtr, gateVars, irq>>

(* A mutant: a CPU that wakes up by itself is not counted as up. *)
BugPoweredUp(p) == Powered(p, use[p])

(* mcpm_cpu_powered_up, called where the context was saved. *)
PoweredUp(p) == Powered(p, IF use[p] = 0 THEN 1 ELSE use[p])
-----------------------------------------------------------------------------
ThreadStep(p) == \/ CloseGates(p) \/ SetEarlyPoke(p) \/ PowerUp(p) \/ PowerUpFails(p)
                 \/ SendSgi(p) \/ InboundAlive(p) \/ SwapMap(p) \/ SaveContext(p)
                 \/ TellOutbound(p)

CpuStep(p) == \/ OpenGate(p) \/ Handshake(p) \/ PowerDown(p) \/ Wfi(p) \/ ReEnter(p)
              \/ Enter(p) \/ Setup(p) \/ PassGate(p) \/ PoweredUp(p)

HandoverNext == \E p \in Phys : \/ SwitchTo(p) \/ Suspend(p) \/ WakeUp(p) \/ TakeInterrupts(p)
                                \/ ThreadStep(p) \/ CpuStep(p)

(* A CPU that runs goes on; the thread is scheduled once it can run; a        *)
(* pending interrupt wakes its CPU, and is taken, as interrupts are on       *)
(* between any two idle periods.                                             *)
HandoverFairness ==
  \A p \in Phys : /\ WF_wvars(CpuStep(p)) /\ WF_wvars(ThreadStep(p))
                  /\ WF_wvars(irq[p] # {} /\ WakeUp(p)) /\ SF_wvars(TakeInterrupts(p))

HandoverSpec == HandoverInit /\ [][HandoverNext]_wvars /\ HandoverFairness
-----------------------------------------------------------------------------
(* The CPU that executes the context of the logical CPU, or was the last to. *)
Holder(p) == \/ pc[p] \in {"run", "resumed"}
             \/ slot = "idle" /\ map = p
             \/ slot = "switch" /\ map # p

(* Outbound and inbound never run the same context in parallel, and it is    *)
(* never lost: the saved one has a single taker.                             *)
OneContext == Cardinality({p \in Phys : Holder(p)}) = 1

(* A CPU that finds its gate open resumes a context saved for it since it    *)
(* last ran, and cpu_logical_index finds that context under its MPIDR: no    *)
(* vector that cpuidle or an earlier switch left behind lets it through.     *)
GateSound == \A p \in Phys : pc[p] = "gated" /\ vector[p] => slot # "used" /\ map = p

(* *handshake_ptr = 1 writes to the stack of a CPU that is still waiting on  *)
(* it, though the inbound may be long in a new life by then.                 *)
HandshakeAlive == thr = "exit" => /\ pc[hsPtr] \in {"isolated", "handshake"}
                                  /\ ~hs[hsPtr]

(* A completion interrupt only arrives for the inbound_alive of a            *)
(* bL_switch_to that has not returned.                                       *)
CompletionAwaited == \A p \in Phys :
  "completion" \in irq[p] => thr \in {"sgi", "alive"} /\ poke[Other(p)] = p

(* The use count that tc2_pm_down finds, though the inbound was powered up   *)
(* while it was still on its way down: "Any other value is a bug".           *)
CountLegal == \A p \in Phys : pc[p] = "down" => use[p] \in {1, 2}

(* The parts of the inductive invariant.                                     *)

(* The CPU that called bL_switch_to; between switches, the one in use.       *)
From == IF thr \in {"ready", "exit"} THEN want ELSE Other(want)

(* A CPU that cpuidle has suspended, up to its return through the gate, and   *)
(* one on its way down that nobody has powered up since.                      *)
Suspended(p) == /\ pc[p] \in {"down", "flush", "off", "entry", "setup", "gated"}
                /\ slot = "idle" /\ vector[p]
                /\ use[p] = (IF pc[p] = "down" THEN 1 ELSE 0)
                /\ resume[p] <=> pc[p] # "gated"
Running(p)   == pc[p] = "run" /\ slot = "used" /\ use[p] = 1 /\ ~resume[p]
Resuming(p)  == pc[p] = "resumed" /\ slot = "used" /\ use[p] = 0 /\ ~resume[p]
Leaving(p)   == /\ pc[p] \in {"handshake", "down", "flush", "off"}
                /\ use[p] = (IF pc[p] \in {"handshake", "down"} THEN 1 ELSE 0)
                /\ ~resume[p]

(* The inbound once it has been powered up: whatever it was doing, it comes   *)
(* to its gate, counted once, and its gate is closed.                         *)
Arriving(p) ==
  /\ pc[p] \in {"handshake", "down", "flush", "off", "skip", "entry", "setup", "gated"}
  /\ use[p] = (IF pc[p] \in {"handshake", "down"} THEN 2 ELSE 1)
  /\ pc[p] \in {"flush", "off"} => resume[p]
  /\ pc[p] \in {"handshake", "down", "skip", "gated"} => ~resume[p]
  /\ ~vector[p]

(* The context, the CPU that has it, and the two vectors.                     *)
ContextSound == LET o == From  i == Other(From) IN
  /\ map = IF thr \in {"save", "saved"} THEN i ELSE o
  /\ thr \in {"ready", "alive"} => Running(o) \/ Suspended(o) \/ Resuming(o)
  /\ thr \notin {"ready", "alive", "saved"} => Running(o)
  /\ thr \in {"ready", "gates", "poke", "power_up", "exit"} => Leaving(i)
  /\ thr \in {"poke", "power_up"} => ~vector[i]
  /\ thr \in {"sgi", "alive", "zone", "save"} => Arriving(i)
  /\ thr \in {"zone", "save"} => pc[i] \in {"setup", "gated"}
  /\ thr = "saved" =>
       /\ pc[o] \in {"isolated", "handshake"} /\ use[o] = 1 /\ ~resume[o]
       /\ \/ /\ slot = "switch" /\ pc[i] \in {"setup", "gated"}
             /\ vector[i] <=> pc[o] = "handshake"
          \/ slot = "used" /\ pc[i] = "resumed" /\ pc[o] = "handshake"
       /\ use[i] = 1 /\ (pc[i] # "setup" => ~resume[i])

(* The completion: sent once in a switch, when the inbound is past its poke,  *)
(* which need not be at its gate.                                             *)
CompletionSound == LET o == From  i == Other(From) IN
  /\ poke[o] = NONE /\ poke[i] \in {NONE, o}
  /\ thr \in {"power_up", "sgi", "alive"} => poke[i] = o
  /\ thr \in {"zone", "save", "saved", "exit"} => poke[i] = NONE
  /\ thr \in {"power_up", "sgi", "alive"} /\ alive =>
       thr # "power_up" /\ pc[i] \in {"setup", "gated"} /\ pc[o] = "run"
  /\ "completion" \in irq[o] => thr \in {"sgi", "alive"} /\ ~alive /\ pc[i] \in {"setup", "gated"}
  /\ "completion" \notin irq[i]

(* The handshake: cleared for the switch, set once, by the inbound.           *)
HandshakeSound == LET o == From  i == Other(From) IN
  /\ thr = "saved" => hsPtr = o /\ ~hs[o]
  /\ thr = "exit" => hsPtr = i /\ pc[i] = "handshake" /\ ~hs[i]
  /\ thr \notin {"saved", "exit"} /\ pc[i] = "handshake" => hs[i]

(* The inductive invariant: of the two CPUs one has the context, and where    *)
(* the other is, what it is counted for, its gate and its poke follow from    *)
(* how far bL_switch_to has come.                                             *)
HandoverInv == /\ HandoverTypeOK /\ CountLegal
               /\ ContextSound /\ CompletionSound /\ HandshakeSound

Logical == INSTANCE LogicalCpu WITH on <- CHOOSE p \in Phys : Holder(p)

(* The handover is the one-step switch: the context moves from one CPU to    *)
(* the other at once, and every switch that is begun ends.                   *)
ImplementsSwitch == Logical!LSpec
=============================================================================
