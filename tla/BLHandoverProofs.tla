-------------------------- MODULE BLHandoverProofs --------------------------
(***************************************************************************)
(* The handover of bL_switch_to keeps its invariant, and implements the      *)
(* one-step switch of LogicalCpu.                                            *)
(***************************************************************************)
EXTENDS BLHandover, FiniteSetTheorems, TLAPS

USE HandoverAssumption

(* There are two CPUs, and each has the other one. *)
LEMMA Pair ==
  \A p \in Phys : /\ Other(p) \in Phys /\ Other(p) # p /\ Other(Other(p)) = p
                  /\ \A q \in Phys : q = p \/ q = Other(p)
BY DEF Phys, Other

(* The switcher starts between two switches. *)
LEMMA HandoverInitInv == HandoverInit => HandoverInv
<1> SUFFICES ASSUME HandoverInit PROVE HandoverInv
  OBVIOUS
<1>1. From = map /\ map \in Phys /\ want = map /\ thr = "ready"
  BY DEF HandoverInit, From
<1>2. HandoverTypeOK
  <2>1. pc \in [Phys -> {"run", "off"}] /\ use \in [Phys -> {0, 1}]
    BY DEF HandoverInit
  <2>2. irq \in [Phys -> SUBSET {"wakeup", "completion"}] /\ poke \in [Phys -> Phys \cup {NONE}]
    BY DEF HandoverInit
  <2>3. vector \in [Phys -> BOOLEAN] /\ hs \in [Phys -> BOOLEAN] /\ resume \in [Phys -> BOOLEAN]
    BY DEF HandoverInit
  <2>4. pc \in [Phys -> {"run", "isolated", "handshake", "down", "flush", "skip", "off", "entry",
                        "setup", "gated", "resumed"}] /\ use \in [Phys -> 0 .. 2]
    BY <2>1
  <2> QED BY <1>1, <2>2, <2>3, <2>4 DEF HandoverInit, HandoverTypeOK
<1>3. ContextSound
  BY <1>1, Pair DEF HandoverInit, ContextSound, Running, Leaving
<1>4. CompletionSound /\ HandshakeSound /\ CountLegal
  BY <1>1, Pair DEF HandoverInit, CompletionSound, HandshakeSound, CountLegal
<1> QED BY <1>2, <1>3, <1>4 DEF HandoverInv

(* The CPU that runs is the one the thread is on. *)
LEMMA RunsFrom ==
  ASSUME HandoverInv, NEW p \in Phys, pc[p] = "run"
  PROVE  p = From /\ thr # "saved"
<1>1. From \in Phys /\ Other(From) \in Phys /\ (p = From \/ p = Other(From))
  BY Pair DEF HandoverInv, HandoverTypeOK, From
<1> QED BY <1>1 DEF HandoverInv, HandoverTypeOK, ContextSound, Leaving, Arriving

(* The type of the program's state; shorter to expand than HandoverInv. *)
LEMMA HandoverTypes ==
  ASSUME HandoverInv, NEW p \in Phys,
         \/ SwitchTo(p) \/ Suspend(p) \/ WakeUp(p) \/ TakeInterrupts(p) \/ ThreadStep(p) \/ CpuStep(p)
  PROVE  HandoverTypeOK'
<1> USE DEF HandoverTypeOK, Thread, Goto, ctxVars, gateVars, powerVars
<1>a. HandoverTypeOK /\ CountLegal /\ Other(p) \in Phys
  BY Pair DEF HandoverInv
<1>1. CASE SwitchTo(p) \/ CloseGates(p) \/ SetEarlyPoke(p) \/ PowerUpFails(p) \/ SendSgi(p)
  <2>1. CASE SendSgi(p)
    <3>1. irq' \in [Phys -> SUBSET {"wakeup", "completion"}]
      BY <1>a, <2>1 DEF SendSgi
    <3> QED BY <1>a, <2>1, <3>1 DEF SendSgi
  <2>2. CASE CloseGates(p)
    BY <1>a, <2>2 DEF CloseGates
  <2>3. CASE SetEarlyPoke(p)
    BY <1>a, <2>3 DEF SetEarlyPoke
  <2>4. CASE SwitchTo(p) \/ PowerUpFails(p)
    BY <1>a, <2>4 DEF SwitchTo, PowerUpFails
  <2> QED BY <1>1, <2>1, <2>2, <2>3, <2>4
<1>2. CASE PowerUp(p)
  <2>1. thr = "power_up" /\ pc[p] = "run"
    BY <1>2 DEF PowerUp
  <2>2. use[Other(p)] \in {0, 1}
    BY <1>a, <2>1, RunsFrom DEF HandoverInv, ContextSound, Leaving
  <2> QED BY <1>a, <1>2, <2>2 DEF PowerUp
<1>3. CASE InboundAlive(p) \/ SwapMap(p) \/ SaveContext(p) \/ TellOutbound(p) \/ TakeInterrupts(p)
  BY <1>a, <1>3 DEF InboundAlive, BugInboundAlive, SwapMap, SaveContext, TellOutbound, TakeInterrupts
<1>4. CASE OpenGate(p) \/ Handshake(p) \/ Wfi(p) \/ ReEnter(p) \/ WakeUp(p) \/ Suspend(p)
  BY <1>a, <1>4 DEF OpenGate, Handshake, BugHandshake, Wfi, ReEnter, WakeUp, Suspend
<1>5. CASE PowerDown(p)
  <2>1. use[p] \in {1, 2} /\ use[p] - 1 \in 0 .. 2
    BY <1>a, <1>5 DEF PowerDown, CountLegal
  <2> QED BY <1>a, <1>5, <2>1 DEF PowerDown
<1>6. CASE Enter(p)
  <2>1. irq' \in [Phys -> SUBSET {"wakeup", "completion"}]
    BY <1>a, <1>6 DEF Enter
  <2> QED BY <1>a, <1>6, <2>1 DEF Enter
<1>9. CASE Setup(p)
  BY <1>a, <1>9 DEF Setup
<1>7. CASE PassGate(p)
  BY <1>a, <1>7 DEF PassGate
<1>8. CASE PoweredUp(p)
  BY <1>a, <1>8 DEF PoweredUp, Powered
<1> QED BY <1>1, <1>2, <1>3, <1>4, <1>5, <1>6, <1>7, <1>8, <1>9 DEF ThreadStep, CpuStep

(* A step of the CPU that runs, which is the one the thread is on. *)
LEMMA RunningStep ==
  ASSUME HandoverInv, HandoverTypeOK', NEW p \in Phys, pc[p] = "run",
         SwitchTo(p) \/ Suspend(p) \/ TakeInterrupts(p) \/ ThreadStep(p)
  PROVE  ContextSound' /\ CompletionSound' /\ HandshakeSound'
<1> DEFINE q == Other(p)
<1>a. /\ HandoverTypeOK /\ ContextSound /\ CompletionSound /\ HandshakeSound
      /\ From = p /\ Other(From) = q /\ p # q /\ q \in Phys /\ Other(q) = p
      /\ thr # "saved" /\ Other(want) = (IF thr \in {"ready", "exit"} THEN q ELSE p)
      /\ want = (IF thr \in {"ready", "exit"} THEN p ELSE q)
  BY RunsFrom, Pair DEF HandoverInv, From, HandoverTypeOK
<1>b. Running(p)
  BY <1>a DEF ContextSound, Running, Suspended, Resuming, HandoverTypeOK
<1> USE DEF HandoverTypeOK, Thread, Goto, ctxVars, gateVars, powerVars, ContextSound, CompletionSound,
            HandshakeSound, Running, Suspended, Resuming, Leaving, Arriving
<1> HIDE DEF q
<1>1. CASE SwitchTo(p)
  <2>1. From' = p /\ Other(From)' = q
    BY <1>a, <1>1 DEF SwitchTo, From, q
  <2> QED BY <1>a, <1>b, <1>1, <2>1 DEF SwitchTo, q
<1>2. CASE CloseGates(p)
  <2>1. From' = p /\ Other(From)' = q
    BY <1>a, <1>2 DEF CloseGates, From, q
  <2> QED BY <1>a, <1>b, <1>2, <2>1 DEF CloseGates, q
<1>3. CASE SetEarlyPoke(p)
  <2>1. From' = p /\ Other(From)' = q
    BY <1>a, <1>3 DEF SetEarlyPoke, From, q
  <2> QED BY <1>a, <1>b, <1>3, <2>1 DEF SetEarlyPoke, q
<1>4. CASE PowerUp(p)
  <2>1. From' = p /\ Other(From)' = q
    BY <1>a, <1>4 DEF PowerUp, From, q
  <2>2. /\ Leaving(q) /\ ~vector[q] /\ thr = "power_up" /\ thr' = "sgi" /\ map = p /\ poke[q] = p /\ ~alive
        /\ poke[p] = NONE /\ "completion" \notin irq[p] \cup irq[q] /\ (pc[q] = "handshake" => hs[q])
    BY <1>a, <1>4 DEF PowerUp
  <2>3. /\ use'[q] = use[q] + 1 /\ resume'[q] = (use[q] = 0) /\ use'[p] = 1 /\ ~resume'[p]
        /\ UNCHANGED <<pc, want, map, slot, alive, hs, hsPtr, vector, poke, irq>>
    BY <1>a, <1>b, <1>4, <2>2 DEF PowerUp, q
  <2>4. Arriving(q)' /\ Running(p)'
    BY <1>a, <1>b, <2>2, <2>3
  <2> QED BY <1>a, <2>1, <2>2, <2>3, <2>4
<1>5. CASE PowerUpFails(p)
  <2>1. From' = p /\ Other(From)' = q
    BY <1>a, <1>5 DEF PowerUpFails, From, q
  <2> QED BY <1>a, <1>b, <1>5, <2>1 DEF PowerUpFails, q
<1>6. CASE SendSgi(p)
  <2>1. From' = p /\ Other(From)' = q
    BY <1>a, <1>6 DEF SendSgi, From, q
  <2> QED BY <1>a, <1>b, <1>6, <2>1 DEF SendSgi, q
<1>7. CASE InboundAlive(p)
  <2>1. From' = p /\ Other(From)' = q
    BY <1>a, <1>7 DEF InboundAlive, BugInboundAlive, From, q
  <2> QED BY <1>a, <1>b, <1>7, <2>1 DEF InboundAlive, BugInboundAlive, q
<1>8. CASE SwapMap(p)
  <2>1. From' = p /\ Other(From)' = q
    BY <1>a, <1>8 DEF SwapMap, From, q
  <2> QED BY <1>a, <1>b, <1>8, <2>1 DEF SwapMap, q
<1>9. CASE SaveContext(p)
  <2>1. From' = p /\ Other(From)' = q
    BY <1>a, <1>9 DEF SaveContext, From, q
  <2> QED BY <1>a, <1>b, <1>9, <2>1 DEF SaveContext, q
<1>10. CASE TellOutbound(p)
  <2>1. From' = p /\ Other(From)' = q
    BY <1>a, <1>10 DEF TellOutbound, From, q
  <2> QED BY <1>a, <1>b, <1>10, <2>1 DEF TellOutbound, q
<1>11. CASE TakeInterrupts(p)
  <2>1. From' = p /\ Other(From)' = q
    BY <1>a, <1>11 DEF TakeInterrupts, From, q
  <2> QED BY <1>a, <1>b, <1>11, <2>1 DEF TakeInterrupts, q
<1>12. CASE Suspend(p)
  <2>1. From' = p /\ Other(From)' = q
    BY <1>a, <1>12 DEF Suspend, From, q
  <2> QED BY <1>a, <1>b, <1>12, <2>1 DEF Suspend, q
<1> QED BY <1>1, <1>2, <1>3, <1>4, <1>5, <1>6, <1>7, <1>8, <1>9, <1>10, <1>11, <1>12 DEF ThreadStep

(* A step of the power-down and entry code, of either CPU. *)
LEMMA PoweringStep ==
  ASSUME HandoverInv, HandoverTypeOK', NEW p \in Phys, CpuStep(p) \/ WakeUp(p)
  PROVE  ContextSound' /\ CompletionSound' /\ HandshakeSound'
<1> DEFINE q == Other(p)
<1>a. /\ HandoverTypeOK /\ ContextSound /\ CompletionSound /\ HandshakeSound
      /\ p # q /\ q \in Phys /\ Other(q) = p /\ From \in {p, q}
  BY Pair DEF HandoverInv, From, HandoverTypeOK
<1> USE DEF HandoverTypeOK, Goto, ctxVars, gateVars, powerVars, ContextSound, CompletionSound,
            HandshakeSound, Running, Suspended, Resuming, Leaving, Arriving
<1> HIDE DEF q
<1>1. CASE OpenGate(p)
  <2>1. From' = From
    BY <1>1 DEF OpenGate, From
  <2>2. CASE From = p
    BY <1>a, <1>1, <2>1, <2>2 DEF OpenGate, q
  <2>3. CASE From = q
    BY <1>a, <1>1, <2>1, <2>3 DEF OpenGate, q
  <2> QED BY <1>a, <2>2, <2>3
<1>2. CASE Handshake(p)
  <2>1. From' = From
    BY <1>2 DEF Handshake, BugHandshake, From
  <2>2. CASE From = p
    BY <1>a, <1>2, <2>1, <2>2 DEF Handshake, BugHandshake, q
  <2>3. CASE From = q
    BY <1>a, <1>2, <2>1, <2>3 DEF Handshake, BugHandshake, q
  <2> QED BY <1>a, <2>2, <2>3
<1>3. CASE PowerDown(p)
  <2>1. From' = From
    BY <1>3 DEF PowerDown, From
  <2>2. CASE From = p
    BY <1>a, <1>3, <2>1, <2>2 DEF PowerDown, q
  <2>3. CASE From = q
    BY <1>a, <1>3, <2>1, <2>3 DEF PowerDown, q
  <2> QED BY <1>a, <2>2, <2>3
<1>4. CASE Wfi(p)
  <2>1. From' = From
    BY <1>4 DEF Wfi, From
  <2>2. CASE From = p
    BY <1>a, <1>4, <2>1, <2>2 DEF Wfi, q
  <2>3. CASE From = q
    BY <1>a, <1>4, <2>1, <2>3 DEF Wfi, q
  <2> QED BY <1>a, <2>2, <2>3
<1>5. CASE WakeUp(p)
  <2>1. From' = From
    BY <1>5 DEF WakeUp, From
  <2>2. CASE From = p
    BY <1>a, <1>5, <2>1, <2>2 DEF WakeUp, q
  <2>3. CASE From = q
    BY <1>a, <1>5, <2>1, <2>3 DEF WakeUp, q
  <2> QED BY <1>a, <2>2, <2>3
<1>6. CASE ReEnter(p)
  <2>1. From' = From
    BY <1>6 DEF ReEnter, From
  <2>2. CASE From = p
    BY <1>a, <1>6, <2>1, <2>2 DEF ReEnter, q
  <2>3. CASE From = q
    BY <1>a, <1>6, <2>1, <2>3 DEF ReEnter, q
  <2> QED BY <1>a, <2>2, <2>3
<1>7. CASE Enter(p)
  <2>1. From' = From
    BY <1>7 DEF Enter, From
  <2>2. CASE From = p
    BY <1>a, <1>7, <2>1, <2>2 DEF Enter, q
  <2>3. CASE From = q
    BY <1>a, <1>7, <2>1, <2>3 DEF Enter, q
  <2> QED BY <1>a, <2>2, <2>3
<1>8. CASE PassGate(p)
  <2>1. From' = From
    BY <1>8 DEF PassGate, From
  <2>2. CASE From = p
    BY <1>a, <1>8, <2>1, <2>2 DEF PassGate, q
  <2>3. CASE From = q
    BY <1>a, <1>8, <2>1, <2>3 DEF PassGate, q
  <2> QED BY <1>a, <2>2, <2>3
<1>9. CASE PoweredUp(p)
  <2>0. pc[p] = "resumed"
    BY <1>9 DEF PoweredUp, Powered
  <2>1. CASE thr = "saved"
    <3>0. From = q
      BY <1>a, <2>0, <2>1
    <3>1. want = p /\ map = p /\ thr' = "exit"
      BY <1>a, <1>9, <2>1, <3>0, Pair DEF From, q, PoweredUp, Powered
    <3>2. From' = p
      BY <1>9, <3>1 DEF PoweredUp, Powered, From
    <3> QED BY <1>a, <1>9, <3>0, <3>1, <3>2, <2>1 DEF PoweredUp, Powered, q
  <2>2. CASE thr # "saved"
    <3>1. From = p /\ From' = From /\ thr \in {"ready", "alive"} /\ use[p] = 0
      BY <1>a, <1>9, <2>0, <2>2 DEF From, q, PoweredUp, Powered
    <3> QED BY <1>a, <1>9, <3>1, <2>2 DEF PoweredUp, Powered, q
  <2> QED BY <2>1, <2>2
<1>10. CASE Setup(p)
  <2>1. From' = From
    BY <1>10 DEF Setup, From
  <2>2. CASE From = p
    BY <1>a, <1>10, <2>1, <2>2 DEF Setup, q
  <2>3. CASE From = q
    BY <1>a, <1>10, <2>1, <2>3 DEF Setup, q
  <2> QED BY <1>a, <2>2, <2>3
<1> QED BY <1>1, <1>2, <1>3, <1>4, <1>5, <1>6, <1>7, <1>8, <1>9, <1>10 DEF CpuStep

(* The count that tc2_pm_down finds follows from where the CPU is. *)
LEMMA CountFollows == HandoverTypeOK /\ ContextSound => CountLegal
<1> SUFFICES ASSUME HandoverTypeOK, ContextSound, NEW p \in Phys, pc[p] = "down"
             PROVE  use[p] \in {1, 2}
  BY DEF CountLegal
<1>1. p = From \/ p = Other(From)
  BY Pair DEF HandoverTypeOK, From
<1> QED BY <1>1 DEF HandoverTypeOK, ContextSound, Running, Suspended, Resuming, Leaving, Arriving

(* Every step keeps the invariant. *)
LEMMA HandoverInvStep == HandoverInv /\ [HandoverNext]_wvars => HandoverInv'
<1> SUFFICES ASSUME HandoverInv, [HandoverNext]_wvars PROVE HandoverInv'
  OBVIOUS
<1>1. ASSUME NEW p \in Phys,
             \/ SwitchTo(p) \/ Suspend(p) \/ WakeUp(p) \/ TakeInterrupts(p) \/ ThreadStep(p) \/ CpuStep(p)
      PROVE  HandoverInv'
  <2>1. HandoverTypeOK'
    BY <1>1, HandoverTypes
  <2>2. SwitchTo(p) \/ Suspend(p) \/ TakeInterrupts(p) \/ ThreadStep(p) => pc[p] = "run"
    BY DEF SwitchTo, Suspend, TakeInterrupts, ThreadStep, CloseGates, SetEarlyPoke, PowerUp, PowerUpFails,
       SendSgi, InboundAlive, BugInboundAlive, SwapMap, SaveContext, TellOutbound, Thread, Goto
  <2>3. ContextSound' /\ CompletionSound' /\ HandshakeSound'
    BY <1>1, <2>1, <2>2, RunningStep, PoweringStep
  <2>4. CountLegal'
    BY <2>1, <2>3, CountFollows, PTL
  <2> QED BY <2>1, <2>3, <2>4 DEF HandoverInv
<1>2. CASE UNCHANGED wvars
  BY <1>2 DEF wvars, ctxVars, gateVars, powerVars, HandoverInv, HandoverTypeOK, CountLegal, ContextSound,
     CompletionSound, HandshakeSound, From, Running, Suspended, Resuming, Leaving, Arriving
<1> QED BY <1>1, <1>2 DEF HandoverNext

(* The CPU that has the context: the inbound, once it has picked it up. *)
Ctx == IF thr = "saved" /\ slot = "used" THEN want ELSE From

(* Exactly one of the two CPUs has the context. *)
LEMMA ContextHeld ==
  ASSUME HandoverInv
  PROVE  Ctx \in Phys /\ \A p \in Phys : Holder(p) <=> p = Ctx
<1> USE DEF HandoverInv, HandoverTypeOK
<1>1. PICK o \in Phys : From = o
  BY Pair DEF From
<1> DEFINE i == Other(o)
<1>2. /\ i \in Phys /\ i # o /\ Phys = {o, i}
      /\ thr = "saved" => want = i
  BY <1>1, Pair DEF From
<1>3. Holder(o) <=> o = Ctx
  BY <1>1, <1>2 DEF Holder, Ctx, ContextSound, Running, Suspended, Resuming
<1>4. Holder(i) <=> i = Ctx
  BY <1>1, <1>2 DEF Holder, Ctx, ContextSound, Running, Suspended, Resuming, Leaving, Arriving
<1> QED BY <1>1, <1>2, <1>3, <1>4 DEF Ctx

(* The invariant of the handover: where the two CPUs are, what they are      *)
(* counted for, their gates, pokes and the saved context follow from how far *)
(* bL_switch_to has come, whatever cpuidle does in between.                  *)
THEOREM HandoverInvariant == HandoverSpec => []HandoverInv
BY HandoverInitInv, HandoverInvStep, PTL DEF HandoverSpec

(* Outbound and inbound never run the context of a logical CPU in parallel,  *)
(* and it is never lost.                                                     *)
THEOREM HandoverOneContext == HandoverSpec => []OneContext
<1>1. HandoverInv => OneContext
  <2> SUFFICES ASSUME HandoverInv PROVE OneContext
    OBVIOUS
  <2>1. {p \in Phys : Holder(p)} = {Ctx}
    BY ContextHeld
  <2> QED BY <2>1, FS_Singleton DEF OneContext
<1> QED BY <1>1, HandoverInvariant, PTL

(* A gate that a CPU finds open was opened for it, by this switch or by its  *)
(* own suspend.                                                              *)
THEOREM HandoverGateSound == HandoverSpec => []GateSound
<1>1. HandoverInv => GateSound
  <2> SUFFICES ASSUME HandoverInv, NEW p \in Phys, pc[p] = "gated", vector[p]
               PROVE  slot # "used" /\ map = p
    BY DEF GateSound
  <2>1. p = From \/ p = Other(From)
    BY Pair DEF HandoverInv, HandoverTypeOK, From
  <2> QED BY <2>1 DEF HandoverInv, HandoverTypeOK, ContextSound, Running, Suspended, Resuming, Leaving,
             Arriving
<1> QED BY <1>1, HandoverInvariant, PTL

(* The inbound writes its handshake to a stack on which the outbound waits.  *)
THEOREM HandoverHandshakeAlive == HandoverSpec => []HandshakeAlive
<1>1. HandoverInv => HandshakeAlive
  BY DEF HandoverInv, HandshakeSound, HandshakeAlive
<1> QED BY <1>1, HandoverInvariant, PTL

(* No completion interrupt outlives the bL_switch_to that asked for it. *)
THEOREM HandoverCompletionAwaited == HandoverSpec => []CompletionAwaited
<1>1. HandoverInv => CompletionAwaited
  <2> SUFFICES ASSUME HandoverInv, NEW p \in Phys, "completion" \in irq[p]
               PROVE  thr \in {"sgi", "alive"} /\ poke[Other(p)] = p
    BY DEF CompletionAwaited
  <2>1. p = From \/ p = Other(From)
    BY Pair DEF HandoverInv, HandoverTypeOK, From
  <2> QED BY <2>1 DEF HandoverInv, CompletionSound
<1> QED BY <1>1, HandoverInvariant, PTL

(* The abstract CPU is the one that has the context. *)
On == CHOOSE p \in Phys : Holder(p)

(* There is no choice. *)
LEMMA OnIsCtx == HandoverInv => On = Ctx
BY ContextHeld DEF On

(* Only the inbound's passage through its gate moves the context. *)
LEMMA CtxMoves ==
  ASSUME HandoverInv, NEW p \in Phys,
         \/ SwitchTo(p) \/ Suspend(p) \/ WakeUp(p) \/ TakeInterrupts(p) \/ ThreadStep(p) \/ CpuStep(p)
  PROVE  \/ UNCHANGED <<Ctx, want>>
         \/ UNCHANGED Ctx /\ want = Ctx /\ want' \in Phys
         \/ UNCHANGED Ctx /\ want # Ctx /\ want' = Ctx
         \/ want # Ctx /\ Ctx' = want /\ UNCHANGED want
<1> USE DEF Thread, Goto, ctxVars
<1>a. HandoverTypeOK /\ ContextSound /\ Other(p) \in Phys /\ Other(p) # p /\ Other(Other(p)) = p
  BY Pair DEF HandoverInv
<1>b. pc[p] = "run" => p = From /\ thr # "saved"
  BY RunsFrom
<1>1. CASE SwitchTo(p)
  BY <1>a, <1>b, <1>1 DEF SwitchTo, Ctx, From
<1>2. CASE PowerUpFails(p)
  BY <1>a, <1>b, <1>2, Pair DEF PowerUpFails, Ctx, From, HandoverTypeOK
<1>3. CASE \/ CloseGates(p) \/ SetEarlyPoke(p) \/ PowerUp(p) \/ SendSgi(p) \/ InboundAlive(p)
           \/ SwapMap(p) \/ TakeInterrupts(p)
  BY <1>3 DEF CloseGates, SetEarlyPoke, PowerUp, SendSgi, InboundAlive, BugInboundAlive, SwapMap,
     TakeInterrupts, Ctx, From
<1>4. CASE SaveContext(p) \/ TellOutbound(p) \/ Suspend(p)
  BY <1>b, <1>4 DEF SaveContext, TellOutbound, Suspend, Ctx, From
<1>5. CASE \/ OpenGate(p) \/ Handshake(p) \/ PowerDown(p) \/ Wfi(p) \/ WakeUp(p) \/ ReEnter(p)
           \/ Enter(p) \/ Setup(p)
  BY <1>5 DEF OpenGate, Handshake, BugHandshake, PowerDown, Wfi, WakeUp, ReEnter, Enter, Setup,
     Ctx, From
<1>6. CASE PassGate(p)
  <2>1. CASE thr = "saved"
    <3>1. slot = "switch"
      BY <1>a, <1>6, <2>1, Pair DEF PassGate, ContextSound, From, HandoverTypeOK
    <3>2. want # Other(want) /\ From = Other(want)
      BY <1>a, <2>1, Pair DEF From, HandoverTypeOK
    <3> QED BY <1>6, <2>1, <3>1, <3>2 DEF PassGate, Ctx
  <2>2. CASE thr # "saved"
    BY <1>6, <2>2 DEF PassGate, Ctx, From
  <2> QED BY <2>1, <2>2
<1>7. CASE PoweredUp(p)
  <2>1. CASE thr = "saved"
    <3>1. slot = "used"
      BY <1>a, <1>7, <2>1, Pair DEF PoweredUp, Powered, ContextSound, From, HandoverTypeOK
    <3> QED BY <1>7, <2>1, <3>1 DEF PoweredUp, Powered, Ctx, From
  <2>2. CASE thr # "saved"
    BY <1>7, <2>2 DEF PoweredUp, Powered, Ctx, From
  <2> QED BY <2>1, <2>2
<1> QED BY <1>1, <1>2, <1>3, <1>4, <1>5, <1>6, <1>7 DEF ThreadStep, CpuStep

(* The handover makes no step that LogicalCpu does not have: a logical CPU   *)
(* moves at once, to the CPU it was asked to run on, or stays.               *)
THEOREM HandoverImplementsSteps == HandoverSpec => Logical!LSafetySpec
<1>1. HandoverInit => Logical!LInit
  <2> SUFFICES ASSUME HandoverInit PROVE Logical!LInit
    OBVIOUS
  <2>1. On = map /\ map \in Phys /\ want = map
    BY HandoverInitInv, OnIsCtx DEF HandoverInit, Ctx, From
  <2> QED BY <2>1 DEF Logical!LInit, On
<1>2. /\ HandoverInv /\ HandoverInv'
      /\ [HandoverNext]_wvars
      => [Logical!LNext]_(Logical!lvars)
  <2> SUFFICES ASSUME HandoverInv, HandoverInv', [HandoverNext]_wvars
               PROVE  [Logical!LNext]_(Logical!lvars)
    OBVIOUS
  <2>0. (HandoverInv => On = Ctx)'
    BY OnIsCtx, PTL
  <2>1. On = Ctx /\ On' = Ctx'
    BY <2>0, OnIsCtx
  <2>2. CASE UNCHANGED wvars
    <3>1. UNCHANGED <<Ctx, want>>
      BY <2>2 DEF wvars, ctxVars, Ctx, From
    <3> QED BY <2>1, <3>1 DEF Logical!lvars, On
  <2>3. CASE HandoverNext
    <3>1. \/ UNCHANGED <<Ctx, want>>
          \/ UNCHANGED Ctx /\ want = Ctx /\ want' \in Phys
          \/ UNCHANGED Ctx /\ want # Ctx /\ want' = Ctx
          \/ want # Ctx /\ Ctx' = want /\ UNCHANGED want
      BY <2>3, CtxMoves DEF HandoverNext
    <3>2. \/ UNCHANGED <<On, want>>
          \/ UNCHANGED On /\ want = On /\ want' \in Phys
          \/ UNCHANGED On /\ want # On /\ want' = On
          \/ want # On /\ On' = want /\ UNCHANGED want
      BY <2>1, <3>1
    <3> QED BY <3>2 DEF Logical!LNext, Logical!Ask, Logical!Move, Logical!GiveUp, Logical!lvars, On
  <2> QED BY <2>2, <2>3
<1> QED BY <1>1, <1>2, HandoverInvariant, PTL DEF HandoverSpec, Logical!LSafetySpec
=============================================================================
