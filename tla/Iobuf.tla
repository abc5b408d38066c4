-------------------------------- MODULE Iobuf --------------------------------
(***************************************************************************)
(* The buffer memories between the E1 core, USB and the processor, and the *)
(* DMA engine that copies between them (gateware/common/rtl/soc_iobuf.v,   *)
(* wb_dma.v, wb_epbuf.v), with the bridge to the processor's own bus       *)
(* (soc_picorv32_bridge.v) and the firmware (common/dma.c).                *)
(*                                                                         *)
(* Hardware is synchronous: one step is one clock edge, at which every     *)
(* register takes its next value from what all of them held before.        *)
(*                                                                         *)
(*   spr  E1 data memory   masters 0 E1 core, 1 processor, 2 DMA port 0    *)
(*   epb  USB EP buffer    masters 0 processor, 1 DMA port 1               *)
(*                                                                         *)
(* The E1 core and the processor (external) hold a request until it is     *)
(* answered and may follow it with another in the very next cycle.         *)
(***************************************************************************)
EXTENDS WbArbiter

CONSTANTS
  Words,      \* addresses of both memories
  E1Base,     \* where transfers start in the E1 data memory
  UsbBase,    \* and in the EP buffer
  Lens,       \* transfer lengths the firmware asks for
  LenMod,     \* wrap of the length written to the engine (2^12)
  E1Word,     \* the address the E1 core writes, outside of any transfer
  CpuWord     \* the address the processor writes in the EP buffer

ASSUME IobufAssumption ==
  /\ Words \subseteq Nat /\ {E1Word, CpuWord} \subseteq Words
  /\ LenMod \in Nat \ {0} /\ Lens \subseteq 2 .. LenMod + 1
  /\ \A n \in Lens : /\ E1Base .. E1Base + n - 1 \subseteq Words \ {E1Word}
                    /\ UsbBase .. UsbBase + n - 1 \subseteq Words \ {CpuWord}
  /\ {E1Base, UsbBase} \subseteq Words

VARIABLES
  spr, epb,      \* the two arbiters with their slaves
  sram, ebuf,    \* the memories
  dma,           \* registers of wb_dma
  cpu,           \* the processor: its request, where in dma.c, the transfer
  bridge,        \* registers of soc_picorv32_bridge: answers to the processor
  e1, e1Wait,    \* the E1 core's request; cycles since it was made
  want           \* history: what the transfer's destination has to become

vars == <<spr, epb, sram, ebuf, dma, cpu, bridge, e1, e1Wait, want>>

DmaInit == [state |-> "idle", dir |-> 0, go |-> FALSE, data |-> NoData, a0 |-> E1Base,
            a1 |-> UsbBase, len |-> 0, doWrite |-> FALSE, doRead |-> FALSE, ack |-> FALSE]

CpuInit == [to |-> "none", we |-> FALSE, addr |-> 0, at |-> "idle", dir |-> 0, n |-> 2]

BridgeInit == [ramRdy |-> FALSE, rdy |-> FALSE, busy |-> FALSE]

Init ==
  /\ spr = ArbiterInit /\ epb = ArbiterInit
  /\ sram = [w \in Words |-> <<"e", w>>] /\ ebuf = [w \in Words |-> <<"u", w>>]
  /\ dma = DmaInit /\ cpu = CpuInit /\ bridge = BridgeInit
  /\ e1 = NoRequest /\ e1Wait = 0
  /\ want = ebuf

-----------------------------------------------------------------------------
(* Wires *)

\* The engine is reading or writing; which port that takes depends on dir.
M0Cyc == (dma.state = "read" /\ dma.dir = 0) \/ (dma.state = "write" /\ dma.dir = 1)
M1Cyc == (dma.state = "read" /\ dma.dir = 1) \/ (dma.state = "write" /\ dma.dir = 0)

M0 == [cyc |-> M0Cyc, addr |-> dma.a0, we |-> dma.dir = 1, data |-> dma.data]
M1 == [cyc |-> M1Cyc, addr |-> dma.a1, we |-> dma.dir = 0, data |-> dma.data]

\* Fault: the request stays up while its answer is on the way.
CycRstBare == cpu.to \in {"none", "ram"}

\* The answer takes a register on its way to the processor, so the request,
\* which the processor still holds in that cycle, must not be passed on again.
WbCycRst == cpu.to \in {"none", "ram"} \/ bridge.rdy

WbCyc(slave) == cpu.to = slave /\ ~WbCycRst

CpuTo(slave) == [cyc |-> WbCyc(slave), addr |-> cpu.addr, we |-> cpu.we, data |-> <<"cpu">>]

SprReq == [i \in 0 .. 2 |-> CASE i = 0 -> e1 [] i = 1 -> CpuTo("spr") [] i = 2 -> M0]
EpbReq == [i \in 0 .. 1 |-> CASE i = 0 -> CpuTo("epb") [] i = 1 -> M1]

M0Ack == Acked(spr, 2)
M1Ack == Acked(epb, 1)
AckRd == (M0Ack /\ dma.dir = 0) \/ (M1Ack /\ dma.dir = 1)
AckWr == (M0Ack /\ dma.dir = 1) \/ (M1Ack /\ dma.dir = 0)

WbAck == Acked(spr, 1) \/ Acked(epb, 0) \/ dma.ack

-----------------------------------------------------------------------------
(* Memories behind their arbiters (wb_epbuf.v; the E1 data memory's        *)
(* ice40_spram_wb, external, answers alike): one cycle to answer, the      *)
(* write done in the first cycle only.                                     *)

Slave(arb, mem) == [arb EXCEPT !.ack = arb.busy /\ ~arb.ack, !.rdata = mem[arb.bus.addr]]

Written(arb, mem) ==
  IF arb.busy /\ arb.bus.we /\ ~arb.ack THEN [mem EXCEPT ![arb.bus.addr] = arb.bus.data] ELSE mem

NextArbiter(arb, req, mem) ==
  LET a == Arbitrated(arb, req)
      s == Slave(arb, mem)
  IN  [a EXCEPT !.ack = s.ack, !.rdata = s.rdata]

-----------------------------------------------------------------------------
(* wb_dma *)

\* The control registers: 0 length, direction and go; 2 and 3 the addresses.
RegWrite(r) == dma.doWrite /\ cpu.addr = r

\* Fault: the engine leaves the last word out.
LenLastEarly == dma.len <= 0

\* len[12], the borrow of the count.
LenLast == dma.len < 0

\* Fault: the engine is done with the last word before its write is answered.
DmaStateShort ==
  CASE dma.state = "idle"  -> IF dma.go THEN "read" ELSE "idle"
    [] dma.state = "read"  -> IF AckRd THEN "write" ELSE "read"
    [] dma.state = "write" -> IF LenLast THEN "idle" ELSE IF AckWr THEN "read" ELSE "write"

DmaState ==
  CASE dma.state = "idle"  -> IF dma.go THEN "read" ELSE "idle"
    [] dma.state = "read"  -> IF AckRd THEN "write" ELSE "read"
    [] dma.state = "write" -> IF AckWr THEN IF LenLast THEN "idle" ELSE "read" ELSE "write"

AddrStep == AckWr

DmaNext ==
  [state   |-> DmaState,
   go      |-> RegWrite(0),
   dir     |-> IF RegWrite(0) THEN cpu.dir ELSE dma.dir,
   len     |-> IF RegWrite(0) THEN (cpu.n - 2) % LenMod ELSE IF AckWr THEN dma.len - 1 ELSE dma.len,
   a0      |-> IF RegWrite(2) THEN E1Base ELSE IF AddrStep THEN dma.a0 + 1 ELSE dma.a0,
   a1      |-> IF RegWrite(3) THEN UsbBase ELSE IF AddrStep THEN dma.a1 + 1 ELSE dma.a1,
   data    |-> IF AckRd THEN IF dma.dir = 1 THEN epb.rdata ELSE spr.rdata ELSE dma.data,
   doWrite |-> ~dma.ack /\ WbCyc("dma") /\ cpu.we,
   doRead  |-> ~dma.ack /\ WbCyc("dma") /\ ~cpu.we /\ cpu.addr = 0,
   ack     |-> ~dma.ack /\ WbCyc("dma")]

\* The busy bit, in the cycle a read of the length register is answered.
BusyRead == dma.doRead /\ dma.state # "idle"

-----------------------------------------------------------------------------
(* soc_picorv32_bridge: the processor's own memories answer in the next    *)
(* cycle, the bus in the one after its acknowledge.                        *)

PbReady == bridge.ramRdy \/ bridge.rdy

BridgeNext ==
  [ramRdy |-> cpu.to = "ram" /\ ~bridge.ramRdy,
   rdy    |-> WbAck,
   busy   |-> ~WbCycRst /\ BusyRead]

-----------------------------------------------------------------------------
(* The processor.  dma_exec writes the three registers in this order, then *)
(* the firmware polls the busy bit; at any point it may access a memory.   *)

Reg == [setE1 |-> 2, setUsb |-> 3, go |-> 0, poll |-> 0]

\* What the processor does once nothing of its own is outstanding.
Access(c) ==
  {[c EXCEPT !.to = m, !.we = FALSE, !.addr = CpuWord] : m \in {"none", "ram"}}
    \union {[c EXCEPT !.to = "spr", !.we = FALSE, !.addr = E1Word],
            [c EXCEPT !.to = "epb", !.we = TRUE,  !.addr = CpuWord]}
    \union (IF c.at \in DOMAIN Reg
            THEN {[c EXCEPT !.to = "dma", !.we = (c.at # "poll"), !.addr = Reg[c.at]]}
            ELSE {})

\* dma_exec is called, or a register access of it is over.
Called(dir, n) == [cpu EXCEPT !.at = "setE1", !.dir = dir, !.n = n]

Order == [setE1 |-> "setUsb", setUsb |-> "go", go |-> "poll"]

Advanced ==
  CASE cpu.at \in {"idle", "done"} ->
         {[cpu EXCEPT !.at = "idle"]}
           \union {Called(d, n) : d \in {0, 1}, n \in Lens}
    [] cpu.at \in DOMAIN Order -> {[cpu EXCEPT !.at = IF cpu.to = "dma" THEN Order[@] ELSE @]}
    [] cpu.at = "poll" ->
         {[cpu EXCEPT !.at = IF cpu.to = "dma" /\ ~bridge.busy THEN "done" ELSE "poll"]}

CpuNext == IF cpu.to # "none" /\ ~PbReady THEN {cpu} ELSE UNION {Access(c) : c \in Advanced}

\* What the destination has to become, noted when the go bit reaches the engine.
Source == IF cpu.dir = 0 THEN sram ELSE ebuf
Dest   == IF cpu.dir = 0 THEN ebuf ELSE sram

Copied ==
  LET from == IF cpu.dir = 0 THEN E1Base ELSE UsbBase
      to   == IF cpu.dir = 0 THEN UsbBase ELSE E1Base
  IN  [w \in Words |-> IF w - to \in 0 .. cpu.n - 1 THEN Source[w - to + from] ELSE Dest[w]]

-----------------------------------------------------------------------------
(* The E1 core: it reads what it sends, writes what it received.           *)

E1Offers ==
  {NoRequest, [cyc |-> TRUE, addr |-> E1Base, we |-> FALSE, data |-> <<"e1">>],
              [cyc |-> TRUE, addr |-> E1Word, we |-> TRUE,  data |-> <<"e1">>]}

E1Next == IF e1.cyc /\ ~Acked(spr, 0) THEN {e1} ELSE E1Offers

-----------------------------------------------------------------------------
Clock ==
  /\ spr' = NextArbiter(spr, SprReq, sram)
  /\ epb' = NextArbiter(epb, EpbReq, ebuf)
  /\ sram' = Written(spr, sram)
  /\ ebuf' = Written(epb, ebuf)
  /\ dma' = DmaNext
  /\ bridge' = BridgeNext
  /\ cpu' \in CpuNext
  /\ e1' \in E1Next
  /\ e1Wait' = IF e1.cyc /\ ~Acked(spr, 0) THEN e1Wait + 1 ELSE 0
  /\ want' = IF RegWrite(0) THEN Copied ELSE want

Spec == Init /\ [][Clock]_vars

\* The clock does not stop.
FairSpec == Spec /\ WF_vars(Clock)

-----------------------------------------------------------------------------
(* Properties *)

\* Once dma_poll() finds the engine idle the transfer is complete: every word
\* of the destination is the source's, no other one is touched, whatever the
\* E1 core and the processor did to the memories meanwhile; in particular the
\* first poll, right behind the go bit, does not take the engine for idle
\* (dma.c:59-69, wb_dma.v:86-121).
CopyExact ==
  cpu.at = "done" =>
    \A w \in Words : (IF cpu.dir = 0 THEN w # CpuWord ELSE w # E1Word) => Dest[w] = want[w]

\* What a slave is working on is what the granted master still asks for, so an
\* acknowledge and the read data, which the processor's bus ORs together, are
\* those of the asker (wb_arbiter.v:59-63, 113-123; soc_iobuf.v:250).
GrantHolds ==
  /\ spr.busy => spr.sel \in 0 .. 2 /\ SprReq[spr.sel].cyc /\ spr.bus = SprReq[spr.sel]
  /\ epb.busy => epb.sel \in 0 .. 1 /\ EpbReq[epb.sel].cyc /\ epb.bus = EpbReq[epb.sel]
  /\ WbCyc("dma") => spr.sel # 1 /\ epb.sel # 0

\* Cycles of an access of another master, of the choice and of the answer.
MaxWait == 3

\* The E1 core, which cannot wait for long, is answered in time however busy
\* the processor and a transfer keep the memory: it waits for one access of
\* theirs at most (wb_arbiter.v:99-110, soc_iobuf.v:132-149).
E1WaitBounded == e1Wait <= MaxWait

\* A transfer ends unless the processor keeps accessing the E1 data memory:
\* the E1 core alone, though first in priority, cannot starve it
\* (wb_arbiter.v:106, dma.c:59-69).
DmaEnds == dma.state # "idle" ~> (dma.state = "idle" \/ cpu.to = "spr")

=============================================================================
