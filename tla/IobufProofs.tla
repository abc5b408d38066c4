---------------------------- MODULE IobufProofs ----------------------------
(***************************************************************************)
(* Proofs about Iobuf, for every memory, transfer length and wrap of the   *)
(* length: what a slave works on is what the granted master asks for, the  *)
(* firmware only takes a transfer for done when the engine is idle, it has *)
(* then copied what was wanted, and the E1 core waits three cycles at most.*)
(***************************************************************************)
EXTENDS Iobuf, TLAPS

-----------------------------------------------------------------------------
(* The inductive invariant *)

\* An arbiter is granted to a master exactly while its slave is addressed, and
\* the slave answers nobody else.
ArbiterShape(arb) ==
  /\ arb = [sel |-> arb.sel, busy |-> arb.busy, bus |-> arb.bus, ack |-> arb.ack,
            rdata |-> arb.rdata]
  /\ arb.busy \in BOOLEAN /\ arb.ack \in BOOLEAN
  /\ arb.busy <=> arb.sel # Nobody
  /\ arb.ack => arb.busy

\* What a slave works on is its granted master's request.
Granted(arb, req) == arb.busy => arb.sel \in DOMAIN req /\ req[arb.sel].cyc /\ arb.bus = req[arb.sel]

Registers == {"setE1", "setUsb", "go", "poll"}

\* The processor's request to the engine is the one dma.c makes there.
CpuShape ==
  /\ cpu = [to |-> cpu.to, we |-> cpu.we, addr |-> cpu.addr, at |-> cpu.at, dir |-> cpu.dir,
            n |-> cpu.n]
  /\ cpu.at \in Registers \union {"idle", "done"}
  /\ cpu.to \in {"none", "ram", "spr", "epb", "dma"}
  /\ cpu.to = "dma" => cpu.at \in Registers /\ cpu.we = (cpu.at # "poll") /\ cpu.addr = Reg[cpu.at]

\* The processor waits for one answer at a time, of what it asked.
OneAnswer ==
  /\ bridge.ramRdy => cpu.to = "ram"
  /\ bridge.rdy => cpu.to \in {"spr", "epb", "dma"}
  /\ dma.ack => cpu.to = "dma" /\ ~bridge.rdy
  /\ dma.doWrite => dma.ack /\ cpu.we
  /\ dma.ack /\ cpu.at = "poll" => dma.doRead

\* The engine runs only while the firmware polls it, and a poll that is
\* answered with "idle" was asked of an idle engine.
EngineWatched ==
  /\ dma.state \in {"idle", "read", "write"}
  /\ dma.go => bridge.rdy /\ cpu.to = "dma" /\ cpu.at = "go" /\ dma.state = "idle" /\ ~dma.doWrite
  /\ dma.state # "idle" => cpu.at = "poll" /\ ~dma.doWrite /\ ~dma.go
  /\ cpu.at = "poll" /\ cpu.to = "dma" /\ bridge.rdy /\ ~bridge.busy => dma.state = "idle"

\* The E1 core waits for the access another master began before it asked, for
\* being chosen, and for its own answer.
WaitInv ==
  /\ e1Wait \in Nat
  /\ ~e1.cyc => e1Wait = 0
  /\ spr.sel # 0 => e1Wait <= IF spr.ack THEN 1 ELSE 0
  /\ spr.sel = 0 => e1Wait <= IF spr.ack THEN 3 ELSE 2

\* Where a transfer reads and where it writes, and the word of the destination
\* that another master writes meanwhile.
From == IF cpu.dir = 0 THEN E1Base ELSE UsbBase
To == IF cpu.dir = 0 THEN UsbBase ELSE E1Base
Racing == IF cpu.dir = 0 THEN CpuWord ELSE E1Word

\* The processor writes its word of the EP buffer, and asks for legal lengths.
CpuLegal ==
  /\ cpu.dir \in {0, 1} /\ (cpu.at \in Registers \union {"done"} => cpu.n \in Lens)
  /\ (cpu.to = "spr" => ~cpu.we) /\ (cpu.to = "epb" => cpu.addr = CpuWord)
  /\ (dma.ack /\ cpu.at # "poll" => dma.doWrite)

\* Both memories keep their size; what a slave answers was read in the cycle before.
MemShape == DOMAIN sram = Words /\ DOMAIN ebuf = Words /\ e1 \in E1Offers

\* The address registers, written in turn, stay until the transfer, which the
\* last write starts.
AddrsSet ==
  /\ (cpu.at = "setE1" /\ cpu.to = "dma" /\ bridge.rdy) \/ cpu.at \in {"setUsb", "go"}
       => dma.a0 = E1Base
  /\ (cpu.at = "setUsb" /\ cpu.to = "dma" /\ bridge.rdy) \/ cpu.at = "go"
       => dma.a1 = UsbBase
  /\ cpu.at = "go" /\ cpu.to = "dma" /\ bridge.rdy => dma.go

\* Words copied so far.
Copies == cpu.n - 2 - dma.len

\* A transfer under way: what is copied is what was wanted, what is not yet is
\* still in the source.
Running ==
  dma.go \/ dma.state # "idle" =>
    /\ dma.dir = cpu.dir /\ dma.len \in Int /\ Copies \in 0 .. cpu.n - 1
    /\ dma.go => Copies = 0
    /\ dma.a0 = E1Base + Copies /\ dma.a1 = UsbBase + Copies
    /\ \A i \in Copies .. cpu.n - 1 : Source[From + i] = want[To + i]
    /\ \A w \in Words \ {Racing} : w \notin To + Copies .. To + cpu.n - 1 => Dest[w] = want[w]
    /\ dma.state = "write" => dma.data = want[To + Copies]
    /\ M0Ack /\ dma.dir = 0 => spr.rdata = want[To + Copies]
    /\ M1Ack /\ dma.dir = 1 => epb.rdata = want[To + Copies]
    /\ AckWr => Dest[To + Copies] = want[To + Copies]

\* A transfer that is over has left what was wanted.
Finished ==
  (cpu.at = "poll" /\ dma.state = "idle") \/ cpu.at = "done" =>
    \A w \in Words \ {Racing} : Dest[w] = want[w]

CopyInv == CpuLegal /\ MemShape /\ AddrsSet /\ Running /\ Finished

IobufInv ==
  /\ ArbiterShape(spr) /\ ArbiterShape(epb)
  /\ Granted(spr, SprReq) /\ Granted(epb, EpbReq)
  /\ CpuShape /\ OneAnswer /\ EngineWatched

-----------------------------------------------------------------------------
(* The arbiter *)

\* The priority encoder has a choice among three masters or two.
LEMMA FirstExists ==
  ASSUME NEW W \in SUBSET (0 .. 2), W # {}
  PROVE  \E i \in W : \A j \in W : i <= j
<1>1. CASE 0 \in W
  BY <1>1
<1>2. CASE 0 \notin W /\ 1 \in W
  BY <1>2
<1>3. CASE 0 \notin W /\ 1 \notin W
  <2>1. PICK k \in W : TRUE
    OBVIOUS
  <2>2. \A i \in W : i = 2
    BY <1>3
  <2> QED BY <2>1, <2>2
<1> QED BY <1>1, <1>2, <1>3

\* Who is granted next asks, and was not just served.
LEMMA SelNxtWaits ==
  ASSUME NEW arb, NEW req, DOMAIN req \subseteq 0 .. 2, Waiting(arb, req) # {}
  PROVE  SelNxt(arb, req) \in Waiting(arb, req)
<1>1. Waiting(arb, req) \in SUBSET (0 .. 2)
  BY DEF Waiting
<1>2. \E i \in Waiting(arb, req) : \A j \in Waiting(arb, req) : i <= j
  BY <1>1, FirstExists
<1> QED BY <1>2 DEF SelNxt

\* The fields of an arbiter, and what becomes of its slave's.
LEMMA ArbiterFields ==
  ASSUME NEW arb, NEW sel, NEW busy \in BOOLEAN, NEW bus, NEW ack \in BOOLEAN, NEW rdata,
         arb = [sel |-> sel, busy |-> busy, bus |-> bus, ack |-> ack, rdata |-> rdata],
         busy <=> sel # Nobody, ack => busy
  PROVE  ArbiterShape(arb) /\ arb.sel = sel /\ arb.busy = busy /\ arb.bus = bus /\ arb.ack = ack
<1>1. arb.sel = sel /\ arb.busy = busy /\ arb.bus = bus /\ arb.ack = ack /\ arb.rdata = rdata
  OBVIOUS
<1> QED BY <1>1 DEF ArbiterShape

\* The fields of a slave and its arbiter together.
LEMMA SlaveFields ==
  ASSUME NEW arb, NEW ack, NEW rdata, NEW next,
         arb = [sel |-> arb.sel, busy |-> arb.busy, bus |-> arb.bus, ack |-> arb.ack,
                rdata |-> arb.rdata],
         next = [arb EXCEPT !.ack = ack, !.rdata = rdata]
  PROVE  next = [sel |-> arb.sel, busy |-> arb.busy, bus |-> arb.bus, ack |-> ack, rdata |-> rdata]
OBVIOUS

\* If the requests that were not just answered stay, the next arbiter serves
\* its master's request again.
LEMMA ArbiterStep ==
  ASSUME NEW arb, NEW req, NEW next, NEW mem,
         ArbiterShape(arb), Granted(arb, req), DOMAIN req \subseteq 0 .. 2,
         DOMAIN next = DOMAIN req,
         \A i \in DOMAIN req : req[i].cyc /\ ~Acked(arb, i) => next[i] = req[i]
  PROVE  /\ ArbiterShape(NextArbiter(arb, req, mem))
         /\ Granted(NextArbiter(arb, req, mem), next)
<1> DEFINE a == Arbitrated(arb, req)
           s == Slave(arb, mem)
           n == NextArbiter(arb, req, mem)
           asked == Waiting(arb, req) # {}
<1>1. s.ack = (arb.busy /\ ~arb.ack)
  BY DEF Slave, ArbiterShape
<1>2. s.ack \in BOOLEAN
  BY <1>1
<1>3. n = [a EXCEPT !.ack = s.ack, !.rdata = s.rdata]
  BY DEF NextArbiter
<1>4. CASE Reselect(arb)
  <2>1. a = [sel |-> SelNxt(arb, req), busy |-> asked, bus |-> Muxed(arb, req),
             ack |-> arb.ack, rdata |-> arb.rdata]
    <3>1. a = [arb EXCEPT !.sel = SelNxt(arb, req), !.busy = asked, !.bus = Muxed(arb, req)]
      BY <1>4 DEF Arbitrated
    <3> HIDE DEF a, asked
    <3> QED BY <3>1 DEF ArbiterShape
  <2>2. n = [sel |-> SelNxt(arb, req), busy |-> asked, bus |-> Muxed(arb, req),
             ack |-> s.ack, rdata |-> s.rdata]
    <3> HIDE DEF a, s, n, asked
    <3>1. a.sel = SelNxt(arb, req) /\ a.busy = asked /\ a.bus = Muxed(arb, req)
      BY <2>1
    <3>2. a = [sel |-> a.sel, busy |-> a.busy, bus |-> a.bus, ack |-> a.ack, rdata |-> a.rdata]
      BY <2>1
    <3> QED BY <1>3, <3>1, <3>2, SlaveFields
  <2>3. ~s.ack
    BY <1>1, <1>4 DEF Reselect, ArbiterShape
  <2>4. asked => /\ SelNxt(arb, req) \in DOMAIN req /\ SelNxt(arb, req) # Nobody
                 /\ req[SelNxt(arb, req)].cyc /\ ~Acked(arb, SelNxt(arb, req))
    BY SelNxtWaits DEF Waiting, Nobody, Acked
  <2>5. ~asked => SelNxt(arb, req) = Nobody
    BY DEF SelNxt
  <2>6. asked => Muxed(arb, req) = req[SelNxt(arb, req)]
    BY <2>4 DEF Muxed
  <2>7. asked => next[SelNxt(arb, req)] = req[SelNxt(arb, req)]
    BY <2>4
  <2>8. asked \in BOOLEAN
    OBVIOUS
  <2>9. asked <=> SelNxt(arb, req) # Nobody
    BY <2>4, <2>5
  <2> HIDE DEF s, n, asked
  <2>10. /\ ArbiterShape(n) /\ n.sel = SelNxt(arb, req) /\ n.busy = asked
         /\ n.bus = Muxed(arb, req)
    BY <1>2, <2>2, <2>3, <2>8, <2>9, ArbiterFields
  <2> QED BY <2>4, <2>6, <2>7, <2>10 DEF Granted, n
<1>5. CASE ~Reselect(arb)
  <2>1. a = arb /\ arb.busy /\ ~arb.ack
    BY <1>5 DEF Arbitrated, Reselect
  <2>2. n = [sel |-> arb.sel, busy |-> arb.busy, bus |-> arb.bus, ack |-> s.ack, rdata |-> s.rdata]
    <3> HIDE DEF a, s, n
    <3> QED BY <1>3, <2>1, SlaveFields DEF ArbiterShape
  <2>3. arb.sel \in DOMAIN req /\ req[arb.sel].cyc /\ arb.bus = req[arb.sel] /\ ~Acked(arb, arb.sel)
    BY <2>1 DEF Granted, Acked
  <2>4. next[arb.sel] = req[arb.sel]
    BY <2>3
  <2> HIDE DEF s, n
  <2>5. ArbiterShape(n) /\ n.sel = arb.sel /\ n.busy = arb.busy /\ n.bus = arb.bus
    BY <1>2, <2>1, <2>2, ArbiterFields DEF ArbiterShape
  <2> QED BY <2>3, <2>4, <2>5 DEF Granted, n
<1> QED BY <1>4, <1>5

-----------------------------------------------------------------------------
(* The processor *)

\* The register accesses dma_exec writes in order (dma.c:43-52).
LEMMA OrderDomain == DOMAIN Order = {"setE1", "setUsb", "go"}
BY DEF Order

\* Within dma_exec the next register access follows the one that is over.
LEMMA OrderStep ==
  ASSUME cpu.at \in {"setE1", "setUsb", "go"}
  PROVE  \E at \in {"setE1", "setUsb", "go", "poll"} :
           /\ Advanced = {[cpu EXCEPT !.at = at]}
           /\ at = IF cpu.to = "dma" THEN Order[cpu.at] ELSE cpu.at
           /\ cpu.at = "go" /\ cpu.to = "dma" => at = "poll"
<1> DEFINE at == IF cpu.to = "dma" THEN Order[cpu.at] ELSE cpu.at
<1>2. /\ Order["setE1"] = "setUsb" /\ Order["setUsb"] = "go" /\ Order["go"] = "poll"
  BY DEF Order
<1>3. Advanced = {[cpu EXCEPT !.at = IF cpu.to = "dma" THEN Order[@] ELSE @]}
  BY OrderDomain DEF Advanced
<1>4. at \in {"setE1", "setUsb", "go", "poll"}
  BY <1>2
<1>5. cpu.at = "go" /\ cpu.to = "dma" => at = "poll"
  BY <1>2
<1> QED BY <1>3, <1>4, <1>5

\* An unanswered processor stays; an answered one moves on as dma.c does.
LEMMA CpuMoves ==
  ASSUME CpuShape, cpu' \in CpuNext
  PROVE  /\ cpu.to # "none" /\ ~PbReady => cpu' = cpu
         /\ CpuShape'
         /\ cpu.at = "poll" /\ ~(cpu.to = "dma" /\ ~bridge.busy) => cpu'.at = "poll"
         /\ cpu.at = "go" /\ cpu.to = "dma" /\ PbReady => cpu'.at = "poll"
<1>1. CASE cpu.to # "none" /\ ~PbReady
  <2>1. cpu' = cpu
    BY <1>1 DEF CpuNext
  <2> QED BY <1>1, <2>1 DEF CpuShape
<1>2. CASE ~(cpu.to # "none" /\ ~PbReady)
  <2>1. PICK c \in Advanced : cpu' \in Access(c)
    BY <1>2 DEF CpuNext
  <2>2. c = [to |-> cpu.to, we |-> cpu.we, addr |-> cpu.addr, at |-> c.at, dir |-> c.dir, n |-> c.n]
    <3>1. CASE cpu.at \in {"idle", "done"}
      <4>1. Advanced = {[cpu EXCEPT !.at = "idle"]} \union {Called(d, n) : d \in {0, 1}, n \in Lens}
        BY <3>1, OrderDomain DEF Advanced
      <4>2. \/ c = [cpu EXCEPT !.at = "idle"]
            \/ \E d \in {0, 1}, n \in Lens : c = Called(d, n)
        BY <2>1, <4>1
      <4> QED BY <3>1, <4>2 DEF Called, CpuShape
    <3>2. CASE cpu.at \in {"setE1", "setUsb", "go"}
      <4>1. PICK at \in {"setE1", "setUsb", "go", "poll"} :
              Advanced = {[cpu EXCEPT !.at = at]} /\ (cpu.at = "go" /\ cpu.to = "dma" => at = "poll")
        BY <3>2, OrderStep
      <4>2. c = [cpu EXCEPT !.at = at]
        BY <2>1, <4>1
      <4> QED BY <3>2, <4>1, <4>2 DEF CpuShape
    <3>3. CASE cpu.at = "poll"
      BY <2>1, <3>3 DEF Advanced, CpuShape, Order
    <3> QED BY <3>1, <3>2, <3>3 DEF CpuShape, Registers
  <2>3. /\ c.at \in Registers \union {"idle", "done"}
        /\ cpu.at = "poll" /\ ~(cpu.to = "dma" /\ ~bridge.busy) => c.at = "poll"
        /\ cpu.at = "go" /\ cpu.to = "dma" => c.at = "poll"
    <3>1. CASE cpu.at \in {"idle", "done"}
      <4>1. Advanced = {[cpu EXCEPT !.at = "idle"]} \union {Called(d, n) : d \in {0, 1}, n \in Lens}
        BY <3>1, OrderDomain DEF Advanced
      <4>2. \/ c = [cpu EXCEPT !.at = "idle"]
            \/ \E d \in {0, 1}, n \in Lens : c = Called(d, n)
        BY <2>1, <4>1
      <4> QED BY <3>1, <4>2 DEF Called, CpuShape, Registers
    <3>2. CASE cpu.at \in {"setE1", "setUsb", "go"}
      <4>1. PICK at \in {"setE1", "setUsb", "go", "poll"} :
              Advanced = {[cpu EXCEPT !.at = at]} /\ (cpu.at = "go" /\ cpu.to = "dma" => at = "poll")
        BY <3>2, OrderStep
      <4>2. c = [cpu EXCEPT !.at = at]
        BY <2>1, <4>1
      <4> QED BY <3>2, <4>1, <4>2 DEF CpuShape, Registers
    <3>3. CASE cpu.at = "poll"
      BY <2>1, <3>3 DEF Advanced, CpuShape, Registers, Order
    <3> QED BY <3>1, <3>2, <3>3 DEF CpuShape, Registers
  <2>5. /\ cpu' = [to |-> cpu'.to, we |-> cpu'.we, addr |-> cpu'.addr, at |-> cpu'.at,
                   dir |-> cpu'.dir, n |-> cpu'.n]
        /\ cpu'.at = c.at
        /\ cpu'.to \in {"none", "ram", "spr", "epb", "dma"}
        /\ cpu'.to = "dma" => c.at \in Registers /\ cpu'.we = (c.at # "poll") /\ cpu'.addr = Reg[c.at]
    BY <2>1, <2>2 DEF Access, Reg, Registers
  <2> QED BY <1>2, <2>3, <2>5 DEF CpuShape
<1> QED BY <1>1, <1>2

\* A request of the processor that is answered nowhere stays.
LEMMA CpuHeld ==
  ASSUME IobufInv, Clock, NEW slave \in {"spr", "epb", "dma"}, WbCyc(slave), ~WbAck
  PROVE  cpu' = cpu /\ WbCyc(slave)'
<1>1. cpu.to = slave /\ ~bridge.rdy
  BY DEF WbCyc, WbCycRst
<1>2. ~PbReady
  BY <1>1 DEF IobufInv, OneAnswer, PbReady
<1>3. cpu' = cpu
  BY <1>1, <1>2, CpuMoves DEF IobufInv, Clock
<1>4. ~bridge'.rdy
  BY DEF Clock, BridgeNext
<1> QED BY <1>1, <1>3, <1>4 DEF WbCyc, WbCycRst

\* The processor is answered by what it asked.
LEMMA AnswerIsAsked ==
  ASSUME IobufInv
  PROVE  /\ Acked(spr, 1) => WbCyc("spr")
         /\ Acked(epb, 0) => WbCyc("epb")
         /\ dma.ack => cpu.to = "dma" /\ ~bridge.rdy
<1>1. Acked(spr, 1) => SprReq[1].cyc
  BY DEF IobufInv, Acked, ArbiterShape, Granted
<1>2. Acked(epb, 0) => EpbReq[0].cyc
  BY DEF IobufInv, Acked, ArbiterShape, Granted
<1> QED BY <1>1, <1>2 DEF SprReq, EpbReq, CpuTo, IobufInv, OneAnswer

-----------------------------------------------------------------------------
(* Requests that were not just answered stay. *)

\* Not answered at the memory it is at, the processor is answered nowhere.
LEMMA SprCpuHeld ==
  ASSUME IobufInv, Clock, CpuTo("spr").cyc, ~Acked(spr, 1)
  PROVE  CpuTo("spr")' = CpuTo("spr")
<1>1. WbCyc("spr")
  BY DEF CpuTo
<1>2. ~WbAck
  BY <1>1, AnswerIsAsked DEF WbAck, WbCyc
<1>3. cpu' = cpu /\ WbCyc("spr")'
  BY <1>1, <1>2, CpuHeld
<1> QED BY <1>1, <1>3 DEF CpuTo

\* The same at the endpoint buffer.
LEMMA EpbCpuHeld ==
  ASSUME IobufInv, Clock, CpuTo("epb").cyc, ~Acked(epb, 0)
  PROVE  CpuTo("epb")' = CpuTo("epb")
<1>1. WbCyc("epb")
  BY DEF CpuTo
<1>2. ~WbAck
  BY <1>1, AnswerIsAsked DEF WbAck, WbCyc
<1>3. cpu' = cpu /\ WbCyc("epb")'
  BY <1>1, <1>2, CpuHeld
<1> QED BY <1>1, <1>3 DEF CpuTo

\* Only one port of the engine is asking, so an answer is to that one.
LEMMA EngineAnswer ==
  ASSUME IobufInv
  PROVE  /\ M0Ack => M0Cyc
         /\ M1Ack => M1Cyc
<1>1. M0Ack => SprReq[2].cyc
  BY DEF IobufInv, Acked, ArbiterShape, Granted, M0Ack
<1>2. M1Ack => EpbReq[1].cyc
  BY DEF IobufInv, Acked, ArbiterShape, Granted, M1Ack
<1> QED BY <1>1, <1>2 DEF SprReq, EpbReq, M0, M1

\* While the engine runs and is not answered, its registers stay.
LEMMA EngineHeld ==
  ASSUME IobufInv, Clock, dma.state \in {"read", "write"}, ~AckRd, ~AckWr
  PROVE  /\ dma'.state = dma.state /\ dma'.dir = dma.dir /\ dma'.data = dma.data
         /\ dma'.a0 = dma.a0 /\ dma'.a1 = dma.a1
<1>1. ~dma.doWrite
  BY DEF IobufInv, EngineWatched
<1>2. dma' = DmaNext
  BY DEF Clock
<1>3. DmaState = dma.state
  BY DEF DmaState
<1> QED BY <1>1, <1>2, <1>3 DEF DmaNext, RegWrite, AddrStep

\* The engine's first port, asking and not answered, goes on asking.
LEMMA M0Held ==
  ASSUME IobufInv, Clock, M0.cyc, ~M0Ack
  PROVE  M0' = M0
<1>1. M0Cyc /\ dma.state \in {"read", "write"}
  BY DEF M0, M0Cyc
<1>2. ~M1Cyc
  BY <1>1 DEF M0Cyc, M1Cyc
<1>3. ~AckRd /\ ~AckWr
  BY <1>2, EngineAnswer DEF AckRd, AckWr
<1>4. /\ dma'.state = dma.state /\ dma'.dir = dma.dir /\ dma'.data = dma.data
      /\ dma'.a0 = dma.a0
  BY <1>1, <1>3, EngineHeld
<1> QED BY <1>4 DEF M0, M0Cyc

\* So does its second.
LEMMA M1Held ==
  ASSUME IobufInv, Clock, M1.cyc, ~M1Ack
  PROVE  M1' = M1
<1>1. M1Cyc /\ dma.state \in {"read", "write"}
  BY DEF M1, M1Cyc
<1>2. ~M0Cyc
  BY <1>1 DEF M0Cyc, M1Cyc
<1>3. ~AckRd /\ ~AckWr
  BY <1>2, EngineAnswer DEF AckRd, AckWr
<1>4. /\ dma'.state = dma.state /\ dma'.dir = dma.dir /\ dma'.data = dma.data
      /\ dma'.a1 = dma.a1
  BY <1>1, <1>3, EngineHeld
<1> QED BY <1>4 DEF M1, M1Cyc

\* Requests to the SPRAM's arbiter that were not answered stay as they are.
LEMMA SprReqHeld ==
  ASSUME IobufInv, Clock
  PROVE  /\ DOMAIN SprReq = 0 .. 2 /\ DOMAIN SprReq' = 0 .. 2
         /\ \A i \in DOMAIN SprReq : SprReq[i].cyc /\ ~Acked(spr, i) => SprReq'[i] = SprReq[i]
<1>1. SprReq[0] = e1 /\ SprReq[1] = CpuTo("spr") /\ SprReq[2] = M0
  BY DEF SprReq
<1>2. SprReq'[0] = e1' /\ SprReq'[1] = CpuTo("spr")' /\ SprReq'[2] = M0'
  BY DEF SprReq
<1>3. e1.cyc /\ ~Acked(spr, 0) => e1' = e1
  BY DEF Clock, E1Next
<1>4. DOMAIN SprReq = 0 .. 2 /\ DOMAIN SprReq' = 0 .. 2
  BY DEF SprReq
<1> QED BY <1>1, <1>2, <1>3, <1>4, SprCpuHeld, M0Held DEF M0Ack

\* So do those to the endpoint buffer's.
LEMMA EpbReqHeld ==
  ASSUME IobufInv, Clock
  PROVE  /\ DOMAIN EpbReq = 0 .. 1 /\ DOMAIN EpbReq' = 0 .. 1
         /\ \A i \in DOMAIN EpbReq : EpbReq[i].cyc /\ ~Acked(epb, i) => EpbReq'[i] = EpbReq[i]
<1>1. EpbReq[0] = CpuTo("epb") /\ EpbReq[1] = M1
  BY DEF EpbReq
<1>2. EpbReq'[0] = CpuTo("epb")' /\ EpbReq'[1] = M1'
  BY DEF EpbReq
<1>3. DOMAIN EpbReq = 0 .. 1 /\ DOMAIN EpbReq' = 0 .. 1
  BY DEF EpbReq
<1> QED BY <1>1, <1>2, <1>3, EpbCpuHeld, M1Held DEF M1Ack

-----------------------------------------------------------------------------
(* The invariant is kept. *)

\* Reset establishes the invariant.
LEMMA InvInit == Init => IobufInv
<1> SUFFICES ASSUME Init PROVE IobufInv
  OBVIOUS
<1>1. /\ spr = [sel |-> Nobody, busy |-> FALSE, bus |-> NoRequest, ack |-> FALSE, rdata |-> NoData]
      /\ epb = [sel |-> Nobody, busy |-> FALSE, bus |-> NoRequest, ack |-> FALSE, rdata |-> NoData]
  BY DEF Init, ArbiterInit
<1>2. ArbiterShape(spr) /\ ArbiterShape(epb) /\ ~spr.busy /\ ~epb.busy
  BY <1>1 DEF ArbiterShape
<1>3. CpuShape /\ cpu.to = "none" /\ cpu.at = "idle"
  BY DEF Init, CpuInit, CpuShape, Registers
<1>4. /\ dma.state = "idle" /\ ~dma.go /\ ~dma.ack /\ ~dma.doWrite
      /\ ~bridge.ramRdy /\ ~bridge.rdy
  BY DEF Init, DmaInit, BridgeInit
<1> QED BY <1>2, <1>3, <1>4 DEF IobufInv, Granted, OneAnswer, EngineWatched

\* A cycle keeps what is granted in step with what is asked.
LEMMA ArbitersKept ==
  ASSUME IobufInv, Clock
  PROVE  (ArbiterShape(spr) /\ ArbiterShape(epb) /\ Granted(spr, SprReq) /\ Granted(epb, EpbReq))'
<1>1. spr' = NextArbiter(spr, SprReq, sram) /\ epb' = NextArbiter(epb, EpbReq, ebuf)
  BY DEF Clock
<1>2. ArbiterShape(spr) /\ Granted(spr, SprReq) /\ ArbiterShape(epb) /\ Granted(epb, EpbReq)
  BY DEF IobufInv
<1>3. ArbiterShape(spr') /\ Granted(spr', SprReq')
  <2>1. DOMAIN SprReq \subseteq 0 .. 2
    BY SprReqHeld
  <2> QED BY <1>1, <1>2, <2>1, SprReqHeld, ArbiterStep
<1>4. ArbiterShape(epb') /\ Granted(epb', EpbReq')
  <2>1. DOMAIN EpbReq \subseteq 0 .. 2
    BY EpbReqHeld
  <2> QED BY <1>1, <1>2, <2>1, EpbReqHeld, ArbiterStep
<1> QED BY <1>3, <1>4 DEF ArbiterShape, Granted

\* A cycle leaves the processor at most one answer, and that one it asked for.
LEMMA AnswersKept ==
  ASSUME IobufInv, Clock
  PROVE  CpuShape' /\ OneAnswer'
<1>1. CpuShape /\ OneAnswer /\ cpu' \in CpuNext /\ dma' = DmaNext /\ bridge' = BridgeNext
  BY DEF IobufInv, Clock
<1>2. CpuShape'
  BY <1>1, CpuMoves
<1>3. bridge'.ramRdy => cpu'.to = "ram"
  <2>1. bridge'.ramRdy => cpu.to = "ram" /\ ~PbReady
    BY <1>1 DEF BridgeNext, PbReady, OneAnswer
  <2> QED BY <1>1, <2>1, CpuMoves
<1>4. WbAck => cpu.to \in {"spr", "epb", "dma"} /\ ~bridge.rdy /\ cpu' = cpu
  <2>1. WbAck => cpu.to \in {"spr", "epb", "dma"} /\ ~bridge.rdy
    BY AnswerIsAsked DEF WbAck, WbCyc, WbCycRst
  <2>2. WbAck => ~PbReady
    BY <1>1, <2>1 DEF PbReady, OneAnswer
  <2> QED BY <1>1, <2>1, <2>2, CpuMoves
<1>5. bridge'.rdy => cpu'.to \in {"spr", "epb", "dma"}
  BY <1>1, <1>4 DEF BridgeNext
<1>6. dma'.ack => cpu' = cpu /\ cpu.to = "dma" /\ ~bridge'.rdy
  <2>1. dma'.ack => ~dma.ack /\ WbCyc("dma")
    BY <1>1 DEF DmaNext
  <2>2. dma'.ack => ~WbAck
    BY <2>1, AnswerIsAsked DEF WbAck, WbCyc
  <2>3. dma'.ack => cpu' = cpu /\ cpu.to = "dma"
    BY <2>1, <2>2, CpuHeld DEF WbCyc
  <2> QED BY <1>1, <2>2, <2>3 DEF BridgeNext
<1>7. dma'.doWrite => dma'.ack /\ cpu.we
  BY <1>1 DEF DmaNext
<1>8. dma'.ack /\ cpu.at = "poll" => dma'.doRead
  BY <1>1, <1>6 DEF DmaNext, CpuShape, Reg
<1> QED BY <1>2, <1>3, <1>5, <1>6, <1>7, <1>8 DEF OneAnswer

\* A cycle leaves a running engine polled and its registers alone.
LEMMA EngineKept ==
  ASSUME IobufInv, Clock
  PROVE  EngineWatched'
<1>1. /\ CpuShape /\ OneAnswer /\ EngineWatched
      /\ cpu' \in CpuNext /\ dma' = DmaNext /\ bridge' = BridgeNext
  BY DEF IobufInv, Clock
<1>2. /\ dma'.state = DmaState /\ dma'.go = RegWrite(0)
      /\ dma'.doWrite = (~dma.ack /\ WbCyc("dma") /\ cpu.we)
      /\ bridge'.rdy = WbAck /\ bridge'.busy = (~WbCycRst /\ BusyRead)
  BY <1>1 DEF DmaNext, BridgeNext
<1>3. DmaState \in {"idle", "read", "write"}
  BY <1>1 DEF DmaState, EngineWatched
\* The go bit: the engine was idle, and the processor waits for its answer.
<1>4. RegWrite(0) => /\ cpu' = cpu /\ cpu.to = "dma" /\ cpu.at = "go" /\ WbAck /\ dma.ack
                     /\ DmaState = "idle"
  <2>1. RegWrite(0) => dma.ack /\ cpu.we /\ cpu.addr = 0 /\ cpu.to = "dma" /\ ~bridge.rdy
    BY <1>1 DEF RegWrite, OneAnswer
  <2>2. ASSUME RegWrite(0) PROVE cpu.at = "go"
    <3>1. cpu.at \in Registers /\ cpu.addr = Reg[cpu.at] /\ cpu.we = (cpu.at # "poll")
      BY <1>1, <2>1, <2>2 DEF CpuShape
    <3>2. cpu.at # "poll"
      BY <3>1, <2>1, <2>2, Zenon
    <3> QED BY <3>1, <3>2, <2>1, <2>2 DEF Reg, Registers
  <2>3. RegWrite(0) => ~PbReady
    BY <1>1, <2>1 DEF PbReady, OneAnswer
  <2>4. RegWrite(0) => cpu' = cpu
    BY <1>1, <2>1, <2>3, CpuMoves
  <2>5. RegWrite(0) => dma.state = "idle" /\ ~dma.go
    BY <1>1, <2>1, <2>2 DEF EngineWatched
  <2>6. RegWrite(0) => DmaState = "idle"
    BY <2>5 DEF DmaState
  <2> QED BY <2>1, <2>2, <2>4, <2>6 DEF WbAck
\* The engine is running, or starts: the firmware goes on polling.
<1>5. DmaState # "idle" => cpu'.at = "poll" /\ ~dma'.doWrite /\ ~RegWrite(0)
  <2>1. CASE dma.go
    <3>1. PbReady /\ WbCycRst /\ ~RegWrite(0)
      BY <1>1, <2>1 DEF EngineWatched, PbReady, WbCycRst, RegWrite
    <3>2. cpu'.at = "poll"
      BY <1>1, <2>1, <3>1, CpuMoves DEF EngineWatched
    <3> QED BY <1>2, <3>1, <3>2 DEF WbCyc
  <2>2. CASE dma.state # "idle"
    <3>1. cpu.at = "poll" /\ ~dma.doWrite
      BY <1>1, <2>2 DEF EngineWatched
    <3>2. cpu.to = "dma" => ~cpu.we
      BY <1>1, <3>1 DEF CpuShape
    <3>3. cpu'.at = "poll"
      <4>1. CASE cpu.to = "dma" /\ ~bridge.rdy
        <5>1. ~PbReady
          BY <1>1, <4>1 DEF PbReady, OneAnswer
        <5> QED BY <1>1, <3>1, <4>1, <5>1, CpuMoves
      <4>2. CASE cpu.to = "dma" /\ bridge.rdy
        <5>1. bridge.busy
          BY <1>1, <2>2, <3>1, <4>2 DEF EngineWatched
        <5> QED BY <1>1, <3>1, <5>1, CpuMoves
      <4>3. CASE cpu.to # "dma"
        BY <1>1, <3>1, <4>3, CpuMoves
      <4> QED BY <4>1, <4>2, <4>3
    <3> QED BY <1>2, <3>1, <3>2, <3>3 DEF RegWrite, WbCyc
  <2>3. CASE ~dma.go /\ dma.state = "idle"
    BY <2>3 DEF DmaState
  <2> QED BY <2>1, <2>2, <2>3
\* A poll answered with "idle" was answered by an idle engine.
<1>6. cpu'.at = "poll" /\ cpu'.to = "dma" /\ bridge'.rdy /\ ~bridge'.busy => DmaState = "idle"
  <2> SUFFICES ASSUME cpu'.at = "poll", cpu'.to = "dma", WbAck, ~(~WbCycRst /\ BusyRead)
               PROVE  DmaState = "idle"
    BY <1>2
  <2>1. cpu.to \in {"spr", "epb", "dma"} /\ ~bridge.rdy
    BY AnswerIsAsked DEF WbAck, WbCyc, WbCycRst
  <2>2. ~PbReady
    BY <1>1, <2>1 DEF PbReady, OneAnswer
  <2>3. cpu' = cpu
    BY <1>1, <2>1, <2>2, CpuMoves
  <2>4. dma.ack
    BY <2>3, AnswerIsAsked DEF WbAck, WbCyc
  <2>5. dma.doRead /\ ~WbCycRst
    BY <1>1, <2>1, <2>3, <2>4 DEF OneAnswer, WbCycRst
  <2>6. dma.state = "idle" /\ ~dma.go
    BY <1>1, <2>3, <2>5 DEF BusyRead, EngineWatched
  <2> QED BY <2>6 DEF DmaState
<1>7. RegWrite(0) => ~dma'.doWrite
  BY <1>2, <1>4
<1> QED BY <1>2, <1>3, <1>4, <1>5, <1>6, <1>7 DEF EngineWatched

\* A stutter changes none of it.
LEMMA InvStays == IobufInv /\ UNCHANGED vars => IobufInv'
<1> SUFFICES ASSUME IobufInv, UNCHANGED vars PROVE IobufInv'
  OBVIOUS
<1> QED BY DEF IobufInv, vars, ArbiterShape, Granted, SprReq, EpbReq, CpuTo, WbCyc, WbCycRst,
           M0, M1, M0Cyc, M1Cyc, CpuShape, OneAnswer, EngineWatched

\* Every clock cycle keeps the invariant.
LEMMA InvStep == IobufInv /\ [Clock]_vars => IobufInv'
<1>1. IobufInv /\ Clock => IobufInv'
  BY ArbitersKept, AnswersKept, EngineKept DEF IobufInv
<1> QED BY <1>1, InvStays

-----------------------------------------------------------------------------
(* What a transfer copies *)

\* An arbiter's slave answers in the cycle after it is addressed, with what it
\* held there, and nobody else is granted meanwhile.
LEMMA SlaveStep ==
  ASSUME NEW arb, NEW req, NEW mem, ArbiterShape(arb),
         NextArbiter(arb, req, mem).ack
  PROVE  /\ arb.busy /\ ~arb.ack
         /\ NextArbiter(arb, req, mem).sel = arb.sel
         /\ NextArbiter(arb, req, mem).rdata = mem[arb.bus.addr]
<1> DEFINE s == Slave(arb, mem)
<1>1. s.ack = (arb.busy /\ ~arb.ack) /\ s.rdata = mem[arb.bus.addr]
  BY DEF Slave, ArbiterShape
<1>2. NextArbiter(arb, req, mem) = [Arbitrated(arb, req) EXCEPT !.ack = s.ack, !.rdata = s.rdata]
  BY DEF NextArbiter
<1>3. arb.busy /\ ~arb.ack
  <2>1. Arbitrated(arb, req) = [sel |-> Arbitrated(arb, req).sel, busy |-> Arbitrated(arb, req).busy,
            bus |-> Arbitrated(arb, req).bus, ack |-> arb.ack, rdata |-> arb.rdata]
    BY DEF Arbitrated, ArbiterShape
  <2> HIDE DEF s
  <2>2. NextArbiter(arb, req, mem).ack = s.ack
    BY <1>2, <2>1
  <2> QED BY <1>1, <2>2
<1>4. Arbitrated(arb, req) = arb
  BY <1>3 DEF Arbitrated, Reselect
<1>5. NextArbiter(arb, req, mem) = [sel |-> arb.sel, busy |-> arb.busy, bus |-> arb.bus,
          ack |-> s.ack, rdata |-> s.rdata]
  <2>1. NextArbiter(arb, req, mem) = [arb EXCEPT !.ack = s.ack, !.rdata = s.rdata]
    BY <1>2, <1>4
  <2> HIDE DEF s
  <2> QED BY <2>1, SlaveFields DEF ArbiterShape
<1> QED BY <1>1, <1>3, <1>5

\* The E1 data memory: only the E1 core's word and the one the engine writes
\* change, and the engine is answered what it asked.
LEMMA SprStep ==
  ASSUME IobufInv, CpuLegal, MemShape, Clock
  PROVE  /\ DOMAIN sram' = Words
         /\ \A w \in Words \ {E1Word} :
              \/ sram'[w] = sram[w]
              \/ dma.state = "write" /\ dma.dir = 1 /\ w = dma.a0 /\ sram'[w] = dma.data
         /\ M0Ack' => M0Cyc /\ ~M0Ack /\ spr'.rdata = sram[dma.a0]
         /\ M0Ack' /\ dma.dir = 1 /\ dma.a0 \in Words => sram'[dma.a0] = dma.data
<1>1. /\ spr' = NextArbiter(spr, SprReq, sram) /\ sram' = Written(spr, sram)
      /\ ArbiterShape(spr) /\ Granted(spr, SprReq)
  BY DEF Clock, IobufInv
<1>f. /\ M0.cyc = M0Cyc /\ M0.addr = dma.a0 /\ M0.we = (dma.dir = 1) /\ M0.data = dma.data
      /\ CpuTo("spr").cyc = WbCyc("spr") /\ CpuTo("spr").we = cpu.we
  BY DEF M0, CpuTo
<1>r. /\ DOMAIN SprReq = {0, 1, 2}
      /\ SprReq[0] = e1 /\ SprReq[1] = CpuTo("spr") /\ SprReq[2] = M0
  BY DEF SprReq
<1>2. spr.busy => \/ spr.bus = e1
                  \/ spr.bus = CpuTo("spr") /\ cpu.to = "spr"
                  \/ spr.bus = M0 /\ M0Cyc
  <2>1. spr.busy => spr.sel \in DOMAIN SprReq /\ SprReq[spr.sel].cyc /\ spr.bus = SprReq[spr.sel]
    BY <1>1 DEF Granted
  <2>2. spr.busy => spr.sel = 0 \/ spr.sel = 1 \/ spr.sel = 2
    BY <2>1, <1>r
  <2>3. spr.busy /\ spr.sel = 0 => spr.bus = e1
    BY <2>1, <1>r, Zenon
  <2>4. spr.busy /\ spr.sel = 1 => spr.bus = CpuTo("spr") /\ CpuTo("spr").cyc
    BY <2>1, <1>r, Zenon
  <2>5. spr.busy /\ spr.sel = 2 => spr.bus = M0 /\ M0.cyc
    BY <2>1, <1>r, Zenon
  <2> QED BY <2>2, <2>3, <2>4, <2>5, <1>f DEF WbCyc
<1>3. DOMAIN sram' = Words
  BY <1>1 DEF Written, MemShape
<1>4. ASSUME NEW w \in Words \ {E1Word}, sram'[w] # sram[w]
      PROVE  dma.state = "write" /\ dma.dir = 1 /\ w = dma.a0 /\ sram'[w] = dma.data
  <2>1. /\ spr.busy /\ spr.bus.we /\ w = spr.bus.addr /\ sram'[w] = spr.bus.data
    BY <1>1, <1>4 DEF Written, MemShape
  <2>2. spr.bus # e1
    BY <1>4, <2>1 DEF MemShape, E1Offers, NoRequest
  <2>3. ~(spr.bus = CpuTo("spr") /\ cpu.to = "spr")
    BY <1>f, <2>1 DEF CpuLegal
  <2>4. spr.bus = M0 /\ M0Cyc
    BY <1>2, <2>1, <2>2, <2>3
  <2>5. dma.dir = 1 /\ w = dma.a0 /\ sram'[w] = dma.data
    BY <1>f, <2>1, <2>4
  <2> QED BY <2>4, <2>5 DEF M0Cyc
<1>5. ASSUME M0Ack'
      PROVE  /\ M0Cyc /\ ~M0Ack /\ spr'.rdata = sram[dma.a0]
             /\ dma.dir = 1 /\ dma.a0 \in Words => sram'[dma.a0] = dma.data
  <2>1. spr'.sel = 2 /\ spr'.ack
    BY <1>5 DEF M0Ack, Acked
  <2>2. spr.busy /\ ~spr.ack /\ spr.sel = 2 /\ spr'.rdata = sram[spr.bus.addr]
    BY <1>1, <2>1, SlaveStep
  <2>3. spr.bus = M0 /\ M0Cyc
    <3>1. SprReq[spr.sel].cyc /\ spr.bus = SprReq[spr.sel]
      BY <1>1, <2>2 DEF Granted
    <3> QED BY <1>f, <1>r, <2>2, <3>1
  <2>4. ~M0Ack /\ spr'.rdata = sram[dma.a0]
    BY <1>f, <2>2, <2>3 DEF M0Ack, Acked
  <2>5. ASSUME dma.dir = 1, dma.a0 \in Words PROVE sram'[dma.a0] = dma.data
    <3>1. spr.bus.we /\ spr.bus.addr = dma.a0 /\ spr.bus.data = dma.data
      BY <1>f, <2>3, <2>5
    <3>2. sram' = [sram EXCEPT ![dma.a0] = dma.data]
      BY <1>1, <2>2, <3>1 DEF Written
    <3> QED BY <2>5, <3>2 DEF MemShape
  <2> QED BY <2>3, <2>4, <2>5
<1> QED BY <1>3, <1>4, <1>5

\* The EP buffer: the same with the processor's word.
LEMMA EpbStep ==
  ASSUME IobufInv, CpuLegal, MemShape, Clock
  PROVE  /\ DOMAIN ebuf' = Words
         /\ \A w \in Words \ {CpuWord} :
              \/ ebuf'[w] = ebuf[w]
              \/ dma.state = "write" /\ dma.dir = 0 /\ w = dma.a1 /\ ebuf'[w] = dma.data
         /\ M1Ack' => M1Cyc /\ ~M1Ack /\ epb'.rdata = ebuf[dma.a1]
         /\ M1Ack' /\ dma.dir = 0 /\ dma.a1 \in Words => ebuf'[dma.a1] = dma.data
<1>1. /\ epb' = NextArbiter(epb, EpbReq, ebuf) /\ ebuf' = Written(epb, ebuf)
      /\ ArbiterShape(epb) /\ Granted(epb, EpbReq)
  BY DEF Clock, IobufInv
<1>f. /\ M1.cyc = M1Cyc /\ M1.addr = dma.a1 /\ M1.we = (dma.dir = 0) /\ M1.data = dma.data
      /\ CpuTo("epb").cyc = WbCyc("epb") /\ CpuTo("epb").addr = cpu.addr
  BY DEF M1, CpuTo
<1>r. /\ DOMAIN EpbReq = {0, 1} /\ EpbReq[0] = CpuTo("epb") /\ EpbReq[1] = M1
  BY DEF EpbReq
<1>2. epb.busy => \/ epb.bus = CpuTo("epb") /\ cpu.to = "epb"
                  \/ epb.bus = M1 /\ M1Cyc
  <2>1. epb.busy => epb.sel \in DOMAIN EpbReq /\ EpbReq[epb.sel].cyc /\ epb.bus = EpbReq[epb.sel]
    BY <1>1 DEF Granted
  <2>2. epb.busy => epb.sel = 0 \/ epb.sel = 1
    BY <2>1, <1>r
  <2>4. epb.busy /\ epb.sel = 0 => epb.bus = CpuTo("epb") /\ CpuTo("epb").cyc
    BY <2>1, <1>r, Zenon
  <2>5. epb.busy /\ epb.sel = 1 => epb.bus = M1 /\ M1.cyc
    BY <2>1, <1>r, Zenon
  <2> QED BY <2>2, <2>4, <2>5, <1>f DEF WbCyc
<1>3. DOMAIN ebuf' = Words
  BY <1>1 DEF Written, MemShape
<1>4. ASSUME NEW w \in Words \ {CpuWord}, ebuf'[w] # ebuf[w]
      PROVE  dma.state = "write" /\ dma.dir = 0 /\ w = dma.a1 /\ ebuf'[w] = dma.data
  <2>1. /\ epb.busy /\ epb.bus.we /\ w = epb.bus.addr /\ ebuf'[w] = epb.bus.data
    BY <1>1, <1>4 DEF Written, MemShape
  <2>2. ~(epb.bus = CpuTo("epb") /\ cpu.to = "epb")
    BY <1>4, <1>f, <2>1 DEF CpuLegal
  <2>3. epb.bus = M1 /\ M1Cyc
    BY <1>2, <2>1, <2>2
  <2>4. dma.dir = 0 /\ w = dma.a1 /\ ebuf'[w] = dma.data
    BY <1>f, <2>1, <2>3
  <2> QED BY <2>3, <2>4 DEF M1Cyc
<1>5. ASSUME M1Ack'
      PROVE  /\ M1Cyc /\ ~M1Ack /\ epb'.rdata = ebuf[dma.a1]
             /\ dma.dir = 0 /\ dma.a1 \in Words => ebuf'[dma.a1] = dma.data
  <2>1. epb'.sel = 1 /\ epb'.ack
    BY <1>5 DEF M1Ack, Acked
  <2>2. epb.busy /\ ~epb.ack /\ epb.sel = 1 /\ epb'.rdata = ebuf[epb.bus.addr]
    BY <1>1, <2>1, SlaveStep
  <2>3. epb.bus = M1 /\ M1Cyc
    <3>1. EpbReq[epb.sel].cyc /\ epb.bus = EpbReq[epb.sel]
      BY <1>1, <2>2 DEF Granted
    <3> QED BY <1>f, <1>r, <2>2, <3>1
  <2>4. ~M1Ack /\ epb'.rdata = ebuf[dma.a1]
    BY <1>f, <2>2, <2>3 DEF M1Ack, Acked
  <2>5. ASSUME dma.dir = 0, dma.a1 \in Words PROVE ebuf'[dma.a1] = dma.data
    <3>1. epb.bus.we /\ epb.bus.addr = dma.a1 /\ epb.bus.data = dma.data
      BY <1>f, <2>3, <2>5
    <3>2. ebuf' = [ebuf EXCEPT ![dma.a1] = dma.data]
      BY <1>1, <2>2, <3>1 DEF Written
    <3> QED BY <2>5, <3>2 DEF MemShape
  <2> QED BY <2>3, <2>4, <2>5
<1> QED BY <1>3, <1>4, <1>5

\* The processor is in dma_exec or polls, and its transfer stays the same; what
\* it does next follows the order of dma.c.
LEMMA CpuSteps ==
  ASSUME CpuShape, CpuLegal, cpu' \in CpuNext
  PROVE  /\ cpu'.dir \in {0, 1}
         /\ cpu'.at \in Registers \union {"done"} => cpu'.n \in Lens
         /\ cpu'.to = "spr" => ~cpu'.we
         /\ cpu'.to = "epb" => cpu'.addr = CpuWord
         /\ cpu'.at \in {"setUsb", "go", "poll", "done"} => cpu'.dir = cpu.dir /\ cpu'.n = cpu.n
         /\ cpu'.at = "setUsb" => \/ cpu.at = "setUsb"
                                  \/ cpu.at = "setE1" /\ cpu.to = "dma" /\ PbReady
         /\ cpu'.at = "go" => \/ cpu.at = "go"
                              \/ cpu.at = "setUsb" /\ cpu.to = "dma" /\ PbReady
         /\ cpu'.at = "poll" => \/ cpu.at = "poll"
                                \/ cpu.at = "go" /\ cpu.to = "dma" /\ PbReady
         /\ cpu'.at = "done" => \/ cpu.at = "done"
                                \/ cpu.at = "poll" /\ cpu.to = "dma" /\ PbReady /\ ~bridge.busy
<1>1. CASE cpu.to # "none" /\ ~PbReady
  <2>1. cpu' = cpu
    BY <1>1 DEF CpuNext
  <2> QED BY <2>1 DEF CpuLegal
<1>2. CASE ~(cpu.to # "none" /\ ~PbReady)
  <2>1. PICK c \in Advanced : cpu' \in Access(c)
    BY <1>2 DEF CpuNext
  <2>2. c = [to |-> cpu.to, we |-> cpu.we, addr |-> cpu.addr, at |-> c.at, dir |-> c.dir, n |-> c.n]
        /\ c.dir \in {0, 1} /\ (c.at \in Registers \union {"done"} => c.n \in Lens)
        /\ (c.at \in {"setUsb", "go", "poll", "done"} => c.dir = cpu.dir /\ c.n = cpu.n)
        /\ (c.at = "setUsb" => cpu.at = "setUsb" \/ (cpu.at = "setE1" /\ cpu.to = "dma"))
        /\ (c.at = "go" => cpu.at = "go" \/ (cpu.at = "setUsb" /\ cpu.to = "dma"))
        /\ (c.at = "poll" => cpu.at = "poll" \/ (cpu.at = "go" /\ cpu.to = "dma"))
        /\ (c.at = "done" => cpu.at = "poll" /\ cpu.to = "dma" /\ ~bridge.busy)
    <3>1. CASE cpu.at \in {"idle", "done"}
      <4>1. Advanced = {[cpu EXCEPT !.at = "idle"]} \union {Called(d, n) : d \in {0, 1}, n \in Lens}
        BY <3>1, OrderDomain DEF Advanced
      <4>2. CASE c = [cpu EXCEPT !.at = "idle"]
        BY <4>2 DEF CpuShape, CpuLegal, Registers
      <4>3. CASE \E d \in {0, 1}, n \in Lens : c = Called(d, n)
        <5>1. PICK d \in {0, 1}, n \in Lens : c = Called(d, n)
          BY <4>3
        <5>2. c = [to |-> cpu.to, we |-> cpu.we, addr |-> cpu.addr, at |-> "setE1", dir |-> d, n |-> n]
          BY <5>1 DEF Called, CpuShape
        <5> QED BY <5>2
      <4> QED BY <2>1, <4>1, <4>2, <4>3
    <3>2. CASE cpu.at \in {"setE1", "setUsb", "go"}
      <4>1. c = [cpu EXCEPT !.at = IF cpu.to = "dma" THEN Order[@] ELSE @]
        BY <2>1, <3>2, OrderDomain DEF Advanced
      <4>2. Order["setE1"] = "setUsb" /\ Order["setUsb"] = "go" /\ Order["go"] = "poll"
        BY DEF Order
      <4>3. c.at = (IF cpu.to = "dma" THEN Order[cpu.at] ELSE cpu.at) /\ c.dir = cpu.dir /\ c.n = cpu.n
            /\ c = [to |-> cpu.to, we |-> cpu.we, addr |-> cpu.addr, at |-> c.at, dir |-> c.dir, n |-> c.n]
        BY <4>1 DEF CpuShape
      <4> QED BY <3>2, <4>2, <4>3 DEF CpuLegal, Registers
    <3>3. CASE cpu.at = "poll"
      <4>1. c = [cpu EXCEPT !.at = IF cpu.to = "dma" /\ ~bridge.busy THEN "done" ELSE "poll"]
        BY <2>1, <3>3, OrderDomain DEF Advanced
      <4>2. c.at = (IF cpu.to = "dma" /\ ~bridge.busy THEN "done" ELSE "poll")
            /\ c.dir = cpu.dir /\ c.n = cpu.n
            /\ c = [to |-> cpu.to, we |-> cpu.we, addr |-> cpu.addr, at |-> c.at, dir |-> c.dir, n |-> c.n]
        BY <4>1 DEF CpuShape
      <4> QED BY <3>3, <4>2 DEF CpuLegal, Registers
    <3> QED BY <3>1, <3>2, <3>3 DEF CpuShape, Registers
  <2>3. /\ cpu'.at = c.at /\ cpu'.dir = c.dir /\ cpu'.n = c.n
        /\ cpu'.to = "spr" => ~cpu'.we
        /\ cpu'.to = "epb" => cpu'.addr = CpuWord
    BY <2>1, <2>2 DEF Access
  <2> QED BY <1>2, <2>2, <2>3
<1> QED BY <1>1, <1>2

\* A transfer stays in both memories and clear of what others write there.
LEMMA TransferFits ==
  ASSUME CpuLegal, cpu.at \in Registers \union {"done"}
  PROVE  /\ cpu.n \in Int /\ cpu.n >= 2 /\ cpu.n <= LenMod + 1
         /\ E1Base \in Int /\ UsbBase \in Int /\ From \in Int /\ To \in Int
         /\ \A i \in 0 .. cpu.n - 1 :
              /\ From + i \in Words /\ From + i # (IF cpu.dir = 0 THEN E1Word ELSE CpuWord)
              /\ To + i \in Words /\ To + i # Racing
<1>1. cpu.n \in Lens /\ cpu.dir \in {0, 1} /\ LenMod \in Nat /\ Lens \subseteq 2 .. LenMod + 1
  BY IobufAssumption DEF CpuLegal
<1>l. \A n \in Lens :
        /\ n \in Int /\ n >= 2 /\ n <= LenMod + 1
        /\ E1Base .. E1Base + n - 1 \subseteq Words \ {E1Word}
        /\ UsbBase .. UsbBase + n - 1 \subseteq Words \ {CpuWord}
  <2> SUFFICES ASSUME NEW n \in Lens
               PROVE  /\ n \in Int /\ n >= 2 /\ n <= LenMod + 1
                      /\ E1Base .. E1Base + n - 1 \subseteq Words \ {E1Word}
                      /\ UsbBase .. UsbBase + n - 1 \subseteq Words \ {CpuWord}
    OBVIOUS
  <2>1. n \in 2 .. LenMod + 1
    BY <1>1
  <2>2. n \in Int /\ n >= 2 /\ n <= LenMod + 1
    BY <1>1, <2>1
  <2>3. /\ E1Base .. E1Base + n - 1 \subseteq Words \ {E1Word}
        /\ UsbBase .. UsbBase + n - 1 \subseteq Words \ {CpuWord}
    BY IobufAssumption, Zenon
  <2> QED BY <2>2, <2>3
<1>2. cpu.n \in Int /\ cpu.n >= 2 /\ cpu.n <= LenMod + 1
  BY <1>1, <1>l
<1>3. /\ E1Base .. E1Base + cpu.n - 1 \subseteq Words \ {E1Word}
      /\ UsbBase .. UsbBase + cpu.n - 1 \subseteq Words \ {CpuWord}
      /\ E1Base \in Int /\ UsbBase \in Int
  <2>1. E1Base \in Words /\ UsbBase \in Words /\ Words \subseteq Nat
    BY IobufAssumption
  <2>2. /\ E1Base .. E1Base + cpu.n - 1 \subseteq Words \ {E1Word}
        /\ UsbBase .. UsbBase + cpu.n - 1 \subseteq Words \ {CpuWord}
    BY <1>1, <1>l, Zenon
  <2> QED BY <2>1, <2>2
<1>4. \A i \in 0 .. cpu.n - 1 : /\ E1Base + i \in Words \ {E1Word}
                                /\ UsbBase + i \in Words \ {CpuWord}
  <2>1. \A i \in 0 .. cpu.n - 1 : /\ E1Base + i \in E1Base .. E1Base + cpu.n - 1
                                  /\ UsbBase + i \in UsbBase .. UsbBase + cpu.n - 1
    BY <1>2, <1>3
  <2> QED BY <1>3, <2>1
<1> QED BY <1>1, <1>2, <1>3, <1>4 DEF From, To, Racing

\* In a cycle in which the transfer does not change, its source stays and its
\* destination takes at most the word the engine is writing.
LEMMA MemStep ==
  ASSUME IobufInv, CopyInv, Clock, cpu'.dir = cpu.dir
  PROVE  /\ \A w \in Words \ {Racing} :
              \/ Dest'[w] = Dest[w]
              \/ /\ dma.state = "write" /\ Dest'[w] = dma.data
                 /\ w = IF cpu.dir = 0 THEN dma.a1 ELSE dma.a0
         /\ \A w \in Words : w # (IF cpu.dir = 0 THEN E1Word ELSE CpuWord) => Source'[w] = Source[w]
<1>1. CpuLegal /\ MemShape /\ Running /\ cpu.dir \in {0, 1}
  BY DEF CopyInv, CpuLegal
<1>2. dma.state = "write" => dma.dir = cpu.dir
  BY <1>1 DEF Running
<1>3. CASE cpu.dir = 0
  <2>1. Dest = ebuf /\ Dest' = ebuf' /\ Source = sram /\ Source' = sram' /\ Racing = CpuWord
    BY <1>3 DEF Dest, Source, Racing
  <2> QED BY <1>1, <1>2, <1>3, <2>1, SprStep, EpbStep
<1>4. CASE cpu.dir = 1
  <2>1. Dest = sram /\ Dest' = sram' /\ Source = ebuf /\ Source' = ebuf' /\ Racing = E1Word
    BY <1>4 DEF Dest, Source, Racing
  <2> QED BY <1>1, <1>2, <1>4, <2>1, SprStep, EpbStep
<1> QED BY <1>1, <1>3, <1>4

\* While the processor waits for the bus it stays where it is.
LEMMA CpuAnswered ==
  ASSUME IobufInv, Clock, bridge'.rdy
  PROVE  WbAck /\ cpu' = cpu
<1>1. WbAck
  BY DEF Clock, BridgeNext
<1>2. cpu.to \in {"spr", "epb", "dma"} /\ ~bridge.rdy
  BY <1>1, AnswerIsAsked DEF WbAck, WbCyc, WbCycRst
<1>3. ~PbReady
  BY <1>2 DEF PbReady, IobufInv, OneAnswer
<1>4. cpu' = cpu
  BY <1>2, <1>3, CpuMoves DEF IobufInv, Clock
<1> QED BY <1>1, <1>4

\* The registers of the engine after a clock edge.
LEMMA EngineFields ==
  ASSUME Clock
  PROVE  /\ dma'.state = DmaState /\ dma'.go = RegWrite(0)
         /\ dma'.dir = IF RegWrite(0) THEN cpu.dir ELSE dma.dir
         /\ dma'.len = IF RegWrite(0) THEN (cpu.n - 2) % LenMod
                       ELSE IF AckWr THEN dma.len - 1 ELSE dma.len
         /\ dma'.a0 = IF RegWrite(2) THEN E1Base ELSE IF AckWr THEN dma.a0 + 1 ELSE dma.a0
         /\ dma'.a1 = IF RegWrite(3) THEN UsbBase ELSE IF AckWr THEN dma.a1 + 1 ELSE dma.a1
         /\ dma'.data = IF AckRd THEN IF dma.dir = 1 THEN epb.rdata ELSE spr.rdata ELSE dma.data
         /\ dma'.ack = (~dma.ack /\ WbCyc("dma"))
         /\ dma'.doWrite = (~dma.ack /\ WbCyc("dma") /\ cpu.we)
         /\ want' = IF RegWrite(0) THEN Copied ELSE want
BY DEF Clock, DmaNext, AddrStep

\* An idle engine is not answered, and its registers change by writes only;
\* a write is the register dma.c is at.
LEMMA EngineIdle ==
  ASSUME IobufInv
  PROVE  /\ dma.state = "idle" => ~AckRd /\ ~AckWr
         /\ dma.doWrite => /\ cpu.to = "dma" /\ cpu.at \in {"setE1", "setUsb", "go"}
                           /\ cpu.addr = Reg[cpu.at] /\ dma.ack /\ ~bridge.rdy /\ dma.state = "idle"
         /\ RegWrite(0) <=> dma.doWrite /\ cpu.at = "go"
         /\ RegWrite(2) <=> dma.doWrite /\ cpu.at = "setE1"
         /\ RegWrite(3) <=> dma.doWrite /\ cpu.at = "setUsb"
<1>1. dma.state = "idle" => ~AckRd /\ ~AckWr
  BY EngineAnswer DEF AckRd, AckWr, M0Cyc, M1Cyc
<1>2. ASSUME dma.doWrite
      PROVE  /\ cpu.to = "dma" /\ cpu.at \in {"setE1", "setUsb", "go"}
             /\ cpu.addr = Reg[cpu.at] /\ dma.ack /\ ~bridge.rdy /\ dma.state = "idle"
  <2>1. cpu.to = "dma" /\ cpu.we /\ dma.ack /\ ~bridge.rdy
    BY <1>2 DEF IobufInv, OneAnswer
  <2>2. cpu.at \in Registers /\ cpu.we = (cpu.at # "poll") /\ cpu.addr = Reg[cpu.at]
    BY <2>1 DEF IobufInv, CpuShape
  <2>3. cpu.at # "poll"
    BY <2>1, <2>2, Zenon
  <2>4. dma.state = "idle"
    BY <1>2 DEF IobufInv, EngineWatched
  <2> QED BY <2>1, <2>2, <2>3, <2>4 DEF Registers
<1>3. Reg["setE1"] = 2 /\ Reg["setUsb"] = 3 /\ Reg["go"] = 0
  BY DEF Reg
<1> QED BY <1>1, <1>2, <1>3 DEF RegWrite

\* The order of dma.c, and the memories' size, through a cycle.
LEMMA LegalKept ==
  ASSUME IobufInv, CopyInv, Clock
  PROVE  CpuLegal' /\ MemShape' /\ AddrsSet'
<1>1. /\ CpuShape /\ OneAnswer /\ EngineWatched /\ CpuLegal /\ MemShape /\ AddrsSet
      /\ cpu' \in CpuNext /\ e1' \in E1Next
  BY DEF IobufInv, CopyInv, Clock
<1>2. CpuShape' /\ OneAnswer'
  BY AnswersKept
\* An access to the engine that is answered was a write, unless a poll.
<1>3. dma'.ack /\ cpu'.at # "poll" => dma'.doWrite
  <2> SUFFICES ASSUME dma'.ack, cpu'.at # "poll" PROVE dma'.doWrite
    OBVIOUS
  <2>1. ~dma.ack /\ WbCyc("dma")
    BY EngineFields
  <2>2. ~WbAck
    BY <2>1, AnswerIsAsked DEF WbAck, WbCyc
  <2>3. cpu' = cpu /\ cpu.to = "dma"
    BY <2>1, <2>2, CpuHeld DEF WbCyc
  <2>4. cpu.we = (cpu.at # "poll")
    BY <1>1, <2>3 DEF CpuShape
  <2>5. cpu.at # "poll"
    BY <2>3
  <2>6. cpu.we
    BY <2>4, <2>5, Zenon
  <2> QED BY <2>1, <2>6, EngineFields
<1>4. CpuLegal'
  BY <1>1, <1>3, CpuSteps DEF CpuLegal
<1>5. MemShape'
  <2>1. e1' \in E1Offers
    BY <1>1 DEF E1Next, MemShape
  <2> QED BY <1>1, <2>1, SprStep, EpbStep DEF MemShape
<1>6. ASSUME cpu'.to = "dma", bridge'.rdy, cpu'.at \in {"setE1", "setUsb", "go"}
      PROVE  cpu' = cpu /\ dma.doWrite
  <2>1. WbAck /\ cpu' = cpu
    BY <1>6, CpuAnswered
  <2>2. dma.ack
    BY <1>6, <2>1, AnswerIsAsked DEF WbAck, WbCyc
  <2> QED BY <1>1, <1>6, <2>1, <2>2 DEF CpuLegal
<1>7. PbReady /\ cpu.to = "dma" => bridge.rdy
  BY <1>1 DEF PbReady, OneAnswer
<1>8. AddrsSet'
  <2>1. dma.state = "idle" => ~AckWr
    BY EngineIdle
  <2>2. cpu.at \in {"setE1", "setUsb", "go"} => dma.state = "idle"
    BY <1>1 DEF EngineWatched
  <2>3. cpu'.at \in {"setUsb", "go"} => dma'.a0 = E1Base
    <3>1. cpu'.at \in {"setUsb", "go"} => dma.a0 = E1Base /\ dma.state = "idle"
      BY <1>1, <1>7, <2>2, CpuSteps DEF AddrsSet
    <3> QED BY <2>1, <3>1, EngineFields
  <2>4. cpu'.at = "go" => dma'.a1 = UsbBase
    <3>1. cpu'.at = "go" => dma.a1 = UsbBase /\ dma.state = "idle"
      BY <1>1, <1>7, <2>2, CpuSteps DEF AddrsSet
    <3> QED BY <2>1, <3>1, EngineFields
  <2>5. cpu'.at = "setE1" /\ cpu'.to = "dma" /\ bridge'.rdy => dma'.a0 = E1Base
    BY <1>6, EngineIdle, EngineFields
  <2>6. cpu'.at = "setUsb" /\ cpu'.to = "dma" /\ bridge'.rdy => dma'.a1 = UsbBase
    BY <1>6, EngineIdle, EngineFields
  <2>7. cpu'.at = "go" /\ cpu'.to = "dma" /\ bridge'.rdy => dma'.go
    BY <1>6, EngineIdle, EngineFields
  <2> QED BY <2>3, <2>4, <2>5, <2>6, <2>7 DEF AddrsSet
<1> QED BY <1>4, <1>5, <1>8

\* The write that starts a transfer notes what it has to become.
LEMMA TransferStarts ==
  ASSUME IobufInv, CopyInv, Clock, RegWrite(0)
  PROVE  Running' /\ Finished'
<1>1. /\ dma.doWrite /\ cpu.at = "go" /\ cpu.to = "dma" /\ dma.ack /\ ~bridge.rdy
      /\ dma.state = "idle" /\ ~AckRd /\ ~AckWr /\ ~dma.go
  <2>1. dma.doWrite /\ cpu.at = "go"
    BY EngineIdle
  <2>2. cpu.to = "dma" /\ dma.ack /\ ~bridge.rdy /\ dma.state = "idle" /\ ~AckRd /\ ~AckWr
    BY <2>1, EngineIdle
  <2> QED BY <2>1, <2>2 DEF IobufInv, EngineWatched
<1>2. cpu' = cpu
  <2>1. ~PbReady
    BY <1>1 DEF IobufInv, OneAnswer, PbReady
  <2> QED BY <1>1, <2>1, CpuMoves DEF IobufInv, Clock
<1>3. /\ CpuLegal /\ dma.a0 = E1Base /\ dma.a1 = UsbBase /\ cpu.dir \in {0, 1}
  BY <1>1 DEF CopyInv, AddrsSet, CpuLegal
<1>4. /\ cpu.n \in Int /\ cpu.n >= 2 /\ cpu.n <= LenMod + 1 /\ LenMod \in Nat
      /\ E1Base \in Int /\ UsbBase \in Int /\ From \in Int /\ To \in Int
      /\ \A i \in 0 .. cpu.n - 1 :
           /\ From + i \in Words /\ From + i # (IF cpu.dir = 0 THEN E1Word ELSE CpuWord)
           /\ To + i \in Words /\ To + i # Racing
  BY <1>1, <1>3, TransferFits, IobufAssumption DEF Registers
<1>5. (cpu.n - 2) % LenMod = cpu.n - 2
  BY <1>4
<1>6. /\ dma'.state = "idle" /\ dma'.go /\ dma'.dir = cpu.dir /\ dma'.len = cpu.n - 2
      /\ dma'.a0 = E1Base /\ dma'.a1 = UsbBase /\ want' = Copied
  <2>1. ~RegWrite(2) /\ ~RegWrite(3)
    BY <1>1, EngineIdle
  <2>2. DmaState = "idle"
    BY <1>1 DEF DmaState
  <2> QED BY <1>1, <1>3, <1>5, <2>1, <2>2, EngineFields
<1>7. Copied = [w \in Words |-> IF w - To \in 0 .. cpu.n - 1 THEN Source[w - To + From] ELSE Dest[w]]
  BY DEF Copied, From, To
<1>8. /\ From' = From /\ To' = To /\ Racing' = Racing /\ Copies' = 0
  BY <1>2, <1>4, <1>6 DEF From, To, Racing, Copies
<1>9. \A w \in Words \ {Racing} : Dest'[w] = Dest[w]
  BY <1>1, <1>2, MemStep
<1>10. \A i \in 0 .. cpu.n - 1 : Source'[From + i] = want'[To + i]
  <2> SUFFICES ASSUME NEW i \in 0 .. cpu.n - 1 PROVE Source'[From + i] = want'[To + i]
    OBVIOUS
  <2>1. From + i \in Words /\ To + i \in Words /\ Source'[From + i] = Source[From + i]
    BY <1>2, <1>4, MemStep
  <2>2. (To + i) - To = i /\ (To + i) - To + From = From + i
    BY <1>4
  <2>3. want'[To + i] = Source[From + i]
    BY <1>6, <1>7, <2>1, <2>2
  <2> QED BY <2>1, <2>3
<1>11. \A w \in Words \ {Racing} : w \notin To .. To + cpu.n - 1 => Dest'[w] = want'[w]
  <2> SUFFICES ASSUME NEW w \in Words \ {Racing}, w \notin To .. To + cpu.n - 1
               PROVE  Dest'[w] = want'[w]
    OBVIOUS
  <2>1. w \in Int
    BY IobufAssumption
  <2>2. ~(w - To \in 0 .. cpu.n - 1)
    BY <1>4, <2>1
  <2> QED BY <1>6, <1>7, <1>9, <2>2
<1>12. ~M0Ack' /\ ~M1Ack' /\ ~AckWr'
  <2>1. ~M0Ack' /\ ~M1Ack'
    BY <1>1, SprStep, EpbStep DEF M0Cyc, M1Cyc, CopyInv
  <2> QED BY <2>1 DEF AckWr
<1>13. Running'
  <2>1. /\ To' + Copies' = To /\ To' + cpu'.n - 1 = To + cpu.n - 1 /\ Copies' = 0
        /\ cpu'.n = cpu.n /\ E1Base + Copies' = E1Base /\ UsbBase + Copies' = UsbBase
    BY <1>2, <1>4, <1>8
  <2>2. 0 \in 0 .. cpu.n - 1 /\ cpu.n - 2 \in Int
    BY <1>4
  <2> QED BY <1>2, <1>6, <1>8, <1>10, <1>11, <1>12, <2>1, <2>2 DEF Running
<1>14. Finished'
  BY <1>1, <1>2 DEF Finished
<1> QED BY <1>13, <1>14

\* With no transfer under way none begins, and what is left stays.
LEMMA TransferOver ==
  ASSUME IobufInv, CopyInv, Clock, ~RegWrite(0), ~dma.go, dma.state = "idle"
  PROVE  Running' /\ Finished'
<1>1. CpuShape /\ CpuLegal /\ OneAnswer /\ AddrsSet /\ Finished /\ cpu' \in CpuNext
  BY DEF IobufInv, CopyInv, Clock
<1>2. dma'.state = "idle" /\ ~dma'.go /\ want' = want
  BY EngineFields DEF DmaState
<1>3. ASSUME cpu'.at \in {"poll", "done"}
      PROVE  /\ cpu'.dir = cpu.dir
             /\ (cpu.at = "poll" /\ dma.state = "idle") \/ cpu.at = "done"
  <2>1. ~(cpu.at = "go" /\ cpu.to = "dma" /\ PbReady)
    BY <1>1 DEF AddrsSet, OneAnswer, PbReady
  <2> QED BY <1>1, <1>3, <2>1, CpuSteps
<1>4. Finished'
  <2> SUFFICES ASSUME cpu'.at \in {"poll", "done"}, NEW w \in Words \ {Racing'}
               PROVE  Dest'[w] = want'[w]
    BY DEF Finished
  <2>1. Racing' = Racing /\ Dest[w] = want[w]
    BY <1>1, <1>3 DEF Racing, Finished
  <2>2. Dest'[w] = Dest[w]
    BY <1>3, <2>1, MemStep
  <2> QED BY <1>2, <2>1, <2>2
<1> QED BY <1>2, <1>4 DEF Running

\* A transfer under way reads the next word, or writes it, or is over with the
\* last.
LEMMA TransferRuns ==
  ASSUME IobufInv, CopyInv, Clock, dma.go \/ dma.state # "idle"
  PROVE  Running' /\ Finished'
<1> DEFINE k == Copies
<1>1. /\ CpuShape /\ CpuLegal /\ OneAnswer /\ EngineWatched /\ cpu' \in CpuNext
      /\ EngineWatched'
  BY EngineKept DEF IobufInv, CopyInv, Clock
<1>2. /\ dma.dir = cpu.dir /\ dma.len \in Int /\ k \in 0 .. cpu.n - 1
      /\ dma.a0 = E1Base + k /\ dma.a1 = UsbBase + k
      /\ \A i \in k .. cpu.n - 1 : Source[From + i] = want[To + i]
      /\ \A w \in Words \ {Racing} : w \notin To + k .. To + cpu.n - 1 => Dest[w] = want[w]
      /\ dma.state = "write" => dma.data = want[To + k]
      /\ M0Ack /\ dma.dir = 0 => spr.rdata = want[To + k]
      /\ M1Ack /\ dma.dir = 1 => epb.rdata = want[To + k]
  BY DEF CopyInv, Running
\* The processor goes from the go bit to polling, or polls.
<1>3. /\ ~dma.doWrite /\ cpu'.at \in {"poll", "done"} /\ cpu'.dir = cpu.dir /\ cpu'.n = cpu.n
      /\ cpu.at \in Registers
  <2>1. CASE dma.go
    <3>1. PbReady /\ ~dma.doWrite /\ cpu.at = "go" /\ cpu.to = "dma"
      BY <1>1, <2>1 DEF EngineWatched, PbReady
    <3>2. cpu'.at = "poll"
      BY <1>1, <3>1, CpuMoves
    <3> QED BY <1>1, <3>1, <3>2, CpuSteps DEF Registers
  <2>2. CASE dma.state # "idle"
    <3>1. cpu.at = "poll" /\ ~dma.doWrite
      BY <1>1, <2>2 DEF EngineWatched
    <3>2. cpu'.at \in {"poll", "done"}
      <4>1. CASE cpu.to # "none" /\ ~PbReady
        BY <1>1, <3>1, <4>1, CpuMoves
      <4>2. CASE ~(cpu.to = "dma" /\ ~bridge.busy)
        BY <1>1, <3>1, <4>2, CpuMoves
      <4>3. CASE cpu.to = "dma" /\ ~bridge.busy /\ PbReady
        <5>1. bridge.rdy
          BY <1>1, <4>3 DEF PbReady, OneAnswer
        <5> QED BY <1>1, <2>2, <3>1, <4>3, <5>1 DEF EngineWatched
      <4> QED BY <4>1, <4>2, <4>3
    <3> QED BY <1>1, <3>1, <3>2, CpuSteps DEF Registers
  <2> QED BY <2>1, <2>2
<1>4. /\ cpu.n \in Int /\ cpu.n >= 2 /\ cpu.dir \in {0, 1} /\ k \in Int /\ 0 <= k /\ k <= cpu.n - 1
      /\ E1Base \in Int /\ UsbBase \in Int /\ From \in Int /\ To \in Int
      /\ \A i \in 0 .. cpu.n - 1 :
           /\ From + i \in Words /\ From + i # (IF cpu.dir = 0 THEN E1Word ELSE CpuWord)
           /\ To + i \in Words /\ To + i # Racing
  <2>1. k \in Int /\ 0 <= k /\ k <= cpu.n - 1
    <3> HIDE DEF k
    <3>1. cpu.n \in Int
      BY <1>1, <1>3, TransferFits
    <3> QED BY <1>2, <3>1
  <2> QED BY <1>1, <1>3, <2>1, TransferFits DEF CpuLegal
<1>5. From' = From /\ To' = To /\ Racing' = Racing
  BY <1>3 DEF From, To, Racing
<1>6. /\ dma'.state = DmaState /\ ~dma'.go /\ dma'.dir = dma.dir /\ want' = want
      /\ dma'.len = IF AckWr THEN dma.len - 1 ELSE dma.len
      /\ dma'.a0 = IF AckWr THEN dma.a0 + 1 ELSE dma.a0
      /\ dma'.a1 = IF AckWr THEN dma.a1 + 1 ELSE dma.a1
      /\ dma'.data = IF AckRd THEN IF dma.dir = 1 THEN epb.rdata ELSE spr.rdata ELSE dma.data
  BY <1>3, EngineFields DEF RegWrite
\* The memories: the source stays, the destination takes the word being written.
<1>7. From + k \in Words /\ To + k \in Words /\ To + k # Racing
      /\ To + k = (IF cpu.dir = 0 THEN dma.a1 ELSE dma.a0)
      /\ From + k = (IF cpu.dir = 0 THEN dma.a0 ELSE dma.a1)
  <2>1. k \in 0 .. cpu.n - 1
    BY <1>2
  <2>2. From + k \in Words /\ To + k \in Words /\ To + k # Racing
    BY <1>4, <2>1
  <2> QED BY <1>2, <2>2 DEF From, To
<1>8. \A w \in Words \ {Racing} :
        Dest'[w] = Dest[w] \/ (dma.state = "write" /\ w = To + k /\ Dest'[w] = want[w])
  BY <1>2, <1>3, <1>7, MemStep
<1>9. \A i \in k .. cpu.n - 1 : Source'[From + i] = want'[To + i]
  <2> SUFFICES ASSUME NEW i \in k .. cpu.n - 1 PROVE Source'[From + i] = want'[To + i]
    OBVIOUS
  <2>1. i \in 0 .. cpu.n - 1
    BY <1>4
  <2>2. Source'[From + i] = Source[From + i]
    BY <1>3, <1>4, <2>1, MemStep
  <2> QED BY <1>2, <1>6, <2>2
<1>10. \A w \in Words \ {Racing} : w \notin To + k .. To + cpu.n - 1 => Dest'[w] = want'[w]
  <2> SUFFICES ASSUME NEW w \in Words \ {Racing}, w \notin To + k .. To + cpu.n - 1
               PROVE  Dest'[w] = want'[w]
    OBVIOUS
  <2> QED BY <1>2, <1>6, <1>8
\* What the engine is answered with in the next cycle.
<1>11. /\ AckRd \/ AckWr => ~M0Ack' /\ ~M1Ack'
       /\ dma.state = "idle" => ~M0Ack' /\ ~M1Ack'
       /\ M0Ack' /\ dma.dir = 0 => dma.state = "read" /\ spr'.rdata = want[To + k]
       /\ M1Ack' /\ dma.dir = 1 => dma.state = "read" /\ epb'.rdata = want[To + k]
       /\ AckWr' => Dest'[To + k] = want[To + k]
  <2>1. /\ M0Ack' => M0Cyc /\ ~M0Ack /\ spr'.rdata = sram[dma.a0]
        /\ M0Ack' /\ dma.dir = 1 /\ dma.a0 \in Words => sram'[dma.a0] = dma.data
        /\ M1Ack' => M1Cyc /\ ~M1Ack /\ epb'.rdata = ebuf[dma.a1]
        /\ M1Ack' /\ dma.dir = 0 /\ dma.a1 \in Words => ebuf'[dma.a1] = dma.data
    BY SprStep, EpbStep DEF CopyInv
  <2>2. M0Cyc => ~M1Cyc /\ dma.state # "idle"
    BY DEF M0Cyc, M1Cyc
  <2>3. M1Cyc => dma.state # "idle"
    BY DEF M1Cyc
  <2>4. AckRd \/ AckWr => ~M0Ack' /\ ~M1Ack'
    BY <2>1, <2>2, EngineAnswer DEF AckRd, AckWr
  <2>5. Source[From + k] = want[To + k]
    BY <1>2, <1>4
  <2>6. M0Ack' /\ dma.dir = 0 => dma.state = "read" /\ spr'.rdata = want[To + k]
    <3>1. dma.dir = 0 => sram[dma.a0] = Source[From + k]
      BY <1>2, <1>7 DEF Source
    <3> QED BY <2>1, <2>5, <3>1 DEF M0Cyc
  <2>7. M1Ack' /\ dma.dir = 1 => dma.state = "read" /\ epb'.rdata = want[To + k]
    <3>1. dma.dir = 1 => ebuf[dma.a1] = Source[From + k]
      BY <1>2, <1>7 DEF Source
    <3> QED BY <2>1, <2>5, <3>1 DEF M1Cyc
  <2>8. ASSUME AckWr' PROVE Dest'[To + k] = want[To + k]
    <3>1. \/ M0Ack' /\ dma.dir = 1
          \/ M1Ack' /\ dma.dir = 0
      BY <1>6, <2>8 DEF AckWr
    <3>2. CASE M0Ack' /\ dma.dir = 1
      <4>1. dma.state = "write" /\ dma.a0 = To + k /\ Dest' = sram'
        BY <1>2, <1>3, <1>7, <2>1, <3>2 DEF M0Cyc, Dest
      <4> QED BY <1>2, <1>7, <2>1, <3>2, <4>1
    <3>3. CASE M1Ack' /\ dma.dir = 0
      <4>1. dma.state = "write" /\ dma.a1 = To + k /\ Dest' = ebuf'
        BY <1>2, <1>3, <1>7, <2>1, <3>3 DEF M1Cyc, Dest
      <4> QED BY <1>2, <1>7, <2>1, <3>3, <4>1
    <3> QED BY <3>1, <3>2, <3>3
  <2> QED BY <2>1, <2>2, <2>3, <2>4, <2>6, <2>7, <2>8
\* The transfer goes on: with the same word, or with the next.
<1>12. ASSUME ~AckWr, dma'.state # "idle", dma'.state = "write" => dma'.data = want[To + k]
       PROVE  Running' /\ Finished'
  <2>1. Copies' = k
    BY <1>3, <1>6, <1>12 DEF Copies
  <2>2. /\ M0Ack' /\ dma'.dir = 0 => spr'.rdata = want[To + k]
        /\ M1Ack' /\ dma'.dir = 1 => epb'.rdata = want[To + k]
    BY <1>6, <1>11
  <2>3. dma'.dir = cpu'.dir /\ dma'.len \in Int /\ cpu'.n = cpu.n
        /\ dma'.a0 = E1Base + k /\ dma'.a1 = UsbBase + k /\ k \in 0 .. cpu.n - 1
    BY <1>2, <1>3, <1>6, <1>12
  <2> HIDE DEF k
  <2>4. Running'
    BY <1>5, <1>6, <1>9, <1>10, <1>11, <1>12, <2>1, <2>2, <2>3 DEF Running
  <2>5. Finished'
    BY <1>1, <1>12 DEF Finished, EngineWatched
  <2> QED BY <2>4, <2>5
<1>13. CASE dma.state # "write"
  <2>1. ~AckWr
    BY <1>13, EngineIdle, EngineAnswer, <1>1 DEF AckWr, M0Cyc, M1Cyc, EngineWatched
  <2>2. CASE dma.state = "idle"
    <3>1. DmaState = "read"
      BY <2>2 DEF DmaState
    <3> QED BY <1>6, <1>12, <2>1, <3>1
  <2>3. CASE dma.state = "read" /\ ~AckRd
    <3>1. DmaState = "read"
      BY <2>3 DEF DmaState
    <3> QED BY <1>6, <1>12, <2>1, <3>1
  <2>4. CASE dma.state = "read" /\ AckRd
    <3>1. DmaState = "write"
      BY <2>4 DEF DmaState
    <3>2. dma'.data = want[To + k]
      BY <1>2, <1>4, <1>6, <2>4 DEF AckRd
    <3> QED BY <1>6, <1>12, <2>1, <3>1, <3>2
  <2> QED BY <1>1, <1>13, <2>2, <2>3, <2>4 DEF EngineWatched
<1>14. CASE dma.state = "write"
  <2>1. ~AckRd
    BY <1>14, EngineAnswer DEF AckRd, M0Cyc, M1Cyc
  <2>2. CASE ~AckWr
    <3>1. DmaState = "write"
      BY <1>14, <2>2 DEF DmaState
    <3>2. dma'.data = want[To + k]
      BY <1>2, <1>6, <1>14, <2>1
    <3> QED BY <1>6, <1>12, <2>2, <3>1, <3>2
  <2>3. CASE AckWr
    <3>1. Dest[To + k] = want[To + k]
      BY <2>3 DEF CopyInv, Running
    <3>2. Dest'[To + k] = want[To + k]
      BY <1>7, <1>8, <3>1
    <3>3. \A w \in Words \ {Racing} : w \notin To + (k + 1) .. To + cpu.n - 1 => Dest'[w] = want'[w]
      <4> SUFFICES ASSUME NEW w \in Words \ {Racing}, w \notin To + (k + 1) .. To + cpu.n - 1
                   PROVE  Dest'[w] = want'[w]
        OBVIOUS
      <4>1. w \in Int
        BY IobufAssumption
      <4>2. w = To + k \/ w \notin To + k .. To + cpu.n - 1
        <5> HIDE DEF k
        <5> QED BY <1>4, <4>1
      <4> QED BY <1>6, <1>10, <3>2, <4>2
    <3>4. dma'.len = dma.len - 1 /\ Copies' = k + 1
      BY <1>2, <1>3, <1>4, <1>6, <2>3 DEF Copies
    <3>5. CASE LenLast
      <4>1. dma'.state = "idle"
        BY <1>6, <1>14, <2>3, <3>5 DEF DmaState
      <4>2. k = cpu.n - 1
        BY <1>2, <1>4, <3>5 DEF LenLast, Copies
      <4>3. \A w \in Words \ {Racing} : Dest'[w] = want'[w]
        <5> SUFFICES ASSUME NEW w \in Words \ {Racing} PROVE Dest'[w] = want'[w]
          OBVIOUS
        <5>1. w \notin To + (k + 1) .. To + cpu.n - 1
          BY <1>4, <4>2
        <5> QED BY <3>3, <5>1
      <4> QED BY <1>5, <1>6, <4>1, <4>3 DEF Running, Finished
    <3>6. CASE ~LenLast
      <4>1. dma'.state = "read"
        BY <1>6, <1>14, <2>3, <3>6 DEF DmaState
      <4>2. k + 1 \in 0 .. cpu.n - 1
        BY <1>2, <1>4, <3>6 DEF LenLast, Copies
      <4>3. \A i \in k + 1 .. cpu.n - 1 : Source'[From + i] = want'[To + i]
        <5> HIDE DEF k
        <5> QED BY <1>4, <1>9
      <4>4. ~M0Ack' /\ ~M1Ack' /\ ~AckWr'
        BY <1>11, <2>3 DEF AckWr
      <4>5. dma'.dir = cpu'.dir /\ dma'.len \in Int /\ cpu'.n = cpu.n
            /\ dma'.a0 = E1Base + (k + 1) /\ dma'.a1 = UsbBase + (k + 1)
        BY <1>2, <1>3, <1>4, <1>6, <2>3, <3>4
      <4> HIDE DEF k
      <4>6. Running'
        BY <1>5, <1>6, <3>3, <3>4, <4>1, <4>2, <4>3, <4>4, <4>5 DEF Running
      <4>7. Finished'
        BY <1>1, <4>1 DEF Finished, EngineWatched
      <4> QED BY <4>6, <4>7
    <3> QED BY <3>5, <3>6
  <2> QED BY <2>2, <2>3
<1> QED BY <1>13, <1>14

\* At reset no transfer is under way, and none was.
LEMMA CopyInit == Init => CopyInv
<1> SUFFICES ASSUME Init PROVE CopyInv
  OBVIOUS
<1>1. /\ cpu.to = "none" /\ cpu.at = "idle" /\ cpu.dir = 0
      /\ dma.state = "idle" /\ ~dma.go /\ ~dma.ack
  BY DEF Init, CpuInit, DmaInit
<1>2. DOMAIN sram = Words /\ DOMAIN ebuf = Words /\ e1 \in E1Offers
  BY DEF Init, E1Offers
<1> QED BY <1>1, <1>2 DEF CopyInv, CpuLegal, MemShape, AddrsSet, Running, Finished, Registers

\* Every clock cycle keeps it.
LEMMA CopyStep == IobufInv /\ CopyInv /\ [Clock]_vars => CopyInv'
<1>1. ASSUME IobufInv, CopyInv, Clock PROVE CopyInv'
  <2>1. Running' /\ Finished'
    <3>1. CASE dma.go \/ dma.state # "idle"
      BY <1>1, <3>1, TransferRuns
    <3>2. CASE ~dma.go /\ dma.state = "idle" /\ RegWrite(0)
      BY <1>1, <3>2, TransferStarts
    <3>3. CASE ~dma.go /\ dma.state = "idle" /\ ~RegWrite(0)
      BY <1>1, <3>3, TransferOver
    <3> QED BY <3>1, <3>2, <3>3
  <2> QED BY <1>1, <2>1, LegalKept DEF CopyInv
<1>2. ASSUME CopyInv, UNCHANGED vars PROVE CopyInv'
  BY <1>2 DEF CopyInv, vars, CpuLegal, MemShape, AddrsSet, Running, Finished, Copies, From, To,
     Racing, Source, Dest, M0Ack, M1Ack, AckWr, Acked
<1> QED BY <1>1, <1>2

-----------------------------------------------------------------------------
(* How long the E1 core waits *)

\* First in priority, the E1 core is chosen whenever it asks and was not just
\* served.
LEMMA E1First ==
  ASSUME NEW arb, NEW req, DOMAIN req = 0 .. 2, req[0].cyc, arb.sel # 0
  PROVE  SelNxt(arb, req) = 0
<1>1. 0 \in Waiting(arb, req) /\ Waiting(arb, req) \in SUBSET (0 .. 2)
  BY DEF Waiting
<1>2. \A i \in Waiting(arb, req) : (\A j \in Waiting(arb, req) : i <= j) <=> i = 0
  BY <1>1
<1> QED BY <1>1, <1>2 DEF SelNxt

LEMMA WaitInit == Init => WaitInv
  BY DEF Init, WaitInv, ArbiterInit, NoRequest, Nobody

LEMMA WaitStep == IobufInv /\ WaitInv /\ [Clock]_vars => WaitInv'
<1> SUFFICES ASSUME IobufInv, WaitInv, Clock PROVE WaitInv'
  BY DEF vars, WaitInv
<1>1. ArbiterShape(spr) /\ Granted(spr, SprReq) /\ ArbiterShape(spr') /\ Granted(spr', SprReq')
  BY InvStep DEF IobufInv
<1>2. /\ spr' = NextArbiter(spr, SprReq, sram)
      /\ e1Wait' = IF e1.cyc /\ ~Acked(spr, 0) THEN e1Wait + 1 ELSE 0
  BY DEF Clock
<1>3. DOMAIN SprReq = 0 .. 2 /\ SprReq[0] = e1 /\ SprReq'[0] = e1'
  BY DEF SprReq
<1>4. spr.ack \in BOOLEAN /\ spr.busy \in BOOLEAN /\ (spr.busy <=> spr.sel # Nobody)
  BY <1>1 DEF ArbiterShape
<1>5. /\ spr'.ack = (spr.busy /\ ~spr.ack)
      /\ spr'.sel = IF Reselect(spr) THEN SelNxt(spr, SprReq) ELSE spr.sel
  BY <1>1, <1>2 DEF NextArbiter, Slave, Arbitrated, ArbiterShape
<1>6. CASE e1.cyc /\ ~Acked(spr, 0)
  <2>1. e1' = e1 /\ e1Wait' = e1Wait + 1
    BY <1>2, <1>6 DEF Clock, E1Next
  <2>2. CASE spr.sel = 0
    <3>1. ~spr.ack /\ spr.busy
      BY <1>4, <1>6, <2>2 DEF Acked, Nobody
    <3>2. spr'.sel = 0 /\ spr'.ack
      BY <1>5, <2>2, <3>1 DEF Reselect
    <3> QED
      BY <1>6, <2>1, <2>2, <3>1, <3>2 DEF WaitInv
  <2>3. CASE spr.sel # 0 /\ Reselect(spr)
    <3>1. spr'.sel = 0
      BY <1>3, <1>5, <1>6, <2>3, E1First
    <3>2. e1Wait <= 1
      BY <1>4, <2>3 DEF WaitInv
    <3> QED
      BY <1>6, <2>1, <3>1, <3>2 DEF WaitInv
  <2>4. CASE spr.sel # 0 /\ ~Reselect(spr)
    <3>1. ~spr.ack /\ spr.busy
      BY <1>4, <2>4 DEF Reselect
    <3>2. spr'.sel # 0 /\ spr'.ack
      BY <1>5, <2>4, <3>1
    <3>3. e1Wait = 0
      BY <2>4, <3>1 DEF WaitInv
    <3> QED
      BY <1>6, <2>1, <3>2, <3>3 DEF WaitInv
  <2> QED
    BY <2>2, <2>3, <2>4
<1>7. CASE ~(e1.cyc /\ ~Acked(spr, 0))
  BY <1>2, <1>7 DEF WaitInv
<1> QED
  BY <1>6, <1>7

-----------------------------------------------------------------------------
(* Theorems *)

\* The inductive invariant of the bus: arbiters, processor and engine agree on
\* who asks what of whom (wb_arbiter.v:80-125, soc_picorv32_bridge.v:89-172,
\* wb_dma.v:86-206).
THEOREM BusInvariant == Spec => []IobufInv
<1> QED BY InvInit, InvStep, PTL DEF Spec

\* What a slave is working on is what the granted master still asks for, so an
\* answer goes to the one who asked (wb_arbiter.v:59-63, 113-123).
THEOREM GrantsHold == Spec => []GrantHolds
<1>1. IobufInv => GrantHolds
  <2> SUFFICES ASSUME IobufInv PROVE GrantHolds
    OBVIOUS
  <2>1. DOMAIN SprReq = 0 .. 2 /\ DOMAIN EpbReq = 0 .. 1
    BY DEF SprReq, EpbReq
  <2>2. spr.sel = 1 => CpuTo("spr").cyc
    BY DEF IobufInv, ArbiterShape, Granted, Nobody, SprReq
  <2>3. epb.sel = 0 => CpuTo("epb").cyc
    BY DEF IobufInv, ArbiterShape, Granted, Nobody, EpbReq
  <2>4. WbCyc("dma") => spr.sel # 1 /\ epb.sel # 0
    BY <2>2, <2>3 DEF CpuTo, WbCyc
  <2> QED BY <2>1, <2>4 DEF IobufInv, Granted, GrantHolds
<1> QED BY <1>1, BusInvariant, PTL

\* Where the firmware takes a transfer for done the engine is idle, although
\* its first poll follows the go bit at once and passes two registers
\* (dma.c:37-69, wb_dma.v:86-121, 187-206).
THEOREM DoneIsIdle == Spec => [](cpu.at = "done" => dma.state = "idle" /\ ~dma.go)
<1>1. IobufInv => (cpu.at = "done" => dma.state = "idle" /\ ~dma.go)
  BY DEF IobufInv, EngineWatched
<1> QED BY <1>1, BusInvariant, PTL

\* A transfer is exact: when the firmware takes it for done, every word of the
\* destination is what the source held when it began, and no other word was
\* touched, whatever the E1 core and the processor did meanwhile
\* (dma.c:37-69, wb_dma.v:86-206, soc_iobuf.v:127-228).
THEOREM CopiesExactly == Spec => []CopyExact
<1>1. Init => IobufInv /\ CopyInv
  BY InvInit, CopyInit
<1>2. IobufInv /\ CopyInv /\ [Clock]_vars => (IobufInv /\ CopyInv)'
  BY InvStep, CopyStep
<1>3. CopyInv => CopyExact
  <2> SUFFICES ASSUME CopyInv, cpu.at = "done", NEW w \in Words,
                      IF cpu.dir = 0 THEN w # CpuWord ELSE w # E1Word
               PROVE  Dest[w] = want[w]
    BY DEF CopyExact
  <2>1. w \in Words \ {Racing}
    BY DEF Racing
  <2> QED BY <2>1 DEF CopyInv, Finished
<1> QED BY <1>1, <1>2, <1>3, PTL DEF Spec

\* The E1 core is answered in time: it waits for one access of another master
\* at most (wb_arbiter.v:99-110).
THEOREM E1Answered == Spec => []E1WaitBounded
<1>1. Init => IobufInv /\ WaitInv
  BY InvInit, WaitInit
<1>2. IobufInv /\ WaitInv /\ [Clock]_vars => (IobufInv /\ WaitInv)'
  BY InvStep, WaitStep
<1>3. WaitInv => E1WaitBounded
  BY DEF WaitInv, E1WaitBounded, MaxWait
<1> QED BY <1>1, <1>2, <1>3, PTL DEF Spec

=============================================================================
