------------------------------ MODULE WbArbiter ------------------------------
(***************************************************************************)
(* The Wishbone arbiter (gateware/common/rtl/wb_arbiter.v): several masters *)
(* share one slave.  These are the registers of one arbiter and what they  *)
(* become at a clock edge, as operators: Iobuf has two of them.            *)
(*                                                                         *)
(* A request is what a master drives: cyc, addr, we, data.  An arbiter is  *)
(* the granted master (sel), whether the slave is addressed (busy) and the *)
(* registered request it sees (bus); ack and rdata are the slave's.        *)
(***************************************************************************)
EXTENDS Integers

Nobody == -1
NoData == <<"-">>
NoRequest == [cyc |-> FALSE, addr |-> 0, we |-> FALSE, data |-> NoData]

ArbiterInit == [sel |-> Nobody, busy |-> FALSE, bus |-> NoRequest, ack |-> FALSE, rdata |-> NoData]

Acked(arb, i) == arb.sel = i /\ arb.ack

\* Fault: the master just served is not left out.
WaitingAll(arb, req) == {i \in DOMAIN req : req[i].cyc}

\* Masters that ask, the one just served left out.
Waiting(arb, req) == {i \in DOMAIN req : req[i].cyc /\ arb.sel # i}

\* Fault: the last master wins.
SelLast(arb, req) ==
  IF Waiting(arb, req) = {} THEN Nobody
  ELSE CHOOSE i \in Waiting(arb, req) : \A j \in Waiting(arb, req) : j <= i

\* The priority encoder: the first master wins.
SelNxt(arb, req) ==
  IF Waiting(arb, req) = {} THEN Nobody
  ELSE CHOOSE i \in Waiting(arb, req) : \A j \in Waiting(arb, req) : i <= j

Reselect(arb) == arb.ack \/ ~arb.busy

Muxed(arb, req) == IF SelNxt(arb, req) = Nobody THEN NoRequest ELSE req[SelNxt(arb, req)]

Arbitrated(arb, req) ==
  IF Reselect(arb)
  THEN [arb EXCEPT !.sel = SelNxt(arb, req), !.busy = Waiting(arb, req) # {},
                   !.bus = Muxed(arb, req)]
  ELSE arb

=============================================================================
