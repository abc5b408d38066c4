------------------------------ MODULE E1Alarms ------------------------------
(***************************************************************************)
(* What the icE1usb tells about one E1 line: the alarm flags that e1_poll, *)
(* the line monitor and the data path of e1.c keep, the port's two LEDs    *)
(* and the RGB one, the modes and the alarm bit of the core's control      *)
(* registers, and the configuration requests and the error reports on the  *)
(* interrupt endpoint (usb_e1.c).                                          *)
(*                                                                         *)
(* The main loop handles USB (`usb'), then the port: e1_poll in four parts *)
(* (flags, reap, rx, tx), between which the line may change, and           *)
(* _usb_e1_run (run).  FIFOs and descriptors are those of E1Port: all that *)
(* is kept here of the descriptors is whether the firmware has none out    *)
(* (`none'), or the core has them (`core') or is done (`done'), and of the *)
(* RX FIFO whether there is room for a descriptor once it is emptied.      *)
(*                                                                         *)
(* Trouble of the kinds of an instance is rationed: MaxTrouble times the   *)
(* line changes, an error is counted, or the host stops the port or        *)
(* configures something; starting it, at first and after each stop, is     *)
(* free.                                                                   *)
(***************************************************************************)
EXTENDS Integers

CONSTANTS
  Lines,         \* what the line may be, see Line
  CountWrap,     \* values of an error counter (2^16)
  Troubles,      \* kinds of trouble, see Trouble
  MaxTrouble

\* No pulses; all ones; pulses without framing; framed, and with the far
\* end's alarm (the A bit) besides.
Line == {"silent", "ones", "noise", "framed", "alarmed"}

Trouble == {"line", "error", "stop", "config"}

ASSUME AlarmsAssumption ==
  /\ Lines \subseteq Line /\ CountWrap \in Nat \ {0}
  /\ Troubles \subseteq Trouble /\ MaxTrouble \in Nat

VARIABLES
  line, aligned,              \* the line, and E1_RX_SR_ALIGNED
  pc,
  running,                    \* usb_e1.c: altsetting 1 selected
  rxState, rxHeld, txState, txHeld,
  aBits,                      \* A bits of the frames waiting in the RX FIFO
  rxRoom,                     \* whether the emptied RX FIFO has room for a multiframe
  flags, count,               \* e1_state.errors, its counters as one
  cycle, pulses,              \* line monitor: cycle, rx_pulse until it is used
  led, rgb,                   \* e1_state.led; the RGB LED, its colour and blinking
  ctl, txCfg, rxCfg,          \* control transfer under way; e1_state.tx/rx.cr.cfg
  txCsr, rxCsr,               \* as last written to the core
  intEp, lastErr, host,       \* report in the endpoint, last sent, last received
  trouble

lineVars == <<line, aligned>>
pipeVars == <<rxState, rxHeld, txState, txHeld, aBits, rxRoom>>
monVars  == <<cycle, pulses>>
ledVars  == <<led, rgb>>
cfgVars  == <<ctl, txCfg, rxCfg>>
csrVars  == <<txCsr, rxCsr>>
repVars  == <<intEp, lastErr, host>>
vars     == <<lineVars, pc, running, pipeVars, flags, count, monVars, ledVars,
              cfgVars, csrVars, repVars, trouble>>

Flag == {"ALIGN_ERR", "LOS", "RAI", "AIS"}
Held == {"none", "core", "done"}
PipeState == {"IDLE", "STARTING", "RUN", "RECOVER", "SHUTDOWN"}

TxConfig == [mode : {"TRSP", "TS0_CRC_E"}, alarm : BOOLEAN]
RxConfig == {"BFA", "MFA"}

\* rx.cr.val and tx.cr.val, as _e1_update_cr_val leaves them: an idle receiver
\* looks for the far end's multiframes, an idle transmitter sends ones.
RxVal(state, cfg) == IF state = "IDLE" THEN "MFA" ELSE cfg

TxVal(state, cfg) == IF state = "IDLE" THEN [mode |-> "TRSP", alarm |-> FALSE] ELSE cfg

Err == [count |-> count, flags |-> flags]
Report == [count : 0 .. CountWrap - 1, flags : SUBSET Flag]
NoReport == [count |-> 0, flags |-> {}]

TxDefault == [mode |-> "TS0_CRC_E", alarm |-> FALSE]
RxDefault == "MFA"

\* usb_e1_init, and what it has e1_init do.
UsbE1Init ==
  /\ running = FALSE /\ ctl = "none"
  /\ intEp = {} /\ lastErr = NoReport /\ host = NoReport

E1Init ==
  /\ rxState = "IDLE" /\ rxHeld = "none" /\ txState = "IDLE" /\ txHeld = "none"
  /\ aBits = {} /\ rxRoom = TRUE /\ flags = {} /\ count = 0 /\ led = <<"OFF", "OFF">>
  /\ txCfg = TxDefault /\ txCsr = TxVal("IDLE", TxDefault)
  /\ rxCfg = RxDefault /\ rxCsr = RxVal("IDLE", RxDefault)

Init ==
  /\ line \in Lines /\ aligned = FALSE
  /\ pc = "usb" /\ UsbE1Init /\ E1Init
  /\ cycle = -1 /\ pulses = FALSE
  /\ rgb = [colour |-> "boot", blink |-> FALSE]
  /\ trouble = 0

Troubled(kind) ==
  kind \in Troubles /\ trouble < MaxTrouble /\ trouble' = trouble + 1

Inc(c) == (c + 1) % CountWrap

Counted == Troubled("error") /\ count' = Inc(count)

-----------------------------------------------------------------------------
(* The line and the E1 core *)

LineChange ==
  /\ Troubled("line") /\ line' \in Lines \ {line}
  /\ UNCHANGED <<aligned, pc, running, pipeVars, flags, count, monVars, ledVars,
                 cfgVars, csrVars, repVars>>

\* The deframer finds and loses alignment some time after the line does.
Deframe ==
  /\ aligned # (line \in {"framed", "alarmed"})
  /\ aligned' = ~aligned
  /\ UNCHANGED <<line, pc, running, pipeVars, flags, count, monVars, ledVars,
                 cfgVars, csrVars, repVars, trouble>>

\* Descriptors come back: received ones only with alignment.
CoreRxDone ==
  /\ rxHeld = "core" /\ aligned /\ rxHeld' = "done"
  /\ UNCHANGED <<lineVars, pc, running, rxState, txState, txHeld, aBits, rxRoom, flags,
                 count, monVars, ledVars, cfgVars, csrVars, repVars, trouble>>

CoreTxDone ==
  /\ txHeld = "core" /\ txHeld' = "done"
  /\ UNCHANGED <<lineVars, pc, running, rxState, rxHeld, txState, aBits, rxRoom, flags,
                 count, monVars, ledVars, cfgVars, csrVars, repVars, trouble>>

-----------------------------------------------------------------------------
(* e1_poll *)

Local(f) == f \cap {"LOS", "AIS", "ALIGN_ERR"} # {}

\* Fault: the flag for lost alignment stays.
FlagsKept(f) ==
  IF aligned THEN f \cap {"ALIGN_ERR"} ELSE (f \ {"RAI"}) \cup {"ALIGN_ERR"}

FlagsUpdate(f) == IF aligned THEN {} ELSE (f \ {"RAI"}) \cup {"ALIGN_ERR"}

\* _e1_update_leds: the green and the yellow one.
Leds(f) ==
  IF "LOS" \in f THEN <<"OFF", "OFF">>
  ELSE IF "ALIGN_ERR" \in f
    THEN <<"BLINK", IF "AIS" \in f THEN "ON" ELSE "OFF">>
    ELSE <<"ON", IF "RAI" \in f THEN "ON" ELSE "OFF">>

\* Its tail: the RGB LED is only written when what it shows changes, and at
\* first takes the colour from start-up for that of alignment.
RgbColour(f) ==
  LET ok == "ALIGN_ERR" \notin f
  IN  IF ok = (rgb.colour # "red") THEN rgb.colour ELSE IF ok THEN "green" ELSE "red"

Flowing == rxState # "IDLE" \/ txState # "IDLE"

PollFlags ==
  /\ pc = "flags"
  /\ flags' = FlagsUpdate(flags)
  /\ txCsr' = [TxVal(txState, txCfg) EXCEPT !.alarm = @ \/ Local(flags')]
  /\ led' = Leds(flags')
  /\ rgb' = [colour |-> RgbColour(flags'), blink |-> Flowing]
  /\ pc' = IF Flowing THEN "reap" ELSE "run"
  /\ UNCHANGED <<lineVars, running, pipeVars, count, monVars, cfgVars, rxCsr,
                 repVars, trouble>>

\* A multiframe may come with a CRC error.  Transmission starts only with
\* enough frames (E1Port), until then the poll ends here.
PollReap ==
  /\ pc = "reap"
  /\ rxHeld' = IF rxHeld = "done" THEN "none" ELSE rxHeld
  /\ txHeld' = IF txHeld = "done" THEN "none" ELSE txHeld
  /\ aBits' = IF rxHeld = "done" THEN aBits \cup {line = "alarmed"} ELSE aBits
  /\ \/ UNCHANGED <<count, trouble>>
     \/ rxHeld = "done" /\ Counted
  /\ pc' \in {"rx"} \cup IF txState = "STARTING" THEN {"run"} ELSE {}
  /\ UNCHANGED <<lineVars, running, rxState, txState, rxRoom, flags, monVars, ledVars,
                 cfgVars, csrVars, repVars>>

\* Fault: the pipe is filled again while the core has descriptors.
AtOnce(held) == TRUE

\* Nothing in flight.
Returned(held) == held = "none"

RxIdle ==
  rxState = "IDLE" /\ UNCHANGED <<rxState, rxHeld, rxCsr, aBits, count, trouble>>

RxShutdown ==
  /\ rxState = "SHUTDOWN"
  /\ IF Returned(rxHeld)
       THEN rxState' = "IDLE" /\ rxCsr' = RxVal("IDLE", rxCfg)
       ELSE UNCHANGED <<rxState, rxCsr>>
  /\ UNCHANGED <<rxHeld, aBits, count, trouble>>

\* Once the core has returned everything, what was received is dropped; then a
\* pipe in error runs again, with descriptors if there is room for any.
RxRefill ==
  IF Returned(rxHeld)
    THEN /\ rxState' = "RUN" /\ aBits' = {} /\ rxCsr' = rxCfg
         /\ rxHeld' = IF rxRoom THEN "core" ELSE rxHeld
    ELSE rxState' = "RECOVER" /\ UNCHANGED <<rxHeld, aBits, rxCsr>>

\* Misalignment is counted without ration: that it is not counted for ever is
\* a property.
RxError ==
  /\ rxState = "RUN"
  /\ \/ ~aligned /\ count' = Inc(count) /\ UNCHANGED trouble
     \/ aligned /\ Counted
  /\ RxRefill

RxRecover == rxState = "RECOVER" /\ RxRefill /\ UNCHANGED <<count, trouble>>

RxStart ==
  /\ rxState = "STARTING"
  /\ rxState' = "RUN" /\ rxHeld' = "core" /\ rxCsr' = rxCfg
  /\ UNCHANGED <<aBits, count, trouble>>

\* The FIFO may be full.
RxRun ==
  /\ rxState = "RUN" /\ aligned
  /\ \/ UNCHANGED rxHeld
     \/ rxHeld = "none" /\ rxRoom /\ rxHeld' = "core"
  /\ UNCHANGED <<rxState, rxCsr, aBits, count, trouble>>

PollRx ==
  /\ pc = "rx" /\ pc' = "tx"
  /\ RxIdle \/ RxShutdown \/ RxError \/ RxRecover \/ RxStart \/ RxRun
  /\ UNCHANGED <<lineVars, running, txState, txHeld, rxRoom, flags, monVars, ledVars,
                 cfgVars, txCsr, repVars>>

TxIdle ==
  txState = "IDLE" /\ UNCHANGED <<txState, txHeld, txCsr, count, trouble>>

TxShutdown ==
  /\ txState = "SHUTDOWN"
  /\ IF Returned(txHeld)
       THEN txState' = "IDLE" /\ txCsr' = TxVal("IDLE", txCfg)
       ELSE UNCHANGED <<txState, txCsr>>
  /\ UNCHANGED <<txHeld, count, trouble>>

\* With the frames for it, the underflow is cleared by a write of cr.val.
TxRefill ==
  \/ txState' = "RECOVER" /\ UNCHANGED <<txHeld, txCsr>>
  \/ txState' = "RUN" /\ txHeld' = "core" /\ txCsr' = txCfg

TxError == txState = "RUN" /\ Counted /\ TxRefill

TxRecover == txState = "RECOVER" /\ TxRefill /\ UNCHANGED <<count, trouble>>

TxStart ==
  /\ txState = "STARTING"
  /\ txState' = "RUN" /\ txHeld' = "core" /\ txCsr' = txCfg
  /\ UNCHANGED <<count, trouble>>

TxRun ==
  /\ txState = "RUN" /\ txHeld' \in {txHeld, "core"}
  /\ txHeld = "done" => txHeld' = "done"
  /\ UNCHANGED <<txState, txCsr, count, trouble>>

PollTx ==
  /\ pc = "tx" /\ pc' = "run"
  /\ TxIdle \/ TxShutdown \/ TxError \/ TxRecover \/ TxStart \/ TxRun
  /\ UNCHANGED <<lineVars, running, rxState, rxHeld, aBits, rxRoom, flags, monVars,
                 ledVars, cfgVars, rxCsr, repVars>>

-----------------------------------------------------------------------------
(* _usb_e1_run *)


ReportError ==
  IF intEp = {} /\ Err # lastErr
    THEN intEp' = {Err} /\ lastErr' = Err
    ELSE UNCHANGED <<intEp, lastErr>>

\* e1_rx_need_data looks at the A bits of the frames it copies.
Rai(f, bits) == IF TRUE \in bits THEN f \cup {"RAI"} ELSE f \ {"RAI"}

\* The IN endpoint takes what waits, or is busy.
Stream ==
  /\ pc = "run" /\ running /\ aBits # {}
  /\ ReportError
  /\ flags' = Rai(flags, aBits) /\ aBits' = {}
  /\ pc' = "usb"
  /\ UNCHANGED <<lineVars, running, rxState, rxHeld, txState, txHeld, rxRoom, count,
                 monVars, ledVars, cfgVars, csrVars, host, trouble>>

RunOnly ==
  /\ pc = "run" /\ pc' = "usb"
  /\ IF running THEN ReportError ELSE UNCHANGED <<intEp, lastErr>>
  /\ UNCHANGED <<lineVars, running, pipeVars, flags, count, monVars, ledVars,
                 cfgVars, csrVars, host, trouble>>

-----------------------------------------------------------------------------
(* usb_poll *)

\* Fault: a line that speaks again is still taken for silent.
MonitorKeepsLos(f, p, o) ==
  IF ~p THEN (f \ {"AIS"}) \cup {"LOS"}
  ELSE IF o THEN f \cup {"AIS"} ELSE f \ {"AIS"}

Monitor(f, p, o) ==
  IF ~p THEN (f \ {"AIS"}) \cup {"LOS"}
  ELSE IF o THEN (f \ {"LOS"}) \cup {"AIS"} ELSE f \ {"LOS", "AIS"}

\* e1_linemon_update, on each start of frame.  Cycles 0, 2 and 4 start a
\* count, 1, 3 and 5 read it; 3 reads one that is not used.
Sof ==
  /\ pc = "usb"
  /\ pulses' = CASE cycle = 1 -> line # "silent" [] cycle = 5 -> FALSE [] OTHER -> pulses
  /\ flags' = IF cycle = 5 THEN Monitor(flags, pulses, line = "ones") ELSE flags
  /\ cycle' = IF cycle = -1 THEN 0 ELSE (cycle + 1) % 6
  /\ UNCHANGED <<lineVars, pc, running, pipeVars, count, ledVars, cfgVars, csrVars,
                 repVars, trouble>>

Started(s) == CASE s = "IDLE" -> "STARTING" [] s = "SHUTDOWN" -> "RECOVER" [] OTHER -> s

\* _e1_set_intf: any new request ends a control transfer that is under way.
Selects(on) ==
  /\ pc = "usb" /\ running = ~on /\ running' = on
  /\ ctl' = "none"
  /\ UNCHANGED <<lineVars, pc, rxHeld, txHeld, flags, count, monVars, ledVars,
                 txCfg, rxCfg, repVars>>

\* e1_stop
E1Stop ==
  /\ Selects(FALSE) /\ Troubled("stop")
  /\ rxState' = "SHUTDOWN" /\ txState' = "SHUTDOWN"
  /\ UNCHANGED <<aBits, rxRoom, csrVars>>

\* e1_start, for RX: an idle pipe begins with an empty FIFO.  Restarting TX cuts
\* that of RX behind what was read, below the descriptors which are still out:
\* when they come back, there is room for one less.
E1Start ==
  /\ Selects(TRUE)
  /\ rxState' = Started(rxState) /\ txState' = Started(txState)
  /\ txCsr' = txCfg /\ rxCsr' = rxCfg
  /\ \/ rxState = "IDLE" /\ aBits' = {} /\ rxRoom' = TRUE
     \/ rxState # "IDLE" /\ txState # "SHUTDOWN" /\ UNCHANGED <<aBits, rxRoom>>
     \/ /\ rxState # "IDLE" /\ txState = "SHUTDOWN"
        /\ aBits' \in SUBSET aBits
        /\ rxRoom' \in IF rxHeld = "none" THEN {TRUE} ELSE {rxRoom, FALSE}
  /\ UNCHANGED trouble

\* SET_TX_CFG and SET_RX_CFG: the request only prepares for the data, which
\* come later or never.
CtrlReq ==
  /\ pc = "usb" /\ Troubled("config")
  /\ ctl' \in {"tx", "rx"}
  /\ UNCHANGED <<lineVars, pc, running, pipeVars, flags, count, monVars, ledVars,
                 txCfg, rxCfg, csrVars, repVars>>

E1TxConfig(cfg) == txCfg' = cfg /\ txCsr' = TxVal(txState, cfg)

E1RxConfig(cfg) == rxCfg' = cfg /\ rxCsr' = RxVal(rxState, cfg)

\* _set_tx_mode_done
SetTxModeDone ==
  /\ pc = "usb" /\ ctl = "tx" /\ ctl' = "none"
  /\ \E cfg \in TxConfig \ {txCfg} : E1TxConfig(cfg)
  /\ UNCHANGED <<lineVars, pc, running, pipeVars, flags, count, monVars, ledVars,
                 rxCfg, rxCsr, repVars, trouble>>

\* _set_rx_mode_done
SetRxModeDone ==
  /\ pc = "usb" /\ ctl = "rx" /\ ctl' = "none"
  /\ \E cfg \in RxConfig \ {rxCfg} : E1RxConfig(cfg)
  /\ UNCHANGED <<lineVars, pc, running, pipeVars, flags, count, monVars, ledVars,
                 txCfg, txCsr, repVars, trouble>>

UsbEnd ==
  /\ pc = "usb" /\ pc' = "flags"
  /\ UNCHANGED <<lineVars, running, pipeVars, flags, count, monVars, ledVars,
                 cfgVars, csrVars, repVars, trouble>>

\* The host polls the interrupt endpoint every 4 ms.
HostPoll ==
  /\ intEp # {} /\ host' \in intEp /\ intEp' = {}
  /\ UNCHANGED <<lineVars, pc, running, pipeVars, flags, count, monVars, ledVars,
                 cfgVars, csrVars, lastErr, trouble>>

-----------------------------------------------------------------------------
Loop == UsbEnd \/ PollFlags \/ PollReap \/ PollRx \/ PollTx \/ Stream \/ RunOnly

Next ==
  \/ LineChange \/ Deframe \/ CoreRxDone \/ CoreTxDone
  \/ Loop \/ Sof \/ E1Stop \/ E1Start \/ CtrlReq \/ SetTxModeDone \/ SetRxModeDone \/ HostPoll

\* The main loop and the hardware go on for ever, and every start of frame
\* and every packet the host asks for is handled some time.
Fairness ==
  /\ WF_vars(Loop) /\ WF_vars(Deframe) /\ WF_vars(CoreRxDone)
  /\ WF_vars(HostPoll) /\ SF_vars(Sof) /\ SF_vars(Stream)

Spec == Init /\ [][Next]_vars /\ Fairness

-----------------------------------------------------------------------------
TypeOK ==
  /\ line \in Lines /\ aligned \in BOOLEAN /\ running \in BOOLEAN
  /\ pc \in {"usb", "flags", "reap", "rx", "tx", "run"}
  /\ rxState \in PipeState /\ txState \in PipeState
  /\ rxHeld \in Held /\ txHeld \in Held /\ aBits \subseteq BOOLEAN
  /\ rxRoom \in BOOLEAN
  /\ flags \subseteq Flag /\ count \in 0 .. CountWrap - 1
  /\ cycle \in -1 .. 5 /\ pulses \in BOOLEAN
  /\ led \in {"OFF", "ON", "BLINK"} \X {"OFF", "ON"}
  /\ rgb \in [colour : {"boot", "green", "red"}, blink : BOOLEAN]
  /\ ctl \in {"none", "tx", "rx"} /\ {txCfg, txCsr} \subseteq TxConfig
  /\ {rxCfg, rxCsr} \subseteq RxConfig
  /\ intEp \subseteq Report /\ lastErr \in Report /\ host \in Report
  /\ trouble \in 0 .. MaxTrouble

\* What the table before _e1_update_leds shows for each line.
LineLeds ==
  CASE line = "silent"  -> <<"OFF", "OFF">>
    [] line = "ones"    -> <<"BLINK", "ON">>
    [] line = "noise"   -> <<"BLINK", "OFF">>
    [] line = "framed"  -> <<"ON", "OFF">>
    [] line = "alarmed" -> <<"ON", "ON">>

\* Once the line has settled, the LEDs show what it is, whatever it was and
\* whatever the port is doing; the RGB LED shows alignment, or still the colour
\* of start-up when alignment was never missed, and blinks while data flow.
LedsShowLine ==
  <>[](/\ led = LineLeds
       /\ rgb.colour \in IF line \in {"framed", "alarmed"} THEN {"boot", "green"} ELSE {"red"}
       /\ rgb.blink = Flowing)

\* The core ends up with what the host configured, across restarts, recoveries
\* and the writes of e1_poll: transparent while idle, and with a local alarm
\* that lasts sent to the far end whatever the host said; without one, the
\* host's setting alone decides.
CoreConfigured ==
  LET alarm == line \in {"silent", "ones", "noise"}
  IN  <>[](/\ rxCsr = RxVal(rxState, rxCfg)
           /\ txCsr = [TxVal(txState, txCfg) EXCEPT !.alarm = @ \/ alarm])


\* A line out of alignment is counted when it is lost, and not with each poll,
\* across any stop and restart, unless that took the FIFO's room (e1.c:491).
CountsSettle == <>[]rxRoom => <>[][UNCHANGED count]_vars

\* The same without the exception: this fails.  Restarted with one descriptor out,
\* RX runs without any and finds the same error with each poll (e1.c:702-738).
CountsAlwaysSettle == <>[][UNCHANGED count]_vars

\* "ON ON ALIGNED + RAI": the LEDs show a far end's alarm that the data path
\* finds again and again.
RaiShown ==
  <>[](line = "alarmed") /\ []<>("RAI" \in flags) => <>(led = <<"ON", "ON">>)

=============================================================================
