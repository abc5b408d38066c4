------------------------------ MODULE TracerE1 ------------------------------
(***************************************************************************)
(* The e1-tracer firmware: two receive-only channels that tap the two      *)
(* directions of an E1 line (firmware/ice40-riscv/e1-tracer/e1.c) and the  *)
(* USB interface that carries them to the host (usb_e1.c).                 *)
(*                                                                         *)
(* The main loop of fw_app.c is one thread and goes round: at most one     *)
(* control request (usb_poll), then e1_poll, then usb_e1_run; `pc' says    *)
(* which of the three comes next.  A request and an e1_poll are one step   *)
(* each: a poll takes microseconds and a multiframe two milliseconds, so   *)
(* what the core does during one is the same as if done before or after.   *)
(*                                                                         *)
(* Its FIFO is an older copy of the icE1usb's: its zone has a base, its    *)
(* pointers are reset whatever the core holds, and a channel only writes   *)
(* multiframes and reads frames.                                           *)
(***************************************************************************)
EXTENDS Integers, Sequences

CONSTANTS
  MF, NMF,       \* frames per multiframe (16), multiframes per zone (8)
  MaxInFlight,   \* descriptors kept in the core (4)
  MaxFrames,     \* frames in a USB packet (12)
  Wired          \* channels that a line is plugged into

Chan == {0, 1}
FifoLen == NMF * MF

ASSUME TracerAssumption ==
  /\ {MF, NMF, MaxInFlight} \subseteq Nat \ {0}
  /\ MaxFrames \in 1 .. FifoLen - 1
  /\ Wired \subseteq Chan

VARIABLES
  pc,        \* next call of the main loop: "usb", "poll" or "run"
  conf,      \* last_conf: 0 for none, 1 legacy, 2 one interface per channel
  running,   \* g_usb_e1.running
  full,      \* per channel, IN buffers in state RDY_DATA (of two)
  e1,        \* g_e1.rx: control word (on / off), FIFO, in_flight, state, flags
  core,      \* the E1 core: enabled, descriptors, complete ones, overflow, line
  gap, told  \* history, see below

vars == <<pc, conf, running, full, e1, core, gap, told>>

-----------------------------------------------------------------------------
(* The FIFO, in frames: w0 committed, w1 allocated, r0 read; peeking is    *)
(* not used, so the second read pointer always equals the first.           *)

E1fReset(base) == [base |-> base, w0 |-> 0, w1 |-> 0, r0 |-> 0]

AllocdFrames(f) == (f.w1 - f.r0) % FifoLen
ValidFrames(f)  == (f.w0 - f.r0) % FifoLen
FreeFrames(f)   == (f.r0 - f.w1 - 1) % FifoLen

Lower(a, b) == IF a < b THEN a ELSE b

\* One read stops at the end of the zone, and the caller reads on.
ReadRun(f, max)   == Lower(Lower(max, FifoLen - f.r0), ValidFrames(f))
FrameRead(f, max) == [f EXCEPT !.r0 = (@ + ReadRun(f, max)) % FifoLen]
ReadFrames(f, max) == FrameRead(FrameRead(f, max), max - ReadRun(f, max))

\* n multiframes allocated, and n committed.
WritePrepare(f, n) == [f EXCEPT !.w1 = (@ + n * MF) % FifoLen]
WriteCommit(f, n)  == [f EXCEPT !.w0 = (@ + n * MF) % FifoLen]

\* What is committed and unread is dropped: to w0 & ~15.
MultiframeEmpty(f) == [f EXCEPT !.r0 = f.w0 - (f.w0 % MF)]

\* The descriptor of the k-th multiframe from a pointer on: a multiframe of
\* the E1 data memory.
OfsToMf(f, ptr, k) == (f.base + ((ptr + (k - 1) * MF) % FifoLen)) \div MF

-----------------------------------------------------------------------------
(* The E1 core (external).  A disabled core holds no descriptors and is    *)
(* not aligned.  Alignment takes many polls to come back once it is lost:  *)
(* line is "lost" until one poll has seen it.                              *)

CoreOff == [on |-> FALSE, bds |-> <<>>, done |-> 0, ovfl |-> FALSE, line |-> "down"]

Aligned(k) == k.line = "up"

\* Writing a channel's csr with the enable bit and OVFL_CLR.
WriteCsr(k, enable) == IF enable THEN [k EXCEPT !.on = TRUE, !.ovfl = FALSE] ELSE CoreOff

\* gap[c] is "ahead" when frames were lost behind those in the FIFO, and "cut"
\* when the next frame read is the first after a loss.  told[c] says that a
\* packet since the previous loss carried an error flag.
Mark(g) == IF g = "no" THEN "ahead" ELSE g

CoreDone(c) ==
  /\ Aligned(core[c]) /\ core[c].done < Len(core[c].bds)
  /\ core' = [core EXCEPT ![c].done = @ + 1]
  /\ UNCHANGED <<pc, conf, running, full, e1, gap, told>>

CoreOverflow(c) ==
  /\ Aligned(core[c]) /\ core[c].done = Len(core[c].bds) /\ ~core[c].ovfl
  /\ core' = [core EXCEPT ![c].ovfl = TRUE]
  /\ gap' = [gap EXCEPT ![c] = Mark(@)]
  /\ UNCHANGED <<pc, conf, running, full, e1, told>>

LineLost(c) ==
  /\ Aligned(core[c])
  /\ core' = [core EXCEPT ![c].line = "lost"]
  /\ gap' = [gap EXCEPT ![c] = Mark(@)]
  /\ UNCHANGED <<pc, conf, running, full, e1, told>>

LineUp(c) ==
  /\ c \in Wired /\ core[c].on /\ core[c].line = "down" /\ e1[c].state # "BOOT"
  /\ core' = [core EXCEPT ![c].line = "up"]
  /\ UNCHANGED <<pc, conf, running, full, e1, gap, told>>

\* The host reads an isochronous packet.
HostTakes(c) ==
  /\ full[c] > 0
  /\ full' = [full EXCEPT ![c] = @ - 1]
  /\ UNCHANGED <<pc, conf, running, e1, core, gap, told>>

-----------------------------------------------------------------------------
(* Control requests *)

\* e1_start gives both channels the zone at 0.
Stopped == [cr |-> FALSE, state |-> "IDLE", fifo |-> E1fReset(0), inFlight |-> 0, flags |-> {}]
Started == [Stopped EXCEPT !.cr = TRUE, !.state = "BOOT"]

Init ==
  /\ pc = "usb" /\ conf = 0
  /\ running = [c \in Chan |-> FALSE]
  /\ full = [c \in Chan |-> 0]
  /\ e1 = [c \in Chan |-> Stopped]
  /\ core = [c \in Chan |-> CoreOff]
  /\ gap = [c \in Chan |-> "no"]
  /\ told = [c \in Chan |-> FALSE]

\* enable_chan and e1_start, for the channels of S that are not running.
Enable(S) ==
  LET new == {c \in S : ~running[c]}
  IN  /\ running' = [c \in Chan |-> running[c] \/ c \in new]
      /\ full' = [c \in Chan |-> IF c \in new THEN 0 ELSE full[c]]
      /\ e1' = [c \in Chan |-> IF c \in new THEN Started ELSE e1[c]]
      /\ core' = [c \in Chan |-> IF c \in new THEN WriteCsr(core[c], TRUE) ELSE core[c]]
      /\ gap' = [c \in Chan |-> IF c \in new THEN "no" ELSE gap[c]]
      /\ told' = [c \in Chan |-> c \notin new /\ told[c]]

\* disable_chan and e1_stop, for the channels of S that are running.  The
\* word written to the core is channel 0's: channel 1 stays on if 0 is.
Disable(S) ==
  LET old == {c \in S : running[c]}
      cr0 == e1[0].cr /\ 0 \notin old
  IN  /\ running' = [c \in Chan |-> running[c] /\ c \notin old]
      /\ full' = [c \in Chan |-> IF c \in old THEN 0 ELSE full[c]]
      /\ e1' = [c \in Chan |-> IF c \in old THEN [e1[c] EXCEPT !.cr = FALSE, !.state = "IDLE"]
                                            ELSE e1[c]]
      /\ core' = [c \in Chan |-> IF c \in old /\ ~cr0 THEN CoreOff ELSE core[c]]
      /\ UNCHANGED <<gap, told>>

\* _e1_set_conf, with the endpoints booted and the channels left as they are.
SetConf(k) ==
  /\ conf' = k
  /\ full' = IF k = 0 THEN full ELSE [c \in Chan |-> 0]
  /\ UNCHANGED <<running, e1, core, gap, told>>

\* _e1_set_intf: the legacy configuration has one interface for both channels.
Channels(intf) == IF conf = 2 THEN {intf} ELSE Chan

SetIntf(intf, alt) ==
  /\ conf # 0 /\ (conf = 1 => intf = 0)
  /\ CASE alt = 1 -> Enable(Channels(intf))
       [] alt = 0 -> Disable(Channels(intf))
  /\ UNCHANGED conf

NoRequest == UNCHANGED <<conf, running, full, e1, core, gap, told>>

UsbPoll ==
  /\ pc = "usb" /\ pc' = "poll"
  /\ \/ NoRequest
     \/ \E k \in 0 .. 2 : SetConf(k)
     \/ \E intf \in Chan, alt \in {0, 1} : SetIntf(intf, alt)

-----------------------------------------------------------------------------
(* e1_poll *)

Quiet == \A c \in Chan : e1[c].state = "IDLE"

\* Completed descriptors are committed; bad[c] says one had a CRC error.
Reaped(e, n, bad) ==
  [e EXCEPT !.fifo = WriteCommit(@, n),
            !.inFlight = @ - n,
            !.flags = IF bad THEN @ \union {"crc"} ELSE @]

\* Fault: an overflow without its flag.
CheckedMute(e, k) ==
  CASE e.state = "RUN" /\ ~Aligned(k) ->
         [e EXCEPT !.state = "RECOVER", !.flags = @ \union {"misaligned"}]
    [] e.state = "RUN" /\ Aligned(k) /\ k.ovfl -> [e EXCEPT !.state = "RECOVER"]
    [] OTHER -> e

Checked(e, k) ==
  CASE e.state = "RUN" /\ ~Aligned(k) ->
         [e EXCEPT !.state = "RECOVER", !.flags = @ \union {"misaligned"}]
    [] e.state = "RUN" /\ Aligned(k) /\ k.ovfl ->
         [e EXCEPT !.state = "RECOVER", !.flags = @ \union {"overflow"}]
    [] OTHER -> e

\* Fault: recovery never ends.
WaitsAlways(e) == e.state = "RECOVER"

\* A channel in RECOVER waits for the core to give all descriptors back.
Waits(e) == e.state = "RECOVER" /\ e.inFlight # 0

\* Fault: the frame that must stay free is given to the core too.
FillOver(e) == Lower(MaxInFlight - e.inFlight, (FreeFrames(e.fifo) + 1) \div MF)

FillCount(e) == Lower(MaxInFlight - e.inFlight, FreeFrames(e.fifo) \div MF)

Emptied(e) == IF e.state = "RECOVER" THEN [e EXCEPT !.fifo = MultiframeEmpty(@)] ELSE e

Filled(e) ==
  [e EXCEPT !.fifo = WritePrepare(@, FillCount(e)),
            !.inFlight = @ + FillCount(e),
            !.state = "RUN"]

\* Descriptors written to a core that is off are lost.  Out of RUN, the csr is
\* written last: an idle channel is switched off again and called RUN.
Fed(k, e) ==
  LET new == [i \in 1 .. FillCount(e) |-> OfsToMf(e.fifo, e.fifo.w1, i)]
      q   == IF k.on THEN [k EXCEPT !.bds = @ \o new] ELSE k
  IN  IF e.state = "RUN" THEN q ELSE WriteCsr(q, e.cr)

\* Fault: a channel whose interface is off is left alone.
ServesActive(e) == e.state # "IDLE" /\ ~Waits(e)

Serves(e) == ~Waits(e)

\* The poll has seen a lost line, so it may come back from now on.
Seen(k) == IF k.line = "lost" THEN [k EXCEPT !.line = "down"] ELSE k

Taken(k) == [k EXCEPT !.bds = SubSeq(@, k.done + 1, Len(@)), !.done = 0]

PollIdle ==
  /\ pc = "poll" /\ pc' = "run"
  /\ Quiet
  /\ UNCHANGED <<conf, running, full, e1, core, gap, told>>

PollActive ==
  /\ pc = "poll" /\ pc' = "run"
  /\ ~Quiet
  /\ \E bad \in SUBSET {c \in Chan : core[c].done > 0} :
       LET seen  == [c \in Chan |-> Checked(Reaped(e1[c], core[c].done, c \in bad), core[c])]
           ready == [c \in Chan |-> Emptied(seen[c])]
           fed   == {c \in Chan : Serves(seen[c])}
       IN  /\ e1' = [c \in Chan |-> IF c \in fed THEN Filled(ready[c]) ELSE seen[c]]
           /\ core' = [c \in Chan |-> LET k == Seen(Taken(core[c]))
                                      IN  IF c \in fed THEN Fed(k, ready[c]) ELSE k]
           /\ gap' = [c \in Chan |->
                        IF c \in fed /\ seen[c].state = "RECOVER"
                             /\ (gap[c] = "ahead" \/ ValidFrames(seen[c].fifo) > 0)
                        THEN "cut" ELSE gap[c]]
  /\ UNCHANGED <<conf, running, full, told>>

-----------------------------------------------------------------------------
(* usb_e1_run *)

RxLevel(c) == ValidFrames(e1[c].fifo)

\* One packet: a header with the position of its first frame and the flags,
\* then the frames.
CanSend(c) == running[c] /\ full[c] < 2 /\ RxLevel(c) > 0

Loud(c) == e1[c].flags \intersect {"misaligned", "overflow"} # {}

\* e1_rx_need_data and e1_get_pending_flags.
NeedData(e) == [e EXCEPT !.fifo = ReadFrames(@, MaxFrames), !.flags = {}]

SendPacket(c) ==
  /\ pc = "run" /\ CanSend(c)
  /\ e1' = [e1 EXCEPT ![c] = NeedData(@)]
  /\ full' = [full EXCEPT ![c] = @ + 1]
  /\ gap' = [gap EXCEPT ![c] = IF @ = "cut" THEN "no" ELSE @]
  /\ told' = [told EXCEPT ![c] = Loud(c) \/ (@ /\ gap[c] # "cut")]
  /\ UNCHANGED <<pc, conf, running, core>>

RunDone ==
  /\ pc = "run" /\ pc' = "usb"
  /\ \A c \in Chan : ~CanSend(c)
  /\ UNCHANGED <<conf, running, full, e1, core, gap, told>>

-----------------------------------------------------------------------------
MainLoop == UsbPoll \/ PollIdle \/ PollActive \/ (\E c \in Chan : SendPacket(c)) \/ RunDone

Environment ==
  \E c \in Chan : CoreDone(c) \/ CoreOverflow(c) \/ LineLost(c) \/ LineUp(c) \/ HostTakes(c)

Next == MainLoop \/ Environment

Spec == Init /\ [][Next]_vars

\* The main loop goes round for ever, the core completes descriptors, and the
\* host polls its isochronous endpoints.
FairSpec ==
  /\ Spec /\ WF_vars(MainLoop)
  /\ \A c \in Chan : WF_vars(CoreDone(c)) /\ WF_vars(HostTakes(c))

-----------------------------------------------------------------------------
(* Correctness *)

\* The frames of the E1 data memory that the host may read for a channel, and
\* those the core may write for it.
Readable(c) == {e1[c].fifo.base + ((e1[c].fifo.r0 + i) % FifoLen) : i \in 0 .. RxLevel(c) - 1}
Written(c) == {core[c].bds[k] * MF + i : k \in 1 .. Len(core[c].bds), i \in 0 .. MF - 1}

\* While its interface is selected, a channel and its core agree: the k-th
\* descriptor in the core is the k-th allocated and uncommitted multiframe,
\* however often either channel was stopped, left half served by e1_poll, and
\* started again.
SlotsInOrder ==
  \A c \in Chan : running[c] =>
    /\ e1[c].inFlight = Len(core[c].bds)
    /\ \A k \in 1 .. e1[c].inFlight : core[c].bds[k] = OfsToMf(e1[c].fifo, e1[c].fifo.w0, k)
    /\ AllocdFrames(e1[c].fifo) = RxLevel(c) + e1[c].inFlight * MF

\* When the main loop comes round, the core of a channel that was deselected is
\* off: e1_stop leaves channel 1 on while channel 0 runs, e1_poll puts it right.
StoppedIsOff ==
  pc = "usb" => \A c \in Chan : ~running[c] => ~core[c].on

\* The host learns of every loss: the first packet after frames were lost, or
\* one since the previous loss, carries the misalignment or overflow flag.
LossAnnounced ==
  [][\A c \in Chan : full'[c] > full[c] /\ gap[c] = "cut" => told[c] \/ Loud(c)]_vars

\* A selected channel whose line stays aligned delivers packets for ever,
\* whatever errors it met before and whatever becomes of the other channel,
\* if the main loop keeps up with the core from some time on.
KeepsReceiving ==
  \A c \in Wired :
    <>[](running[c] /\ Aligned(core[c])) /\ <>[][~CoreOverflow(c)]_vars
      => []<><<SendPacket(c)>>_vars

-----------------------------------------------------------------------------
(* The inductive invariant.  A core that is on holds what its channel says *)
(* it holds, a core that is off holds nothing; and once a loss is on its   *)
(* way the host has been told or will be.                                  *)

\* Offsets of the zone, and those at which a multiframe starts.
Pointer == 0 .. FifoLen - 1
MfStart == {k * MF : k \in 0 .. NMF - 1}

Channel == [cr : BOOLEAN, state : {"IDLE", "BOOT", "RUN", "RECOVER"},
            fifo : [base : {0}, w0 : MfStart, w1 : MfStart, r0 : Pointer],
            inFlight : 0 .. MaxInFlight, flags : SUBSET {"crc", "misaligned", "overflow"}]

Core == [on : BOOLEAN, bds : Seq(Nat), done : Nat, ovfl : BOOLEAN,
         line : {"down", "up", "lost"}]

TypeOK ==
  /\ pc \in {"usb", "poll", "run"} /\ conf \in 0 .. 2
  /\ running \in [Chan -> BOOLEAN] /\ full \in [Chan -> 0 .. 2]
  /\ e1 \in [Chan -> Channel] /\ core \in [Chan -> Core]
  /\ gap \in [Chan -> {"no", "ahead", "cut"}] /\ told \in [Chan -> BOOLEAN]

Holds(e, k) ==
  /\ e.inFlight = Len(k.bds)
  /\ \A i \in 1 .. e.inFlight : k.bds[i] = OfsToMf(e.fifo, e.fifo.w0, i)
  /\ AllocdFrames(e.fifo) = ValidFrames(e.fifo) + e.inFlight * MF

Matched(e, k) ==
  IF k.on THEN Holds(e, k) /\ k.done \in 0 .. Len(k.bds) ELSE k = CoreOff

Powered(c) ==
  /\ e1[c].cr = running[c]
  /\ running[c] => core[c].on /\ e1[c].state # "IDLE"
  /\ core[c].on /\ ~running[c] =>
       pc = "poll" /\ e1[c].state = "IDLE" /\ \E d \in Chan : running[d]

LossTold(c) ==
  /\ e1[c].state = "RECOVER" => Loud(c) \/ (told[c] /\ gap[c] # "cut")
  /\ gap[c] = "cut" => told[c] \/ Loud(c)

TracerInv ==
  TypeOK /\ \A c \in Chan : Matched(e1[c], core[c]) /\ Powered(c) /\ LossTold(c)

-----------------------------------------------------------------------------
(* What the source and the manual say and the code does not do *)

\* "Buffer zone associated with the FIFO": the frames a host reads for one
\* channel are not where the core is writing the other's.  Both zones start
\* at 0, and neither a DMA nor a descriptor address holds the channel.
ZonesApart ==
  \A c \in Chan : running[c] => \A d \in Chan \ {c} : Readable(c) \intersect Written(d) = {}

=============================================================================
