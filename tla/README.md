# A verification model of osmo-e1-hardware

This directory holds TLA+ modules that model the firmware, gateware and host
software of osmo-e1-hardware, TLC configurations that check them on small
instances, and TLAPS proofs that hold for every size. `PROJECT.json` lists the
components, the runs, the lines each definition stands for (`map`), the faults
that show each property can fail (`mutants`), the hazards of the code and the
theorems. Paths below are relative to `src/`; `ICE/` stands for
`firmware/ice40-riscv/icE1usb/`.

## 1. The system

The repository builds two USB devices around an iCE40 FPGA with a PicoRV32 soft
core, and host programs for one of them.

* **icE1usb** connects two E1 lines to a host. Gateware deframes and frames each
  line and moves multiframes (16 frames of 32 bytes) between the line and a
  shared data memory; firmware queues *buffer descriptors* for it, keeps a FIFO
  per direction and port, and copies frames between the FIFOs and isochronous
  USB packets. It also disciplines its oscillator from a GPS receiver and
  passes the receiver's NMEA text to the host.
* **e1-tracer** listens to both directions of one E1 line and streams them to
  the host, which records and analyses them.

The firmware of both is a single-threaded main loop that polls every component
for ever (`ICE/fw_app.c`). What runs concurrently with it is hardware: the E1
cores, the USB core, the DMA engine, the clocks and counters, and the host.

### Components

| component | state it keeps | operations | interacts with |
|---|---|---|---|
| E1 frame FIFO (`ICE/e1.c`) | two write and two read pointers | frame read/write, multiframe prepare/commit/peek/discard, cut tail/head | USB calls on one side, descriptors on the other |
| E1 port (`ICE/e1.c`) | RX and TX pipe state, FIFO, descriptors in flight | start, stop, need_data, feed_data, poll | E1 core registers, usb_e1 |
| E1 alarms and configuration (`ICE/e1.c`) | error flags and counters, control register values, line monitor averages, LED states | poll, linemon update, rx/tx config | E1 core, LEDs, USB interrupt endpoint |
| USB E1 interface (`ICE/usb_e1.c`) | altsetting, buffer toggles, mode settings, feedback, last report | set_conf, set_intf, control requests, per-loop run | E1 port, no2usb stack |
| GPS-disciplined oscillator (`ICE/gpsdo.c`, `usb_gpsdo.c`) | mode, state, tuning words, PID, invalid count, skip count | poll, enable, set_tune | PPS counter, PDM, GPS |
| GPS receiver (`ICE/gps.c`) | NMEA reader state, fix, antenna | init, poll | UART, gpsdo, usb_gps |
| GPS serial bridge (`ICE/usb_gps.c`) | 512 byte ring, port open or closed | puts, poll, set_conf, control requests | gps, USB |
| DMA, SPI, I2C, LED, console, ticks (`firmware/ice40-riscv/common/`, `ICE/misc.c`, `i2c.c`) | one pending transfer (`dma.c`), else none | register sequences | hardware |
| tracer E1 and USB (`firmware/ice40-riscv/e1-tracer/`) | a pipe state, FIFO and flags per channel | set_conf, set_intf, start/stop per channel, poll, need_data | E1 receivers, USB |
| line interface driver (`idt82v2081*.c`) | registers of the chip | register writes | SPI, USB requests |
| E1 framer and deframer (`software/e1-tracer/analyze/osmo_e1f.c`, older version in `software/obsolete`) | TX frame counter and CRC, RX alignment state and TS0 history | pull_tx_frame, rx_frame, reset | analysis tools |
| recorder and tools (`software/e1-tracer/record`, `analyze`) | transfers, files | USB callbacks, file reading | e1-tracer |
| buffer memories (`gateware/common/rtl/soc_iobuf.v`, `wb_arbiter.v`, `wb_dma.v`, `wb_epbuf.v`, `soc_picorv32_bridge.v`) | grant and request of each arbiter, the DMA engine's registers, the bridge's answer | one step per clock | E1 core, USB core, soft core |
| panel gateware (`gateware/icE1usb/rtl/sr_btn_if.v`, `gateware/common/rtl/dfu_helper.v`) | shift register, button timers | one step per clock | buttons, LEDs, boot loader |

### What is hard here, and what makes each component correct

* **E1 port.** The core completes descriptors between any two register reads of
  `e1_poll`; USB may stop and start the port at any loop iteration, with
  descriptors still in the core. Correct means: slots go to the core and come
  back in order, no frame is both the core's and the host's, in_flight counts
  what the core holds, an idle pipe is drained, a stopped port submits nothing
  and drains, a port in error resumes cleanly, transmission starts primed.
* **Alarms and configuration.** Flags, counters, control registers and LEDs are
  each written from several places in a fixed order of the main loop, while line
  and host change between any two of them. Correct means that what is shown,
  sent and reported ends up being what the line is and the host asked for.
* **USB E1 interface.** Set-interface arrives between any two loop iterations
  and must start and stop the port exactly once; a report must not be lost
  because the endpoint was busy; the data of a configuration request come later
  than the request, or never.
* **GPS-disciplined oscillator.** Measurements arrive once a second and may be
  late, missing or wrong; the loop must steer only while plausible pulses come,
  never correct one error twice, and lock again after any disturbance.
* **GPS receiver and bridge.** Start-up changes the speed of both sides; bytes
  are lost at a full UART; the reader must never hand on anything but a whole
  sentence, the fix must be the last one sent, and the ring must lose the oldest
  characters only.
* **Framer.** The receiver renumbers frames while its history stays where it is.
  It must find alignment on a good line, keep it through isolated errors, drop it
  after three, and not declare multiframes on a line without them.
* **Tracer.** Two channels share one poll, which also serves idle ones; starting
  or stopping one must not disturb the other, a deselected one must end up off,
  and every loss of frames must be announced.
* **Recorder.** Packets, transfers and writes fail one by one, and the program
  only ends by a failure or by being killed. Each failure must cost its own packet
  and no other, every transfer must go back to the bus, and what is read back must
  be what was sent, in order, for each direction.
* **Buffer memories.** The grant moves in the cycle of an acknowledge, in which
  the served master still drives its request. Correct means: answers go to the
  asker, a transfer copies exactly the length written, the E1 core waits a
  bounded time, and nobody starves behind it. The firmware polls the engine's
  busy bit right behind the write that starts it, through two registers.

The hazards in `PROJECT.json` list these at their lines, each with the
properties that would catch it going wrong.

## 2. Modules

| module | models | checked by | proved in |
|---|---|---|---|
| `E1Fifo` | FIFO operations of `ICE/e1.c` as operators on a record of pointers | through `E1Port` | `E1FifoTheorems` |
| `E1Port` | one port: pipe states, FIFOs, descriptors, the calls from USB, `e1_poll` step by step, the E1 core | `MCE1Port` | `E1PortProofs` |
| `E1Channel` | what a direction of a port promises: frames pass between the host and the core in order, a multiframe at a time | `MCE1Port` (as a property) | `E1PortProofs` |
| `E1Alarms` | alarm flags, line monitor, LEDs, control registers and their requests, and the error reports of one port | `MCE1Alarms` | |
| `Gpsdo` | the disciplining state machine of `ICE/gpsdo.c` and the USB requests to it | `MCGpsdo` | `GpsdoProofs` |
| `GpsdoLoop` | the same with an oscillator, so that measurements follow from the tuning words | `MCGpsdoLoop` | |
| `UsbGps` | the ring of `ICE/usb_gps.c` as operators | through `Gps` | `GpsProofs` |
| `Gps` | start-up, sentence reader, fix and antenna, the virtual serial port | `MCGps` | `GpsProofs` |
| `TracerE1` | the firmware of the tracer: both channels, USB, main loop | `MCTracer` | `TracerProofs` |
| `E1Framer` | transmitter and receiver of TS0 in software, with a line between them | `MCE1Framer` | `E1FramerProofs` |
| `Recorder` | the recorder's transfers and file, and what `dump.c` makes of the file | `MCRecorder` | `RecorderProofs` |
| `WbArbiter` | the registers of one bus arbiter, as operators | through `Iobuf` | `IobufProofs` |
| `Iobuf` | two arbiters with their memories, the DMA engine, the processor's bus bridge and `dma.c`, clock by clock | `MCIobuf` | `IobufProofs` |

### E1Fifo and E1Port

A FIFO is the record of its four pointers `w0` (committed), `w1` (allocated),
`r0` (discarded), `r1` (peeked). `x & mask` is `x % FifoLen`; subtractions wrap
the same way because the length divides 2^32. Frame access is a contiguous run,
and the callers' loops (`WriteFrames`, `ReadFrames`) make at most two.

The firmware's thread is the variable `pc`. A call from USB (start, stop, data)
runs to completion and is one action. `e1_poll` reads the core's registers
repeatedly while the core runs on, so each iteration of its reap and refill
loops, and each decision between them, is an action of its own, and the core's
actions are interleaved with them. The core belongs to a git submodule that is
not in the tree; it is modelled from the register use in `e1.c` and `e1_hw.h`:
descriptors are completed in order, an overflow or underflow flag is raised
when a descriptor is needed and missing and stays until cleared, and alignment
comes and goes.

Error counters, alarm flags, control register values and LEDs do not influence
the streaming state and are left out of this module.

`pruned` is a history variable. `e1_start` cuts the head of the *RX* FIFO when
it restarts *TX* (see findings): from then on until the pipe next starts from
idle, slots and pointers of the receive side no longer correspond, and the
receive properties say nothing.

### E1Alarms

Three places write the alarm flags: `e1_poll` from the deframer's alignment bit,
the line monitor on a start of frame, and the data path from the A bits of the
frames it copies. Three places show them: the LEDs, the ALARM bit sent to the
far end, and the report on the interrupt endpoint. They run in a fixed order in
the main loop; the line, the deframer and the host change between any two steps.
The module keeps that order (`pc`) and the pipe states, and abstracts FIFOs and
descriptors to whether the core holds any: what depends on their levels (an
underflow, enough frames to start) is a choice. Of the RX FIFO it also keeps whether
there is room for a descriptor once it is empty (`rxRoom`): a restart that cuts the
wrong FIFO (section 5) takes room for each descriptor that is still out. Without
room, a receiver that recovers runs with nothing in flight (`RxRefill`), and each
poll of a line without alignment counts the same error again; `CountsSettle` is about
everything else. The four error counters are one.
The line monitor's readings are what the line is when they are read: fewer than
16 pulses, or more than 2040 ones.

`txCsr` and `rxCsr` are the mode and alarm fields as last written to the core;
`e1_start`, the poll, recoveries, the way to idle and the configuration requests
all write them. A configuration is a control transfer: the request, then its
data (`CtrlReq`, `SetTxModeDone`, `SetRxModeDone`), and any other request in
between ends it. The RGB LED is modelled for one port; its static copy of the
last state starts out as "aligned", so it keeps the colour of start-up if the
line is aligned at the first poll.

`GET_ERRORS` only reads and is left out: `host` is the last report received on
the interrupt endpoint. Clock source and loopback bits, and what an interface
change does to a report in the endpoint (a submodule decides that), are left out.

### Gpsdo and GpsdoLoop

`gpsdo_poll` subtracts two readings of a 30.72 MHz counter. Here a clock ticks
in seconds (`Second`): each second may bring a pulse, and the main loop polls at
least once before the next. A measurement is a whole number of seconds and, if
that is one, a deviation in ticks; this is all that the plausibility check tells
apart. `time_elapsed` cuts the difference to 31 bits, so it laps every 70 s;
`Elapsed` is `since % Wrap`. Each outcome of `gpsdo_poll` is an action, named
for what becomes of the measurement. The tuning words are 16 bits wide (`Word`),
and `>>` of a negative number is the floor division of TLA+.

`silent`, `settled` and `misses` are history: the seconds without a pulse, the
pulses since the loop last changed the oscillator, and the implausible
measurements in a row.

`GpsdoLoop` closes the loop. `Offset` is the oscillator (external), a line
through `base` whose slope is the one that the comments at `ICE/gpsdo.c:76-90`
give, driven by the 12 bits that reach the outputs (`Pdm`). Trouble (a late,
early or implausible pulse, an outage, a lost fix, a step of the oscillator, a
setting from USB) may come at any time but at most `MaxTrouble` times.

Not modelled: overflow of the C integers that hold the PID's sums, and the
antenna state.

### Gps and UsbGps

The firmware's one thread is `pc`: in `gps_init`, then round the main loop
(a USB request, `gps_poll`, `usb_gps_poll`). A sentence is `$`, one symbol for the
fields that are parsed, fillers, `*`, two hex digits, CR, LF; each character is
read on its own, may be lost, and is noise at the wrong speed. The 95 byte buffer
and the NUL behind it, which may land in `fix.valid`, are modelled by length.
`truth`, `unread`, `handed` and `lost` are history. The ring keeps its characters:
a reset of its pointers leaves them in the buffer. The reader computes the
checksum and never compares it, so it is left out. The pulse on the carrier
detect line is not compiled in.

### TracerE1

A request, a poll and a packet are one step each: a poll takes microseconds, a
multiframe two milliseconds. Descriptors are multiframe numbers of the shared
data memory; `e1_start` gives both channels the zone at 0. The core keeps the
enable bit of its control word: `e1_stop` of channel 1 writes channel 0's
(`e1-tracer/e1.c:306`), and `e1_poll` serves channels that are idle as long as one is
not, which puts the core off again. `gap` and `told` are history: a loss of
frames the host has not got past, and whether a flag was sent for it.

LEDs and debug output are left out, and so are the requests to the line
interface chips.

### E1Framer

A frame is its TS0 octet and the CRC remainder of its other 31 timeslots; CRC-4 is
linear, so this is all the framer can tell apart. CRCs are really computed. The
far end is one of the two versions of the transmitter in the repository or one
without multiframes (`tc_rx_align_basic` of `obsolete/e1_test.c`). The newer version
takes the C1 bit from the CRC before last and sends the E bit inverted
(`osmo_e1f.c:250-254`, `241`), so `CrcVerdict` is about the older one. What a frame
carries is chosen anew for each (`Payloads`). The line spoils a bit of TS0 or of the
data, goes out for some frames, or slips by one or two frames; `line` is history of
what it did. It counts a spoiled bit as one and a frame of ones as two, since such a
frame may differ from the one it replaces in no way that four bits of CRC can tell.

### Recorder

A transfer is one step of the bus (`Complete`): nobody sees what it holds before.
libusb calls back in the order of completion, and `cb_xfr` goes packet by packet:
`Packet` is one call of `cb_xfr_data_in` with the chunk it writes, `Queue` the end of
the callback. The bus goes on and a kill may come between any two of them, whereas
the program looks at `g_do_exit` only outside a callback. A packet with data is its
number; chunks of empty packets are left out of the file, as the reader skips them.
A write that fails or a kill cuts a chunk in its header or in its packet; its endpoint is
left open, as without the end of the header the bytes behind it tell. The loop of
`process_file` takes the missing bytes from what follows and goes on if a chunk begins
just there, which depends on lengths (recordings start with bare headers of 23 bytes,
of which any number may make up for what is missing); `Readings` is therefore the set
of all the sets of chunks that it may take, going on behind a torn chunk anywhere or
nowhere. That data look like a header is not modelled. `Line` is the choice of the
line in `handle_frame`. `reaped` and `whole` are history: what the bus
delivered, and whether every write and every end of a run kept it. That stdio may
hold chunks back which a kill loses is `Buffered`.

### WbArbiter and Iobuf

One step is one clock edge: every register takes its next value from what all
held before. `spr` and `epb` are the arbiters of the E1 data memory and of the
USB endpoint buffer with their slave's acknowledge, `dma` the engine, `bridge` the
registers between the processor's own bus and this one. The processor runs
`dma_exec` and `dma_poll` and may access its own memory or either buffer memory
between any two of their accesses; the E1 core asks at any time. Both are
external. `want` is history: what the destination has to become. A length of one
word wraps the counter and copies 4097; the firmware never asks for it.

## 3. Runs

| run | bounds | shows |
|---|---|---|
| `port_safety` | zone of 3 multiframes of 2 frames, 2 descriptors, priming level 4, packets of 1 to 3 frames | order and separation of slots, the three step properties, and that both directions implement `E1Channel` |
| `port_liveness` | zone of 3 one-frame multiframes, 2 descriptors, priming level 2, packets of one frame | a stopped pipe drains; a receiver in error runs again |
| `port_restart` | as above | a consequence of the cut of the wrong FIFO |
| `alarms` | four kinds of line, counters that wrap at 2, starts at any time, one disturbance (a line change, an error, a stop or a configuration request) | LEDs and host end up with the line's state, the core with the host's configuration, and counters come to rest, over a restart as well |
| `alarms_rai` | a framed line, with or without the far end's alarm, one disturbance | the far end's alarm never reaches the LEDs |
| `gpsdo_fsm` | a lap of 6 s; deviations of 0, 7 and 2000 ticks; words 0 and 2048 from USB; gains 0 | steering stops without pulses and through bad ones; corrections use settled measurements |
| `gpsdo_loop` | a lap of 8 s, the first oscillator's gains, offsets of 600 ticks either way, one disturbance | the loop locks within 40 calm seconds and stays locked |
| `framer` | three far ends, one disturbance at any point of a multiframe, an outage of 5 frames | alignment is found, kept, dropped and claimed when it should be; CRC verdicts are true |
| `tracer` | zones of 3 multiframes of 2 frames, 2 descriptors, packets of 3 frames, a line on one channel, both configurations | slots in order, deselected cores end up off, losses are announced, a good line delivers for ever |
| `gps` | ring of 5, packets of 2, a buffer of 17 characters, sentences of 7 or 12 of three kinds, two lost characters | whole sentences only, the fix is the latest, the ring holds the newest of what was queued, character by character, start-up ends at one speed |
| `bus` | four words per memory, transfers of 2 and 3 words either way | exact copies, answers to the asker, the E1 core waits three cycles at most, no transfer starves |
| `recorder` | 2 transfers of 2 packets per direction, 2 packets with data, 2 runs, one failure besides those of packets and at the start, two chunks held back | wherever the reader goes on behind torn chunks, each direction is read back in order, and whole unless a write or a kill lost something; a running recorder hears every direction it started with |

The bounds are enough for the cases that matter: packets straddle multiframes
and the end of the zone; the zone is larger than what the core holds, so that
both a full FIFO and a full descriptor queue occur; the priming level needs more
than one packet and more than one multiframe. The proofs remove the bounds.

In `alarms`, the line and the deframer's alignment start in any way, the port is
started at any point, and the disturbance comes at any point of that. Starts are not
rationed: the port is started again after a stop, before or after its pipes are idle,
and finds or loses alignment before, during or after it. Every property is about what
holds once disturbances are over, so that more of them only prolong the way there; two,
one while the other is still being handled, are left to the two larger configurations
of section 5. A counter that wraps at 2 makes a report equal to an older one, which is
the case a comparison could miss.

For the oscillator, the properties of `gpsdo_fsm` do not depend on the gains:
with gains 0 the words take few values and all orders of pulses, fixes and
requests are explored. A lap of 6 s is long enough for the three second timeout
to be entered, to persist and to end by lapping. The deviations are one that is
good, one that makes fine tuning give up, and one that is implausible. In
`gpsdo_loop` the gains are the real ones and the history is one disturbance at
any point, which covers disturbances that are 40 s apart.

In `gps`, a sentence of 12 characters fits the buffer of 17. Two lost characters can
join its end to its successor's body: what is then handed on fits exactly, or does
not fit and is dropped. The ring is shorter than a sentence, so it overflows in each one
that the host does not read while it comes; one that holds a sentence is checked by
`MCGpsRing` of section 5. In `framer`, the search limit is the real 64 and frame numbers start anywhere, so that
an outage or a slip can meet every state of the receiver. All frames carry the same there, as
the CRCs of a random payload would be too many states: that the verdict holds whatever
frames carry is proved. In `bus`, a word outside
the transfer is written by the E1 core and one by the processor; two and three
words are the shortest transfers that move either pointer more than once. In
`recorder`, two lost packets are as many as a direction has transfers, so that each
of them can have met a failure, and a second run can append to what the first left.

The invariants that the proofs are about (`PortInv`, `GpsdoInv`) are checked by the
configurations `MCE1PortLimit` and `MCGpsdoMode` of section 5.

**Fairness.** `E1Port`'s `FairSpec` assumes weak fairness of the main loop's poll
step (`ICE/fw_app.c` polls for ever), of the transmitter, which is clocked for ever,
and of the receiver while it is aligned. Nothing is assumed of the host, except
in `port_restart`, where a host that keeps reading and writing (`HostSpec`) is
assumed in order to show that even then the receiver can stall. `E1Alarms`
assumes that the main loop and the receiver go on, that the deframer follows the
line, that every start of frame is handled some time, and that the host polls
the endpoints. `LoopSpec` assumes that time passes, that the main loop polls, and
that the receiver, once it lost its fix, finds it again: without a fix the loop
has to hold. `E1Framer` assumes that the line delivers frames. `TracerE1` assumes
the main loop, a core that completes descriptors while aligned, and a host that
polls its isochronous endpoints; `KeepsReceiving` adds that overflows end, which
is that the main loop keeps up. `Gps` assumes that the firmware runs, that its
one-second timeout expires, that a receiver that is there talks, and that the
firmware finds the UART empty behind one LF or another: it reads thousands of
times faster than characters come. `Iobuf` assumes the clock. `Recorder` assumes that
the host polls an endpoint while transfers are queued for it, that libusb handles
events, and that `libusb_handle_events` returns once in a while: leaving the loop is
possible only between callbacks, again and again, hence strong fairness.

## 4. Proofs

`E1FifoTheorems` proves the pointer arithmetic for every zone size: pointers
stay within one lap, so that `%` is at most one addition or subtraction; moving
one end of a distance adds to it or takes from it; the levels of a FIFO under
each operation follow.

`E1PortProofs` proves, from `FifoAssumption` and `PortAssumption` alone:
`Spec => []PortInv` and from it type correctness, slot order, separation of core
and host, drained-when-idle, multiframe alignment of descriptors, and the three
step properties. The invariants are not inductive alone. That descriptors are
in order needs the levels to match the descriptor count; that needs the
pointers that descriptors are cut at to stay on multiframes and the host's two
pointers to move together (`RxPointers`, `TxPointers`); that an idle pipe is
drained and a stopped port submits nothing needs the pipe states to agree with
the host's selection and with the position in `e1_poll` (`UpWhileRunning`); that
transmission starts primed and reception resumes clean needs what `e1_poll`
learned earlier in the same call to be still true (`TxGathered`, `RxEmptied`).
The proof is split into receive, transmit and control parts, one step per
action.

Its last part proves that both sides implement `E1Channel`: the refinement
mapping reads the channel's counters off the FIFO levels, and each step is a step
of the channel or leaves it unchanged. On the receive side a multiframe is the
core's until `e1_poll` reaps it; after the wrong cut of `e1_start`, while `pruned` holds,
the channel promises nothing of that side, and the next clean start begins it anew.

`GpsdoProofs` proves `Spec => []GpsdoInv` from `GpsdoAssumption`, for every lap,
limit, gain and set of deviations. `TracksLivePps` alone is not inductive: that
tuning and silence exclude each other needs `silent` to be the age of the last
pulse (`PulseInv`), and a pulse to be read in the second it comes while the loop
tunes (`LiveInv`). `TracksGoodPps` needs the bad measurements in a row to be
accounted for by the count and the skips (`GoodInv`), `UsesSettled` needs the
skips to be still due (`SettledInv`).

`TracerProofs` proves `SlotsInOrder`, `StoppedIsOff` and `LossAnnounced` from
`TracerAssumption` (a packet is shorter than the zone), for either configuration and
whichever channel has a line. The two channels are treated alike, so what `e1_poll`
does to one is proved of an arbitrary channel and core first. A deselected core ends
up off only because the poll serves idle channels as well: the invariant follows
the enable bit from the request that forgets it to the poll that puts it right. A
loss is announced because the flags that `gap` and `told` speak of are still
pending or the pipe is still to be recovered. The pointer lemmas are those of
`E1FifoTheorems`, instantiated.

`GpsProofs` proves `UnreadExact`, `WholeSentences` and `FixIsLatest` from `RingAssumption`
and `GpsAssumption`, for every size of the buffers, every set of sentences and any
number of lost characters. `GpsInv` relates the reader's state to the part of the
sentence still to come (`LineInv`), as long as nothing was lost: that is what makes
the last fix the one that was sent. For the ring, `PutCharIs` says that a character goes
behind those that wait and, when there is no room, costs the oldest, in the terms of
`Queued`, the sequence that waits; `PacketIs` that a packet takes the front of it.
`usb_gps_puts` is a loop over the characters: that it has a result for each of them
(`PutsExists`) and what that is (`PutsIs`) are inductions over their number, drawn from
the fact that a set of natural numbers has a least member.

`E1FramerProofs` proves `AlignedTruly`, `FrameLossNoticed`, `KeepsAlignment` and
`CrcVerdict` from `FramerAssumption`, for every sequence of payloads, length of
outages and number of disturbances. None of them is inductive. While out of step,
every other octet of the calm frames is judged and is no alignment signal, and three
of them are too many (`LossInv`); while in step, each signal that is missing was
spoiled (`HoldInv`); on a line undisturbed since a reset, the history is the far end's
own as far back as the search goes, and what is left of older numbers cannot be taken
for the multiframe signal (`TrueInv`). The last needs a search limit of at least 25
frames; the code has 64.

For the verdict, the CRC is taken apart bit by bit: adding and multiplying by x are
invertible (`XorCancels`, `TimesXCancels`), so that two CRCs stay equal, or different,
over a frame that is the same for both (`SameFrame`), and become different by one
spoiled bit that is covered (`OneBit`), be it in the data, at the top of an octet
without the alignment signal, or a bit that makes or breaks the signal and with it the
mask of the C bit. `CrcInv` carries this over the sub-multiframe being received, the
one before, and the C bits received so far, from the moment that alignment was found.

`RecorderProofs` proves `RecordingTrue` for any number of transfers, packets, runs and
failures. `RecorderInv` says that in the file each direction's numbers increase,
chunks that were cut aside (`FileInOrder`), that the packets still to be written
increase (`PendingInOrder`) and follow them (`PendingLater`), and that as long as
nothing was lost no chunk is cut and the file holds what was reaped (`WholeHolds`).
Without a cut chunk there is one reading, of everything; with one, any reading keeps
the order of the file.
Writing a packet moves it from the head of the second to the end of the first; a kill
keeps a prefix of the file.

`IobufProofs` proves `GrantHolds`, `CopyExact` and `E1WaitBounded` for every memory size,
transfer length and wrap. They are not inductive alone: that the master being served
keeps its request needs the processor to be waiting for exactly one of its memory,
the two arbiters and the engine (`OneAnswer`), as an acknowledge of one would end the
request to another. The same invariant says that a started engine is polled, its
registers alone, until it is idle (`EngineWatched`); hence `DoneIsIdle`, that
the firmware never takes a transfer for done early, although its first poll
comes right behind the write that starts the engine. Copies are exact because the
address registers are set before the engine starts (`AddrsSet`) and, while it runs,
what was copied is what was wanted and the rest is still in the source (`Running`).
The E1 core waits for one access that began before it asked, for being chosen and
for its answer, three cycles (`WaitInv`). `IobufAssumption` keeps the words that others
write out of the transfers, as the firmware's layout does.

Only model-checked: all liveness, as liveness under fairness and ENABLED are beyond
the prover; `LocksInTime`, which depends on the gains and the oscillator's numbers;
and all of `E1Alarms`, whose properties are about what holds when things have come to
rest.

## 5. Findings

Checked as runs:

* `e1_start` prunes the wrong FIFO (`ICE/e1.c:491`): frames left in the TX FIFO
  are sent after the restart, and the RX write pointers are moved under
  descriptors still in the core, which can leave the receiver without
  descriptors for ever (`port_restart`).
* The far end's alarm is never shown: while the line is aligned each `e1_poll`
  clears the flag before the LEDs and the report look at it (`ICE/e1.c:641`,
  `alarms_rai`).

Further disagreements of code and comment can be shown with the configurations
that are not among the runs, `tlc -config <file>.cfg <module>`:

| configuration (module) | violated | what the code does |
|---|---|---|
| `MCE1PortZone` (`MCE1Port`) | `RxBdsInZone` | the cut of the head is not masked (`ICE/e1.c:228`), so after the wrong cut a descriptor can lie outside the RX zone |
| `MCE1AlarmsCount` (`MCE1Alarms`) | `CountsAlwaysSettle` | after the wrong cut a receiver can run with nothing in flight: on a line without alignment every poll then goes through an error, a recovery that need not wait and back to RUN, and counts (`ICE/e1.c:702-738`) |
| `MCGpsdoTimeout` (`MCGpsdo`) | `TimeoutIsSilence` | three seconds of silence cost up to 70 s of hold-over: the timeout returns before it reads the pulse that would end it (`ICE/gpsdo.c:286`) |
| `MCGpsdoMode` (`MCGpsdo`) | `ModesAgree` | the mode request answers the inverse of the mode (`ICE/usb_gpsdo.c:37`) |
| `MCGpsdoDrift` (`MCGpsdoLoop`) | `TransferKeepsFine` | the transfer from the fine to the coarse word leaves the excursion in the PID's sums, is repeated every second, and loses the lock it is meant to keep (`ICE/gpsdo.c:259`) |
| `MCE1FramerStep` (`MCE1Framer`) | `EndsInStep` | after the jump of `frame_nr` the history of TS0 still holds octets under old numbers; multiframe alignment can be taken from them, and the numbers stay wrong although the comment says "we must be in FN 11" (`osmo_e1f.c:451`) |
| `MCTracerZone` (`MCTracer`) | `ZonesApart` | both channels of the tracer have their FIFO at base 0 of the data memory and no address holds the channel (`e1-tracer/e1.c:286`), so the core writes frames of one direction over unread frames of the other, although a zone is "associated with the FIFO" (line 80) |
| `MCRecorderAppend` (`MCRecorder`) | `NothingMadeUp` | a chunk cut short by a failed write, or by a kill before the recording is appended to, is handed on as one packet with the bytes that follow it, and if these happen to be whole chunks the reader goes on behind them unaware (`dump.c:211`) |
| `MCGpsStream` (`MCGps`) | `CopiesQueued` | the copy into the packet does not wrap and reads behind the ring (`ICE/usb_gps.c:72`) |

`MCE1PortLimit` (`MCE1Port`) passes: it shows the descriptor count at its limit when
that, and not a full FIFO, stops the refill. Three larger instances pass, too:
`MCE1AlarmsConfig` and `MCE1AlarmsRestart` (`MCE1Alarms`) with two disturbances, on a
line with or without framing, show that the core ends up configured across
configurations, stops and line changes in any order, and that counters come to rest and
the host is informed over two restarts; `MCGpsRing` (`MCGps`) shows the ring's content
for a ring that is longer than one sentence and shorter than another, with packets that
are neither always full nor always whole words.

Noted while modelling, without a run: the NMEA checksum is never compared; a fix
does not expire when the receiver falls silent; `_gps_empty(true)` waits for a line
without a timeout, so a receiver that dies during the change of speed stops the
boot; GET_LINE_CODING prepares its answer and returns an error
(`ICE/usb_gps.c:246`); closing the port leaves a packet in the IN endpoint; two sentences joined by a loss
can fill the 95 bytes exactly, and the NUL is then written behind them, although the
comment counts 82 + 1 (`ICE/gps.c:48`); the recorder ignores it when a direction cannot
be started (`e1-tracer-record.c:436`) and then records the other one alone;
`replay.c` writes timeslots 0 to 30 where its comment says 1 to 31.

## 6. Not modelled, and what is left

Not modelled:

* the endpoints' double buffers and the feedback value of `usb_e1.c`: what a
  reconfiguration does to a buffer is decided by the USB stack, a submodule
  whose directory is empty here; with it goes the loss of a pending error report
  at an interface change (`ICE/usb_e1.c:294`);
* the RGB LED's rule for two ports: `E1Alarms` has one;
* timeslots 1 to 31 of the framer and their HDLC coding, which are queues of
  libosmocore, and with them the rest of `dump.c`; `replay.c` and `hdlc-decode-pipe.c`,
  which only convert; the line interface driver, single register writes;
* SPI, I2C, console, LED and print helpers: register sequences and formatting that
  keep no state;
* panel gateware (`sr_btn_if.v`, `dfu_helper.v`), `capcnt.v`, clock generation and
  wiring; the E1 and USB cores (empty submodules) and the PicoRV32 (vendored).
* overflow of the C integers that hold the PID's sums: an overflow takes some
  twenty minutes of one-sided error.

Worth doing next: an inductive invariant for `E1Alarms` (core and configuration agree
once requests are over); two ports sharing the RGB
LED; the panel's shift register and the boot helper; the endpoints of `usb_e1.c`,
should the USB stack be at hand.
