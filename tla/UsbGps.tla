------------------------------- MODULE UsbGps -------------------------------
(***************************************************************************)
(* The ring that carries NMEA sentences to the virtual serial port of the  *)
(* icE1usb (firmware/ice40-riscv/icE1usb/usb_gps.c): its two pointers,     *)
(* counted in characters, and the buffer; wr = rd is the empty ring, so    *)
(* that one place always stays free.                                       *)
(***************************************************************************)
EXTENDS Integers, Sequences

CONSTANTS
  BufSize,     \* BUF_SIZE (512)
  PacketMax,   \* characters in a USB packet (64)
  Word         \* characters that usb_data_write moves at once (4)

ASSUME RingAssumption ==
  /\ BufSize \in Nat \ {0} /\ Word \in Nat \ {0}
  /\ PacketMax \in 1 .. BufSize - 1 /\ PacketMax % Word = 0

\* A ring for characters of C.
Ring(C) == [wr : 0 .. BufSize - 1, rd : 0 .. BufSize - 1, data : [0 .. BufSize - 1 -> C]]

NewRing == [wr |-> 0, rd |-> 0, data |-> [p \in 0 .. BufSize - 1 |-> "NUL"]]

\* The pointers start afresh, the buffer stays.
Emptied(r) == [wr |-> 0, rd |-> 0, data |-> r.data]

Level(r) == (r.wr - r.rd) % BufSize

\* What waits for the host, the oldest first.
Queued(r) == [i \in 1 .. Level(r) |-> r.data[(r.rd + (i - 1)) % BufSize]]

\* Fault: a full ring keeps what it has and drops what comes.
PutShy(r, c) ==
  LET nxt == (r.wr + 1) % BufSize
  IN  IF nxt = r.rd THEN r ELSE [r EXCEPT !.wr = nxt, !.data[r.wr] = c]

\* usb_gps_puts, one character: "if overflow, we keep the latest content".
PutChar(r, c) ==
  LET nxt == (r.wr + 1) % BufSize
  IN  [wr |-> nxt, rd |-> IF nxt = r.rd THEN (r.rd + 1) % BufSize ELSE r.rd,
       data |-> [r.data EXCEPT ![r.wr] = c]]

\* And all of them.
Puts(r, s) ==
  LET put[k \in 0 .. Len(s)] == IF k = 0 THEN r ELSE PutChar(put[k - 1], s[k])
  IN  put[Len(s)]

PacketLen(r) == IF Level(r) > PacketMax THEN PacketMax ELSE Level(r)

\* _usb_gps_fill_packet: a length that is not a whole number of words empties
\* the ring, which then starts afresh, aligned.
FillPacket(r) ==
  IF PacketLen(r) % Word # 0 THEN Emptied(r)
  ELSE [r EXCEPT !.rd = (@ + PacketLen(r)) % BufSize]

\* The places the packet is copied from: a straight run, which does not wrap.
CopiedFrom(r) == r.rd .. r.rd + PacketLen(r) - 1

=============================================================================
