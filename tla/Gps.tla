-------------------------------- MODULE Gps --------------------------------
(***************************************************************************)
(* The GPS receiver of the icE1usb: start-up (gps_init), the reader of     *)
(* NMEA sentences and what it takes from them (gps.c), and their way to    *)
(* the host (usb_gps.c, module UsbGps).                                    *)
(*                                                                         *)
(* `pc' is where the one thread of the firmware is: "reset", "first",      *)
(* "speed" and "eol" in gps_init; then, in the main loop, "usb" (a control *)
(* request), "query" (gps_poll) and "send" (usb_gps_poll).                 *)
(*                                                                         *)
(* A sentence is the sequence "$" kind x* "*" h h CR LF: `kind' stands for *)
(* the fields that _gps_parse_nmea looks at, the x for the rest.  The      *)
(* receiver (external) sends one after the other, and a character may be   *)
(* lost on the way.  At the wrong speed every character is noise.          *)
(***************************************************************************)
EXTENDS UsbGps

CONSTANTS
  BufLen,      \* sizeof(nmea.buf) (95)
  Kinds,       \* kinds of sentence sent
  Fillers,     \* numbers of x in a sentence
  MaxLost      \* bound: characters lost

\* A sentence fits the buffer with the NUL behind it ("Max length is actually
\* 82 + 1"), and no field of one looks like a delimiter.
ASSUME GpsAssumption ==
  /\ BufLen \in Nat \ {0} /\ Fillers \subseteq Nat /\ MaxLost \in Nat
  /\ \A n \in Fillers : n + 7 < BufLen
  /\ Kinds \intersect {"$", "*", "h", "x", "CR", "LF"} = {}

VARIABLES
  pc, try, ready,          \* gps_init: attempt (0, 1) and whether it succeeded
  baud, eol,               \* UART speed; _gps_empty: the last character was LF
  nmea, fix, antenna,      \* g_gps
  active, ring, full,      \* g_usb_gps, and the IN buffer being RDY_DATA
  rx,                      \* receiver: present, speed, rest of its sentence
  lost, handed, truth, unread  \* history: lost characters, the sentence just
                               \* handed on, last fix sent, what is to be read

init  == <<try, ready, baud, eol>>
gps   == <<nmea, fix, antenna>>
usb   == <<active, ring, full>>
hist  == <<handed, truth, unread>>
vars  == <<pc, init, gps, usb, rx, lost, hist>>

NmeaState == {"WAIT", "READ", "CK_HI", "CK_LO", "END_CR", "END_LF"}
Bauds == <<"9600", "115200">>

\* usb_gps_init
UsbInit == active = FALSE /\ ring = NewRing /\ full = FALSE

Init ==
  /\ pc = "reset" /\ try = 0 /\ ready = FALSE /\ baud = "none" /\ eol = FALSE
  /\ nmea = [state |-> "WAIT", buf |-> <<>>]
  /\ fix = FALSE /\ antenna = "unknown"
  /\ UsbInit
  /\ \E b \in {"9600", "115200"}, alive \in BOOLEAN :
       rx = [alive |-> alive, baud |-> b, kind |-> "none", rest |-> <<>>]
  /\ lost = 0 /\ handed = <<>> /\ truth = FALSE /\ unread = <<>>

-----------------------------------------------------------------------------
(* The receiver (external) *)

Sentence(kind, n) ==
  <<"$", kind>> \o [i \in 1 .. n |-> "x"] \o <<"*", "h", "h", "CR", "LF">>

NewSentence ==
  /\ rx.alive /\ rx.rest = <<>> /\ pc # "reset"
  /\ \E k \in Kinds, n \in Fillers :
       rx' = [rx EXCEPT !.kind = k, !.rest = Sentence(k, n)]
  /\ UNCHANGED <<pc, init, gps, usb, lost, hist>>

LoseChar ==
  /\ rx.rest # <<>> /\ lost < MaxLost
  /\ rx' = [rx EXCEPT !.rest = Tail(@)]
  /\ lost' = lost + 1
  /\ UNCHANGED <<pc, init, gps, usb, hist>>

\* The firmware reads a character.
Char == IF rx.baud = baud THEN Head(rx.rest) ELSE "x"
ReadChar == rx.rest # <<>> /\ rx' = [rx EXCEPT !.rest = Tail(@)]

-----------------------------------------------------------------------------
(* _gps_query, one character.  The checksum is computed and never compared, *)
(* so it is left out.                                                      *)

\* Every character is stored, or else reading is given up.
Stored(n, c) == IF Len(n.buf) = BufLen THEN [n EXCEPT !.state = "WAIT"]
                ELSE [n EXCEPT !.buf = Append(@, c)]

\* Fault: a '$' starts a sentence only where one is expected.
StepShy(n, c) ==
  LET s == Stored(n, c)
  IN  CASE c = "$" /\ n.state = "WAIT" -> [state |-> "READ", buf |-> <<"$">>]
        [] s.state = "READ" -> IF c = "*" THEN [s EXCEPT !.state = "CK_HI"] ELSE s
        [] s.state = "CK_HI" -> [s EXCEPT !.state = "CK_LO"]
        [] s.state = "CK_LO" -> [s EXCEPT !.state = "END_CR"]
        [] s.state = "END_CR" -> [s EXCEPT !.state = IF c = "CR" THEN "END_LF" ELSE "WAIT"]
        [] s.state = "END_LF" -> [s EXCEPT !.state = "WAIT"]
        [] OTHER -> [state |-> "WAIT", buf |-> <<>>]

\* A '$' always starts afresh.
Step(n, c) ==
  LET s == Stored(n, c)
  IN  CASE c = "$" -> [state |-> "READ", buf |-> <<"$">>]
        [] c # "$" /\ s.state = "READ" -> IF c = "*" THEN [s EXCEPT !.state = "CK_HI"] ELSE s
        [] c # "$" /\ s.state = "CK_HI" -> [s EXCEPT !.state = "CK_LO"]
        [] c # "$" /\ s.state = "CK_LO" -> [s EXCEPT !.state = "END_CR"]
        [] c # "$" /\ s.state = "END_CR" ->
             [s EXCEPT !.state = IF c = "CR" THEN "END_LF" ELSE "WAIT"]
        [] c # "$" /\ s.state = "END_LF" -> [s EXCEPT !.state = "WAIT"]
        [] c # "$" /\ s.state = "WAIT" -> [state |-> "WAIT", buf |-> <<>>]

\* A sentence is handed on when LF comes where it should.
Whole(n, c) == Stored(n, c).state = "END_LF" /\ c = "LF"

\* The NUL behind a sentence that fills buf is stored in fix.valid.
NulHitsFix(n, c) ==
  c # "$" /\ Stored(n, c).state = "END_LF" /\ Len(Stored(n, c).buf) = BufLen

-----------------------------------------------------------------------------
(* gps_init *)

\* Reset the receiver with the UART at the attempt's speed.
TryReset ==
  /\ pc = "reset" /\ pc' = "first"
  /\ baud' = Bauds[try + 1]
  /\ rx' = [rx EXCEPT !.rest = <<>>]
  /\ UNCHANGED <<try, ready, eol, gps, usb, lost, hist>>

FirstChar ==
  /\ pc = "first" /\ ReadChar
  /\ nmea' = Step(nmea, Char)
  /\ fix' = (fix /\ ~NulHitsFix(nmea, Char))
  /\ IF ~Whole(nmea, Char) THEN UNCHANGED <<pc, ready>>
     ELSE IF try = 0 THEN pc' = "speed" /\ UNCHANGED ready
     ELSE pc' = "usb" /\ ready' = TRUE
  /\ UNCHANGED <<try, baud, eol, antenna, usb, lost, hist>>

\* No sentence within a second: the next speed, or none is left.
FirstTimeout ==
  /\ pc = "first"
  /\ try' = 1
  /\ pc' = IF try = 0 THEN "reset" ELSE "usb"
  /\ UNCHANGED <<ready, baud, eol, gps, usb, rx, lost, hist>>

\* _gps_send: the receiver understands at its own speed.  PCAS01,5 makes it
\* speed up; PCAS04,1, sent last, chooses satellites and shows nowhere here.
GpsSend(cmd) ==
  rx' = IF cmd = "PCAS01,5" /\ rx.baud = baud THEN [rx EXCEPT !.baud = "115200"] ELSE rx

\* Fault: the receiver is told to speed up, the UART is not.
SpeedUpHalf ==
  /\ pc = "speed" /\ pc' = "eol"
  /\ GpsSend("PCAS01,5")
  /\ eol' = FALSE
  /\ UNCHANGED <<try, ready, baud, gps, usb, lost, hist>>

\* The receiver changes its speed, then the UART follows.
SpeedUp ==
  /\ pc = "speed" /\ pc' = "eol"
  /\ GpsSend("PCAS01,5")
  /\ baud' = "115200"
  /\ eol' = FALSE
  /\ UNCHANGED <<try, ready, gps, usb, lost, hist>>

\* _gps_empty(true): read on until nothing is there just after an end of line.
EolChar ==
  /\ pc = "eol" /\ ReadChar
  /\ eol' = (Char = "LF")
  /\ UNCHANGED <<pc, try, ready, baud, gps, usb, lost, hist>>

EolEmpty ==
  /\ pc = "eol" /\ eol
  /\ pc' = "usb" /\ ready' = TRUE
  /\ UNCHANGED <<try, baud, eol, gps, usb, rx, lost, hist>>

-----------------------------------------------------------------------------
(* Main loop *)

NoRequest ==
  /\ pc = "usb" /\ pc' = "query"
  /\ UNCHANGED <<init, gps, usb, rx, lost, hist>>

\* SET_CONTROL_LINE_STATE: the port is open while DTR is set.
SetActive(on) ==
  /\ pc = "usb" /\ pc' = "query"
  /\ active' = on
  /\ ring' = IF on THEN ring ELSE Emptied(ring)
  /\ unread' = IF on THEN unread ELSE <<>>
  /\ UNCHANGED <<init, gps, full, rx, lost, handed, truth>>

\* _cdc_set_conf boots the endpoints (external: their buffers are empty then)
\* and leaves the port open or closed, and the ring as it is.
SetConf ==
  /\ pc = "usb" /\ pc' = "query"
  /\ full' = FALSE
  /\ UNCHANGED <<init, gps, active, ring, rx, lost, hist>>

QueryEmpty ==
  /\ pc = "query" /\ pc' = "send"
  /\ UNCHANGED <<init, gps, usb, rx, lost, hist>>

\* The end of a fix sentence that was sent, for the history.
TruthAfter == IF rx.rest = <<"LF">> /\ rx.kind \in {"fix", "nofix"} /\ rx.baud = baud
              THEN rx.kind = "fix" ELSE truth

QueryChar ==
  /\ pc = "query" /\ ReadChar
  /\ ~Whole(nmea, Char)
  /\ nmea' = Step(nmea, Char)
  /\ fix' = (fix /\ ~NulHitsFix(nmea, Char))
  /\ truth' = TruthAfter
  /\ UNCHANGED <<pc, init, antenna, usb, lost, handed, unread>>

\* Fault: a sentence without fix leaves the fix as it was.
FixSticky(kind, old) == kind = "fix" \/ old

\* _gps_parse_nmea
FixAfter(kind, old) == IF kind \in {"fix", "nofix"} THEN kind = "fix" ELSE old
AntennaAfter(kind, old) == IF kind \in {"ok", "open", "short"} THEN kind ELSE old

\* The last characters of s, as many as the ring can hold.
Newest(s) == IF Len(s) < BufSize THEN s ELSE SubSeq(s, Len(s) - BufSize + 2, Len(s))

\* gps_poll with a sentence: parse it, then queue it for USB if the port is open.
QuerySentence ==
  /\ pc = "query" /\ ReadChar
  /\ Whole(nmea, Char)
  /\ pc' = "send"
  /\ nmea' = Step(nmea, Char)
  /\ LET s == Stored(nmea, Char).buf
     IN  /\ handed' = s
         /\ fix' = FixAfter(s[2], fix /\ ~NulHitsFix(nmea, Char))
         /\ antenna' = AntennaAfter(s[2], antenna)
         /\ ring' = IF active THEN Puts(ring, s) ELSE ring
         /\ unread' = IF active THEN Newest(unread \o s) ELSE unread
  /\ truth' = TruthAfter
  /\ UNCHANGED <<init, active, full, lost>>

\* usb_gps_poll
SendNothing ==
  /\ pc = "send" /\ pc' = "usb"
  /\ full \/ Level(ring) = 0
  /\ handed' = <<>>
  /\ UNCHANGED <<init, gps, usb, rx, lost, truth, unread>>

SendPacket ==
  /\ pc = "send" /\ pc' = "usb"
  /\ ~full /\ Level(ring) > 0
  /\ ring' = FillPacket(ring)
  /\ full' = TRUE
  /\ unread' = SubSeq(unread, PacketLen(ring) + 1, Len(unread))
  /\ handed' = <<>>
  /\ UNCHANGED <<init, gps, active, rx, lost, truth>>

HostReads ==
  /\ full
  /\ full' = FALSE
  /\ UNCHANGED <<pc, init, gps, active, ring, rx, lost, hist>>

-----------------------------------------------------------------------------
Start == TryReset \/ FirstChar \/ FirstTimeout \/ SpeedUp \/ EolChar \/ EolEmpty

Main == \/ NoRequest \/ (\E on \in BOOLEAN : SetActive(on)) \/ SetConf
        \/ QueryEmpty \/ QueryChar \/ QuerySentence
        \/ SendNothing \/ SendPacket

Next == Start \/ Main \/ NewSentence \/ LoseChar \/ HostReads

Spec == Init /\ [][Next]_vars

\* The firmware runs, its second passes, and the receiver, if there is one,
\* talks; the firmware reads much faster than characters come, so that it finds
\* the UART empty after one LF or another.
FairSpec ==
  /\ Spec
  /\ WF_vars(TryReset \/ SpeedUp \/ EolChar) /\ WF_vars(FirstTimeout)
  /\ WF_vars(NewSentence) /\ SF_vars(EolEmpty)

-----------------------------------------------------------------------------
(* Correctness *)

\* Whatever is lost or cut on the line, what is handed on runs from a '$' to
\* the LF of a sentence, with no '$' inside, and fits the buffer; its NUL fits
\* behind it as long as nothing is lost.
WholeSentences ==
  handed # <<>> =>
    /\ Head(handed) = "$" /\ \A i \in 2 .. Len(handed) : handed[i] # "$"
    /\ Len(handed) \in 6 .. BufLen /\ (lost = 0 => Len(handed) < BufLen)
    /\ \E i \in 2 .. Len(handed) : handed[i] = "*" /\ i + 4 = Len(handed)
    /\ SubSeq(handed, Len(handed) - 1, Len(handed)) = <<"CR", "LF">>

\* As long as nothing is lost, the fix that steers the oscillator is that of
\* the last fix sentence, also just after start-up or a sentence begun before.
FixIsLatest ==
  lost = 0 => fix = truth

\* What waits in the ring is, character by character, what was queued and not yet
\* sent, less the oldest beyond its size, although it starts afresh now and then.
UnreadExact == Queued(ring) = unread

\* Start-up ends, with or without a receiver, and the main loop with it begins;
\* one that succeeded leaves the UART and the receiver at one speed.
InitEnds == <>(pc = "usb") /\ [](ready => baud = "115200" /\ rx.baud = "115200")

-----------------------------------------------------------------------------
(* The inductive invariant: what the reader holds is the start of a        *)
(* sentence, and as long as nothing is lost it is the start of the one     *)
(* whose rest the receiver has yet to send.                                *)

Character == Kinds \union {"$", "*", "h", "x", "CR", "LF", "NUL"}
Reader == [state : NmeaState, buf : Seq(Character)]
Receiver == [alive : BOOLEAN, baud : {"9600", "115200"}, kind : Kinds \union {"none"},
             rest : Seq(Character)]

TypeOK ==
  /\ pc \in {"reset", "first", "speed", "eol", "usb", "query", "send"}
  /\ try \in {0, 1} /\ ready \in BOOLEAN /\ baud \in {"none", "9600", "115200"} /\ eol \in BOOLEAN
  /\ nmea \in Reader
  /\ fix \in BOOLEAN /\ antenna \in {"unknown", "ok", "open", "short"}
  /\ active \in BOOLEAN /\ ring \in Ring(Character) /\ full \in BOOLEAN
  /\ rx \in Receiver /\ lost \in Nat /\ handed \in Seq(Character)
  /\ truth \in BOOLEAN /\ unread \in Seq(Character)

\* buf runs from a '$', and its end is where the state says the reader is.
Prefix(n) ==
  LET b == n.buf
      l == Len(n.buf)
  IN  /\ l <= BufLen
      /\ n.state # "WAIT" => l >= 1 /\ b[1] = "$" /\ \A i \in 2 .. l : b[i] # "$"
      /\ n.state = "CK_HI" => l >= 2 /\ b[l] = "*"
      /\ n.state = "CK_LO" => l >= 3 /\ b[l - 1] = "*"
      /\ n.state = "END_CR" => l >= 4 /\ b[l - 2] = "*"
      /\ n.state = "END_LF" => l >= 5 /\ b[l - 3] = "*" /\ b[l] = "CR"

\* The i-th character of a sentence, and the reader's state behind the j-th.
CharAt(kind, n, i) ==
  CASE i = 1 -> "$"
    [] i = 2 -> kind
    [] i \in 3 .. n + 2 -> "x"
    [] i = n + 3 -> "*"
    [] i \in {n + 4, n + 5} -> "h"
    [] i = n + 6 -> "CR"
    [] i = n + 7 -> "LF"

StateAt(n, j) ==
  CASE j \in 1 .. n + 2 -> "READ"
    [] j = n + 3 -> "CK_HI"
    [] j = n + 4 -> "CK_LO"
    [] j = n + 5 -> "END_CR"
    [] j = n + 6 -> "END_LF"

\* s is the end of a sentence, behind the first j characters of it.
Ends(kind, n, s, j) ==
  /\ Len(s) = n + 7 - j
  /\ \A i \in 1 .. Len(s) : s[i] = CharAt(kind, n, j + i)

\* The reader holds exactly those.
InStep(kind, n, r, j) ==
  j > 0 => Len(r.buf) = j /\ r.state = StateAt(n, j) /\ (j > 1 => r.buf[2] = kind)

LineInv ==
  rx.rest # <<>> =>
    \E n \in Fillers : \E j \in 0 .. n + 6 :
      /\ rx.kind \in Kinds /\ Ends(rx.kind, n, rx.rest, j)
      /\ lost = 0 /\ rx.baud = baud =>
           IF pc = "eol" THEN eol => j = 0 ELSE InStep(rx.kind, n, nmea, j)

FixInv ==
  /\ fix \/ truth => rx.baud = baud /\ pc \in {"usb", "query", "send"}
  /\ FixIsLatest

GpsInv == TypeOK /\ Prefix(nmea) /\ LineInv /\ FixInv /\ UnreadExact /\ WholeSentences

-----------------------------------------------------------------------------
(* What the source says and the code does not do *)

\* "The port provides read-only access to the GPS receiver": a packet holds
\* characters queued in the ring.  The copy does not wrap at the ring's end.
CopiesQueued == ~full /\ pc = "send" => CopiedFrom(ring) \subseteq 0 .. BufSize - 1

=============================================================================
