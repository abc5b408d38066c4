------------------------------ MODULE Recorder ------------------------------
(***************************************************************************)
(* Recording what the tracer hears (software/e1-tracer/record/             *)
(* e1-tracer-record.c) and reading it back (analyze/dump.c).               *)
(*                                                                         *)
(* The recorder keeps transfers of Ppx isochronous packets queued for each *)
(* of the two endpoints; the bus fills them in order.  libusb calls back   *)
(* for the complete ones, in the order in which they were completed; the   *)
(* callback writes a chunk to the recording for one packet after the other *)
(* and queues the transfer again.                                          *)
(***************************************************************************)
EXTENDS Integers, Sequences, FiniteSets

CONSTANTS
  Nx, Ppx,      \* transfers queued per endpoint (2), packets in one (4)
  Buffered,     \* chunks that stdio holds back, at most
  MaxSent,      \* packets with data, of both directions: then it is empty ones
  MaxSessions,  \* times the recorder is run
  MaxTrouble    \* failures, those of packets and at the start not counted

ASSUME RecorderAssumption ==
  /\ {Nx, Ppx} \subseteq Nat \ {0}
  /\ {Buffered, MaxSent, MaxSessions, MaxTrouble} \subseteq Nat

VARIABLES
  mode,      \* "off", or "run" while a recorder does
  doExit,    \* g_do_exit
  out,       \* e1s->fh: whether there is a file to write to
  started,   \* flow->entries[..].xfr: per endpoint, the transfers queued at the start
  flight,    \* per endpoint, the queued transfers that are to be filled
  done,      \* complete transfers whose callback is to come, with the packets
             \* that are left for it: the first one's may have begun
  file,      \* the recording: its chunks
  onDisk,    \* how many of them were there at the start
  sent,      \* per endpoint, packets with data that the tracer sent
  reaped,    \* history: per endpoint, packets with data to be found in the recording
  whole,     \* history: whether every run ended with its recording whole
  sessions, trouble   \* runs and failures still to come, at most

vars == <<mode, doExit, out, started, flight, done, file, onDisk, sent, reaped, whole, sessions, trouble>>

\* EP_DATA_IN0 and EP_DATA_IN1
Ep == {129, 130}

\* A packet with data is its number, from 1 on; others are without data, or
\* failed.  What a reader takes for a packet may also be one cut short.
Data  == 1
Empty == 0
Bad   == -1
Cut   == -2

\* A chunk is a header and a packet.  Those of empty packets, which are headers
\* only, are left out: a reader skips them.  One that was cut short lacks some of
\* its packet, or of its header: then the bytes behind it tell its endpoint, which
\* is therefore left open (0).
Chunk(ep, p) == [ep |-> ep, nr |-> p]
Torn         == Chunk(0, Cut)

Trouble == trouble > 0 /\ trouble' = trouble - 1

-----------------------------------------------------------------------------
Init ==
  /\ mode = "off" /\ doExit = FALSE /\ out = FALSE
  /\ started = [ep \in Ep |-> 0] /\ flight = [ep \in Ep |-> 0] /\ done = <<>>
  /\ file = <<>> /\ onDisk = 0
  /\ sent = [ep \in Ep |-> 0]
  /\ reaped = [ep \in Ep |-> {}] /\ whole = TRUE
  /\ sessions = MaxSessions /\ trouble = MaxTrouble

\* e1s_new and _e1s_flow_start: a file that cannot be opened is reported only,
\* a transfer that cannot be queued ends the start of its flow.
Start(append, opened, queued) ==
  /\ mode = "off" /\ sessions > 0
  /\ mode' = "run" /\ doExit' = FALSE /\ out' = opened
  /\ started' = queued /\ flight' = queued
  /\ file' = IF opened /\ ~append THEN <<>> ELSE file
  /\ onDisk' = Len(file')
  /\ IF opened /\ ~append THEN reaped' = [ep \in Ep |-> {}] /\ whole' = TRUE
                          ELSE UNCHANGED <<reaped, whole>>
  /\ sessions' = sessions - 1
  /\ UNCHANGED <<done, sent, trouble>>

-----------------------------------------------------------------------------
(* USB (external)                                                          *)

\* The bus fills the transfer that was queued first.  Packets with data are
\* numbered as they are sent, whether they arrive or fail.  What a transfer
\* holds before it is complete does not matter: nobody sees it.
Complete(ep, kinds, ok) ==
  LET data == {j \in 1 .. Ppx : kinds[j] # Empty}
      packet(j) == IF kinds[j] = Data THEN sent[ep] + Cardinality(data \cap 1 .. j) ELSE kinds[j]
  IN  /\ mode = "run" /\ flight[ep] > 0
      /\ sent[129] + sent[130] + Cardinality(data) <= MaxSent
      /\ sent' = [sent EXCEPT ![ep] = @ + Cardinality(data)]
      /\ flight' = [flight EXCEPT ![ep] = @ - 1]
      /\ done' = Append(done, [ep |-> ep, packets |-> [j \in 1 .. Ppx |-> packet(j)], ok |-> ok])
      /\ IF ok THEN UNCHANGED trouble ELSE Trouble
      /\ UNCHANGED <<mode, doExit, out, started, file, onDisk, reaped, whole, sessions>>

-----------------------------------------------------------------------------
(* The callback                                                            *)

\* Fault: packets that failed are written as well.
WrittenBlindly(p) == p # Empty

\* cb_xfr_data_in writes a packet that did not fail.
Written(p) == p \notin {Empty, Bad}

\* Fault: a failed packet ends the callback, before it queues the transfer again.
EndedByBad(d) ==
  IF Head(Head(d).packets) = Bad THEN Tail(d) ELSE [d EXCEPT ![1].packets = Tail(@)]

\* The callbacks that are to come, the one that goes on first, once this one
\* is through with a packet.
AfterPacket(d) == [d EXCEPT ![1].packets = Tail(@)]

\* cb_xfr calls cb_xfr_data_in for one packet after the other; a short write
\* ends the program, but not before the callback is over.
Packet(ep) ==
  /\ mode = "run" /\ done # <<>> /\ Head(done).ep = ep /\ Head(done).packets # <<>>
  /\ \E p \in {Head(Head(done).packets)} :
       /\ \/ /\ file' = IF out /\ Written(p) THEN Append(file, Chunk(ep, p)) ELSE file
             /\ UNCHANGED <<whole, doExit, trouble>>
          \/ /\ out /\ p # Bad /\ Trouble
             /\ file' = Append(file, Torn)
             /\ whole' = FALSE /\ doExit' = TRUE
       /\ reaped' = IF out /\ p > 0 THEN [reaped EXCEPT ![ep] = @ \cup {p}] ELSE reaped
  /\ done' = AfterPacket(done)
  /\ UNCHANGED <<mode, out, started, flight, onDisk, sent, sessions>>

\* Then cb_xfr queues the transfer again, whatever became of it.  One that
\* failed ends the program, as does one that cannot be queued.
Queue(ep) ==
  /\ mode = "run" /\ done # <<>> /\ Head(done).ep = ep /\ Head(done).packets = <<>>
  /\ \E again \in BOOLEAN :
       /\ IF again THEN UNCHANGED trouble ELSE Trouble
       /\ doExit' = (doExit \/ ~Head(done).ok \/ ~again)
       /\ flight' = IF again THEN [flight EXCEPT ![ep] = @ + 1] ELSE flight
  /\ done' = Tail(done)
  /\ UNCHANGED <<mode, out, started, file, onDisk, sent, reaped, whole, sessions>>

Callback(ep) == Packet(ep) \/ Queue(ep)

InCallback == done # <<>> /\ Len(Head(done).packets) < Ppx

Gone ==
  /\ mode' = "off" /\ doExit' = FALSE /\ out' = FALSE /\ onDisk' = 0
  /\ started' = [ep \in Ep |-> 0]
  /\ flight' = [ep \in Ep |-> 0] /\ done' = <<>>

\* main leaves its loop between two calls of libusb_handle_events, or when one
\* fails; what stdio holds is written when it returns.
Exit ==
  /\ mode = "run" /\ ~InCallback
  /\ IF doExit THEN UNCHANGED trouble ELSE Trouble
  /\ Gone
  /\ UNCHANGED <<file, sent, reaped, whole, sessions>>

\* No signal is handled: to end a recording is to kill the recorder, and what
\* stdio holds is lost, from the middle of a chunk on perhaps, which may be one
\* of an empty packet.
Killed ==
  /\ mode = "run"
  /\ Gone
  /\ IF out
     THEN \E k \in onDisk .. Len(file) :
          \E cut \in {<<>>, <<Torn>>} :
            /\ Len(file) - k <= Buffered
            /\ file' = SubSeq(file, 1, k) \o cut
            /\ whole' = (whole /\ k = Len(file) /\ cut = <<>>)
     ELSE UNCHANGED <<file, whole>>
  /\ UNCHANGED <<sent, reaped, sessions, trouble>>

-----------------------------------------------------------------------------
Bus == \E ep \in Ep, kinds \in [1 .. Ppx -> {Data, Empty, Bad}], ok \in BOOLEAN : Complete(ep, kinds, ok)

Next ==
  \/ \E append, opened \in BOOLEAN, queued \in [Ep -> 0 .. Nx] : Start(append, opened, queued)
  \/ Bus
  \/ \E ep \in Ep : Callback(ep)
  \/ Exit
  \/ Killed

Idle(ep) == Complete(ep, [j \in 1 .. Ppx |-> Empty], TRUE)

Spec == Init /\ [][Next]_vars

\* The host polls its endpoints in every USB frame, libusb handles events, and
\* libusb_handle_events returns, after a callback or several.
FairSpec ==
  /\ Spec
  /\ \A ep \in Ep : WF_vars(Idle(ep)) /\ WF_vars(Callback(ep))
  /\ SF_vars(doExit /\ Exit)

-----------------------------------------------------------------------------
(* Reading the recording                                                   *)

\* The chunks that process_file of dump.c may take, by their places.  It takes
\* one after the other; behind one that was cut short it takes what follows for
\* the rest, and goes on where a chunk begins just there.  That may be any of
\* them, as all depends on the lengths, of empty packets' chunks as well; the
\* next one, if only those were taken, or the packet of a header cut short.
\* If there is none, it finds no header and ends.  (Data that look like a header
\* are not modelled.)
Readings(f) ==
  {S \in SUBSET DOMAIN f :
     \A i \in DOMAIN f \ S :
       \E j \in S : j < i /\ f[j].nr = Cut /\ S \cap (j + 1 .. i) = {}}

\* Those whose packets may be handed to the deframer of one direction.  One cut
\* short is only if enough follows; at the end of the file that is empty
\* packets' chunks.
Line(f, S, ep) == {i \in S : f[i].ep \in {ep, 0}}

-----------------------------------------------------------------------------
(* Properties                                                              *)

\* The types.
TypeOK ==
  /\ mode \in {"off", "run"} /\ {doExit, out, whole} \subseteq BOOLEAN
  /\ started \in [Ep -> 0 .. Nx] /\ sent \in [Ep -> 0 .. MaxSent]
  /\ \A ep \in Ep :
       /\ flight[ep] \in 0 .. Nx
       /\ reaped[ep] \subseteq 1 .. sent[ep]
  /\ \A i \in DOMAIN done : done[i].ep \in Ep /\ (i > 1 => Len(done[i].packets) = Ppx)
  /\ \A i \in DOMAIN file : file[i] \in [ep : Ep \cup {0}, nr : {Cut} \cup 1 .. MaxSent]
  /\ onDisk \in Nat /\ sessions \in 0 .. MaxSessions /\ trouble \in 0 .. MaxTrouble

\* However transfers complete, fail and are queued again, the deframer of each
\* direction is handed that direction's packets in the order they were sent and
\* none twice, and all that the bus delivered, unless a write failed or a kill
\* lost some (record.c:84-184).  Then there may be packets cut short among them,
\* and some that are in the recording may be missing, wherever the reader goes on
\* (dump.c:130-221).
RecordingTrue ==
  \A S \in Readings(file), ep \in Ep :
    /\ whole => {file[i].nr : i \in Line(file, S, ep)} = reaped[ep]
    /\ \A i, j \in Line(file, S, ep) :
         i < j /\ file[i].nr # Cut /\ file[j].nr # Cut => file[i].nr < file[j].nr

\* What reaches the deframers was sent: this fails, as chunks may follow one
\* that was cut short, by a write that failed or by a kill, if the recording is
\* then appended to (" -a Output : append mode", record.c:348).
NothingMadeUp ==
  \A S \in Readings(file), ep \in Ep :
    \A i \in Line(file, S, ep) : file[i].nr = Cut => i = Len(file)

\* Packets and transfers may fail: while the recorder runs, callbacks go on for
\* each direction of which a transfer was queued at the start (record.c:133-184).
NeverStalls ==
  \A ep \in Ep : <>[](mode = "run" /\ started[ep] > 0) => []<><<Callback(ep)>>_vars

=============================================================================
