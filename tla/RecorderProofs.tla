--------------------------- MODULE RecorderProofs ---------------------------
(***************************************************************************)
(* Proofs about Recorder, for every number of transfers and of packets in  *)
(* one, and every amount of data that stdio may lose.                      *)
(*                                                                         *)
(* Packets are numbered, so their order is a statement about numbers: of   *)
(* each endpoint those in the file come first and increase, and those that *)
(* the callbacks still hold follow and increase.                           *)
(***************************************************************************)
EXTENDS Recorder, FiniteSetTheorems, TLAPS

-----------------------------------------------------------------------------
(* The invariant *)

ChunkType    == [ep : Ep \cup {0}, nr : Int]
TransferType == [ep : Ep, packets : Seq(Int), ok : BOOLEAN]

Types ==
  /\ out \in BOOLEAN /\ whole \in BOOLEAN /\ onDisk \in Nat
  /\ sent \in [Ep -> Nat] /\ reaped \in [Ep -> SUBSET Nat]
  /\ file \in Seq(ChunkType) /\ done \in Seq(TransferType)

\* A chunk is cut short or holds a packet that was sent, and these are in order.
FileInOrder ==
  /\ \A i \in DOMAIN file :
       file[i].nr # Cut => file[i].ep \in Ep /\ file[i].nr \in 1 .. sent[file[i].ep]
  /\ \A i, j \in DOMAIN file :
       i < j /\ file[i].ep = file[j].ep /\ file[i].nr # Cut /\ file[j].nr # Cut
         => file[i].nr < file[j].nr

Held(i, k) == done[i].packets[k]

\* The packets that callbacks are still to write were sent, and are in order.
PendingInOrder ==
  \A i \in DOMAIN done : \A k \in DOMAIN done[i].packets :
    /\ Held(i, k) \in {Empty, Bad} \cup 1 .. sent[done[i].ep]
    /\ \A j \in DOMAIN done : \A l \in DOMAIN done[j].packets :
         /\ done[i].ep = done[j].ep /\ (i < j \/ (i = j /\ k < l))
         /\ Held(i, k) > 0 /\ Held(j, l) > 0
         => Held(i, k) < Held(j, l)

\* They go behind what the file holds.
PendingLater ==
  \A h \in DOMAIN file, i \in DOMAIN done : \A k \in DOMAIN done[i].packets :
    file[h].ep = done[i].ep /\ file[h].nr # Cut /\ Held(i, k) > 0
      => file[h].nr < Held(i, k)

\* A recording that is whole holds what was to be found in it.
WholeHolds ==
  whole => /\ \A i \in DOMAIN file : file[i].nr # Cut
           /\ \A ep \in Ep : {file[i].nr : i \in {h \in DOMAIN file : file[h].ep = ep}} = reaped[ep]

RecorderInv ==
  Types /\ FileInOrder /\ PendingInOrder /\ PendingLater /\ WholeHolds

-----------------------------------------------------------------------------
(* Sequences *)

LEMMA Constants == Nx \in Nat \ {0} /\ Ppx \in Nat \ {0} /\ Buffered \in Nat
  BY RecorderAssumption

LEMMA TornType == Torn \in ChunkType /\ Torn.nr = Cut
  BY DEF Torn, Chunk, ChunkType, Cut

LEMMA SeqElements ==
  ASSUME NEW S, NEW s \in Seq(S)
  PROVE  DOMAIN s = 1 .. Len(s) /\ Len(s) \in Nat /\ \A i \in DOMAIN s : i \in Nat /\ s[i] \in S
  OBVIOUS

\* A callback that is through with a packet leaves the others, one place on.
LEMMA AfterPacketHolds ==
  ASSUME NEW d \in Seq(TransferType), d # <<>>, d[1].packets # <<>>
  PROVE  /\ AfterPacket(d) \in Seq(TransferType) /\ DOMAIN AfterPacket(d) = DOMAIN d
         /\ \A i \in DOMAIN d :
              /\ AfterPacket(d)[i].ep = d[i].ep
              /\ i # 1 => AfterPacket(d)[i] = d[i]
         /\ \A k \in DOMAIN AfterPacket(d)[1].packets :
              /\ k + 1 \in DOMAIN d[1].packets
              /\ AfterPacket(d)[1].packets[k] = d[1].packets[k + 1]
<1> DEFINE s == d[1].packets
           g == AfterPacket(d)
<1>0. 1 \in DOMAIN d /\ d[1] \in TransferType
  OBVIOUS
<1>1. 1 \in DOMAIN d /\ d[1] \in TransferType /\ s \in Seq(Int) /\ s # <<>>
  BY <1>0 DEF TransferType
<1>2. Tail(s) \in Seq(Int) /\ Len(Tail(s)) = Len(s) - 1
      /\ \A k \in 1 .. Len(s) - 1 : Tail(s)[k] = s[k + 1]
  BY <1>1
<1>3. g = [d EXCEPT ![1] = [d[1] EXCEPT !.packets = Tail(s)]]
  BY <1>1 DEF AfterPacket
<1>4. [d[1] EXCEPT !.packets = Tail(s)] \in TransferType
      /\ [d[1] EXCEPT !.packets = Tail(s)].packets = Tail(s)
      /\ [d[1] EXCEPT !.packets = Tail(s)].ep = d[1].ep
  BY <1>1, <1>2 DEF TransferType
<1>5. g \in Seq(TransferType) /\ DOMAIN g = DOMAIN d
  BY <1>3, <1>4
<1>6. g[1].packets = Tail(s) /\ g[1].ep = d[1].ep /\ \A i \in DOMAIN d : i # 1 => g[i] = d[i]
  BY <1>1, <1>3, <1>4
<1> HIDE DEF g, s
<1>7. \A k \in DOMAIN Tail(s) : k + 1 \in DOMAIN s /\ Tail(s)[k] = s[k + 1]
  BY <1>1, <1>2
<1> QED
  BY <1>5, <1>6, <1>7 DEF g, s

LEMMA TailHolds ==
  ASSUME NEW d \in Seq(TransferType), d # <<>>
  PROVE  /\ Tail(d) \in Seq(TransferType)
         /\ \A i \in DOMAIN Tail(d) : i + 1 \in DOMAIN d /\ Tail(d)[i] = d[i + 1]
  OBVIOUS

LEMMA AppendHolds ==
  ASSUME NEW S, NEW s \in Seq(S), NEW e \in S
  PROVE  /\ Append(s, e) \in Seq(S) /\ Len(Append(s, e)) = Len(s) + 1
         /\ DOMAIN Append(s, e) = DOMAIN s \cup {Len(s) + 1}
         /\ \A i \in DOMAIN s : Append(s, e)[i] = s[i] /\ i < Len(s) + 1
         /\ Append(s, e)[Len(s) + 1] = e
  OBVIOUS

-----------------------------------------------------------------------------
(* Reading *)

\* Without a chunk cut short there is one way only to read a recording.
LEMMA InvTrue ==
  ASSUME RecorderInv
  PROVE  RecordingTrue
<1> SUFFICES ASSUME NEW S \in Readings(file), NEW ep \in Ep
             PROVE  /\ whole => {file[i].nr : i \in Line(file, S, ep)} = reaped[ep]
                    /\ \A i, j \in Line(file, S, ep) :
                         i < j /\ file[i].nr # Cut /\ file[j].nr # Cut => file[i].nr < file[j].nr
  BY DEF RecordingTrue
<1>0. S \subseteq DOMAIN file
  BY DEF Readings
<1>1. ASSUME whole
      PROVE  {file[i].nr : i \in Line(file, S, ep)} = reaped[ep]
  <2>1. \A i \in DOMAIN file : file[i].nr # Cut
    BY <1>1 DEF RecorderInv, WholeHolds
  <2>2. S = DOMAIN file
    BY <1>0, <2>1 DEF Readings
  <2>3. \A h \in DOMAIN file : file[h].ep # 0
    BY <2>1 DEF RecorderInv, FileInOrder, Ep
  <2>4. Line(file, S, ep) = {h \in DOMAIN file : file[h].ep = ep}
    BY <2>2, <2>3 DEF Line
  <2> QED
    BY <1>1, <2>4 DEF RecorderInv, WholeHolds
<1>2. ASSUME NEW i \in Line(file, S, ep), NEW j \in Line(file, S, ep),
             i < j, file[i].nr # Cut, file[j].nr # Cut
      PROVE  file[i].nr < file[j].nr
  <2>1. i \in DOMAIN file /\ j \in DOMAIN file
    BY <1>0 DEF Line
  <2>2. file[i].ep # 0 /\ file[j].ep # 0
    BY <1>2, <2>1 DEF RecorderInv, FileInOrder, Ep
  <2>3. file[i].ep = file[j].ep
    BY <2>2 DEF Line
  <2> QED
    BY <1>2, <2>1, <2>3 DEF RecorderInv, FileInOrder
<1> QED
  BY <1>1, <1>2

-----------------------------------------------------------------------------
(* Steps *)

\* What callbacks still hold stays in order when some of it is taken off the
\* front: a transfers, and of transfer i the packets up to c[i].
LEMMA TakenOffTheFront ==
  ASSUME RecorderInv, sent' = sent, done' \in Seq(TransferType),
         NEW a \in Nat, NEW c \in [Nat -> Nat],
         \A i \in DOMAIN done' :
           /\ i + a \in DOMAIN done /\ done'[i].ep = done[i + a].ep
           /\ \A k \in DOMAIN done'[i].packets :
                /\ k + c[i] \in DOMAIN done[i + a].packets
                /\ done'[i].packets[k] = done[i + a].packets[k + c[i]]
  PROVE  /\ PendingInOrder'
         /\ \A h \in DOMAIN file, i \in DOMAIN done' : \A k \in DOMAIN done'[i].packets :
              file[h].ep = done'[i].ep /\ file[h].nr # Cut /\ done'[i].packets[k] > 0
                => file[h].nr < done'[i].packets[k]
<1>0. PendingInOrder /\ PendingLater /\ done' \in Seq(TransferType)
  BY DEF RecorderInv
<1>1. ASSUME NEW i \in DOMAIN done', NEW k \in DOMAIN done'[i].packets
      PROVE  /\ i \in Nat /\ k \in Nat /\ i + a \in DOMAIN done
             /\ done'[i].ep = done[i + a].ep
             /\ k + c[i] \in DOMAIN done[i + a].packets
             /\ Held(i, k)' = Held(i + a, k + c[i])
  <2>1. i \in Nat /\ done'[i] \in TransferType
    BY <1>0, SeqElements
  <2>2. done'[i].packets \in Seq(Int)
    BY <2>1 DEF TransferType
  <2>3. k \in Nat
    BY <2>2, SeqElements
  <2> QED
    BY <2>1, <2>3 DEF Held
<1>2. ASSUME NEW i \in DOMAIN done', NEW k \in DOMAIN done'[i].packets
      PROVE  Held(i, k)' \in {Empty, Bad} \cup 1 .. sent'[done'[i].ep]
  <2>1. Held(i + a, k + c[i]) \in {Empty, Bad} \cup 1 .. sent[done[i + a].ep]
    BY <1>0, <1>1 DEF PendingInOrder
  <2> QED
    BY <1>1, <2>1
<1>3. ASSUME NEW i \in DOMAIN done', NEW k \in DOMAIN done'[i].packets,
             NEW j \in DOMAIN done', NEW l \in DOMAIN done'[j].packets,
             done'[i].ep = done'[j].ep, i < j \/ (i = j /\ k < l),
             Held(i, k)' > 0, Held(j, l)' > 0
      PROVE  Held(i, k)' < Held(j, l)'
  <2>1. i + a < j + a \/ (i + a = j + a /\ k + c[i] < l + c[j])
    <3>1. i \in Nat /\ j \in Nat /\ k \in Nat /\ l \in Nat /\ a \in Nat
          /\ c[i] \in Nat /\ c[j] \in Nat
      BY <1>1
    <3>2. CASE i < j
      BY <3>1, <3>2
    <3>3. CASE i = j /\ k < l
      BY <3>1, <3>3
    <3> QED
      BY <1>3, <3>2, <3>3
  <2>2. /\ i + a \in DOMAIN done /\ k + c[i] \in DOMAIN done[i + a].packets
        /\ j + a \in DOMAIN done /\ l + c[j] \in DOMAIN done[j + a].packets
        /\ Held(i, k)' = Held(i + a, k + c[i]) /\ Held(j, l)' = Held(j + a, l + c[j])
        /\ done[i + a].ep = done[j + a].ep
    BY <1>1, <1>3
  <2> QED
    BY <1>0, <1>3, <2>1, <2>2 DEF PendingInOrder
<1>4. PendingInOrder'
  BY <1>2, <1>3 DEF PendingInOrder
<1>5. ASSUME NEW h \in DOMAIN file, NEW i \in DOMAIN done', NEW k \in DOMAIN done'[i].packets,
             file[h].ep = done'[i].ep, file[h].nr # Cut, done'[i].packets[k] > 0
      PROVE  file[h].nr < done'[i].packets[k]
  <2>1. /\ i + a \in DOMAIN done /\ k + c[i] \in DOMAIN done[i + a].packets
        /\ done'[i].packets[k] = Held(i + a, k + c[i]) /\ file[h].ep = done[i + a].ep
    BY <1>1, <1>5 DEF Held
  <2> QED
    BY <1>0, <1>5, <2>1 DEF PendingLater
<1> QED
  BY <1>4, <1>5

LEMMA InitInv == Init => RecorderInv
<1> SUFFICES ASSUME Init PROVE RecorderInv
  OBVIOUS
<1>1. Types
  <2>1. file = <<>> /\ done = <<>> /\ onDisk = 0 /\ out = FALSE /\ whole = TRUE
    BY DEF Init
  <2>2. sent \in [Ep -> Nat] /\ reaped \in [Ep -> SUBSET Nat]
    BY DEF Init
  <2>3. <<>> \in Seq(ChunkType) /\ <<>> \in Seq(TransferType)
    OBVIOUS
  <2> QED
    BY <2>1, <2>2, <2>3 DEF Types
<1>2. DOMAIN file = {} /\ DOMAIN done = {}
  BY DEF Init
<1>3. WholeHolds
  BY <1>2 DEF WholeHolds, Init
<1> QED
  BY <1>1, <1>2, <1>3 DEF RecorderInv, FileInOrder, PendingInOrder, PendingLater

\* The recorder starts with the file as it was, or with none.
LEMMA StartInv ==
  ASSUME RecorderInv, NEW append \in BOOLEAN, NEW opened \in BOOLEAN,
         NEW queued \in [Ep -> 0 .. Nx], Start(append, opened, queued)
  PROVE  RecorderInv'
<1>1. done' = done /\ sent' = sent /\ out' \in BOOLEAN
  BY DEF Start
<1>2. CASE opened /\ ~append
  <2>1. file' = <<>> /\ whole' = TRUE /\ reaped' = [ep \in Ep |-> {}] /\ onDisk' = Len(file')
    BY <1>2 DEF Start
  <2>2. DOMAIN file' = {} /\ onDisk' = 0
    BY <2>1
  <2>3. Types'
    BY <1>1, <2>1, <2>2 DEF RecorderInv, Types
  <2>4. PendingInOrder'
    BY <1>1 DEF RecorderInv, PendingInOrder, Held
  <2>5. WholeHolds'
    BY <2>1, <2>2 DEF WholeHolds
  <2> QED
    BY <2>2, <2>3, <2>4, <2>5 DEF RecorderInv, FileInOrder, PendingLater
<1>3. CASE ~(opened /\ ~append)
  <2>1. file' = file /\ whole' = whole /\ reaped' = reaped /\ onDisk' = Len(file')
    BY <1>3 DEF Start
  <2>2. onDisk' \in Nat
    BY <2>1 DEF RecorderInv, Types
  <2> QED
    BY <1>1, <2>1, <2>2
    DEF RecorderInv, Types, FileInOrder, PendingInOrder, PendingLater, Held, WholeHolds
<1> QED
  BY <1>2, <1>3

\* The transfers that callbacks are to come for are forgotten with the recorder.
LEMMA GoneHolds ==
  ASSUME Gone
  PROVE  /\ done' = <<>> /\ done' \in Seq(TransferType) /\ DOMAIN done' = {}
         /\ out' \in BOOLEAN /\ onDisk' = 0
         /\ PendingInOrder' /\ PendingLater'
<1>1. done' = <<>> /\ DOMAIN done' = {} /\ done' \in Seq(TransferType)
  BY DEF Gone
<1> QED
  BY <1>1 DEF Gone, PendingInOrder, PendingLater

LEMMA ExitInv ==
  ASSUME RecorderInv, Exit
  PROVE  RecorderInv'
<1>1. Gone /\ UNCHANGED <<file, sent, reaped, whole>>
  BY DEF Exit
<1> QED
  BY <1>1, GoneHolds DEF RecorderInv, Types, FileInOrder, WholeHolds

LEMMA QueueInv ==
  ASSUME RecorderInv, NEW ep \in Ep, Queue(ep)
  PROVE  RecorderInv'
<1> DEFINE c == [n \in Nat |-> 0]
<1>1. done # <<>> /\ Head(done).packets = <<>> /\ done' = Tail(done)
      /\ UNCHANGED <<out, file, onDisk, sent, reaped, whole>>
  BY DEF Queue
<1>2. done \in Seq(TransferType)
  BY DEF RecorderInv, Types
<1>3. /\ done' \in Seq(TransferType)
      /\ \A i \in DOMAIN done' : i \in Nat /\ i + 1 \in DOMAIN done /\ done'[i] = done[i + 1]
  BY <1>1, <1>2, TailHolds, SeqElements
<1>4. c \in [Nat -> Nat]
  OBVIOUS
<1>5. \A i \in DOMAIN done' :
        /\ i + 1 \in DOMAIN done /\ done'[i].ep = done[i + 1].ep
        /\ \A k \in DOMAIN done'[i].packets :
             /\ k + c[i] \in DOMAIN done[i + 1].packets
             /\ done'[i].packets[k] = done[i + 1].packets[k + c[i]]
  <2> SUFFICES ASSUME NEW i \in DOMAIN done', NEW k \in DOMAIN done'[i].packets
               PROVE  k + c[i] = k
    BY <1>3
  <2>1. done'[i] \in TransferType
    BY <1>3, SeqElements
  <2>2. done'[i].packets \in Seq(Int)
    BY <2>1 DEF TransferType
  <2> QED
    BY <1>3, <2>2, SeqElements
<1> HIDE DEF c
<1>6. /\ PendingInOrder'
      /\ \A h \in DOMAIN file, i \in DOMAIN done' : \A k \in DOMAIN done'[i].packets :
           file[h].ep = done'[i].ep /\ file[h].nr # Cut /\ done'[i].packets[k] > 0
             => file[h].nr < done'[i].packets[k]
  <2>1. sent' = sent /\ done' \in Seq(TransferType) /\ 1 \in Nat
    BY <1>1, <1>3
  <2> QED
    BY <1>4, <1>5, <2>1, TakenOffTheFront
<1>7. PendingLater'
  BY <1>1, <1>6 DEF PendingLater, Held
<1> QED
  BY <1>1, <1>3, <1>6, <1>7 DEF RecorderInv, Types, FileInOrder, WholeHolds

\* What a kill leaves of the file is its beginning, and perhaps a chunk cut short.
LEMMA KilledInv ==
  ASSUME RecorderInv, Killed
  PROVE  RecorderInv'
<1>1. Gone /\ UNCHANGED <<sent, reaped>>
  BY DEF Killed
<1>2. CASE ~out
  <2>1. UNCHANGED <<file, whole>>
    BY <1>2 DEF Killed
  <2> QED
    BY <1>1, <2>1, GoneHolds DEF RecorderInv, Types, FileInOrder, WholeHolds
<1>3. CASE out
  <2>1. PICK k \in onDisk .. Len(file) :
          \E cut \in {<<>>, <<Torn>>} :
            /\ file' = SubSeq(file, 1, k) \o cut
            /\ whole' = (whole /\ k = Len(file) /\ cut = <<>>)
    BY <1>3 DEF Killed
  <2>2. PICK cut \in {<<>>, <<Torn>>} :
            /\ file' = SubSeq(file, 1, k) \o cut
            /\ whole' = (whole /\ k = Len(file) /\ cut = <<>>)
    BY <2>1
  <2>3. file \in Seq(ChunkType) /\ k \in 0 .. Len(file) /\ Len(file) \in Nat
    BY <2>1, SeqElements DEF RecorderInv, Types
  <2>4. /\ SubSeq(file, 1, k) \in Seq(ChunkType) /\ Len(SubSeq(file, 1, k)) = k
        /\ \A i \in 1 .. k : SubSeq(file, 1, k)[i] = file[i] /\ i \in DOMAIN file
        /\ k = Len(file) => SubSeq(file, 1, k) = file
    BY <2>3
  <2>5. cut = <<>> \/ \E c \in ChunkType : cut = <<c>> /\ c.nr = Cut
    BY <2>2, TornType
  <2> HIDE DEF Chunk
  <2>6. /\ file' \in Seq(ChunkType)
        /\ \A i \in DOMAIN file' : file'[i].nr # Cut => i \in DOMAIN file /\ file'[i] = file[i]
        /\ \A i \in DOMAIN file' : i \in Nat
    <3> DEFINE s == SubSeq(file, 1, k)
    <3> HIDE DEF s
    <3>1. CASE cut = <<>>
      <4>1. file' = s
        BY <2>2, <2>4, <3>1 DEF s
      <4>2. DOMAIN s = 1 .. k
        BY <2>3, <2>4 DEF s
      <4> QED
        BY <2>4, <4>1, <4>2 DEF s
    <3>2. CASE \E c \in ChunkType : cut = <<c>> /\ c.nr = Cut
      <4>1. PICK c \in ChunkType : cut = <<c>> /\ c.nr = Cut
        BY <3>2
      <4>2. file' = Append(s, c)
        BY <2>2, <2>4, <4>1 DEF s
      <4>3. /\ file' \in Seq(ChunkType) /\ DOMAIN file' = DOMAIN s \cup {k + 1}
            /\ file'[k + 1] = c /\ \A i \in DOMAIN s : file'[i] = s[i]
        BY <2>4, <4>2, AppendHolds DEF s
      <4>4. DOMAIN s = 1 .. k
        BY <2>3, <2>4 DEF s
      <4> QED
        BY <2>3, <2>4, <4>1, <4>3, <4>4 DEF s
    <3> QED
      BY <2>5, <3>1, <3>2
  <2>7. whole' \in BOOLEAN /\ (whole' => whole /\ file' = file)
    <3>1. whole' => whole /\ k = Len(file) /\ cut = <<>>
      BY <2>2
    <3>2. ASSUME whole' PROVE file' = file
      BY <2>2, <2>3, <2>4, <3>1, <3>2
    <3> QED
      BY <2>2, <3>1, <3>2
  <2>8. Types'
    BY <1>1, <2>6, <2>7, GoneHolds DEF RecorderInv, Types
  <2>9. FileInOrder'
    BY <1>1, <2>6 DEF RecorderInv, FileInOrder
  <2>10. WholeHolds'
    BY <1>1, <2>7 DEF RecorderInv, WholeHolds
  <2> QED
    BY <1>1, <2>8, <2>9, <2>10, GoneHolds DEF RecorderInv
<1> QED
  BY <1>2, <1>3

\* A packet is written behind all that is in the file, and before all that is
\* still to be written.
LEMMA PacketInv ==
  ASSUME RecorderInv, NEW ep \in Ep, Packet(ep)
  PROVE  RecorderInv'
<1> DEFINE c == [n \in Nat |-> IF n = 1 THEN 1 ELSE 0]
           p == Held(1, 1)
           n == Len(file) + 1
<1>1. done \in Seq(TransferType) /\ file \in Seq(ChunkType)
      /\ sent \in [Ep -> Nat] /\ reaped \in [Ep -> SUBSET Nat]
  BY DEF RecorderInv, Types
<1>2. done # <<>> /\ done[1].ep = ep /\ done[1].packets # <<>> /\ Head(done).packets = done[1].packets
      /\ done' = AfterPacket(done) /\ UNCHANGED <<out, onDisk, sent>>
  BY <1>1 DEF Packet
<1>3. 1 \in DOMAIN done /\ done[1] \in TransferType
  BY <1>1, <1>2
<1>4. done[1].packets \in Seq(Int) /\ 1 \in DOMAIN done[1].packets
      /\ Head(done[1].packets) = done[1].packets[1]
  <2>1. done[1].packets \in Seq(Int)
    BY <1>3 DEF TransferType
  <2> QED
    BY <1>2, <2>1
<1>5. p = Head(Head(done).packets) /\ p \in {Empty, Bad} \cup 1 .. sent[ep]
  <2>1. p = Head(Head(done).packets)
    BY <1>2, <1>4 DEF Held
  <2> QED
    BY <1>2, <1>3, <1>4, <2>1 DEF RecorderInv, PendingInOrder
<1>6. p \in Int /\ sent[ep] \in Nat /\ p \in Nat \ {0} <=> p > 0
  BY <1>1, <1>5 DEF Empty, Bad
<1>7. p > 0 <=> Written(p)
  BY <1>5, <1>6 DEF Written, Empty, Bad
<1>8. /\ done' \in Seq(TransferType) /\ DOMAIN done' = DOMAIN done
      /\ \A i \in DOMAIN done' : i \in Nat /\ done'[i].ep = done[i].ep
           /\ \A k \in DOMAIN done'[i].packets :
                /\ k \in Nat \ {0} /\ k + c[i] \in DOMAIN done[i].packets
                /\ done'[i].packets[k] = done[i].packets[k + c[i]]
  <2>1. done' \in Seq(TransferType) /\ DOMAIN done' = DOMAIN done
    BY <1>1, <1>2, AfterPacketHolds
  <2>2. ASSUME NEW i \in DOMAIN done'
        PROVE  /\ i \in Nat /\ done'[i].ep = done[i].ep
               /\ \A k \in DOMAIN done'[i].packets :
                    /\ k \in Nat \ {0} /\ k + c[i] \in DOMAIN done[i].packets
                    /\ done'[i].packets[k] = done[i].packets[k + c[i]]
    <3>1. i \in Nat /\ done'[i] \in TransferType /\ done'[i].ep = done[i].ep
      BY <1>1, <1>2, <2>1, AfterPacketHolds, SeqElements
    <3>2. done'[i].packets \in Seq(Int)
      BY <3>1 DEF TransferType
    <3>3. \A k \in DOMAIN done'[i].packets : k \in Nat \ {0}
      BY <3>2
    <3>4. CASE i = 1
      <4>1. c[i] = 1
        BY <3>4
      <4> HIDE DEF c
      <4> QED
        BY <1>1, <1>2, <3>1, <3>3, <3>4, <4>1, AfterPacketHolds
    <3>5. CASE i # 1
      <4>1. c[i] = 0 /\ done'[i] = done[i]
        BY <1>1, <1>2, <2>1, <3>1, <3>5, AfterPacketHolds
      <4> HIDE DEF c
      <4> QED
        BY <3>1, <3>3, <4>1
    <3> QED
      BY <3>4, <3>5
  <2> QED
    BY <2>1, <2>2
<1>9. /\ c \in [Nat -> Nat] /\ c[1] = 1
      /\ \A i \in Nat : c[i] \in Nat
  OBVIOUS
<1> HIDE DEF c, p, n
<1>10. /\ PendingInOrder'
       /\ \A h \in DOMAIN file, i \in DOMAIN done' : \A k \in DOMAIN done'[i].packets :
            file[h].ep = done'[i].ep /\ file[h].nr # Cut /\ done'[i].packets[k] > 0
              => file[h].nr < done'[i].packets[k]
  <2>1. sent' = sent /\ done' \in Seq(TransferType) /\ 0 \in Nat
    BY <1>2, <1>8
  <2>2. \A i \in DOMAIN done' :
          /\ i + 0 \in DOMAIN done /\ done'[i].ep = done[i + 0].ep
          /\ \A k \in DOMAIN done'[i].packets :
               /\ k + c[i] \in DOMAIN done[i + 0].packets
               /\ done'[i].packets[k] = done[i + 0].packets[k + c[i]]
    <3>1. \A i \in DOMAIN done' : i + 0 = i
      BY <1>8
    <3> QED
      BY <1>8, <3>1
  <2> QED
    BY <1>9, <2>1, <2>2, TakenOffTheFront
\* This packet comes before the others of its endpoint.
<1>11. ASSUME p > 0, NEW i \in DOMAIN done', NEW k \in DOMAIN done'[i].packets,
              done'[i].ep = ep, done'[i].packets[k] > 0
       PROVE  p < done'[i].packets[k]
  <2>1. i \in DOMAIN done /\ i \in Nat \ {0} /\ k + c[i] \in DOMAIN done[i].packets
        /\ done'[i].packets[k] = Held(i, k + c[i]) /\ done[i].ep = done[1].ep
    BY <1>1, <1>2, <1>8, <1>11, SeqElements DEF Held
  <2>2. 1 < i \/ (1 = i /\ 1 < k + c[i])
    <3>1. CASE i = 1
      <4>1. k \in Nat \ {0} /\ c[i] = 1
        BY <1>8, <1>9, <3>1
      <4> QED
        BY <3>1, <4>1
    <3>2. CASE i # 1
      BY <2>1, <3>2
    <3> QED
      BY <3>1, <3>2
  <2> QED
    BY <1>3, <1>4, <1>11, <2>1, <2>2 DEF RecorderInv, PendingInOrder, p
<1>12. ASSUME p > 0, NEW h \in DOMAIN file, file[h].ep = ep, file[h].nr # Cut
       PROVE  file[h].nr < p
  BY <1>2, <1>3, <1>4, <1>12 DEF RecorderInv, PendingLater, p
\* What becomes of the file.
<1>13. \/ /\ file' = file /\ whole' = whole /\ (~out \/ ~(p > 0))
       \/ /\ out /\ p > 0 /\ file' = Append(file, Chunk(ep, p)) /\ whole' = whole
       \/ /\ ~whole' /\ whole' \in BOOLEAN
          /\ \E x \in ChunkType : x.nr = Cut /\ file' = Append(file, x)
  <2>1. CASE /\ file' = IF out /\ Written(p) THEN Append(file, Chunk(ep, p)) ELSE file
             /\ UNCHANGED whole
    BY <1>7, <2>1
  <2>2. CASE file' = Append(file, Torn) /\ whole' = FALSE
    BY <2>2, TornType
  <2> QED
    BY <1>5, <2>1, <2>2 DEF Packet
<1>14. reaped' = IF out /\ p > 0 THEN [reaped EXCEPT ![ep] = @ \cup {p}] ELSE reaped
  BY <1>5 DEF Packet
<1>15. Types'
  <2>1. whole' \in BOOLEAN
    BY <1>13 DEF RecorderInv, Types
  <2>2. reaped' \in [Ep -> SUBSET Nat]
    BY <1>1, <1>6, <1>14
  <2>3. file' \in Seq(ChunkType)
    <3>1. p > 0 => Chunk(ep, p) \in ChunkType
      BY <1>6 DEF Chunk, ChunkType
    <3>2. \A x \in ChunkType : Append(file, x) \in Seq(ChunkType)
      BY <1>1, AppendHolds
    <3> QED
      BY <1>1, <1>13, <3>1, <3>2
  <2> QED
    BY <1>2, <1>8, <2>1, <2>2, <2>3 DEF RecorderInv, Types
<1>16. CASE file' = file /\ whole' = whole /\ (~out \/ ~(p > 0))
  <2>1. reaped' = reaped
    BY <1>14, <1>16
  <2> QED
    BY <1>2, <1>10, <1>15, <1>16, <2>1
    DEF RecorderInv, FileInOrder, PendingLater, WholeHolds, Held
<1>17. CASE out /\ p > 0 /\ file' = Append(file, Chunk(ep, p)) /\ whole' = whole
  <2>1. Chunk(ep, p) \in ChunkType /\ Chunk(ep, p).ep = ep /\ Chunk(ep, p).nr = p /\ p # Cut
    BY <1>6, <1>17 DEF Chunk, ChunkType, Cut
  <2>2. /\ DOMAIN file' = DOMAIN file \cup {n} /\ n \notin DOMAIN file
        /\ \A i \in DOMAIN file : file'[i] = file[i] /\ i < n /\ i \in Nat
        /\ n \in Nat /\ file'[n].ep = ep /\ file'[n].nr = p
    BY <1>1, <1>17, <2>1, AppendHolds, SeqElements DEF n
  <2>3. FileInOrder'
    <3>1. p \in 1 .. sent[ep]
      BY <1>5, <1>17 DEF Empty, Bad
    <3>2. \A i \in DOMAIN file' :
            file'[i].nr # Cut => file'[i].ep \in Ep /\ file'[i].nr \in 1 .. sent'[file'[i].ep]
      BY <1>2, <2>2, <3>1 DEF RecorderInv, FileInOrder
    <3>3. ASSUME NEW i \in DOMAIN file', NEW j \in DOMAIN file', i < j,
                 file'[i].ep = file'[j].ep, file'[i].nr # Cut, file'[j].nr # Cut
          PROVE  file'[i].nr < file'[j].nr
      <4>1. i \in DOMAIN file
        BY <2>2, <3>3
      <4>2. CASE j \in DOMAIN file
        BY <2>2, <3>3, <4>1, <4>2 DEF RecorderInv, FileInOrder
      <4>3. CASE j = n
        BY <1>12, <1>17, <2>2, <3>3, <4>1, <4>3
      <4> QED
        BY <2>2, <4>2, <4>3
    <3> QED
      BY <3>2, <3>3 DEF FileInOrder
  <2>4. PendingLater'
    BY <1>10, <1>11, <1>17, <2>2 DEF PendingLater, Held
  <2>5. WholeHolds'
    BY <1>1, <1>14, <1>17, <2>1, <2>2 DEF RecorderInv, WholeHolds
  <2> QED
    BY <1>10, <1>15, <2>3, <2>4, <2>5 DEF RecorderInv
<1>18. CASE ~whole' /\ \E x \in ChunkType : x.nr = Cut /\ file' = Append(file, x)
  <2>1. PICK x \in ChunkType : x.nr = Cut /\ file' = Append(file, x)
    BY <1>18
  <2>2. /\ DOMAIN file' = DOMAIN file \cup {n}
        /\ \A i \in DOMAIN file : file'[i] = file[i]
        /\ file'[n].nr = Cut
    BY <1>1, <2>1, AppendHolds DEF n
  <2>3. FileInOrder'
    BY <1>2, <2>2 DEF RecorderInv, FileInOrder
  <2>4. PendingLater'
    BY <1>10, <2>2 DEF PendingLater, Held
  <2> QED
    BY <1>10, <1>15, <1>18, <2>3, <2>4 DEF RecorderInv, WholeHolds
<1> QED
  BY <1>13, <1>16, <1>17, <1>18

\* The packets with data of a transfer are numbered as they come.
LEMMA Numbering ==
  ASSUME NEW data \in SUBSET (1 .. Ppx)
  PROVE  LET nr(j) == Cardinality(data \cap 1 .. j)
         IN  /\ Cardinality(data) \in Nat
             /\ \A j \in data : nr(j) \in 1 .. Cardinality(data)
             /\ \A j, l \in data : j < l => nr(j) < nr(l)
<1> DEFINE nr(j) == Cardinality(data \cap 1 .. j)
<1>1. Ppx \in Nat /\ IsFiniteSet(1 .. Ppx)
  BY Constants, FS_Interval
<1>2. IsFiniteSet(data)
  BY <1>1, FS_Subset
<1>3. Cardinality(data) \in Nat
  BY <1>2, FS_CardinalityType
<1>4. ASSUME NEW j \in data
      PROVE  /\ IsFiniteSet(data \cap 1 .. j) /\ nr(j) \in Nat
             /\ nr(j) <= Cardinality(data) /\ nr(j) # 0
  <2>1. data \cap 1 .. j \subseteq data /\ j \in data \cap 1 .. j
    BY <1>1
  <2>2. IsFiniteSet(data \cap 1 .. j) /\ nr(j) <= Cardinality(data)
    BY <1>2, <2>1, FS_Subset
  <2>3. nr(j) \in Nat
    BY <2>2, FS_CardinalityType
  <2>4. nr(j) # 0
    BY <2>1, <2>2, FS_EmptySet
  <2> QED
    BY <2>2, <2>3, <2>4
<1>5. ASSUME NEW j \in data, NEW l \in data, j < l
      PROVE  nr(j) < nr(l)
  <2>1. data \cap 1 .. j \subseteq data \cap 1 .. l /\ data \cap 1 .. j # data \cap 1 .. l
    <3>1. l \in data \cap 1 .. l /\ l \notin data \cap 1 .. j
      BY <1>1, <1>5
    <3>2. data \cap 1 .. j \subseteq data \cap 1 .. l
      BY <1>1, <1>5
    <3> QED
      BY <3>1, <3>2
  <2>2. IsFiniteSet(data \cap 1 .. l) /\ nr(l) \in Nat /\ nr(j) \in Nat
    BY <1>4
  <2>3. nr(j) <= nr(l) /\ nr(j) # nr(l)
    BY <2>1, <2>2, FS_Subset
  <2> QED
    BY <2>2, <2>3
<1>6. \A j \in data : nr(j) \in 1 .. Cardinality(data)
  BY <1>3, <1>4
<1> QED
  BY <1>3, <1>5, <1>6

\* The packets of a transfer that completes come after all others.
LEMMA CompleteInv ==
  ASSUME RecorderInv, NEW ep \in Ep, NEW kinds \in [1 .. Ppx -> {Data, Empty, Bad}],
         NEW ok \in BOOLEAN, Complete(ep, kinds, ok)
  PROVE  RecorderInv'
<1> DEFINE data == {j \in 1 .. Ppx : kinds[j] # Empty}
           nr(j) == Cardinality(data \cap 1 .. j)
           ps == [j \in 1 .. Ppx |-> IF kinds[j] = Data THEN sent[ep] + nr(j) ELSE kinds[j]]
           t == [ep |-> ep, packets |-> ps, ok |-> ok]
           n == Len(done) + 1
<1>1. /\ sent' = [sent EXCEPT ![ep] = @ + Cardinality(data)]
      /\ done' = Append(done, t)
      /\ UNCHANGED <<out, file, onDisk, reaped, whole>>
  BY DEF Complete
<1>2. done \in Seq(TransferType) /\ file \in Seq(ChunkType) /\ sent \in [Ep -> Nat]
  BY DEF RecorderInv, Types
<1>3. /\ Cardinality(data) \in Nat
      /\ \A j \in data : nr(j) \in 1 .. Cardinality(data)
      /\ \A j, l \in data : j < l => nr(j) < nr(l)
  BY Numbering
<1>4. data \subseteq 1 .. Ppx /\ \A j \in 1 .. Ppx : kinds[j] = Data => j \in data
  BY DEF Data, Empty
<1> HIDE DEF data, nr
<1>5. sent[ep] \in Nat /\ sent' \in [Ep -> Nat] /\ sent'[ep] = sent[ep] + Cardinality(data)
      /\ \A e \in Ep : sent[e] <= sent'[e]
  BY <1>1, <1>2, <1>3
\* The numbers in the new transfer.
<1>6. /\ DOMAIN ps = 1 .. Ppx
      /\ \A k \in 1 .. Ppx : ps[k] \in {Empty, Bad} \cup sent[ep] + 1 .. sent'[ep]
      /\ \A k, l \in 1 .. Ppx : ps[k] > 0 /\ ps[l] > 0 /\ k < l => ps[k] < ps[l]
  <2>1. ASSUME NEW k \in 1 .. Ppx
        PROVE  /\ kinds[k] = Data => ps[k] = sent[ep] + nr(k) /\ nr(k) \in 1 .. Cardinality(data)
               /\ kinds[k] # Data => ps[k] \in {Empty, Bad}
    BY <1>3, <1>4
  <2>2. \A k \in 1 .. Ppx : ps[k] > 0 => kinds[k] = Data
    BY <2>1 DEF Empty, Bad
  <2>3. \A k \in 1 .. Ppx : ps[k] \in {Empty, Bad} \cup sent[ep] + 1 .. sent'[ep]
    BY <1>3, <1>5, <2>1
  <2>4. ASSUME NEW k \in 1 .. Ppx, NEW l \in 1 .. Ppx, ps[k] > 0, ps[l] > 0, k < l
        PROVE  ps[k] < ps[l]
    <3>1. k \in data /\ l \in data
      BY <1>4, <2>2, <2>4
    <3>2. nr(k) < nr(l) /\ nr(k) \in Nat /\ nr(l) \in Nat
      BY <1>3, <2>4, <3>1
    <3>3. ps[k] = sent[ep] + nr(k) /\ ps[l] = sent[ep] + nr(l)
      BY <2>1, <2>2, <2>4
    <3> HIDE DEF ps
    <3> QED
      BY <1>5, <3>2, <3>3
  <2> QED
    BY <2>3, <2>4
<1> HIDE DEF ps
<1>7. t \in TransferType /\ t.packets = ps /\ t.ep = ep
  <2>1. \A k \in 1 .. Ppx : ps[k] \in Int
    BY <1>5, <1>6 DEF Empty, Bad
  <2>2. ps = [k \in 1 .. Ppx |-> ps[k]]
    BY <1>6 DEF ps
  <2>3. ps \in Seq(Int)
    BY <2>1, <2>2, Constants
  <2> QED
    BY <2>3 DEF TransferType
<1> HIDE DEF t
<1>8. /\ done' \in Seq(TransferType)
      /\ DOMAIN done' = DOMAIN done \cup {n}
      /\ \A i \in DOMAIN done : done'[i] = done[i] /\ i < n /\ i \in Nat
      /\ done'[n].packets = ps /\ done'[n].ep = ep /\ n \in Nat
  BY <1>1, <1>2, <1>7, AppendHolds, SeqElements DEF n
<1> HIDE DEF n
\* The old ones are not beyond sent.
<1>9. ASSUME NEW i \in DOMAIN done, NEW k \in DOMAIN done[i].packets
      PROVE  /\ done[i].ep \in Ep
             /\ Held(i, k)' = Held(i, k)
             /\ Held(i, k) \in {Empty, Bad} \cup 1 .. sent[done[i].ep]
  <2>1. done[i] \in TransferType
    BY <1>2, SeqElements
  <2> QED
    BY <1>8, <2>1 DEF RecorderInv, PendingInOrder, Held, TransferType
<1>10. PendingInOrder'
  <2>1. ASSUME NEW i \in DOMAIN done', NEW k \in DOMAIN done'[i].packets
        PROVE  Held(i, k)' \in {Empty, Bad} \cup 1 .. sent'[done'[i].ep]
    <3>1. CASE i \in DOMAIN done
      <4>1. done'[i] = done[i] /\ done[i].ep \in Ep
        BY <1>8, <1>9, <2>1, <3>1
      <4>2. sent[done[i].ep] <= sent'[done[i].ep] /\ sent[done[i].ep] \in Nat /\ sent'[done[i].ep] \in Nat
        BY <1>2, <1>5, <4>1
      <4> QED
        BY <1>9, <2>1, <3>1, <4>1, <4>2
    <3>2. CASE i = n
      <4>1. Held(i, k)' = ps[k] /\ k \in 1 .. Ppx
        BY <1>6, <1>8, <2>1, <3>2 DEF Held
      <4> QED
        BY <1>5, <1>6, <1>8, <3>2, <4>1
    <3> QED
      BY <1>8, <3>1, <3>2
  <2>2. ASSUME NEW i \in DOMAIN done', NEW k \in DOMAIN done'[i].packets,
               NEW j \in DOMAIN done', NEW l \in DOMAIN done'[j].packets,
               done'[i].ep = done'[j].ep, i < j \/ (i = j /\ k < l),
               Held(i, k)' > 0, Held(j, l)' > 0
        PROVE  Held(i, k)' < Held(j, l)'
    <3>1. CASE i \in DOMAIN done /\ j \in DOMAIN done
      <4>1. done'[i] = done[i] /\ done'[j] = done[j]
        BY <1>8, <3>1
      <4>2. Held(i, k)' = Held(i, k) /\ Held(j, l)' = Held(j, l)
        BY <1>9, <2>2, <3>1, <4>1
      <4> QED
        BY <2>2, <3>1, <4>1, <4>2 DEF RecorderInv, PendingInOrder
    <3>2. CASE i \in DOMAIN done /\ j = n
      <4>1. done'[i] = done[i] /\ done[i].ep = ep
        BY <1>8, <2>2, <3>2
      <4>2. Held(i, k)' \in 1 .. sent[ep]
        <5>1. Held(i, k)' = Held(i, k) /\ Held(i, k) \in {Empty, Bad} \cup 1 .. sent[done[i].ep]
          BY <1>9, <2>2, <3>2, <4>1
        <5> QED
          BY <2>2, <4>1, <5>1 DEF Empty, Bad
      <4>3. Held(j, l)' \in sent[ep] + 1 .. sent'[ep]
        <5>1. Held(j, l)' = ps[l] /\ l \in 1 .. Ppx
          BY <1>6, <1>8, <2>2, <3>2 DEF Held
        <5> QED
          BY <1>6, <2>2, <5>1 DEF Empty, Bad
      <4> QED
        BY <1>5, <4>2, <4>3
    <3>3. CASE i = n
      <4>1. j = n /\ k < l
        BY <1>8, <2>2, <3>3
      <4>2. Held(i, k)' = ps[k] /\ Held(j, l)' = ps[l] /\ k \in 1 .. Ppx /\ l \in 1 .. Ppx
        BY <1>6, <1>8, <2>2, <3>3, <4>1 DEF Held
      <4> QED
        BY <1>6, <2>2, <4>1, <4>2
    <3> QED
      BY <1>8, <3>1, <3>2, <3>3
  <2> QED
    BY <2>1, <2>2 DEF PendingInOrder
<1>11. PendingLater'
  <2> SUFFICES ASSUME NEW h \in DOMAIN file, NEW i \in DOMAIN done', NEW k \in DOMAIN done'[i].packets,
                      file[h].ep = done'[i].ep, file[h].nr # Cut, Held(i, k)' > 0
               PROVE  file[h].nr < Held(i, k)'
    BY <1>1 DEF PendingLater
  <2>1. CASE i \in DOMAIN done
    <3>1. done'[i] = done[i] /\ Held(i, k)' = Held(i, k)
      BY <1>8, <1>9, <2>1
    <3> QED
      BY <2>1, <3>1 DEF RecorderInv, PendingLater
  <2>2. CASE i = n
    <3>1. Held(i, k)' = ps[k] /\ k \in 1 .. Ppx /\ file[h].ep = ep
      BY <1>6, <1>8, <2>2 DEF Held
    <3>2. file[h].nr \in 1 .. sent[ep]
      BY <3>1 DEF RecorderInv, FileInOrder
    <3>3. ps[k] \in sent[ep] + 1 .. sent'[ep]
      BY <1>6, <3>1 DEF Empty, Bad
    <3> QED
      BY <1>5, <3>1, <3>2, <3>3
  <2> QED
    BY <1>8, <2>1, <2>2
<1>12. FileInOrder'
  <2>1. ASSUME NEW i \in DOMAIN file, file[i].nr # Cut
        PROVE  file[i].ep \in Ep /\ file[i].nr \in 1 .. sent'[file[i].ep]
    <3>1. file[i].ep \in Ep /\ file[i].nr \in 1 .. sent[file[i].ep]
      BY <2>1 DEF RecorderInv, FileInOrder
    <3>2. sent[file[i].ep] <= sent'[file[i].ep] /\ sent[file[i].ep] \in Nat /\ sent'[file[i].ep] \in Nat
      BY <1>2, <1>5, <3>1
    <3> QED
      BY <3>1, <3>2
  <2> QED
    BY <1>1, <2>1 DEF RecorderInv, FileInOrder
<1> QED
  BY <1>1, <1>5, <1>8, <1>10, <1>11, <1>12 DEF RecorderInv, Types, WholeHolds

LEMMA StepInv ==
  ASSUME RecorderInv, [Next]_vars
  PROVE  RecorderInv'
<1>1. CASE UNCHANGED vars
  BY <1>1 DEF vars, RecorderInv, Types, FileInOrder, PendingInOrder, PendingLater, Held, WholeHolds
<1>2. CASE \E append, opened \in BOOLEAN, queued \in [Ep -> 0 .. Nx] : Start(append, opened, queued)
  BY <1>2, StartInv
<1>3. CASE Bus
  BY <1>3, CompleteInv DEF Bus
<1>4. CASE \E ep \in Ep : Callback(ep)
  BY <1>4, PacketInv, QueueInv DEF Callback
<1>5. CASE Exit
  BY <1>5, ExitInv
<1>6. CASE Killed
  BY <1>6, KilledInv
<1> QED
  BY <1>1, <1>2, <1>3, <1>4, <1>5, <1>6 DEF Next

\* Each direction's deframer is handed its packets in order and once, and all
\* of them as long as nothing was lost in writing, for any number of transfers
\* and of packets in one, whatever fails and however often the recorder is killed
\* and run again (cb_xfr of e1-tracer-record.c, process_file of dump.c).
THEOREM RecordingIsTrue == Spec => []RecordingTrue
<1>1. Init => RecorderInv
  BY InitInv
<1>2. RecorderInv /\ [Next]_vars => RecorderInv'
  BY StepInv
<1>3. RecorderInv => RecordingTrue
  BY InvTrue
<1> QED
  BY <1>1, <1>2, <1>3, PTL DEF Spec

=============================================================================
