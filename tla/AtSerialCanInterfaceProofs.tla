--------------------- MODULE AtSerialCanInterfaceProofs ---------------------
(***************************************************************************)
(* Proofs about AtSerialCanInterface, for all ports: whatever frames are   *)
(* sent either way, however read() and write() cut the stream, whatever    *)
(* fails.  What receive returns is proved for ports without line noise:    *)
(* the format has no checksum, and some noises add up to a packet.         *)
(***************************************************************************)
EXTENDS AtSerialCanInterface, SequenceTheorems, TLAPS

----------------------------------------------------------------------------
\* The format of a packet.

\* The provers spell an interval of numbers out: these are its members.
LEMMA ByteInterval ==
  ASSUME NEW m \in Int, m = 255
  PROVE  \A k : k \in Byte <=> k \in Int /\ 0 <= k /\ k <= m
<1>1. \A k : k \in 0 .. m <=> k \in Int /\ 0 <= k /\ k <= m
  OBVIOUS
<1>2. Byte = 0 .. m
  BY SMT DEF Byte
<1> QED
  BY <1>1, <1>2

\* The same for the number the code uses.
LEMMA ByteFacts == \A k : k \in Byte <=> k \in Int /\ 0 <= k /\ k <= 255
BY ByteInterval

\* What a frame is.
LEMMA FrameFacts ==
  ASSUME NEW f \in Frame
  PROVE  /\ f = [id |-> f.id, data |-> f.data]
         /\ f.id = <<f.id[1], f.id[2], f.id[3], f.id[4]>>
         /\ f.id[1] \in Int /\ 0 <= f.id[1] /\ f.id[1] <= 31
         /\ f.id[2] \in Byte /\ f.id[3] \in Byte /\ f.id[4] \in Byte
         /\ f.data \in Seq(Byte) /\ Len(f.data) \in Nat /\ Len(f.data) <= 8
<1>1. /\ f = [id |-> f.id, data |-> f.data]
      /\ f.id \in (0 .. 31) \X Byte \X Byte \X Byte
      /\ f.data \in {bytes \in Seq(Byte) : Len(bytes) <= 8}
  BY DEF Frame
<1> DEFINE I == 0 .. 31
<1>2. \A i \in I : i \in Int /\ 0 <= i /\ i <= 31
  OBVIOUS
<1> HIDE DEF I
<1>3. /\ f.id = <<f.id[1], f.id[2], f.id[3], f.id[4]>>
      /\ f.id[1] \in I /\ f.id[2] \in Byte /\ f.id[3] \in Byte /\ f.id[4] \in Byte
  <2>1. \A J, B, x : x \in J \X B \X B \X B =>
          x[1] \in J /\ x[2] \in B /\ x[3] \in B /\ x[4] \in B /\ x = <<x[1], x[2], x[3], x[4]>>
    OBVIOUS
  <2> DEFINE id == f.id
             C == Byte
  <2>2. id \in I \X C \X C \X C
    BY <1>1 DEF I
  <2> HIDE DEF id, C
  <2>3. id[1] \in I /\ id[2] \in C /\ id[3] \in C /\ id[4] \in C /\ id = <<id[1], id[2], id[3], id[4]>>
    BY <2>1, <2>2
  <2> QED
    BY <2>3 DEF id, C
<1>4. f.data \in Seq(Byte) /\ Len(f.data) \in Nat /\ Len(f.data) <= 8
  BY <1>1
<1> QED
  BY <1>1, <1>2, <1>3, <1>4

\* Shifting the identifier by three bits loses nothing of it.
LEMMA PackedFacts ==
  ASSUME NEW f \in Frame
  PROVE  /\ packed(f.id) \in Seq(Byte) /\ Len(packed(f.id)) = 4
         /\ unpacked(packed(f.id)) = f.id
<1> DEFINE a == f.id[1]
           b == f.id[2]
           c == f.id[3]
           d == f.id[4]
<1>1. /\ a \in Int /\ 0 <= a /\ a <= 31
      /\ b \in Int /\ 0 <= b /\ b <= 255
      /\ c \in Int /\ 0 <= c /\ c <= 255
      /\ d \in Int /\ 0 <= d /\ d <= 255
      /\ f.id = <<a, b, c, d>>
  BY FrameFacts, ByteFacts
<1> DEFINE p == a * 8 + (b \div 32)
           q == ((b % 32) * 8) + (c \div 32)
           r == ((c % 32) * 8) + (d \div 32)
           s == ((d % 32) * 8) + 4
<1>2. packed(f.id) = <<p, q, r, s>>
  BY DEF packed
<1> HIDE DEF a, b, c, d
<1>3. /\ p \in Int /\ 0 <= p /\ p <= 255 /\ q \in Int /\ 0 <= q /\ q <= 255
      /\ r \in Int /\ 0 <= r /\ r <= 255 /\ s \in Int /\ 0 <= s /\ s <= 255
  BY <1>1
<1>4. /\ p \div 8 = a /\ ((p % 8) * 32) + (q \div 8) = b
      /\ ((q % 8) * 32) + (r \div 8) = c /\ ((r % 8) * 32) + (s \div 8) = d
  BY <1>1
<1> HIDE DEF p, q, r, s
<1>5. p \in Byte /\ q \in Byte /\ r \in Byte /\ s \in Byte
  BY <1>3, ByteFacts
<1>6. unpacked(<<p, q, r, s>>) = <<a, b, c, d>>
  BY <1>4 DEF unpacked
<1>7. <<p, q, r, s>> \in Seq(Byte) /\ Len(<<p, q, r, s>>) = 4
  BY <1>5
<1> QED
  BY <1>1, <1>2, <1>6, <1>7, Zenon

\* Shifted back, four bytes make an identifier of 29 bits.
LEMMA UnpackedFacts ==
  ASSUME NEW p \in Seq(Byte), Len(p) = 4
  PROVE  unpacked(p) \in (0 .. 31) \X Byte \X Byte \X Byte
<1> DEFINE I == 0 .. 31
<1>1. \A i \in Int : 0 <= i /\ i <= 31 => i \in I
  OBVIOUS
<1>2. \A i \in 1 .. 4 : p[i] \in Int /\ 0 <= p[i] /\ p[i] <= 255
  <2>1. \A i \in 1 .. 4 : p[i] \in Byte
    OBVIOUS
  <2> QED
    BY <2>1, ByteFacts
<1> DEFINE a == p[1]
           b == p[2]
           c == p[3]
           d == p[4]
           w == a \div 8
           x == ((a % 8) * 32) + (b \div 8)
           y == ((b % 8) * 32) + (c \div 8)
           z == ((c % 8) * 32) + (d \div 8)
<1>3. /\ a \in Int /\ 0 <= a /\ a <= 255 /\ b \in Int /\ 0 <= b /\ b <= 255
      /\ c \in Int /\ 0 <= c /\ c <= 255 /\ d \in Int /\ 0 <= d /\ d <= 255
  BY <1>2
<1>4. unpacked(p) = <<w, x, y, z>>
  BY DEF unpacked
<1> HIDE DEF a, b, c, d
<1>5. /\ w \in Int /\ 0 <= w /\ w <= 31 /\ x \in Int /\ 0 <= x /\ x <= 255
      /\ y \in Int /\ 0 <= y /\ y <= 255 /\ z \in Int /\ 0 <= z /\ z <= 255
  BY <1>3
<1> HIDE DEF w, x, y, z, I
<1>6. w \in I /\ x \in Byte /\ y \in Byte /\ z \in Byte
  BY <1>1, <1>5, ByteFacts
<1>7. <<w, x, y, z>> \in I \X Byte \X Byte \X Byte
  BY <1>6, Zenon
<1> QED
  BY <1>4, <1>7 DEF I

\* A piece of a sequence of bytes.
LEMMA Piece ==
  ASSUME NEW s \in Seq(Byte), NEW m \in Nat \ {0}, NEW n \in 0 .. Len(s), m <= n + 1
  PROVE  SubSeq(s, m, n) \in Seq(Byte) /\ Len(SubSeq(s, m, n)) = (n + 1) - m
<1>1. m \in Int /\ n \in Int /\ Len(s) \in Nat
  OBVIOUS
<1>2. \A i \in m .. n : s[i] \in Byte
  BY <1>1
<1>3. /\ SubSeq(s, m, n) \in Seq(Byte)
      /\ Len(SubSeq(s, m, n)) = IF m <= n THEN (n - m) + 1 ELSE 0
  BY <1>1, <1>2, SubSeqProperties
<1> QED
  BY <1>1, <1>3

\* What poll makes of a packet is a frame, because its length byte is looked at.
LEMMA ExtractedIsFrame ==
  ASSUME buffer \in Seq(Byte), TailMatches
  PROVE  [id |-> unpacked(SubSeq(buffer, 3, 6)),
          data |-> SubSeq(buffer, 8, total - tail_size)] \in Frame
<1> DEFINE n == buffer[7]
           p == SubSeq(buffer, 3, 6)
           d == SubSeq(buffer, 8, n + 7)
<1>1. Len(buffer) \in Nat /\ n <= 8 /\ Len(buffer) >= 7 + n + 2 /\ Len(buffer) >= 9
  BY DEF TailMatches, Whole, Header, Long, total, header_size, tail_size
<1>2. n \in Int /\ 0 <= n
  <2>1. 7 \in 1 .. Len(buffer)
    BY <1>1
  <2> QED
    BY <2>1, ByteFacts
<1>3. total - tail_size = n + 7
  BY <1>2 DEF total, header_size, tail_size
<1> HIDE DEF n
<1>4. p \in Seq(Byte) /\ Len(p) = 4
  <2>1. 3 \in Nat \ {0} /\ 6 \in 0 .. Len(buffer) /\ 3 <= 6 + 1 /\ (6 + 1) - 3 = 4
    BY <1>1
  <2> QED
    BY <2>1, Piece
<1>5. d \in Seq(Byte) /\ Len(d) <= 8
  <2> DEFINE k == n + 7
  <2>1. /\ 8 \in Nat \ {0} /\ k \in 0 .. Len(buffer) /\ 8 <= k + 1 /\ (k + 1) - 8 <= 8
    BY <1>1, <1>2
  <2> HIDE DEF k
  <2>2. SubSeq(buffer, 8, k) \in Seq(Byte) /\ Len(SubSeq(buffer, 8, k)) = (k + 1) - 8
    BY <2>1, Piece
  <2> QED
    BY <2>1, <2>2 DEF k
<1> HIDE DEF p, d
<1>6. unpacked(p) \in (0 .. 31) \X Byte \X Byte \X Byte
  BY <1>4, UnpackedFacts
<1>7. [id |-> unpacked(p), data |-> d] \in Frame
  BY <1>5, <1>6, Zenon DEF Frame
<1> QED
  BY <1>3, <1>7 DEF p, d

\* Two sequences of bytes, one after the other.
LEMMA Joining ==
  ASSUME NEW s \in Seq(Byte), NEW t \in Seq(Byte)
  PROVE  /\ s \o t \in Seq(Byte) /\ Len(s) \in Nat /\ Len(t) \in Nat
         /\ Len(s \o t) = Len(s) + Len(t)
         /\ \A i \in 1 .. Len(s) : (s \o t)[i] = s[i]
         /\ \A i \in 1 .. Len(t) : (s \o t)[Len(s) + i] = t[i]
<1>1. Len(s) \in Nat /\ Len(t) \in Nat
  OBVIOUS
<1>2. s \o t \in Seq(Byte) /\ Len(s \o t) = Len(s) + Len(t)
  BY ConcatProperties
<1>3. \A i \in 1 .. Len(s) + Len(t) : (s \o t)[i] = IF i <= Len(s) THEN s[i] ELSE t[i - Len(s)]
  BY ConcatProperties
<1> QED
  BY <1>1, <1>2, <1>3

\* A packet: where its parts are.
LEMMA PacketFacts ==
  ASSUME NEW f \in Frame
  PROVE  LET e == encode_frame(f)
             n == Len(f.data)
         IN  /\ e \in Seq(Byte) /\ Len(e) = n + 9
             /\ e[1] = A /\ e[2] = T /\ e[7] = n
             /\ e[n + 8] = CR /\ e[n + 9] = LF
             /\ \A i \in 1 .. 4 : e[i + 2] = packed(f.id)[i]
             /\ \A i \in 1 .. n : e[i + 7] = f.data[i]
<1> DEFINE n == Len(f.data)
           p == packed(f.id)
           d == f.data
           head == <<A, T>>
           size == <<n>>
           tail == <<CR, LF>>
           s == head \o p
           t == s \o size
           u == t \o d
           v == u \o tail
<1>1. p \in Seq(Byte) /\ Len(p) = 4 /\ d \in Seq(Byte) /\ n = Len(d) /\ n \in Nat /\ n <= 8
  BY PackedFacts, FrameFacts
<1>2. /\ head \in Seq(Byte) /\ Len(head) = 2 /\ head[1] = A /\ head[2] = T
      /\ tail \in Seq(Byte) /\ Len(tail) = 2 /\ tail[1] = CR /\ tail[2] = LF
      /\ size \in Seq(Byte) /\ Len(size) = 1 /\ size[1] = n
  <2>1. A \in Byte /\ T \in Byte /\ CR \in Byte /\ LF \in Byte
    BY ByteFacts DEF A, T, CR, LF
  <2> HIDE DEF n
  <2>2. n \in Byte
    BY <1>1, ByteFacts
  <2> QED
    BY <2>1, <2>2
<1>3. encode_frame(f) = v
  BY DEF encode_frame
<1> HIDE DEF n, p, d, head, size, tail
<1>4. /\ s \in Seq(Byte) /\ Len(s) = 6 /\ s[1] = A /\ s[2] = T
      /\ \A i \in 1 .. 4 : s[i + 2] = p[i]
  <2>1. /\ s \in Seq(Byte) /\ Len(s) = Len(head) + Len(p)
        /\ \A i \in 1 .. Len(head) : s[i] = head[i]
        /\ \A i \in 1 .. Len(p) : s[Len(head) + i] = p[i]
    BY <1>1, <1>2, Joining
  <2> HIDE DEF s
  <2> QED
    BY <1>1, <1>2, <2>1
<1> HIDE DEF s
<1>5. /\ t \in Seq(Byte) /\ Len(t) = 7 /\ t[7] = n /\ \A i \in 1 .. 6 : t[i] = s[i]
  <2>1. /\ t \in Seq(Byte) /\ Len(t) = Len(s) + Len(size)
        /\ \A i \in 1 .. Len(s) : t[i] = s[i]
        /\ \A i \in 1 .. Len(size) : t[Len(s) + i] = size[i]
    BY <1>2, <1>4, Joining
  <2> HIDE DEF t
  <2> QED
    BY <1>2, <1>4, <2>1
<1> HIDE DEF t
<1>6. /\ u \in Seq(Byte) /\ Len(u) = n + 7 /\ \A i \in 1 .. 7 : u[i] = t[i]
      /\ \A i \in 1 .. n : u[i + 7] = d[i]
  <2>1. /\ u \in Seq(Byte) /\ Len(u) = Len(t) + Len(d)
        /\ \A i \in 1 .. Len(t) : u[i] = t[i]
        /\ \A i \in 1 .. Len(d) : u[Len(t) + i] = d[i]
    BY <1>1, <1>5, Joining
  <2> HIDE DEF u
  <2> QED
    BY <1>1, <1>5, <2>1
<1> HIDE DEF u
<1>7. /\ v \in Seq(Byte) /\ Len(v) = n + 9 /\ \A i \in 1 .. n + 7 : v[i] = u[i]
      /\ v[n + 8] = CR /\ v[n + 9] = LF
  <2>1. /\ v \in Seq(Byte) /\ Len(v) = Len(u) + Len(tail)
        /\ \A i \in 1 .. Len(u) : v[i] = u[i]
        /\ \A i \in 1 .. Len(tail) : v[Len(u) + i] = tail[i]
    BY <1>2, <1>6, Joining
  <2> HIDE DEF v
  <2>2. v[Len(u) + 1] = CR /\ v[Len(u) + 2] = LF
    BY <1>2, <2>1
  <2> QED
    BY <1>1, <1>2, <1>6, <2>1, <2>2
<1> HIDE DEF v
<1>8. /\ v \in Seq(Byte) /\ Len(v) = n + 9
      /\ v[1] = A /\ v[2] = T /\ v[7] = n /\ v[n + 8] = CR /\ v[n + 9] = LF
      /\ \A i \in 1 .. 4 : v[i + 2] = p[i]
      /\ \A i \in 1 .. n : v[i + 7] = d[i]
  <2>1. n \in Nat /\ \A i \in 1 .. n + 7 : v[i] = u[i]
    BY <1>1, <1>7
  <2>2. 1 \in 1 .. 7 /\ 2 \in 1 .. 7 /\ 7 \in 1 .. 7 /\ \A i \in 1 .. 4 : i + 2 \in 1 .. 7
    OBVIOUS
  <2>3. \A i \in 1 .. 7 : v[i] = t[i]
    BY <1>6, <2>1
  <2>4. \A i \in 1 .. n : v[i + 7] = d[i]
    BY <1>6, <2>1
  <2>5. /\ v[1] = A /\ v[2] = T /\ v[7] = n
        /\ \A i \in 1 .. 4 : v[i + 2] = p[i]
    BY <1>4, <1>5, <2>2, <2>3
  <2> QED
    BY <1>7, <2>4, <2>5
<1> QED
  BY <1>3, <1>8, Zenon DEF n, p, d

----------------------------------------------------------------------------
\* The state, and what send gives the port.

\* TypeOK, and what the packet being written is: without the frame it belongs
\* to, WritesWhole says nothing of the bytes still to come.
SerialInv ==
    /\ TypeOK
    /\ pc = "write" => sending \in port.outgoing
    /\ WritesWhole

\* A piece and the rest of it.
LEMMA Cut ==
  ASSUME NEW s \in Seq(Byte), NEW n \in 1 .. Len(s)
  PROVE  /\ SubSeq(s, 1, n) \in Seq(Byte) /\ SubSeq(s, n + 1, Len(s)) \in Seq(Byte)
         /\ SubSeq(s, 1, n) \o SubSeq(s, n + 1, Len(s)) = s
<1>1. Len(s) \in Nat /\ \A i \in 1 .. Len(s) : s[i] \in Byte
  OBVIOUS
<1>2. SubSeq(s, 1, n) \in Seq(Byte) /\ SubSeq(s, n + 1, Len(s)) \in Seq(Byte)
  <2>1. (\A i \in 1 .. n : s[i] \in Byte) /\ (\A i \in n + 1 .. Len(s) : s[i] \in Byte)
    BY <1>1
  <2> QED
    BY <1>1, <2>1, SubSeqProperties
<1>3. SubSeq(s, 1, n) \o SubSeq(s, n + 1, Len(s)) = SubSeq(s, 1, Len(s))
  <2>1. /\ 1 \in 1 .. Len(s) + 1 /\ n \in 1 - 1 .. Len(s) /\ Len(s) \in n .. Len(s)
    BY <1>1
  <2> QED
    BY <2>1, ConcatAdjacentSubSeq
<1> QED
  BY <1>2, <1>3, SubSeqFull

\* Three sequences of bytes joined from either end are the same.
LEMMA Regrouping ==
  ASSUME NEW s \in Seq(Byte), NEW t \in Seq(Byte), NEW u \in Seq(Byte)
  PROVE  (s \o t) \o u = s \o (t \o u)
<1> DEFINE B == Byte
<1>1. s \in Seq(B) /\ t \in Seq(B) /\ u \in Seq(B)
  OBVIOUS
<1> HIDE DEF B
<1> QED
  BY <1>1, ConcatAssociative

\* A piece moved from the front of the second to the end of the first of two
\* sequences leaves them, one after the other, as they were.
LEMMA Moved ==
  ASSUME NEW s \in Seq(Byte), NEW t \in Seq(Byte), NEW n \in 1 .. Len(t)
  PROVE  (s \o SubSeq(t, 1, n)) \o SubSeq(t, n + 1, Len(t)) = s \o t
<1> DEFINE u == SubSeq(t, 1, n)
           v == SubSeq(t, n + 1, Len(t))
<1>1. u \in Seq(Byte) /\ v \in Seq(Byte) /\ u \o v = t
  BY Cut
<1> HIDE DEF u, v
<1>2. (s \o u) \o v = s \o (u \o v)
  BY <1>1, Regrouping
<1>3. (s \o u) \o v = s \o t
  BY <1>1, <1>2
<1> QED
  BY <1>3 DEF u, v

\* The frames of a port.
LEMMA PortFacts ==
  ASSUME AtSerialAssumption, NEW p \in Ports
  PROVE  /\ p.incoming \subseteq Frame /\ p.outgoing \subseteq Frame
         /\ p.noise \subseteq Seq(Byte)
         /\ p.arrivals \in Nat /\ p.sends \in Nat
BY DEF AtSerialAssumption

\* A port just opened.
LEMMA SerialInit == ASSUME AtSerialAssumption PROVE Init => SerialInv
<1> SUFFICES ASSUME Init PROVE SerialInv
  OBVIOUS
<1>1. expired \in BOOLEAN /\ hungup \in BOOLEAN
  BY Zenon DEF Init
<1>2. TypeOK
  BY <1>1, PortFacts DEF Init, TypeOK
<1> QED
  BY <1>2 DEF Init, SerialInv, WritesWhole

\* The steps of receive.
LEMMA ReceiveSteps ==
  ASSUME SerialInv,
         Receive \/ Skip \/ Extract \/ PollNothing \/ CheckDeadline \/ SelectTimesOut
           \/ Interrupted \/ ReceiveFails \/ Read
  PROVE  SerialInv'
<1>1. buffer' \in Seq(Byte) /\ line' \in Seq(Byte)
  <2>1. buffer \in Seq(Byte) /\ line \in Seq(Byte)
    BY DEF SerialInv, TypeOK
  <2>2. CASE Skip
    <3>1. buffer # <<>> /\ buffer' = Tail(buffer) /\ line' = line
      BY <2>1, <2>2 DEF Skip, Long, Resync, lineVars, header_size, tail_size
    <3> QED
      BY <2>1, <3>1, HeadTailProperties
  <2>3. CASE Extract
    <3>1. /\ buffer' = SubSeq(buffer, total + 1, Len(buffer)) /\ line' = line
          /\ buffer[7] \in Int /\ buffer[7] >= 0
      <4>1. Len(buffer) >= 9 /\ Len(buffer) \in Nat
        BY <2>1, <2>3 DEF Extract, TailMatches, Whole, Header, Long, header_size, tail_size
      <4>2. buffer[7] \in Byte
        BY <2>1, <4>1
      <4> QED
        BY <2>3, <4>2, ByteFacts DEF Extract, Erase, lineVars
    <3>2. total + 1 \in Int /\ total + 1 >= 1 /\ Len(buffer) \in Int
      BY <2>1, <3>1 DEF total, header_size, tail_size
    <3> HIDE DEF total
    <3>3. \A i \in total + 1 .. Len(buffer) : buffer[i] \in Byte
      BY <2>1, <3>2
    <3> QED
      BY <2>1, <3>1, <3>2, <3>3, SubSeqProperties
  <2>4. CASE Read
    <3>1. CASE UNCHANGED <<buffer, line>>
      BY <2>1, <3>1
    <3>2. ASSUME NEW n \in 1 .. Len(line),
                 buffer' = buffer \o SubSeq(line, 1, n), line' = SubSeq(line, n + 1, Len(line))
          PROVE  buffer' \in Seq(Byte) /\ line' \in Seq(Byte)
      BY <2>1, <3>2, Cut, ConcatProperties
    <3> QED
      BY <2>4, <3>1, <3>2 DEF Read
  <2> QED
    BY <2>1, <2>2, <2>3, <2>4
       DEF Receive, PollNothing, CheckDeadline, SelectTimesOut, Interrupted, ReceiveFails,
           receiveVars, lineVars
<1>2. pc' \in {"idle", "poll", "deadline", "select"} /\ pc # "write"
      /\ result' \in {"none", "frame", "nullopt", "error"}
  BY DEF SerialInv, TypeOK, Receive, Skip, Extract, PollNothing, CheckDeadline, SelectTimesOut,
         Interrupted, ReceiveFails, Read, Finish
<1>3. UNCHANGED <<sendVars, port, hungup, sent, arrivals>>
  BY DEF Receive, Skip, Extract, PollNothing, CheckDeadline, SelectTimesOut,
         Interrupted, ReceiveFails, Read, lineVars
<1>4. expired' \in BOOLEAN
  BY Zenon DEF SerialInv, TypeOK, Receive, Skip, Extract, PollNothing, CheckDeadline,
         SelectTimesOut, Interrupted, ReceiveFails, Read, receiveVars
<1>5. got' \in Seq(Frame)
  <2>1. buffer \in Seq(Byte) /\ got \in Seq(Frame)
    BY DEF SerialInv, TypeOK
  <2>2. CASE Extract
    <3> DEFINE f == [id |-> unpacked(SubSeq(buffer, 3, 6)),
                     data |-> SubSeq(buffer, 8, total - tail_size)]
               F == Frame
    <3>1. f \in F /\ got' = Append(got, f) /\ got \in Seq(F)
      BY <2>1, <2>2, ExtractedIsFrame DEF Extract
    <3> HIDE DEF f, F
    <3>2. got' \in Seq(F)
      BY <3>1, AppendProperties
    <3> QED
      BY <3>2 DEF F
  <2>3. CASE ~Extract
    <3>1. UNCHANGED got
      BY <2>3 DEF Receive, Skip, PollNothing, CheckDeadline, SelectTimesOut, Interrupted,
                  ReceiveFails, Read, receiveVars
    <3> QED
      BY <2>1, <3>1
  <2> QED
    BY <2>2, <2>3
<1>6. TypeOK'
  BY <1>1, <1>2, <1>3, <1>4, <1>5 DEF SerialInv, TypeOK, sendVars
<1> QED
  BY <1>2, <1>3, <1>6 DEF SerialInv, WritesWhole, sendVars

\* The steps of send: what is written and what is left make up the packet.
LEMMA SendSteps ==
  ASSUME AtSerialAssumption, SerialInv,
         (\E f \in port.outgoing : Send(f)) \/ Write \/ WriteFails
  PROVE  SerialInv'
<1>1. port \in Ports /\ packet \in Seq(Byte) /\ out \in Seq(Byte) /\ due \in Seq(Byte)
  BY DEF SerialInv, TypeOK
<1>2. ASSUME NEW f \in port.outgoing, Send(f) PROVE SerialInv'
  <2>1. encode_frame(f) \in Seq(Byte)
    BY <1>1, PortFacts, PacketFacts
  <2>2. sends' \in 0 .. port.sends
    BY <1>1, <1>2, PortFacts DEF SerialInv, TypeOK, Send
  <2>3. TypeOK'
    BY <1>2, <2>1, <2>2 DEF SerialInv, TypeOK, Send, receiveVars, lineVars
  <2>4. out = due /\ pc' = "write" /\ UNCHANGED <<port, out, due>>
        /\ packet' = encode_frame(f) /\ sending' = f
    BY <1>2 DEF SerialInv, WritesWhole, Send, lineVars
  <2> QED
    BY <2>3, <2>4 DEF SerialInv, WritesWhole
<1>3. CASE Write
  <2> DEFINE e == encode_frame(sending)
  <2>1. pc = "write" /\ sending \in port.outgoing /\ out \o packet = due \o e
        /\ UNCHANGED <<port, sending>>
    BY <1>3 DEF SerialInv, WritesWhole, Write, lineVars
  <2>2. e \in Seq(Byte)
    BY <1>1, <2>1, PortFacts, PacketFacts
  <2>3. PICK n \in 1 .. Len(packet) : out' = out \o SubSeq(packet, 1, n)
                                      /\ packet' = SubSeq(packet, n + 1, Len(packet))
    BY <1>3 DEF Write, Rest
  <2>4. out' \in Seq(Byte) /\ packet' \in Seq(Byte) /\ out' \o packet' = due \o e
    <3>1. out' \o packet' = out \o packet
      BY <1>1, <2>3, Moved
    <3>2. SubSeq(packet, 1, n) \in Seq(Byte) /\ packet' \in Seq(Byte)
      BY <1>1, <2>3, Cut
    <3>3. out' \in Seq(Byte)
      BY <1>1, <2>3, <3>2, ConcatProperties
    <3> QED
      BY <2>1, <3>1, <3>2, <3>3
  <2>5. IF packet' = <<>> THEN pc' = "idle" /\ due' = due \o e ELSE UNCHANGED <<pc, due>>
    BY <1>3 DEF Write
  <2> HIDE DEF e
  <2>6. due' \in Seq(Byte)
    <3>1. due \o e \in Seq(Byte)
      BY <1>1, <2>2, Joining
    <3> QED
      BY <1>1, <2>5, <3>1
  <2>7. packet' = <<>> => out' = due'
    BY <2>4, <2>5, ConcatEmptySeq
  <2>8. TypeOK'
    BY <1>3, <2>4, <2>5, <2>6 DEF SerialInv, TypeOK, Write, receiveVars, lineVars
  <2>9. WritesWhole'
    BY <2>1, <2>4, <2>5, <2>7 DEF WritesWhole, e
  <2> QED
    BY <2>1, <2>8, <2>9 DEF SerialInv
<1>4. CASE WriteFails
  <2>1. TypeOK'
    BY <1>1, <1>4 DEF SerialInv, TypeOK, WriteFails, Finish, receiveVars, lineVars
  <2> QED
    BY <1>4, <2>1 DEF SerialInv, WritesWhole, WriteFails, Finish
<1> QED
  BY <1>2, <1>3, <1>4

\* The steps of the module, the tty and the clock.
LEMMA OutsideSteps ==
  ASSUME AtSerialAssumption, SerialInv, Arrive \/ HangUp \/ Tick
  PROVE  SerialInv'
<1>1. port \in Ports /\ line \in Seq(Byte) /\ sent \in Seq(port.incoming)
  BY DEF SerialInv, TypeOK
<1>2. CASE Arrive
  <2>1. line' \in Seq(Byte) /\ sent' \in Seq(port.incoming)
    <3>1. ASSUME NEW f \in port.incoming, line' = line \o encode_frame(f), sent' = Append(sent, f)
          PROVE  line' \in Seq(Byte) /\ sent' \in Seq(port.incoming)
      <4>1. encode_frame(f) \in Seq(Byte)
        BY <1>1, PortFacts, PacketFacts
      <4> QED
        BY <1>1, <3>1, <4>1, ConcatProperties, AppendProperties
    <3>2. ASSUME NEW n \in port.noise, line' = line \o n, sent' = sent
          PROVE  line' \in Seq(Byte) /\ sent' \in Seq(port.incoming)
      BY <1>1, <3>2, PortFacts, ConcatProperties
    <3> QED
      BY <1>2, <3>1, <3>2 DEF Arrive
  <2>2. arrivals' \in 0 .. port.arrivals
    BY <1>1, <1>2, PortFacts DEF SerialInv, TypeOK, Arrive
  <2> QED
    BY <1>2, <2>1, <2>2 DEF SerialInv, TypeOK, WritesWhole, Arrive, receiveVars, sendVars
<1>3. CASE HangUp
  <2>1. hungup' \in BOOLEAN
    BY <1>3, Zenon DEF HangUp
  <2> QED
    BY <1>3, <2>1 DEF SerialInv, TypeOK, WritesWhole, HangUp, receiveVars, sendVars
<1>4. CASE Tick
  <2>1. expired' \in BOOLEAN
    BY <1>4, Zenon DEF Tick
  <2> QED
    BY <1>4, <2>1 DEF SerialInv, TypeOK, WritesWhole, Tick, sendVars, lineVars
<1> QED
  BY <1>2, <1>3, <1>4

\* It holds in every state of every run.
LEMMA SerialInvariant == Spec => []SerialInv
<1>1. Init => SerialInv
  BY SerialInit, AtSerialAssumption
<1>2. SerialInv /\ [Next]_vars => SerialInv'
  <2>1. CASE UNCHANGED vars
    BY <2>1 DEF SerialInv, TypeOK, WritesWhole, vars
  <2> QED
    BY <2>1, ReceiveSteps, SendSteps, OutsideSteps, AtSerialAssumption DEF Next, Driver
<1> QED
  BY <1>1, <1>2, PTL DEF Spec

\* Every variable stays in its domain, on any port.
THEOREM SerialTypeTheorem == Spec => []TypeOK
<1>1. SerialInv => TypeOK
  BY DEF SerialInv
<1> QED
  BY <1>1, SerialInvariant, PTL

\* However write() cuts a packet, send gives the port all of it, once and in
\* order; if it throws, a part of it, and all of the packets after.
THEOREM WritesWholeTheorem == Spec => []WritesWhole
<1>1. SerialInv => WritesWhole
  BY DEF SerialInv
<1> QED
  BY <1>1, SerialInvariant, PTL

----------------------------------------------------------------------------
\* What receive returns, on a line without noise.

\* Only packets come down the line.
Quiet == \A p \in Ports : p.noise = {}

size(f) == Len(encode_frame(f))

\* `bytes` holds the packets of `frames` from number n + 1 on, one after the
\* other: `at` is where each ends in the whole stream.
Placed(at, n, frames, bytes) ==
    /\ at \in [0 .. Len(frames) -> Nat]
    /\ \A i \in 1 .. Len(frames) : at[i] = at[i - 1] + size(frames[i])
    /\ \A i, j \in 0 .. Len(frames) : i <= j => at[i] <= at[j]
    /\ Len(bytes) = at[Len(frames)] - at[n]
    /\ \A i \in n + 1 .. Len(frames) : \A k \in 1 .. size(frames[i]) :
         bytes[at[i - 1] - at[n] + k] = encode_frame(frames[i])[k]

\* The parser has looked at what it has: not all of the next packet.
Looked ==
    pc \in {"deadline", "select"} /\ Len(got) < Len(sent) =>
      Len(buffer) < size(sent[Len(got) + 1])

\* The buffer and the line together hold the packets not yet returned, and
\* nothing else: FramesInOrder alone does not say where the next one starts.
QuietInv ==
    /\ SerialInv
    /\ FramesInOrder
    /\ got \in Seq(port.incoming)
    /\ \E at : Placed(at, Len(got), sent, buffer \o line)
    /\ Looked

\* The first packet.
LEMMA PlacedFirst ==
  ASSUME NEW at, NEW frames \in Seq(Frame), NEW n \in 0 .. Len(frames),
         NEW bytes \in Seq(Byte), Placed(at, n, frames, bytes)
  PROVE  /\ n = Len(frames) => Len(bytes) = 0
         /\ n # Len(frames) => /\ Len(bytes) >= size(frames[n + 1])
                               /\ \A k \in 1 .. size(frames[n + 1]) :
                                    bytes[k] = encode_frame(frames[n + 1])[k]
<1> DEFINE L == Len(frames)
<1>1. L \in Nat /\ n \in Nat /\ n <= L /\ \A i \in 0 .. L : at[i] \in Nat
  BY DEF Placed
<1>2. /\ \A i \in 1 .. L : at[i] = at[i - 1] + size(frames[i])
      /\ \A i, j \in 0 .. L : i <= j => at[i] <= at[j]
      /\ Len(bytes) = at[L] - at[n]
      /\ \A i \in n + 1 .. L : \A k \in 1 .. size(frames[i]) :
           bytes[at[i - 1] - at[n] + k] = encode_frame(frames[i])[k]
  BY DEF Placed
<1>3. CASE n = L
  BY <1>1, <1>2, <1>3
<1>4. CASE n # L
  <2> DEFINE f == frames[n + 1]
  <2>1. f \in Frame /\ size(f) \in Nat
    <3>1. f \in Frame
      BY <1>1, <1>4
    <3> QED
      BY <3>1, PacketFacts DEF size
  <2>2. /\ n + 1 \in 1 .. L /\ n + 1 \in n + 1 .. L /\ n + 1 \in 0 .. L /\ L \in 0 .. L
        /\ (n + 1) - 1 = n /\ n \in 0 .. L
    BY <1>1, <1>4
  <2>3. at[n + 1] = at[n] + size(f) /\ at[n + 1] <= at[L]
        /\ \A k \in 1 .. size(f) : bytes[at[n] - at[n] + k] = encode_frame(f)[k]
    BY <1>2, <2>2
  <2> HIDE DEF L, f
  <2>4. Len(bytes) >= size(f)
    BY <1>1, <1>2, <2>1, <2>2, <2>3
  <2>5. \A k \in 1 .. size(f) : at[n] - at[n] + k = k
    BY <1>1, <2>1, <2>2
  <2>6. \A k \in 1 .. size(f) : bytes[k] = encode_frame(f)[k]
    BY <2>3, <2>5
  <2> QED
    BY <1>4, <2>4, <2>6 DEF f, L
<1> QED
  BY <1>3, <1>4

\* Without it the others are in place.
LEMMA PlacedDrop ==
  ASSUME NEW at, NEW frames \in Seq(Frame), NEW n \in 0 .. Len(frames), n # Len(frames),
         NEW bytes \in Seq(Byte), Placed(at, n, frames, bytes),
         NEW rest \in Seq(Byte), Len(rest) = Len(bytes) - size(frames[n + 1]),
         \A k \in 1 .. Len(rest) : rest[k] = bytes[size(frames[n + 1]) + k]
  PROVE  Placed(at, n + 1, frames, rest)
<1> DEFINE L == Len(frames)
           w == size(frames[n + 1])
<1>1. L \in Nat /\ n \in Nat /\ n < L /\ \A i \in 0 .. L : at[i] \in Nat
  <2>1. L \in Nat /\ n \in 0 .. L /\ n # L
    OBVIOUS
  <2>2. \A i \in 0 .. L : at[i] \in Nat
    BY DEF Placed
  <2> HIDE DEF L
  <2> QED
    BY <2>1, <2>2
<1>2. /\ \A i \in 1 .. L : at[i] = at[i - 1] + size(frames[i])
      /\ \A i, j \in 0 .. L : i <= j => at[i] <= at[j]
      /\ Len(bytes) = at[L] - at[n]
      /\ \A i \in n + 1 .. L : \A k \in 1 .. size(frames[i]) :
           bytes[at[i - 1] - at[n] + k] = encode_frame(frames[i])[k]
  BY DEF Placed
<1>3. w \in Nat
  <2>1. frames[n + 1] \in Frame
    BY <1>1
  <2> QED
    BY <2>1, PacketFacts DEF size
<1>4. at[n + 1] = at[n] + w /\ at[n] \in Nat /\ at[n + 1] \in Nat /\ at[L] \in Nat
  <2>1. /\ n + 1 \in 1 .. L /\ n \in 0 .. L /\ n + 1 \in 0 .. L /\ L \in 0 .. L
        /\ (n + 1) - 1 = n
    BY <1>1
  <2> QED
    BY <1>1, <1>2, <2>1
<1>5. Len(rest) = at[L] - at[n + 1] /\ \A k \in 1 .. Len(rest) : rest[k] = bytes[w + k]
  BY <1>2, <1>3, <1>4
<1>6. Len(rest) \in Nat /\ Len(rest) = at[L] - at[n + 1]
  BY <1>5
<1> HIDE DEF L, w
<1>7. ASSUME NEW i \in n + 2 .. L, NEW k \in 1 .. size(frames[i])
      PROVE  rest[at[i - 1] - at[n + 1] + k] = encode_frame(frames[i])[k]
  <2>1. /\ i \in n + 1 .. L /\ i \in 1 .. L /\ i \in 0 .. L /\ i - 1 \in 0 .. L
        /\ n + 1 \in 0 .. L /\ n + 1 <= i - 1 /\ L \in 0 .. L /\ i <= L
    BY <1>1
  <2>2. /\ at[i - 1] \in Nat /\ at[i] \in Nat /\ at[n + 1] <= at[i - 1] /\ at[i] <= at[L]
        /\ at[i] = at[i - 1] + size(frames[i])
        /\ bytes[at[i - 1] - at[n] + k] = encode_frame(frames[i])[k]
    BY <1>1, <1>2, <2>1
  <2>3. size(frames[i]) \in Nat /\ k \in Int /\ 1 <= k /\ k <= size(frames[i])
    <3>1. frames[i] \in Frame
      BY <2>1 DEF L
    <3>2. size(frames[i]) \in Nat
      BY <3>1, PacketFacts DEF size
    <3> QED
      BY <3>2
  <2> DEFINE j == at[i - 1] - at[n + 1] + k
  <2>4. j \in Int /\ 1 <= j /\ j <= Len(rest) /\ w + j = at[i - 1] - at[n] + k
    <3> DEFINE x == at[i - 1]
               y == at[i]
               u == at[n]
               v == at[n + 1]
               z == at[L]
               len == size(frames[i])
               left == Len(rest)
    <3>1. /\ x \in Nat /\ y \in Nat /\ v <= x /\ y <= z /\ y = x + len
          /\ len \in Nat /\ k \in Int /\ 1 <= k /\ k <= len
      BY <2>2, <2>3
    <3>2. /\ v = u + w /\ u \in Nat /\ v \in Nat /\ z \in Nat /\ w \in Nat
          /\ left \in Nat /\ left = z - v
      BY <1>3, <1>4, <1>6
    <3> HIDE DEF x, y, u, v, z, len, left
    <3>3. x - v + k \in Int /\ 1 <= x - v + k /\ x - v + k <= left
      BY <3>1, <3>2
    <3>4. w + (x - v + k) = x - u + k
      BY <3>1, <3>2
    <3> QED
      BY <3>3, <3>4 DEF x, u, v, left
  <2> HIDE DEF j
  <2>5. rest[j] = bytes[w + j]
    <3>1. j \in 1 .. Len(rest)
      BY <1>6, <2>4
    <3> QED
      BY <1>5, <3>1
  <2> QED
    BY <2>2, <2>4, <2>5 DEF j
<1>8. (n + 1) + 1 = n + 2
  BY <1>1
<1> QED
  BY <1>2, <1>5, <1>7, <1>8 DEF Placed, L

\* One more packet at the end.
LEMMA PlacedAppend ==
  ASSUME NEW at, NEW frames \in Seq(Frame), NEW n \in 0 .. Len(frames),
         NEW bytes \in Seq(Byte), Placed(at, n, frames, bytes), NEW f \in Frame
  PROVE  \E more : Placed(more, n, Append(frames, f), bytes \o encode_frame(f))
<1> DEFINE L == Len(frames)
           e == encode_frame(f)
           all == Append(frames, f)
           b == bytes \o e
           more == [i \in 0 .. L + 1 |-> IF i = L + 1 THEN at[L] + size(f) ELSE at[i]]
<1>1. L \in Nat /\ n \in Nat /\ n <= L /\ \A i \in 0 .. L : at[i] \in Nat
  BY DEF Placed
<1>2. /\ \A i \in 1 .. L : at[i] = at[i - 1] + size(frames[i])
      /\ \A i, j \in 0 .. L : i <= j => at[i] <= at[j]
      /\ Len(bytes) = at[L] - at[n]
      /\ \A i \in n + 1 .. L : \A k \in 1 .. size(frames[i]) :
           bytes[at[i - 1] - at[n] + k] = encode_frame(frames[i])[k]
  BY DEF Placed
<1>3. e \in Seq(Byte) /\ size(f) \in Nat /\ size(f) = Len(e)
  BY PacketFacts DEF size
<1>4. /\ all \in Seq(Frame) /\ Len(all) = L + 1 /\ all[L + 1] = f
      /\ \A i \in 1 .. L : all[i] = frames[i]
  BY AppendProperties
<1>5. /\ Len(b) = Len(bytes) + size(f) /\ Len(bytes) \in Nat
      /\ \A i \in 1 .. Len(bytes) : b[i] = bytes[i]
      /\ \A i \in 1 .. size(f) : b[Len(bytes) + i] = e[i]
  BY <1>3, Joining
<1>6. /\ \A i \in 0 .. L : more[i] = at[i]
      /\ more[L + 1] = at[L] + size(f)
      /\ more \in [0 .. L + 1 -> Nat]
  <2>1. (\A i \in 0 .. L : more[i] = at[i]) /\ more[L + 1] = at[L] + size(f)
    BY <1>1
  <2>2. at[L] + size(f) \in Nat
    BY <1>1, <1>3
  <2>3. \A i \in 0 .. L + 1 : i # L + 1 => i \in 0 .. L
    BY <1>1
  <2> QED
    BY <1>1, <2>1, <2>2, <2>3
<1> HIDE DEF L, all, b, e, more
<1>7. \A i \in 1 .. L + 1 : more[i] = more[i - 1] + size(all[i])
  <2> TAKE i \in 1 .. L + 1
  <2>1. CASE i = L + 1
    <3>1. i - 1 = L /\ L \in 0 .. L
      BY <1>1, <2>1
    <3> QED
      BY <1>4, <1>6, <2>1, <3>1
  <2>2. CASE i # L + 1
    <3>1. i \in 1 .. L /\ i \in 0 .. L /\ i - 1 \in 0 .. L
      BY <1>1, <2>2
    <3> QED
      BY <1>2, <1>4, <1>6, <3>1
  <2> QED
    BY <2>1, <2>2
<1>8. \A i, j \in 0 .. L + 1 : i <= j => more[i] <= more[j]
  <2> TAKE i, j \in 0 .. L + 1
  <2> HAVE i <= j
  <2>1. CASE i = L + 1
    <3>1. j = i
      BY <1>1, <2>1
    <3>2. more[i] \in Nat
      BY <1>6
    <3> QED
      BY <3>1, <3>2
  <2>2. CASE i # L + 1 /\ j = L + 1
    <3>1. i \in 0 .. L /\ L \in 0 .. L /\ i <= L
      BY <1>1, <2>2
    <3>2. more[i] = at[i] /\ more[j] = at[L] + size(f) /\ at[i] <= at[L]
      BY <1>2, <1>6, <2>2, <3>1
    <3> QED
      BY <1>1, <1>3, <3>1, <3>2
  <2>3. CASE i # L + 1 /\ j # L + 1
    <3>1. i \in 0 .. L /\ j \in 0 .. L
      BY <1>1, <2>3
    <3> QED
      BY <1>2, <1>6, <3>1
  <2> QED
    BY <2>1, <2>2, <2>3
<1>9. Len(b) = more[L + 1] - more[n]
  <2>1. more[n] = at[n] /\ at[n] \in Nat /\ at[L] \in Nat
    BY <1>1, <1>6
  <2>2. /\ Len(b) = Len(bytes) + size(f) /\ more[L + 1] = at[L] + size(f)
        /\ Len(bytes) = at[L] - at[n]
    BY <1>2, <1>5, <1>6
  <2> QED
    BY <1>3, <2>1, <2>2
<1>10. ASSUME NEW i \in n + 1 .. L + 1, NEW k \in 1 .. size(all[i])
       PROVE  b[more[i - 1] - more[n] + k] = encode_frame(all[i])[k]
  <2>1. more[n] = at[n] /\ at[n] \in Nat /\ at[L] \in Nat
    BY <1>1, <1>6
  <2>2. CASE i = L + 1
    <3>1. i - 1 = L /\ L \in 0 .. L /\ all[i] = f
      BY <1>1, <1>4, <2>2
    <3>2. more[i - 1] = at[L]
      BY <1>6, <3>1
    <3>3. more[i - 1] - more[n] + k = Len(bytes) + k
      BY <1>2, <2>1, <3>2
    <3> QED
      BY <1>5, <3>1, <3>3 DEF e
  <2>3. CASE i # L + 1
    <3>1. /\ i \in n + 1 .. L /\ i \in 1 .. L /\ i - 1 \in 0 .. L /\ i \in 0 .. L
          /\ L \in 0 .. L /\ i <= L /\ n \in 0 .. L /\ n <= i - 1
      BY <1>1, <2>3
    <3>2. /\ all[i] = frames[i] /\ more[i - 1] = at[i - 1]
          /\ at[i - 1] \in Nat /\ at[i] \in Nat /\ at[n] <= at[i - 1] /\ at[i] <= at[L]
          /\ at[i] = at[i - 1] + size(frames[i])
      BY <1>1, <1>2, <1>4, <1>6, <3>1
    <3>3. size(frames[i]) \in Nat /\ k \in Int /\ 1 <= k /\ k <= size(frames[i])
      <4>1. frames[i] \in Frame
        BY <3>1 DEF L
      <4>2. size(frames[i]) \in Nat
        BY <4>1, PacketFacts DEF size
      <4> QED
        BY <3>2, <4>2
    <3>4. bytes[at[i - 1] - at[n] + k] = encode_frame(frames[i])[k]
      BY <1>2, <3>1, <3>2, <3>3
    <3>5. at[i - 1] - at[n] + k \in 1 .. Len(bytes)
      <4> DEFINE x == at[i - 1]
                 y == at[i]
      <4>1. /\ x \in Nat /\ y \in Nat /\ at[n] <= x /\ y <= at[L]
            /\ y = x + size(frames[i])
        BY <3>2
      <4>2. Len(bytes) = at[L] - at[n] /\ Len(bytes) \in Nat
        BY <1>2, <1>5
      <4> DEFINE z == size(frames[i])
                 low == at[n]
                 high == at[L]
      <4>3. low \in Nat /\ high \in Nat /\ low <= x /\ y <= high /\ y = x + z
            /\ Len(bytes) = high - low /\ z \in Nat /\ 1 <= k /\ k <= z
        BY <2>1, <3>3, <4>1, <4>2
      <4> HIDE DEF x, y, z, low, high
      <4>5. x - low + k \in Int /\ 1 <= x - low + k /\ x - low + k <= high - low
        BY <3>3, <4>1, <4>3
      <4>4. x - low + k \in 1 .. Len(bytes)
        BY <4>2, <4>3, <4>5
      <4> QED
        BY <4>4 DEF x, low
    <3> QED
      BY <1>5, <2>1, <3>2, <3>4, <3>5
  <2> QED
    BY <2>2, <2>3
<1>11. Placed(more, n, all, b)
  BY <1>4, <1>6, <1>7, <1>8, <1>9, <1>10 DEF Placed
<1> QED
  BY <1>11 DEF all, b, e

\* The buffer starts with packet f, as far as it goes.
Starts(f) == \A k \in 1 .. size(f) : k <= Len(buffer) => buffer[k] = encode_frame(f)[k]

\* poll finds the packet as soon as it is whole, and never drops a byte of it.
LEMMA PollFacts ==
  ASSUME NEW f \in Frame, buffer \in Seq(Byte), Starts(f)
  PROVE  /\ Long => Header /\ total = size(f)
         /\ ~Long => Len(buffer) < size(f)
         /\ Long /\ ~Whole => Len(buffer) < size(f)
         /\ Whole => TailMatches /\ Len(buffer) >= size(f)
<1> DEFINE n == Len(f.data)
           e == encode_frame(f)
<1>1. /\ size(f) = n + 9 /\ n \in Nat /\ n <= 8
      /\ e[1] = A /\ e[2] = T /\ e[7] = n /\ e[n + 8] = CR /\ e[n + 9] = LF
  BY PacketFacts, FrameFacts DEF size
<1>2. Len(buffer) \in Nat /\ \A k \in 1 .. n + 9 : k <= Len(buffer) => buffer[k] = e[k]
  BY <1>1 DEF Starts
<1> HIDE DEF n, e
<1>3. Long <=> Len(buffer) >= 9
  BY DEF Long, header_size, tail_size
<1>4. Long => buffer[1] = A /\ buffer[2] = T /\ buffer[7] = n
  BY <1>1, <1>2, <1>3
<1>5. Long => Header /\ total = n + 9
  BY <1>1, <1>4 DEF Header, total, header_size, tail_size
<1>6. ~Long => Len(buffer) < n + 9
  BY <1>1, <1>2, <1>3
<1>7. Whole => Long
  BY DEF Whole, Header
<1>8. Whole <=> Long /\ Len(buffer) >= n + 9
  BY <1>5, <1>7 DEF Whole
<1>9. Whole => buffer[n + 8] = CR /\ buffer[n + 9] = LF
  BY <1>1, <1>2, <1>8
<1>10. Whole => TailMatches
  <2> SUFFICES ASSUME Whole PROVE TailMatches
    OBVIOUS
  <2>1. total = n + 9 /\ (n + 9) - 1 = n + 8
    BY <1>1, <1>5, <1>7
  <2> QED
    BY <1>9, <2>1 DEF TailMatches
<1> QED
  BY <1>1, <1>2, <1>5, <1>6, <1>8, <1>10

\* What is extracted is the frame.
LEMMA ExtractFacts ==
  ASSUME NEW f \in Frame, buffer \in Seq(Byte), Starts(f), Len(buffer) >= size(f),
         total = size(f)
  PROVE  [id |-> unpacked(SubSeq(buffer, 3, 6)),
          data |-> SubSeq(buffer, 8, total - tail_size)] = f
<1> DEFINE n == Len(f.data)
           e == encode_frame(f)
           p == packed(f.id)
           d == f.data
           x == SubSeq(buffer, 3, 6)
           y == SubSeq(buffer, 8, n + 7)
<1>1. /\ size(f) = n + 9 /\ n \in Nat /\ d \in Seq(Byte) /\ Len(d) = n
      /\ \A i \in 1 .. 4 : e[i + 2] = p[i]
      /\ \A i \in 1 .. n : e[i + 7] = d[i]
      /\ p \in Seq(Byte) /\ Len(p) = 4
      /\ unpacked(p) = f.id
      /\ f = [id |-> f.id, data |-> d]
  BY PacketFacts, FrameFacts, PackedFacts DEF size
<1>2. /\ Len(buffer) \in Nat /\ Len(buffer) >= n + 9
      /\ \A k \in 1 .. n + 9 : buffer[k] = e[k]
      /\ \A k \in 1 .. Len(buffer) : buffer[k] \in Byte
  <2>1. size(f) = n + 9 /\ Len(buffer) \in Nat /\ n \in Nat
    BY <1>1
  <2>2. \A k \in 1 .. n + 9 : k <= Len(buffer) => buffer[k] = e[k]
    BY <2>1 DEF Starts
  <2>3. Len(buffer) >= n + 9
    BY <2>1
  <2> HIDE DEF n, e
  <2> QED
    BY <2>1, <2>2, <2>3
<1>3. total - tail_size = n + 7
  BY <1>1 DEF tail_size
<1> HIDE DEF n, e, p, d
<1>4. x = p
  <2>1. \A k \in 3 .. 6 : k \in 1 .. Len(buffer)
    BY <1>1, <1>2
  <2>2. /\ x \in Seq(Byte) /\ Len(x) = 4 /\ \A i \in 1 .. 4 : x[i] = buffer[i + 2]
    BY <1>2, <2>1, SubSeqProperties
  <2> HIDE DEF x
  <2>3. \A i \in 1 .. 4 : i + 2 \in 1 .. n + 9
    BY <1>1
  <2>4. \A i \in 1 .. 4 : x[i] = p[i]
    BY <1>1, <1>2, <2>2, <2>3
  <2> QED
    BY <1>1, <2>2, <2>4, SeqEqual
<1>5. y = d
  <2>1. \A k \in 8 .. n + 7 : k \in 1 .. Len(buffer)
    BY <1>1, <1>2
  <2>2. n + 7 \in Int /\ 8 \in Int /\ (n + 7) - 8 + 1 = n /\ \A i \in 1 .. n : 8 + i - 1 = i + 7
    BY <1>1
  <2>3. /\ y \in Seq(Byte) /\ Len(y) = IF 8 <= n + 7 THEN (n + 7) - 8 + 1 ELSE 0
        /\ \A i \in 1 .. (n + 7) - 8 + 1 : y[i] = buffer[8 + i - 1]
    BY <1>2, <2>1, <2>2, SubSeqProperties
  <2> HIDE DEF y
  <2>4. Len(y) = n
    BY <1>1, <2>3
  <2>5. \A i \in 1 .. n : i + 7 \in 1 .. n + 9
    BY <1>1
  <2>6. \A i \in 1 .. n : y[i] = d[i]
    <3> TAKE i \in 1 .. n
    <3>1. i \in 1 .. (n + 7) - 8 + 1 /\ 8 + i - 1 = i + 7
      BY <1>1
    <3>2. y[i] = buffer[i + 7]
      BY <2>3, <3>1
    <3> QED
      BY <1>1, <1>2, <2>5, <3>2
  <2> QED
    BY <1>1, <2>3, <2>4, <2>6, SeqEqual
<1> HIDE DEF x, y
<1> QED
  BY <1>1, <1>3, <1>4, <1>5 DEF x, y, d

\* What the stream starts with.
LEMMA NextPacket ==
  ASSUME AtSerialAssumption, QuietInv
  PROVE  /\ Len(got) \in Nat /\ Len(sent) \in Nat /\ Len(got) <= Len(sent)
         /\ Len(got) = Len(sent) => buffer = <<>> /\ line = <<>>
         /\ Len(got) # Len(sent) =>
              LET f == sent[Len(got) + 1]
              IN  f \in Frame /\ Starts(f) /\ Len(buffer) + Len(line) >= size(f)
<1>1. /\ buffer \in Seq(Byte) /\ line \in Seq(Byte)
      /\ sent \in Seq(port.incoming) /\ port \in Ports /\ got \in Seq(port.incoming)
      /\ Len(got) <= Len(sent)
  BY DEF QuietInv, SerialInv, TypeOK, FramesInOrder
<1>2. sent \in Seq(Frame) /\ Len(got) \in 0 .. Len(sent)
  <2>1. port.incoming \subseteq Frame
    BY <1>1, PortFacts
  <2> QED
    BY <1>1, <2>1
<1> DEFINE n == Len(got)
           L == Len(sent)
           s == buffer \o line
           f == sent[n + 1]
<1>3. /\ s \in Seq(Byte) /\ Len(buffer) \in Nat /\ Len(line) \in Nat
      /\ Len(s) = Len(buffer) + Len(line)
      /\ \A i \in 1 .. Len(buffer) : s[i] = buffer[i]
  BY <1>1, Joining
<1>4. /\ n = L => Len(s) = 0
      /\ n # L => Len(s) >= size(f) /\ \A k \in 1 .. size(f) : s[k] = encode_frame(f)[k]
  <2>1. \E at : Placed(at, n, sent, s)
    BY DEF QuietInv
  <2> HIDE DEF s
  <2> QED
    BY <1>2, <1>3, <2>1, PlacedFirst
<1>5. n # L => f \in Frame /\ size(f) \in Nat
  <2>1. n # L => f \in Frame
    BY <1>1, <1>2
  <2> QED
    BY <2>1, PacketFacts DEF size
<1> HIDE DEF s, f
<1>6. n = L => buffer = <<>> /\ line = <<>>
  <2>1. n = L => Len(buffer) = 0 /\ Len(line) = 0
    BY <1>3, <1>4
  <2> QED
    BY <1>1, <2>1
<1>7. n # L => Starts(f) /\ Len(buffer) + Len(line) >= size(f)
  <2> SUFFICES ASSUME n # L PROVE Starts(f) /\ Len(buffer) + Len(line) >= size(f)
    OBVIOUS
  <2>1. Len(buffer) + Len(line) >= size(f)
    BY <1>3, <1>4
  <2>2. \A k \in 1 .. size(f) : k <= Len(buffer) => k \in 1 .. Len(buffer)
    BY <1>3, <1>5
  <2> QED
    BY <1>3, <1>4, <2>1, <2>2 DEF Starts
<1> QED
  BY <1>1, <1>2, <1>5, <1>6, <1>7 DEF f

\* Extract takes the next packet out of the buffer and returns its frame.
LEMMA ExtractStep ==
  ASSUME AtSerialAssumption, QuietInv, Extract
  PROVE  /\ Len(got) # Len(sent) /\ got' = Append(got, sent[Len(got) + 1])
         /\ \E at : Placed(at, Len(got) + 1, sent, buffer' \o line')
<1> DEFINE n == Len(got)
           f == sent[n + 1]
<1>1. /\ buffer \in Seq(Byte) /\ line \in Seq(Byte) /\ port \in Ports
      /\ sent \in Seq(port.incoming)
  BY DEF QuietInv, SerialInv, TypeOK
<1>2. Long /\ Whole
  BY DEF Extract, TailMatches, Whole, Header
<1>3. n # Len(sent)
  <2> SUFFICES ASSUME n = Len(sent) PROVE FALSE
    OBVIOUS
  <2>1. buffer = <<>>
    BY NextPacket
  <2> QED
    BY <1>2, <2>1 DEF Long, header_size, tail_size
<1>4. f \in Frame /\ Starts(f)
  BY <1>3, NextPacket
<1> HIDE DEF f
<1>5. total = size(f) /\ Len(buffer) >= size(f)
  BY <1>1, <1>2, <1>4, PollFacts
<1>6. got' = Append(got, f)
  BY <1>1, <1>4, <1>5, ExtractFacts DEF Extract
<1> DEFINE w == size(f)
           s == buffer \o line
           b == SubSeq(buffer, w + 1, Len(buffer))
           r == b \o line
<1>7. buffer' = b /\ line' = line
  BY <1>5 DEF Extract, Erase, lineVars
<1>8. w \in Nat /\ w >= 1
  BY <1>4, PacketFacts, FrameFacts DEF size
<1>9. /\ s \in Seq(Byte) /\ Len(buffer) \in Nat /\ Len(line) \in Nat
      /\ Len(s) = Len(buffer) + Len(line)
      /\ \A i \in 1 .. Len(buffer) : s[i] = buffer[i]
      /\ \A i \in 1 .. Len(line) : s[Len(buffer) + i] = line[i]
  BY <1>1, Joining
<1>17. Len(buffer) >= w
  BY <1>5
<1> HIDE DEF w, s
<1>10. /\ b \in Seq(Byte) /\ Len(b) = Len(buffer) - w
       /\ \A i \in 1 .. Len(b) : b[i] = buffer[w + i]
  <2>1. \A k \in w + 1 .. Len(buffer) : buffer[k] \in Byte
    BY <1>1, <1>8
  <2>2. w + 1 \in Int /\ Len(buffer) \in Int
    BY <1>8, <1>9
  <2>3. /\ b \in Seq(Byte)
        /\ Len(b) = IF w + 1 <= Len(buffer) THEN Len(buffer) - (w + 1) + 1 ELSE 0
        /\ \A i \in 1 .. Len(buffer) - (w + 1) + 1 : b[i] = buffer[w + 1 + i - 1]
    BY <2>1, <2>2, SubSeqProperties
  <2> HIDE DEF b
  <2>4. Len(b) = Len(buffer) - w /\ Len(buffer) - (w + 1) + 1 = Len(buffer) - w
    BY <1>8, <1>9, <1>17, <2>3
  <2>5. ASSUME NEW i \in 1 .. Len(b) PROVE b[i] = buffer[w + i]
    <3>1. i \in 1 .. Len(buffer) - (w + 1) + 1 /\ w + 1 + i - 1 = w + i
      BY <1>8, <1>9, <2>4
    <3> QED
      BY <2>3, <3>1
  <2> QED
    BY <2>3, <2>4, <2>5
<1> HIDE DEF b
<1>11. /\ r \in Seq(Byte) /\ Len(b) \in Nat /\ Len(r) = Len(b) + Len(line)
       /\ \A i \in 1 .. Len(b) : r[i] = b[i]
       /\ \A i \in 1 .. Len(line) : r[Len(b) + i] = line[i]
  BY <1>1, <1>10, Joining
<1> HIDE DEF r
<1>12. Len(r) = Len(s) - w
  BY <1>8, <1>9, <1>10, <1>11
<1>13. ASSUME NEW k \in 1 .. Len(r) PROVE r[k] = s[w + k]
  <2>1. CASE k <= Len(b)
    <3>1. k \in 1 .. Len(b) /\ w + k \in 1 .. Len(buffer)
      BY <1>8, <1>9, <1>10, <1>11, <2>1
    <3> QED
      BY <1>9, <1>10, <1>11, <3>1
  <2>2. CASE ~(k <= Len(b))
    <3> DEFINE j == k - Len(b)
    <3>1. j \in 1 .. Len(line) /\ Len(b) + j = k /\ Len(buffer) + j = w + k
      BY <1>8, <1>9, <1>10, <1>11, <2>2
    <3> HIDE DEF j
    <3>2. r[Len(b) + j] = line[j] /\ s[Len(buffer) + j] = line[j]
      BY <1>9, <1>11, <3>1
    <3> QED
      BY <3>1, <3>2
  <2> QED
    BY <2>1, <2>2
<1>14. PICK at : Placed(at, n, sent, s)
  BY DEF QuietInv, s
<1>15. Placed(at, n + 1, sent, r)
  <2>1. sent \in Seq(Frame) /\ n \in 0 .. Len(sent)
    <3>1. port.incoming \subseteq Frame
      BY <1>1, PortFacts
    <3>2. n \in Nat /\ Len(sent) \in Nat /\ n <= Len(sent)
      BY NextPacket
    <3> QED
      BY <1>1, <3>1, <3>2
  <2> HIDE DEF n
  <2> QED
    BY <1>3, <1>9, <1>11, <1>12, <1>13, <1>14, <2>1, PlacedDrop DEF w, f
<1>16. \E more : Placed(more, n + 1, sent, buffer' \o line')
  BY <1>7, <1>15 DEF r
<1> QED
  BY <1>3, <1>6, <1>16 DEF f

\* Every step keeps the invariant: in particular Skip is never taken.
LEMMA QuietStep ==
  ASSUME AtSerialAssumption, Quiet, QuietInv, [Next]_vars
  PROVE  QuietInv'
<1>1. /\ SerialInv /\ port \in Ports /\ buffer \in Seq(Byte) /\ line \in Seq(Byte)
      /\ sent \in Seq(port.incoming) /\ got \in Seq(port.incoming) /\ FramesInOrder /\ Looked
      /\ \E at : Placed(at, Len(got), sent, buffer \o line)
  BY DEF QuietInv, SerialInv, TypeOK
<1>2. SerialInv'
  <2>1. CASE UNCHANGED vars
    BY <1>1, <2>1 DEF SerialInv, TypeOK, WritesWhole, vars
  <2> QED
    BY <1>1, <2>1, ReceiveSteps, SendSteps, OutsideSteps DEF Next, Driver
<1>3. ASSUME UNCHANGED <<port, sent, got>>, buffer' \o line' = buffer \o line, Looked'
      PROVE  QuietInv'
  BY <1>1, <1>2, <1>3 DEF QuietInv, FramesInOrder
<1>4. CASE UNCHANGED vars
  BY <1>1, <1>3, <1>4 DEF vars, Looked
<1>5. CASE Receive \/ Interrupted \/ ReceiveFails \/ SelectTimesOut \/ CheckDeadline
  BY <1>1, <1>3, <1>5 DEF Receive, Interrupted, ReceiveFails, SelectTimesOut, CheckDeadline,
                          Finish, receiveVars, lineVars, Looked
<1>6. CASE (\E f \in port.outgoing : Send(f)) \/ Write \/ WriteFails
  BY <1>1, <1>3, <1>6 DEF Send, Write, WriteFails, Finish, receiveVars, lineVars, Looked
<1>7. CASE HangUp \/ Tick
  BY <1>1, <1>3, <1>7 DEF HangUp, Tick, receiveVars, lineVars, Looked
<1>8. CASE PollNothing
  <2>1. UNCHANGED <<port, sent, got, buffer, line>> /\ (~Long \/ (Header /\ ~Whole))
    BY <1>8 DEF PollNothing, receiveVars, lineVars
  <2>2. Len(got) < Len(sent) => Len(buffer) < size(sent[Len(got) + 1])
    <3> SUFFICES ASSUME Len(got) < Len(sent) PROVE Len(buffer) < size(sent[Len(got) + 1])
      OBVIOUS
    <3> DEFINE f == sent[Len(got) + 1]
    <3>1. f \in Frame /\ Starts(f)
      BY NextPacket
    <3> HIDE DEF f
    <3>2. Len(buffer) < size(f)
      BY <1>1, <2>1, <3>1, PollFacts DEF Header
    <3> QED
      BY <3>2 DEF f
  <2> QED
    BY <1>3, <2>1, <2>2 DEF Looked
<1>9. CASE Skip
  <2>1. Long /\ (~Header \/ (Whole /\ ~TailMatches))
    BY <1>9 DEF Skip
  <2>2. Len(got) # Len(sent)
    <3> SUFFICES ASSUME Len(got) = Len(sent) PROVE FALSE
      OBVIOUS
    <3>1. buffer = <<>>
      BY NextPacket
    <3> QED
      BY <2>1, <3>1 DEF Long, header_size, tail_size
  <2> DEFINE f == sent[Len(got) + 1]
  <2>3. f \in Frame /\ Starts(f)
    BY <2>2, NextPacket
  <2> HIDE DEF f
  <2>4. FALSE
    BY <1>1, <2>1, <2>3, PollFacts
  <2> QED
    BY <2>4
<1>10. CASE Read
  <2>1. UNCHANGED <<port, sent, got>> /\ pc' = "poll"
    BY <1>10 DEF Read
  <2>2. buffer' \o line' = buffer \o line
    <3>1. ASSUME NEW n \in 1 .. Len(line),
                 buffer' = buffer \o SubSeq(line, 1, n), line' = SubSeq(line, n + 1, Len(line))
          PROVE  buffer' \o line' = buffer \o line
      BY <1>1, <3>1, Moved
    <3> QED
      BY <1>10, <3>1 DEF Read
  <2> QED
    BY <1>3, <2>1, <2>2 DEF Looked
<1>11. CASE Extract
  <2> DEFINE n == Len(got)
  <2>1. /\ n # Len(sent) /\ got' = Append(got, sent[n + 1])
        /\ \E at : Placed(at, n + 1, sent, buffer' \o line')
    BY <1>11, ExtractStep
  <2>2. UNCHANGED <<port, sent>> /\ pc' = "idle"
    BY <1>11 DEF Extract, Finish, lineVars
  <2>3. n \in Nat /\ Len(sent) \in Nat /\ n < Len(sent)
    BY <2>1, NextPacket
  <2>4. sent[n + 1] \in port.incoming
    BY <1>1, <2>3
  <2>5. /\ got' \in Seq(port.incoming) /\ Len(got') = n + 1
        /\ \A i \in 1 .. n : got'[i] = got[i]
        /\ got'[n + 1] = sent[n + 1]
    <3> DEFINE f == sent[n + 1]
               S == port.incoming
    <3>1. got \in Seq(S) /\ f \in S /\ got' = Append(got, f)
      BY <1>1, <2>1, <2>4
    <3> HIDE DEF f, S
    <3>2. /\ Append(got, f) \in Seq(S) /\ Len(Append(got, f)) = Len(got) + 1
          /\ \A i \in 1 .. Len(got) : Append(got, f)[i] = got[i]
          /\ Append(got, f)[Len(got) + 1] = f
      BY <3>1, AppendProperties
    <3> QED
      BY <3>1, <3>2 DEF f, S
  <2>6. FramesInOrder'
    <3>1. \A i \in 1 .. n : got[i] = sent[i]
      BY <1>1 DEF FramesInOrder
    <3> HIDE DEF n
    <3>2. \A i \in 1 .. n + 1 : got'[i] = sent[i]
      BY <2>3, <2>5, <3>1
    <3>3. DOMAIN got' = 1 .. n + 1
      BY <2>5
    <3> QED
      BY <2>2, <2>3, <2>5, <3>2, <3>3 DEF FramesInOrder
  <2> QED
    BY <1>2, <2>1, <2>2, <2>5, <2>6 DEF QuietInv, Looked
<1>12. CASE Arrive
  <2>1. PICK f \in port.incoming : line' = line \o encode_frame(f) /\ sent' = Append(sent, f)
    BY <1>1, <1>12 DEF Arrive, Quiet
  <2>2. UNCHANGED <<port, pc, buffer, got>>
    BY <1>12 DEF Arrive, receiveVars
  <2>3. f \in Frame /\ encode_frame(f) \in Seq(Byte) /\ port.incoming \subseteq Frame
    BY <1>1, PortFacts, PacketFacts
  <2>4. /\ Len(got) \in Nat /\ Len(sent) \in Nat /\ Len(got) <= Len(sent)
        /\ Len(got) = Len(sent) => buffer = <<>>
    BY NextPacket
  <2>5. /\ sent' \in Seq(port.incoming) /\ Len(sent') = Len(sent) + 1
        /\ \A i \in 1 .. Len(sent) : sent'[i] = sent[i]
        /\ sent'[Len(sent) + 1] = f
    BY <1>1, <2>1, AppendProperties
  <2>6. FramesInOrder'
    <3>1. \A i \in 1 .. Len(got) : got[i] = sent'[i]
      BY <1>1, <2>4, <2>5 DEF FramesInOrder
    <3>2. DOMAIN got = 1 .. Len(got)
      BY <1>1
    <3> QED
      BY <2>2, <2>4, <2>5, <3>1, <3>2 DEF FramesInOrder
  <2>7. \E at : Placed(at, Len(got'), sent', buffer' \o line')
    <3> DEFINE s == buffer \o line
               e == encode_frame(f)
    <3>1. sent \in Seq(Frame) /\ Len(got) \in 0 .. Len(sent) /\ s \in Seq(Byte)
      BY <1>1, <2>3, <2>4, Joining
    <3>2. \E at : Placed(at, Len(got), sent, s)
      BY <1>1
    <3> HIDE DEF s
    <3>3. \E more : Placed(more, Len(got), Append(sent, f), s \o encode_frame(f))
      BY <2>3, <3>1, <3>2, PlacedAppend
    <3>4. \A a, b, c \in Seq(Byte) : (a \o b) \o c = a \o (b \o c)
      BY ConcatAssociative
    <3>6. e \in Seq(Byte)
      BY <2>3
    <3> HIDE DEF e
    <3>5. s \o e = buffer \o (line \o e)
      BY <1>1, <3>4, <3>6 DEF s
    <3> QED
      BY <2>1, <2>2, <3>3, <3>5 DEF e
  <2>8. Looked'
    <3> SUFFICES ASSUME pc \in {"deadline", "select"}
                 PROVE  Len(buffer) < size(sent'[Len(got) + 1])
      BY <2>2 DEF Looked
    <3>1. CASE Len(got) = Len(sent)
      <4>1. Len(buffer) = 0 /\ sent'[Len(got) + 1] = f
        BY <2>4, <2>5, <3>1
      <4>2. size(f) \in Nat /\ size(f) >= 9
        BY <2>3, PacketFacts, FrameFacts DEF size
      <4> QED
        BY <4>1, <4>2
    <3>2. CASE Len(got) # Len(sent)
      <4>1. Len(got) < Len(sent) /\ Len(got) + 1 \in 1 .. Len(sent)
        BY <2>4, <3>2
      <4> QED
        BY <1>1, <2>5, <4>1 DEF Looked
    <3> QED
      BY <3>1, <3>2
  <2> QED
    BY <1>1, <1>2, <2>2, <2>5, <2>6, <2>7, <2>8 DEF QuietInv
<1> QED
  BY <1>4, <1>5, <1>6, <1>7, <1>8, <1>9, <1>10, <1>11, <1>12 DEF Next, Driver

\* It holds in every state of every run on lines without noise.
LEMMA QuietInvariant == ASSUME Quiet PROVE Spec => []QuietInv
<1>1. Init => QuietInv
  <2> SUFFICES ASSUME Init PROVE QuietInv
    OBVIOUS
  <2>1. SerialInv
    BY SerialInit, AtSerialAssumption
  <2>2. FramesInOrder /\ Looked /\ got \in Seq(port.incoming)
    BY DEF Init, FramesInOrder, Looked
  <2>3. Placed([i \in 0 .. 0 |-> 0], 0, <<>>, <<>>)
    BY DEF Placed
  <2>4. Len(got) = 0 /\ sent = <<>> /\ buffer \o line = <<>>
    BY DEF Init
  <2> QED
    BY <2>1, <2>2, <2>3, <2>4 DEF QuietInv
<1>2. QuietInv /\ [Next]_vars => QuietInv'
  BY QuietStep, AtSerialAssumption
<1> QED
  BY <1>1, <1>2, PTL DEF Spec

\* On a line that carries packets only, receive returns what the module sent,
\* in order, whatever the frames contain and however read() cuts the stream.
THEOREM FramesInOrderTheorem ==
  ASSUME Quiet PROVE Spec => []FramesInOrder
<1>1. QuietInv => FramesInOrder
  BY DEF QuietInv
<1> QED
  BY <1>1, QuietInvariant, PTL

\* There the parser gives up only when every frame that has arrived has been
\* returned.
THEOREM NothingHeldUpTheorem ==
  ASSUME Quiet PROVE Spec => []NothingHeldUp
<1>1. QuietInv => NothingHeldUp
  <2> SUFFICES ASSUME QuietInv, pc \in {"deadline", "select"}, line = <<>>
               PROVE  got = sent
    BY DEF NothingHeldUp
  <2>1. /\ got \in Seq(port.incoming) /\ sent \in Seq(port.incoming)
        /\ FramesInOrder /\ Looked /\ buffer \in Seq(Byte)
    BY DEF QuietInv, SerialInv, TypeOK
  <2>2. Len(got) \in Nat /\ Len(sent) \in Nat /\ Len(got) <= Len(sent)
    BY NextPacket, AtSerialAssumption
  <2>3. Len(got) = Len(sent)
    <3> SUFFICES ASSUME Len(got) # Len(sent) PROVE FALSE
      OBVIOUS
    <3> DEFINE f == sent[Len(got) + 1]
    <3>1. f \in Frame /\ Len(buffer) + Len(line) >= size(f)
      BY NextPacket, AtSerialAssumption
    <3>2. Len(buffer) < size(f)
      BY <2>1, <2>2 DEF Looked
    <3>3. size(f) \in Nat /\ Len(line) = 0 /\ Len(buffer) \in Nat
      BY <2>1, <3>1, PacketFacts DEF size
    <3> HIDE DEF f
    <3> QED
      BY <3>1, <3>2, <3>3
  <2>4. \A i \in 1 .. Len(got) : got[i] = sent[i]
    BY <2>1 DEF FramesInOrder
  <2> QED
    BY <2>1, <2>3, <2>4, SeqEqual
<1> QED
  BY <1>1, QuietInvariant, PTL

----------------------------------------------------------------------------
\* AtSerialCanInterface implements CanTransport, on a line without noise.

\* The frames not yet returned, when one is returned and when one arrives.
LEMMA PendingFacts ==
  ASSUME NEW S, NEW frames \in Seq(S), NEW n \in 0 .. Len(frames), NEW f \in S
  PROVE  /\ SubSeq(Append(frames, f), n + 1, Len(frames) + 1)
              = Append(SubSeq(frames, n + 1, Len(frames)), f)
         /\ n # Len(frames) =>
              /\ SubSeq(frames, n + 1, Len(frames)) # <<>>
              /\ Head(SubSeq(frames, n + 1, Len(frames))) = frames[n + 1]
              /\ Tail(SubSeq(frames, n + 1, Len(frames))) = SubSeq(frames, n + 2, Len(frames))
<1> DEFINE L == Len(frames)
           all == Append(frames, f)
           p == SubSeq(frames, n + 1, L)
           q == SubSeq(all, n + 1, L + 1)
<1>1. L \in Nat /\ n \in Nat /\ n <= L /\ \A i \in 1 .. L : frames[i] \in S
  OBVIOUS
<1>2. /\ all \in Seq(S) /\ Len(all) = L + 1 /\ all[L + 1] = f
      /\ \A i \in 1 .. L : all[i] = frames[i]
  BY AppendProperties
<1> HIDE DEF L, all
<1>3. /\ p \in Seq(S) /\ Len(p) = L - n /\ \A i \in 1 .. L - n : p[i] = frames[n + i]
  <2>1. \A i \in n + 1 .. L : frames[i] \in S
    BY <1>1
  <2>2. n + 1 \in Int /\ L \in Int
    BY <1>1
  <2>3. /\ p \in Seq(S) /\ Len(p) = IF n + 1 <= L THEN L - (n + 1) + 1 ELSE 0
        /\ \A i \in 1 .. L - (n + 1) + 1 : p[i] = frames[n + 1 + i - 1]
    BY <2>1, <2>2, SubSeqProperties
  <2> HIDE DEF p
  <2>4. Len(p) = L - n /\ L - (n + 1) + 1 = L - n /\ \A i \in Int : n + 1 + i - 1 = n + i
    BY <1>1, <2>3
  <2> QED
    BY <2>3, <2>4
<1>4. /\ q \in Seq(S) /\ Len(q) = L + 1 - n /\ \A i \in 1 .. L + 1 - n : q[i] = all[n + i]
  <2> DEFINE M == L + 1
             m == n + 1
             u == SubSeq(all, m, M)
  <2>1. M \in Int /\ m \in Int /\ \A i \in m .. M : all[i] \in S
    BY <1>1, <1>2
  <2> HIDE DEF m, M
  <2>2. /\ u \in Seq(S) /\ Len(u) = IF m <= M THEN M - m + 1 ELSE 0
        /\ \A i \in 1 .. M - m + 1 : u[i] = all[m + i - 1]
    BY <2>1, SubSeqProperties
  <2> HIDE DEF u
  <2>3. /\ Len(u) = L + 1 - n /\ M - m + 1 = L + 1 - n
        /\ \A i \in Int : m + i - 1 = n + i
    BY <1>1, <2>2 DEF m, M
  <2>4. u \in Seq(S) /\ \A i \in 1 .. L + 1 - n : u[i] = all[n + i]
    BY <2>2, <2>3
  <2> QED
    BY <2>3, <2>4 DEF u, m, M
<1> HIDE DEF p, q
<1> DEFINE r == Append(p, f)
<1>5. /\ r \in Seq(S) /\ Len(r) = Len(p) + 1 /\ r[Len(p) + 1] = f
      /\ \A i \in 1 .. Len(p) : r[i] = p[i]
  BY <1>3, AppendProperties
<1> HIDE DEF r
<1>6. q = r
  <2>1. Len(q) = Len(r)
    BY <1>1, <1>3, <1>4, <1>5
  <2>2. ASSUME NEW i \in 1 .. Len(q) PROVE q[i] = r[i]
    <3>1. CASE i = L + 1 - n
      <4>1. i = Len(p) + 1 /\ n + i = L + 1
        BY <1>1, <1>3, <3>1
      <4> QED
        BY <1>2, <1>4, <1>5, <2>2, <4>1
    <3>2. CASE i # L + 1 - n
      <4>1. /\ i \in 1 .. L - n /\ n + i \in 1 .. L /\ i \in 1 .. Len(p)
            /\ i \in 1 .. L + 1 - n
        BY <1>1, <1>3, <1>4, <3>2
      <4> QED
        BY <1>2, <1>3, <1>4, <1>5, <4>1
    <3> QED
      BY <3>1, <3>2
  <2> QED
    BY <1>4, <1>5, <2>1, <2>2, SeqEqual
<1>7. ASSUME n # L
      PROVE  /\ p # <<>> /\ Head(p) = frames[n + 1]
             /\ Tail(p) = SubSeq(frames, n + 2, L)
  <2>1. n + 1 \in 1 .. L /\ L \in n + 1 .. L /\ (n + 1) + 1 = n + 2
    BY <1>1, <1>7
  <2>2. p # <<>>
    BY <1>1, <1>3, <1>7
  <2>3. Head(p) = frames[n + 1] /\ Tail(p) = SubSeq(frames, (n + 1) + 1, L)
    BY <2>1, HeadTailOfSubSeq DEF p, L
  <2> QED
    BY <2>1, <2>2, <2>3
<1> QED
  BY <1>6, <1>7, Zenon DEF p, q, r, all, L

\* Every step of the implementation is one of the abstract transport or none.
LEMMA SerialTransportStep ==
  ASSUME AtSerialAssumption, Quiet, QuietInv, [Next]_vars
  PROVE  Transport!Next \/ UNCHANGED Transport!vars
<1>1. /\ sent \in Seq(port.incoming) /\ port \in Ports /\ got \in Seq(port.incoming)
      /\ Len(got) \in Nat /\ Len(sent) \in Nat /\ Len(got) <= Len(sent)
  BY NextPacket DEF QuietInv, SerialInv, TypeOK
<1>2. CASE UNCHANGED vars
  BY <1>2 DEF vars, Transport!vars
<1>3. CASE Receive
  <2>1. Transport!Receive
    BY <1>3 DEF Receive, lineVars, Transport!Receive
  <2> QED
    BY <2>1 DEF Transport!Next
<1>4. CASE Skip \/ Interrupted \/ PollNothing \/ Read
  BY <1>4 DEF Skip, Interrupted, PollNothing, Read, receiveVars, lineVars, Transport!vars
<1>5. CASE CheckDeadline
  <2>1. Transport!TimeOut \/ UNCHANGED Transport!vars
    BY <1>5 DEF CheckDeadline, DeadlinePassed, Finish, receiveVars, lineVars, Transport!TimeOut,
                Transport!GiveUp, Transport!Return, Transport!vars
  <2> QED
    BY <2>1 DEF Transport!Next
<1>6. CASE SelectTimesOut
  <2>1. Transport!TimeOut
    BY <1>6 DEF SelectTimesOut, Finish, receiveVars, lineVars, Transport!TimeOut, Transport!GiveUp,
                Transport!Return
  <2> QED
    BY <2>1 DEF Transport!Next
<1>7. CASE ReceiveFails
  <2>1. Transport!Fail
    BY <1>7 DEF ReceiveFails, Finish, receiveVars, lineVars, Transport!Fail, Transport!Return
  <2> QED
    BY <2>1 DEF Transport!Next
<1>8. CASE Extract
  <2> DEFINE n == Len(got)
             f == sent[n + 1]
             p == SubSeq(sent, n + 1, Len(sent))
  <2>1. n # Len(sent) /\ got' = Append(got, f)
    BY <1>8, ExtractStep
  <2>2. f \in port.incoming /\ n \in 0 .. Len(sent)
    BY <1>1, <2>1
  <2>3. Len(got') = n + 1
    <3> DEFINE S == port.incoming
    <3>1. got \in Seq(S) /\ f \in S
      BY <1>1, <2>2
    <3> HIDE DEF f, S
    <3> QED
      BY <2>1, <3>1, AppendProperties
  <2>4. p # <<>> /\ Head(p) = f /\ Tail(p) = SubSeq(sent, n + 2, Len(sent))
    BY <1>1, <2>1, <2>2, PendingFacts
  <2>5. sent' = sent /\ (n + 1) + 1 = n + 2 /\ pc = "poll" /\ pc' = "idle" /\ result' = "frame"
    BY <1>1, <1>8 DEF Extract, Finish, lineVars
  <2>6. SubSeq(sent', Len(got') + 1, Len(sent')) = Tail(p)
    BY <2>3, <2>4, <2>5
  <2> HIDE DEF f
  <2>7. Transport!ReturnFrame
    BY <2>1, <2>4, <2>5, <2>6 DEF Transport!ReturnFrame, Transport!Return
  <2> QED
    BY <2>7 DEF Transport!Next
<1>9. CASE (\E f \in port.outgoing : Send(f)) \/ Write \/ WriteFails
  <2>1. Transport!Send \/ UNCHANGED Transport!vars
    BY <1>9 DEF Send, Write, WriteFails, Finish, receiveVars, lineVars, Transport!Send,
                Transport!vars
  <2> QED
    BY <2>1 DEF Transport!Next
<1>10. CASE Arrive
  <2>1. PICK f \in port.incoming : sent' = Append(sent, f)
    BY <1>1, <1>10 DEF Arrive, Quiet
  <2>2. UNCHANGED <<pc, expired, got, result>>
    BY <1>10 DEF Arrive, receiveVars
  <2>3. Len(sent') = Len(sent) + 1
    BY <1>1, <2>1, AppendProperties
  <2>4. SubSeq(sent', Len(got') + 1, Len(sent')) = Append(SubSeq(sent, Len(got) + 1, Len(sent)), f)
    <3>1. Len(got) \in 0 .. Len(sent)
      BY <1>1
    <3> QED
      BY <1>1, <2>1, <2>2, <2>3, <3>1, PendingFacts
  <2>5. f \in UNION {p.incoming : p \in Ports}
    BY <1>1
  <2>6. Transport!Arrive
    BY <2>2, <2>4, <2>5 DEF Transport!Arrive
  <2> QED
    BY <2>6 DEF Transport!Next
<1>11. CASE HangUp
  BY <1>11 DEF HangUp, receiveVars, Transport!vars
<1>12. CASE Tick
  <2>1. Transport!Expire
    BY <1>12 DEF Tick, lineVars, Transport!Expire
  <2> QED
    BY <2>1 DEF Transport!Next
<1> QED
  BY <1>2, <1>3, <1>4, <1>5, <1>6, <1>7, <1>8, <1>9, <1>10, <1>11, <1>12 DEF Next, Driver

\* The port keeps the promise of can_interface.hpp: every frame the module
\* delivers is returned once and in order, receive gives up without one only
\* when its time is over, and reports every failure.
THEOREM SerialTransportTheorem ==
  ASSUME Quiet PROVE Spec => TransportSpec
<1>1. Init => Transport!Init
  <2> SUFFICES ASSUME Init PROVE Transport!Init
    OBVIOUS
  <2>1. SubSeq(sent, Len(got) + 1, Len(sent)) = <<>>
    BY SubSeqEmpty DEF Init
  <2> QED
    BY <2>1 DEF Init, Transport!Init
<1>2. QuietInv /\ [Next]_vars => [Transport!Next]_(Transport!vars)
  BY SerialTransportStep, AtSerialAssumption
<1> QED
  BY <1>1, <1>2, QuietInvariant, PTL DEF Spec, TransportSpec, Transport!Spec

============================================================================
