-------------------------- MODULE MotorLinkProofs --------------------------
(***************************************************************************)
(* Proofs about SocketCanInterface and the protocol over it, for every     *)
(* traffic on the bus, every capacity of the receive queue, every set of   *)
(* failures, and every report, answer and command.                         *)
(***************************************************************************)
EXTENDS MotorLink, SequenceTheorems, WellFoundedInduction, TLAPS

----------------------------------------------------------------------------
\* SocketCanInterface: the filter.

Raw == Early \cup Traffic

\* What arrived after the filter was set passed it.
Filtered ==
    filter # NoFilter =>
      \A i \in before + 1 .. Len(queue) : queue[i].eff /\ queue[i].id[3] = filter

\* TypeOK with the sequences typed, and what the filter guarantees: at its
\* place in the queue, for a call of receive yet to come.  A result is there
\* only when the call has ended.
SocketInv ==
    /\ TypeOK
    /\ queue \in Seq(Raw)
    /\ got \in Seq({can_frame(raw) : raw \in Raw})
    /\ wire \in Seq({raw_frame(f) : f \in Outgoing})
    /\ Filtered
    /\ pc # "idle" => result = "none"

\* A frame keeps its bytes on its way through either conversion.
LEMMA FrameFacts ==
  ASSUME SocketCanAssumption
  PROVE  /\ \A raw \in Raw : IsRawFrame(raw) /\ IsCanFrame(can_frame(raw))
         /\ \A f \in Outgoing : IsRawFrame(raw_frame(f))
<1>1. \A raw \in Raw : IsRawFrame(raw)
  BY DEF SocketCanAssumption, Raw
<1>2. \A raw \in Raw : IsCanFrame(can_frame(raw))
  BY <1>1 DEF IsRawFrame, IsCanFrame, can_frame
<1>3. \A f \in Outgoing : IsRawFrame(raw_frame(f))
  BY DEF SocketCanAssumption, IsRawFrame, IsCanFrame, raw_frame
<1> QED
  BY <1>1, <1>2, <1>3

\* An empty socket, no filter.
LEMMA SocketInit == ASSUME SocketCanAssumption PROVE Init => SocketInv
<1> SUFFICES ASSUME Init PROVE SocketInv
  OBVIOUS
<1>1. expired \in BOOLEAN
  BY Zenon DEF Init
<1>2. TypeOK
  BY <1>1 DEF Init, TypeOK, SocketCanAssumption
<1>3. Filtered
  BY DEF Init, Filtered
<1> QED
  BY <1>2, <1>3 DEF Init, SocketInv

\* Every step of the driver, the kernel and the clock keeps the invariant.
LEMMA SocketStep ==
  ASSUME SocketCanAssumption, SocketInv, [Next]_vars
  PROVE  SocketInv'
<1>1. TypeOK /\ queue \in Seq(Raw)
  BY DEF SocketInv
<1>2. CASE UNCHANGED vars
  BY <1>2 DEF SocketInv, TypeOK, Filtered, vars
<1>3. ASSUME NEW id \in MotorIds, set_motor_id_filter(id) PROVE SocketInv'
  <2>0. queue' = queue /\ before' = Len(queue) /\ Len(queue) \in Nat
    BY <1>1, <1>3 DEF set_motor_id_filter
  <2>1. before' \in 0 .. Len(queue')
    BY <2>0
  <2>2. TypeOK'
    BY <1>3, <2>1 DEF SocketInv, TypeOK, set_motor_id_filter, sendVars
  <2>3. Filtered'
    <3>1. \A i \in before' + 1 .. Len(queue') : FALSE
      BY <2>0
    <3> QED
      BY <3>1 DEF Filtered
  <2> QED
    BY <1>3, <2>2, <2>3 DEF SocketInv, set_motor_id_filter, sendVars
<1>4. ASSUME NEW f \in Outgoing, Send(f) PROVE SocketInv'
  <2>1. wire' \in Seq({raw_frame(g) : g \in Outgoing})
    <3> DEFINE S == {raw_frame(g) : g \in Outgoing}
    <3>1. wire \in Seq(S) /\ raw_frame(f) \in S
      BY DEF SocketInv
    <3>2. wire' = wire \/ wire' = Append(wire, raw_frame(f))
      BY <1>4 DEF Send
    <3> HIDE DEF S
    <3>3. Append(wire, raw_frame(f)) \in Seq(S)
      BY <3>1
    <3>4. wire' \in Seq(S)
      BY <3>1, <3>2, <3>3
    <3> QED
      BY <3>4 DEF S
  <2>2. \A i \in DOMAIN wire' : IsRawFrame(wire'[i])
    BY <2>1, FrameFacts
  <2>3. TypeOK'
    BY <1>4, <2>2 DEF SocketInv, TypeOK, Send, kernelVars, SocketCanAssumption
  <2>4. Filtered'
    BY <1>4 DEF SocketInv, Filtered, Send, kernelVars
  <2> QED
    BY <1>4, <2>1, <2>3, <2>4 DEF SocketInv, Send, kernelVars
<1>5. CASE Receive
  BY <1>5 DEF SocketInv, TypeOK, Filtered, Receive, kernelVars, sendVars
<1>6. CASE SelectTimesOut \/ SelectFails \/ SelectReady \/ ReadFails
  BY <1>6 DEF SocketInv, TypeOK, Filtered, SelectTimesOut, SelectFails, SelectReady,
              ReadFails, Finish, kernelVars, sendVars
<1>7. CASE ReadFrame \/ IgnoreFrame
  <2>1. queue # <<>> /\ Dequeue
    BY <1>1, <1>7 DEF TypeOK, Dequeue, ReadFrame, IgnoreFrame
  <2>2. /\ queue' \in Seq(Raw) /\ Len(queue') = Len(queue) - 1 /\ Head(queue) \in Raw
        /\ \A i \in 1 .. Len(queue') : queue'[i] = queue[i + 1]
    BY <1>1, <2>1, HeadTailProperties DEF Dequeue
  <2>3. before \in Nat /\ Len(queue) \in Nat /\ before <= Len(queue) /\ Len(queue') \in Nat
    BY <1>1, <2>2 DEF TypeOK
  <2>10. before' = IF before = 0 THEN 0 ELSE before - 1
    BY <2>1 DEF Dequeue
  <2>4. before' \in 0 .. Len(queue') /\ (before' = before - 1 \/ (before = 0 /\ before' = 0))
    BY <2>2, <2>3, <2>10
  <2>5. Filtered'
    BY <2>1, <2>2, <2>3, <2>4 DEF SocketInv, Filtered, Dequeue
  <2>11. got' = Append(got, can_frame(Head(queue))) \/ got' = got
    BY <1>7 DEF ReadFrame, IgnoreFrame
  <2>6. got' \in Seq({can_frame(raw) : raw \in Raw})
    <3> DEFINE S == {can_frame(raw) : raw \in Raw}
    <3>1. got \in Seq(S) /\ can_frame(Head(queue)) \in S
      BY <2>2 DEF SocketInv
    <3> HIDE DEF S
    <3>2. got' \in Seq(S)
      BY <2>11, <3>1
    <3> QED
      BY <3>2 DEF S
  <2>7. \A i \in DOMAIN got' : IsCanFrame(got'[i])
    BY <2>6, FrameFacts
  <2>8. \A i \in DOMAIN queue' : queue'[i] \in Early \cup Traffic
    BY <2>2 DEF Raw
  <2>9. TypeOK'
    BY <1>7, <2>1, <2>2, <2>4, <2>7, <2>8, <2>3
       DEF SocketInv, TypeOK, Dequeue, ReadFrame, IgnoreFrame, Finish, sendVars
  <2> QED
    BY <1>7, <2>1, <2>2, <2>5, <2>6, <2>9
       DEF SocketInv, Dequeue, ReadFrame, IgnoreFrame, Finish, sendVars
<1>8. CASE Arrive
  <2>1. PICK raw \in Raw :
          queue' = IF Passes(raw) /\ Len(queue) < Capacity
                   THEN Append(queue, raw) ELSE queue
    BY <1>8 DEF Arrive, Raw
  <2>2. /\ queue' \in Seq(Raw) /\ Len(queue') <= Capacity /\ Len(queue') >= Len(queue)
        /\ queue # <<>> => queue' # <<>>
    BY <1>1, <2>1 DEF TypeOK, SocketCanAssumption
  <2>3. \A i \in DOMAIN queue' : queue'[i] \in Early \cup Traffic
    BY <2>2 DEF Raw
  <2>4. before' \in 0 .. Len(queue')
    BY <1>1, <1>8, <2>2 DEF TypeOK, Arrive
  <2>5. TypeOK'
    BY <1>8, <2>2, <2>3, <2>4 DEF SocketInv, TypeOK, Arrive, sendVars, SocketCanAssumption
  <2>6. Filtered'
    BY <1>1, <1>8, <2>1 DEF SocketInv, TypeOK, Filtered, Arrive, Passes
  <2> QED
    BY <1>8, <2>2, <2>5, <2>6 DEF SocketInv, Arrive, sendVars
<1>9. CASE Tick
  BY <1>9 DEF SocketInv, TypeOK, Filtered, Tick, kernelVars, sendVars
<1> QED
  BY <1>2, <1>3, <1>4, <1>5, <1>6, <1>7, <1>8, <1>9 DEF Next, Driver

\* It holds in every state of every run.
LEMMA SocketInvariant == Spec => []SocketInv
<1>1. Init => SocketInv
  BY SocketInit, SocketCanAssumption
<1>2. SocketInv /\ [Next]_vars => SocketInv'
  BY SocketStep, SocketCanAssumption
<1> QED
  BY <1>1, <1>2, PTL DEF Spec

\* Every variable stays in its domain: the queue within the kernel's capacity,
\* receive at read only when there is a frame to read.
THEOREM SocketTypeTheorem == Spec => []TypeOK
<1>1. SocketInv => TypeOK
  BY DEF SocketInv
<1> QED
  BY <1>1, SocketInvariant, PTL

\* Apart from the frames in the queue when the filter was set, whatever
\* receive returns is an extended frame with the motor's id in bits 15-8.
THEOREM FilterTheorem == Spec => FilterHolds
<1> DEFINE A == filter # NoFilter /\ before = 0 /\ result' = "frame" /\ pc # pc'
                  => get_source_motor_id(got'[Len(got')]) = filter
<1>1. Init => SocketInv
  BY SocketInit, SocketCanAssumption
<1>2. SocketInv /\ [Next]_vars => SocketInv'
  BY SocketStep, SocketCanAssumption
<1>3. SocketInv /\ [Next]_vars => [A]_vars
  <2> SUFFICES ASSUME SocketInv, Next, filter # NoFilter, before = 0, result' = "frame",
                      pc # pc'
               PROVE  get_source_motor_id(got'[Len(got')]) = filter
    BY DEF A
  <2>1. ReadFrame
    BY DEF SocketInv, Next, Driver, set_motor_id_filter, Send, Receive, SelectTimesOut, SelectFails,
           SelectReady, ReadFails, IgnoreFrame, Finish, Arrive, Tick
  <2>2. queue # <<>> /\ queue \in Seq(Raw)
    BY <2>1 DEF SocketInv, TypeOK, ReadFrame, Dequeue
  <2>3. queue[1].id[3] = filter /\ Head(queue) = queue[1]
    BY <2>2 DEF SocketInv, Filtered
  <2>4. got'[Len(got')] = can_frame(Head(queue))
    BY <2>1 DEF ReadFrame, SocketInv
  <2> QED
    BY <2>3, <2>4 DEF get_source_motor_id, can_frame
<1> QED
  BY <1>1, <1>2, <1>3, PTL DEF Spec, FilterHolds

----------------------------------------------------------------------------
\* SocketCanInterface implements CanTransport.

\* A set of natural numbers with 0 in it that is closed under successors:
\* induction, in a form the provers can use.
LEMMA Induction ==
  ASSUME NEW T, 0 \in T, \A n \in Nat : n \in T => n + 1 \in T
  PROVE  Nat \subseteq T
<1> DEFINE R == OpToRel(<, Nat)
           U == {n \in Nat : n \notin T}
<1>1. IsWellFoundedOn(R, Nat)
  BY NatLessThanWellFounded
<1>2. \A k, j \in Nat : k < j => <<k, j>> \in R
  BY Zenon DEF OpToRel
<1> HIDE DEF R
<1> SUFFICES ASSUME U # {} PROVE FALSE
  OBVIOUS
<1>3. PICK m \in U : \A k \in U : <<k, m>> \notin R
  BY <1>1, WFMin
<1>4. m \in Nat /\ m # 0 /\ m - 1 \in Nat
  BY <1>3
<1>5. m - 1 \in U
  BY <1>3, <1>4
<1>6. <<m - 1, m>> \in R
  BY <1>2, <1>4
<1> QED
  BY <1>3, <1>5, <1>6

\* The recursive function of the definition of extended.
Prefixes(f, raws) ==
    f = [n \in 0 .. Len(raws) |-> IF n = 0 THEN <<>> ELSE kept(f[n - 1], raws[n])]

\* It exists, and extended is its last value.
LEMMA ExtendedDef ==
  ASSUME NEW S, NEW raws \in Seq(S)
  PROVE  \E f : Prefixes(f, raws) /\ extended(raws) = f[Len(raws)]
<1> DEFINE Up(f, m) == f = [n \in 0 .. m |-> IF n = 0 THEN <<>> ELSE kept(f[n - 1], raws[n])]
           T == {m \in Nat : \E f : Up(f, m)}
<1>1. 0 \in T
  <2>1. Up([n \in 0 .. 0 |-> <<>>], 0)
    OBVIOUS
  <2> QED
    BY <2>1
<1>2. ASSUME NEW m \in Nat, m \in T PROVE m + 1 \in T
  <2>1. PICK f : Up(f, m)
    BY <1>2
  <2> DEFINE g == [n \in 0 .. m + 1 |-> IF n = m + 1 THEN kept(f[m], raws[m + 1]) ELSE f[n]]
  <2>4. \A n \in 0 .. m : f[n] = IF n = 0 THEN <<>> ELSE kept(f[n - 1], raws[n])
    BY <2>1
  <2>5. (\A n \in 0 .. m : g[n] = f[n]) /\ g[m + 1] = kept(f[m], raws[m + 1])
    OBVIOUS
  <2> HIDE DEF g
  <2>2. \A n \in 0 .. m + 1 : g[n] = IF n = 0 THEN <<>> ELSE kept(g[n - 1], raws[n])
    <3> TAKE n \in 0 .. m + 1
    <3>1. CASE n = m + 1
      <4>1. g[m] = f[m] /\ m + 1 # 0 /\ n - 1 = m
        BY <2>5, <3>1
      <4> QED
        BY <2>5, <3>1, <4>1
    <3>2. CASE n # m + 1
      <4>1. n \in 0 .. m /\ (n # 0 => n - 1 \in 0 .. m)
        BY <3>2
      <4> QED
        BY <2>4, <2>5, <4>1
    <3> QED
      BY <3>1, <3>2
  <2>3. Up(g, m + 1)
    BY <2>2 DEF g
  <2> QED
    BY <2>3
<1> HIDE DEF T
<1>3. Len(raws) \in T
  BY <1>1, <1>2, Induction
<1> DEFINE first[n \in 0 .. Len(raws)] == IF n = 0 THEN <<>> ELSE kept(first[n - 1], raws[n])
<1>4. \E f : Prefixes(f, raws)
  BY <1>3 DEF T, Prefixes
<1>5. Prefixes(first, raws)
  BY <1>4 DEF Prefixes
<1>6. extended(raws) = first[Len(raws)]
  BY DEF extended
<1> QED
  BY <1>5, <1>6

\* The prefixes are sequences of frames, and what Prefixes says of each.
LEMMA PrefixFacts ==
  ASSUME NEW S, NEW raws \in Seq(S), NEW f, Prefixes(f, raws)
  PROVE  /\ f[0] = <<>>
         /\ \A n \in 1 .. Len(raws) : f[n] = kept(f[n - 1], raws[n])
         /\ \A n \in 0 .. Len(raws) : f[n] \in Seq({can_frame(raw) : raw \in S})
<1>1. Len(raws) \in Nat
  OBVIOUS
<1>2. f[0] = <<>> /\ \A n \in 1 .. Len(raws) : f[n] = kept(f[n - 1], raws[n])
  BY <1>1 DEF Prefixes
<1> DEFINE C == {can_frame(raw) : raw \in S}
           T == {n \in Nat : n <= Len(raws) => f[n] \in Seq(C)}
<1>3. \A raw \in S : can_frame(raw) \in C
  OBVIOUS
<1> HIDE DEF C
<1>4. 0 \in T
  <2>1. <<>> \in Seq(C)
    OBVIOUS
  <2> QED
    BY <1>2, <2>1
<1>5. ASSUME NEW n \in Nat, n \in T PROVE n + 1 \in T
  <2> SUFFICES ASSUME n + 1 <= Len(raws) PROVE f[n + 1] \in Seq(C)
    OBVIOUS
  <2>1. f[n] \in Seq(C) /\ raws[n + 1] \in S
    BY <1>1, <1>5
  <2>2. f[n + 1] = kept(f[n], raws[n + 1])
    BY <1>1, <1>2
  <2> QED
    BY <1>3, <2>1, <2>2 DEF kept
<1> HIDE DEF T
<1>6. Nat \subseteq T
  BY <1>4, <1>5, Induction
<1> QED
  BY <1>1, <1>2, <1>6 DEF T, C

\* A frame that arrives is pending if it is extended.
LEMMA ExtendedAppend ==
  ASSUME NEW S, NEW raws \in Seq(S), NEW raw \in S
  PROVE  extended(Append(raws, raw)) = kept(extended(raws), raw)
<1> DEFINE more == Append(raws, raw)
           L == Len(raws)
<1>1. /\ L \in Nat /\ more \in Seq(S) /\ Len(more) = L + 1 /\ more[L + 1] = raw
      /\ \A n \in 1 .. L : more[n] = raws[n]
  BY AppendProperties
<1> HIDE DEF more, L
<1>2. PICK f : Prefixes(f, raws) /\ extended(raws) = f[L]
  BY ExtendedDef DEF L
<1>3. PICK g : Prefixes(g, more) /\ extended(more) = g[L + 1]
  BY <1>1, ExtendedDef
<1>4. f[0] = <<>> /\ \A n \in 1 .. L : f[n] = kept(f[n - 1], raws[n])
  BY <1>2, PrefixFacts DEF L
<1>5. g[0] = <<>> /\ \A n \in 1 .. L + 1 : g[n] = kept(g[n - 1], more[n])
  <2>1. g[0] = <<>> /\ \A n \in 1 .. Len(more) : g[n] = kept(g[n - 1], more[n])
    BY <1>1, <1>3, PrefixFacts
  <2> QED
    BY <1>1, <2>1
<1> DEFINE T == {n \in Nat : n <= L => g[n] = f[n]}
<1>6. 0 \in T
  BY <1>4, <1>5
<1>7. ASSUME NEW n \in Nat, n \in T PROVE n + 1 \in T
  <2> SUFFICES ASSUME n + 1 <= L PROVE g[n + 1] = f[n + 1]
    OBVIOUS
  <2>1. n + 1 \in 1 .. L /\ n + 1 \in 1 .. L + 1 /\ (n + 1) - 1 = n /\ g[n] = f[n]
    BY <1>1, <1>7
  <2> QED
    BY <1>1, <1>4, <1>5, <2>1
<1> HIDE DEF T
<1>8. L \in T
  BY <1>1, <1>6, <1>7, Induction
<1>9. g[L] = f[L]
  BY <1>1, <1>8 DEF T
<1>10. g[L + 1] = kept(g[L], raw)
  <2>1. L + 1 \in 1 .. L + 1 /\ (L + 1) - 1 = L
    BY <1>1
  <2> QED
    BY <1>1, <1>5, <2>1
<1> QED
  BY <1>2, <1>3, <1>9, <1>10 DEF more

\* Concatenation by a name that the provers do not rewrite.
Joined(s, t) == s \o t

\* What is kept is appended to the second of two sequences.
LEMMA KeptJoined ==
  ASSUME NEW C, NEW s \in Seq(C), NEW t \in Seq(C), NEW raw, can_frame(raw) \in C
  PROVE  kept(Joined(s, t), raw) = Joined(s, kept(t, raw))
<1> DEFINE e == can_frame(raw)
<1>1. <<e>> \in Seq(C) /\ s \o t \in Seq(C)
  BY ConcatProperties
<1>2. Append(s \o t, e) = (s \o t) \o <<e>> /\ Append(t, e) = t \o <<e>>
  BY <1>1, AppendIsConcat
<1>3. (s \o t) \o <<e>> = s \o (t \o <<e>>)
  BY <1>1, ConcatAssociative
<1> QED
  BY <1>2, <1>3 DEF kept, Joined

\* The frame at the head is the first pending one, if it is extended.
LEMMA ExtendedTail ==
  ASSUME NEW S, NEW raws \in Seq(S), raws # <<>>
  PROVE  extended(raws) = kept(<<>>, Head(raws)) \o extended(Tail(raws))
<1> DEFINE rest == Tail(raws)
           L == Len(rest)
           h == kept(<<>>, Head(raws))
           C == {can_frame(raw) : raw \in S}
<1>1. /\ rest \in Seq(S) /\ L \in Nat /\ Len(raws) = L + 1 /\ Head(raws) = raws[1]
      /\ \A n \in 1 .. L : rest[n] = raws[n + 1]
  BY HeadTailProperties
<1>2. Head(raws) \in S /\ \A raw \in S : can_frame(raw) \in C
  BY HeadTailProperties
<1> HIDE DEF rest, L, C
<1>3. h \in Seq(C)
  BY <1>2 DEF kept
<1>4. PICK f : Prefixes(f, raws) /\ extended(raws) = f[L + 1]
  BY <1>1, ExtendedDef
<1>5. PICK g : Prefixes(g, rest) /\ extended(rest) = g[L]
  BY <1>1, ExtendedDef DEF L
<1>6. f[0] = <<>> /\ \A n \in 1 .. L + 1 : f[n] = kept(f[n - 1], raws[n])
  <2>1. f[0] = <<>> /\ \A n \in 1 .. Len(raws) : f[n] = kept(f[n - 1], raws[n])
    BY <1>4, PrefixFacts
  <2> QED
    BY <1>1, <2>1
<1>7. /\ g[0] = <<>> /\ \A n \in 1 .. L : g[n] = kept(g[n - 1], rest[n])
      /\ \A n \in 0 .. L : g[n] \in Seq(C)
  <2>1. rest \in Seq(S) /\ Len(rest) = L
    BY <1>1 DEF L
  <2>2. /\ g[0] = <<>> /\ \A n \in 1 .. Len(rest) : g[n] = kept(g[n - 1], rest[n])
        /\ \A n \in 0 .. Len(rest) : g[n] \in Seq(C)
    BY <1>5, <2>1, PrefixFacts DEF C
  <2> QED
    BY <2>1, <2>2
<1>8. f[1] = h
  <2>1. 1 \in 1 .. L + 1 /\ 1 - 1 = 0
    BY <1>1
  <2> QED
    BY <1>1, <1>6, <2>1
<1> HIDE DEF h
<1> DEFINE T == {n \in Nat : n <= L => f[n + 1] = Joined(h, g[n])}
<1>9. 0 \in T
  BY <1>3, <1>7, <1>8, ConcatEmptySeq DEF Joined
<1>10. ASSUME NEW n \in Nat, n \in T PROVE n + 1 \in T
  <2> SUFFICES ASSUME n + 1 <= L PROVE f[n + 2] = Joined(h, g[n + 1])
    OBVIOUS
  <2>1. /\ n + 1 \in 1 .. L /\ n + 2 \in 1 .. L + 1 /\ (n + 1) - 1 = n
        /\ (n + 2) - 1 = n + 1 /\ n \in 0 .. L /\ (n + 1) + 1 = n + 2
    BY <1>1
  <2>2. f[n + 1] = Joined(h, g[n]) /\ g[n] \in Seq(C)
    BY <1>7, <1>10, <2>1
  <2>3. f[n + 2] = kept(Joined(h, g[n]), raws[n + 2]) /\ rest[n + 1] = raws[n + 2]
    BY <1>1, <1>6, <2>1, <2>2
  <2>4. g[n + 1] = kept(g[n], rest[n + 1])
    BY <1>7, <2>1
  <2>5. rest[n + 1] \in S
    BY <1>1, <2>1 DEF L
  <2>6. kept(Joined(h, g[n]), rest[n + 1]) = Joined(h, kept(g[n], rest[n + 1]))
    BY <1>2, <1>3, <2>2, <2>5, KeptJoined
  <2> QED
    BY <2>3, <2>4, <2>6
<1> HIDE DEF T
<1>11. L \in T
  BY <1>1, <1>9, <1>10, Induction
<1>12. f[L + 1] = Joined(h, g[L])
  BY <1>1, <1>11 DEF T
<1> QED
  BY <1>4, <1>5, <1>12 DEF h, rest, Joined

\* The first frame of a queue that is not empty is the first pending one, or
\* none at all.
LEMMA ExtendedHead ==
  ASSUME NEW S, NEW raws \in Seq(S), raws # <<>>
  PROVE  /\ Head(raws).eff =>
              /\ extended(raws) # <<>> /\ Head(extended(raws)) = can_frame(Head(raws))
              /\ extended(Tail(raws)) = Tail(extended(raws))
         /\ ~Head(raws).eff => extended(Tail(raws)) = extended(raws)
<1> DEFINE C == {can_frame(raw) : raw \in S}
           e == extended(Tail(raws))
<1>1. Tail(raws) \in Seq(S)
  BY HeadTailProperties
<1>2. e \in Seq(C)
  <2>1. PICK f : Prefixes(f, Tail(raws)) /\ e = f[Len(Tail(raws))]
    BY <1>1, ExtendedDef
  <2>2. Len(Tail(raws)) \in 0 .. Len(Tail(raws))
    BY <1>1
  <2>3. \A n \in 0 .. Len(Tail(raws)) : f[n] \in Seq(C)
    BY <1>1, <2>1, PrefixFacts
  <2> QED
    BY <2>1, <2>2, <2>3
<1>3. extended(raws) = kept(<<>>, Head(raws)) \o e
  BY ExtendedTail
<1> HIDE DEF e
<1>4. CASE Head(raws).eff
  <2>1. kept(<<>>, Head(raws)) = <<can_frame(Head(raws))>>
    BY <1>4 DEF kept
  <2>2. extended(raws) = <<can_frame(Head(raws))>> \o e
    BY <1>3, <2>1
  <2>3. can_frame(Head(raws)) \in C
    BY HeadTailProperties
  <2> HIDE DEF C
  <2>4. /\ <<can_frame(Head(raws))>> \o e # <<>>
        /\ Head(<<can_frame(Head(raws))>> \o e) = can_frame(Head(raws))
        /\ Tail(<<can_frame(Head(raws))>> \o e) = e
    BY <1>2, <2>3
  <2> QED
    BY <1>4, <2>2, <2>4 DEF e
<1>5. CASE ~Head(raws).eff
  <2>1. kept(<<>>, Head(raws)) = <<>>
    BY <1>5 DEF kept
  <2> QED
    BY <1>2, <1>3, <1>5, <2>1, ConcatEmptySeq DEF e
<1> QED
  BY <1>4, <1>5

\* Nothing is pending in an empty queue.
LEMMA ExtendedEmpty == extended(<<>>) = <<>>
<1>1. PICK f : Prefixes(f, <<>>) /\ extended(<<>>) = f[0]
  <2>1. <<>> \in Seq(Nat) /\ Len(<<>>) = 0
    OBVIOUS
  <2> QED
    BY <2>1, ExtendedDef
<1> QED
  BY <1>1 DEF Prefixes

\* Every step of the socket is a step of the transport or none.
LEMMA TransportStep ==
  ASSUME SocketInv, [Next]_vars
  PROVE  Transport!Next \/ (CutShort /\ Transport!GiveUp) \/ UNCHANGED Transport!vars
<1>1. queue \in Seq(Raw) /\ (pc = "read" => queue # <<>>)
  BY DEF SocketInv, TypeOK
<1>2. CASE UNCHANGED vars
  BY <1>2 DEF vars, Transport!vars
<1>3. ASSUME NEW id \in MotorIds, set_motor_id_filter(id) PROVE UNCHANGED Transport!vars
  BY <1>3 DEF set_motor_id_filter, Transport!vars
<1>4. ASSUME NEW f \in Outgoing, Send(f) PROVE Transport!Send
  BY <1>4 DEF Send, kernelVars, Transport!Send
<1>5. CASE Receive
  <2>1. Transport!Receive
    BY <1>5 DEF Receive, kernelVars, Transport!Receive
  <2> QED
    BY <2>1 DEF Transport!Next
<1>6. CASE SelectTimesOut
  <2>1. Transport!TimeOut
    BY <1>6 DEF SelectTimesOut, Finish, kernelVars, Transport!TimeOut, Transport!GiveUp,
                Transport!Return
  <2> QED
    BY <2>1 DEF Transport!Next
<1>7. CASE SelectFails \/ ReadFails
  <2>1. Transport!Fail
    BY <1>7 DEF SelectFails, ReadFails, Finish, kernelVars, Transport!Fail, Transport!Return
  <2> QED
    BY <2>1 DEF Transport!Next
<1>8. CASE SelectReady
  BY <1>8 DEF SelectReady, kernelVars, Transport!vars
<1>9. CASE ReadFrame
  <2>1. Transport!ReturnFrame
    <3>1. queue # <<>> /\ queue' = Tail(queue) /\ Head(queue).eff
      BY <1>1, <1>9 DEF ReadFrame, Dequeue
    <3>2. /\ extended(queue) # <<>> /\ Head(extended(queue)) = can_frame(Head(queue))
          /\ extended(queue') = Tail(extended(queue))
      BY <1>1, <3>1, ExtendedHead
    <3> QED
      BY <1>9, <3>2 DEF ReadFrame, Dequeue, Finish, Transport!ReturnFrame, Transport!Return
  <2> QED
    BY <2>1 DEF Transport!Next
<1>10. CASE IgnoreFrame
  <2>1. CutShort /\ Transport!GiveUp
    <3>1. queue # <<>> /\ queue' = Tail(queue) /\ ~Head(queue).eff
      BY <1>1, <1>10 DEF IgnoreFrame, Dequeue
    <3>2. extended(queue') = extended(queue)
      BY <1>1, <3>1, ExtendedHead
    <3>3. CutShort
      <4>1. Head(queue) = queue[1] /\ Len(queue) >= 1 /\ before \in Nat
        BY <1>1, <3>1 DEF SocketInv, TypeOK
      <4> QED
        BY <1>10, <3>1, <4>1 DEF SocketInv, Filtered, CutShort, IgnoreFrame, Dequeue
    <3> QED
      BY <1>10, <3>2, <3>3 DEF IgnoreFrame, Dequeue, Finish, Transport!GiveUp,
                               Transport!Return
  <2> QED
    BY <2>1
<1>11. CASE Arrive
  <2>1. PICK raw \in Raw :
          queue' = IF Passes(raw) /\ Len(queue) < Capacity
                   THEN Append(queue, raw) ELSE queue
    BY <1>11 DEF Arrive, Raw
  <2>2. extended(queue') \in {extended(queue), Append(extended(queue), can_frame(raw))}
    BY <1>1, <2>1, ExtendedAppend DEF kept
  <2>3. Transport!Arrive \/ UNCHANGED Transport!vars
    BY <1>11, <2>2 DEF Arrive, Transport!Arrive, Transport!vars, Raw
  <2> QED
    BY <2>3 DEF Transport!Next
<1>12. CASE Tick
  <2>1. Transport!Expire
    BY <1>12 DEF Tick, kernelVars, Transport!Expire
  <2> QED
    BY <2>1 DEF Transport!Next
<1> QED
  BY <1>2, <1>3, <1>4, <1>5, <1>6, <1>7, <1>8, <1>9, <1>10, <1>11, <1>12
     DEF Next, Driver, Transport!Next

\* Receive returns the extended frames the kernel accepted, each once and in
\* their order, gives up without one only when its time is over or a standard
\* frame that no filter kept away cuts it short, and reports every failure.
THEOREM SocketTransportTheorem == Spec => TransportSpec
<1>1. Init => SocketInv /\ Transport!Init
  <2> SUFFICES ASSUME Init PROVE SocketInv /\ Transport!Init
    OBVIOUS
  <2>1. SocketInv
    BY SocketInit, SocketCanAssumption
  <2>2. Transport!Init
    BY ExtendedEmpty DEF Init, Transport!Init
  <2> QED
    BY <2>1, <2>2
<1>2. SocketInv /\ [Next]_vars => SocketInv'
  BY SocketStep, SocketCanAssumption
<1> DEFINE Step == Transport!Next \/ (CutShort /\ Transport!GiveUp)
<1>3. SocketInv /\ [Next]_vars => [Step]_(Transport!vars)
  BY TransportStep
<1> QED
  BY <1>1, <1>2, <1>3, PTL DEF Spec, TransportSpec

\* Only frames with extended identifiers are on the bus before the filter is
\* set; what is on it afterwards is not restricted.
OnlyExtended == \A raw \in Early : raw.eff

\* Then only such frames are ever in the queue.
ExtendedQueue == \A i \in DOMAIN queue : queue[i].eff

\* What the filter lets pass has the flag.
LEMMA ExtendedQueueStep ==
  ASSUME OnlyExtended, SocketInv, ExtendedQueue, [Next]_vars
  PROVE  ExtendedQueue'
<1>1. queue \in Seq(Raw) /\ (pc = "read" => queue # <<>>)
  BY DEF SocketInv, TypeOK
<1>2. CASE Dequeue
  <2>1. queue # <<>> /\ queue' = Tail(queue)
    BY <1>1, <1>2 DEF Dequeue
  <2>2. /\ queue' \in Seq(Raw) /\ Len(queue') = Len(queue) - 1 /\ Len(queue) \in Nat
        /\ \A i \in 1 .. Len(queue') : queue'[i] = queue[i + 1]
    BY <1>1, <2>1, HeadTailProperties
  <2> QED
    BY <1>1, <2>2 DEF ExtendedQueue
<1>3. CASE Arrive
  <2>1. PICK raw \in Raw :
          /\ raw.eff \/ ~Passes(raw)
          /\ queue' = IF Passes(raw) /\ Len(queue) < Capacity
                      THEN Append(queue, raw) ELSE queue
    BY <1>3 DEF Arrive, Raw, OnlyExtended, Passes
  <2>2. CASE queue' = queue
    BY <2>2 DEF ExtendedQueue
  <2>3. CASE queue' = Append(queue, raw) /\ raw.eff
    BY <1>1, <2>3, AppendProperties DEF ExtendedQueue
  <2> QED
    BY <2>1, <2>2, <2>3
<1>4. CASE ~Dequeue /\ ~Arrive
  <2>1. UNCHANGED queue
    BY <1>4 DEF Next, Driver, set_motor_id_filter, Send, Receive, SelectTimesOut, SelectFails,
                SelectReady, ReadFails, ReadFrame, IgnoreFrame, Tick, kernelVars, vars
  <2> QED
    BY <2>1 DEF ExtendedQueue
<1> QED
  BY <1>2, <1>3, <1>4

\* Where every frame on the bus before the filter is set is an extended one,
\* SocketCanInterface keeps the promise of can_interface.hpp to the letter:
\* nullopt means that the time is over.
THEOREM SocketContractTheorem ==
  ASSUME OnlyExtended PROVE Spec => Transport!Spec
<1>1. Init => SocketInv /\ ExtendedQueue /\ Transport!Init
  <2> SUFFICES ASSUME Init PROVE SocketInv /\ ExtendedQueue /\ Transport!Init
    OBVIOUS
  <2>1. SocketInv
    BY SocketInit, SocketCanAssumption
  <2>2. Transport!Init
    BY ExtendedEmpty DEF Init, Transport!Init
  <2>3. ExtendedQueue
    BY DEF Init, ExtendedQueue
  <2> QED
    BY <2>1, <2>2, <2>3
<1>2. SocketInv /\ ExtendedQueue /\ [Next]_vars => (SocketInv /\ ExtendedQueue)'
  BY SocketStep, ExtendedQueueStep, SocketCanAssumption
<1>3. SocketInv /\ ExtendedQueue /\ [Next]_vars => [Transport!Next]_(Transport!vars)
  <2> SUFFICES ASSUME SocketInv, ExtendedQueue, [Next]_vars
               PROVE  Transport!Next \/ UNCHANGED Transport!vars
    OBVIOUS
  <2>1. ~CutShort
    <3> SUFFICES ASSUME pc = "read" PROVE Head(queue).eff
      BY DEF CutShort
    <3>1. queue # <<>> /\ queue \in Seq(Raw)
      BY DEF SocketInv, TypeOK
    <3>2. Head(queue) = queue[1] /\ 1 \in DOMAIN queue
      BY <3>1
    <3> QED
      BY <3>2 DEF ExtendedQueue
  <2> QED
    BY <2>1, TransportStep
<1> QED
  BY <1>1, <1>2, <1>3, PTL DEF Spec, Transport!Spec

----------------------------------------------------------------------------
\* The codec: what one end encodes, the other decodes.

\* The provers spell an interval of numbers out: these are its members.
LEMMA IntervalFacts ==
  ASSUME NEW m \in Int
  PROVE  /\ m = 65535 => \A k : k \in UInt16 <=> k \in Int /\ 0 <= k /\ k <= m
         /\ m = 255 => \A k : k \in Byte <=> k \in Int /\ 0 <= k /\ k <= m
<1>1. \A k : k \in 0 .. m <=> k \in Int /\ 0 <= k /\ k <= m
  OBVIOUS
<1>2. m = 65535 => UInt16 = 0 .. m
  BY SMT DEF UInt16
<1>3. m = 255 => Byte = 0 .. m
  BY SMT DEF Byte
<1> QED
  BY <1>1, <1>2, <1>3

\* The same for the numbers the code uses.
LEMMA UIntFacts ==
  /\ \A k : k \in UInt16 <=> k \in Int /\ 0 <= k /\ k <= 65535
  /\ \A k : k \in Byte <=> k \in Int /\ 0 <= k /\ k <= 255
  BY IntervalFacts

\* Sixteen bits as two bytes, either way round.
LEMMA Words ==
  ASSUME NEW w \in UInt16
  PROVE  /\ big_endian(w) \in Seq(Byte) /\ Len(big_endian(w)) = 2
         /\ big_endian(w)[1] * 256 + big_endian(w)[2] = w
         /\ little_endian(w) \in Seq(Byte) /\ Len(little_endian(w)) = 2
         /\ little_endian(w)[1] + little_endian(w)[2] * 256 = w
<1>1. w \in Int /\ 0 <= w /\ w <= 65535
  BY UIntFacts
<1>2. /\ w \div 256 \in Int /\ w % 256 \in Int /\ 0 <= w % 256 /\ w % 256 <= 255
      /\ (w \div 256) * 256 + (w % 256) = w
  BY <1>1
<1>4. 0 <= w \div 256 /\ w \div 256 <= 255
  BY <1>1, <1>2
<1>3. w \div 256 \in Byte /\ w % 256 \in Byte
  BY <1>2, <1>4, UIntFacts
<1> QED
  BY <1>2, <1>3 DEF big_endian, little_endian

\* Division by a positive number.
LEMMA DivisionFacts ==
  ASSUME NEW a \in Int, NEW b \in Nat \ {0}
  PROVE  /\ a \div b \in Int /\ b * (a \div b) \in Int
         /\ b * (a \div b) <= a /\ a < b * (a \div b) + b
OBVIOUS

\* Factors of a product of integers, one of them positive.
LEMMA ProductOrder ==
  ASSUME NEW b \in Nat \ {0}, NEW q \in Int, NEW r \in Int, b * q < b * r
  PROVE  q < r
<1> SUFFICES ASSUME q >= r PROVE FALSE
  OBVIOUS
<1>1. PICK d \in Nat : q = r + d
  OBVIOUS
<1>2. b * q = b * r + b * d /\ b * d >= 0 /\ b * r \in Int /\ b * d \in Int
  BY <1>1
<1> QED
  BY <1>2

\* A physical value fits the 16 bits it is encoded in, and comes back clamped,
\* no more than half a step away.
LEMMA HalfStep ==
  ASSUME NEW x \in Int, NEW min \in Int, NEW max \in Int, min < max
  PROVE  /\ float_to_uint(x, min, max) \in UInt16
         /\ Near(uint_to_float(float_to_uint(x, min, max), min, max), x, min, max)
<1> DEFINE c == clamp(x, min, max)
           d == c - min
           n == max - min
           q == (2 * d * steps + n) \div (2 * n)
<1>1. c \in min .. max
  BY DEF clamp
<1>2. /\ n \in Nat \ {0} /\ 2 * n \in Nat \ {0} /\ d \in 0 .. n /\ d \in Int
      /\ c \in Int /\ c = d + min /\ max - min = n
  BY <1>1
<1>3. float_to_uint(x, min, max) = q
  BY DEF float_to_uint
<1> HIDE DEF c, d, n
<1>4. 2 * d * steps + n = 2 * (d * 65535) + n /\ d * 65535 \in Int
  BY <1>2 DEF steps
<1> DEFINE b == 2 * (d * 65535) + n
<1>5. b \in Int /\ q = b \div (2 * n) /\ b >= 0 /\ b < (2 * n) * 65536
  <2>1. q = b \div (2 * n)
    BY <1>4
  <2>2. b \in Int /\ b >= 0 /\ b < (2 * n) * 65536
    BY <1>2
  <2> QED
    BY <2>1, <2>2
<1>6. q \in Int /\ (2 * n) * q \in Int /\ (2 * n) * q <= b /\ b < (2 * n) * q + 2 * n
  <2> DEFINE w == 2 * n
  <2>1. w \in Nat \ {0} /\ b \in Int /\ q = b \div w
    BY <1>2, <1>5
  <2> HIDE DEF w, b, q
  <2>2. q \in Int /\ w * q \in Int /\ w * q <= b /\ b < w * q + w
    BY <2>1, DivisionFacts
  <2> QED
    BY <2>2 DEF w
<1> HIDE DEF q, b
<1>7. q < 65536
  <2>1. (2 * n) * q < (2 * n) * 65536
    BY <1>5, <1>6, <1>2 DEF b
  <2> QED
    BY <1>2, <1>6, <2>1, ProductOrder
<1>8. -1 < q
  <2>1. (2 * n) * (-1) < (2 * n) * q
    BY <1>2, <1>5, <1>6 DEF b
  <2> QED
    BY <1>2, <1>6, <2>1, ProductOrder
<1>9. q * n \in Int /\ (2 * n) * q = 2 * (q * n)
  BY <1>2, <1>6
<1>10. uint_to_float(q, min, max) - c * steps = q * n - d * 65535
  <2>1. c * steps = d * 65535 + min * 65535 /\ min * 65535 \in Int /\ min * steps = min * 65535
    BY <1>2 DEF steps
  <2>2. uint_to_float(q, min, max) = q * n + min * 65535
    BY <1>2, <2>1 DEF uint_to_float
  <2> QED
    BY <1>4, <1>9, <2>1, <2>2
<1>11. Near(uint_to_float(q, min, max), x, min, max)
  <2>1. 2 * (q * n - d * 65535) <= n /\ -(2 * (q * n - d * 65535)) <= n
    BY <1>2, <1>4, <1>6, <1>9 DEF b
  <2>2. 2 * abs(q * n - d * 65535) <= n
    BY <1>4, <1>9, <2>1 DEF abs
  <2>3. 2 * abs(uint_to_float(q, min, max) - c * steps) <= max - min
    BY <1>2, <1>10, <2>2
  <2> QED
    BY <2>3 DEF Near, c
<1>12. q \in UInt16
  <2>1. q \in Int
    BY <1>6
  <2>2. 0 <= q /\ q <= 65535
    BY <1>7, <1>8, <2>1
  <2> QED
    BY <2>1, <2>2, UIntFacts
<1> QED
  BY <1>3, <1>11, <1>12

\* Padding of a data field.
LEMMA ZerosFacts ==
  ASSUME NEW n \in Nat
  PROVE  zeros(n) \in Seq(Byte) /\ Len(zeros(n)) = n
<1>1. 0 \in Byte
  BY UIntFacts
<1> QED
  BY <1>1 DEF zeros

\* The data field of a frame starts with the data it is made of.
LEMMA FrameData ==
  ASSUME NEW data \in Seq(Byte), Len(data) <= 8, NEW type, NEW data_area2, NEW dest
  PROVE  LET bytes == make_frame(type, data_area2, dest, data).data
         IN  /\ bytes \in Seq(Byte) /\ Len(bytes) = 8
             /\ \A i \in 1 .. Len(data) : bytes[i] = data[i]
             /\ bytes = data \o zeros(8 - Len(data))
<1>1. Len(data) \in Nat /\ 8 - Len(data) \in Nat
  OBVIOUS
<1>2. make_frame(type, data_area2, dest, data).data = data \o zeros(8 - Len(data))
  BY DEF make_frame
<1>3. zeros(8 - Len(data)) \in Seq(Byte) /\ Len(zeros(8 - Len(data))) = 8 - Len(data)
  BY <1>1, ZerosFacts
<1> DEFINE pad == zeros(8 - Len(data))
<1> HIDE DEF pad
<1>4. /\ data \o pad \in Seq(Byte) /\ Len(data \o pad) = 8
      /\ \A i \in 1 .. Len(data) : (data \o pad)[i] = data[i]
  BY <1>1, <1>3, ConcatProperties DEF pad
<1> QED
  BY <1>2, <1>4 DEF pad

\* Two sequences of bytes, one after the other.
LEMMA Joining ==
  ASSUME NEW s \in Seq(Byte), NEW t \in Seq(Byte)
  PROVE  /\ s \o t \in Seq(Byte) /\ Len(s) \in Nat /\ Len(s \o t) = Len(s) + Len(t)
         /\ \A i \in 1 .. Len(s) : (s \o t)[i] = s[i]
         /\ \A i \in 1 .. Len(t) : (s \o t)[Len(s) + i] = t[i]
<1>1. Len(s) \in Nat /\ Len(t) \in Nat
  OBVIOUS
<1>2. s \o t \in Seq(Byte) /\ Len(s \o t) = Len(s) + Len(t)
  BY ConcatProperties
<1>3. \A i \in 1 .. Len(s) + Len(t) : (s \o t)[i] = IF i <= Len(s) THEN s[i] ELSE t[i - Len(s)]
  BY ConcatProperties
<1> QED
  BY <1>1, <1>2, <1>3

\* Two more bytes.
LEMMA TwoMore ==
  ASSUME NEW s \in Seq(Byte), NEW w \in Seq(Byte), Len(w) = 2
  PROVE  /\ s \o w \in Seq(Byte) /\ Len(s \o w) = Len(s) + 2
         /\ \A i \in 1 .. Len(s) : (s \o w)[i] = s[i]
         /\ (s \o w)[Len(s) + 1] = w[1] /\ (s \o w)[Len(s) + 2] = w[2]
<1> DEFINE u == s \o w
<1>1. /\ u \in Seq(Byte) /\ Len(u) = Len(s) + Len(w)
      /\ \A i \in 1 .. Len(s) : u[i] = s[i]
      /\ \A i \in 1 .. Len(w) : u[Len(s) + i] = w[i]
  BY Joining
<1> HIDE DEF u
<1>2. u[Len(s) + 1] = w[1] /\ u[Len(s) + 2] = w[2]
  BY <1>1
<1> QED
  BY <1>1, <1>2 DEF u

\* Four numbers in the eight bytes of a data field.
words(a, b, c, d) == big_endian(a) \o big_endian(b) \o big_endian(c) \o big_endian(d)

\* They are found where they were put.
LEMMA FourWords ==
  ASSUME NEW a \in UInt16, NEW b \in UInt16, NEW c \in UInt16, NEW d \in UInt16
  PROVE  LET data == words(a, b, c, d)
         IN  /\ data \in Seq(Byte) /\ Len(data) = 8
             /\ data[1] * 256 + data[2] = a /\ data[3] * 256 + data[4] = b
             /\ data[5] * 256 + data[6] = c /\ data[7] * 256 + data[8] = d
<1> DEFINE u == big_endian(a)
           v == big_endian(b)
           w == big_endian(c)
           x == big_endian(d)
<1>1. /\ u \in Seq(Byte) /\ Len(u) = 2 /\ u[1] * 256 + u[2] = a
      /\ v \in Seq(Byte) /\ Len(v) = 2 /\ v[1] * 256 + v[2] = b
      /\ w \in Seq(Byte) /\ Len(w) = 2 /\ w[1] * 256 + w[2] = c
      /\ x \in Seq(Byte) /\ Len(x) = 2 /\ x[1] * 256 + x[2] = d
  BY Words
<1> HIDE DEF u, v, w, x
<1> DEFINE s == u \o v
           t == s \o w
           y == t \o x
<1>2. /\ s \in Seq(Byte) /\ Len(s) = 4
      /\ s[1] = u[1] /\ s[2] = u[2] /\ s[3] = v[1] /\ s[4] = v[2]
  <2>1. /\ s \in Seq(Byte) /\ Len(s) = Len(u) + 2
        /\ \A i \in 1 .. Len(u) : s[i] = u[i]
        /\ s[Len(u) + 1] = v[1] /\ s[Len(u) + 2] = v[2]
    BY <1>1, TwoMore
  <2> HIDE DEF s
  <2> QED
    BY <1>1, <2>1
<1> HIDE DEF s
<1>3. /\ t \in Seq(Byte) /\ Len(t) = 6
      /\ \A i \in 1 .. 4 : t[i] = s[i]
      /\ t[5] = w[1] /\ t[6] = w[2]
  <2>1. /\ t \in Seq(Byte) /\ Len(t) = Len(s) + 2
        /\ \A i \in 1 .. Len(s) : t[i] = s[i]
        /\ t[Len(s) + 1] = w[1] /\ t[Len(s) + 2] = w[2]
    BY <1>1, <1>2, TwoMore
  <2> HIDE DEF t
  <2> QED
    BY <1>2, <2>1
<1> HIDE DEF t
<1>4. /\ y \in Seq(Byte) /\ Len(y) = 8
      /\ \A i \in 1 .. 6 : y[i] = t[i]
      /\ y[7] = x[1] /\ y[8] = x[2]
  <2>1. /\ y \in Seq(Byte) /\ Len(y) = Len(t) + 2
        /\ \A i \in 1 .. Len(t) : y[i] = t[i]
        /\ y[Len(t) + 1] = x[1] /\ y[Len(t) + 2] = x[2]
    BY <1>1, <1>3, TwoMore
  <2> HIDE DEF y
  <2> QED
    BY <1>3, <2>1
<1> HIDE DEF y
<1>7. /\ y[1] = u[1] /\ y[2] = u[2] /\ y[3] = v[1] /\ y[4] = v[2]
      /\ y[5] = w[1] /\ y[6] = w[2] /\ y[7] = x[1] /\ y[8] = x[2]
  BY <1>2, <1>3, <1>4
<1>8. /\ y \in Seq(Byte) /\ Len(y) = 8
      /\ y[1] * 256 + y[2] = a /\ y[3] * 256 + y[4] = b
      /\ y[5] * 256 + y[6] = c /\ y[7] * 256 + y[8] = d
  BY <1>1, <1>4, <1>7
<1> QED
  BY <1>8, Zenon DEF words, y, t, s, u, v, w, x

\* The data field of a parameter frame: the index, then the value's bytes.
LEMMA ParamData ==
  ASSUME NEW index \in UInt16, NEW value \in Value, NEW type, NEW data_area2, NEW dest
  PROVE  LET bytes == make_frame(type, data_area2, dest,
                                 little_endian(index) \o zeros(2) \o value).data
         IN  bytes[1] + bytes[2] * 256 = index /\ SubSeq(bytes, 5, 8) = padded(value)
<1> DEFINE u == little_endian(index)
           z == zeros(2)
           h == u \o z
           data == h \o value
           bytes == make_frame(type, data_area2, dest, data).data
           pad == zeros(8 - Len(data))
<1>1. u \in Seq(Byte) /\ Len(u) = 2 /\ u[1] + u[2] * 256 = index
  BY Words
<1>2. z \in Seq(Byte) /\ Len(z) = 2
  BY ZerosFacts
<1>3. value \in Seq(Byte) /\ Len(value) \in Nat /\ Len(value) <= 4
  BY DEF Value
<1> HIDE DEF u, z
<1>4. h \in Seq(Byte) /\ Len(h) = 4 /\ h[1] = u[1] /\ h[2] = u[2]
  <2>1. h \in Seq(Byte) /\ Len(h) = Len(u) + 2 /\ \A i \in 1 .. Len(u) : h[i] = u[i]
    BY <1>1, <1>2, TwoMore
  <2> HIDE DEF h
  <2> QED
    BY <1>1, <2>1
<1> HIDE DEF h
<1>5. /\ data \in Seq(Byte) /\ Len(data) = 4 + Len(value) /\ data[1] = u[1] /\ data[2] = u[2]
      /\ \A i \in 1 .. Len(value) : data[4 + i] = value[i]
  <2>1. /\ data \in Seq(Byte) /\ Len(data) = Len(h) + Len(value)
        /\ \A i \in 1 .. Len(h) : data[i] = h[i]
        /\ \A i \in 1 .. Len(value) : data[Len(h) + i] = value[i]
    BY <1>3, <1>4, Joining
  <2> HIDE DEF data
  <2> QED
    BY <1>4, <2>1
<1> HIDE DEF data
<1>6. /\ bytes \in Seq(Byte) /\ Len(bytes) = 8 /\ bytes = data \o pad
      /\ \A i \in 1 .. Len(data) : bytes[i] = data[i]
  <2>1. data \in Seq(Byte) /\ Len(data) <= 8
    BY <1>3, <1>5
  <2> QED
    BY <2>1, FrameData
<1>7. pad = zeros(4 - Len(value)) /\ pad \in Seq(Byte) /\ Len(pad) = 4 - Len(value)
  <2>1. 8 - Len(data) = 4 - Len(value) /\ 4 - Len(value) \in Nat
    BY <1>3, <1>5
  <2> QED
    BY <2>1, ZerosFacts
<1> HIDE DEF bytes, pad
<1>8. \A i \in 1 .. Len(pad) : bytes[Len(data) + i] = pad[i]
  BY <1>3, <1>5, <1>6, <1>7, ConcatProperties
<1>9. SubSeq(bytes, 5, 8) \in Seq(Byte) /\ Len(SubSeq(bytes, 5, 8)) = 4
      /\ \A i \in 1 .. 4 : SubSeq(bytes, 5, 8)[i] = bytes[i + 4]
  BY <1>6, SubSeqProperties
<1>10. /\ value \o pad \in Seq(Byte) /\ Len(value \o pad) = 4
       /\ \A i \in 1 .. 4 : (value \o pad)[i] =
            IF i <= Len(value) THEN value[i] ELSE pad[i - Len(value)]
  BY <1>3, <1>7, ConcatProperties
<1>11. \A i \in 1 .. 4 : bytes[i + 4] = IF i <= Len(value) THEN value[i] ELSE pad[i - Len(value)]
  <2> TAKE i \in 1 .. 4
  <2>1. CASE i <= Len(value)
    <3>1. i + 4 \in 1 .. Len(data) /\ i \in 1 .. Len(value)
      BY <1>3, <1>5, <2>1
    <3> QED
      BY <1>5, <1>6, <2>1, <3>1
  <2>2. CASE ~(i <= Len(value))
    <3>1. i - Len(value) \in 1 .. Len(pad) /\ Len(data) + (i - Len(value)) = i + 4
      BY <1>3, <1>5, <1>7, <2>2
    <3> QED
      BY <1>8, <2>2, <3>1
  <2> QED
    BY <2>1, <2>2
<1>12. SubSeq(bytes, 5, 8) = padded(value)
  <2> DEFINE p == SubSeq(bytes, 5, 8)
             q == value \o pad
  <2>1. p \in Seq(Byte) /\ q \in Seq(Byte) /\ Len(p) = Len(q) /\ \A i \in 1 .. Len(p) : p[i] = q[i]
    BY <1>9, <1>10, <1>11
  <2> HIDE DEF p, q
  <2>2. p = q
    BY <2>1, SeqEqual
  <2> QED
    BY <1>7, <2>2 DEF p, q, padded
<1>13. bytes[1] + bytes[2] * 256 = index
  BY <1>1, <1>3, <1>5, <1>6
<1> QED
  BY <1>12, <1>13, Zenon DEF bytes, data, h, u, z

\* The limits of every actuator are positive.
LEMMA LimitFacts ==
  ASSUME NEW t \in DOMAIN limits_table
  PROVE  LET l == get_actuator_limits(t)
         IN  /\ l.position \in Nat \ {0} /\ l.velocity \in Nat \ {0}
             /\ l.torque \in Nat \ {0} /\ l.kp_max \in Nat \ {0} /\ l.kd_max \in Nat \ {0}
BY DEF limits_table, Limits, get_actuator_limits

\* A value of a symmetric range, there and back.
LEMMA SymmetricHalfStep ==
  ASSUME NEW x \in Int, NEW limit \in Nat \ {0}
  PROVE  /\ symmetric(x, limit) \in UInt16
         /\ NearSymmetric(uint_to_float(symmetric(x, limit), -limit, limit), x, limit)
<1>1. -limit \in Int /\ limit \in Int /\ -limit < limit
  OBVIOUS
<1> QED
  BY <1>1, HalfStep DEF symmetric, NearSymmetric

\* The identifier of a frame, of two bytes of data and of one.
LEMMA IdFacts ==
  ASSUME NEW type, NEW dest, NEW data
  PROVE  /\ \A area : LET f == make_frame(type, area, dest, data)
                      IN  /\ f.dlc = 8 /\ f.id[1] = type /\ f.id[4] = dest
                          /\ f.id[2] = area \div 256 /\ f.id[3] = area % 256
         /\ \A hi, lo \in Byte : (hi * 256 + lo) \div 256 = hi /\ (hi * 256 + lo) % 256 = lo
         /\ \A lo \in Byte : lo % 256 = lo
<1>1. \A area : LET f == make_frame(type, area, dest, data)
                IN  /\ f.dlc = 8 /\ f.id[1] = type /\ f.id[4] = dest
                    /\ f.id[2] = area \div 256 /\ f.id[3] = area % 256
  BY DEF make_frame, make_id
<1>2. ASSUME NEW hi \in Byte, NEW lo \in Byte
      PROVE  /\ (hi * 256 + lo) \div 256 = hi /\ (hi * 256 + lo) % 256 = lo
             /\ lo % 256 = lo
  <2>1. hi \in Int /\ lo \in Int /\ 0 <= lo /\ lo <= 255
    BY UIntFacts
  <2> QED
    BY <2>1
<1> QED
  BY <1>1, <1>2

\* A report means to the host what the motor measured.
LEMMA ReportSurvives ==
  ASSUME NEW fb \in Report, NEW t \in DOMAIN limits_table
  PROVE  \E parsed \in parse_feedback(make_feedback_frame(fb, get_actuator_limits(t)),
                                      get_actuator_limits(t)) :
           SameReport(parsed, fb, get_actuator_limits(t))
<1> DEFINE l == get_actuator_limits(t)
           f == make_feedback_frame(fb, l)
           p == symmetric(fb.position, l.position)
           v == symmetric(fb.velocity, l.velocity)
           q == symmetric(fb.torque, l.torque)
           temp == fb.temperature % 65536
           status == (fb.mode * 64) + (fb.fault % 64)
           area == status * 256 + fb.motor_id
           data == words(p, v, q, temp)
<1>1. /\ fb.position \in Int /\ fb.velocity \in Int /\ fb.torque \in Int
      /\ fb.motor_id \in Byte /\ fb.mode \in 0 .. 3 /\ fb.fault \in 0 .. 63
      /\ fb.temperature \in Int
  BY DEF Report
<1>2. l.position \in Nat \ {0} /\ l.velocity \in Nat \ {0} /\ l.torque \in Nat \ {0}
  BY LimitFacts
<1>3. f = make_frame(2, area, fb.host_id, data)
  BY DEF make_feedback_frame, CommType, words
<1> HIDE DEF l
<1>4. temp \in UInt16
  <2>1. temp \in Int /\ 0 <= temp /\ temp <= 65535
    BY <1>1
  <2> QED
    BY <2>1, UIntFacts
<1>5. /\ p \in UInt16 /\ NearSymmetric(uint_to_float(p, -l.position, l.position),
                                       fb.position, l.position)
      /\ v \in UInt16 /\ NearSymmetric(uint_to_float(v, -l.velocity, l.velocity),
                                       fb.velocity, l.velocity)
      /\ q \in UInt16 /\ NearSymmetric(uint_to_float(q, -l.torque, l.torque),
                                       fb.torque, l.torque)
  BY <1>1, <1>2, SymmetricHalfStep
<1> HIDE DEF p, v, q, f, temp
<1>6. /\ data \in Seq(Byte) /\ Len(data) = 8
      /\ data[1] * 256 + data[2] = p /\ data[3] * 256 + data[4] = v
      /\ data[5] * 256 + data[6] = q /\ data[7] * 256 + data[8] = temp
  <2>1. p \in UInt16 /\ v \in UInt16 /\ q \in UInt16
    BY <1>5
  <2> QED
    BY <1>4, <2>1, FourWords
<1> HIDE DEF data
<1>7. status \in Byte /\ status \div 64 = fb.mode /\ status % 64 = fb.fault
  <2>1. /\ status \in Int /\ 0 <= status /\ status <= 255
        /\ status \div 64 = fb.mode /\ status % 64 = fb.fault
    BY <1>1
  <2> QED
    BY <2>1, UIntFacts
<1> HIDE DEF status
<1>8. /\ f.dlc = 8 /\ f.id[1] = 2 /\ f.id[2] = status /\ f.id[3] = fb.motor_id
      /\ f.id[4] = fb.host_id
  BY <1>1, <1>3, <1>7, IdFacts
<1>9. \A i \in 1 .. 8 : f.data[i] = data[i]
  <2>1. data \in Seq(Byte) /\ Len(data) <= 8
    BY <1>6
  <2> HIDE DEF area
  <2>2. \A i \in 1 .. Len(data) : f.data[i] = data[i]
    BY <1>3, <2>1, FrameData
  <2> QED
    BY <1>6, <2>2
<1>10. /\ from_big_endian(f, 1) = p /\ from_big_endian(f, 3) = v /\ from_big_endian(f, 5) = q
       /\ from_big_endian(f, 7) = temp
  BY <1>6, <1>9 DEF from_big_endian
<1> DEFINE parsed == [motor_id |-> f.id[3], host_id |-> f.id[4],
                      mode |-> f.id[2] \div 64, fault |-> f.id[2] % 64,
                      position |-> from_symmetric(f, 1, l.position),
                      velocity |-> from_symmetric(f, 3, l.velocity),
                      torque |-> from_symmetric(f, 5, l.torque),
                      temperature |-> from_big_endian(f, 7)]
<1>11. parse_feedback(f, l) = {parsed}
  BY <1>8 DEF parse_feedback, get_comm_type, get_source_motor_id, CommType
<1>12. SameReport(parsed, fb, l)
  <2>1. /\ \A field \in {"motor_id", "host_id", "mode", "fault"} : parsed[field] = fb[field]
        /\ parsed.temperature = temp
    BY <1>7, <1>8, <1>10
  <2>2. /\ NearSymmetric(parsed.position, fb.position, l.position)
        /\ NearSymmetric(parsed.velocity, fb.velocity, l.velocity)
        /\ NearSymmetric(parsed.torque, fb.torque, l.torque)
    BY <1>5, <1>10 DEF from_symmetric
  <2> QED
    BY <2>1, <2>2 DEF SameReport, temp
<1> HIDE DEF parsed
<1> QED
  BY <1>11, <1>12 DEF f, l

\* A parameter value means to the host what the motor answered.
LEMMA ResponseSurvives ==
  ASSUME NEW r \in Response
  PROVE  parse_param_response(make_param_response_frame(r.motor_id, r.host_id, r.index, r.value))
           = {[motor_id |-> r.motor_id, index |-> r.index, data |-> padded(r.value)]}
<1> DEFINE f == make_param_response_frame(r.motor_id, r.host_id, r.index, r.value)
           data == little_endian(r.index) \o zeros(2) \o r.value
<1>1. r.index \in UInt16 /\ r.value \in Value /\ r.motor_id \in Byte
  BY DEF Response
<1>2. f = make_frame(17, r.motor_id, r.host_id, data)
  BY DEF make_param_response_frame, CommType
<1>3. f.data[1] + f.data[2] * 256 = r.index /\ SubSeq(f.data, 5, 8) = padded(r.value)
  BY <1>1, <1>2, ParamData
<1> HIDE DEF f, data
<1>4. f.dlc = 8 /\ f.id[1] = 17 /\ f.id[3] = r.motor_id
  BY <1>1, <1>2, IdFacts
<1>5. parse_param_response(f) =
        {[motor_id |-> r.motor_id, index |-> r.index, data |-> padded(r.value)]}
  BY <1>3, <1>4 DEF parse_param_response, get_comm_type, get_source_motor_id,
                    from_little_endian, CommType
<1> QED
  BY <1>5 DEF f

\* The arguments of each command.
LEMMA CommandFacts ==
  ASSUME NEW c \in Command
  PROVE  /\ c.motor_id \in Byte
         /\ c.type \in {"Enable", "Stop", "SetMechanicalZero", "SetCanId", "GetDeviceId",
                        "ReadParam", "WriteParam", "MotionControl"}
         /\ c.type # "MotionControl" => c.host_id \in Byte
         /\ c.type = "Stop" => c.clear_fault \in BOOLEAN
         /\ c.type = "SetCanId" => c.new_motor_id \in Byte
         /\ c.type \in {"ReadParam", "WriteParam"} => c.index \in UInt16
         /\ c.type = "WriteParam" => c.value \in Value
         /\ c.type = "MotionControl" =>
              /\ c.torque \in Int /\ c.position \in Int /\ c.velocity \in Int
              /\ c.kp \in Int /\ c.kd \in Int
BY DEF Command

\* The frames that carry an address and at most one byte or an index.
LEMMA ShortCommandSurvives ==
  ASSUME NEW c \in Command, NEW limits, NEW f,
         f.id = encoded(c, limits).id, f.data = encoded(c, limits).data,
         c.type \in {"Enable", "Stop", "SetMechanicalZero", "GetDeviceId", "ReadParam"}
  PROVE  SameCommand(f, c, limits)
<1>1. PICK data :
        /\ encoded(c, limits) = make_frame(CommType[c.type], c.host_id, c.motor_id, data)
        /\ c.type = "Stop" => data = <<IF c.clear_fault THEN 1 ELSE 0>>
        /\ c.type = "ReadParam" => data = little_endian(c.index)
  <2>1. CASE c.type = "Enable"
    BY <2>1 DEF encoded, make_enable_frame, CommType
  <2>2. CASE c.type = "Stop"
    BY <2>2 DEF encoded, make_stop_frame, CommType
  <2>3. CASE c.type = "SetMechanicalZero"
    BY <2>3 DEF encoded, make_set_mechanical_zero_frame, CommType
  <2>4. CASE c.type = "GetDeviceId"
    BY <2>4 DEF encoded, make_get_device_id_frame, CommType
  <2>5. CASE c.type = "ReadParam"
    BY <2>5 DEF encoded, make_read_param_frame, CommType
  <2> QED
    BY <2>1, <2>2, <2>3, <2>4, <2>5
<1>2. f.id[1] = CommType[c.type] /\ f.id[4] = c.motor_id /\ f.id[3] = c.host_id
  <2> DEFINE type == CommType[c.type]
  <2>1. f.id = make_frame(type, c.host_id, c.motor_id, data).id /\ c.host_id \in Byte
    BY <1>1, CommandFacts
  <2> HIDE DEF type
  <2>2. f.id[1] = type /\ f.id[4] = c.motor_id /\ f.id[3] = c.host_id
    BY <2>1, IdFacts
  <2> QED
    BY <2>2 DEF type
<1>3. ASSUME c.type = "Stop" PROVE (f.data[1] # 0) = c.clear_fault
  <2> DEFINE b == IF c.clear_fault THEN 1 ELSE 0
             type == CommType[c.type]
  <2>1. b \in Byte
    BY UIntFacts
  <2>2. data = <<b>>
    BY <1>1, <1>3
  <2>3. (b # 0) = c.clear_fault
    <3>1. c.clear_fault \in BOOLEAN
      BY <1>3, CommandFacts
    <3> QED
      BY <3>1
  <2>4. f.data = make_frame(type, c.host_id, c.motor_id, data).data
    BY <1>1
  <2> HIDE DEF b, type
  <2>5. data \in Seq(Byte) /\ Len(data) = 1 /\ data[1] = b
    BY <2>1, <2>2
  <2>6. data \in Seq(Byte) /\ Len(data) <= 8 /\ 1 \in 1 .. Len(data)
    BY <2>5
  <2>7. f.data[1] = data[1]
    <3>1. \A i \in 1 .. Len(data) : f.data[i] = data[i]
      BY <2>4, <2>6, FrameData
    <3> QED
      BY <2>6, <3>1
  <2> QED
    BY <2>3, <2>5, <2>7, Zenon
<1>4. ASSUME c.type = "ReadParam"
      PROVE  \E request \in parse_param_read_request(f) : request.index = c.index
  <2>1. /\ data \in Seq(Byte) /\ Len(data) = 2 /\ data[1] + data[2] * 256 = c.index
    BY <1>1, <1>4, CommandFacts, Words
  <2>2. Len(data) <= 8 /\ 1 \in 1 .. Len(data) /\ 2 \in 1 .. Len(data) /\ data \in Seq(Byte)
    BY <2>1
  <2> DEFINE type == CommType[c.type]
  <2>4. f.data = make_frame(type, c.host_id, c.motor_id, data).data
    BY <1>1
  <2> HIDE DEF type
  <2>3. f.data[1] = data[1] /\ f.data[2] = data[2]
    BY <2>4, <2>2, FrameData
  <2>5. get_comm_type(f) = CommType.ReadParam
    BY <1>2, <1>4 DEF get_comm_type, CommType
  <2> QED
    BY <2>1, <2>3, <2>5 DEF parse_param_read_request, from_little_endian
<1> QED
  BY <1>2, <1>3, <1>4 DEF SameCommand, get_comm_type, get_target_motor_id, get_host_id

\* A new motor id, and a parameter value.
LEMMA LongCommandSurvives ==
  ASSUME NEW c \in Command, NEW limits, NEW f,
         f.id = encoded(c, limits).id, f.data = encoded(c, limits).data,
         c.type \in {"SetCanId", "WriteParam"}
  PROVE  SameCommand(f, c, limits)
<1>1. CASE c.type = "SetCanId"
  <2>1. encoded(c, limits) =
          make_frame(7, c.new_motor_id * 256 + c.host_id, c.motor_id, <<>>)
    BY <1>1 DEF encoded, make_set_can_id_frame, CommType
  <2>2. c.new_motor_id \in Byte /\ c.host_id \in Byte
    BY <1>1, CommandFacts
  <2>3. f.id[1] = 7 /\ f.id[4] = c.motor_id /\ f.id[2] = c.new_motor_id /\ f.id[3] = c.host_id
    BY <2>1, <2>2, IdFacts
  <2> QED
    BY <1>1, <2>3 DEF SameCommand, CommType, get_comm_type, get_target_motor_id, get_host_id
<1>2. CASE c.type = "WriteParam"
  <2>1. encoded(c, limits) = make_frame(18, c.host_id, c.motor_id,
                                        little_endian(c.index) \o zeros(2) \o c.value)
    BY <1>2 DEF encoded, make_write_param_frame, CommType
  <2>2. c.index \in UInt16 /\ c.value \in Value /\ c.host_id \in Byte
    BY <1>2, CommandFacts
  <2>3. f.id[1] = 18 /\ f.id[4] = c.motor_id /\ f.id[3] = c.host_id
    BY <2>1, <2>2, IdFacts
  <2>4. f.data[1] + f.data[2] * 256 = c.index /\ SubSeq(f.data, 5, 8) = padded(c.value)
    BY <2>1, <2>2, ParamData
  <2>5. \E request \in parse_param_write_request(f) :
          request.index = c.index /\ request.data = padded(c.value)
    <3>1. get_comm_type(f) = CommType.WriteParam
      BY <2>3 DEF get_comm_type, CommType
    <3> QED
      BY <2>4, <3>1 DEF parse_param_write_request, from_little_endian
  <2> QED
    BY <1>2, <2>3, <2>5 DEF SameCommand, CommType, get_comm_type, get_target_motor_id, get_host_id
<1> QED
  BY <1>1, <1>2

\* A motion control command: all five values.
LEMMA MotionSurvives ==
  ASSUME NEW c \in Command, NEW t \in DOMAIN limits_table, NEW f,
         f.id = encoded(c, get_actuator_limits(t)).id,
         f.data = encoded(c, get_actuator_limits(t)).data,
         c.type = "MotionControl"
  PROVE  SameCommand(f, c, get_actuator_limits(t))
<1> DEFINE l == get_actuator_limits(t)
           q == symmetric(c.torque, l.torque)
           p == symmetric(c.position, l.position)
           v == symmetric(c.velocity, l.velocity)
           kp == float_to_uint(c.kp, 0, l.kp_max)
           kd == float_to_uint(c.kd, 0, l.kd_max)
           data == words(p, v, kp, kd)
<1>1. /\ c.torque \in Int /\ c.position \in Int /\ c.velocity \in Int
      /\ c.kp \in Int /\ c.kd \in Int
  BY CommandFacts
<1>2. /\ l.position \in Nat \ {0} /\ l.velocity \in Nat \ {0} /\ l.torque \in Nat \ {0}
      /\ l.kp_max \in Nat \ {0} /\ l.kd_max \in Nat \ {0}
  BY LimitFacts
<1>3. encoded(c, l) = make_frame(1, q, c.motor_id, data)
  BY DEF encoded, make_motion_control_frame, CommType, words
<1>4. f.id = make_frame(1, q, c.motor_id, data).id /\ f.data = make_frame(1, q, c.motor_id, data).data
  BY <1>3
<1> HIDE DEF l
<1>5. /\ p \in UInt16 /\ NearSymmetric(uint_to_float(p, -l.position, l.position),
                                       c.position, l.position)
      /\ v \in UInt16 /\ NearSymmetric(uint_to_float(v, -l.velocity, l.velocity),
                                       c.velocity, l.velocity)
      /\ q \in UInt16 /\ NearSymmetric(uint_to_float(q, -l.torque, l.torque),
                                       c.torque, l.torque)
  BY <1>1, <1>2, SymmetricHalfStep
<1>6. /\ kp \in UInt16 /\ Near(uint_to_float(kp, 0, l.kp_max), c.kp, 0, l.kp_max)
      /\ kd \in UInt16 /\ Near(uint_to_float(kd, 0, l.kd_max), c.kd, 0, l.kd_max)
  BY <1>1, <1>2, HalfStep
<1> HIDE DEF p, v, q, kp, kd
<1>7. /\ data \in Seq(Byte) /\ Len(data) = 8
      /\ data[1] * 256 + data[2] = p /\ data[3] * 256 + data[4] = v
      /\ data[5] * 256 + data[6] = kp /\ data[7] * 256 + data[8] = kd
  <2>1. p \in UInt16 /\ v \in UInt16 /\ kp \in UInt16 /\ kd \in UInt16
    BY <1>5, <1>6
  <2> QED
    BY <2>1, FourWords
<1> HIDE DEF data
<1>8. \A i \in 1 .. 8 : f.data[i] = data[i]
  <2>1. data \in Seq(Byte) /\ Len(data) <= 8
    BY <1>7
  <2>2. \A i \in 1 .. Len(data) : f.data[i] = data[i]
    BY <1>4, <2>1, FrameData
  <2> QED
    BY <1>7, <2>2
<1>9. f.id[1] = 1 /\ f.id[4] = c.motor_id /\ f.id[2] = q \div 256 /\ f.id[3] = q % 256
  <2>1. f.id = make_frame(1, q, c.motor_id, data).id
    BY <1>4
  <2> QED
    BY <2>1, IdFacts
<1>10. f.id[2] * 256 + f.id[3] = q
  <2>1. q \in Int
    BY <1>5, UIntFacts
  <2> QED
    BY <1>9, <2>1
<1>11. /\ from_big_endian(f, 1) = p /\ from_big_endian(f, 3) = v
       /\ from_big_endian(f, 5) = kp /\ from_big_endian(f, 7) = kd
  BY <1>7, <1>8 DEF from_big_endian
<1>12. SameMotion(f, c, l)
  BY <1>5, <1>6, <1>10, <1>11 DEF SameMotion, from_symmetric
<1>13. SameCommand(f, c, l)
  BY <1>9, <1>12 DEF SameCommand, CommType, get_comm_type, get_target_motor_id
<1> QED
  BY <1>13 DEF l

\* Every command means to its motor what the caller asked for.
LEMMA CommandSurvives ==
  ASSUME NEW c \in Command, NEW t \in DOMAIN limits_table, NEW f,
         f.id = encoded(c, get_actuator_limits(t)).id,
         f.data = encoded(c, get_actuator_limits(t)).data
  PROVE  SameCommand(f, c, get_actuator_limits(t))
<1>1. c.type \in {"Enable", "Stop", "SetMechanicalZero", "SetCanId", "GetDeviceId",
                  "ReadParam", "WriteParam", "MotionControl"}
  BY CommandFacts
<1> QED
  BY <1>1, ShortCommandSurvives, LongCommandSurvives, MotionSurvives

\* Every report and every parameter value receive returns means what the motor
\* meant by it.
THEOREM AnswersSurviveTheorem == Spec => []AnswersSurvive
<1>1. AnswersSurvive
  <2> USE MotorLinkAssumption DEF MotorLinkAssumption
  <2>1. ASSUME NEW f, NEW fb \in Feedbacks, NEW t \in Actuators,
               f = make_feedback_frame(fb, get_actuator_limits(t))
        PROVE  \E parsed \in parse_feedback(f, get_actuator_limits(t)) :
                 SameReport(parsed, fb, get_actuator_limits(t))
    BY <2>1, ReportSurvives
  <2>2. ASSUME NEW f, NEW r \in Responses,
               f = make_param_response_frame(r.motor_id, r.host_id, r.index, r.value)
        PROVE  parse_param_response(f) =
                 {[motor_id |-> r.motor_id, index |-> r.index, data |-> padded(r.value)]}
    BY <2>2, ResponseSurvives
  <2> QED
    BY <2>1, <2>2 DEF AnswersSurvive
<1> QED
  BY <1>1, PTL

\* Every command the driver puts on the bus means to its motor what the caller
\* asked for.
THEOREM CommandsSurviveTheorem == Spec => []CommandsSurvive
<1>1. SocketInv => CommandsSurvive
  <2> SUFFICES ASSUME SocketInv, wire # <<>>
               PROVE  CommandsSurvive
    BY DEF CommandsSurvive
  <2> DEFINE f == wire[Len(wire)]
  <2>1. PICK g \in Outgoing : f = raw_frame(g)
    BY DEF SocketInv
  <2>2. f.eff /\ can_frame(f).id = f.id /\ can_frame(f).data = f.data
    BY <2>1 DEF raw_frame, can_frame
  <2> HIDE DEF f
  <2>3. ASSUME NEW c \in Commands, NEW t \in Actuators,
               encoded(c, get_actuator_limits(t)) = can_frame(f)
        PROVE  SameCommand(f, c, get_actuator_limits(t))
    <3>1. c \in Command /\ t \in DOMAIN limits_table
      BY MotorLinkAssumption DEF MotorLinkAssumption
    <3>2. /\ f.id = encoded(c, get_actuator_limits(t)).id
          /\ f.data = encoded(c, get_actuator_limits(t)).data
      BY <2>2, <2>3
    <3> QED
      BY <3>1, <3>2, CommandSurvives
  <2> QED
    BY <2>2, <2>3 DEF CommandsSurvive, f
<1> QED
  BY <1>1, SocketInvariant, PTL

============================================================================
