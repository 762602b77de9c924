--------------------- MODULE MCAtSerialCanInterface ---------------------
(***************************************************************************)
(* Frames and line noise for AtSerialCanInterface.                         *)
(***************************************************************************)
EXTENDS AtSerialCanInterface

\* A feedback frame of motor 1, and a parameter answer of motor 32, whose
\* communication type needs its fifth bit.
feedback == [id |-> <<2, 0, 1, 253>>,
             data |-> <<127, 255, 128, 3, 127, 255, 0, 250>>]
answer == [id |-> <<17, 0, 32, 255>>, data |-> <<5, 112, 0, 0, 2, 0, 0, 0>>]

\* The payload of the repository's test: the tail and the header of a packet.
tricky == [id |-> <<2, 1, 127, 1>>,
           data |-> <<13, 10, 13, 10, 65, 84, 13, 10>>]
empty == [id |-> <<4, 0, 32, 253>>, data |-> <<>>]

\* What has one port apart from another.
Port(in, noise, written, faults, most_arrivals, most_sends) ==
    [incoming |-> in, noise |-> noise, outgoing |-> written,
     faults |-> faults, arrivals |-> most_arrivals, sends |-> most_sends]

\* A command reply, a lone header, a packet cut short, a packet with a
\* corrupted tail, a packet whose length byte reads nine.  (The format has no
\* checksum: some noises do add up to a packet.)
LineNoise ==
  {<<79, 75, 13, 10>>, <<65>>, <<65, 84>>,
   SubSeq(encode_frame(feedback), 1, 10),
   SubSeq(encode_frame(feedback), 1, 15) \o <<0, 10>>,
   <<65, 84, 0, 0, 0, 0, 9>> \o [i \in 1 .. 9 |-> 0] \o <<13, 10>>}

\* Packets only, whatever they contain, cut at any byte.
Clean == Port({feedback, tricky, empty}, {}, {}, {"EINTR", "error"}, 3, 0)

\* Noise between packets of full length, and a device that disappears.
Noisy == Port({feedback, answer}, LineNoise, {}, {"hangup"}, 3, 0)

\* The driver writes, packets arrive, and the port may fail.
Writing == Port({empty}, {}, {empty}, {"error"}, 1, 2)

SomePorts == {Clean, Noisy, Writing}

\* Nothing but a device that disappears.
Unplugged == {Port({}, {}, {}, {"hangup"}, 0, 0)}

============================================================================
