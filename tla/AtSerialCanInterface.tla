----------------------- MODULE AtSerialCanInterface -----------------------
(***************************************************************************)
(* AtSerialCanInterface (src/src/at_serial_can_interface.cpp): CAN frames  *)
(* over the byte stream of the USB-CAN module.  The stream has no message  *)
(* boundaries: read() may return any piece of it, write() may accept any   *)
(* piece, and FrameParser::poll finds the frames again, one byte dropped   *)
(* per loop iteration while it is out of step.                             *)
(*                                                                         *)
(* Bytes are numbers.  The constants that look arbitrary are the format's. *)
(* The definitions named ..._bug are slips one could make; no action uses   *)
(* them.                                                                   *)
(***************************************************************************)
EXTENDS Integers, Sequences

\* What may happen at a port: the frames the module may deliver, the byte
\* sequences that may come between two of them, the frames the driver sends,
\* the faults, and bounds on the arrivals of either kind and on the sends.
CONSTANT Ports

Byte == 0 .. 255

\* The identifier is 29 bits: five bits of communication type, then bytes.
Frame == [id : (0 .. 31) \X Byte \X Byte \X Byte,
          data : {bytes \in Seq(Byte) : Len(bytes) <= 8}]

ASSUME AtSerialAssumption == \A p \in Ports :
    /\ p.noise \subseteq Seq(Byte)
    /\ p.faults \subseteq {"EINTR", "error", "hangup"}
    /\ p.arrivals \in Nat /\ p.sends \in Nat
    /\ p.incoming \cup p.outgoing \subseteq Frame

header_size == 7
tail_size == 2
A == 65
T == 84
CR == 13
LF == 10

\* (id << 3) | 4, big endian.
packed(id) ==
    <<id[1] * 8 + id[2] \div 32, (id[2] % 32) * 8 + id[3] \div 32,
      (id[3] % 32) * 8 + id[4] \div 32, (id[4] % 32) * 8 + 4>>

\* packed >> 3.
unpacked(p) ==
    <<p[1] \div 8, (p[1] % 8) * 32 + p[2] \div 8,
      (p[2] % 8) * 32 + p[3] \div 8, (p[3] % 8) * 32 + p[4] \div 8>>

encode_frame(f) ==
    <<A, T>> \o packed(f.id) \o <<Len(f.data)>> \o f.data \o <<CR, LF>>

----------------------------------------------------------------------------
VARIABLES
    port,     \* which of Ports this is
    pc,       \* idle, in receive (poll, deadline, select), in send (write)
    expired,  \* now >= deadline
    buffer,   \* parser_.buffer_
    result,   \* how the last receive or send ended
    packet,   \* the rest of the packet send is writing
    sending,  \* the frame it is writing
    line,     \* bytes the tty holds for read()
    hungup,   \* the device is gone: read() returns 0
    out,      \* ghost: every byte written
    due,      \* ghost: the bytes the sends that have ended account for
    sent,     \* ghost: frames the module delivered to the tty
    got,      \* ghost: frames receive returned
    arrivals, \* ghost: frames and noises so far
    sends     \* ghost: calls of send so far

vars == <<port, pc, expired, buffer, result, packet, sending, line, hungup, out,
          due, sent, got, arrivals, sends>>

receiveVars == <<expired, buffer, got>>
sendVars == <<packet, sending, out, due, sends>>
lineVars == <<port, line, hungup, sent, arrivals>>

\* In particular what receive has returned are frames: however damaged a packet
\* is, its length byte never makes one of more than eight bytes.
TypeOK ==
    /\ got \in Seq(Frame)
    /\ pc \in {"idle", "poll", "deadline", "select", "write"}
    /\ expired \in BOOLEAN /\ hungup \in BOOLEAN
    /\ buffer \in Seq(Byte) /\ line \in Seq(Byte)
    /\ packet \in Seq(Byte) /\ out \in Seq(Byte)
    /\ result \in {"none", "frame", "nullopt", "error"}
    /\ port \in Ports
    /\ sent \in Seq(port.incoming) /\ due \in Seq(Byte)
    /\ arrivals \in 0 .. port.arrivals /\ sends \in 0 .. port.sends

\* The port has just been opened and flushed.
Init ==
    /\ port \in Ports
    /\ pc = "idle" /\ expired = FALSE /\ buffer = <<>> /\ result = "none"
    /\ packet = <<>> /\ sending = <<>> /\ line = <<>> /\ hungup = FALSE
    /\ out = <<>> /\ due = <<>> /\ sent = <<>> /\ got = <<>>
    /\ arrivals = 0 /\ sends = 0

----------------------------------------------------------------------------
\* receive

Finish(how) == pc' = "idle" /\ result' = how

Receive ==
    /\ pc = "idle"
    /\ pc' = "poll" /\ expired' = FALSE /\ result' = "none"
    /\ UNCHANGED <<buffer, got, sendVars, lineVars>>

\* One iteration of FrameParser::poll.
Long == Len(buffer) >= header_size + tail_size
Header_bug == Long /\ buffer[1] = A /\ buffer[2] = T
Header == Long /\ buffer[1] = A /\ buffer[2] = T /\ buffer[7] <= 8
total == header_size + buffer[7] + tail_size
Whole == Header /\ Len(buffer) >= total
TailMatches_bug == Whole
TailMatches == Whole /\ buffer[total - 1] = CR /\ buffer[total] = LF

Resync_bug == <<>>

Resync == Tail(buffer)

Skip ==
    /\ pc = "poll" /\ Long
    /\ ~Header \/ (Whole /\ ~TailMatches)
    /\ buffer' = Resync
    /\ UNCHANGED <<pc, expired, got, result, sendVars, lineVars>>

Erase_bug == <<>>

Erase == SubSeq(buffer, total + 1, Len(buffer))

Extract ==
    /\ pc = "poll" /\ TailMatches
    /\ got' = Append(got, [id |-> unpacked(SubSeq(buffer, 3, 6)),
                           data |-> SubSeq(buffer, 8, total - tail_size)])
    /\ buffer' = Erase
    /\ Finish("frame")
    /\ UNCHANGED <<expired, sendVars, lineVars>>

PollNothing ==
    /\ pc = "poll" /\ (~Long \/ (Header /\ ~Whole))
    /\ pc' = "deadline"
    /\ UNCHANGED <<receiveVars, result, sendVars, lineVars>>

DeadlinePassed_bug == expired /\ line = <<>> /\ ~hungup

DeadlinePassed == expired

CheckDeadline ==
    /\ pc = "deadline"
    /\ \/ DeadlinePassed /\ Finish("nullopt")
       \/ ~DeadlinePassed /\ pc' = "select" /\ UNCHANGED result
    /\ UNCHANGED <<receiveVars, sendVars, lineVars>>

SelectTimesOut ==
    /\ pc = "select" /\ expired /\ line = <<>> /\ ~hungup
    /\ Finish("nullopt")
    /\ UNCHANGED <<receiveVars, sendVars, lineVars>>

\* select or read was interrupted by a signal: once more.
Interrupted ==
    /\ pc = "select" /\ "EINTR" \in port.faults
    /\ pc' = "poll"
    /\ UNCHANGED <<receiveVars, result, sendVars, lineVars>>

ReceiveFails ==
    /\ pc = "select" /\ "error" \in port.faults
    /\ Finish("error")
    /\ UNCHANGED <<receiveVars, sendVars, lineVars>>

\* read() returns any piece of what the tty holds (the chunk of 256 bytes is
\* larger than a bounded line), or nothing when the device is gone.
Read ==
    /\ pc = "select"
    /\ \/ \E n \in 1 .. Len(line) :
            /\ buffer' = buffer \o SubSeq(line, 1, n)
            /\ line' = SubSeq(line, n + 1, Len(line))
       \/ hungup /\ line = <<>> /\ UNCHANGED <<buffer, line>>
    /\ pc' = "poll"
    /\ UNCHANGED <<port, expired, got, result, sendVars, hungup, sent, arrivals>>

----------------------------------------------------------------------------
\* send

Send(f) ==
    /\ pc = "idle" /\ sends < port.sends
    /\ pc' = "write" /\ sending' = f /\ packet' = encode_frame(f)
    /\ result' = "none" /\ sends' = sends + 1
    /\ UNCHANGED <<receiveVars, out, due, lineVars>>

\* packet.data() + sent, for what write() accepted.
Rest_bug(n) == SubSeq(packet, n + 2, Len(packet))

Rest(n) == SubSeq(packet, n + 1, Len(packet))

Write ==
    /\ pc = "write"
    /\ \E n \in 1 .. Len(packet) :
         /\ out' = out \o SubSeq(packet, 1, n)
         /\ packet' = Rest(n)
    /\ IF packet' = <<>>
       THEN pc' = "idle" /\ due' = due \o encode_frame(sending)
       ELSE UNCHANGED <<pc, due>>
    /\ UNCHANGED <<receiveVars, sending, sends, result, lineVars>>

WriteFails ==
    /\ pc = "write" /\ "error" \in port.faults
    /\ Finish("error") /\ packet' = <<>> /\ due' = out
    /\ UNCHANGED <<receiveVars, sending, sends, out, lineVars>>

----------------------------------------------------------------------------
\* The module, the tty and the clock.

Arrive ==
    /\ arrivals < port.arrivals /\ ~hungup
    /\ arrivals' = arrivals + 1
    /\ \/ \E f \in port.incoming : line' = line \o encode_frame(f) /\ sent' = Append(sent, f)
       \/ \E n \in port.noise : line' = line \o n /\ UNCHANGED sent
    /\ UNCHANGED <<port, pc, receiveVars, result, sendVars, hungup>>

HangUp ==
    /\ "hangup" \in port.faults /\ ~hungup
    /\ hungup' = TRUE
    /\ UNCHANGED <<port, pc, receiveVars, result, sendVars, line, sent, arrivals>>

Tick ==
    /\ pc \in {"poll", "deadline", "select"} /\ ~expired
    /\ expired' = TRUE
    /\ UNCHANGED <<pc, buffer, got, result, sendVars, lineVars>>

Driver ==
    \/ Skip \/ Extract \/ PollNothing \/ CheckDeadline
    \/ SelectTimesOut \/ Interrupted \/ ReceiveFails \/ Read
    \/ Write \/ WriteFails

Next ==
    \/ Receive \/ (\E f \in port.outgoing : Send(f))
    \/ Driver
    \/ Arrive \/ HangUp \/ Tick

Spec == Init /\ [][Next]_vars

\* The thread runs and the clock goes on, so a poll or a select ends.
FairSpec == Spec /\ WF_vars(Driver) /\ WF_vars(Tick)

----------------------------------------------------------------------------
\* Properties.

\* What receive returns is what the module sent, in order, nothing invented,
\* duplicated or reordered, however read() cuts the stream.
FramesInOrder ==
    /\ Len(got) <= Len(sent)
    /\ \A i \in DOMAIN got : got[i] = sent[i]

\* poll gives up only when every frame that has arrived has been returned:
\* no frame stays in the buffer, behind noise or otherwise, unnoticed.
NothingHeldUp ==
    pc \in {"deadline", "select"} /\ line = <<>> => got = sent

\* However write() cuts a packet, send gives the port all of it, once and in
\* order, before it returns; if it throws, the port got a part of it, and
\* nothing of the next packet is missing.
WritesWhole ==
    IF pc = "write" THEN out \o packet = due \o encode_frame(sending)
                    ELSE out = due

\* When the device is gone, receive throws: it is not a timeout.
HangUpIsReported ==
    [][pc = "select" /\ hungup /\ line = <<>> /\ pc' # "select"
         => result' = "error"]_vars

\* receive and send return, whatever arrives.
EveryCallReturns == pc # "idle" ~> pc = "idle"

\* The promise of can_interface.hpp: module CanTransport, for the packets
\* the module has delivered.
Transport == INSTANCE CanTransport
    WITH Incoming <- UNION {p.incoming : p \in Ports},
         pending <- SubSeq(sent, Len(got) + 1, Len(sent)),
         receiving <- pc \in {"poll", "deadline", "select"},
         expired <- pc \in {"poll", "deadline", "select"} /\ expired

TransportSpec == Transport!Spec

============================================================================
