------------------------ MODULE SocketCanInterface ------------------------
(***************************************************************************)
(* SocketCanInterface (src/src/socket_can_interface.cpp) and the part of   *)
(* the kernel it talks to: from bind() on, frames on the bus go to the     *)
(* receive queue of the socket; set_motor_id_filter decides about later    *)
(* frames only; receive is one select and, if that says so, one read.      *)
(*                                                                         *)
(* SelectReady_bug and Passes_un... are slips one could make; no action    *)
(* uses them.                                                              *)
(***************************************************************************)
EXTENDS Codec

CONSTANTS
    Early,       \* frames on the bus before a filter is set
    Traffic,     \* frames on the bus afterwards
    Outgoing,    \* frames the driver sends
    MotorIds,    \* motor ids it may filter for
    NoFilter,
    Faults,      \* subset of {"EINTR", "read", "write"}: what may fail
    Capacity,    \* frames the receive queue holds
    MaxArrivals, \* bound on the frames on the bus
    MaxSends     \* bound on the sends

IsCanFrame(f) ==
    /\ Len(f.id) = 4 /\ f.id[1] < 32 /\ \A i \in 1 .. 4 : f.id[i] \in Byte
    /\ f.dlc \in 0 .. 8 /\ Len(f.data) = 8 /\ \A i \in 1 .. 8 : f.data[i] \in Byte

\* struct can_frame: CAN_EFF_FLAG, the bare identifier, dlc and data.  A
\* standard identifier has eleven bits.
IsRawFrame(raw) ==
    /\ IsCanFrame(raw)
    /\ raw.eff \in BOOLEAN
    /\ ~raw.eff => raw.id[1] = 0 /\ raw.id[2] = 0 /\ raw.id[3] < 8

ASSUME SocketCanAssumption ==
    /\ \A raw \in Early \cup Traffic : IsRawFrame(raw)
    /\ \A f \in Outgoing : IsCanFrame(f)
    /\ MotorIds \subseteq Byte /\ NoFilter \notin Byte
    /\ Faults \subseteq {"EINTR", "read", "write"}
    /\ Capacity \in Nat \ {0} /\ MaxArrivals \in Nat /\ MaxSends \in Nat

raw_frame(f) == [eff |-> TRUE, id |-> f.id, dlc |-> f.dlc, data |-> f.data]

can_frame(raw) == [id |-> raw.id, dlc |-> raw.dlc, data |-> raw.data]

----------------------------------------------------------------------------
VARIABLES
    pc,       \* idle, or in receive: select, read
    expired,  \* the timeout of receive has passed
    result,   \* how the last call ended
    got,      \* ghost: frames receive returned
    filter,   \* the motor id filtered for, or NoFilter
    queue,    \* the receive queue of the socket
    before,   \* ghost: how many of these arrived before the filter was set
    wire,     \* ghost: frames the driver put on the bus
    arrivals, \* ghost: frames on the bus so far
    sends     \* ghost: calls of send so far

vars == <<pc, expired, result, got, filter, queue, before, wire, arrivals, sends>>

kernelVars == <<filter, queue, before, arrivals>>
sendVars == <<wire, sends>>

\* Every variable is in its domain, the queue within its capacity.
TypeOK ==
    /\ pc \in {"idle", "select", "read"} /\ expired \in BOOLEAN
    /\ result \in {"none", "frame", "nullopt", "error"}
    /\ \A i \in DOMAIN got : IsCanFrame(got[i])
    /\ filter \in MotorIds \cup {NoFilter}
    /\ Len(queue) <= Capacity /\ before \in 0 .. Len(queue)
    /\ \A i \in DOMAIN queue : queue[i] \in Early \cup Traffic
    /\ pc = "read" => queue # <<>>
    /\ \A i \in DOMAIN wire : IsRawFrame(wire[i])
    /\ arrivals \in 0 .. MaxArrivals /\ sends \in 0 .. MaxSends

\* The socket is bound.
Init ==
    /\ pc = "idle" /\ expired = FALSE /\ result = "none" /\ got = <<>>
    /\ filter = NoFilter /\ queue = <<>> /\ before = 0 /\ wire = <<>>
    /\ arrivals = 0 /\ sends = 0

----------------------------------------------------------------------------
set_motor_id_filter(motor_id) ==
    /\ pc = "idle" /\ filter = NoFilter
    /\ filter' = motor_id /\ before' = Len(queue)
    /\ UNCHANGED <<pc, expired, result, got, queue, arrivals, sendVars>>

Send(f) ==
    /\ pc = "idle" /\ sends < MaxSends
    /\ sends' = sends + 1
    /\ \/ wire' = Append(wire, raw_frame(f)) /\ result' = "none"
       \/ "write" \in Faults /\ result' = "error" /\ UNCHANGED wire
    /\ UNCHANGED <<pc, expired, got, kernelVars>>

Receive ==
    /\ pc = "idle"
    /\ pc' = "select" /\ expired' = FALSE /\ result' = "none"
    /\ UNCHANGED <<got, kernelVars, sendVars>>

Finish(how) == pc' = "idle" /\ result' = how

SelectTimesOut ==
    /\ pc = "select" /\ expired /\ queue = <<>>
    /\ Finish("nullopt")
    /\ UNCHANGED <<expired, got, kernelVars, sendVars>>

\* A signal interrupts select: unlike the serial transport, receive throws.
SelectFails ==
    /\ pc = "select" /\ "EINTR" \in Faults
    /\ Finish("error")
    /\ UNCHANGED <<expired, got, kernelVars, sendVars>>

SelectReady_bug ==
    /\ pc = "select" /\ (queue # <<>> \/ expired)
    /\ pc' = "read"
    /\ UNCHANGED <<expired, result, got, kernelVars, sendVars>>

SelectReady ==
    /\ pc = "select" /\ queue # <<>>
    /\ pc' = "read"
    /\ UNCHANGED <<expired, result, got, kernelVars, sendVars>>

\* The interface is down, for one.  The frame stays in the queue.
ReadFails ==
    /\ pc = "read" /\ "read" \in Faults
    /\ Finish("error")
    /\ UNCHANGED <<expired, got, kernelVars, sendVars>>

Dequeue ==
    /\ pc = "read"
    /\ queue' = Tail(queue)
    /\ before' = IF before = 0 THEN 0 ELSE before - 1
    /\ UNCHANGED <<expired, filter, arrivals, sendVars>>

ReadFrame ==
    /\ Dequeue /\ Head(queue).eff
    /\ got' = Append(got, can_frame(Head(queue)))
    /\ Finish("frame")

\* (A raw CAN socket hands over whole frames, so a short read never happens.)
IgnoreFrame ==
    /\ Dequeue /\ ~Head(queue).eff
    /\ Finish("nullopt")
    /\ UNCHANGED got

Driver ==
    \/ SelectTimesOut \/ SelectFails \/ SelectReady
    \/ ReadFails \/ ReadFrame \/ IgnoreFrame

----------------------------------------------------------------------------
\* The kernel, the bus and the clock.

\* A mask without CAN_EFF_FLAG; an identifier that is not shifted.
Passes_unflagged(raw) == filter = NoFilter \/ raw.id[3] = filter
Passes_unshifted(raw) == filter = NoFilter \/ (raw.eff /\ raw.id[4] = filter)

Passes(raw) == filter = NoFilter \/ (raw.eff /\ raw.id[3] = filter)

\* A frame the queue has no room for is dropped, the newest one.
Arrive ==
    /\ arrivals < MaxArrivals
    /\ arrivals' = arrivals + 1
    /\ \E raw \in IF filter = NoFilter THEN Early ELSE Traffic :
         queue' = IF Passes(raw) /\ Len(queue) < Capacity
                  THEN Append(queue, raw) ELSE queue
    /\ UNCHANGED <<pc, expired, result, got, filter, before, sendVars>>

Tick ==
    /\ pc # "idle" /\ ~expired
    /\ expired' = TRUE
    /\ UNCHANGED <<pc, result, got, kernelVars, sendVars>>

Next ==
    \/ \E id \in MotorIds : set_motor_id_filter(id)
    \/ \E f \in Outgoing : Send(f)
    \/ Receive \/ Driver
    \/ Arrive \/ Tick

Spec == Init /\ [][Next]_vars

----------------------------------------------------------------------------
\* Properties.

\* What receive returns, apart from the frames that were in the queue when
\* the filter was set, is an extended frame with the motor's id in bits 15-8.
FilterHolds ==
    [][filter # NoFilter /\ before = 0 /\ result' = "frame" /\ pc # pc'
         => get_source_motor_id(got'[Len(got')]) = filter]_vars

\* "Returns nullopt on timeout": and for no other reason.
NulloptOnlyOnTimeout ==
    [][pc # "idle" /\ pc' = "idle" /\ result' = "nullopt" => expired]_vars

\* The frames of the transport: the extended ones the kernel accepted.
kept(frames, raw) == IF raw.eff THEN Append(frames, can_frame(raw)) ELSE frames

extended(raws) ==
    LET first[n \in 0 .. Len(raws)] == IF n = 0 THEN <<>> ELSE kept(first[n - 1], raws[n])
    IN  first[Len(raws)]

Transport == INSTANCE CanTransport
    WITH Incoming <- {can_frame(raw) : raw \in Early \cup Traffic},
         pending <- extended(queue),
         receiving <- pc # "idle",
         expired <- pc # "idle" /\ expired

\* A standard frame that no filter kept from the queue has been read.
CutShort == pc = "read" /\ ~Head(queue).eff /\ (filter = NoFilter \/ before > 0)

\* The promise of can_interface.hpp, module CanTransport, with one exception:
\* such a frame makes receive give up before its time is over.  The exception
\* is what NulloptOnlyOnTimeout complains of; where every frame before the
\* filter is an extended one, Transport!Spec itself is proved.
TransportSpec ==
    Transport!Init /\ [][Transport!Next \/ (CutShort /\ Transport!GiveUp)]_(Transport!vars)

============================================================================
