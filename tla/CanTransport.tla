---------------------------- MODULE CanTransport ----------------------------
(***************************************************************************)
(* What can_interface.hpp promises of a transport, whatever carries the    *)
(* frames: receive returns the frames that arrived, each once and in       *)
(* order; it returns nullopt only on timeout, and throws on failure.       *)
(* SocketCanInterface and AtSerialCanInterface are shown to implement it.   *)
(***************************************************************************)
EXTENDS Sequences

CONSTANT Incoming  \* the frames that may arrive

VARIABLES
    pending,    \* frames that have arrived and were not returned
    got,        \* frames receive returned
    receiving,  \* inside receive
    expired,    \* inside receive: its timeout has passed
    result      \* how the last call ended: none, frame, nullopt or error

vars == <<pending, got, receiving, expired, result>>

Init ==
    /\ pending = <<>> /\ got = <<>>
    /\ receiving = FALSE /\ expired = FALSE /\ result = "none"

Receive ==
    /\ ~receiving
    /\ receiving' = TRUE /\ result' = "none"
    /\ UNCHANGED <<pending, got, expired>>

Return(how) == receiving /\ receiving' = FALSE /\ expired' = FALSE /\ result' = how

ReturnFrame ==
    /\ pending # <<>>
    /\ got' = Append(got, Head(pending)) /\ pending' = Tail(pending)
    /\ Return("frame")

GiveUp == Return("nullopt") /\ UNCHANGED <<pending, got>>

TimeOut == expired /\ GiveUp

Fail == Return("error") /\ UNCHANGED <<pending, got>>

\* send returns or throws, and takes nothing from receive.
Send ==
    /\ ~receiving
    /\ result' \in {"none", "error"}
    /\ UNCHANGED <<pending, got, receiving, expired>>

Arrive ==
    /\ \E f \in Incoming : pending' = Append(pending, f)
    /\ UNCHANGED <<got, receiving, expired, result>>

Expire ==
    /\ receiving /\ expired' = TRUE
    /\ UNCHANGED <<pending, got, receiving, result>>

Next ==
    \/ Receive \/ ReturnFrame \/ TimeOut \/ Fail
    \/ Send
    \/ Arrive \/ Expire

Spec == Init /\ [][Next]_vars

============================================================================
