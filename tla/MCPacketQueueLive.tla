------------------------- MODULE MCPacketQueueLive -------------------------
(***************************************************************************)
(* The liveness of the packet queue on small instances: with clients that   *)
(* reconnect and handlers that may fail, or with connections that stay lost *)
(* and handlers that do not.                                                *)
(***************************************************************************)
EXTENDS Integers

CONSTANTS Prio, Conn, NoConn, MaxId, MaxBreaks

ASSUME LiveAssumption == NoConn \notin Conn /\ MaxId \in Nat /\ MaxBreaks \in Nat

VARIABLES
    reconnects,     \* which of the two
    curOut, outgoing, sent, flush, lastSend, lostSent, sEnd, known, nextIn, incoming, lostSeen, rEnd,
    toR, toS, breaks, times

Queues == INSTANCE PacketQueue WITH mayReject <- reconnects

\* A client that was told to reconnects on failure.
Spec ==
    /\ Queues!Spec /\ Queues!Progress
    /\ \A c \in Conn : WF_(Queues!packetVars)(reconnects /\ Queues!Opens(c))

\* What the reconnecting ones queue and process.
Delivery == INSTANCE OrderedDelivery WITH
    queued <- IF reconnects THEN curOut ELSE [p \in Prio |-> 0],
    processed <- IF reconnects THEN times ELSE [pk \in Queues!Packet |-> 0]

\* The packet queue implements OrderedDelivery with its fairness: packets are
\* processed exactly once, in order, and with clients that reconnect all of
\* them are in the end.
RefinesOrderedDelivery == Delivery!FairSpec

\* What was lost with one connection is recovered over another one
\* (RequestMissingPackets).
RecoveredAtKnownPriority == Queues!RecoveredAtKnownPriority
=============================================================================
