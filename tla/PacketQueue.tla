---------------------------- MODULE PacketQueue ----------------------------
(***************************************************************************)
(* The reliable packet queue between two hosts of the distributed actor    *)
(* layer, for the packets one host (the sender) queues to the other (the   *)
(* receiver) while both keep their host state.  Packets are numbered per    *)
(* priority, spread over several connections, kept by the sender until      *)
(* they are acknowledged, put back in order by the receiver, and sent       *)
(* again when a connection is lost or re-identified.                        *)
(*                                                                          *)
(* A packet is its priority and number.  A connection is two ends and the   *)
(* messages in flight to each of them.  Messages of one connection overtake *)
(* each other (the WebSocket orders them by priority), except that nothing  *)
(* overtakes the Identify message that opens it.                            *)
(***************************************************************************)
EXTENDS Integers

CONSTANTS
    Prio,       \* the priorities in use
    Conn,       \* the connections between the two hosts
    NoConn,     \* the null connection pointer
    MaxId,      \* bound: packets queued per priority
    MaxBreaks   \* bound: spontaneous connection failures

ASSUME PacketQueueAssumption ==
    /\ NoConn \notin Conn
    /\ MaxId \in Nat
    /\ MaxBreaks \in Nat

Packet == [prio : Prio, id : 1..MaxId]

\* A report maps the priorities of the receiver's queues to what it has and
\* misses of each (CPriorityQueueState): acked, missing, highest.
IsReport(r) == DOMAIN r \subseteq Prio /\ \A p \in DOMAIN r : r[p].acked \in 0..MaxId

\* Messages to the receiver and to the sender.
Hello == [kind |-> "Identify"]
Data(pk) == [kind |-> "Data", pkt |-> pk]
Lost(n) == [kind |-> "NotifyConnectionLost", seq |-> n]
Identify(r) == [kind |-> "Identify", report |-> r]
Ack(p, n) == [kind |-> "Acknowledge", prio |-> p, id |-> n]
Missing(r) == [kind |-> "RequestMissingPackets", report |-> r]

ToReceiver ==
    [kind : {"Identify"}]
      \cup [kind : {"Data"}, pkt : Packet]
      \cup [kind : {"NotifyConnectionLost"}, seq : Nat]

IsToSender(m) ==
    \/ m \in [kind : {"Acknowledge"}, prio : Prio, id : Nat]
    \/ m \in {Identify(m.report), Missing(m.report)} /\ IsReport(m.report)

\* An end of a connection: absent, being set up, sent its Identify, or
\* identified by the other end and so in the list of active connections.
EndState == {"down", "pending", "open", "active"}

VARIABLES
    mayReject,  \* whether the handler of a packet may reject it
    curOut,     \* m_OutgoingCurrentPacketID of each priority
    outgoing,   \* m_OutgoingPackets of all priorities
    sent,       \* m_Outgoing_SentPackets
    flush,      \* m_bSendPacketQueueScheduled
    lastSend,   \* m_pLastSendConnection
    lostSent,   \* m_LastNotifyConnectionLostSequenceSent
    sEnd,       \* the sender's end of each connection
    known,      \* the receiver's m_PriorityQueues: priorities with an entry
    nextIn,     \* m_IncomingNextPacketID of each priority
    incoming,   \* m_IncomingPackets of all priorities
    lostSeen,   \* m_LastNotifyConnectionLostSequenceReceived
    rEnd,       \* the receiver's end of each connection
    toR, toS,   \* messages in flight
    breaks,     \* failures so far
    times       \* history: how often each packet was handled

sVars == <<curOut, outgoing, sent, flush, lastSend, lostSent, sEnd>>
rVars == <<known, nextIn, incoming, lostSeen, rEnd, times>>
packetVars == <<sVars, rVars, toR, toS, breaks>>
vars == <<mayReject, packetVars>>

TypeOK ==
    /\ curOut \in [Prio -> 0..MaxId]
    /\ outgoing \subseteq Packet
    /\ sent \subseteq Packet
    /\ flush \in BOOLEAN
    /\ lastSend \in Conn \cup {NoConn}
    /\ lostSent \in Nat
    /\ sEnd \in [Conn -> EndState]
    /\ known \subseteq Prio
    /\ nextIn \in [Prio -> 1..(MaxId + 1)]
    /\ incoming \subseteq Packet
    /\ lostSeen \in Nat
    /\ rEnd \in [Conn -> EndState]
    /\ toR \in [Conn -> SUBSET ToReceiver]
    /\ DOMAIN toS = Conn /\ \A c \in Conn : \A m \in toS[c] : IsToSender(m)
    /\ breaks \in 0..MaxBreaks
    /\ times \in [Packet -> Nat]

Init ==
    /\ mayReject \in BOOLEAN
    /\ curOut = [p \in Prio |-> 0]
    /\ outgoing = {} /\ sent = {}
    /\ flush = FALSE
    /\ lastSend = NoConn
    /\ lostSent = 0
    /\ sEnd = [c \in Conn |-> "down"]
    /\ known = {}
    /\ nextIn = [p \in Prio |-> 1]
    /\ incoming = {}
    /\ lostSeen = 0
    /\ rEnd = [c \in Conn |-> "down"]
    /\ toR = [c \in Conn |-> {}]
    /\ toS = [c \in Conn |-> {}]
    /\ breaks = 0
    /\ times = [pk \in Packet |-> 0]

-----------------------------------------------------------------------------
(* Helpers *)

Active(ends) == {c \in Conn : ends[c] = "active"}

\* Only the Identify message of a connection keeps its place.
CanHandle(chan, m) == m.kind = "Identify" \/ \A o \in chan : o.kind # "Identify"

\* The report a receiver builds from its queues: what it has in order, the
\* holes below the highest packet it holds, and that highest packet.
Held(p) == {pk.id : pk \in {q \in incoming : q.prio = p}}
Highest(p) == CHOOSE n \in Held(p) \cup {nextIn[p] - 1} :
                  \A h \in Held(p) : h <= n
MyReportOfNext ==    \* mutant: reports the next packet as received
    [p \in known |-> [acked |-> nextIn[p], missing |-> {}, highest |-> Highest(p)]]
MyReport ==
    [p \in known |->
        [acked   |-> nextIn[p] - 1,
         missing |-> {n \in nextIn[p]..Highest(p) : n \notin Held(p)},
         highest |-> Highest(p)]]

\* What is kept of the sent packets once the reported ones are acknowledged.
UnackedAboveHighest(r) ==    \* mutant: takes the highest packet for the acknowledged one
    {pk \in sent : pk.prio \in DOMAIN r => pk.id > r[pk.prio].highest}
Unacked(r) == {pk \in sent : pk.prio \in DOMAIN r => pk.id > r[pk.prio].acked}

\* The packets of S a report asks for.
WantedHoles(S, r) ==    \* mutant: forgets what was lost after the highest packet
    {pk \in S : pk.prio \in DOMAIN r /\ pk.id \in r[pk.prio].missing}
Wanted(S, r) ==
    {pk \in S : /\ pk.prio \in DOMAIN r
                /\ \/ pk.id \in r[pk.prio].missing
                   \/ pk.id >= r[pk.prio].highest}
NeverSeenIgnored(S, r) == {}    \* mutant: resends no priority that is not reported
NeverSeen(S, r) == {pk \in S : pk.prio \notin DOMAIN r}

\* fp_ProcessPacketQueue stops at the first number that is not there.
IsPastHighest(p, n, held) ==    \* mutant: does not look at the number of the first packet
    /\ \A pk \in held : pk.prio = p => pk.id < n
    /\ n = nextIn[p] \/ [prio |-> p, id |-> n - 1] \in held
IsFirstGap(p, n, held) ==
    /\ \A i \in nextIn[p]..(n - 1) : [prio |-> p, id |-> i] \in held
    /\ [prio |-> p, id |-> n] \notin held

UnprocessedAndRest(held, next) == held    \* mutant: leaves what is processed buffered
Unprocessed(held, next) == {pk \in held : pk.id >= next[pk.prio]}

\* The packets taken from `held' are handled and the rest stays buffered.
Handles(held) ==
    /\ incoming' = Unprocessed(held, nextIn')
    /\ times' = [pk \in Packet |-> IF pk \in held \ incoming' THEN times[pk] + 1 ELSE times[pk]]

\* f_SendPacketQueue: every outgoing packet goes to one of the active
\* connections (taken in turn) and is kept as sent.  `chan' is what is in
\* flight and `kept' the sent packets before the call.
SendPacketQueue(act, chan, kept) ==
    IF act = {}
    THEN /\ toR' = chan
         /\ sent' = kept
         /\ UNCHANGED <<outgoing, lastSend>>
    ELSE /\ \E via \in [outgoing -> act] :
              toR' = [c \in Conn |->
                        chan[c] \cup {Data(pk) : pk \in {q \in outgoing : via[q] = c}}]
         /\ sent' = kept \cup outgoing
         /\ outgoing' = {}
         /\ lastSend' \in act

-----------------------------------------------------------------------------
(* The sender queues packets *)

QueuePacketUnscheduled(p) ==    \* mutant: leaves the packet to the next Identify
    /\ curOut[p] < MaxId
    /\ curOut' = [curOut EXCEPT ![p] = @ + 1]
    /\ outgoing' = outgoing \cup {[prio |-> p, id |-> curOut[p] + 1]}
    /\ UNCHANGED <<sent, flush, lastSend, lostSent, sEnd, rVars, toR, toS, breaks>>
QueuePacket(p) ==
    /\ curOut[p] < MaxId
    /\ curOut' = [curOut EXCEPT ![p] = @ + 1]
    /\ outgoing' = outgoing \cup {[prio |-> p, id |-> curOut[p] + 1]}
    /\ flush' = TRUE
    /\ UNCHANGED <<sent, lastSend, lostSent, sEnd, rVars, toR, toS, breaks>>

FlushSendPacketQueue ==
    /\ flush
    /\ flush' = FALSE
    /\ SendPacketQueue(Active(sEnd), toR, sent)
    /\ UNCHANGED <<curOut, lostSent, sEnd, rVars, toS, breaks>>

\* The receiver queues a packet of its own: both directions share the entry.
ReceiverQueuesPacket(p) ==
    /\ p \notin known
    /\ known' = known \cup {p}
    /\ UNCHANGED <<sVars, nextIn, incoming, lostSeen, rEnd, times, toR, toS, breaks>>

-----------------------------------------------------------------------------
(* Connections are set up and lost *)

\* Messages of the socket a connection had before are told by the sequence
\* number and discarded.
Leftover(chan, c, msgs) == [chan EXCEPT ![c] = @ \cup msgs]    \* mutant: are not
Fresh(chan, c, msgs) == [chan EXCEPT ![c] = msgs]

\* A new socket; one end has its connection object and identifies itself at
\* once, the other follows.
SenderOpens(c) ==
    /\ \/ sEnd[c] = "down" /\ rEnd[c] = "down"
          /\ rEnd' = [rEnd EXCEPT ![c] = "pending"]
          /\ toR' = Fresh(toR, c, {Hello})
          /\ toS' = Fresh(toS, c, {})
       \/ sEnd[c] = "pending"
          /\ toR' = [toR EXCEPT ![c] = @ \cup {Hello}]
          /\ UNCHANGED <<rEnd, toS>>
    /\ sEnd' = [sEnd EXCEPT ![c] = "open"]
    /\ UNCHANGED <<curOut, outgoing, sent, flush, lastSend, lostSent,
                   known, nextIn, incoming, lostSeen, times, breaks>>

ReceiverOpens(c) ==
    /\ \/ sEnd[c] = "down" /\ rEnd[c] = "down"
          /\ sEnd' = [sEnd EXCEPT ![c] = "pending"]
          /\ toS' = Fresh(toS, c, {Identify(MyReport)})
          /\ toR' = Fresh(toR, c, {})
       \/ rEnd[c] = "pending"
          /\ toS' = [toS EXCEPT ![c] = @ \cup {Identify(MyReport)}]
          /\ UNCHANGED <<sEnd, toR>>
    /\ rEnd' = [rEnd EXCEPT ![c] = "open"]
    /\ UNCHANGED <<curOut, outgoing, sent, flush, lastSend, lostSent,
                   known, nextIn, incoming, lostSeen, times, breaks>>

\* m_pLastSendConnection is dropped with the connection it points at.
LastSendKept(c) == lastSend    \* mutant: keeps the pointer
LastSendWithout(c) == IF lastSend = c THEN NoConn ELSE lastSend

\* f_Reset of the sender's end: it leaves the active list and the remaining
\* active connections carry the notification.
SenderReset(c) ==
    LET rest == Active(sEnd) \ {c} IN
    /\ sEnd' = [sEnd EXCEPT ![c] = "down"]
    /\ lastSend' = LastSendWithout(c)
    /\ IF rest = {} \/ sEnd[c] = "pending"
       THEN /\ toR' = toR
            /\ lostSent' = lostSent
       ELSE /\ lostSent' = lostSent + 1
            /\ toR' = [d \in Conn |-> IF d \in rest THEN toR[d] \cup {Lost(lostSent + 1)}
                                                   ELSE toR[d]]
    /\ toS' = [toS EXCEPT ![c] = {}]
    /\ UNCHANGED <<curOut, outgoing, sent, flush, rVars>>

\* f_Reset of the receiver's end.  Its own notification is about packets of
\* the other direction.
ReceiverReset(c) ==
    /\ rEnd' = [rEnd EXCEPT ![c] = "down"]
    /\ toR' = [toR EXCEPT ![c] = {}]

\* An end fails by itself, or follows the other end that is gone.
SenderLoses(c) ==
    /\ sEnd[c] # "down"
    /\ \/ rEnd[c] = "down" /\ breaks' = breaks
       \/ breaks < MaxBreaks /\ breaks' = breaks + 1
    /\ SenderReset(c)

ReceiverLoses(c) ==
    /\ rEnd[c] # "down"
    /\ \/ sEnd[c] = "down" /\ breaks' = breaks
       \/ breaks < MaxBreaks /\ breaks' = breaks + 1
    /\ ReceiverReset(c)
    /\ UNCHANGED <<sVars, known, nextIn, incoming, lostSeen, times, toS>>

-----------------------------------------------------------------------------
(* Messages arriving at the receiver *)

\* fp_ProcessPacketQueue for priority p over `held': handles the packets that
\* are in order and acknowledges the last of them on connection c.
ProcessOne(p, held, c) ==    \* mutant: processes a single packet
    IF [prio |-> p, id |-> nextIn[p]] \in held
    THEN /\ nextIn' = [nextIn EXCEPT ![p] = @ + 1]
         /\ toS' = [toS EXCEPT ![c] = @ \cup {Ack(p, nextIn[p])}]
    ELSE UNCHANGED <<nextIn, toS>>
Process(p, held, c) ==
    \E n \in nextIn[p]..(MaxId + 1) :
        /\ IsFirstGap(p, n, held)
        /\ nextIn' = [nextIn EXCEPT ![p] = n]
        /\ toS' = IF n = nextIn[p] THEN toS
                  ELSE [toS EXCEPT ![c] = @ \cup {Ack(p, n - 1)}]

ReceiveData(c, m) ==
    LET pk == m.pkt
        p == pk.prio
        held == IF pk.id < nextIn[p] THEN incoming ELSE incoming \cup {pk} IN
    /\ rEnd[c] \in {"open", "active"}
    /\ m.kind = "Data"
    /\ known' = known \cup {p}
    /\ IF rEnd[c] = "active" /\ held # incoming
       THEN Process(p, held, c)
       ELSE UNCHANGED <<nextIn, toS>>
    /\ Handles(held)
    /\ toR' = [toR EXCEPT ![c] = @ \ {m}]
    /\ UNCHANGED <<sVars, lostSeen, rEnd, breaks>>

\* The handler of one of the packets fails: the packets up to it count as
\* received, nothing is acknowledged and the connection is invalid.
ReceiveDataFails(c, m) ==
    LET pk == m.pkt
        p == pk.prio
        held == incoming \cup {pk} IN
    /\ mayReject
    /\ rEnd[c] = "active"
    /\ m.kind = "Data"
    /\ breaks < MaxBreaks
    /\ breaks' = breaks + 1
    /\ pk.id >= nextIn[p] /\ pk \notin incoming
    /\ \E n \in (nextIn[p] + 1)..(MaxId + 1) :
          /\ \A i \in nextIn[p]..(n - 1) : [prio |-> p, id |-> i] \in held
          /\ nextIn' = [nextIn EXCEPT ![p] = n]
    /\ known' = known \cup {p}
    /\ Handles(held)
    /\ ReceiverReset(c)
    /\ UNCHANGED <<sVars, lostSeen, toS>>

\* The sender's Identify makes the connection active: everything that is in
\* order by now is processed.
ReceiverIdentified(c, m) ==
    /\ rEnd[c] = "open"
    /\ m.kind = "Identify"
    /\ rEnd' = [rEnd EXCEPT ![c] = "active"]
    /\ \E n \in [Prio -> 1..(MaxId + 1)] :
          /\ \A p \in Prio : n[p] >= nextIn[p] /\ IsFirstGap(p, n[p], incoming)
          /\ nextIn' = n
          /\ toS' = [toS EXCEPT ![c] =
                       @ \cup {Ack(p, n[p] - 1) : p \in {q \in Prio : n[q] # nextIn[q]}}]
    /\ Handles(incoming)
    /\ toR' = [toR EXCEPT ![c] = @ \ {m}]
    /\ UNCHANGED <<sVars, known, lostSeen, breaks>>

ReceiveLost(c, m) ==
    /\ rEnd[c] \in {"open", "active"}
    /\ m.kind = "NotifyConnectionLost"
    /\ IF m.seq <= lostSeen
       THEN UNCHANGED <<lostSeen, toS>>
       ELSE /\ lostSeen' = m.seq
            /\ toS' = [toS EXCEPT ![c] = @ \cup {Missing(MyReport)}]
    /\ toR' = [toR EXCEPT ![c] = @ \ {m}]
    /\ UNCHANGED <<sVars, known, nextIn, incoming, rEnd, times, breaks>>

-----------------------------------------------------------------------------
(* Messages arriving at the sender *)

\* The receiver's Identify: what it has is acknowledged, what it misses is
\* sent again on this connection, which becomes active, and then the packets
\* that waited for a connection are sent.
SenderIdentified(c, m) ==
    LET r == m.report
        kept == Unacked(r)
        again == Wanted(kept, r) \cup NeverSeen(kept, r) IN
    /\ sEnd[c] = "open"
    /\ m.kind = "Identify"
    /\ sEnd' = [sEnd EXCEPT ![c] = "active"]
    /\ SendPacketQueue(Active(sEnd) \cup {c},
                       [toR EXCEPT ![c] = @ \cup {Data(pk) : pk \in again}],
                       kept)
    /\ toS' = [toS EXCEPT ![c] = @ \ {m}]
    /\ UNCHANGED <<curOut, flush, lostSent, rVars, breaks>>

\* An acknowledgement on a connection that is not active is a protocol error.
ReceiveAck(c, m) ==
    /\ sEnd[c] = "active"
    /\ m.kind = "Acknowledge"
    /\ sent' = {pk \in sent : pk.prio = m.prio => pk.id > m.id}
    /\ toS' = [toS EXCEPT ![c] = @ \ {m}]
    /\ UNCHANGED <<curOut, outgoing, flush, lastSend, lostSent, sEnd, rVars, toR, breaks>>

ReceiveRequest(c, m) ==
    /\ sEnd[c] \in {"open", "active"}
    /\ m.kind = "RequestMissingPackets"
    /\ toR' = [toR EXCEPT ![c] = @ \cup {Data(pk) : pk \in Wanted(sent, m.report)}]
    /\ toS' = [toS EXCEPT ![c] = @ \ {m}]
    /\ UNCHANGED <<sVars, rVars, breaks>>

-----------------------------------------------------------------------------
ReceiverHandles(c) ==
    \E m \in toR[c] :
        /\ CanHandle(toR[c], m)
        /\ \/ ReceiveData(c, m)
           \/ ReceiverIdentified(c, m)
           \/ ReceiveLost(c, m)

SenderHandles(c) ==
    \E m \in toS[c] :
        /\ CanHandle(toS[c], m)
        /\ \/ SenderIdentified(c, m)
           \/ ReceiveAck(c, m)
           \/ ReceiveRequest(c, m)

HandlerFails(c) ==
    \E m \in toR[c] : CanHandle(toR[c], m) /\ ReceiveDataFails(c, m)

Opens(c) == SenderOpens(c) \/ ReceiverOpens(c)

Next ==
    /\ UNCHANGED mayReject
    /\ \/ \E p \in Prio : QueuePacket(p) \/ ReceiverQueuesPacket(p)
       \/ FlushSendPacketQueue
       \/ \E c \in Conn :
             \/ Opens(c)
             \/ SenderLoses(c)
             \/ ReceiverLoses(c)
             \/ ReceiverHandles(c)
             \/ SenderHandles(c)
             \/ HandlerFails(c)

Spec == Init /\ [][Next]_vars

\* The actors run what is queued to them, messages on a live connection
\* arrive, and each end notices that the other is gone.
Progress ==
    /\ WF_packetVars(FlushSendPacketQueue)
    /\ \A c \in Conn :
          /\ WF_packetVars(ReceiverHandles(c))
          /\ WF_packetVars(SenderHandles(c))
          /\ WF_packetVars(rEnd[c] = "down" /\ SenderLoses(c))
          /\ WF_packetVars(sEnd[c] = "down" /\ ReceiverLoses(c))
          /\ WF_packetVars(sEnd[c] = "pending" /\ SenderOpens(c))
          /\ WF_packetVars(rEnd[c] = "pending" /\ ReceiverOpens(c))

\* A client connection made with m_bRetryConnectOnFailure reconnects.
FairSpec == Spec /\ Progress /\ \A c \in Conn : WF_packetVars(Opens(c))

\* A connection that is lost may stay lost, as when its address is not reached again.
NoRetrySpec == Spec /\ Progress

-----------------------------------------------------------------------------
(* Properties *)

Abstract == INSTANCE OrderedDelivery WITH
    queued <- curOut,
    processed <- times

\* Packets are processed in the order they were queued, each exactly once,
\* whatever connections they travel over, are lost with or are resent on.
DeliversInOrder == Abstract!Spec

\* Every packet the receiver has not processed is still with the sender, to
\* be sent or to be sent again: no acknowledgement, resend or reset drops it.
NoLoss ==
    \A p \in Prio : \A i \in nextIn[p]..curOut[p] :
        [prio |-> p, id |-> i] \in outgoing \cup sent

\* Whatever order acknowledgements arrive in, over however many connections,
\* none of them covers a packet that has not been processed.
AcksAreProcessed ==
    \A c \in Conn : \A m \in toS[c] :
        /\ m.kind = "Acknowledge" => m.id < nextIn[m.prio]
        /\ m.kind = "Identify" =>
              \A p \in DOMAIN m.report : m.report[p].acked < nextIn[p]

\* The receiver buffers only packets that were queued and are still to be
\* processed, so that none is processed twice.
BufferedOnce ==
    \A pk \in incoming : nextIn[pk.prio] <= pk.id /\ pk.id <= curOut[pk.prio]

\* m_pLastSendConnection never points at a connection that left the active
\* list, however ends fail and come back.
LastSendIsActive == lastSend # NoConn => sEnd[lastSend] = "active"

\* A packet never waits in m_OutgoingPackets beside an active connection
\* without a flush on its way.
NoStalledPacket == outgoing # {} => flush \/ Active(sEnd) = {}

\* Likewise a packet whose turn it is never waits in m_IncomingPackets beside
\* an active connection, if no handler fails: after one that did the packets behind
\* it wait for the next Identify.
NoStalledArrival ==
    mayReject \/ \A pk \in incoming : pk.id = nextIn[pk.prio] => Active(rEnd) = {}

\* An acknowledgement never reaches an end that is not active, which
\* fp_HandleProtocolIncoming would take for an invalid connection.
NoEarlyAck ==
    \A c \in Conn : \A m \in toS[c] :
        m.kind = "Acknowledge" /\ sEnd[c] \in {"pending", "open"} =>
            \E o \in toS[c] : o.kind = "Identify"

\* With clients that reconnect every queued packet is processed in the end.
EventuallyProcessed ==
    \A p \in Prio : \A i \in 1..MaxId : [](curOut[p] >= i => <>(times[[prio |-> p, id |-> i]] > 0))

Survivor == <>[](\E c \in Conn : sEnd[c] = "active" /\ rEnd[c] = "active")

\* As long as one connection stays active the packets lost with the others
\* are recovered over it (f_NotifyDisconnect and RequestMissingPackets), at
\* the priorities the receiver had an entry for.
RecoveredAtKnownPriority ==
    Survivor /\ [](\A p \in Prio : curOut[p] > 0 => p \in known)
        => EventuallyProcessed

\* The same for every priority, "priorities the client has never seen" too, even if
\* no handler fails.
RecoveredOnSurvivor == ~mayReject /\ Survivor => EventuallyProcessed

=============================================================================
