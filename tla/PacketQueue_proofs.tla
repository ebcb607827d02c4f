------------------------ MODULE PacketQueue_proofs -------------------------
(***************************************************************************)
(* For any priorities, connections and bounds: the packet queue loses no    *)
(* packet, and implements in-order, exactly-once delivery.                  *)
(***************************************************************************)
EXTENDS PacketQueue, TLAPS

\* Packets kept by the sender were queued, and are in one place only.
KeptOnce ==
    /\ \A pk \in outgoing \cup sent : pk.id <= curOut[pk.prio]
    /\ outgoing \cap sent = {}

\* Nothing is processed before it was queued.
QueuedFirst == \A p \in Prio : nextIn[p] <= curOut[p] + 1

\* Data in flight was queued and is no longer waiting for a connection.
InFlightWasSent ==
    \A c \in Conn : \A m \in toR[c] :
        m.kind = "Data" => m.pkt.id <= curOut[m.pkt.prio] /\ m.pkt \notin outgoing

\* Every packet below the next one was handled, each once, and no other.
HandledOnce ==
    times = [pk \in Packet |-> IF pk.id < nextIn[pk.prio] THEN 1 ELSE 0]

\* The inductive invariant.  NoLoss is preserved by acknowledgements only
\* because none in flight is ahead of the receiver; packets are processed
\* once because what is buffered or in flight was queued.
IInv ==
    /\ TypeOK
    /\ KeptOnce
    /\ QueuedFirst
    /\ NoLoss
    /\ AcksAreProcessed
    /\ BufferedOnce
    /\ InFlightWasSent
    /\ HandledOnce

-----------------------------------------------------------------------------
\* Two hosts that have not talked yet satisfy the invariant.
LEMMA InitIInv == Init => IInv
  <1> SUFFICES ASSUME Init PROVE IInv
    OBVIOUS
  <1>a. /\ curOut \in [Prio -> 0..MaxId]
        /\ nextIn \in [Prio -> 1..(MaxId + 1)]
        /\ breaks \in 0..MaxBreaks
    BY PacketQueueAssumption DEF PacketQueueAssumption, Init
  <1>b. /\ sEnd \in [Conn -> EndState] /\ rEnd \in [Conn -> EndState]
        /\ toR \in [Conn -> SUBSET ToReceiver]
        /\ DOMAIN toS = Conn /\ \A c \in Conn : toS[c] = {}
    BY DEF Init, EndState
  <1>1. TypeOK
    BY <1>a, <1>b DEF Init, TypeOK
  <1>2. KeptOnce /\ QueuedFirst /\ NoLoss /\ AcksAreProcessed /\ BufferedOnce /\ InFlightWasSent
    BY DEF Init, KeptOnce, QueuedFirst, NoLoss, AcksAreProcessed, BufferedOnce, InFlightWasSent
  <1>3. HandledOnce
    BY DEF Init, HandledOnce, Packet
  <1>4. QED
    BY <1>1, <1>2, <1>3 DEF IInv

\* A step that processes nothing keeps the handled packets as they are.
LEMMA HandledUnchanged ==
    ASSUME IInv, UNCHANGED <<nextIn, times>>
    PROVE  HandledOnce' /\ times' \in [Packet -> Nat]
  BY DEF IInv, TypeOK, HandledOnce

\* Sending the queue moves every outgoing packet to the sent ones, or none,
\* and puts nothing but outgoing packets in flight beside `chan'.
LEMMA SendPacketQueueMoves ==
    ASSUME NEW act \in SUBSET Conn, NEW chan \in [Conn -> SUBSET ToReceiver],
           NEW kept \in SUBSET Packet, outgoing \in SUBSET Packet,
           lastSend \in Conn \cup {NoConn},
           SendPacketQueue(act, chan, kept)
    PROVE  /\ toR' \in [Conn -> SUBSET ToReceiver]
           /\ \A c \in Conn : \A m \in toR'[c] :
                 m \in chan[c] \/ (m.kind = "Data" /\ m.pkt \in outgoing /\ m.pkt \notin outgoing')
           /\ lastSend' \in Conn \cup {NoConn}
           /\ \/ outgoing' = outgoing /\ sent' = kept
              \/ outgoing' = {} /\ sent' = kept \cup outgoing
  <1>1. CASE act = {}
    BY <1>1 DEF SendPacketQueue
  <1>2. CASE act # {}
    <2>1. PICK via \in [outgoing -> act] :
              toR' = [c \in Conn |->
                        chan[c] \cup {Data(pk) : pk \in {q \in outgoing : via[q] = c}}]
      BY <1>2 DEF SendPacketQueue
    <2>2. sent' = kept \cup outgoing /\ outgoing' = {} /\ lastSend' \in act
      BY <1>2 DEF SendPacketQueue
    <2>3. \A pk \in outgoing : Data(pk) \in ToReceiver
      BY DEF Data, ToReceiver
    <2>4. toR' \in [Conn -> SUBSET ToReceiver]
      BY <2>1, <2>3
    <2>5. \A c \in Conn : \A m \in toR'[c] :
             m \in chan[c] \/ (m.kind = "Data" /\ m.pkt \in outgoing /\ m.pkt \notin outgoing')
      BY <2>1, <2>2 DEF Data
    <2>6. QED
      BY <2>2, <2>4, <2>5
  <1>3. QED
    BY <1>1, <1>2

\* A new packet takes the next number and is kept (f_QueuePacket).
LEMMA QueuePacketStep ==
    ASSUME IInv, NEW p \in Prio, QueuePacket(p)
    PROVE  IInv'
  <1>0. TypeOK
    BY DEF IInv
  <1>1. /\ curOut' \in [Prio -> 0..MaxId]
        /\ curOut'[p] = curOut[p] + 1
        /\ \A q \in Prio : q # p => curOut'[q] = curOut[q]
        /\ \A q \in Prio : curOut[q] <= curOut'[q]
    BY <1>0, PacketQueueAssumption DEF TypeOK, QueuePacket, PacketQueueAssumption
  <1> DEFINE new == [prio |-> p, id |-> curOut[p] + 1]
  <1>2. new \in Packet /\ outgoing' = outgoing \cup {new} /\ sent' = sent
    BY <1>0, PacketQueueAssumption DEF TypeOK, QueuePacket, Packet, PacketQueueAssumption
  <1>3. TypeOK'
    BY <1>0, <1>1, <1>2 DEF TypeOK, QueuePacket, rVars
  <1>4. new \notin outgoing \cup sent /\ \A c \in Conn : \A m \in toR[c] : m.kind = "Data" => m.pkt # new
    BY <1>0 DEF IInv, TypeOK, KeptOnce, InFlightWasSent
  <1>5. KeptOnce' /\ QueuedFirst'
    BY <1>0, <1>1, <1>2, <1>4 DEF IInv, TypeOK, KeptOnce, QueuedFirst, Packet, QueuePacket, rVars
  <1>6. NoLoss'
    <2> SUFFICES ASSUME NEW q \in Prio, NEW i \in nextIn[q]..curOut'[q]
                 PROVE  [prio |-> q, id |-> i] \in outgoing \cup {new} \cup sent
      BY <1>2 DEF NoLoss, QueuePacket, rVars
    <2>1. CASE q = p /\ i = curOut[p] + 1
      BY <2>1
    <2>2. CASE ~(q = p /\ i = curOut[p] + 1)
      <3>1. i \in nextIn[q]..curOut[q]
        BY <1>0, <1>1, <2>2 DEF TypeOK
      <3>2. QED
        BY <3>1 DEF IInv, NoLoss
    <2>3. QED
      BY <2>1, <2>2
  <1>7. AcksAreProcessed'
    BY DEF IInv, AcksAreProcessed, QueuePacket, rVars
  <1>8. BufferedOnce'
    BY <1>0, <1>1 DEF IInv, TypeOK, BufferedOnce, QueuePacket, rVars, Packet
  <1>9. InFlightWasSent'
    <2> SUFFICES ASSUME NEW c \in Conn, NEW m \in toR[c], m.kind = "Data"
                 PROVE  m.pkt.id <= curOut'[m.pkt.prio] /\ m.pkt \notin outgoing'
      BY DEF InFlightWasSent, QueuePacket
    <2>1. m.pkt \in Packet
      BY <1>0 DEF TypeOK, ToReceiver
    <2>2. m.pkt.id <= curOut[m.pkt.prio] /\ m.pkt \notin outgoing
      BY DEF IInv, InFlightWasSent
    <2>3. QED
      BY <1>0, <1>1, <1>2, <1>4, <2>1, <2>2 DEF Packet, TypeOK
  <1>10. HandledOnce'
    BY HandledUnchanged DEF QueuePacket, rVars
  <1>11. QED
    BY <1>10, <1>3, <1>5, <1>6, <1>7, <1>8, <1>9 DEF IInv

\* Sending the queue keeps every packet as sent (f_SendPacketQueue).
LEMMA FlushStep ==
    ASSUME IInv, FlushSendPacketQueue
    PROVE  IInv'
  <1>0. TypeOK
    BY DEF IInv
  <1>1. /\ toR' \in [Conn -> SUBSET ToReceiver]
        /\ \A c \in Conn : \A m \in toR'[c] :
              m \in toR[c] \/ (m.kind = "Data" /\ m.pkt \in outgoing /\ m.pkt \notin outgoing')
        /\ lastSend' \in Conn \cup {NoConn}
        /\ \/ outgoing' = outgoing /\ sent' = sent
           \/ outgoing' = {} /\ sent' = sent \cup outgoing
    BY <1>0, SendPacketQueueMoves DEF FlushSendPacketQueue, Active, TypeOK
  <1>2. TypeOK'
    BY <1>0, <1>1 DEF FlushSendPacketQueue, TypeOK, rVars
  <1>3. KeptOnce' /\ QueuedFirst' /\ NoLoss'
    BY <1>1 DEF FlushSendPacketQueue, rVars, IInv, KeptOnce, QueuedFirst, NoLoss
  <1>4. AcksAreProcessed' /\ BufferedOnce'
    BY DEF FlushSendPacketQueue, rVars, IInv, AcksAreProcessed, BufferedOnce
  <1>5. InFlightWasSent'
    BY <1>1 DEF FlushSendPacketQueue, IInv, InFlightWasSent, KeptOnce
  <1>6. HandledOnce'
    BY HandledUnchanged DEF FlushSendPacketQueue, rVars
  <1>7. QED
    BY <1>6, <1>2, <1>3, <1>4, <1>5 DEF IInv

\* A priority entry made for the other direction reports nothing received.
LEMMA ReceiverQueuesPacketStep ==
    ASSUME IInv, NEW p \in Prio, ReceiverQueuesPacket(p)
    PROVE  IInv'
  BY HandledUnchanged DEF IInv, TypeOK, KeptOnce, QueuedFirst, NoLoss, AcksAreProcessed, BufferedOnce,
         InFlightWasSent, ReceiverQueuesPacket, sVars

-----------------------------------------------------------------------------
\* A receiver reports as acknowledged just what it has processed.
LEMMA MyReportIsProcessed ==
    ASSUME TypeOK
    PROVE  /\ DOMAIN MyReport \subseteq Prio
           /\ \A p \in DOMAIN MyReport : MyReport[p].acked \in 0..MaxId /\ MyReport[p].acked < nextIn[p]
  <1>1. DOMAIN MyReport = known /\ known \subseteq Prio
    BY DEF MyReport, TypeOK
  <1>2. \A p \in known : MyReport[p].acked = nextIn[p] - 1
    BY DEF MyReport
  <1>3. \A p \in Prio : nextIn[p] \in 1..(MaxId + 1)
    BY DEF TypeOK
  <1>4. QED
    BY <1>1, <1>2, <1>3, PacketQueueAssumption DEF PacketQueueAssumption

\* Steps that leave the queues alone, put nothing but control messages in
\* flight to the receiver, and nothing but true reports to the sender.
LEMMA ConnectionStep ==
    ASSUME IInv,
           UNCHANGED <<curOut, outgoing, sent, flush, known, nextIn, incoming, times>>,
           lostSent' \in Nat, lostSeen' \in Nat, breaks' \in 0..MaxBreaks,
           lastSend' \in {lastSend, NoConn},
           sEnd' \in [Conn -> EndState], rEnd' \in [Conn -> EndState],
           toR' \in [Conn -> SUBSET ToReceiver],
           \A c \in Conn : \A m \in toR'[c] : m \in toR[c] \/ m.kind # "Data",
           DOMAIN toS' = Conn,
           \A c \in Conn : \A m \in toS'[c] :
              m \in toS[c] \/ m \in {Identify(MyReport), Missing(MyReport)}
    PROVE  IInv'
  <1>0. TypeOK
    BY DEF IInv
  <1>1. /\ IsToSender(Identify(MyReport))
        /\ IsToSender(Missing(MyReport))
    BY <1>0, MyReportIsProcessed DEF IsToSender, IsReport, Identify, Missing
  <1>2. TypeOK'
    BY <1>0, <1>1 DEF TypeOK
  <1>3. KeptOnce' /\ QueuedFirst' /\ NoLoss' /\ BufferedOnce'
    BY DEF IInv, KeptOnce, QueuedFirst, NoLoss, BufferedOnce
  <1>4. AcksAreProcessed'
    BY <1>0, MyReportIsProcessed DEF IInv, AcksAreProcessed, Identify, Missing
  <1>5. InFlightWasSent'
    BY DEF IInv, InFlightWasSent
  <1>6. QED
    BY HandledUnchanged, <1>2, <1>3, <1>4, <1>5 DEF IInv

\* Opening the sender's end sends an Identify and touches no packet.
LEMMA SenderOpensStep ==
    ASSUME IInv, NEW c \in Conn, SenderOpens(c)
    PROVE  IInv'
  <1>0. TypeOK
    BY DEF IInv
  <1>1. Hello \in ToReceiver /\ Hello.kind = "Identify"
    BY DEF Hello, ToReceiver
  <1>2. /\ sEnd' \in [Conn -> EndState] /\ rEnd' \in [Conn -> EndState]
        /\ toR' \in [Conn -> SUBSET ToReceiver]
        /\ \A d \in Conn : toR'[d] \subseteq toR[d] \cup {Hello}
        /\ DOMAIN toS' = Conn
        /\ \A d \in Conn : toS'[d] \subseteq toS[d]
    BY <1>0, <1>1 DEF SenderOpens, Fresh, TypeOK, EndState
  <1>3. QED
    BY <1>0, <1>1, <1>2, ConnectionStep DEF SenderOpens, TypeOK

\* The Identify of the receiver reports no more than it has processed.
LEMMA ReceiverOpensStep ==
    ASSUME IInv, NEW c \in Conn, ReceiverOpens(c)
    PROVE  IInv'
  <1>0. TypeOK
    BY DEF IInv
  <1>2. /\ sEnd' \in [Conn -> EndState] /\ rEnd' \in [Conn -> EndState]
        /\ toR' \in [Conn -> SUBSET ToReceiver]
        /\ \A d \in Conn : toR'[d] \subseteq toR[d]
        /\ DOMAIN toS' = Conn
        /\ \A d \in Conn : toS'[d] \subseteq toS[d] \cup {Identify(MyReport)}
    BY <1>0 DEF ReceiverOpens, Fresh, TypeOK, EndState
  <1>3. QED
    BY <1>0, <1>2, ConnectionStep DEF ReceiverOpens, TypeOK

\* Losing the sender's end drops messages, never a kept packet (f_Reset).
LEMMA SenderLosesStep ==
    ASSUME IInv, NEW c \in Conn, SenderLoses(c)
    PROVE  IInv'
  <1>0. TypeOK
    BY DEF IInv
  <1>1. SenderReset(c)
    BY DEF SenderLoses
  <1>2. /\ lostSent' \in Nat /\ lastSend' \in {lastSend, NoConn}
        /\ sEnd' \in [Conn -> EndState]
        /\ DOMAIN toS' = Conn
        /\ \A d \in Conn : toS'[d] \subseteq toS[d]
    BY <1>0, <1>1 DEF SenderReset, LastSendWithout, TypeOK, EndState
  <1>3. /\ toR' \in [Conn -> SUBSET ToReceiver]
        /\ \A d \in Conn : \A m \in toR'[d] : m \in toR[d] \/ m.kind # "Data"
    <2>1. Lost(lostSent + 1) \in ToReceiver /\ Lost(lostSent + 1).kind # "Data"
      BY <1>0 DEF Lost, ToReceiver, TypeOK
    <2>2. CASE toR' = toR
      BY <1>0, <2>2 DEF TypeOK
    <2>3. CASE toR' = [d \in Conn |-> IF d \in Active(sEnd) \ {c}
                                      THEN toR[d] \cup {Lost(lostSent + 1)} ELSE toR[d]]
      BY <1>0, <2>1, <2>3 DEF TypeOK
    <2>4. QED
      BY <1>1, <2>2, <2>3 DEF SenderReset
  <1>4. breaks' \in 0..MaxBreaks
    BY <1>0, PacketQueueAssumption DEF SenderLoses, TypeOK, PacketQueueAssumption
  <1>5. QED
    BY <1>0, <1>1, <1>2, <1>3, <1>4, ConnectionStep DEF SenderReset, rVars, TypeOK

\* Losing the receiver's end drops messages, never a buffered packet.
LEMMA ReceiverLosesStep ==
    ASSUME IInv, NEW c \in Conn, ReceiverLoses(c)
    PROVE  IInv'
  <1>0. TypeOK
    BY DEF IInv
  <1>1. /\ rEnd' \in [Conn -> EndState]
        /\ toR' \in [Conn -> SUBSET ToReceiver]
        /\ \A d \in Conn : toR'[d] \subseteq toR[d]
    BY <1>0 DEF ReceiverLoses, ReceiverReset, TypeOK, EndState
  <1>2. breaks' \in 0..MaxBreaks
    BY <1>0, PacketQueueAssumption DEF ReceiverLoses, TypeOK, PacketQueueAssumption
  <1>3. QED
    BY <1>0, <1>1, <1>2, ConnectionStep DEF ReceiverLoses, sVars, TypeOK

\* The answer to NotifyConnectionLost reports no more than was processed.
LEMMA ReceiveLostStep ==
    ASSUME IInv, NEW c \in Conn, NEW m \in toR[c], ReceiveLost(c, m)
    PROVE  IInv'
  <1>0. TypeOK
    BY DEF IInv
  <1>1. m.kind = "NotifyConnectionLost" /\ m \in ToReceiver
    BY <1>0 DEF ReceiveLost, TypeOK
  <1>2. lostSeen' \in Nat
    BY <1>0, <1>1 DEF ReceiveLost, TypeOK, ToReceiver
  <1>3. /\ toR' \in [Conn -> SUBSET ToReceiver]
        /\ \A d \in Conn : toR'[d] \subseteq toR[d]
        /\ DOMAIN toS' = Conn
        /\ \A d \in Conn : toS'[d] \subseteq toS[d] \cup {Missing(MyReport)}
    BY <1>0 DEF ReceiveLost, TypeOK
  <1>4. QED
    BY <1>0, <1>2, <1>3, ConnectionStep DEF ReceiveLost, sVars, TypeOK

-----------------------------------------------------------------------------
\* Steps of the receiver that process packets it holds, all of them queued,
\* and acknowledge nothing beyond them.
LEMMA ReceiverStep ==
    ASSUME IInv, sVars' = sVars, lostSeen' = lostSeen,
           known' \subseteq Prio,
           nextIn' \in [Prio -> 1..(MaxId + 1)],
           \A p \in Prio : nextIn[p] <= nextIn'[p] /\ nextIn'[p] <= curOut[p] + 1,
           NEW held \in SUBSET Packet,
           \A pk \in held : pk.id <= curOut[pk.prio],
           \A pk \in held : nextIn[pk.prio] <= pk.id,
           \A p \in Prio : \A i \in nextIn[p]..(nextIn'[p] - 1) : [prio |-> p, id |-> i] \in held,
           Handles(held),
           rEnd' \in [Conn -> EndState],
           toR' \in [Conn -> SUBSET ToReceiver],
           \A c \in Conn : toR'[c] \subseteq toR[c],
           DOMAIN toS' = Conn,
           \A c \in Conn : \A m \in toS'[c] :
              m \in toS[c] \/ \E p \in Prio : m = Ack(p, nextIn'[p] - 1),
           breaks' \in 0..MaxBreaks
    PROVE  IInv'
  <1>0. TypeOK
    BY DEF IInv
  <1>1. \A p \in Prio : IsToSender(Ack(p, nextIn'[p] - 1))
    BY <1>0 DEF IsToSender, Ack
  <1>2. \A pk \in incoming' : pk \in held /\ nextIn'[pk.prio] <= pk.id
    BY DEF Handles, Unprocessed
  <1>a. times' \in [Packet -> Nat]
    BY <1>0 DEF Handles, TypeOK
  <1>3. TypeOK'
    BY <1>0, <1>1, <1>2, <1>a DEF TypeOK, sVars
  <1>4. KeptOnce' /\ QueuedFirst'
    BY <1>0 DEF IInv, KeptOnce, QueuedFirst, sVars
  <1>5. NoLoss'
    <2> SUFFICES ASSUME NEW p \in Prio, NEW i \in nextIn'[p]..curOut[p]
                 PROVE  i \in nextIn[p]..curOut[p]
      BY DEF IInv, NoLoss, sVars
    <2>1. QED
      BY <1>0 DEF TypeOK
  <1>6. AcksAreProcessed'
    <2>1. SUFFICES ASSUME NEW c \in Conn, NEW m \in toS'[c]
                   PROVE  /\ m.kind = "Acknowledge" => m.id < nextIn'[m.prio]
                          /\ m.kind = "Identify" =>
                                \A p \in DOMAIN m.report : m.report[p].acked < nextIn'[p]
      BY DEF AcksAreProcessed
    <2>2. CASE m \in toS[c]
      <3>1. IsToSender(m)
        BY <1>0, <2>2 DEF TypeOK
      <3>2. CASE m.kind = "Acknowledge"
        <4>1. m.id \in Nat /\ m.prio \in Prio
          BY <3>1, <3>2 DEF IsToSender, Identify, Missing
        <4>2. m.id < nextIn[m.prio]
          BY <2>2, <3>2 DEF IInv, AcksAreProcessed
        <4>3. QED
          BY <1>0, <3>2, <4>1, <4>2 DEF TypeOK
      <3>3. CASE m.kind = "Identify"
        <4>1. IsReport(m.report)
          BY <3>1, <3>3 DEF IsToSender, Identify, Missing
        <4>2. \A p \in DOMAIN m.report : m.report[p].acked < nextIn[p]
          BY <2>2, <3>3 DEF IInv, AcksAreProcessed
        <4>3. \A p \in DOMAIN m.report : p \in Prio /\ m.report[p].acked \in Int
          BY <4>1 DEF IsReport
        <4>4. QED
          BY <1>0, <3>3, <4>2, <4>3 DEF TypeOK
      <3>4. QED
        BY <3>2, <3>3
    <2>3. CASE \E p \in Prio : m = Ack(p, nextIn'[p] - 1)
      BY <2>3 DEF Ack
    <2>4. QED
      BY <2>2, <2>3
  <1>7. BufferedOnce'
    BY <1>2 DEF BufferedOnce, sVars
  <1>8. InFlightWasSent'
    BY DEF IInv, InFlightWasSent, sVars
  <1>9. HandledOnce'
    <2> SUFFICES ASSUME NEW pk \in Packet
                 PROVE  times'[pk] = IF pk.id < nextIn'[pk.prio] THEN 1 ELSE 0
      BY <1>a DEF HandledOnce, Handles
    <2>1. /\ pk.prio \in Prio /\ pk.id \in Nat /\ pk = [prio |-> pk.prio, id |-> pk.id]
          /\ nextIn[pk.prio] \in Nat /\ nextIn'[pk.prio] \in Nat
          /\ nextIn[pk.prio] <= nextIn'[pk.prio]
      BY <1>0 DEF Packet, TypeOK
    <2>2. times[pk] = IF pk.id < nextIn[pk.prio] THEN 1 ELSE 0
      BY DEF IInv, HandledOnce
    <2>3. times'[pk] = IF pk \in held \ incoming' THEN times[pk] + 1 ELSE times[pk]
      BY DEF Handles
    <2>4. pk \in held \ incoming' <=> nextIn[pk.prio] <= pk.id /\ pk.id < nextIn'[pk.prio]
      <3>1. pk \in held \ incoming' <=> pk \in held /\ pk.id < nextIn'[pk.prio]
        BY <2>1 DEF Handles, Unprocessed
      <3>2. nextIn[pk.prio] <= pk.id /\ pk.id < nextIn'[pk.prio] => pk \in held
        BY <2>1
      <3>3. QED
        BY <3>1, <3>2
    <2>5. QED
      BY <2>1, <2>2, <2>3, <2>4
  <1>10. QED
    BY <1>3, <1>4, <1>5, <1>6, <1>7, <1>8, <1>9 DEF IInv

\* What the receiver holds once a packet arrived was queued, and so is every
\* packet in order from the next one on.
LEMMA HeldIsQueued ==
    ASSUME IInv, NEW c \in Conn, NEW m \in toR[c], m.kind = "Data",
           NEW held \in SUBSET (incoming \cup {m.pkt})
    PROVE  /\ m.pkt \in Packet
           /\ held \in SUBSET Packet
           /\ \A pk \in held : pk.id <= curOut[pk.prio]
  <1>1. m.pkt \in Packet
    BY DEF IInv, TypeOK, ToReceiver
  <1>2. m.pkt.id <= curOut[m.pkt.prio]
    BY DEF IInv, InFlightWasSent
  <1>3. QED
    BY <1>1, <1>2 DEF IInv, TypeOK, BufferedOnce

\* Numbers in order in the buffer were all queued.
LEMMA InOrderIsQueued ==
    ASSUME TypeOK, QueuedFirst, NEW p \in Prio, NEW held,
           \A pk \in held : pk.id <= curOut[pk.prio],
           NEW n \in nextIn[p]..(MaxId + 1),
           \A i \in nextIn[p]..(n - 1) : [prio |-> p, id |-> i] \in held
    PROVE  n <= curOut[p] + 1
  <1>1. nextIn[p] \in Nat /\ curOut[p] \in Nat /\ MaxId \in Nat
    BY PacketQueueAssumption DEF TypeOK, PacketQueueAssumption
  <1>2. CASE n = nextIn[p]
    BY <1>2 DEF QueuedFirst
  <1>3. CASE n # nextIn[p]
    <2>1. n - 1 \in nextIn[p]..(n - 1)
      BY <1>1, <1>3
    <2>2. [prio |-> p, id |-> n - 1] \in held
      BY <2>1
    <2>3. n - 1 <= curOut[p]
      BY <2>2
    <2>4. QED
      BY <1>1, <2>3
  <1>4. QED
    BY <1>2, <1>3

\* A packet is buffered once, processed in order and acknowledged after that.
LEMMA ReceiveDataStep ==
    ASSUME IInv, NEW c \in Conn, NEW m \in toR[c], ReceiveData(c, m)
    PROVE  IInv'
  <1>0. TypeOK /\ QueuedFirst
    BY DEF IInv
  <1> DEFINE pk == m.pkt
             p == pk.prio
             held == IF pk.id < nextIn[p] THEN incoming ELSE incoming \cup {pk}
  <1>1. /\ m.kind = "Data"
        /\ known' = known \cup {p}
        /\ IF rEnd[c] = "active" /\ held # incoming
           THEN Process(p, held, c) ELSE UNCHANGED <<nextIn, toS>>
        /\ Handles(held)
        /\ toR' = [toR EXCEPT ![c] = @ \ {m}]
        /\ UNCHANGED <<sVars, lostSeen, rEnd, breaks>>
    BY DEF ReceiveData
  <1>2. /\ pk \in Packet /\ p \in Prio
        /\ held \in SUBSET Packet
        /\ \A q \in held : q.id <= curOut[q.prio] /\ nextIn[q.prio] <= q.id
    <2>1. held \in SUBSET (incoming \cup {m.pkt})
      OBVIOUS
    <2>2. pk \in Packet /\ held \in SUBSET Packet /\ \A q \in held : q.id <= curOut[q.prio]
      BY <1>1, <2>1, HeldIsQueued
    <2>3. \A q \in held : nextIn[q.prio] <= q.id
      BY <1>0, <2>2 DEF IInv, BufferedOnce, Packet, TypeOK
    <2>4. QED
      BY <2>2, <2>3 DEF Packet
  <1> HIDE DEF held, p, pk
  <1>3. /\ nextIn' \in [Prio -> 1..(MaxId + 1)]
        /\ \A q \in Prio : nextIn[q] <= nextIn'[q] /\ nextIn'[q] <= curOut[q] + 1
        /\ \A q \in Prio : \A i \in nextIn[q]..(nextIn'[q] - 1) : [prio |-> q, id |-> i] \in held
        /\ DOMAIN toS' = Conn
        /\ \A d \in Conn : \A o \in toS'[d] :
              o \in toS[d] \/ \E q \in Prio : o = Ack(q, nextIn'[q] - 1)
    <2>1. CASE UNCHANGED <<nextIn, toS>>
      BY <1>0, <2>1 DEF TypeOK, QueuedFirst
    <2>2. CASE Process(p, held, c)
      <3>1. PICK n \in nextIn[p]..(MaxId + 1) :
                /\ IsFirstGap(p, n, held)
                /\ nextIn' = [nextIn EXCEPT ![p] = n]
                /\ toS' = IF n = nextIn[p] THEN toS
                          ELSE [toS EXCEPT ![c] = @ \cup {Ack(p, n - 1)}]
        BY <2>2 DEF Process
      <3>2. n <= curOut[p] + 1
        BY <1>0, <1>2, <3>1, InOrderIsQueued DEF IsFirstGap
      <3>3. /\ nextIn' \in [Prio -> 1..(MaxId + 1)]
            /\ nextIn'[p] = n
            /\ \A q \in Prio : nextIn[q] <= nextIn'[q] /\ nextIn'[q] <= curOut[q] + 1
        BY <1>0, <1>2, <3>1, <3>2, PacketQueueAssumption
           DEF TypeOK, QueuedFirst, PacketQueueAssumption
      <3>4. /\ DOMAIN toS' = Conn
            /\ \A d \in Conn : \A o \in toS'[d] :
                 o \in toS[d] \/ o = Ack(p, nextIn'[p] - 1)
        BY <1>0, <3>1, <3>3 DEF TypeOK
      <3>5. \A q \in Prio : \A i \in nextIn[q]..(nextIn'[q] - 1) : [prio |-> q, id |-> i] \in held
        BY <1>0, <3>1, <3>3 DEF TypeOK, IsFirstGap
      <3>6. QED
        BY <1>2, <3>3, <3>4, <3>5
    <2>3. QED
      BY <1>1, <2>1, <2>2
  <1>4. /\ toR' \in [Conn -> SUBSET ToReceiver]
        /\ \A d \in Conn : toR'[d] \subseteq toR[d]
        /\ known' \subseteq Prio /\ rEnd' \in [Conn -> EndState] /\ breaks' \in 0..MaxBreaks
    BY <1>0, <1>1, <1>2 DEF TypeOK
  <1>5. QED
    BY <1>1, <1>2, <1>3, <1>4, ReceiverStep

\* A handler that fails leaves the packets up to it processed once.
LEMMA ReceiveDataFailsStep ==
    ASSUME IInv, NEW c \in Conn, NEW m \in toR[c], ReceiveDataFails(c, m)
    PROVE  IInv'
  <1>0. TypeOK /\ QueuedFirst
    BY DEF IInv
  <1> DEFINE pk == m.pkt
             p == pk.prio
             held == incoming \cup {pk}
  <1>1. /\ m.kind = "Data"
        /\ known' = known \cup {p}
        /\ Handles(held)
        /\ rEnd' = [rEnd EXCEPT ![c] = "down"]
        /\ toR' = [toR EXCEPT ![c] = {}]
        /\ breaks < MaxBreaks /\ breaks' = breaks + 1
        /\ UNCHANGED <<sVars, lostSeen, toS>>
    BY DEF ReceiveDataFails, ReceiverReset
  <1>a. PICK n \in (nextIn[p] + 1)..(MaxId + 1) :
            /\ \A i \in nextIn[p]..(n - 1) : [prio |-> p, id |-> i] \in held
            /\ nextIn' = [nextIn EXCEPT ![p] = n]
    BY DEF ReceiveDataFails
  <1>2. /\ pk \in Packet /\ p \in Prio
        /\ held \in SUBSET Packet
        /\ \A q \in held : q.id <= curOut[q.prio] /\ nextIn[q.prio] <= q.id
    <2>1. pk \in Packet /\ held \in SUBSET Packet /\ \A q \in held : q.id <= curOut[q.prio]
      BY <1>1, HeldIsQueued
    <2>2. \A q \in held : nextIn[q.prio] <= q.id
      BY <1>0, <2>1 DEF ReceiveDataFails, IInv, BufferedOnce, Packet, TypeOK
    <2>3. QED
      BY <2>1, <2>2 DEF Packet
  <1> HIDE DEF held, p, pk
  <1>b. n \in nextIn[p]..(MaxId + 1)
    BY <1>0, <1>2, PacketQueueAssumption DEF TypeOK, PacketQueueAssumption
  <1>c. n <= curOut[p] + 1
    BY <1>0, <1>2, <1>a, <1>b, InOrderIsQueued
  <1>3. /\ nextIn' \in [Prio -> 1..(MaxId + 1)]
        /\ \A q \in Prio : nextIn[q] <= nextIn'[q] /\ nextIn'[q] <= curOut[q] + 1
        /\ \A q \in Prio : \A i \in nextIn[q]..(nextIn'[q] - 1) : [prio |-> q, id |-> i] \in held
    BY <1>0, <1>2, <1>a, <1>b, <1>c, PacketQueueAssumption
       DEF TypeOK, QueuedFirst, PacketQueueAssumption
  <1>4. /\ toR' \in [Conn -> SUBSET ToReceiver]
        /\ \A d \in Conn : toR'[d] \subseteq toR[d]
        /\ known' \subseteq Prio /\ rEnd' \in [Conn -> EndState]
        /\ DOMAIN toS' = Conn /\ toS' = toS
    BY <1>0, <1>1, <1>2 DEF TypeOK, EndState
  <1>5. breaks' \in 0..MaxBreaks
    BY <1>0, <1>1, PacketQueueAssumption DEF TypeOK, PacketQueueAssumption
  <1>6. QED
    BY <1>1, <1>2, <1>3, <1>4, <1>5, ReceiverStep

\* What an Identify lets the receiver process was queued and is acknowledged
\* after that.
LEMMA ReceiverIdentifiedStep ==
    ASSUME IInv, NEW c \in Conn, NEW m \in toR[c], ReceiverIdentified(c, m)
    PROVE  IInv'
  <1>0. TypeOK /\ QueuedFirst
    BY DEF IInv
  <1>1. PICK n \in [Prio -> 1..(MaxId + 1)] :
          /\ \A p \in Prio : n[p] >= nextIn[p] /\ IsFirstGap(p, n[p], incoming)
          /\ nextIn' = n
          /\ toS' = [toS EXCEPT ![c] =
                       @ \cup {Ack(p, n[p] - 1) : p \in {q \in Prio : n[q] # nextIn[q]}}]
    BY DEF ReceiverIdentified
  <1>2. /\ incoming \in SUBSET Packet
        /\ \A pk \in incoming : pk.id <= curOut[pk.prio] /\ nextIn[pk.prio] <= pk.id
    BY DEF IInv, TypeOK, BufferedOnce
  <1>3. \A q \in Prio : nextIn[q] <= nextIn'[q] /\ nextIn'[q] <= curOut[q] + 1
    <2> SUFFICES ASSUME NEW q \in Prio
                 PROVE  nextIn[q] <= n[q] /\ n[q] <= curOut[q] + 1
      BY <1>1
    <2>1. n[q] \in nextIn[q]..(MaxId + 1) /\ IsFirstGap(q, n[q], incoming)
      BY <1>0, <1>1, PacketQueueAssumption DEF TypeOK, PacketQueueAssumption
    <2>2. QED
      BY <1>0, <1>2, <2>1, InOrderIsQueued DEF IsFirstGap
  <1>4. /\ toR' \in [Conn -> SUBSET ToReceiver]
        /\ \A d \in Conn : toR'[d] \subseteq toR[d]
        /\ rEnd' \in [Conn -> EndState] /\ breaks' \in 0..MaxBreaks
        /\ known' \subseteq Prio
    BY <1>0 DEF ReceiverIdentified, TypeOK, EndState
  <1>5. /\ DOMAIN toS' = Conn
        /\ \A d \in Conn : \A o \in toS'[d] :
              o \in toS[d] \/ \E q \in Prio : o = Ack(q, nextIn'[q] - 1)
    BY <1>0, <1>1 DEF TypeOK
  <1>6. \A q \in Prio : \A i \in nextIn[q]..(nextIn'[q] - 1) : [prio |-> q, id |-> i] \in incoming
    BY <1>1 DEF IsFirstGap
  <1>7. QED
    BY <1>1, <1>2, <1>3, <1>4, <1>5, <1>6, ReceiverStep DEF ReceiverIdentified

-----------------------------------------------------------------------------
\* An acknowledgement leaves NoLoss alone: it covers processed packets only.
LEMMA ReceiveAckStep ==
    ASSUME IInv, NEW c \in Conn, NEW m \in toS[c], ReceiveAck(c, m)
    PROVE  IInv'
  <1>0. TypeOK
    BY DEF IInv
  <1>1. m.kind = "Acknowledge" /\ m.id \in Nat /\ m.prio \in Prio /\ m.id < nextIn[m.prio]
    <2>1. m.kind = "Acknowledge" /\ IsToSender(m)
      BY <1>0 DEF ReceiveAck, TypeOK
    <2>2. QED
      BY <2>1 DEF IsToSender, Identify, Missing, IInv, AcksAreProcessed
  <1>2. sent' \subseteq sent
    BY DEF ReceiveAck
  <1>3. DOMAIN toS' = Conn /\ \A d \in Conn : toS'[d] \subseteq toS[d]
    BY <1>0 DEF ReceiveAck, TypeOK
  <1>4. TypeOK'
    BY <1>0, <1>2, <1>3 DEF TypeOK, ReceiveAck, rVars
  <1>5. NoLoss'
    <2> SUFFICES ASSUME NEW p \in Prio, NEW i \in nextIn[p]..curOut[p],
                        [prio |-> p, id |-> i] \in sent
                 PROVE  [prio |-> p, id |-> i] \in sent'
      BY DEF IInv, NoLoss, ReceiveAck, rVars
    <2>1. CASE p = m.prio
      <3>1. i > m.id
        BY <1>0, <1>1, <2>1 DEF TypeOK
      <3>2. QED
        BY <3>1 DEF ReceiveAck
    <2>2. CASE p # m.prio
      BY <2>2 DEF ReceiveAck
    <2>3. QED
      BY <2>1, <2>2
  <1>6. KeptOnce' /\ QueuedFirst' /\ AcksAreProcessed' /\ BufferedOnce' /\ InFlightWasSent'
    BY <1>2, <1>3 DEF IInv, KeptOnce, QueuedFirst, AcksAreProcessed, BufferedOnce,
                      InFlightWasSent, ReceiveAck, rVars
  <1>7. HandledOnce'
    BY HandledUnchanged DEF ReceiveAck, rVars
  <1>8. QED
    BY <1>7, <1>4, <1>5, <1>6 DEF IInv

\* A resend puts only kept packets in flight.
LEMMA ReceiveRequestStep ==
    ASSUME IInv, NEW c \in Conn, NEW m \in toS[c], ReceiveRequest(c, m)
    PROVE  IInv'
  <1>0. TypeOK
    BY DEF IInv
  <1>1. \A pk \in Wanted(sent, m.report) : pk \in sent /\ Data(pk) \in ToReceiver
    BY <1>0 DEF Wanted, TypeOK, Data, ToReceiver
  <1>2. /\ toR' \in [Conn -> SUBSET ToReceiver]
        /\ \A d \in Conn : \A o \in toR'[d] : o \in toR[d] \/ \E pk \in sent : o = Data(pk)
    BY <1>0, <1>1 DEF ReceiveRequest, TypeOK
  <1>3. DOMAIN toS' = Conn /\ \A d \in Conn : toS'[d] \subseteq toS[d]
    BY <1>0 DEF ReceiveRequest, TypeOK
  <1>4. TypeOK'
    BY <1>0, <1>2, <1>3 DEF TypeOK, ReceiveRequest, sVars, rVars
  <1>5. KeptOnce' /\ QueuedFirst' /\ NoLoss' /\ AcksAreProcessed' /\ BufferedOnce'
    BY <1>3 DEF IInv, KeptOnce, QueuedFirst, NoLoss, AcksAreProcessed, BufferedOnce,
                ReceiveRequest, sVars, rVars
  <1>6. InFlightWasSent'
    BY <1>2 DEF IInv, KeptOnce, InFlightWasSent, ReceiveRequest, sVars, rVars, Data
  <1>7. HandledOnce'
    BY HandledUnchanged DEF ReceiveRequest, rVars
  <1>8. QED
    BY <1>7, <1>4, <1>5, <1>6 DEF IInv

\* The reported packets were processed, so dropping them loses nothing, and
\* the resent ones are kept.
LEMMA SenderIdentifiedStep ==
    ASSUME IInv, NEW c \in Conn, NEW m \in toS[c], SenderIdentified(c, m)
    PROVE  IInv'
  <1>0. TypeOK
    BY DEF IInv
  <1> DEFINE r == m.report
             kept == Unacked(r)
             again == Wanted(kept, r) \cup NeverSeen(kept, r)
             chan == [toR EXCEPT ![c] = @ \cup {Data(pk) : pk \in again}]
  <1>1. IsReport(r) /\ \A p \in DOMAIN r : r[p].acked < nextIn[p]
    <2>1. m.kind = "Identify" /\ IsToSender(m)
      BY <1>0 DEF SenderIdentified, TypeOK
    <2>2. QED
      BY <2>1 DEF IsToSender, Identify, Missing, IInv, AcksAreProcessed
  <1>2. kept \subseteq sent /\ again \subseteq kept
    BY DEF Unacked, Wanted, NeverSeen
  <1>3. SendPacketQueue(Active(sEnd) \cup {c}, chan, kept)
    BY DEF SenderIdentified
  <1>4. \A p \in Prio : \A i \in nextIn[p]..curOut[p] :
            [prio |-> p, id |-> i] \in sent => [prio |-> p, id |-> i] \in kept
    BY <1>0, <1>1 DEF Unacked, IsReport, TypeOK
  <1>5. \A pk \in sent : Data(pk) \in ToReceiver
    BY <1>0 DEF TypeOK, Data, ToReceiver
  <1> HIDE DEF kept, again, r
  <1>6. /\ chan \in [Conn -> SUBSET ToReceiver]
        /\ \A d \in Conn : \A o \in chan[d] : o \in toR[d] \/ \E pk \in sent : o = Data(pk)
    BY <1>0, <1>2, <1>5 DEF TypeOK
  <1> HIDE DEF chan
  <1>7. Active(sEnd) \cup {c} \in SUBSET Conn /\ kept \in SUBSET Packet
    BY <1>0, <1>2 DEF Active, TypeOK
  <1>8. /\ toR' \in [Conn -> SUBSET ToReceiver]
        /\ \A d \in Conn : \A o \in toR'[d] :
              o \in chan[d] \/ (o.kind = "Data" /\ o.pkt \in outgoing /\ o.pkt \notin outgoing')
        /\ lastSend' \in Conn \cup {NoConn}
        /\ \/ outgoing' = outgoing /\ sent' = kept
           \/ outgoing' = {} /\ sent' = kept \cup outgoing
    BY <1>0, <1>3, <1>6, <1>7, SendPacketQueueMoves DEF TypeOK
  <1>9. /\ DOMAIN toS' = Conn /\ \A d \in Conn : toS'[d] \subseteq toS[d]
        /\ sEnd' \in [Conn -> EndState]
    BY <1>0 DEF SenderIdentified, TypeOK, EndState
  <1>10. TypeOK'
    BY <1>0, <1>7, <1>8, <1>9 DEF TypeOK, SenderIdentified, rVars
  <1>11. KeptOnce'
    BY <1>2, <1>8 DEF IInv, KeptOnce, SenderIdentified
  <1>12. NoLoss'
    BY <1>4, <1>8 DEF IInv, NoLoss, SenderIdentified, rVars
  <1>13. QueuedFirst' /\ AcksAreProcessed' /\ BufferedOnce'
    BY <1>9 DEF IInv, QueuedFirst, AcksAreProcessed, BufferedOnce, SenderIdentified, rVars
  <1>14. InFlightWasSent'
    <2> SUFFICES ASSUME NEW d \in Conn, NEW o \in toR'[d], o.kind = "Data"
                 PROVE  o.pkt.id <= curOut[o.pkt.prio] /\ o.pkt \notin outgoing'
      BY DEF InFlightWasSent, SenderIdentified
    <2>1. CASE o \in toR[d]
      BY <1>8, <2>1 DEF IInv, InFlightWasSent
    <2>2. CASE \E pk \in sent : o = Data(pk)
      BY <1>8, <2>2 DEF IInv, KeptOnce, Data
    <2>3. CASE o.pkt \in outgoing /\ o.pkt \notin outgoing'
      BY <2>3 DEF IInv, KeptOnce
    <2>4. QED
      BY <1>6, <1>8, <2>1, <2>2, <2>3
  <1>15. HandledOnce'
    BY HandledUnchanged DEF SenderIdentified, rVars
  <1>16. QED
    BY <1>15, <1>10, <1>11, <1>12, <1>13, <1>14 DEF IInv

-----------------------------------------------------------------------------
\* Every step keeps the invariant.
LEMMA NextIInv == IInv /\ [Next]_vars => IInv'
  <1> SUFFICES ASSUME IInv, [Next]_vars PROVE IInv'
    OBVIOUS
  <1>1. CASE \E p \in Prio : QueuePacket(p) \/ ReceiverQueuesPacket(p)
    BY <1>1, QueuePacketStep, ReceiverQueuesPacketStep
  <1>2. CASE FlushSendPacketQueue
    BY <1>2, FlushStep
  <1>3. CASE \E c \in Conn : Opens(c) \/ SenderLoses(c) \/ ReceiverLoses(c)
    BY <1>3, SenderOpensStep, ReceiverOpensStep, SenderLosesStep, ReceiverLosesStep DEF Opens
  <1>4. CASE \E c \in Conn : ReceiverHandles(c) \/ HandlerFails(c)
    BY <1>4, ReceiveDataStep, ReceiverIdentifiedStep, ReceiveLostStep, ReceiveDataFailsStep
       DEF ReceiverHandles, HandlerFails
  <1>5. CASE \E c \in Conn : SenderHandles(c)
    BY <1>5, SenderIdentifiedStep, ReceiveAckStep, ReceiveRequestStep DEF SenderHandles
  <1>6. CASE UNCHANGED vars
    BY <1>6 DEF vars, packetVars, sVars, rVars, IInv, TypeOK, KeptOnce, QueuedFirst, NoLoss, HandledOnce,
                AcksAreProcessed, BufferedOnce, InFlightWasSent
  <1>7. QED
    BY <1>1, <1>2, <1>3, <1>4, <1>5, <1>6 DEF Next

\* Spec => []IInv, from which the theorems below follow.
THEOREM Invariance == Spec => []IInv
  BY InitIInv, NextIInv, PTL DEF Spec

\* The variables of the packet queue keep their types.
THEOREM TypeCorrect == Spec => []TypeOK
  BY Invariance, PTL DEF IInv

\* A packet the receiver has not processed is kept by the sender.
THEOREM NothingLost == Spec => []NoLoss
  BY Invariance, PTL DEF IInv

\* Acknowledgements in flight cover processed packets only.
THEOREM AcksNeverAhead == Spec => []AcksAreProcessed
  BY Invariance, PTL DEF IInv

\* The receiver holds back queued packets only, and none it has processed.
THEOREM NothingTwice == Spec => []BufferedOnce
  BY Invariance, PTL DEF IInv

-----------------------------------------------------------------------------
(* The refinement *)

\* Every step queues one packet or moves the receiver forward.
LEMMA StepMovesForward ==
    ASSUME IInv, [Next]_vars
    PROVE  \/ \E p \in Prio : QueuePacket(p)
           \/ curOut' = curOut /\ \A p \in Prio : nextIn[p] <= nextIn'[p]
  <1>0. TypeOK
    BY DEF IInv
  <1> DEFINE Forward == curOut' = curOut /\ \A p \in Prio : nextIn[p] <= nextIn'[p]
  <1>a. UNCHANGED <<curOut, nextIn>> => Forward
    BY <1>0 DEF TypeOK
  <1>1. ASSUME NEW p \in Prio, ReceiverQueuesPacket(p) PROVE Forward
    BY <1>a, <1>1 DEF ReceiverQueuesPacket, sVars
  <1>2. CASE FlushSendPacketQueue
    BY <1>a, <1>2 DEF FlushSendPacketQueue, rVars
  <1>3. ASSUME NEW c \in Conn, Opens(c) \/ SenderLoses(c) \/ ReceiverLoses(c)
        PROVE  Forward
    BY <1>a, <1>3 DEF Opens, SenderOpens, ReceiverOpens, SenderLoses, ReceiverLoses,
                      SenderReset, sVars, rVars
  <1>4. ASSUME NEW c \in Conn, SenderHandles(c)
        PROVE  Forward
    BY <1>a, <1>4 DEF SenderHandles, SenderIdentified, ReceiveAck, ReceiveRequest, sVars, rVars
  <1>5. ASSUME NEW c \in Conn, NEW m \in toR[c], ReceiveData(c, m)
        PROVE  Forward
    <2>1. m.kind = "Data" /\ curOut' = curOut
      BY <1>5 DEF ReceiveData, sVars
    <2>2. m.pkt.prio \in Prio
      BY <1>0, <2>1 DEF TypeOK, ToReceiver, Packet
    <2>3. \/ UNCHANGED nextIn
          \/ \E n \in nextIn[m.pkt.prio]..(MaxId + 1) :
                nextIn' = [nextIn EXCEPT ![m.pkt.prio] = n]
      BY <1>5 DEF ReceiveData, Process
    <2>4. QED
      BY <1>0, <2>1, <2>2, <2>3, PacketQueueAssumption DEF TypeOK, PacketQueueAssumption
  <1>6. ASSUME NEW c \in Conn, NEW m \in toR[c], ReceiveDataFails(c, m)
        PROVE  Forward
    <2>1. m.kind = "Data" /\ curOut' = curOut
      BY <1>6 DEF ReceiveDataFails, sVars
    <2>2. m.pkt.prio \in Prio
      BY <1>0, <2>1 DEF TypeOK, ToReceiver, Packet
    <2>3. \E n \in (nextIn[m.pkt.prio] + 1)..(MaxId + 1) :
             nextIn' = [nextIn EXCEPT ![m.pkt.prio] = n]
      BY <1>6 DEF ReceiveDataFails
    <2>4. QED
      BY <1>0, <2>1, <2>2, <2>3, PacketQueueAssumption DEF TypeOK, PacketQueueAssumption
  <1>7. ASSUME NEW c \in Conn, NEW m \in toR[c], ReceiverIdentified(c, m)
        PROVE  Forward
    BY <1>0, <1>7 DEF ReceiverIdentified, sVars, TypeOK
  <1>8. ASSUME NEW c \in Conn, NEW m \in toR[c], ReceiveLost(c, m)
        PROVE  Forward
    BY <1>a, <1>8 DEF ReceiveLost, sVars
  <1>9. CASE UNCHANGED vars
    BY <1>a, <1>9 DEF vars, packetVars, sVars, rVars
  <1>10. QED
    BY <1>1, <1>2, <1>3, <1>4, <1>5, <1>6, <1>7, <1>8, <1>9
       DEF Next, ReceiverHandles, HandlerFails

\* Initially nothing is queued and nothing processed, in either specification.
LEMMA InitRefines == Init => Abstract!Init
  BY DEF Init, Abstract!Init, Packet, Abstract!Packet

\* Every step queues one packet, processes the next ones, or stutters.
LEMMA StepRefines ==
    ASSUME IInv, IInv', [Next]_vars
    PROVE  [Abstract!Next]_(Abstract!vars)
  <1>0. TypeOK /\ TypeOK' /\ QueuedFirst' /\ HandledOnce /\ HandledOnce'
    BY DEF IInv
  <1>1. ASSUME NEW p \in Prio, QueuePacket(p)
        PROVE  Abstract!Queue(p)
    BY <1>1 DEF QueuePacket, rVars, Abstract!Queue
  <1>2. CASE curOut' = curOut /\ \A p \in Prio : nextIn[p] <= nextIn'[p]
    <2>1. CASE times' = times
      BY <1>2, <2>1 DEF Abstract!vars
    <2>2. CASE times' # times
      <3> DEFINE n == [p \in Prio |-> nextIn'[p] - 1]
      <3>1. n \in [Prio -> 0..MaxId]
        BY <1>0, PacketQueueAssumption DEF TypeOK, PacketQueueAssumption
      <3>2. \A p \in Prio : n[p] <= curOut[p]
        BY <1>0, <1>2 DEF TypeOK, QueuedFirst
      <3>3. times' = Abstract!UpTo(n)
        <4>1. \A pk \in Packet : pk.id < nextIn'[pk.prio] <=> pk.id <= n[pk.prio]
          BY <1>0 DEF TypeOK, Packet
        <4>2. QED
          BY <1>0, <4>1 DEF HandledOnce, Abstract!UpTo, Abstract!Packet, Packet
      <3>4. \A pk \in Packet : times[pk] <= times'[pk]
        <4> SUFFICES ASSUME NEW pk \in Packet PROVE times[pk] <= times'[pk]
          OBVIOUS
        <4>1. pk.prio \in Prio /\ pk.id \in Nat
          BY DEF Packet
        <4>2. QED
          BY <1>0, <1>2, <4>1 DEF HandledOnce, TypeOK
      <3> HIDE DEF n
      <3>5. Abstract!ProcessSome
        BY <1>2, <2>2, <3>1, <3>2, <3>3, <3>4 DEF Abstract!ProcessSome, Abstract!Packet, Packet
      <3>6. QED
        BY <3>5 DEF Abstract!Next
    <2>3. QED
      BY <2>1, <2>2
  <1>3. QED
    BY <1>1, <1>2, StepMovesForward DEF Abstract!Next

\* The packet queue implements in-order, exactly-once processing.
THEOREM Refinement == Spec => DeliversInOrder
  <1>1. Init => Abstract!Init
    BY InitRefines
  <1>2. IInv /\ IInv' /\ [Next]_vars => [Abstract!Next]_(Abstract!vars)
    BY StepRefines
  <1>3. QED
    BY <1>1, <1>2, Invariance, PTL DEF Spec, DeliversInOrder, Abstract!Spec
-----------------------------------------------------------------------------
(* The connections *)

\* The Identify an end owes is in flight before anything of the other end
\* that needs it: acknowledgements to the sender, packets to the receiver.
IdentifyFirst ==
    \A c \in Conn :
        /\ /\ sEnd[c] \in {"pending", "open"}
           /\ rEnd[c] \in {"open", "active"} \/ \E m \in toS[c] : m.kind = "Acknowledge"
           => \E o \in toS[c] : o.kind = "Identify"
        /\ /\ rEnd[c] \in {"pending", "open"}
           /\ sEnd[c] \in {"open", "active"} \/ \E m \in toR[c] : m.kind = "Data"
           => \E o \in toR[c] : o.kind = "Identify"

\* The inductive invariant of the connections, beside that of the packets.
ConnInv ==
    /\ LastSendIsActive
    /\ NoStalledPacket
    /\ IdentifyFirst

\* At first there is no connection and nothing to send.
LEMMA InitConnInv == Init => ConnInv
  BY DEF Init, ConnInv, LastSendIsActive, NoStalledPacket, IdentifyFirst

\* What the queue is sent over is active, and nothing is left if there is any.
LEMMA SendPacketQueueSends ==
    ASSUME NEW act \in SUBSET Conn, NEW chan \in [Conn -> SUBSET ToReceiver], NEW kept,
           outgoing \in SUBSET Packet, lastSend \in Conn \cup {NoConn},
           SendPacketQueue(act, chan, kept)
    PROVE  /\ lastSend' = lastSend \/ lastSend' \in act
           /\ act = {} \/ outgoing' = {}
           /\ \A c \in Conn : chan[c] \subseteq toR'[c]
           /\ \A c \in Conn : \A m \in toR'[c] : m \in chan[c] \/ c \in act
  <1>1. CASE act = {}
    BY <1>1 DEF SendPacketQueue
  <1>2. CASE act # {}
    <2>1. PICK via \in [outgoing -> act] :
              toR' = [c \in Conn |->
                        chan[c] \cup {Data(pk) : pk \in {q \in outgoing : via[q] = c}}]
      BY <1>2 DEF SendPacketQueue
    <2>2. outgoing' = {} /\ lastSend' \in act
      BY <1>2 DEF SendPacketQueue
    <2>3. QED
      BY <2>1, <2>2
  <1>3. QED
    BY <1>1, <1>2

\* Steps that put neither Data nor Acknowledge in flight, take no Identify
\* away and leave the ends alone.
LEMMA QuietStep ==
    ASSUME ConnInv, UNCHANGED <<sEnd, rEnd, lastSend>>,
           outgoing' # {} => flush' \/ (outgoing # {} /\ ~flush),
           \A c \in Conn :
              /\ \A m \in toS'[c] : m \in toS[c] \/ m.kind # "Acknowledge"
              /\ \A m \in toS[c] : m.kind = "Identify" => m \in toS'[c]
              /\ \A m \in toR'[c] : m \in toR[c] \/ m.kind # "Data" \/ sEnd[c] \in {"open", "active"}
              /\ \A m \in toR[c] : m.kind = "Identify" => m \in toR'[c]
    PROVE  ConnInv'
  BY DEF ConnInv, LastSendIsActive, NoStalledPacket, IdentifyFirst, Active

\* A packet that is queued is flushed (f_QueuePacket), on active connections only.
LEMMA QueueConnStep ==
    ASSUME TypeOK, ConnInv,
           \/ \E p \in Prio : QueuePacket(p) \/ ReceiverQueuesPacket(p)
           \/ FlushSendPacketQueue
    PROVE  ConnInv'
  <1>1. ASSUME NEW p \in Prio, QueuePacket(p)
        PROVE  ConnInv'
    BY <1>1, QuietStep DEF QueuePacket, rVars
  <1>2. ASSUME NEW p \in Prio, ReceiverQueuesPacket(p)
        PROVE  ConnInv'
    BY <1>2, QuietStep DEF ReceiverQueuesPacket, sVars
  <1>3. CASE FlushSendPacketQueue
    <2>1. /\ UNCHANGED <<sEnd, rEnd, toS>>
          /\ lastSend' = lastSend \/ lastSend' \in Active(sEnd)
          /\ Active(sEnd) = {} \/ outgoing' = {}
          /\ \A c \in Conn : toR[c] \subseteq toR'[c]
          /\ \A c \in Conn : \A m \in toR'[c] : m \in toR[c] \/ c \in Active(sEnd)
      BY <1>3, SendPacketQueueSends DEF FlushSendPacketQueue, TypeOK, Active, rVars
    <2>2. QED
      BY <2>1 DEF ConnInv, LastSendIsActive, NoStalledPacket, IdentifyFirst, Active
  <1>4. QED
    BY <1>1, <1>2, <1>3

\* An end that opens sends its Identify; the socket it had before left nothing.
LEMMA OpensConnStep ==
    ASSUME TypeOK, ConnInv, NEW c \in Conn, Opens(c)
    PROVE  ConnInv'
  <1>1. Hello.kind = "Identify" /\ Identify(MyReport).kind = "Identify"
    BY DEF Hello, Identify
  <1>2. CASE SenderOpens(c)
    <2>1. /\ UNCHANGED <<outgoing, flush, lastSend>>
          /\ sEnd[c] \in {"down", "pending"} /\ sEnd' = [sEnd EXCEPT ![c] = "open"]
          /\ \A d \in Conn \ {c} : rEnd'[d] = rEnd[d] /\ toR'[d] = toR[d] /\ toS'[d] = toS[d]
      BY <1>2 DEF SenderOpens, Fresh, TypeOK
    <2>2. LastSendIsActive' /\ NoStalledPacket'
      BY <2>1 DEF TypeOK, ConnInv, LastSendIsActive, NoStalledPacket, Active
    <2>3. Hello \in toR'[c]
      BY <1>2 DEF SenderOpens, Fresh, TypeOK
    <2>4. \/ rEnd'[c] = "pending" /\ toS'[c] = {}
          \/ sEnd[c] = "pending" /\ rEnd'[c] = rEnd[c] /\ toS'[c] = toS[c]
      BY <1>2 DEF SenderOpens, Fresh, TypeOK
    <2>5. IdentifyFirst'
      BY <1>1, <2>1, <2>3, <2>4 DEF TypeOK, ConnInv, IdentifyFirst
    <2>6. QED
      BY <2>2, <2>5 DEF ConnInv
  <1>3. CASE ReceiverOpens(c)
    <2>1. /\ UNCHANGED <<outgoing, flush, lastSend>>
          /\ rEnd[c] \in {"down", "pending"} /\ rEnd' = [rEnd EXCEPT ![c] = "open"]
          /\ \A d \in Conn \ {c} : sEnd'[d] = sEnd[d] /\ toR'[d] = toR[d] /\ toS'[d] = toS[d]
      BY <1>3 DEF ReceiverOpens, Fresh, TypeOK
    <2>2. Identify(MyReport) \in toS'[c]
      BY <1>3 DEF ReceiverOpens, Fresh, TypeOK
    <2>3. \/ sEnd[c] = "down" /\ sEnd'[c] = "pending" /\ toR'[c] = {}
          \/ rEnd[c] = "pending" /\ sEnd'[c] = sEnd[c] /\ toR'[c] = toR[c]
      BY <1>3 DEF ReceiverOpens, Fresh, TypeOK
    <2>4. LastSendIsActive' /\ NoStalledPacket'
      BY <2>1, <2>3 DEF TypeOK, ConnInv, LastSendIsActive, NoStalledPacket, Active
    <2>5. IdentifyFirst'
      BY <1>1, <2>1, <2>2, <2>3 DEF TypeOK, ConnInv, IdentifyFirst
    <2>6. QED
      BY <2>4, <2>5 DEF ConnInv
  <1>4. QED
    BY <1>2, <1>3 DEF Opens

\* An end that goes down takes its messages and m_pLastSendConnection with it.
LEMMA LosesConnStep ==
    ASSUME TypeOK, ConnInv, NEW c \in Conn, SenderLoses(c) \/ ReceiverLoses(c)
    PROVE  ConnInv'
  <1>1. CASE SenderLoses(c)
    <2>1. /\ UNCHANGED <<outgoing, flush, rEnd>>
          /\ sEnd' = [sEnd EXCEPT ![c] = "down"]
          /\ lastSend' = IF lastSend = c THEN NoConn ELSE lastSend
          /\ toS' = [toS EXCEPT ![c] = {}]
      BY <1>1 DEF SenderLoses, SenderReset, LastSendWithout, rVars
    <2>2. \A d \in Conn : toR[d] \subseteq toR'[d] /\ \A m \in toR'[d] : m \in toR[d] \/ m.kind # "Data"
      <3>1. Lost(lostSent + 1).kind # "Data"
        BY DEF Lost
      <3>2. CASE toR' = toR
        BY <3>2
      <3>3. CASE toR' = [d \in Conn |-> IF d \in Active(sEnd) \ {c}
                                        THEN toR[d] \cup {Lost(lostSent + 1)} ELSE toR[d]]
        BY <3>1, <3>3
      <3>4. QED
        BY <1>1, <3>2, <3>3 DEF SenderLoses, SenderReset
    <2>3. LastSendIsActive' /\ NoStalledPacket'
      BY <2>1 DEF TypeOK, ConnInv, LastSendIsActive, NoStalledPacket, Active
    <2>4. IdentifyFirst'
      BY <2>1, <2>2 DEF TypeOK, ConnInv, IdentifyFirst
    <2>5. QED
      BY <2>3, <2>4 DEF ConnInv
  <1>2. CASE ReceiverLoses(c)
    <2>1. /\ UNCHANGED <<outgoing, flush, lastSend, sEnd, toS>>
          /\ rEnd' = [rEnd EXCEPT ![c] = "down"] /\ toR' = [toR EXCEPT ![c] = {}]
      BY <1>2 DEF ReceiverLoses, ReceiverReset, sVars
    <2>2. QED
      BY <2>1 DEF TypeOK, ConnInv, LastSendIsActive, NoStalledPacket, IdentifyFirst, Active
  <1>3. QED
    BY <1>1, <1>2

\* The receiver acknowledges on connections that are active on its side only.
LEMMA ReceiverConnStep ==
    ASSUME TypeOK, ConnInv, NEW c \in Conn, NEW m \in toR[c], CanHandle(toR[c], m),
           \/ ReceiveData(c, m) \/ ReceiveDataFails(c, m)
           \/ ReceiverIdentified(c, m) \/ ReceiveLost(c, m)
    PROVE  ConnInv'
  <1>1. CASE ReceiveData(c, m)
    <2>1. /\ UNCHANGED <<outgoing, flush, lastSend, sEnd, rEnd>>
          /\ m.kind = "Data" /\ toR' = [toR EXCEPT ![c] = @ \ {m}]
      BY <1>1 DEF ReceiveData, sVars
    <2>2. \/ toS' = toS
          \/ rEnd[c] = "active" /\ \E a : toS' = [toS EXCEPT ![c] = @ \cup {a}]
      BY <1>1 DEF ReceiveData, Process
    <2>3. QED
      BY <2>1, <2>2 DEF TypeOK, ConnInv, LastSendIsActive, NoStalledPacket, IdentifyFirst, Active
  <1>2. CASE ReceiveDataFails(c, m)
    <2>1. /\ UNCHANGED <<outgoing, flush, lastSend, sEnd, toS>>
          /\ rEnd' = [rEnd EXCEPT ![c] = "down"] /\ toR' = [toR EXCEPT ![c] = {}]
      BY <1>2 DEF ReceiveDataFails, ReceiverReset, sVars
    <2>2. QED
      BY <2>1 DEF TypeOK, ConnInv, LastSendIsActive, NoStalledPacket, IdentifyFirst, Active
  <1>3. CASE ReceiverIdentified(c, m)
    <2>1. /\ UNCHANGED <<outgoing, flush, lastSend, sEnd>>
          /\ rEnd[c] = "open" /\ rEnd' = [rEnd EXCEPT ![c] = "active"]
          /\ toR' = [toR EXCEPT ![c] = @ \ {m}]
          /\ \E S : toS' = [toS EXCEPT ![c] = @ \cup S]
      BY <1>3 DEF ReceiverIdentified, sVars
    <2>2. QED
      BY <2>1 DEF TypeOK, ConnInv, LastSendIsActive, NoStalledPacket, IdentifyFirst, Active
  <1>4. CASE ReceiveLost(c, m)
    <2>1. /\ UNCHANGED <<outgoing, flush, lastSend, sEnd, rEnd>>
          /\ m.kind = "NotifyConnectionLost" /\ toR' = [toR EXCEPT ![c] = @ \ {m}]
          /\ toS' = toS \/ toS' = [toS EXCEPT ![c] = @ \cup {Missing(MyReport)}]
      BY <1>4 DEF ReceiveLost, sVars
    <2>2. Missing(MyReport).kind # "Acknowledge"
      BY DEF Missing
    <2>3. QED
      BY <2>1, <2>2 DEF TypeOK, ConnInv, LastSendIsActive, NoStalledPacket, IdentifyFirst, Active
  <1>5. QED
    BY <1>1, <1>2, <1>3, <1>4

\* The sender answers on connections that are open on its side only, and sends
\* what waits as soon as one of them becomes active.
LEMMA SenderConnStep ==
    ASSUME TypeOK, ConnInv, NEW c \in Conn, NEW m \in toS[c],
           SenderIdentified(c, m) \/ ReceiveAck(c, m) \/ ReceiveRequest(c, m)
    PROVE  ConnInv'
  <1>1. CASE SenderIdentified(c, m)
    <2> DEFINE kept == Unacked(m.report)
               again == Wanted(kept, m.report) \cup NeverSeen(kept, m.report)
               chan == [toR EXCEPT ![c] = @ \cup {Data(pk) : pk \in again}]
    <2>1. /\ UNCHANGED <<flush, rEnd>> /\ sEnd[c] = "open"
          /\ sEnd' = [sEnd EXCEPT ![c] = "active"]
          /\ toS' = [toS EXCEPT ![c] = @ \ {m}]
          /\ SendPacketQueue(Active(sEnd) \cup {c}, chan, kept)
      BY <1>1 DEF SenderIdentified, rVars
    <2>2. \A pk \in again : Data(pk) \in ToReceiver
      BY DEF TypeOK, Unacked, Wanted, NeverSeen, Data, ToReceiver
    <2>3. /\ chan \in [Conn -> SUBSET ToReceiver] /\ toR[c] \subseteq chan[c]
          /\ \A d \in Conn \ {c} : chan[d] = toR[d]
      <3> HIDE DEF again
      <3>1. QED
        BY <2>2 DEF TypeOK
    <2> HIDE DEF kept, again, chan
    <2>4. /\ lastSend' = lastSend \/ lastSend' \in Active(sEnd) \cup {c}
          /\ outgoing' = {}
          /\ \A d \in Conn : chan[d] \subseteq toR'[d]
          /\ \A d \in Conn : \A o \in toR'[d] : o \in chan[d] \/ d \in Active(sEnd) \cup {c}
      <3>1. Active(sEnd) \cup {c} \in SUBSET Conn
        BY DEF Active
      <3>2. QED
        BY <2>1, <2>3, <3>1, SendPacketQueueSends DEF TypeOK
    <2>5. LastSendIsActive' /\ NoStalledPacket'
      BY <2>1, <2>4 DEF TypeOK, ConnInv, LastSendIsActive, NoStalledPacket, Active
    <2>6. IdentifyFirst'
      BY <2>1, <2>3, <2>4 DEF TypeOK, ConnInv, IdentifyFirst, Active
    <2>7. QED
      BY <2>5, <2>6 DEF ConnInv
  <1>2. CASE ReceiveAck(c, m)
    <2>1. /\ UNCHANGED <<outgoing, flush, lastSend, sEnd, rEnd, toR>>
          /\ m.kind = "Acknowledge" /\ toS' = [toS EXCEPT ![c] = @ \ {m}]
      BY <1>2 DEF ReceiveAck, rVars
    <2>2. QED
      BY <2>1, QuietStep DEF TypeOK
  <1>3. CASE ReceiveRequest(c, m)
    <2>1. /\ UNCHANGED <<outgoing, flush, lastSend, sEnd, rEnd>>
          /\ sEnd[c] \in {"open", "active"}
          /\ m.kind = "RequestMissingPackets" /\ toS' = [toS EXCEPT ![c] = @ \ {m}]
          /\ \E S : toR' = [toR EXCEPT ![c] = @ \cup S]
      BY <1>3 DEF ReceiveRequest, sVars, rVars
    <2>2. QED
      BY <2>1, QuietStep DEF TypeOK
  <1>4. QED
    BY <1>1, <1>2, <1>3

\* Every step keeps the invariant of the connections.
LEMMA NextConnInv ==
    ASSUME TypeOK, ConnInv, [Next]_vars
    PROVE  ConnInv'
  <1>1. CASE \E p \in Prio : QueuePacket(p) \/ ReceiverQueuesPacket(p)
    BY <1>1, QueueConnStep
  <1>2. CASE FlushSendPacketQueue
    BY <1>2, QueueConnStep
  <1>3. CASE \E c \in Conn : Opens(c) \/ SenderLoses(c) \/ ReceiverLoses(c)
    BY <1>3, OpensConnStep, LosesConnStep
  <1>4. CASE \E c \in Conn : ReceiverHandles(c) \/ HandlerFails(c)
    BY <1>4, ReceiverConnStep DEF ReceiverHandles, HandlerFails
  <1>5. CASE \E c \in Conn : SenderHandles(c)
    BY <1>5, SenderConnStep DEF SenderHandles
  <1>6. CASE UNCHANGED vars
    BY <1>6, QuietStep DEF vars, packetVars, sVars, rVars
  <1>7. QED
    BY <1>1, <1>2, <1>3, <1>4, <1>5, <1>6 DEF Next

\* Spec => []ConnInv, from which the next theorems follow.
THEOREM ConnInvariance == Spec => []ConnInv
  BY InitConnInv, NextConnInv, TypeCorrect, PTL DEF Spec

\* The connection packets were last sent on is one of the active ones.
THEOREM NoDanglingSend == Spec => []LastSendIsActive
  BY ConnInvariance, PTL DEF ConnInv

\* Packets wait for a connection or for a flush that is on its way.
THEOREM NoPacketStalls == Spec => []NoStalledPacket
  BY ConnInvariance, PTL DEF ConnInv

\* An end that is not identified yet finds the Identify before any acknowledgement.
THEOREM AcksAfterIdentify == Spec => []NoEarlyAck
  <1>1. ConnInv => NoEarlyAck
    BY DEF ConnInv, IdentifyFirst, NoEarlyAck
  <1>2. QED
    BY <1>1, ConnInvariance, PTL

\* When no handler fails, a step that buffers a packet or makes a connection
\* active processes what is in order (fp_QueueIncomingPacket).
LEMMA NextNoStalledArrival ==
    ASSUME TypeOK, IdentifyFirst, NoStalledArrival, [Next]_vars
    PROVE  NoStalledArrival'
  <1>a. UNCHANGED mayReject
    BY DEF Next, vars
  <1> SUFFICES ASSUME ~mayReject, \A pk \in incoming : pk.id = nextIn[pk.prio] => Active(rEnd) = {}
               PROVE  NoStalledArrival'
    BY <1>a DEF NoStalledArrival
  <1>1. CASE UNCHANGED <<nextIn, incoming>> /\ Active(rEnd)' \subseteq Active(rEnd)
    BY <1>1 DEF NoStalledArrival
  <1>2. ASSUME NEW c \in Conn, NEW m \in toR[c], CanHandle(toR[c], m), ReceiveData(c, m)
        PROVE  NoStalledArrival'
    <2> DEFINE pk == m.pkt
               p == pk.prio
               held == IF pk.id < nextIn[p] THEN incoming ELSE incoming \cup {pk}
    <2>1. m.kind = "Data" /\ rEnd[c] = "active" /\ rEnd' = rEnd
      BY <1>2 DEF ReceiveData, CanHandle, IdentifyFirst
    <2>2. incoming' = {q \in held : q.id >= nextIn'[q.prio]}
      BY <1>2 DEF ReceiveData, Handles, Unprocessed
    <2>3. CASE held = incoming
      BY <1>1, <1>2, <2>1, <2>2, <2>3 DEF ReceiveData, NoStalledArrival
    <2>4. CASE held # incoming
      <3>1. PICK n \in nextIn[p]..(MaxId + 1) :
                IsFirstGap(p, n, held) /\ nextIn' = [nextIn EXCEPT ![p] = n]
        BY <1>2, <2>1, <2>4 DEF ReceiveData, Process
      <3>2. pk \in Packet /\ p \in Prio
        BY <2>1 DEF TypeOK, ToReceiver, Packet
      <3>3. [prio |-> p, id |-> n] \notin held /\ nextIn'[p] = n
        BY <3>1, <3>2 DEF IsFirstGap, TypeOK
      <3> HIDE DEF p, pk
      <3>4. \A q \in incoming' : q.prio # p => q \in incoming /\ nextIn'[q.prio] = nextIn[q.prio]
        BY <2>2, <3>1, <3>2 DEF TypeOK, Packet, p
      <3>5. \A q \in incoming' : q.prio = p => q.id # nextIn'[p]
        BY <2>2, <3>2, <3>3 DEF TypeOK, Packet
      <3>6. QED
        BY <2>1, <3>4, <3>5 DEF NoStalledArrival
    <2>5. QED
      BY <2>3, <2>4
  <1>3. ASSUME NEW c \in Conn, NEW m \in toR[c], ReceiverIdentified(c, m)
        PROVE  NoStalledArrival'
    <2>1. \A p \in Prio : [prio |-> p, id |-> nextIn'[p]] \notin incoming
      BY <1>3 DEF ReceiverIdentified, IsFirstGap
    <2>2. incoming' \subseteq incoming
      BY <1>3 DEF ReceiverIdentified, Handles, Unprocessed
    <2>3. \A q \in incoming' : q.id # nextIn'[q.prio]
      BY <2>1, <2>2 DEF TypeOK, Packet
    <2>4. QED
      BY <2>3 DEF NoStalledArrival
  <1>4. CASE \E c \in Conn : HandlerFails(c)
    BY <1>4 DEF HandlerFails, ReceiveDataFails
  <1>5. CASE \E c \in Conn : Opens(c) \/ SenderLoses(c) \/ ReceiverLoses(c)
    <2>1. UNCHANGED <<nextIn, incoming>> /\ \A d \in Conn : rEnd'[d] = "active" => rEnd[d] = "active"
      BY <1>5 DEF Opens, SenderOpens, ReceiverOpens, SenderLoses, ReceiverLoses, SenderReset,
                  ReceiverReset, sVars, rVars, TypeOK
    <2>2. QED
      BY <1>1, <2>1 DEF Active
  <1>6. CASE \E c \in Conn : SenderHandles(c)
    BY <1>1, <1>6 DEF SenderHandles, SenderIdentified, ReceiveAck, ReceiveRequest, rVars, Active
  <1>7. CASE FlushSendPacketQueue \/ \E p \in Prio : QueuePacket(p) \/ ReceiverQueuesPacket(p)
    BY <1>1, <1>7 DEF FlushSendPacketQueue, QueuePacket, ReceiverQueuesPacket, sVars, rVars, Active
  <1>8. ASSUME NEW c \in Conn, NEW m \in toR[c], ReceiveLost(c, m)
        PROVE  NoStalledArrival'
    BY <1>1, <1>8 DEF ReceiveLost, sVars, Active
  <1>9. CASE UNCHANGED vars
    BY <1>1, <1>9 DEF vars, packetVars, sVars, rVars, Active
  <1>10. QED
    BY <1>2, <1>3, <1>4, <1>5, <1>6, <1>7, <1>8, <1>9 DEF Next, ReceiverHandles

\* However connections are lost and made again, a packet whose turn it is does not
\* wait for another message beside a connection that is active, unless handlers may
\* reject packets (fp_ProcessPacketQueue).
THEOREM NoArrivalStalls == Spec => []NoStalledArrival
  <1>1. Init => NoStalledArrival
    BY DEF Init, NoStalledArrival
  <1>2. TypeOK /\ ConnInv /\ NoStalledArrival /\ [Next]_vars => NoStalledArrival'
    BY NextNoStalledArrival DEF ConnInv
  <1>3. QED
    BY <1>1, <1>2, TypeCorrect, ConnInvariance, PTL DEF Spec
=============================================================================
