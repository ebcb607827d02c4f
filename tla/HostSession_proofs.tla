------------------------ MODULE HostSession_proofs -------------------------
(***************************************************************************)
(* For any number of restarts, packets and failures of one connection: the  *)
(* sessions of two hosts pair up, a host never returns to a peer that is    *)
(* gone, and one that goes on loses no packet to the restarts of the other. *)
(***************************************************************************)
EXTENDS HostSession, TLAPS

\* Over two connections an Identify message that was overtaken is accepted.
OneConnection == \A c, d \in Conn : c = d

Idents(S) == {m \in S : m.kind = "Identify"}
Packets(S) == {m \in S : m.kind = "Data"}
Acks(S) == {m \in S : m.kind = "Acknowledge"}

\* What the messages in flight are made of.
Shapes ==
    /\ DOMAIN chan = Host /\ DOMAIN incoming = Host /\ DOMAIN done = Host
    /\ \A h \in Host : DOMAIN chan[h] = Conn
    /\ \A h \in Host, c \in Conn :
          /\ \A m \in Idents(chan[h][c]) : m.exec \in 1..MaxExec /\ m.report.acked \in Nat
          /\ \A m \in Packets(chan[h][c]) : m.id \in 1..MaxId /\ m.from \in Nat
          /\ \A m \in Acks(chan[h][c]) : m.id \in Nat

\* A host knows only objects its peer did make, and one without an object, or
\* that has not identified its peer yet, has nothing of a session.
Objects ==
    \A h \in Host :
        /\ exec[h] \in {NoExec, made[h]}
        /\ lastExec[h] <= made[Peer(h)]
        /\ exec[h] = NoExec => lastExec[h] = NoExec
        /\ lastExec[h] = NoExec => curOut[h] = 0 /\ incoming[h] = {} /\ nextIn[h] = 1
        /\ \A c \in Conn :
              /\ end[h][c] \in {"open", "active"} => exec[h] # NoExec
              /\ end[h][c] = "active" => lastExec[h] = made[Peer(h)] /\ lastExec[h] # NoExec
        /\ h \notin Restarting => exec[h] = made[h] /\ made[h] <= 1

\* An end that waits to be attached has sent nothing, one that waits to be
\* identified no packet, and there is an Identify message for the latter if
\* the other end is attached.
Handshake ==
    \A h \in Host, c \in Conn :
        LET o == Peer(h) IN
        /\ end[h][c] = "pending" => /\ chan[o][c] = {} /\ end[o][c] \in {"down", "open"}
                                    /\ Idents(chan[h][c]) # {} /\ Packets(chan[h][c]) = {}
        /\ end[h][c] = "open" => Packets(chan[o][c]) = {}
        /\ end[h][c] = "open" /\ Idents(chan[h][c]) = {} =>
              Packets(chan[h][c]) = {} /\ end[o][c] \in {"down", "pending"}

\* Identify messages are of the newest object of their sender, packets of its
\* present session, in which it knows the receiver's object.
OnTheWire ==
    \A h \in Host, c \in Conn :
        LET o == Peer(h) IN
        /\ \A m \in Idents(chan[h][c]) : m.exec = made[o]
        /\ \A m \in Packets(chan[h][c]) : m.from = session[o]
        /\ Packets(chan[h][c]) # {} /\ end[h][c] \in {"open", "active"} /\ exec[o] # NoExec =>
              lastExec[o] = exec[h]

\* The session of host h once both hosts have identified each other's present
\* object, or the next one if an object is gone.
Upcoming(h) ==
    IF exec[h] = NoExec \/ lastExec[h] \notin {NoExec, exec[Peer(h)]}
    THEN session[h] + 1 ELSE session[h]

\* What host h processed in its present session is what its peer queued in its own.
Settled(h) == \A x \in done[h] : (x.mine = session[h]) = (x.from = session[Peer(h)])

\* The upcoming sessions pair: nothing of them was processed with another one.
Paired ==
    \A h \in Host : \A x \in done[h] :
        LET o == Peer(h) IN
        /\ x.mine \in Nat /\ x.from \in Nat
        /\ x.mine <= session[h] /\ x.from <= session[o]
        /\ (x.mine = Upcoming(h)) = (x.from = Upcoming(o))
        /\ exec[h] # NoExec /\ lastExec[h] = NoExec => x.mine # session[h]
        /\ exec[o] # NoExec /\ lastExec[o] = NoExec => x.from # session[o]

\* So does what is buffered, unless it is dropped when the peer identifies itself.
BufferPairs ==
    \A h \in Host :
        LET o == Peer(h) IN
        incoming[h] # {} /\ lastExec[h] = made[o] =>
            /\ Settled(h)
            /\ \A pk \in incoming[h] : pk.from = session[o]
            /\ exec[o] # NoExec => lastExec[o] = exec[h]

\* And what is in flight, once the Identify message before it is handled.
WirePairs ==
    \A h \in Host, c \in Conn :
        LET o == Peer(h) IN
        Packets(chan[h][c]) # {} =>
            /\ end[h][c] = "active" => Settled(h)
            /\ end[h][c] = "open" =>
                  IF ShouldReset(h, made[o]) THEN \A x \in done[h] : x.from # session[o]
                                             ELSE Settled(h)

\* A host that goes on keeps what its peer's present object has not processed,
\* and nothing that object sent acknowledges more than it has.
Covered ==
    \A h \in Host \ Restarting :
        LET o == Peer(h) IN
        exec[o] # NoExec =>
            /\ \A c \in Conn : /\ \A m \in Acks(chan[h][c]) : m.id < nextIn[o]
                               /\ \A m \in Idents(chan[h][c]) : m.report.acked < nextIn[o]
            /\ lastExec[h] = exec[o] => Keeps(h)

\* The inductive invariant.  The sessions pair only because an Identify message
\* in flight is always of the newest object, and no packet is before it.
IInv == /\ TypeOK /\ Shapes
        /\ Objects /\ Handshake /\ OnTheWire
        /\ Paired /\ BufferPairs /\ WirePairs /\ SessionsPair
        /\ Covered

-----------------------------------------------------------------------------
\* There are two hosts.
LEMMA Peers ==
    ASSUME NEW h \in Host
    PROVE  /\ Peer(h) \in Host /\ Peer(h) # h /\ Peer(Peer(h)) = h
           /\ \A k \in Host : k = h \/ k = Peer(h)
  BY HostSessionAssumption DEF HostSessionAssumption, Peer

LEMMA InitIInv == Init => IInv
  <1> SUFFICES ASSUME Init PROVE IInv
    OBVIOUS
  <1>1. TypeOK
    BY HostSessionAssumption DEF HostSessionAssumption, Init, TypeOK, EndState, NoExec
  <1>2. /\ \A h \in Host : DOMAIN chan[h] = Conn /\ Peer(h) \in Host
        /\ \A h \in Host, c \in Conn : chan[h][c] = {} /\ end[h][c] = "down"
    BY Peers DEF Init
  <1>3. Shapes /\ Handshake /\ OnTheWire
    BY <1>2 DEF Init, Shapes, Handshake, OnTheWire, Idents, Packets, Acks
  <1>4. Objects
    <2>1. \A h \in Host : /\ exec[h] = 0 /\ lastExec[h] = 0 /\ made[h] = 0
                          /\ curOut[h] = 0 /\ incoming[h] = {} /\ nextIn[h] = 1
      BY DEF Init, NoExec
    <2>2. ASSUME NEW h \in Host
          PROVE  /\ exec[h] \in {NoExec, made[h]}
                 /\ lastExec[h] <= made[Peer(h)]
                 /\ made[h] <= 1
      BY <1>2, <2>1 DEF NoExec
    <2>4. ASSUME NEW h \in Host, NEW c \in Conn
          PROVE  /\ end[h][c] \notin {"open", "active"}
                 /\ end[h][c] # "active"
      BY <1>2, <2>1 DEF NoExec
    <2>3. QED
      BY <2>1, <2>2, <2>4 DEF Objects, NoExec
  <1>5. Paired /\ BufferPairs /\ WirePairs /\ SessionsPair
    BY <1>2 DEF Init, Paired, BufferPairs, WirePairs, SessionsPair, Packets
  <1>6. Covered
    BY <1>2 DEF Init, Covered, NoExec
  <1>7. QED
    BY <1>1, <1>3, <1>4, <1>5, <1>6 DEF IInv

-----------------------------------------------------------------------------
(* Steps that leave the sessions alone *)

\* The other end of an active connection knows the object this one has, and
\* what they processed of each other pairs, or will after the Identify message.
ActivePairs ==
    TypeOK /\ Objects /\ Paired =>
        \A k \in Host, c \in Conn :
            LET h == Peer(k) IN
            end[k][c] = "active" =>
                /\ end[h][c] \in {"open", "active"} => lastExec[k] = exec[h]
                /\ end[h][c] = "active" => Settled(h)
                /\ end[h][c] = "open" =>
                      IF ShouldReset(h, made[k]) THEN \A x \in done[h] : x.from # session[k]
                                                 ELSE Settled(h)

LEMMA ActiveIsPaired == ActivePairs
  <1> SUFFICES ASSUME TypeOK, Objects, Paired, NEW k \in Host, NEW c \in Conn, end[k][c] = "active",
                      end[Peer(k)][c] \in {"open", "active"}
               PROVE  LET h == Peer(k) IN
                      /\ lastExec[k] = exec[h]
                      /\ end[h][c] = "active" => Settled(h)
                      /\ end[h][c] = "open" =>
                            IF ShouldReset(h, made[k]) THEN \A x \in done[h] : x.from # session[k]
                                                       ELSE Settled(h)
    BY DEF ActivePairs
  <1> DEFINE h == Peer(k)
  <1>1. h \in Host /\ Peer(h) = k
    BY Peers
  <1>2. /\ exec[k] = made[k] /\ exec[k] # NoExec /\ exec[h] = made[h] /\ exec[h] # NoExec
        /\ lastExec[k] = exec[h]
    BY <1>1 DEF Objects
  <1>3. Upcoming(k) = session[k]
    BY <1>1, <1>2 DEF Upcoming
  <1>4. ASSUME lastExec[h] \in {NoExec, made[k]} PROVE Settled(h)
    <2>1. Upcoming(h) = session[h]
      BY <1>1, <1>2, <1>4 DEF Upcoming
    <2>2. QED
      BY <1>1, <1>3, <2>1 DEF Paired, Settled
  <1>5. ASSUME ShouldReset(h, made[k]), NEW x \in done[h] PROVE x.from # session[k]
    <2>1. Upcoming(h) = session[h] + 1
      BY <1>1, <1>2, <1>5 DEF Upcoming, ShouldReset
    <2>2. session[h] \in Nat
      BY <1>1 DEF TypeOK
    <2>3. QED
      BY <1>1, <1>3, <2>1, <2>2 DEF Paired
  <1>6. end[h][c] = "active" => lastExec[h] = made[k]
    BY <1>1 DEF Objects
  <1>7. QED
    BY <1>2, <1>4, <1>5, <1>6 DEF ShouldReset

\* What a step cannot disturb that makes no object, starts no session and
\* handles no message.
LEMMA SameSessions ==
    ASSUME IInv, UNCHANGED <<exec, lastExec, nextIn, incoming, end, chan, made, session, done>>
    PROVE  /\ Shapes' /\ Handshake' /\ OnTheWire'
           /\ Paired' /\ BufferPairs' /\ WirePairs' /\ SessionsPair'
  <1>1. Shapes' /\ Handshake' /\ OnTheWire'
    BY DEF IInv, Shapes, Handshake, OnTheWire, Idents, Packets, Acks
  <1>2. Paired' /\ BufferPairs' /\ SessionsPair'
    BY DEF IInv, Paired, BufferPairs, SessionsPair, Upcoming, Settled
  <1>3. WirePairs'
    BY DEF IInv, WirePairs, Packets, Settled, ShouldReset
  <1>4. QED
    BY <1>1, <1>2, <1>3

\* A packet is queued.
LEMMA QueuePacketStep ==
    ASSUME IInv, NEW k \in Host, QueuePacket(k)
    PROVE  IInv'
  <1>1. TypeOK /\ Objects /\ Covered
    BY DEF IInv
  <1>2. Shapes' /\ Handshake' /\ OnTheWire' /\ Paired' /\ BufferPairs' /\ WirePairs' /\ SessionsPair'
    BY SameSessions DEF QueuePacket
  <1>3. /\ curOut[k] + 1 \in 1..MaxId
        /\ \A h \in Host : /\ curOut'[h] = IF h = k THEN curOut[k] + 1 ELSE curOut[h]
                           /\ outgoing'[h] = IF h = k THEN outgoing[k] \cup {curOut[k] + 1} ELSE outgoing[h]
    BY <1>1, HostSessionAssumption DEF HostSessionAssumption, TypeOK, QueuePacket
  <1>4. TypeOK'
    BY <1>1, <1>3 DEF TypeOK, QueuePacket
  <1>5. Objects'
    BY <1>1, <1>3 DEF Objects, QueuePacket
  <1>6. Covered'
    <2>1. ASSUME NEW h \in Host, Keeps(h) PROVE Keeps(h)'
      <3>1. Peer(h) \in Host /\ curOut[h] \in Nat /\ nextIn[Peer(h)] \in Nat
        BY <1>1, Peers, HostSessionAssumption DEF HostSessionAssumption, TypeOK
      <3>2. \A i \in nextIn[Peer(h)]..curOut'[h] : i \in nextIn[Peer(h)]..curOut[h] \/ (h = k /\ i = curOut[k] + 1)
        BY <1>3, <3>1
      <3>3. QED
        BY <1>1, <1>3, <2>1, <3>2 DEF TypeOK, QueuePacket, Keeps
    <2>2. QED
      BY <1>1, <2>1 DEF Covered, QueuePacket, Acks, Idents
  <1>7. QED
    BY <1>2, <1>4, <1>5, <1>6 DEF IInv

\* A connection is lost.
LEMMA LosesStep ==
    ASSUME IInv, NEW k \in Host, NEW c \in Conn, Loses(k, c)
    PROVE  IInv'
  <1>1. TypeOK /\ Shapes /\ Objects /\ Handshake /\ OnTheWire /\ WirePairs /\ Covered
    BY DEF IInv
  <1>2. /\ \A h \in Host, d \in Conn : end'[h][d] = IF h = k /\ d = c THEN "down" ELSE end[h][d]
        /\ end' \in [Host -> [Conn -> EndState]]
    BY <1>1 DEF TypeOK, Loses, EndState
  <1>3. TypeOK'
    BY <1>1, <1>2, HostSessionAssumption DEF HostSessionAssumption, TypeOK, Loses
  <1>4. Shapes' /\ Objects' /\ Covered'
    BY <1>1, <1>2 DEF Shapes, Objects, Covered, Keeps, Idents, Packets, Acks, Loses
  <1>5. Handshake'
    BY <1>1, <1>2, Peers DEF Handshake, Idents, Packets, Loses
  <1>6. OnTheWire'
    BY <1>1, <1>2 DEF OnTheWire, Idents, Packets, Loses
  <1>7. Paired' /\ BufferPairs' /\ SessionsPair'
    BY DEF IInv, Paired, BufferPairs, SessionsPair, Upcoming, Settled, Loses
  <1>8. WirePairs'
    BY <1>1, <1>2 DEF WirePairs, Packets, Settled, ShouldReset, Loses
  <1>9. QED
    BY <1>3, <1>4, <1>5, <1>6, <1>7, <1>8 DEF IInv

\* Packets of host k are spread over its active connections.
LEMMA SpreadIsData ==
    ASSUME NEW k, NEW ids, NEW act, NEW via
    PROVE  /\ DOMAIN Spread(k, ids, act, via) = Conn
           /\ \A d \in Conn : \A m \in Spread(k, ids, act, via)[d] :
                 d \in act /\ m.kind = "Data" /\ m.id \in ids /\ m.from = session[k]
  BY DEF Spread, Data

\* Host k sends the waiting packets.
LEMMA SendPacketQueueStep ==
    ASSUME IInv, NEW k \in Host, SendPacketQueue(k)
    PROVE  IInv'
  <1>0. /\ TypeOK /\ Shapes /\ Objects /\ Handshake /\ OnTheWire
        /\ Paired /\ BufferPairs /\ WirePairs /\ SessionsPair /\ Covered
    BY DEF IInv
  <1>1. PICK o \in Host : o # k /\ Peer(o) = k /\ Peer(k) = o /\ \A h \in Host : h = k \/ h = o
    BY Peers
  <1>2. /\ chan'[k] = chan[k] /\ DOMAIN chan' = Host /\ DOMAIN chan'[o] = Conn
        /\ \A d \in Conn : /\ chan[o][d] \subseteq chan'[o][d]
                           /\ \A m \in chan'[o][d] :
                                 \/ m \in chan[o][d]
                                 \/ end[k][d] = "active" /\ m.kind = "Data" /\ m.id \in outgoing[k] /\ m.from = session[k]
    BY <1>0, <1>1, SpreadIsData DEF Shapes, SendPacketQueue, Active
  <1>3. \A d \in Conn : end[k][d] = "active" \/ chan'[o][d] = chan[o][d]
    BY <1>2
  <1>4. ASSUME NEW d \in Conn
        PROVE  /\ Idents(chan'[o][d]) = Idents(chan[o][d]) /\ Acks(chan'[o][d]) = Acks(chan[o][d])
               /\ end[k][d] # "active" => Packets(chan'[o][d]) = Packets(chan[o][d])
    BY <1>2, <1>3 DEF Idents, Acks, Packets
  <1>a. ASSUME NEW d \in Conn, NEW m \in Packets(chan'[o][d])
        PROVE  m \in Packets(chan[o][d]) \/ (m.id \in outgoing[k] /\ m.from = session[k])
    BY <1>2 DEF Packets
  <1>5. /\ \A h \in Host : /\ outgoing'[h] \cup sent'[h] = outgoing[h] \cup sent[h]
                           /\ outgoing'[h] \subseteq 1..MaxId /\ sent'[h] \subseteq 1..MaxId
        /\ outgoing' \in [Host -> SUBSET (1..MaxId)] /\ sent' \in [Host -> SUBSET (1..MaxId)]
    BY <1>0 DEF TypeOK, SendPacketQueue
  <1>6. TypeOK'
    <2>1. ASSUME NEW h \in Host, NEW d \in Conn, NEW m \in chan'[h][d]
          PROVE  m.kind \in {"Identify", "Data", "Acknowledge"}
      <3>1. m \in chan[h][d] \/ m.kind = "Data"
        BY <1>1, <1>2, <2>1
      <3>2. m \in chan[h][d] => m.kind \in {"Identify", "Data", "Acknowledge"}
        BY <1>0 DEF TypeOK
      <3>3. QED
        BY <3>1, <3>2
    <2>2. QED
      BY <1>0, <1>5, <2>1 DEF TypeOK, SendPacketQueue
  <1>7. Shapes'
    <2>1. outgoing[k] \subseteq 1..MaxId /\ session[k] \in Nat
      BY <1>0 DEF TypeOK
    <2>2. \A h \in Host : DOMAIN chan'[h] = Conn
      BY <1>0, <1>1, <1>2 DEF Shapes
    <2>3. ASSUME NEW h \in Host, NEW d \in Conn
          PROVE  /\ \A m \in Idents(chan'[h][d]) : m.exec \in 1..MaxExec /\ m.report.acked \in Nat
                 /\ \A m \in Packets(chan'[h][d]) : m.id \in 1..MaxId /\ m.from \in Nat
                 /\ \A m \in Acks(chan'[h][d]) : m.id \in Nat
      <3>1. CASE h = k
        BY <1>0, <1>2, <3>1 DEF Shapes
      <3>2. CASE h = o
        <4>1. \A m \in Packets(chan'[o][d]) : m.id \in 1..MaxId /\ m.from \in Nat
          BY <1>0, <1>a, <2>1 DEF Shapes
        <4>2. QED
          BY <1>0, <1>4, <3>2, <4>1 DEF Shapes
      <3>3. QED
        BY <1>1, <3>1, <3>2
    <2>4. QED
      BY <1>0, <1>2, <2>2, <2>3 DEF Shapes, SendPacketQueue
  <1>8. Objects'
    BY <1>0 DEF Objects, SendPacketQueue
  <1>9. Handshake'
    <2>1. ASSUME NEW d \in Conn
          PROVE  end[k][d] # "active" => chan'[k][d] = chan[k][d] /\ chan'[o][d] = chan[o][d]
      BY <1>2, <1>3
    <2>2. end' = end
      BY DEF SendPacketQueue
    <2>3. ASSUME NEW d \in Conn
          PROVE  /\ end[k][d] = "pending" => /\ chan'[o][d] = {} /\ end[o][d] \in {"down", "open"}
                                             /\ Idents(chan'[k][d]) # {} /\ Packets(chan'[k][d]) = {}
                 /\ end[k][d] = "open" => Packets(chan'[o][d]) = {}
                 /\ end[k][d] = "open" /\ Idents(chan'[k][d]) = {} =>
                       Packets(chan'[k][d]) = {} /\ end[o][d] \in {"down", "pending"}
      BY <1>0, <1>1, <1>2, <1>4, <2>1 DEF Handshake
    <2>4. ASSUME NEW d \in Conn
          PROVE  /\ end[o][d] = "pending" => /\ chan'[k][d] = {} /\ end[k][d] \in {"down", "open"}
                                             /\ Idents(chan'[o][d]) # {} /\ Packets(chan'[o][d]) = {}
                 /\ end[o][d] = "open" => Packets(chan'[k][d]) = {}
                 /\ end[o][d] = "open" /\ Idents(chan'[o][d]) = {} =>
                       Packets(chan'[o][d]) = {} /\ end[k][d] \in {"down", "pending"}
      BY <1>0, <1>1, <1>2, <1>4 DEF Handshake
    <2>5. QED
      BY <1>1, <2>2, <2>3, <2>4 DEF Handshake
  <1>10. ActivePairs
    BY ActiveIsPaired
  <1>11. OnTheWire'
    <2>1. UNCHANGED <<exec, lastExec, end, made, session>>
      BY DEF SendPacketQueue
    <2>2. ASSUME NEW d \in Conn, Packets(chan'[o][d]) # Packets(chan[o][d]) PROVE end[k][d] = "active"
      BY <1>4, <2>2
    <2>3. ASSUME NEW d \in Conn
          PROVE  /\ \A m \in Idents(chan'[o][d]) : m.exec = made[k]
                 /\ \A m \in Packets(chan'[o][d]) : m.from = session[k]
                 /\ Packets(chan'[o][d]) # {} /\ end[o][d] \in {"open", "active"} /\ exec[k] # NoExec =>
                       lastExec[k] = exec[o]
      BY <1>0, <1>1, <1>4, <1>a, <1>10, <2>2 DEF OnTheWire, ActivePairs
    <2>4. QED
      BY <1>0, <1>1, <1>2, <2>1, <2>3 DEF OnTheWire
  <1>12. Paired' /\ BufferPairs' /\ SessionsPair'
    BY <1>0 DEF Paired, BufferPairs, SessionsPair, Upcoming, Settled, SendPacketQueue
  <1>13. WirePairs'
    <2>1. UNCHANGED <<lastExec, end, made, session, done>>
      BY DEF SendPacketQueue
    <2>2. ASSUME NEW d \in Conn, Packets(chan'[o][d]) # {}
          PROVE  /\ end[o][d] = "active" => Settled(o)
                 /\ end[o][d] = "open" =>
                       IF ShouldReset(o, made[k]) THEN \A x \in done[o] : x.from # session[k]
                                                  ELSE Settled(o)
      BY <1>0, <1>1, <1>4, <1>10, <2>2 DEF WirePairs, ActivePairs
    <2>3. QED
      BY <1>0, <1>1, <1>2, <2>1, <2>2 DEF WirePairs, Settled, ShouldReset
  <1>14. Covered'
    <2>1. \A h \in Host : Keeps(h) => Keeps(h)'
      BY <1>5 DEF Keeps, SendPacketQueue
    <2>2. \A h \in Host, d \in Conn : /\ Acks(chan'[h][d]) = Acks(chan[h][d])
                                      /\ Idents(chan'[h][d]) = Idents(chan[h][d])
      BY <1>1, <1>2, <1>4
    <2>3. QED
      BY <1>0, <2>1, <2>2 DEF Covered, SendPacketQueue
  <1>15. QED
    BY <1>6, <1>7, <1>8, <1>9, <1>11, <1>12, <1>13, <1>14 DEF IInv

-----------------------------------------------------------------------------
(* Objects and connections *)

\* The object of host k is gone with all it held (f_DestroyHost).
LEMMA DestroyHostStep ==
    ASSUME IInv, NEW k \in Host, DestroyHost(k)
    PROVE  IInv'
  <1>0. /\ TypeOK /\ Shapes /\ Objects /\ Handshake /\ OnTheWire
        /\ Paired /\ BufferPairs /\ WirePairs /\ SessionsPair /\ Covered
    BY DEF IInv
  <1>1. PICK o \in Host : o # k /\ Peer(o) = k /\ Peer(k) = o /\ \A h \in Host : h = k \/ h = o
    BY Peers
  <1>2. /\ exec'[k] = NoExec /\ lastExec'[k] = NoExec /\ curOut'[k] = 0
        /\ nextIn'[k] = 1 /\ incoming'[k] = {}
        /\ \A d \in Conn : end'[k][d] = "down"
        /\ exec'[o] = exec[o] /\ lastExec'[o] = lastExec[o] /\ curOut'[o] = curOut[o]
        /\ nextIn'[o] = nextIn[o] /\ incoming'[o] = incoming[o] /\ end'[o] = end[o]
        /\ outgoing'[o] = outgoing[o] /\ sent'[o] = sent[o]
        /\ UNCHANGED <<chan, made, session, done>> /\ DOMAIN incoming' = Host
        /\ k \in Restarting
    BY <1>0, <1>1 DEF TypeOK, Shapes, DestroyHost
  <1>3. TypeOK'
    <2>1. \A h \in Host : incoming'[h] \subseteq [id : 1..MaxId, from : Nat]
      BY <1>0, <1>1, <1>2 DEF TypeOK
    <2>2. QED
      BY <1>0, <2>1, HostSessionAssumption DEF HostSessionAssumption, TypeOK, DestroyHost, EndState, NoExec
  <1>4. Shapes'
    BY <1>0, <1>2 DEF Shapes
  <1>5. Objects'
    <2>1. made[o] \in Nat
      BY <1>0 DEF TypeOK
    <2>2. ASSUME NEW d \in Conn PROVE end'[k][d] \notin {"open", "active"}
      BY <1>2
    <2>3. QED
      BY <1>0, <1>1, <1>2, <2>1, <2>2 DEF Objects, NoExec
  <1>6. Handshake'
    <2>1. ASSUME NEW d \in Conn
          PROVE  /\ end[o][d] = "pending" => /\ chan[k][d] = {}
                                             /\ Idents(chan[o][d]) # {} /\ Packets(chan[o][d]) = {}
                 /\ end[o][d] = "open" => Packets(chan[k][d]) = {}
                 /\ end[o][d] = "open" /\ Idents(chan[o][d]) = {} => Packets(chan[o][d]) = {}
      BY <1>0, <1>1 DEF Handshake
    <2>2. ASSUME NEW h \in Host, NEW d \in Conn, NEW p \in Host, p = Peer(h)
          PROVE  /\ end'[h][d] = "pending" => /\ chan[p][d] = {} /\ end'[p][d] \in {"down", "open"}
                                              /\ Idents(chan[h][d]) # {} /\ Packets(chan[h][d]) = {}
                 /\ end'[h][d] = "open" => Packets(chan[p][d]) = {}
                 /\ end'[h][d] = "open" /\ Idents(chan[h][d]) = {} =>
                       Packets(chan[h][d]) = {} /\ end'[p][d] \in {"down", "pending"}
      <3>1. CASE h = k
        BY <1>2, <3>1
      <3>2. CASE h = o /\ p = k
        BY <1>2, <2>1, <3>2
      <3>3. QED
        BY <1>1, <2>2, <3>1, <3>2
    <2>3. \A h \in Host : Peer(h) \in Host
      BY <1>1
    <2>4. chan' = chan
      BY <1>2
    <2>5. QED
      BY ONLY <2>2, <2>3, <2>4 DEF Handshake, Idents, Packets
  <1>7. OnTheWire'
    <2>1. ASSUME NEW d \in Conn PROVE end'[k][d] \notin {"open", "active"}
      BY <1>2
    <2>2. QED
      BY <1>0, <1>1, <1>2, <2>1 DEF OnTheWire
  <1>8. Paired'
    <2>1. Upcoming(k)' = session[k] + 1
      BY <1>1, <1>2 DEF Upcoming
    <2>2. \/ Upcoming(o)' = session[o] + 1
          \/ Upcoming(o)' = session[o] /\ exec[o] # NoExec /\ lastExec[o] = NoExec
      BY <1>1, <1>2 DEF Upcoming
    <2>3. session[k] \in Nat /\ session[o] \in Nat
      BY <1>0 DEF TypeOK
    <2>4. ASSUME NEW x \in done[k]
          PROVE  /\ x.mine \in Nat /\ x.from \in Nat
                 /\ x.mine <= session[k] /\ x.from <= session[o]
                 /\ x.mine # session[k] + 1 /\ x.from # Upcoming(o)'
                 /\ exec[o] # NoExec /\ lastExec[o] = NoExec => x.from # session[o]
      BY <1>0, <1>1, <2>2, <2>3 DEF Paired
    <2>5. ASSUME NEW x \in done[o]
          PROVE  /\ x.mine \in Nat /\ x.from \in Nat
                 /\ x.mine <= session[o] /\ x.from <= session[k]
                 /\ x.mine # Upcoming(o)' /\ x.from # session[k] + 1
                 /\ exec[o] # NoExec /\ lastExec[o] = NoExec => x.mine # session[o]
      BY <1>0, <1>1, <2>2, <2>3 DEF Paired
    <2>6. QED
      BY <1>1, <1>2, <2>1, <2>4, <2>5 DEF Paired
  <1>9. BufferPairs'
    BY <1>0, <1>1, <1>2 DEF BufferPairs, Settled
  <1>10. WirePairs'
    <2>1. ASSUME NEW d \in Conn PROVE end'[k][d] \notin {"open", "active"}
      BY <1>2
    <2>2. ASSUME NEW d \in Conn, Packets(chan[o][d]) # {}
          PROVE  /\ end[o][d] = "active" => Settled(o)
                 /\ end[o][d] = "open" =>
                       IF ShouldReset(o, made[k]) THEN \A x \in done[o] : x.from # session[k]
                                                  ELSE Settled(o)
      BY <1>0, <1>1, <2>2 DEF WirePairs
    <2>3. QED
      BY <1>1, <1>2, <2>1, <2>2 DEF WirePairs, Settled, ShouldReset
  <1>11. SessionsPair'
    BY <1>0, <1>2 DEF SessionsPair
  <1>12. Covered'
    BY <1>1, <1>2 DEF Covered
  <1>13. QED
    BY <1>3, <1>4, <1>5, <1>6, <1>7, <1>8, <1>9, <1>10, <1>11, <1>12 DEF IInv

\* Host k attaches its end of the connection and identifies itself.
LEMMA OpensStep ==
    ASSUME IInv, OneConnection, NEW k \in Host, NEW c \in Conn, Opens(k, c)
    PROVE  IInv'
  <1>0. /\ TypeOK /\ Shapes /\ Objects /\ Handshake /\ OnTheWire
        /\ Paired /\ BufferPairs /\ WirePairs /\ SessionsPair /\ Covered
    BY DEF IInv
  <1>1. PICK o \in Host : o # k /\ Peer(o) = k /\ Peer(k) = o /\ \A h \in Host : h = k \/ h = o
    BY Peers
  <1>c. \A d \in Conn : d = c
    BY DEF OneConnection
  <1>n. made[k] \in Nat /\ made[o] \in Nat /\ session[k] \in Nat /\ session[o] \in Nat /\ MaxExec \in Nat
    BY <1>0, HostSessionAssumption DEF TypeOK, HostSessionAssumption
  <1>2. /\ exec'[k] = made'[k] /\ exec'[k] \in 1..MaxExec
        /\ exec'[o] = exec[o] /\ made'[o] = made[o] /\ session'[o] = session[o]
        /\ \/ exec[k] = NoExec /\ made'[k] = made[k] + 1 /\ session'[k] = session[k] + 1
           \/ exec[k] = made[k] /\ exec[k] # NoExec /\ made'[k] = made[k] /\ session'[k] = session[k]
        /\ UNCHANGED <<lastExec, curOut, outgoing, sent, nextIn, incoming, breaks, done>>
    <2>1. /\ exec \in [Host -> 0..MaxExec] /\ made \in [Host -> 0..MaxExec] /\ session \in [Host -> Nat]
          /\ exec[k] \in {NoExec, made[k]}
      BY <1>0 DEF TypeOK, Objects
    <2>2. CASE exec[k] = NoExec
      BY <1>1, <1>n, <2>1, <2>2 DEF Opens
    <2>3. CASE exec[k] # NoExec
      BY <1>1, <1>n, <2>1, <2>3 DEF Opens, NoExec
    <2>4. QED
      BY <2>2, <2>3
  <1>3. /\ end' \in [Host -> [Conn -> EndState]]
        /\ \/ /\ end[k][c] = "down" /\ end[o][c] = "down"
              /\ end'[k][c] = "open" /\ end'[o][c] = "pending"
           \/ /\ end[k][c] = "pending"
              /\ end'[k][c] = "open" /\ end'[o][c] = end[o][c]
    <2>1. end \in [Host -> [Conn -> EndState]]
      BY <1>0 DEF TypeOK
    <2>2. CASE end[k][c] = "down" /\ end[o][c] = "down"
      BY <1>1, <2>1, <2>2 DEF Opens, EndState
    <2>3. CASE end[k][c] = "pending"
      BY <1>1, <2>1, <2>3 DEF Opens, EndState
    <2>4. QED
      BY <1>1, <2>2, <2>3 DEF Opens
  <1>i. PICK id : id = Identify(exec'[k], Report(k))
    OBVIOUS
  <1>j. id.kind = "Identify" /\ id.exec = exec'[k] /\ id.report.acked = nextIn[k] - 1
    BY <1>i DEF Identify, Report
  <1>4. /\ chan'[o][c] = {id}
        /\ end[k][c] = "down" => chan'[k][c] = {}
        /\ end[k][c] = "pending" => chan'[k][c] = chan[k][c]
        /\ DOMAIN chan' = Host /\ DOMAIN chan'[k] = Conn /\ DOMAIN chan'[o] = Conn
    <2>1. CASE end[k][c] = "down"
      BY <1>0, <1>1, <1>i, <2>1 DEF Shapes, Opens, Fresh
    <2>2. CASE end[k][c] = "pending"
      <3>1. chan[o][c] = {}
        BY <1>0, <1>1, <2>2 DEF Handshake
      <3>2. chan' = [chan EXCEPT ![o][c] = @ \cup {id}]
        BY <1>1, <1>i, <2>2 DEF Opens
      <3>3. QED
        BY <1>0, <1>1, <2>2, <3>1, <3>2 DEF Shapes
    <2>3. QED
      BY <1>3, <2>1, <2>2
  <1>5. /\ Idents(chan'[o][c]) = {id} /\ Packets(chan'[o][c]) = {} /\ Acks(chan'[o][c]) = {}
        /\ Packets(chan'[k][c]) = {}
        /\ Idents(chan'[k][c]) \subseteq Idents(chan[k][c]) /\ Acks(chan'[k][c]) \subseteq Acks(chan[k][c])
    <2>1. Packets(chan'[k][c]) = {}
      <3>1. CASE end[k][c] = "down"
        BY <1>4, <3>1 DEF Packets
      <3>2. CASE end[k][c] = "pending"
        BY <1>0, <1>4, <3>2 DEF Handshake
      <3>3. QED
        BY <1>3, <3>1, <3>2
    <2>2. QED
      BY <1>3, <1>4, <1>j, <2>1 DEF Idents, Packets, Acks
  <1>6. TypeOK'
    <2>1. \A h \in Host, d \in Conn : \A m \in chan'[h][d] : m.kind \in {"Identify", "Data", "Acknowledge"}
      <3>1. \A m \in chan'[o][c] : m.kind \in {"Identify", "Data", "Acknowledge"}
        BY <1>4, <1>j
      <3>2. chan'[k][c] \subseteq chan[k][c]
        BY <1>3, <1>4
      <3>3. \A m \in chan'[k][c] : m.kind \in {"Identify", "Data", "Acknowledge"}
        BY <1>0, <3>2 DEF TypeOK
      <3>4. QED
        BY <1>1, <1>c, <3>1, <3>3
    <2>2. exec' \in [Host -> 0..MaxExec] /\ made' \in [Host -> 0..MaxExec] /\ session' \in [Host -> Nat]
      BY <1>0, <1>n DEF TypeOK, Opens
    <2>3. QED
      BY <1>0, <1>2, <1>3, <2>1, <2>2 DEF TypeOK
  <1>7. Shapes'
    <2>1. nextIn[k] - 1 \in Nat
      BY <1>0, HostSessionAssumption DEF HostSessionAssumption, TypeOK
    <2>2. /\ \A m \in Idents(chan'[k][c]) : m.exec \in 1..MaxExec /\ m.report.acked \in Nat
          /\ \A m \in Acks(chan'[k][c]) : m.id \in Nat
      BY <1>0, <1>5 DEF Shapes
    <2>3. \A m \in Idents(chan'[o][c]) : m.exec \in 1..MaxExec /\ m.report.acked \in Nat
      BY <1>2, <1>5, <1>j, <2>1
    <2>4. ASSUME NEW h \in Host
          PROVE  /\ DOMAIN chan'[h] = Conn
                 /\ \A m \in Idents(chan'[h][c]) : m.exec \in 1..MaxExec /\ m.report.acked \in Nat
                 /\ \A m \in Packets(chan'[h][c]) : m.id \in 1..MaxId /\ m.from \in Nat
                 /\ \A m \in Acks(chan'[h][c]) : m.id \in Nat
      BY <1>1, <1>4, <1>5, <2>2, <2>3
    <2>5. QED
      BY <1>0, <1>2, <1>4, <1>c, <2>4 DEF Shapes
  <1>8. Objects'
    <2>1. end'[o][c] # "active" \/ made'[k] = made[k]
      BY <1>0, <1>1, <1>2, <1>3 DEF Handshake, Objects
    <2>2. lastExec[o] <= made'[k] /\ (lastExec[k] = NoExec \/ exec[k] # NoExec)
      BY <1>0, <1>1, <1>2, <1>n DEF Objects, TypeOK
    <2>3. ASSUME NEW d \in Conn, end'[o][d] \in {"open", "active"} PROVE end'[o][d] = end[o][d]
      BY <1>3, <1>c, <2>3
    <2>4. ASSUME NEW d \in Conn PROVE end'[k][d] = "open"
      BY <1>3, <1>c
    <2>5. k \notin Restarting => made'[k] <= 1
      BY <1>0, <1>2, <1>n DEF Objects, NoExec
    <2>6. QED
      BY <1>0, <1>1, <1>2, <1>c, <1>n, <2>1, <2>2, <2>3, <2>4, <2>5 DEF Objects, NoExec
  <1>9. Handshake'
    <2>1. /\ end'[k][c] = "open"
          /\ Idents(chan'[k][c]) = {} => end'[o][c] = "pending"
      BY <1>0, <1>1, <1>3, <1>4 DEF Handshake
    <2>2. end'[o][c] = "pending" => chan'[k][c] = {} /\ Idents(chan'[o][c]) # {}
      BY <1>0, <1>1, <1>3, <1>4, <1>5 DEF Handshake
    <2>3. Idents(chan'[o][c]) # {}
      BY <1>5
    <2>4. QED
      BY <1>1, <1>c, <1>5, <2>1, <2>2, <2>3 DEF Handshake
  <1>10. OnTheWire'
    BY <1>0, <1>1, <1>2, <1>c, <1>5, <1>j DEF OnTheWire
  <1>11. ASSUME exec[k] = NoExec PROVE Paired' /\ BufferPairs'
    <2>1. /\ lastExec[k] = NoExec /\ incoming[k] = {} /\ lastExec[o] # made'[k]
          /\ exec'[k] # NoExec /\ made'[k] = made[k] + 1 /\ session'[k] = session[k] + 1
      BY <1>0, <1>1, <1>2, <1>n, <1>11 DEF Objects, TypeOK, NoExec
    <2>2. Upcoming(k)' = session[k] + 1 /\ Upcoming(k) = session[k] + 1
      BY <1>1, <1>2, <1>11, <2>1 DEF Upcoming
    <2>3. Upcoming(o)' = Upcoming(o)
      BY <1>0, <1>1, <1>2, <1>11, <2>1 DEF Upcoming, Objects
    <2>4. ASSUME NEW x \in done[k]
          PROVE  /\ x.mine \in Nat /\ x.from \in Nat
                 /\ x.mine <= session'[k] /\ x.from <= session[o]
                 /\ (x.mine = Upcoming(k)') = (x.from = Upcoming(o)')
                 /\ x.mine # session'[k]
                 /\ exec[o] # NoExec /\ lastExec[o] = NoExec => x.from # session[o]
      BY <1>0, <1>1, <1>n, <2>1, <2>2, <2>3 DEF Paired
    <2>5. ASSUME NEW x \in done[o]
          PROVE  /\ x.mine \in Nat /\ x.from \in Nat
                 /\ x.mine <= session[o] /\ x.from <= session'[k]
                 /\ (x.mine = Upcoming(o)') = (x.from = Upcoming(k)')
                 /\ x.from # session'[k]
                 /\ exec[o] # NoExec /\ lastExec[o] = NoExec => x.mine # session[o]
      BY <1>0, <1>1, <1>n, <2>1, <2>2, <2>3 DEF Paired
    <2>6. Paired'
      BY <1>1, <1>2, <2>4, <2>5 DEF Paired
    <2>7. BufferPairs'
      BY <1>0, <1>1, <1>2, <2>1 DEF BufferPairs
    <2>8. QED
      BY <2>6, <2>7
  <1>12. ASSUME exec[k] # NoExec PROVE Paired' /\ BufferPairs'
    <2>1. exec'[k] = exec[k] /\ made'[k] = made[k] /\ session'[k] = session[k]
      BY <1>0, <1>2, <1>12 DEF Objects
    <2>2. \A h \in Host : /\ exec'[h] = exec[h] /\ made'[h] = made[h] /\ session'[h] = session[h]
                          /\ Peer(h) \in Host
      BY <1>1, <1>2, <2>1
    <2>3. ASSUME NEW h \in Host PROVE Upcoming(h)' = Upcoming(h) /\ (Settled(h)' <=> Settled(h))
      BY <1>2, <2>2 DEF Upcoming, Settled
    <2>4. Paired'
      BY <1>0, <1>2, <2>2, <2>3 DEF Paired
    <2>5. BufferPairs'
      BY <1>0, <1>2, <2>2, <2>3 DEF BufferPairs
    <2>6. QED
      BY <2>4, <2>5
  <1>13. WirePairs'
    BY <1>1, <1>c, <1>5 DEF WirePairs
  <1>14. SessionsPair'
    BY <1>0, <1>2 DEF SessionsPair
  <1>15. Covered'
    <2>1. nextIn[k] \in Int
      BY <1>0 DEF TypeOK
    <2>2. lastExec[o] = exec'[k] => exec'[k] = exec[k]
      BY <1>0, <1>1, <1>2, <1>n DEF Objects, TypeOK
    <2>3. \A h \in Host : Keeps(h)' <=> Keeps(h)
      BY <1>2 DEF Keeps
    <2>4. QED
      BY <1>0, <1>1, <1>2, <1>c, <1>5, <1>j, <2>1, <2>2, <2>3 DEF Covered
  <1>16. QED
    BY <1>6, <1>7, <1>8, <1>9, <1>10, <1>11, <1>12, <1>13, <1>14, <1>15 DEF IInv

-----------------------------------------------------------------------------
(* Messages *)

\* A packet arrives; those in order are processed and acknowledged.
LEMMA ReceiveDataStep ==
    ASSUME IInv, OneConnection, NEW k \in Host, NEW c \in Conn, end[k][c] \in {"open", "active"},
           NEW m \in chan[k][c], Receives(k, c, m), ReceiveData(k, c, m)
    PROVE  IInv'
  <1>0. /\ TypeOK /\ Shapes /\ Objects /\ Handshake /\ OnTheWire
        /\ Paired /\ BufferPairs /\ WirePairs /\ SessionsPair /\ Covered
    BY DEF IInv
  <1>1. PICK o \in Host : o # k /\ Peer(o) = k /\ Peer(k) = o /\ \A h \in Host : h = k \/ h = o
    BY Peers
  <1>c. \A d \in Conn : d = c
    BY DEF OneConnection
  \* The packet is of the peer's present session, and the end is active.
  <1>2. m \in Packets(chan[k][c]) /\ m.kind = "Data" /\ m.id \in 1..MaxId /\ m.from \in Nat /\ m.from = session[o]
    BY <1>0, <1>1 DEF ReceiveData, Packets, Shapes, OnTheWire
  <1>3. end[k][c] = "active"
    <2>1. Idents(chan[k][c]) = {}
      BY <1>2 DEF Receives, Idents
    <2>2. QED
      BY <1>0, <1>2, <2>1 DEF Handshake
  <1>4. /\ exec[k] # NoExec /\ lastExec[k] = made[o] /\ lastExec[k] # NoExec /\ Settled(k)
        /\ exec[o] \in {NoExec, made[o]} /\ (exec[o] # NoExec => lastExec[o] = exec[k])
    <2>1. /\ exec[k] # NoExec /\ lastExec[k] = made[o] /\ lastExec[k] # NoExec
          /\ exec[o] \in {NoExec, made[o]}
      BY <1>0, <1>1, <1>3 DEF Objects
    <2>2. Packets(chan[k][c]) # {}
      BY <1>2
    <2>3. exec[o] # NoExec => lastExec[o] = exec[k]
      BY <1>0, <1>1, <1>3, <2>2 DEF OnTheWire
    <2>4. Settled(k)
      BY <1>0, <1>3, <2>2 DEF WirePairs
    <2>5. QED
      BY <2>1, <2>3, <2>4
  <1> DEFINE known == m.id < nextIn[k] \/ m.id \in Ids(incoming[k])
             held == IF known THEN incoming[k]
                     ELSE incoming[k] \cup {[id |-> m.id, from |-> m.from]}
  <1>5. PICK n \in nextIn[k]..(MaxId + 1) :
          /\ nextIn' = [nextIn EXCEPT ![k] = n]
          /\ incoming' = [incoming EXCEPT ![k] = {pk \in held : pk.id >= n}]
          /\ done' = [done EXCEPT ![k] = @ \cup Processed(k, session[k], nextIn[k], n, held)]
          /\ chan' = [chan EXCEPT ![k][c] = @ \ {m},
                                  ![o][c] = @ \cup AckOf(nextIn[k], n)]
    <2>1. end[k][c] # "open" /\ Peer(k) = o
      BY <1>1, <1>3
    <2>2. QED
      BY <2>1 DEF ReceiveData
  <1>6. UNCHANGED <<exec, lastExec, curOut, outgoing, sent, end, made, breaks, session>>
    BY DEF ReceiveData
  <1>7. nextIn[k] \in 1..(MaxId + 1) /\ n \in 1..(MaxId + 1) /\ nextIn[k] <= n /\ MaxId \in Nat
        /\ session[k] \in Nat /\ session[o] \in Nat
    BY <1>0, <1>5, HostSessionAssumption DEF HostSessionAssumption, TypeOK
  <1>8. \A pk \in held : pk \in [id : 1..MaxId, from : Nat] /\ pk.from = session[o]
    <2>1. \A pk \in incoming[k] : pk \in [id : 1..MaxId, from : Nat] /\ pk.from = session[o]
      BY <1>0, <1>1, <1>4 DEF TypeOK, BufferPairs
    <2>2. [id |-> m.id, from |-> m.from] \in [id : 1..MaxId, from : Nat]
      BY <1>2
    <2>3. QED
      BY <1>2, <2>1, <2>2
  <1>9. /\ incoming'[k] \subseteq held /\ incoming'[o] = incoming[o] /\ DOMAIN incoming' = Host
        /\ nextIn'[k] = n /\ nextIn'[o] = nextIn[o]
        /\ done'[o] = done[o] /\ DOMAIN done' = Host /\ done[k] \subseteq done'[k]
    BY <1>0, <1>1, <1>5 DEF Shapes, TypeOK
  <1>10. ASSUME NEW x \in done'[k]
         PROVE  \/ x \in done[k]
                \/ x \in [mine : Nat, from : Nat, id : 1..MaxId] /\ x.mine = session[k] /\ x.from = session[o]
    BY <1>0, <1>5, <1>7, <1>8 DEF Shapes, Processed
  <1>11. /\ chan'[k][c] \subseteq chan[k][c] /\ Idents(chan'[k][c]) = Idents(chan[k][c])
         /\ Idents(chan'[o][c]) = Idents(chan[o][c]) /\ Packets(chan'[o][c]) = Packets(chan[o][c])
         /\ Packets(chan'[k][c]) \subseteq Packets(chan[k][c]) /\ Acks(chan'[k][c]) \subseteq Acks(chan[k][c])
         /\ DOMAIN chan' = Host /\ DOMAIN chan'[k] = Conn /\ DOMAIN chan'[o] = Conn
    <2>1. /\ chan'[k][c] = chan[k][c] \ {m} /\ chan'[o][c] = chan[o][c] \cup AckOf(nextIn[k], n)
          /\ DOMAIN chan' = Host /\ DOMAIN chan'[k] = Conn /\ DOMAIN chan'[o] = Conn
      BY <1>0, <1>1, <1>5 DEF Shapes
    <2>2. \A a \in AckOf(nextIn[k], n) : a.kind = "Acknowledge"
      BY DEF AckOf, Ack
    <2>3. QED
      BY <1>2, <2>1, <2>2 DEF Idents, Packets, Acks
  <1>12. \A a \in chan'[o][c] : a \in chan[o][c] \/ (a.kind = "Acknowledge" /\ a.id = n - 1)
    BY <1>0, <1>1, <1>5 DEF Shapes, AckOf, Ack
  <1>13. \A a \in Acks(chan'[o][c]) : a \in Acks(chan[o][c]) \/ a.id = n - 1
    BY <1>12 DEF Acks
  <1>14. TypeOK'
    <2>1. \A h \in Host, d \in Conn : \A a \in chan'[h][d] : a.kind \in {"Identify", "Data", "Acknowledge"}
      <3>1. \A a \in chan'[o][c] : a.kind \in {"Identify", "Data", "Acknowledge"}
        BY <1>0, <1>12 DEF TypeOK
      <3>2. \A a \in chan'[k][c] : a.kind \in {"Identify", "Data", "Acknowledge"}
        BY <1>0, <1>11 DEF TypeOK
      <3>3. QED
        BY <1>1, <1>c, <3>1, <3>2
    <2>2. \A h \in Host : incoming'[h] \subseteq [id : 1..MaxId, from : Nat]
      BY <1>0, <1>1, <1>8, <1>9 DEF TypeOK
    <2>3. \A h \in Host : done'[h] \subseteq [mine : Nat, from : Nat, id : 1..MaxId]
      BY <1>0, <1>1, <1>9, <1>10 DEF TypeOK
    <2>4. nextIn' \in [Host -> 1..(MaxId + 1)]
      BY <1>0, <1>5, <1>7 DEF TypeOK
    <2>5. QED
      BY <1>0, <1>6, <2>1, <2>2, <2>3, <2>4 DEF TypeOK
  <1>15. Shapes'
    <2>1. \A a \in Acks(chan'[o][c]) : a.id \in Nat
      BY <1>0, <1>7, <1>13 DEF Shapes
    <2>2. ASSUME NEW h \in Host
          PROVE  /\ DOMAIN chan'[h] = Conn
                 /\ \A a \in Idents(chan'[h][c]) : a.exec \in 1..MaxExec /\ a.report.acked \in Nat
                 /\ \A a \in Packets(chan'[h][c]) : a.id \in 1..MaxId /\ a.from \in Nat
                 /\ \A a \in Acks(chan'[h][c]) : a.id \in Nat
      BY <1>0, <1>1, <1>11, <2>1 DEF Shapes
    <2>3. QED
      BY <1>9, <1>11, <1>c, <2>2 DEF Shapes
  <1>16. Objects'
    BY <1>0, <1>1, <1>4, <1>6, <1>9 DEF Objects
  <1>17. Handshake'
    <2>1. /\ end[o][c] = "pending" => /\ chan'[k][c] = {}
                                      /\ Idents(chan'[o][c]) # {} /\ Packets(chan'[o][c]) = {}
                                      /\ end[k][c] \in {"down", "open"}
          /\ end[o][c] = "open" => Packets(chan'[k][c]) = {}
          /\ end[o][c] = "open" /\ Idents(chan'[o][c]) = {} =>
                Packets(chan'[o][c]) = {} /\ end[k][c] \in {"down", "pending"}
      BY <1>0, <1>1, <1>11 DEF Handshake
    <2>2. QED
      BY <1>1, <1>3, <1>6, <1>c, <2>1 DEF Handshake
  <1>18. OnTheWire'
    <2>1. /\ \A a \in Idents(chan'[k][c]) : a.exec = made[o]
          /\ \A a \in Packets(chan'[k][c]) : a.from = session[o]
      BY <1>0, <1>1, <1>11 DEF OnTheWire
    <2>2. /\ \A a \in Idents(chan'[o][c]) : a.exec = made[k]
          /\ \A a \in Packets(chan'[o][c]) : a.from = session[k]
          /\ Packets(chan'[o][c]) # {} /\ end[o][c] \in {"open", "active"} /\ exec[k] # NoExec =>
                lastExec[k] = exec[o]
      BY <1>0, <1>1, <1>11 DEF OnTheWire
    <2>3. QED
      BY <1>1, <1>4, <1>6, <1>c, <2>1, <2>2 DEF OnTheWire
  <1>19. Settled(k)'
    BY <1>1, <1>4, <1>6, <1>10 DEF Settled
  <1>20. Paired'
    <2>1. \/ Upcoming(k) = session[k] /\ Upcoming(o) = session[o]
          \/ Upcoming(k) = session[k] + 1 /\ Upcoming(o) = session[o] + 1
      BY <1>1, <1>4 DEF Upcoming
    <2>2. Upcoming(k)' = Upcoming(k) /\ Upcoming(o)' = Upcoming(o)
      BY <1>1, <1>6 DEF Upcoming
    <2>3. ASSUME NEW x \in done'[k]
          PROVE  /\ x.mine \in Nat /\ x.from \in Nat
                 /\ x.mine <= session[k] /\ x.from <= session[o]
                 /\ (x.mine = Upcoming(k)) = (x.from = Upcoming(o))
                 /\ exec[k] # NoExec /\ lastExec[k] = NoExec => x.mine # session[k]
                 /\ exec[o] # NoExec /\ lastExec[o] = NoExec => x.from # session[o]
      <3>1. CASE x \in done[k]
        BY <1>0, <1>1, <3>1 DEF Paired
      <3>2. CASE x.mine = session[k] /\ x.from = session[o]
        BY <1>4, <1>7, <2>1, <3>2
      <3>3. QED
        BY <1>10, <3>1, <3>2
    <2>4. ASSUME NEW x \in done'[o]
          PROVE  /\ x.mine \in Nat /\ x.from \in Nat
                 /\ x.mine <= session[o] /\ x.from <= session[k]
                 /\ (x.mine = Upcoming(o)) = (x.from = Upcoming(k))
                 /\ exec[o] # NoExec /\ lastExec[o] = NoExec => x.mine # session[o]
                 /\ exec[k] # NoExec /\ lastExec[k] = NoExec => x.from # session[k]
      BY <1>0, <1>1, <1>9 DEF Paired
    <2>5. QED
      BY <1>1, <1>6, <2>2, <2>3, <2>4 DEF Paired
  <1>21. BufferPairs'
    <2>1. Settled(o)' <=> Settled(o)
      BY <1>1, <1>6, <1>9 DEF Settled
    <2>2. QED
      BY <1>0, <1>1, <1>4, <1>6, <1>8, <1>9, <1>19, <2>1 DEF BufferPairs
  <1>22. WirePairs'
    <2>1. Packets(chan'[o][c]) # {} =>
            /\ end[o][c] = "active" => Settled(o)
            /\ end[o][c] = "open" =>
                  IF ShouldReset(o, made[k]) THEN \A x \in done[o] : x.from # session[k]
                                             ELSE Settled(o)
      BY <1>0, <1>1, <1>11 DEF WirePairs
    <2>2. (Settled(o)' <=> Settled(o)) /\ (ShouldReset(o, made[k])' <=> ShouldReset(o, made[k]))
      BY <1>1, <1>6, <1>9 DEF Settled, ShouldReset
    <2>3. QED
      BY <1>1, <1>3, <1>6, <1>9, <1>c, <1>19, <2>1, <2>2 DEF WirePairs
  <1>23. SessionsPair'
    BY <1>0, <1>1, <1>4, <1>9, <1>10 DEF SessionsPair, Settled
  <1>24. Covered'
    <2>1. ASSUME NEW h \in Host, Keeps(h) PROVE Keeps(h)'
      <3>1. /\ nextIn[Peer(h)] <= nextIn'[Peer(h)]
            /\ nextIn[Peer(h)] \in Int /\ nextIn'[Peer(h)] \in Int /\ curOut[h] \in Int
        <4>1. nextIn[o] \in Int /\ curOut[h] \in Int
          BY <1>0 DEF TypeOK
        <4>2. QED
          BY <1>1, <1>7, <1>9, <4>1
      <3>2. nextIn'[Peer(h)]..curOut[h] \subseteq nextIn[Peer(h)]..curOut[h]
        BY <3>1
      <3>3. QED
        BY <1>6, <2>1, <3>2 DEF Keeps
    <2>2. ASSUME k \notin Restarting, exec[o] # NoExec
          PROVE  /\ \A a \in Acks(chan'[k][c]) : a.id < nextIn'[o]
                 /\ \A a \in Idents(chan'[k][c]) : a.report.acked < nextIn'[o]
      BY <1>0, <1>1, <1>9, <1>11, <2>2 DEF Covered
    <2>3. ASSUME o \notin Restarting
          PROVE  /\ \A a \in Acks(chan'[o][c]) : a.id < nextIn'[k]
                 /\ \A a \in Idents(chan'[o][c]) : a.report.acked < nextIn'[k]
      <3>1. /\ \A a \in Acks(chan[o][c]) : a.id < nextIn[k] /\ a.id \in Nat
            /\ \A a \in Idents(chan[o][c]) : a.report.acked < nextIn[k] /\ a.report.acked \in Nat
        BY <1>0, <1>1, <1>4, <2>3 DEF Covered, Shapes
      <3>2. QED
        BY <1>7, <1>9, <1>11, <1>13, <3>1
    <2>4. QED
      BY <1>0, <1>1, <1>4, <1>6, <1>c, <2>1, <2>2, <2>3 DEF Covered
  <1>25. QED
    BY <1>14, <1>15, <1>16, <1>17, <1>18, <1>20, <1>21, <1>22, <1>23, <1>24 DEF IInv

\* An acknowledgement removes only packets the peer has processed.
LEMMA ReceiveAckStep ==
    ASSUME IInv, OneConnection, NEW k \in Host, NEW c \in Conn,
           NEW m \in chan[k][c], ReceiveAck(k, c, m)
    PROVE  IInv'
  <1>0. /\ TypeOK /\ Shapes /\ Objects /\ Handshake /\ OnTheWire
        /\ Paired /\ BufferPairs /\ WirePairs /\ SessionsPair /\ Covered
    BY DEF IInv
  <1>1. PICK o \in Host : o # k /\ Peer(o) = k /\ Peer(k) = o /\ \A h \in Host : h = k \/ h = o
    BY Peers
  <1>c. \A d \in Conn : d = c
    BY DEF OneConnection
  <1>2. m \in Acks(chan[k][c]) /\ m.kind = "Acknowledge" /\ m.id \in Nat /\ end[k][c] = "active"
    BY <1>0 DEF ReceiveAck, Acks, Shapes
  <1>3. /\ chan'[k][c] = chan[k][c] \ {m} /\ chan'[o][c] = chan[o][c]
        /\ DOMAIN chan' = Host /\ DOMAIN chan'[k] = Conn /\ DOMAIN chan'[o] = Conn
        /\ sent'[k] = Unacked(k, m.id) /\ sent'[o] = sent[o]
        /\ sent' \in [Host -> SUBSET (1..MaxId)]
    BY <1>0, <1>1 DEF ReceiveAck, Shapes, TypeOK, Unacked
  <1>4. UNCHANGED <<exec, lastExec, curOut, outgoing, nextIn, incoming, end, made, breaks, session, done>>
    BY DEF ReceiveAck
  <1>5. \A h \in Host : /\ chan'[h][c] \subseteq chan[h][c] /\ DOMAIN chan'[h] = Conn
                        /\ Idents(chan'[h][c]) = Idents(chan[h][c]) /\ Packets(chan'[h][c]) = Packets(chan[h][c])
                        /\ Acks(chan'[h][c]) \subseteq Acks(chan[h][c])
    BY <1>1, <1>2, <1>3 DEF Idents, Packets, Acks
  <1>6. TypeOK'
    <2>1. \A h \in Host, d \in Conn : \A a \in chan'[h][d] : a.kind \in {"Identify", "Data", "Acknowledge"}
      BY <1>0, <1>5, <1>c DEF TypeOK
    <2>2. QED
      BY <1>0, <1>3, <1>4, <2>1 DEF TypeOK
  <1>7. Shapes'
    BY <1>0, <1>3, <1>4, <1>5, <1>c DEF Shapes
  <1>8. Objects'
    BY <1>0, <1>4 DEF Objects
  <1>9. Handshake' /\ OnTheWire'
    <2>1. \A h \in Host : Peer(h) \in Host
      BY <1>1
    <2>2. Handshake'
      <3>1. ASSUME NEW h \in Host
            PROVE  LET p == Peer(h) IN
                   /\ end[h][c] = "pending" => /\ chan'[p][c] = {} /\ end[p][c] \in {"down", "open"}
                                               /\ Idents(chan'[h][c]) # {} /\ Packets(chan'[h][c]) = {}
                   /\ end[h][c] = "open" => Packets(chan'[p][c]) = {}
                   /\ end[h][c] = "open" /\ Idents(chan'[h][c]) = {} =>
                         Packets(chan'[h][c]) = {} /\ end[p][c] \in {"down", "pending"}
        <4>1. PICK p \in Host : p = Peer(h)
          BY <2>1
        <4>2. /\ chan'[p][c] \subseteq chan[p][c] /\ Packets(chan'[p][c]) = Packets(chan[p][c])
              /\ Idents(chan'[h][c]) = Idents(chan[h][c]) /\ Packets(chan'[h][c]) = Packets(chan[h][c])
          BY <1>5
        <4>3. /\ end[h][c] = "pending" => /\ chan[p][c] = {} /\ end[p][c] \in {"down", "open"}
                                           /\ Idents(chan[h][c]) # {} /\ Packets(chan[h][c]) = {}
              /\ end[h][c] = "open" => Packets(chan[p][c]) = {}
              /\ end[h][c] = "open" /\ Idents(chan[h][c]) = {} =>
                    Packets(chan[h][c]) = {} /\ end[p][c] \in {"down", "pending"}
          BY <1>0, <4>1 DEF Handshake
        <4>4. QED
          BY <4>1, <4>2, <4>3
      <3>2. QED
        BY <1>4, <1>c, <3>1 DEF Handshake
    <2>3. OnTheWire'
      <3>1. ASSUME NEW h \in Host, NEW p \in Host, p = Peer(h)
            PROVE  /\ \A a \in Idents(chan'[h][c]) : a.exec = made[p]
                   /\ \A a \in Packets(chan'[h][c]) : a.from = session[p]
                   /\ Packets(chan'[h][c]) # {} /\ end[h][c] \in {"open", "active"} /\ exec[p] # NoExec =>
                         lastExec[p] = exec[h]
        <4>1. Idents(chan'[h][c]) = Idents(chan[h][c]) /\ Packets(chan'[h][c]) = Packets(chan[h][c])
          BY <1>5
        <4>2. QED
          BY <1>0, <3>1, <4>1 DEF OnTheWire
      <3>2. QED
        BY <1>4, <1>c, <2>1, <3>1 DEF OnTheWire
    <2>4. QED
      BY <2>2, <2>3
  <1>10. Paired' /\ BufferPairs' /\ SessionsPair'
    BY <1>0, <1>4 DEF Paired, BufferPairs, SessionsPair, Upcoming, Settled
  <1>11. WirePairs'
    BY <1>0, <1>4, <1>5, <1>c DEF WirePairs, Settled, ShouldReset
  <1>12. Covered'
    <2>1. ASSUME k \notin Restarting, exec[o] # NoExec, Keeps(k) PROVE Keeps(k)'
      <3>1. m.id < nextIn[o]
        BY <1>0, <1>1, <1>2, <2>1 DEF Covered
      <3>2. nextIn[o] \in Nat
        BY <1>0 DEF TypeOK
      <3>3. QED
        BY <1>1, <1>2, <1>3, <1>4, <2>1, <3>1, <3>2 DEF Keeps, Unacked
    <2>2. Keeps(o)' <=> Keeps(o)
      BY <1>1, <1>3, <1>4 DEF Keeps
    <2>3. QED
      BY <1>0, <1>1, <1>4, <1>5, <1>c, <2>1, <2>2 DEF Covered
  <1>13. QED
    BY <1>6, <1>7, <1>8, <1>9, <1>10, <1>11, <1>12 DEF IInv

\* The peer identifies itself.
LEMMA ReceiveIdentifyStep ==
    ASSUME IInv, OneConnection, NEW k \in Host, NEW c \in Conn,
           NEW m \in chan[k][c], ReceiveIdentify(k, c, m)
    PROVE  IInv'
  <1>0. /\ TypeOK /\ Shapes /\ Objects /\ Handshake /\ OnTheWire
        /\ Paired /\ BufferPairs /\ WirePairs /\ SessionsPair /\ Covered
    BY DEF IInv
  <1>1. PICK o \in Host : o # k /\ Peer(o) = k /\ Peer(k) = o /\ \A h \in Host : h = k \/ h = o
    BY Peers
  <1>c. \A d \in Conn : d = c
    BY DEF OneConnection
  <1> DEFINE reset == ShouldReset(k, m.exec)
             kept == IF reset THEN {} ELSE Unacked(k, m.report.acked)
             waiting == IF reset THEN {} ELSE outgoing[k]
             again == {i \in kept : i \in m.report.missing \/ i >= m.report.highest}
             first == IF reset THEN 1 ELSE nextIn[k]
             held == IF reset THEN {} ELSE incoming[k]
  \* The message is of the newest object of the peer, and this end waits for it.
  <1>2. /\ m \in Idents(chan[k][c]) /\ m.kind = "Identify" /\ end[k][c] = "open"
        /\ m.exec = made[o] /\ m.exec \in 1..MaxExec /\ m.report.acked \in Nat
    BY <1>0, <1>1 DEF ReceiveIdentify, Idents, Shapes, OnTheWire
  <1>3. Active(k) = {}
    BY <1>2, <1>c DEF Active
  <1>4. /\ exec[k] = made[k] /\ exec[k] # NoExec /\ exec[o] \in {NoExec, made[o]} /\ made[o] # NoExec
        /\ lastExec[k] \notin {NoExec, made[o]} <=> reset
        /\ Packets(chan[o][c]) = {}
    BY <1>0, <1>1, <1>2 DEF Objects, Handshake, ShouldReset, NoExec
  <1>5. /\ lastExec'[k] = made[o] /\ lastExec'[o] = lastExec[o] /\ lastExec' \in [Host -> 0..MaxExec]
        /\ session'[k] = (IF reset THEN session[k] + 1 ELSE session[k]) /\ session'[o] = session[o]
        /\ session' \in [Host -> Nat] /\ session[k] \in Nat /\ session[o] \in Nat
        /\ curOut'[k] = (IF reset THEN 0 ELSE curOut[k]) /\ curOut'[o] = curOut[o]
        /\ curOut' \in [Host -> 0..MaxId]
        /\ outgoing'[k] = {} /\ outgoing'[o] = outgoing[o] /\ outgoing' \in [Host -> SUBSET (1..MaxId)]
        /\ sent'[k] = kept \cup waiting /\ sent'[o] = sent[o] /\ sent' \in [Host -> SUBSET (1..MaxId)]
        /\ UNCHANGED <<exec, made, breaks>>
    BY <1>0, <1>1, <1>2, HostSessionAssumption DEF HostSessionAssumption, ReceiveIdentify, TypeOK, Unacked
  <1>6. end'[k][c] = "active" /\ end'[o] = end[o] /\ end' \in [Host -> [Conn -> EndState]]
    BY <1>0, <1>1, <1>3, <1>c DEF ReceiveIdentify, TypeOK, EndState
  <1> DEFINE act == (Active(k) \ (IF reset THEN Active(k) ELSE {})) \cup {c}
  <1>p. PICK n \in first..(MaxId + 1), via \in [waiting -> act] :
          LET out == Spread(k, waiting, act, via) IN
          /\ InOrder(first, n, held)
          /\ nextIn' = [nextIn EXCEPT ![k] = n]
          /\ incoming' = [incoming EXCEPT ![k] = {pk \in held : pk.id >= n}]
          /\ done' = [done EXCEPT ![k] = @ \cup Processed(k, session[k], first, n, held)]
          /\ chan' = [chan EXCEPT
                ![k][c] = @ \ {m},
                ![Peer(k)] = [d \in Conn |-> @[d] \cup out[d] \cup
                          (IF d = c THEN {Data(i, session[k]) : i \in again} \cup AckOf(first, n)
                                    ELSE {})]]
    BY DEF ReceiveIdentify
  <1>7. /\ n \in first..(MaxId + 1)
        /\ nextIn' = [nextIn EXCEPT ![k] = n]
        /\ incoming' = [incoming EXCEPT ![k] = {pk \in held : pk.id >= n}]
        /\ done' = [done EXCEPT ![k] = @ \cup Processed(k, session[k], first, n, held)]
        /\ chan' = [chan EXCEPT
              ![k][c] = @ \ {m},
              ![o] = [d \in Conn |-> @[d] \cup Spread(k, waiting, act, via)[d] \cup
                        (IF d = c THEN {Data(i, session[k]) : i \in again} \cup AckOf(first, n)
                                  ELSE {})]]
    BY <1>1, <1>p
  <1>8. /\ nextIn[k] \in 1..(MaxId + 1) /\ n \in 1..(MaxId + 1) /\ MaxId \in Nat
        /\ ~reset => nextIn[k] <= n
    BY <1>0, <1>7, HostSessionAssumption DEF HostSessionAssumption, TypeOK
  \* What is buffered, if it is not dropped, is of the peer's present session.
  <1>9. /\ \A pk \in held : pk \in [id : 1..MaxId, from : Nat] /\ pk.from = session[o]
        /\ held # {} => Settled(k) /\ ~reset /\ (exec[o] # NoExec => lastExec[o] = exec[k])
    <2>1. CASE incoming[k] # {} /\ ~reset
      <3>1. lastExec[k] = made[o]
        BY <1>0, <1>4, <2>1 DEF Objects
      <3>2. QED
        BY <1>0, <1>1, <2>1, <3>1 DEF TypeOK, BufferPairs
    <2>2. CASE held = {}
      BY <2>2
    <2>3. QED
      BY <2>1, <2>2
  <1>10. /\ incoming'[k] \subseteq held /\ incoming'[o] = incoming[o] /\ DOMAIN incoming' = Host
         /\ nextIn'[k] = n /\ nextIn'[o] = nextIn[o] /\ nextIn' \in [Host -> 1..(MaxId + 1)]
         /\ done'[o] = done[o] /\ DOMAIN done' = Host
    BY <1>0, <1>1, <1>7, <1>8 DEF Shapes, TypeOK
  <1>11. ASSUME NEW x \in done'[k]
         PROVE  \/ x \in done[k]
                \/ /\ x \in [mine : Nat, from : Nat, id : 1..MaxId] /\ x.mine = session[k] /\ x.from = session[o]
                   /\ held # {}
    <2>1. \A y \in Processed(k, session[k], first, n, held) :
             y \in [mine : Nat, from : Nat, id : 1..MaxId] /\ y.mine = session[k] /\ y.from = session[o] /\ held # {}
      BY <1>5, <1>9 DEF Processed
    <2>2. x \in done[k] \/ x \in Processed(k, session[k], first, n, held)
      BY <1>0, <1>7 DEF Shapes
    <2>3. QED
      BY <2>1, <2>2
  <1>12. /\ chan'[k][c] = chan[k][c] \ {m} /\ chan[o][c] \subseteq chan'[o][c]
         /\ DOMAIN chan' = Host /\ DOMAIN chan'[k] = Conn /\ DOMAIN chan'[o] = Conn
         /\ \A a \in chan'[o][c] :
               \/ a \in chan[o][c]
               \/ a \in Spread(k, waiting, act, via)[c]
               \/ a \in {Data(i, session[k]) : i \in again}
               \/ a \in AckOf(first, n)
    BY <1>0, <1>1, <1>7 DEF Shapes
  <1>13. /\ kept \subseteq sent[k] /\ waiting \subseteq outgoing[k] /\ again \subseteq kept
         /\ sent[k] \subseteq 1..MaxId /\ outgoing[k] \subseteq 1..MaxId
    BY <1>0 DEF TypeOK, Unacked
  <1>14. ASSUME NEW a \in chan'[o][c]
         PROVE  \/ a \in chan[o][c]
                \/ a.kind = "Data" /\ a.id \in 1..MaxId /\ a.from = session[k] /\ ~reset
                \/ a.kind = "Acknowledge" /\ a.id = n - 1
    <2>1. CASE a \in Spread(k, waiting, act, via)[c]
      <3>1. a.kind = "Data" /\ a.id \in waiting /\ a.from = session[k]
        BY <2>1, SpreadIsData
      <3>2. QED
        BY <1>13, <3>1
    <2>2. CASE a \in {Data(i, session[k]) : i \in again}
      <3>1. PICK i \in again : a = Data(i, session[k])
        BY <2>2
      <3>2. ~reset /\ i \in 1..MaxId
        BY <1>13
      <3>3. QED
        BY <3>1, <3>2 DEF Data
    <2>3. CASE a \in AckOf(first, n)
      BY <2>3 DEF AckOf, Ack
    <2>4. QED
      BY <1>12, <2>1, <2>2, <2>3
  <1>15. /\ Idents(chan'[o][c]) = Idents(chan[o][c])
         /\ \A a \in Acks(chan'[o][c]) : a \in Acks(chan[o][c]) \/ a.id = n - 1
         /\ \A a \in Packets(chan'[o][c]) : a.id \in 1..MaxId /\ a.from = session'[k]
    <2>1. Idents(chan'[o][c]) = Idents(chan[o][c])
      BY <1>12, <1>14 DEF Idents
    <2>2. \A a \in Acks(chan'[o][c]) : a \in Acks(chan[o][c]) \/ a.id = n - 1
      BY <1>14 DEF Acks
    <2>3. \A a \in Packets(chan'[o][c]) : a.id \in 1..MaxId /\ a.from = session'[k]
      BY <1>4, <1>5, <1>14 DEF Packets
    <2>4. QED
      BY <2>1, <2>2, <2>3
  <1>16. /\ Packets(chan'[k][c]) = Packets(chan[k][c]) /\ Acks(chan'[k][c]) = Acks(chan[k][c])
         /\ Idents(chan'[k][c]) \subseteq Idents(chan[k][c])
    BY <1>2, <1>12 DEF Packets, Acks, Idents
  <1>17. TypeOK'
    <2>1. \A h \in Host, d \in Conn : \A a \in chan'[h][d] : a.kind \in {"Identify", "Data", "Acknowledge"}
      <3>1. \A a \in chan'[o][c] : a.kind \in {"Identify", "Data", "Acknowledge"}
        BY <1>0, <1>14 DEF TypeOK
      <3>2. \A a \in chan'[k][c] : a.kind \in {"Identify", "Data", "Acknowledge"}
        BY <1>0, <1>12 DEF TypeOK
      <3>3. QED
        BY <1>1, <1>c, <3>1, <3>2
    <2>2. \A h \in Host : incoming'[h] \subseteq [id : 1..MaxId, from : Nat]
      BY <1>0, <1>1, <1>9, <1>10 DEF TypeOK
    <2>3. \A h \in Host : done'[h] \subseteq [mine : Nat, from : Nat, id : 1..MaxId]
      BY <1>0, <1>1, <1>10, <1>11 DEF TypeOK
    <2>4. QED
      BY <1>0, <1>5, <1>6, <1>10, <2>1, <2>2, <2>3 DEF TypeOK
  <1>18. Shapes'
    <2>1. \A a \in Acks(chan'[o][c]) : a.id \in Nat
      BY <1>0, <1>8, <1>15 DEF Shapes
    <2>2. \A a \in Packets(chan'[o][c]) : a.id \in 1..MaxId /\ a.from \in Nat
      BY <1>5, <1>15
    <2>3. ASSUME NEW h \in Host
          PROVE  /\ DOMAIN chan'[h] = Conn
                 /\ \A a \in Idents(chan'[h][c]) : a.exec \in 1..MaxExec /\ a.report.acked \in Nat
                 /\ \A a \in Packets(chan'[h][c]) : a.id \in 1..MaxId /\ a.from \in Nat
                 /\ \A a \in Acks(chan'[h][c]) : a.id \in Nat
      BY <1>0, <1>1, <1>12, <1>15, <1>16, <2>1, <2>2 DEF Shapes
    <2>4. QED
      BY <1>10, <1>12, <1>c, <2>3 DEF Shapes
  <1>19. Objects'
    <2>1. lastExec'[k] # NoExec
      BY <1>4, <1>5
    <2>2. \A d \in Conn : end'[k][d] = "active" /\ end'[o][d] = end[o][d]
      BY <1>6, <1>c
    <2>3. made[o] \in Nat
      BY <1>0 DEF TypeOK
    <2>4. QED
      BY <1>0, <1>1, <1>4, <1>5, <1>10, <2>1, <2>2, <2>3 DEF Objects
  <1>20. Handshake'
    <2>1. /\ end[o][c] # "pending"
          /\ end[o][c] = "open" => Packets(chan'[k][c]) = {}
          /\ end[o][c] = "open" => Idents(chan'[o][c]) # {}
      <3>1. chan[k][c] # {} /\ end[k][c] = "open"
        BY <1>2
      <3>2. QED
        BY <1>0, <1>1, <1>15, <1>16, <3>1 DEF Handshake
    <2>2. QED
      BY <1>1, <1>6, <1>c, <2>1 DEF Handshake
  <1>21. OnTheWire'
    <2>1. /\ \A a \in Idents(chan'[k][c]) : a.exec = made[o]
          /\ \A a \in Packets(chan'[k][c]) : a.from = session[o]
          /\ Packets(chan'[k][c]) # {} /\ exec[o] # NoExec => lastExec[o] = exec[k]
      BY <1>0, <1>1, <1>2, <1>16 DEF OnTheWire
    <2>2. /\ \A a \in Idents(chan'[o][c]) : a.exec = made[k]
          /\ end[o][c] \in {"open", "active"} => exec[o] = made[o]
      BY <1>0, <1>1, <1>15 DEF OnTheWire, Objects
    <2>3. /\ \A a \in Packets(chan'[o][c]) : a.from = session'[k]
          /\ lastExec'[k] = made[o]
      BY <1>5, <1>15
    <2>4. /\ made' = made /\ exec' = exec
          /\ session'[o] = session[o] /\ lastExec'[o] = lastExec[o]
          /\ Peer(k) = o /\ Peer(o) = k /\ Host = {k, o}
      BY <1>1, <1>5
    <2>5. ASSUME NEW h \in Host, NEW d \in Conn, NEW p \in Host, p = Peer(h)
          PROVE  /\ \A a \in Idents(chan'[h][d]) : a.exec = made[p]
                 /\ \A a \in Packets(chan'[h][d]) : a.from = session'[p]
                 /\ Packets(chan'[h][d]) # {} /\ end'[h][d] \in {"open", "active"} /\ exec[p] # NoExec =>
                       lastExec'[p] = exec[h]
      <3>1. CASE h = k /\ p = o /\ d = c
        BY <2>1, <2>4, <3>1
      <3>2. CASE h = o /\ p = k /\ d = c
        BY <1>6, <2>2, <2>3, <3>2
      <3>3. QED
        BY <1>c, <2>4, <2>5, <3>1, <3>2
    <2>6. \A h \in Host : Peer(h) \in Host
      BY <2>4
    <2>7. QED
      BY <2>4, <2>5, <2>6 DEF OnTheWire
  <1>22. Paired'
    <2>1. Upcoming(o)' = Upcoming(o)
      BY <1>1, <1>5 DEF Upcoming
    <2>2. \/ exec[o] # NoExec /\ Upcoming(k)' = session'[k] /\ Upcoming(k) = session'[k]
          \/ exec[o] = NoExec /\ Upcoming(k)' = session'[k] + 1 /\ Upcoming(o) = session[o] + 1
      BY <1>1, <1>4, <1>5 DEF Upcoming
    <2>3. session[k] <= session'[k] /\ session'[k] \in Nat
      BY <1>5
    <2>4. ASSUME NEW x \in done'[k]
          PROVE  /\ x.mine \in Nat /\ x.from \in Nat
                 /\ x.mine <= session'[k] /\ x.from <= session[o]
                 /\ (x.mine = Upcoming(k)') = (x.from = Upcoming(o))
                 /\ exec[o] # NoExec /\ lastExec[o] = NoExec => x.from # session[o]
      <3>1. CASE x \in done[k]
        <4>1. /\ x.mine \in Nat /\ x.from \in Nat
              /\ x.mine <= session[k] /\ x.from <= session[o]
              /\ (x.mine = Upcoming(k)) = (x.from = Upcoming(o))
              /\ exec[o] # NoExec /\ lastExec[o] = NoExec => x.from # session[o]
          BY <1>0, <1>1, <3>1 DEF Paired
        <4>2. QED
          BY <1>5, <2>2, <2>3, <4>1
      <3>2. CASE x.mine = session[k] /\ x.from = session[o] /\ held # {}
        <4>1. ~reset /\ session'[k] = session[k] /\ (exec[o] # NoExec => lastExec[o] = exec[k])
          BY <1>5, <1>9, <3>2
        <4>2. exec[o] # NoExec => Upcoming(o) = session[o]
          BY <1>1, <1>4, <4>1 DEF Upcoming
        <4>3. QED
          BY <1>4, <1>5, <2>2, <3>2, <4>1, <4>2
      <3>3. QED
        BY <1>11, <3>1, <3>2
    <2>5. ASSUME NEW x \in done'[o]
          PROVE  /\ x.mine \in Nat /\ x.from \in Nat
                 /\ x.mine <= session[o] /\ x.from <= session'[k]
                 /\ (x.mine = Upcoming(o)) = (x.from = Upcoming(k)')
                 /\ exec[o] # NoExec /\ lastExec[o] = NoExec => x.mine # session[o]
      <3>1. /\ x.mine \in Nat /\ x.from \in Nat
            /\ x.mine <= session[o] /\ x.from <= session[k]
            /\ (x.mine = Upcoming(o)) = (x.from = Upcoming(k))
            /\ exec[o] # NoExec /\ lastExec[o] = NoExec => x.mine # session[o]
        BY <1>0, <1>1, <1>10 DEF Paired
      <3>2. QED
        BY <1>5, <2>2, <2>3, <3>1
    <2>6. lastExec'[k] # NoExec
      BY <1>4, <1>5
    <2>7. QED
      <3>1. /\ Host = {k, o} /\ Peer(k) = o /\ Peer(o) = k
            /\ exec' = exec /\ session'[o] = session[o] /\ lastExec'[o] = lastExec[o]
        BY <1>1, <1>5
      <3>2. ASSUME NEW h \in Host, NEW x \in done'[h], NEW p \in Host, p = Peer(h)
            PROVE  /\ x.mine \in Nat /\ x.from \in Nat
                   /\ x.mine <= session'[h] /\ x.from <= session'[p]
                   /\ (x.mine = Upcoming(h)') = (x.from = Upcoming(p)')
                   /\ exec[h] # NoExec /\ lastExec'[h] = NoExec => x.mine # session'[h]
                   /\ exec[p] # NoExec /\ lastExec'[p] = NoExec => x.from # session'[p]
        <4>1. CASE h = k /\ p = o
          BY <2>1, <2>4, <2>6, <3>1, <3>2, <4>1
        <4>2. CASE h = o /\ p = k
          BY <2>1, <2>5, <2>6, <3>1, <3>2, <4>2
        <4>3. QED
          BY <3>1, <3>2, <4>1, <4>2
      <3>3. \A h \in Host : Peer(h) \in Host
        BY <3>1
      <3>4. QED
        BY <3>1, <3>2, <3>3 DEF Paired
  <1>23. ASSUME held # {} PROVE Settled(k)'
    <2>0. ~reset /\ Settled(k)
      BY <1>9, <1>23
    <2>1. /\ \A x \in done[k] : (x.mine = session[k]) = (x.from = session[o])
          /\ session'[k] = session[k] /\ session'[o] = session[o]
      BY <1>1, <1>5, <2>0 DEF Settled
    <2>2. ASSUME NEW x \in done'[k] PROVE (x.mine = session'[k]) = (x.from = session'[o])
      BY ONLY <1>11, <2>1, <2>2
    <2>3. QED
      BY ONLY <1>1, <2>2 DEF Settled
  <1>24. ASSUME Packets(chan'[k][c]) # {} PROVE Settled(k)'
    <2>1. CASE reset
      <3>1. \A x \in done[k] : x.from # session[o] /\ x.mine <= session[k] /\ x.mine \in Nat
        <4>1. ShouldReset(k, made[o]) /\ Packets(chan[k][c]) # {} /\ end[k][c] = "open"
          BY <1>2, <1>16, <1>24, <2>1
        <4>2. \A x \in done[k] : x.from # session[o]
          BY <1>0, <1>1, <4>1 DEF WirePairs
        <4>3. \A x \in done[k] : x.mine <= session[k] /\ x.mine \in Nat
          BY <1>0 DEF Paired
        <4>4. QED
          BY <4>2, <4>3
      <3>2. \A x \in done'[k] : x \in done[k]
        BY <1>9, <1>11, <2>1
      <3>3. QED
        BY <1>1, <1>5, <2>1, <3>1, <3>2 DEF Settled
    <2>2. CASE ~reset
      <3>1. Settled(k)
        BY <1>0, <1>1, <1>2, <1>16, <1>24, <2>2 DEF WirePairs
      <3>2. QED
        BY <1>1, <1>5, <1>11, <2>2, <3>1 DEF Settled
    <2>3. QED
      BY <2>1, <2>2
  <1>25. BufferPairs'
    <2>1. ASSUME incoming'[k] # {}
          PROVE  /\ Settled(k)'
                 /\ \A pk \in incoming'[k] : pk.from = session[o]
                 /\ exec[o] # NoExec => lastExec[o] = exec[k]
      BY <1>9, <1>10, <1>23, <2>1
    <2>2. ASSUME incoming[o] # {}, lastExec[o] = made[k]
          PROVE  /\ Settled(o)'
                 /\ \A pk \in incoming[o] : pk.from = session'[k]
                 /\ lastExec'[k] = exec[o]
      <3>1. /\ Settled(o) /\ \A pk \in incoming[o] : pk.from = session[k]
            /\ lastExec[k] = exec[o] /\ exec[o] = made[o]
        BY <1>0, <1>1, <1>4, <2>2 DEF BufferPairs, Objects
      <3>2. session'[k] = session[k]
        BY <1>4, <1>5, <3>1
      <3>3. QED
        BY <1>1, <1>5, <1>10, <3>1, <3>2 DEF Settled
    <2>3. /\ incoming'[o] = incoming[o] /\ lastExec'[o] = lastExec[o] /\ session'[o] = session[o]
          /\ made' = made /\ exec' = exec
      BY <1>5, <1>10
    <2>4. QED
      <3>1. ASSUME incoming'[k] # {}
            PROVE  /\ Settled(k)'
                   /\ \A pk \in incoming'[k] : pk.from = session'[o]
                   /\ exec'[o] # NoExec => lastExec'[o] = exec'[k]
        BY <2>1, <2>3, <3>1
      <3>2. ASSUME incoming'[o] # {}, lastExec'[o] = made'[k]
            PROVE  /\ Settled(o)'
                   /\ \A pk \in incoming'[o] : pk.from = session'[k]
                   /\ exec'[k] # NoExec => lastExec'[k] = exec'[o]
        BY <2>2, <2>3, <3>2
      <3>3. QED
        BY <1>1, <3>1, <3>2 DEF BufferPairs, Settled
  <1>26. WirePairs'
    <2>1. ActivePairs'
      BY ActiveIsPaired, PTL
    <2>2. /\ end'[o][c] = "active" => Settled(o)'
          /\ end'[o][c] = "open" =>
                IF ShouldReset(o, made[k])' THEN \A x \in done'[o] : x.from # session'[k]
                                            ELSE Settled(o)'
      BY <1>1, <1>5, <1>6, <1>17, <1>19, <1>22, <2>1 DEF ActivePairs
    <2>3. /\ Host = {k, o} /\ Peer(k) = o /\ Peer(o) = k /\ Conn = {c}
          /\ made' = made /\ session'[o] = session[o] /\ end'[k][c] = "active"
      BY <1>1, <1>5, <1>6, <1>c
    <2>4. Packets(chan'[k][c]) # {} => Settled(k)'
      BY <1>24
    <2>5. QED
      BY <2>2, <2>3, <2>4 DEF WirePairs
  <1>27. SessionsPair'
    <2>1. \A x, y \in done'[k] : (x.mine = y.mine) = (x.from = y.from)
      BY <1>0, <1>1, <1>9, <1>11 DEF SessionsPair, Settled
    <2>2. QED
      BY <1>0, <1>1, <1>10, <2>1 DEF SessionsPair
  <1>28. Covered'
    <2>1. ASSUME k \notin Restarting, exec[o] # NoExec
          PROVE  /\ \A a \in Acks(chan'[k][c]) : a.id < nextIn'[o]
                 /\ \A a \in Idents(chan'[k][c]) : a.report.acked < nextIn'[o]
                 /\ Keeps(k)'
      <3>1. m.report.acked < nextIn[o] /\ nextIn[o] \in Nat /\ nextIn[o] >= 1
        BY <1>0, <1>1, <1>2, <2>1 DEF Covered, TypeOK
      <3>2. /\ \A a \in Acks(chan'[k][c]) : a.id < nextIn'[o]
            /\ \A a \in Idents(chan'[k][c]) : a.report.acked < nextIn'[o]
        BY <1>0, <1>1, <1>10, <1>16, <2>1 DEF Covered
      <3>3. CASE curOut'[k] = 0
        BY <1>1, <1>10, <3>1, <3>2, <3>3 DEF Keeps
      <3>4. CASE ~reset /\ lastExec[k] = made[o]
        <4>1. Keeps(k)
          BY <1>0, <1>1, <1>4, <2>1, <3>4 DEF Covered
        <4>2. \A i \in nextIn[o]..curOut[k] : i \in outgoing'[k] \cup sent'[k]
          BY <1>1, <1>2, <1>5, <3>1, <3>4, <4>1 DEF Keeps, Unacked
        <4>3. Keeps(k)'
          BY <1>1, <1>5, <1>10, <3>4, <4>2 DEF Keeps
        <4>4. QED
          BY <3>2, <4>3
      <3>5. ~reset /\ lastExec[k] # made[o] => curOut[k] = 0
        BY <1>0, <1>4 DEF Objects
      <3>6. QED
        BY <1>5, <3>3, <3>4, <3>5
    <2>2. ASSUME o \notin Restarting
          PROVE  /\ ~reset
                 /\ \A a \in Acks(chan'[o][c]) : a.id < nextIn'[k]
                 /\ \A a \in Idents(chan'[o][c]) : a.report.acked < nextIn'[k]
                 /\ lastExec[o] = exec[k] => Keeps(o)'
      <3>1. ~reset
        <4>1. lastExec[k] \in Nat /\ lastExec[k] <= made[o] /\ made[o] <= 1 /\ made[o] \in Nat
          BY <1>0, <1>1, <2>2 DEF Objects, TypeOK
        <4>2. QED
          BY <1>4, <4>1 DEF NoExec
      <3>2. /\ \A a \in Acks(chan[o][c]) : a.id < nextIn[k] /\ a.id \in Nat
            /\ \A a \in Idents(chan[o][c]) : a.report.acked < nextIn[k] /\ a.report.acked \in Nat
            /\ lastExec[o] = exec[k] => Keeps(o)
        BY <1>0, <1>1, <1>4, <2>2 DEF Covered, Shapes
      <3>3. lastExec[o] = exec[k] => Keeps(o)'
        <4>1. curOut[o] \in Nat
          BY <1>0 DEF TypeOK
        <4>2. nextIn'[k]..curOut[o] \subseteq nextIn[k]..curOut[o]
          BY <1>8, <1>10, <3>1, <4>1
        <4>3. QED
          BY <1>1, <1>5, <3>2, <4>2 DEF Keeps
      <3>4. QED
        BY <1>8, <1>10, <1>15, <3>1, <3>2, <3>3
    <2>3. QED
      BY <1>1, <1>5, <1>c, <2>1, <2>2 DEF Covered
  <1>29. QED
    BY <1>17, <1>18, <1>19, <1>20, <1>21, <1>22, <1>25, <1>26, <1>27, <1>28 DEF IInv

-----------------------------------------------------------------------------
\* Every step preserves the invariant.
LEMMA NextIInv ==
    ASSUME OneConnection, IInv, [Next]_vars
    PROVE  IInv'
  <1>1. ASSUME NEW k \in Host, NEW c \in Conn, Handles(k, c)
        PROVE  IInv'
    <2>1. PICK m \in chan[k][c] : /\ Receives(k, c, m)
                                  /\ ReceiveData(k, c, m) \/ ReceiveAck(k, c, m) \/ ReceiveIdentify(k, c, m)
      BY <1>1 DEF Handles
    <2>2. end[k][c] \in {"open", "active"}
      BY <1>1 DEF Handles
    <2>3. QED
      BY <2>1, <2>2, ReceiveDataStep, ReceiveAckStep, ReceiveIdentifyStep
  <1>2. CASE Next
    BY <1>1, <1>2, QueuePacketStep, SendPacketQueueStep, DestroyHostStep, OpensStep, LosesStep DEF Next
  <1>3. CASE UNCHANGED vars
    <2>1. Shapes' /\ Handshake' /\ OnTheWire' /\ Paired' /\ BufferPairs' /\ WirePairs' /\ SessionsPair'
      BY <1>3, SameSessions DEF vars
    <2>2. TypeOK' /\ Objects' /\ Covered'
      BY <1>3 DEF IInv, vars, TypeOK, Objects, Covered, Keeps
    <2>3. QED
      BY <2>1, <2>2 DEF IInv
  <1>4. QED
    BY <1>2, <1>3

\* The sessions of two hosts, with one connection between them, satisfy the invariant.
THEOREM Invariance == ASSUME OneConnection PROVE Spec => []IInv
  BY InitIInv, NextIInv, PTL DEF Spec

\* Every variable keeps its type.
THEOREM TypeCorrect == ASSUME OneConnection PROVE Spec => []TypeOK
  <1>1. IInv => TypeOK
    BY DEF IInv
  <1>2. QED
    BY <1>1, Invariance, PTL

\* However often the hosts restart, what one processes between two resets is what
\* the other queued between two of its own (fp_ResetHostState).
THEOREM SessionsDoNotMix == ASSUME OneConnection PROVE Spec => []SessionsPair
  <1>1. IInv => SessionsPair
    BY DEF IInv
  <1>2. QED
    BY <1>1, Invariance, PTL

\* A host that is never destroyed keeps what its peer has not processed, however
\* often the peer restarts and whatever its Identify messages report.
THEOREM StableHostLosesNothing == ASSUME OneConnection PROVE Spec => []StableHostNoLoss
  <1>1. IInv => StableHostNoLoss
    BY Peers DEF IInv, Covered, StableHostNoLoss, Agree
  <1>2. QED
    BY <1>1, Invariance, PTL

\* An Identify message accepted by a host is of its peer's newest object, so the
\* execution IDs it accepts only grow (f_Identify's comparison with m_LastExecutionID).
THEOREM NeverBackToOldPeer == ASSUME OneConnection PROVE Spec => PeerNeverGoesBack
  <1>1. ASSUME IInv, Next, NEW h \in Host
        PROVE  lastExec'[h] # NoExec => lastExec'[h] >= lastExec[h]
    <2>0. /\ TypeOK /\ Objects /\ OnTheWire /\ lastExec[h] \in Nat
          /\ lastExec \in [Host -> 0..MaxExec]
      BY <1>1 DEF IInv, TypeOK
    <2>1. ASSUME NEW k \in Host, NEW c \in Conn, NEW m \in chan[k][c], ReceiveIdentify(k, c, m)
          PROVE  lastExec'[h] >= lastExec[h]
      <3>1. m.exec = made[Peer(k)] /\ lastExec[k] <= made[Peer(k)] /\ made[Peer(k)] \in Nat
        BY <2>0, <2>1, Peers DEF OnTheWire, Objects, Idents, ReceiveIdentify, TypeOK
      <3>2. lastExec' = [lastExec EXCEPT ![k] = m.exec]
        BY <2>1 DEF ReceiveIdentify
      <3>3. QED
        BY <2>0, <3>1, <3>2
    <2>2. ASSUME NEW k \in Host, DestroyHost(k)
          PROVE  lastExec'[h] = NoExec \/ lastExec'[h] = lastExec[h]
      BY <2>0, <2>2 DEF DestroyHost
    <2>3. \/ lastExec' = lastExec
          \/ \E k \in Host : DestroyHost(k)
          \/ \E k \in Host, c \in Conn : \E m \in chan[k][c] : ReceiveIdentify(k, c, m)
      <3>1. ASSUME NEW k \in Host, NEW c \in Conn, Handles(k, c)
            PROVE  lastExec' = lastExec \/ \E m \in chan[k][c] : ReceiveIdentify(k, c, m)
        BY <3>1 DEF Handles, ReceiveData, ReceiveAck
      <3>2. ASSUME NEW k \in Host, NEW c \in Conn, Opens(k, c) \/ Loses(k, c)
            PROVE  lastExec' = lastExec
        BY <3>2 DEF Opens, Loses
      <3>3. ASSUME NEW k \in Host, QueuePacket(k) \/ SendPacketQueue(k)
            PROVE  lastExec' = lastExec
        BY <3>3 DEF QueuePacket, SendPacketQueue
      <3>4. QED
        BY <1>1, <3>1, <3>2, <3>3 DEF Next
    <2>4. QED
      BY <2>0, <2>1, <2>2, <2>3
  <1>2. IInv /\ [Next]_vars => [\A h \in Host : lastExec'[h] # NoExec => lastExec'[h] >= lastExec[h]]_vars
    BY <1>1
  <1>3. QED
    BY <1>2, Invariance, PTL DEF Spec, PeerNeverGoesBack
=============================================================================
