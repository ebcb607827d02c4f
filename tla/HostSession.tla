---------------------------- MODULE HostSession ----------------------------
(***************************************************************************)
(* The session between two hosts: what the CHost object each keeps for the  *)
(* other holds of it, how the Identify messages that open a connection tell *)
(* a restarted peer from one that only reconnects, and what a host drops    *)
(* when it finds the peer restarted.                                        *)
(*                                                                          *)
(* A CHost object has a random execution ID, here a number, and remembers   *)
(* the last one the peer identified itself with.  It goes away with its     *)
(* process, when the host is kicked or after some time without connections, *)
(* and the next connection makes another.  Packets have one priority;       *)
(* NotifyConnectionLost and its recovery, which only send kept packets once *)
(* more, are in PacketQueue.                                                *)
(***************************************************************************)
EXTENDS Integers

CONSTANTS
    Host,        \* the two hosts
    Senders,     \* those that call the other
    Restarting,  \* those whose CHost object may be destroyed and made again
    Conn,        \* the connections between them
    MaxExec,     \* bound: CHost objects per host
    MaxId,       \* bound: packets queued per session
    MaxBreaks    \* bound: spontaneous connection failures

ASSUME HostSessionAssumption ==
    /\ \E a, b \in Host : a # b /\ Host = {a, b}
    /\ Senders \subseteq Host /\ Restarting \subseteq Host
    /\ MaxExec \in Nat \ {0} /\ MaxId \in Nat /\ MaxBreaks \in Nat

NoExec == 0     \* the empty execution ID; for `exec', no CHost object

Peer(h) == CHOOSE o \in Host : o # h

\* Messages.  A data packet is tagged with the session of its sender, which
\* is not on the wire: only the properties see it.
Identify(e, r) == [kind |-> "Identify", exec |-> e, report |-> r]
Data(i, s) == [kind |-> "Data", id |-> i, from |-> s]
Ack(i) == [kind |-> "Acknowledge", id |-> i]

VARIABLES
    exec,      \* m_ExecutionID of the CHost object each host has
    lastExec,  \* its m_LastExecutionID
    curOut,    \* m_OutgoingCurrentPacketID
    outgoing,  \* m_OutgoingPackets
    sent,      \* m_Outgoing_SentPackets
    nextIn,    \* m_IncomingNextPacketID
    incoming,  \* m_IncomingPackets
    end,       \* each host's end of each connection
    chan,      \* messages in flight to each host
    made,      \* CHost objects made so far
    breaks,    \* failures so far
    session,   \* history: how often each host started numbering afresh
    done       \* history: packets processed, with both sessions

vars == <<exec, lastExec, curOut, outgoing, sent, nextIn, incoming, end, chan,
          made, breaks, session, done>>

EndState == {"down", "pending", "open", "active"}

TypeOK ==
    /\ exec \in [Host -> 0..MaxExec] /\ lastExec \in [Host -> 0..MaxExec]
    /\ curOut \in [Host -> 0..MaxId]
    /\ outgoing \in [Host -> SUBSET (1..MaxId)] /\ sent \in [Host -> SUBSET (1..MaxId)]
    /\ nextIn \in [Host -> 1..(MaxId + 1)]
    /\ \A h \in Host : incoming[h] \subseteq [id : 1..MaxId, from : Nat]
    /\ end \in [Host -> [Conn -> EndState]]
    /\ \A h \in Host, c \in Conn : \A m \in chan[h][c] :
          m.kind \in {"Identify", "Data", "Acknowledge"}
    /\ made \in [Host -> 0..MaxExec]
    /\ breaks \in 0..MaxBreaks
    /\ session \in [Host -> Nat]
    /\ \A h \in Host : done[h] \subseteq [mine : Nat, from : Nat, id : 1..MaxId]

Init ==
    /\ exec = [h \in Host |-> NoExec] /\ lastExec = [h \in Host |-> NoExec]
    /\ curOut = [h \in Host |-> 0]
    /\ outgoing = [h \in Host |-> {}] /\ sent = [h \in Host |-> {}]
    /\ nextIn = [h \in Host |-> 1]
    /\ incoming = [h \in Host |-> {}]
    /\ end = [h \in Host |-> [c \in Conn |-> "down"]]
    /\ chan = [h \in Host |-> [c \in Conn |-> {}]]
    /\ made = [h \in Host |-> 0]
    /\ breaks = 0
    /\ session = [h \in Host |-> 0]
    /\ done = [h \in Host |-> {}]

-----------------------------------------------------------------------------
Active(h) == {c \in Conn : end[h][c] = "active"}

\* Nothing overtakes the Identify message of a connection.
Receives(h, c, m) ==
    /\ m \in chan[h][c]
    /\ m.kind = "Identify" \/ \A o \in chan[h][c] : o.kind # "Identify"

\* What an Identify message says of the receiving side of host h.
Ids(S) == {pk.id : pk \in S}
Highest(h) == CHOOSE n \in Ids(incoming[h]) \cup {nextIn[h] - 1} :
                  \A i \in Ids(incoming[h]) : i <= n
Report(h) ==
    [acked   |-> nextIn[h] - 1,
     missing |-> {i \in nextIn[h]..Highest(h) : i \notin Ids(incoming[h])},
     highest |-> Highest(h)]

\* The packets of `ids' spread over the connections `act'.
Spread(h, ids, act, via) ==
    [c \in Conn |-> {Data(i, session[h]) : i \in {j \in ids : c \in act /\ via[j] = c}}]

\* Host h processes the packets of `held' that are in order, the first of
\* them `first', and acknowledges them on connection c: `n' is the next
\* number then.
InOrder(first, n, held) ==
    /\ first <= n
    /\ \A i \in first..(n - 1) : i \in Ids(held)
    /\ n \notin Ids(held)
Processed(h, s, first, n, held) ==
    {[mine |-> s, from |-> pk.from, id |-> pk.id] : pk \in {q \in held : first <= q.id /\ q.id < n}}
AckOf(first, n) == IF n = first THEN {} ELSE {Ack(n - 1)}

-----------------------------------------------------------------------------
(* Connections *)

\* Messages of the socket a connection had before are told by the sequence
\* number and discarded.
Leftover(h, c) == chan[h][c]    \* mutant: are not
Fresh(h, c) == {}

\* Host h attaches its end of a connection to its CHost object, made now if
\* there is none, and identifies itself; the other end follows.
Opens(h, c) ==
    LET o == Peer(h)
        first == exec[h] = NoExec IN
    /\ first => made[h] < MaxExec
    /\ exec' = IF first THEN [exec EXCEPT ![h] = made[h] + 1] ELSE exec
    /\ made' = IF first THEN [made EXCEPT ![h] = @ + 1] ELSE made
    /\ session' = IF first THEN [session EXCEPT ![h] = @ + 1] ELSE session
    /\ \/ end[h][c] = "down" /\ end[o][c] = "down"
          /\ end' = [end EXCEPT ![h][c] = "open", ![o][c] = "pending"]
          /\ chan' = [chan EXCEPT ![h][c] = Fresh(h, c),
                                  ![o][c] = Fresh(o, c) \cup {Identify(exec'[h], Report(h))}]
       \/ end[h][c] = "pending"
          /\ end' = [end EXCEPT ![h][c] = "open"]
          /\ chan' = [chan EXCEPT ![o][c] = @ \cup {Identify(exec'[h], Report(h))}]
    /\ UNCHANGED <<lastExec, curOut, outgoing, sent, nextIn, incoming, breaks, done>>

\* f_Reset of one end, on a failure or because the other end is gone.
Loses(h, c) ==
    /\ end[h][c] # "down"
    /\ \/ end[Peer(h)][c] = "down" /\ breaks' = breaks
       \/ breaks < MaxBreaks /\ breaks' = breaks + 1
    /\ end' = [end EXCEPT ![h][c] = "down"]
    /\ UNCHANGED <<exec, lastExec, curOut, outgoing, sent, nextIn, incoming,
                   chan, made, session, done>>

\* f_DestroyHost, for a kicked host, an inactive one, or when the process
\* ends: the CHost object and all its connections are gone.
DestroyHost(h) ==
    /\ h \in Restarting
    /\ exec[h] # NoExec /\ made[h] < MaxExec
    /\ exec' = [exec EXCEPT ![h] = NoExec]
    /\ lastExec' = [lastExec EXCEPT ![h] = NoExec]
    /\ curOut' = [curOut EXCEPT ![h] = 0]
    /\ outgoing' = [outgoing EXCEPT ![h] = {}]
    /\ sent' = [sent EXCEPT ![h] = {}]
    /\ nextIn' = [nextIn EXCEPT ![h] = 1]
    /\ incoming' = [incoming EXCEPT ![h] = {}]
    /\ end' = [end EXCEPT ![h] = [c \in Conn |-> "down"]]
    /\ UNCHANGED <<chan, made, breaks, session, done>>

-----------------------------------------------------------------------------
(* Packets *)

\* A call to an actor the peer published, so after it identified itself.
QueuePacket(h) ==
    /\ h \in Senders
    /\ lastExec[h] # NoExec
    /\ curOut[h] < MaxId
    /\ curOut' = [curOut EXCEPT ![h] = @ + 1]
    /\ outgoing' = [outgoing EXCEPT ![h] = @ \cup {curOut[h] + 1}]
    /\ UNCHANGED <<exec, lastExec, sent, nextIn, incoming, end, chan, made,
                   breaks, session, done>>

SendPacketQueue(h) ==
    /\ outgoing[h] # {} /\ Active(h) # {}
    /\ outgoing' = [outgoing EXCEPT ![h] = {}]
    /\ sent' = [sent EXCEPT ![h] = @ \cup outgoing[h]]
    /\ \E via \in [outgoing[h] -> Active(h)] :
          LET out == Spread(h, outgoing[h], Active(h), via) IN
          chan' = [chan EXCEPT ![Peer(h)] = [c \in Conn |-> @[c] \cup out[c]]]
    /\ UNCHANGED <<exec, lastExec, curOut, nextIn, incoming, end, made, breaks,
                   session, done>>

\* A packet is buffered unless it is there already; those in order are
\* processed if the connection is active.
ReceiveData(h, c, m) ==
    LET known == m.id < nextIn[h] \/ m.id \in Ids(incoming[h])
        held == IF known THEN incoming[h]
                ELSE incoming[h] \cup {[id |-> m.id, from |-> m.from]} IN
    /\ m.kind = "Data"
    /\ \E n \in nextIn[h]..(MaxId + 1) :
          /\ IF known \/ end[h][c] # "active" THEN n = nextIn[h]
                                              ELSE InOrder(nextIn[h], n, held)
          /\ nextIn' = [nextIn EXCEPT ![h] = n]
          /\ incoming' = [incoming EXCEPT ![h] = {pk \in held : pk.id >= n}]
          /\ done' = [done EXCEPT ![h] = @ \cup Processed(h, session[h], nextIn[h], n, held)]
          /\ chan' = [chan EXCEPT ![h][c] = @ \ {m},
                                  ![Peer(h)][c] = @ \cup AckOf(nextIn[h], n)]
    /\ UNCHANGED <<exec, lastExec, curOut, outgoing, sent, end, made, breaks, session>>

\* fp_RemoveAcknowledgedPackets
UnackedAfter(h, n) == {i \in sent[h] : i > n + 1}    \* mutant: drops one too many
Unacked(h, n) == {i \in sent[h] : i > n}

ReceiveAck(h, c, m) ==
    /\ m.kind = "Acknowledge"
    /\ end[h][c] = "active"
    /\ sent' = [sent EXCEPT ![h] = Unacked(h, m.id)]
    /\ chan' = [chan EXCEPT ![h][c] = @ \ {m}]
    /\ UNCHANGED <<exec, lastExec, curOut, outgoing, nextIn, incoming, end, made,
                   breaks, session, done>>

-----------------------------------------------------------------------------
(* The Identify message *)

\* A peer that was seen before and comes with another execution ID.
\* m_LastSeenExecutionID, which is also sent, is not looked at.
NeverResets(h, e) == FALSE    \* mutant: takes a restarted peer for the old one
ShouldReset(h, e) == lastExec[h] \notin {NoExec, e}

\* The packets reported as received are forgotten.  If the peer restarted,
\* fp_ResetHostState drops the queues and the active connections, but keeps
\* those not yet identified.  What the report misses is sent again, the
\* connection becomes active, waiting packets are sent and buffered ones
\* that are in order processed.
ReceiveIdentify(h, c, m) ==
    LET o == Peer(h)
        r == m.report
        reset == ShouldReset(h, m.exec)
        kept == IF reset THEN {} ELSE Unacked(h, r.acked)
        waiting == IF reset THEN {} ELSE outgoing[h]
        again == {i \in kept : i \in r.missing \/ i >= r.highest}
        dropped == IF reset THEN Active(h) ELSE {}
        act == (Active(h) \ dropped) \cup {c}
        first == IF reset THEN 1 ELSE nextIn[h]
        held == IF reset THEN {} ELSE incoming[h] IN
    /\ m.kind = "Identify"
    /\ end[h][c] = "open"
    /\ lastExec' = [lastExec EXCEPT ![h] = m.exec]
    /\ session' = IF reset THEN [session EXCEPT ![h] = @ + 1] ELSE session
    /\ curOut' = IF reset THEN [curOut EXCEPT ![h] = 0] ELSE curOut
    /\ outgoing' = [outgoing EXCEPT ![h] = {}]
    /\ sent' = [sent EXCEPT ![h] = kept \cup waiting]
    /\ end' = [end EXCEPT ![h] = [d \in Conn |-> IF d = c THEN "active"
                                                ELSE IF d \in dropped THEN "down"
                                                ELSE @[d]]]
    /\ \E n \in first..(MaxId + 1), via \in [waiting -> act] :
          LET out == Spread(h, waiting, act, via) IN
          /\ InOrder(first, n, held)
          /\ nextIn' = [nextIn EXCEPT ![h] = n]
          /\ incoming' = [incoming EXCEPT ![h] = {pk \in held : pk.id >= n}]
          /\ done' = [done EXCEPT ![h] = @ \cup Processed(h, session[h], first, n, held)]
          /\ chan' = [chan EXCEPT
                ![h][c] = @ \ {m},
                ![o] = [d \in Conn |-> @[d] \cup out[d] \cup
                          (IF d = c THEN {Data(i, session[h]) : i \in again} \cup AckOf(first, n)
                                    ELSE {})]]
    /\ UNCHANGED <<exec, made, breaks>>

Handles(h, c) ==
    /\ end[h][c] \in {"open", "active"}
    /\ \E m \in chan[h][c] :
          /\ Receives(h, c, m)
          /\ ReceiveData(h, c, m) \/ ReceiveAck(h, c, m) \/ ReceiveIdentify(h, c, m)

Next ==
    \E h \in Host :
        \/ QueuePacket(h)
        \/ SendPacketQueue(h)
        \/ DestroyHost(h)
        \/ \E c \in Conn : Opens(h, c) \/ Loses(h, c) \/ Handles(h, c)

Spec == Init /\ [][Next]_vars

-----------------------------------------------------------------------------
(* Properties *)

\* The sessions of the two sides pair up: what a host processes between two
\* resets is what the other queued between two of its own, and so nothing is
\* processed again by a host that forgot that it had processed it.
SessionsPair ==
    \A h \in Host : \A x, y \in done[h] : (x.mine = y.mine) = (x.from = y.from)

\* Both hosts have identified each other's present CHost object.
Agree ==
    \A h \in Host : exec[h] # NoExec /\ lastExec[Peer(h)] = exec[h]

\* While the hosts agree, a packet the receiver has not processed is with the
\* sender, to be sent or sent again.
Keeps(h) ==
    \A i \in nextIn[Peer(h)]..curOut[h] : i \in outgoing[h] \cup sent[h]
AgreedNoLoss == Agree => \A h \in Host : Keeps(h)

\* A host that itself goes on keeps its packets whenever its peer restarts.
StableHostNoLoss == Agree => \A h \in Host \ Restarting : Keeps(h)

\* A message of a host that is gone never moves the other one back to it:
\* the execution IDs a host accepts only grow, except to none with its own.
PeerNeverGoesBack ==
    [][\A h \in Host : lastExec'[h] # NoExec => lastExec'[h] >= lastExec[h]]_vars

=============================================================================
