-------------------------- MODULE TrustConnections --------------------------
(***************************************************************************)
(* The connections a trust manager keeps to one server                      *)
(* (DistributedTrust_Connection.cpp): adding an address with a ticket or on *)
(* the trust of another address, settings, removal, the database, the       *)
(* certificates the server issues, and a restart.                           *)
(*                                                                          *)
(* A certificate is its number; the server lets in who has the last one. A  *)
(* connection that is up is ClientConnection; here it is its settings.      *)
(***************************************************************************)
EXTENDS Naturals, Sequences, FiniteSets, TLC

CONSTANTS
    Servers,        \* addresses of the server
    Known,          \* those that are connected when the behaviour starts
    Ops,            \* calls of the trust manager
    Nobody,         \* no call, no connection
    MaxErrors       \* bound on errors of the database and the network, and on restarts

VARIABLES
    conn,           \* m_ClientConnections
    inDatabase,     \* m_ClientConnectionsInDatabase
    stored,         \* the files of the database
    requests,       \* calls of the database
    replies,        \* its answers
    op,             \* how far each call is, and what it remembers
    issued,         \* the last certificate in the server's database
    pending,        \* connections f_ApplyConnectionConcurrency started
    failed,         \* a call ended with an error after it had changed something
    raced,          \* calls that add and remove one address overlapped
    behind,         \* a connection got a certificate or settings that were replaced
    errors

Sizes == {1, 2}     \* of m_ConnectionConcurrency, m_SendWindowBytes
Kinds == {"trust", "additional", "remove", "concurrency", "window"}
Places(kind) == kind \in {"trust", "additional", "remove"}

Saved(c) == [cert |-> c.cert, size |-> c.size, window |-> c.window]
Settings(c) == [cert |-> c.cert, window |-> c.window]
Original == [cert |-> 1, size |-> 1, window |-> 1]
Connected(r, refs) == [cert |-> r.cert, size |-> r.size, window |-> r.window, refs |-> refs,
                       removing |-> FALSE]
Idle == [at |-> "idle", kind |-> "trust", address |-> Nobody, to |-> 1, cert |-> 0,
         spoiled |-> FALSE]

storeVars == <<stored, requests, replies>>
histories == <<failed, raced, behind>>
vars == <<conn, inDatabase, stored, requests, replies, op, issued, pending, failed, raced, behind,
          errors>>

TypeOK ==
    /\ inDatabase \subseteq Servers
    /\ \A a \in Servers :
          /\ conn[a] # Nobody => /\ conn[a].cert \in 1..issued /\ {conn[a].size, conn[a].window} \subseteq Sizes
                                 /\ \A n \in DOMAIN conn[a].refs : conn[a].refs[n].cert \in 1..issued
          /\ stored[a] # Nobody => stored[a].cert \in 1..issued
    /\ \A o \in Ops : op[o].kind \in Kinds /\ op[o].cert \in 0..issued
    /\ \A p \in DOMAIN pending : pending[p].state \in {"connecting", "up", "down"}

Init ==
    /\ conn = [a \in Servers |-> IF a \in Known THEN Connected(Original, <<Settings(Original)>>) ELSE Nobody]
    /\ inDatabase = Known
    /\ stored = [a \in Servers |-> IF a \in Known THEN Original ELSE Nobody]
    /\ requests = <<>> /\ replies = <<>>
    /\ op = [o \in Ops |-> Idle]
    /\ issued = 1 /\ pending = <<>>
    /\ failed = FALSE /\ raced = FALSE /\ behind = FALSE
    /\ errors = 0

Err == errors < MaxErrors /\ errors' = errors + 1
There(a) == conn[a] # Nobody
Goes(o, at) == op' = [op EXCEPT ![o].at = at]

Request(o, kind, a, r) == [op |-> o, own |-> TRUE, kind |-> kind, address |-> a, record |-> r]
Other(request) == [request EXCEPT !.own = FALSE]
Asks(o, kind, a, r) == requests' = Append(requests, Request(o, kind, a, r))

\* f_SetClientConnection or f_AddClientConnection, by what is in the database.
SaveKind(a) == IF a \in inDatabase THEN "set" ELSE "add"

----------------------------------------------------------------------------
(* f_ApplyConnectionConcurrency                                             *)

Start(a, c) == [address |-> a, settings |-> Settings(c), state |-> "connecting"]

\* Puts c at a: connections above m_ConnectionConcurrency are dropped, those
\* that are missing are made, with the settings of now.
Apply(a, c) ==
    LET missing == IF c.size > Len(c.refs) THEN c.size - Len(c.refs) ELSE 0 IN
    /\ conn' = [conn EXCEPT ![a] = [c EXCEPT !.refs = SubSeq(@, 1, IF Len(@) < c.size THEN Len(@) ELSE c.size)]]
    /\ pending' = pending \o [n \in 1..missing |-> Start(a, c)]

Lets(cert) == cert = issued

\* An attempt ends: the server validates the certificate then.
PendingConnects(n) ==
    /\ pending[n].state = "connecting"
    /\ \/ /\ Lets(pending[n].settings.cert) /\ UNCHANGED errors
          /\ pending' = [pending EXCEPT ![n].state = "up"]
       \/ /\ IF Lets(pending[n].settings.cert) THEN Err ELSE UNCHANGED errors
          /\ pending' = [pending EXCEPT ![n].state = "down"]
    /\ UNCHANGED <<conn, inDatabase, storeVars, op, issued, histories>>

Without(s, n) == SubSeq(s, 1, n - 1) \o SubSeq(s, n + 1, Len(s))

\* The connection is taken if there is still room for it.
PendingArrives(n) ==
    LET p == pending[n] IN
    /\ p.state # "connecting"
    /\ pending' = Without(pending, n)
    /\ IF There(p.address) /\ ~conn[p.address].removing /\ p.state = "up"
          /\ Len(conn[p.address].refs) < conn[p.address].size
       THEN /\ conn' = [conn EXCEPT ![p.address].refs = Append(@, p.settings)]
            /\ behind' = (behind \/ p.settings # Settings(conn[p.address]))
            /\ UNCHANGED failed
       ELSE failed' = (failed \/ p.state = "down") /\ UNCHANGED <<conn, behind>>
    /\ UNCHANGED <<inDatabase, storeVars, op, issued, raced, errors>>

----------------------------------------------------------------------------
(* Calls start.                                                            *)

Begins(o, kind, a, at, to) ==
    /\ op[o].at = "idle"
    /\ op' = [op EXCEPT ![o] = [at |-> at, kind |-> kind, address |-> a, to |-> to, cert |-> 0,
                                spoiled |-> FALSE]]
    /\ raced' = (raced \/ (Places(kind)
                           /\ \E p \in Ops : /\ Places(op[p].kind) /\ op[p].address = a
                                             /\ op[p].at \notin {"idle", "done"}))

\* f_AddClientConnection drops a connection to the address from memory.
AddClientConnection(o, a, size) ==
    /\ Begins(o, "trust", a, "anonymous", size)
    /\ conn' = [conn EXCEPT ![a] = Nobody]
    /\ UNCHANGED <<inDatabase, storeVars, issued, pending, failed, behind, errors>>

AddAdditionalClientConnection(o, a, size) ==
    /\ ~There(a)
    /\ Begins(o, "additional", a, "anonymous", size)
    /\ UNCHANGED <<conn, inDatabase, storeVars, issued, pending, failed, behind, errors>>

SetLate(o, a, field, to) ==     \* mutant: memory changes when it is saved
    /\ There(a) /\ conn[a][field] # to
    /\ Begins(o, IF field = "size" THEN "concurrency" ELSE "window", a, "saving", to)
    /\ Asks(o, "set", a, Saved([conn[a] EXCEPT ![field] = to]))
    /\ UNCHANGED <<conn, inDatabase, stored, replies, issued, pending, failed, behind, errors>>

\* f_SetClientConnectionConcurrency, f_SetClientConnectionSendWindow: memory is
\* changed before a copy is saved.
Sets(o, a, field, to) ==
    /\ There(a) /\ conn[a][field] # to
    /\ Begins(o, IF field = "size" THEN "concurrency" ELSE "window", a, "saving", to)
    /\ conn' = [conn EXCEPT ![a][field] = to]
    /\ Asks(o, "set", a, Saved(conn'[a]))
    /\ UNCHANGED <<inDatabase, stored, replies, issued, pending, failed, behind, errors>>

RemoveClientConnection(o, a) ==
    /\ Begins(o, "remove", a, "saving", 1)
    /\ inDatabase' = inDatabase \ {a}
    /\ Asks(o, "remove", a, Original)
    /\ UNCHANGED <<conn, stored, replies, issued, pending, failed, behind, errors>>

----------------------------------------------------------------------------
(* Adding: the server and its certificate.                                 *)

Ends(o) == Goes(o, "done")

\* A connection could not be made, or what was asked of the server failed.
AddFails(o) ==
    /\ op[o].at \in {"anonymous", "asked", "signing", "verify"}
    /\ Err /\ Ends(o)
    /\ failed' = TRUE
    /\ UNCHANGED <<conn, inDatabase, storeVars, issued, pending, raced, behind>>

\* With a ticket, the server is asked to sign; else a connection to it is copied.
AnonymousConnected(o) ==
    /\ op[o].at = "anonymous"
    /\ IF op[o].kind = "trust" THEN Goes(o, "asked") /\ UNCHANGED failed
       ELSE IF \E b \in Servers : There(b)
       THEN /\ \E b \in Servers : There(b) /\ op' = [op EXCEPT ![o].at = "verify",
                                                               ![o].cert = conn[b].cert]
            /\ UNCHANGED failed
       ELSE Ends(o) /\ failed' = TRUE
    /\ UNCHANGED <<conn, inDatabase, storeVars, issued, pending, raced, behind, errors>>

Verified(o) ==
    /\ op[o].at = "verify"
    /\ Goes(o, "final")
    /\ UNCHANGED <<conn, inDatabase, storeVars, issued, pending, histories, errors>>

\* f_SignCertificate at the server saves the certificate it issues.
SignCertificate(o) ==
    /\ op[o].at = "asked"
    /\ issued' = issued + 1
    /\ op' = [op EXCEPT ![o].at = "signing", ![o].cert = issued']
    /\ UNCHANGED <<conn, inDatabase, storeVars, pending, histories, errors>>

Record(o) == [cert |-> op[o].cert, size |-> op[o].to, window |-> 1]

\* Requests in any order of the addresses as.
Orders(as) == {s \in [1..Cardinality(as) -> as] : \A a \in as : \E n \in DOMAIN s : s[n] = a}

\* The certificate is put into the other connections, which are saved too, if
\* they are in the database, before the new one.
Signed(o) ==
    LET a == op[o].address
        others == {b \in Servers : There(b)}
        renewed == [b \in Servers |->
                       IF b \in others
                       THEN LET c == [conn[b] EXCEPT !.cert = op[o].cert] IN
                            [c EXCEPT !.refs = [n \in DOMAIN @ |-> Settings(c)]]
                       ELSE Nobody]
    IN /\ op[o].at = "signing"
       /\ conn' = renewed
       /\ behind' = (behind \/ op[o].cert # issued)
       /\ \E order \in Orders(others \cap inDatabase) :
             requests' = requests
                 \o [n \in DOMAIN order |-> Other(Request(o, "set", order[n], Saved(renewed[order[n]])))]
                 \o <<Request(o, SaveKind(a), a, Record(o))>>
       /\ inDatabase' = inDatabase \cup {a}
       /\ Goes(o, "saving")
       /\ UNCHANGED <<stored, replies, issued, pending, failed, raced, errors>>

\* The final connection, made with the certificate: before saving it for an
\* additional address, after saving it with a ticket.
FinalConnects(o) ==
    /\ op[o].at = "final"
    /\ \/ Lets(op[o].cert) /\ Goes(o, "up") /\ UNCHANGED errors
       \/ (IF Lets(op[o].cert) THEN Err ELSE UNCHANGED errors) /\ Goes(o, "down")
    /\ UNCHANGED <<conn, inDatabase, storeVars, issued, pending, histories>>

\* The connection is put into memory with what the call remembers.
Insert(o) ==
    LET a == op[o].address
        refs == IF There(a) THEN conn[a].refs ELSE <<>>
        new == Connected(Record(o), Append(refs, Settings(Record(o))))
    IN /\ Apply(a, [new EXCEPT !.removing = There(a) /\ conn[a].removing])
       /\ behind' = (behind \/ (op[o].cert # issued /\ \A p \in Ops : op[p].at # "signing"))
       /\ Ends(o)

FinalArrives(o) ==
    LET a == op[o].address IN
    \/ /\ op[o].at = "up" /\ op[o].kind = "trust"
       /\ Insert(o)
       /\ UNCHANGED <<inDatabase, storeVars, issued, failed, raced, errors>>
    \/ /\ op[o].at = "up" /\ op[o].kind = "additional"
       /\ Asks(o, SaveKind(a), a, Record(o))
       /\ inDatabase' = inDatabase \cup {a}
       /\ Goes(o, "saving")
       /\ UNCHANGED <<conn, stored, replies, issued, pending, histories, errors>>
    \/ /\ op[o].at = "down" /\ op[o].kind = "trust"
       /\ inDatabase' = inDatabase \ {a}
       /\ Asks(o, "remove", a, Original)
       /\ Goes(o, "undo")
       /\ failed' = TRUE
       /\ UNCHANGED <<conn, stored, replies, issued, pending, raced, behind, errors>>
    \/ /\ op[o].at = "down" /\ op[o].kind = "additional"
       /\ Ends(o)
       /\ failed' = TRUE
       /\ UNCHANGED <<conn, inDatabase, storeVars, issued, pending, raced, behind, errors>>

----------------------------------------------------------------------------
(* The database, one call after the other, and what its answers resume: a  *)
(* call that saved other connections too fails when one of them did.        *)

Refuses(r) == (r.kind = "add") # (stored[r.address] = Nobody)

Handles ==
    /\ requests # <<>>
    /\ requests' = Tail(requests)
    /\ LET r == Head(requests)
           Answer(ok) ==
               /\ replies' = IF r.own
                             THEN Append(replies, [op |-> r.op, ok |-> ok /\ ~op[r.op].spoiled])
                             ELSE replies
               /\ op' = [op EXCEPT ![r.op].spoiled = @ \/ (~ok /\ ~r.own)]
       IN \/ /\ ~Refuses(r) /\ Answer(TRUE)
             /\ stored' = [stored EXCEPT ![r.address] = IF r.kind = "remove" THEN Nobody ELSE r.record]
             /\ UNCHANGED <<failed, errors>>
          \/ /\ IF Refuses(r) THEN UNCHANGED errors ELSE Err
             /\ Answer(FALSE) /\ UNCHANGED stored
             /\ failed' = (failed \/ ~Refuses(r))
    /\ UNCHANGED <<conn, inDatabase, issued, pending, raced, behind>>

Resumes ==
    /\ replies # <<>>
    /\ replies' = Tail(replies)
    /\ LET o == Head(replies).op
           a == op[o].address
           ok == Head(replies).ok
       IN CASE ~ok \/ op[o].at = "undo" ->
                 /\ Ends(o)
                 /\ UNCHANGED <<conn, pending, behind>>
            [] op[o].kind = "trust" /\ ok /\ op[o].at # "undo" ->
                 /\ Goes(o, "final")
                 /\ UNCHANGED <<conn, pending, behind>>
            [] op[o].kind = "additional" /\ ok ->
                 Insert(o)
            [] op[o].kind = "remove" /\ ok ->
                 /\ IF There(a)
                    THEN /\ conn' = [conn EXCEPT ![a].removing = TRUE]
                         /\ Goes(o, "disconnect")
                    ELSE UNCHANGED conn /\ Ends(o)
                 /\ UNCHANGED <<pending, behind>>
            [] op[o].kind = "concurrency" /\ ok ->
                 /\ IF There(a) THEN Apply(a, conn[a]) ELSE UNCHANGED <<conn, pending>>
                 /\ Ends(o) /\ UNCHANGED behind
            [] op[o].kind = "window" /\ ok ->
                 /\ conn' = IF There(a)
                            THEN [conn EXCEPT ![a].refs = [n \in DOMAIN @ |-> Settings(conn[a])]]
                            ELSE conn
                 /\ Ends(o) /\ UNCHANGED <<pending, behind>>
    /\ UNCHANGED <<inDatabase, stored, requests, issued, failed, raced, errors>>

\* The connections are closed, and whatever is at the address then is removed.
Disconnected(o) ==
    /\ op[o].at = "disconnect"
    /\ conn' = [conn EXCEPT ![op[o].address] = Nobody]
    /\ Ends(o)
    /\ UNCHANGED <<inDatabase, storeVars, issued, pending, histories, errors>>

\* f_Init connects to what is stored, and makes the other connections then.
Boot ==
    /\ Err
    /\ inDatabase' = {a \in Servers : stored[a] # Nobody}
    /\ conn' = [a \in Servers |-> IF stored[a] = Nobody THEN Nobody
                                  ELSE Connected(stored[a], <<Settings(stored[a])>>)]
    /\ requests' = <<>> /\ replies' = <<>>
    /\ op' = [o \in Ops |-> IF op[o].at = "idle" THEN op[o] ELSE [op[o] EXCEPT !.at = "done"]]
    /\ \E order \in Orders({a \in Servers : stored[a] # Nobody /\ stored[a].size = 2}) :
          pending' = [n \in DOMAIN order |-> Start(order[n], stored[order[n]])]
    /\ behind' = \E a \in Servers : stored[a] # Nobody /\ stored[a].cert # issued
    /\ failed' = FALSE /\ raced' = FALSE
    /\ UNCHANGED <<stored, issued>>

----------------------------------------------------------------------------

Progress ==
    \/ \E n \in DOMAIN pending : PendingConnects(n) \/ PendingArrives(n)
    \/ \E o \in Ops :
          \/ AnonymousConnected(o) \/ Verified(o) \/ SignCertificate(o) \/ Signed(o)
          \/ FinalConnects(o) \/ FinalArrives(o) \/ Disconnected(o) \/ AddFails(o)
    \/ Handles \/ Resumes

Next ==
    \/ Progress \/ Boot
    \/ \E o \in Ops, a \in Servers :
          \/ RemoveClientConnection(o, a)
          \/ \E size \in Sizes :
                \/ AddClientConnection(o, a, size) \/ AddAdditionalClientConnection(o, a, size)
                \/ Sets(o, a, "size", size) \/ Sets(o, a, "window", size)

Spec == Init /\ [][Next]_vars /\ WF_vars(Progress)

----------------------------------------------------------------------------

Settled == requests = <<>> /\ replies = <<>> /\ \A o \in Ops : op[o].at \in {"idle", "done"}

\* When all calls have ended, and none failed half way and no two that add and
\* remove one address overlapped, the database holds what memory holds, whatever
\* setters overlapped with what. A connection has not more than the connections it
\* was set to have, and it has that many, with its certificate and settings, when none
\* is on its way, unless one got its certificate or settings before others replaced
\* them; and its certificate is then the one the server issued last.
ConnectionsAreKept ==
    Settled /\ ~failed /\ ~raced =>
          /\ \A a \in Servers : There(a) => Len(conn[a].refs) <= conn[a].size
          /\ \A a \in Servers : stored[a] = IF There(a) THEN Saved(conn[a]) ELSE Nobody
          /\ inDatabase = {a \in Servers : There(a)}
          /\ pending = <<>> /\ ~behind => \A a \in Servers : There(a) =>
                /\ conn[a].cert = issued
                /\ conn[a].refs = [n \in 1..conn[a].size |-> Settings(conn[a])]

\* Every call of the trust manager ends.
EveryOpEnds == \A o \in Ops : []<>(op[o].at \in {"idle", "done"})
=============================================================================
