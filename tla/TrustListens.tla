---------------------------- MODULE TrustListens ----------------------------
(***************************************************************************)
(* The addresses a trust manager listens on (DistributedTrust_Server.cpp):  *)
(* its map of them and the primary one, the server certificate they share,  *)
(* the database both are saved in, and the listens of the distribution      *)
(* manager (DistributedActor_Manager_Server.cpp).                           *)
(*                                                                          *)
(* All addresses are of one host name, so one certificate serves them. The  *)
(* connections that come in are PacketQueue and HostSession.                *)
(***************************************************************************)
EXTENDS Naturals, Sequences, FiniteSets, TLC

CONSTANTS
    Addresses,      \* listen addresses
    AnyPort,        \* those with port 0, which are never taken
    AddCalls,           \* calls of f_AddListen
    NoAddress,        \* no address, no reference
    MaxSets,        \* bound on calls that remove addresses or change settings
    MaxFailures     \* bound on errors of the disk and the network, and on restarts

VARIABLES
    ready,          \* f_Init is done, everything else waits for it
    window, ref,    \* m_Listen: m_SendWindowBytes, 0 for none, and m_ListenReference
    primary,        \* the address m_pPrimaryListen points at, or Dangling
    certificate,    \* m_ServerCertificates has the host
    generating,     \* m_ServerCertificateGenerations has it
    call,           \* how far each f_AddListen is
    toDatabase, answers,                \* calls of the database, and its answers
    dbWindow, dbPrimary, dbCertificate, \* its files
    known,          \* m_Listens of the distribution manager
    socket,         \* what each of its listens does
    stopping,       \* calls of fp_RemoveListen on their way to it
    ahead,          \* a save failed: memory is ahead of the database
    stray,          \* a listen was put back into m_Listens after it was removed, or
                    \* its reference was overwritten
    sets, failures

Windows == {1, 2}
Dangling == "dangling"

\* The listens of f_Init are named by their address, the others by their call.
IDs == AddCalls \cup Addresses
AddressOf(id) == IF id \in Addresses THEN id ELSE call[id].address
Port(a) == {id \in IDs : socket[id] \in {"bound", "closing"} /\ AddressOf(id) = a}

fileVars == <<dbWindow, dbPrimary, dbCertificate>>
memoryVars == <<window, ref, primary>>
certificateVars == <<certificate, generating>>
socketVars == <<known, socket, stopping, stray>>
boundVars == <<sets, failures>>
vars == <<ready, window, ref, primary, certificate, generating, call, toDatabase, answers, dbWindow,
          dbPrimary, dbCertificate, known, socket, stopping, ahead, stray, sets, failures>>

TypeOK ==
    /\ window \in [Addresses -> 0..2] /\ dbWindow \in [Addresses -> 0..2]
    /\ \A a \in Addresses : ref[a] \in {NoAddress, a} \cup {c \in AddCalls : call[c].address = a}
    /\ primary \in Addresses \cup {NoAddress, Dangling} /\ dbPrimary \in Addresses \cup {NoAddress}
    /\ \A c \in AddCalls : call[c].at \in {"idle", "waiting", "serial", "signing", "saving", "listening",
                                       "bound", "adding", "done"}
    /\ known \cup stopping \subseteq IDs
    /\ socket \in [IDs -> {"none", "trying", "retry", "bound", "closing"}]

Init ==
    /\ ready = TRUE
    /\ window = [a \in Addresses |-> 0] /\ ref = [a \in Addresses |-> NoAddress]
    /\ primary = NoAddress
    /\ certificate = FALSE /\ generating = FALSE
    /\ call = [c \in AddCalls |-> [at |-> "idle", address |-> NoAddress]]
    /\ toDatabase = <<>> /\ answers = <<>>
    /\ dbWindow = [a \in Addresses |-> 0] /\ dbPrimary = NoAddress /\ dbCertificate = FALSE
    /\ known = {} /\ socket = [id \in IDs |-> "none"] /\ stopping = {}
    /\ ahead = FALSE /\ stray = FALSE
    /\ sets = 0 /\ failures = 0

Set == ready /\ sets < MaxSets /\ sets' = sets + 1
Fails == failures < MaxFailures /\ failures' = failures + 1

Ask(kind, c, a, w) ==
    toDatabase' = Append(toDatabase, [kind |-> kind, call |-> c, address |-> a, window |-> w])

Goes(c, at) == call' = [call EXCEPT ![c].at = at]

----------------------------------------------------------------------------
(* The server certificate (f_GetCertificateData), once for all that need it. *)

AddListen(c, a) ==
    /\ ready /\ call[c].at = "idle" /\ window[a] = 0
    /\ LET at == IF certificate THEN "listening" ELSE IF generating THEN "waiting" ELSE "serial" IN
       /\ call' = [call EXCEPT ![c] = [at |-> at, address |-> a]]
       /\ socket' = IF certificate THEN [socket EXCEPT ![c] = "trying"] ELSE socket
       /\ IF at = "serial" THEN generating' = TRUE /\ Ask("serial", c, a, 0)
          ELSE UNCHANGED <<generating, toDatabase>>
    /\ UNCHANGED <<ready, memoryVars, certificate, answers, fileVars, known, stopping, stray,
                   ahead, boundVars>>

Waiting == {c \in AddCalls : call[c].at = "waiting"}

WakeNobody(c, ok) ==     \* mutant: the scope exit runs on success only
    LET woken == IF ok THEN Waiting ELSE {} IN
    /\ call' = [d \in AddCalls |-> IF d \in woken \cup {c}
                               THEN [call[d] EXCEPT !.at = IF ok THEN "listening" ELSE "done"]
                               ELSE call[d]]
    /\ socket' = [id \in IDs |-> IF ok /\ id \in woken \cup {c} THEN "trying" ELSE socket[id]]

\* Those that have a certificate ask the distribution manager to listen; without
\* one their calls fail.
WakeWaiting(c, ok) ==
    LET woken == Waiting \cup {c} IN
    /\ call' = [d \in AddCalls |-> IF d \in woken
                               THEN [call[d] EXCEPT !.at = IF ok THEN "listening" ELSE "done"]
                               ELSE call[d]]
    /\ socket' = [id \in IDs |-> IF ok /\ id \in woken THEN "trying" ELSE socket[id]]

\* The call that generates goes on, or ends, with its scope exit.
Generated(c, ok) ==
    /\ certificate' = ok /\ generating' = FALSE
    /\ WakeWaiting(c, ok)

\* The key is made and the certificate signed on another actor.
Sign(c) ==
    /\ call[c].at = "signing"
    /\ \/ /\ Goes(c, "saving") /\ Ask("certificate", c, NoAddress, 0)
          /\ UNCHANGED <<certificateVars, socket, failures>>
       \/ Fails /\ Generated(c, FALSE) /\ UNCHANGED toDatabase
    /\ UNCHANGED <<ready, memoryVars, answers, fileVars, known, stopping, stray, ahead, sets>>

----------------------------------------------------------------------------
(* The distribution manager (f_Listen, fp_ListenTry, fp_RemoveListen).      *)

\* Listens that f_Init started are tried again, also when they were removed.
Retries(id) == id \in Addresses

ListenTry(id) ==
    /\ socket[id] = "trying"
    /\ \/ /\ AddressOf(id) \in AnyPort \/ Port(AddressOf(id)) = {}
          /\ socket' = [socket EXCEPT ![id] = "bound"]
          /\ known' = known \cup {id}
          /\ call' = IF id \in AddCalls THEN [call EXCEPT ![id].at = "bound"] ELSE call
          /\ stray' = (stray \/ (ready /\ Retries(id) /\ id \notin known))
          /\ UNCHANGED failures
       \/ /\ IF AddressOf(id) \notin AnyPort /\ Port(AddressOf(id)) # {} THEN UNCHANGED failures
             ELSE Fails
          /\ socket' = [socket EXCEPT ![id] = IF Retries(id) THEN "retry" ELSE "none"]
          /\ known' = IF Retries(id) THEN known \cup {id} ELSE known
          /\ call' = IF id \in AddCalls THEN [call EXCEPT ![id].at = "done"] ELSE call
          /\ stray' = (stray \/ (ready /\ Retries(id) /\ id \notin known))
    /\ UNCHANGED <<ready, memoryVars, certificateVars, toDatabase, answers, fileVars, stopping,
                   ahead, sets>>

\* The timer looks whether the listen was removed.
RetryTimer(id) ==
    /\ socket[id] = "retry"
    /\ socket' = [socket EXCEPT ![id] = IF id \in known THEN "trying" ELSE "none"]
    /\ UNCHANGED <<ready, memoryVars, certificateVars, call, toDatabase, answers, fileVars, known,
                   stopping, stray, ahead, boundVars>>

RemoveListenID(id) ==
    /\ id \in stopping
    /\ stopping' = stopping \ {id}
    /\ known' = known \ {id}
    /\ socket' = IF socket[id] = "bound" THEN [socket EXCEPT ![id] = "closing"] ELSE socket
    /\ UNCHANGED <<ready, memoryVars, certificateVars, call, toDatabase, answers, fileVars, stray,
                   ahead, boundVars>>

Closed(id) ==
    /\ socket[id] = "closing"
    /\ socket' = [socket EXCEPT ![id] = "none"]
    /\ UNCHANGED <<ready, memoryVars, certificateVars, call, toDatabase, answers, fileVars, known,
                   stopping, stray, ahead, boundVars>>

----------------------------------------------------------------------------
(* Adding an address, on from the answer of f_Listen.                       *)

\* A reference that is dropped stops its listen.
Dropped(id) == stopping' = IF id = NoAddress THEN stopping ELSE stopping \cup {id}

\* The entry is made, or taken over from a call that overlapped: assigning a
\* reference does not stop the listen of the one before.
InsertListen(c) ==
    LET a == call[c].address IN
    /\ call[c].at = "bound"
    /\ window' = [window EXCEPT ![a] = 1]
    /\ ref' = [ref EXCEPT ![a] = c]
    /\ stray' = (stray \/ ref[a] # NoAddress)
    /\ Goes(c, "adding") /\ Ask("add", c, a, 1)
    /\ UNCHANGED <<ready, primary, certificateVars, answers, fileVars, known, socket, stopping, ahead,
                   boundVars>>

\* The database has answered: with an error, the entry of the address goes, and
\* m_pPrimaryListen still points at it.
Answered ==
    /\ answers # <<>>
    /\ answers' = Tail(answers)
    /\ LET c == Head(answers).call
           a == call[c].address
           ok == Head(answers).ok
       IN CASE call[c].at = "serial" ->
                 /\ IF ok THEN Goes(c, "signing") /\ UNCHANGED <<certificateVars, socket>>
                    ELSE Generated(c, FALSE)
                 /\ UNCHANGED <<memoryVars, stopping>>
            [] call[c].at = "saving" ->
                 Generated(c, ok) /\ UNCHANGED <<memoryVars, stopping>>
            [] call[c].at = "adding" ->
                 /\ Goes(c, "done")
                 /\ IF ok THEN UNCHANGED <<memoryVars, stopping>>
                    ELSE /\ window' = [window EXCEPT ![a] = 0]
                         /\ ref' = [ref EXCEPT ![a] = NoAddress]
                         /\ Dropped(ref[a])
                         /\ primary' = IF primary = a THEN Dangling ELSE primary
                 /\ UNCHANGED <<certificateVars, socket>>
    /\ UNCHANGED <<ready, toDatabase, fileVars, known, stray, ahead, boundVars>>

----------------------------------------------------------------------------
(* The other operations change memory first, and save in the same step.     *)

SetPrimaryListen(a) ==
    /\ Set
    /\ a # NoAddress => window[a] # 0
    /\ primary' = a
    /\ Ask("primary", NoAddress, a, 0)
    /\ UNCHANGED <<ready, window, ref, certificateVars, call, answers, fileVars, socketVars, ahead,
                   failures>>

SetListenSendWindow(a) ==
    /\ Set /\ window[a] # 0
    /\ window' = [window EXCEPT ![a] = 3 - @]
    /\ Ask("set", NoAddress, a, window'[a])
    /\ UNCHANGED <<ready, ref, primary, certificateVars, call, answers, fileVars, socketVars, ahead,
                   failures>>

PrimaryWithout(a) == IF primary = a THEN NoAddress ELSE primary

\* The database is asked also about an address that is not there. A pointer that
\* dangles may by chance be that of the entry.
RemoveListen(a) ==
    /\ Set
    /\ window' = [window EXCEPT ![a] = 0]
    /\ ref' = [ref EXCEPT ![a] = NoAddress]
    /\ \/ primary' = PrimaryWithout(a)
       \/ primary = Dangling /\ window[a] # 0 /\ primary' = NoAddress
    /\ Dropped(ref[a])
    /\ Ask("remove", NoAddress, a, 0)
    /\ UNCHANGED <<ready, certificateVars, call, answers, fileVars, known, socket, stray, ahead,
                   failures>>

----------------------------------------------------------------------------
(* The database, one call after the other.                                  *)

\* What it refuses: to add what is there, to set or remove what is not.
Refuses(m) ==
    CASE m.kind = "add" -> dbWindow[m.address] # 0
      [] m.kind \in {"set", "remove"} -> dbWindow[m.address] = 0
      [] m.kind = "certificate" -> dbCertificate
      [] OTHER -> FALSE

\* The primary goes first, also when there is no such address.
Repaired(m) == dbPrimary' = IF m.kind = "remove" /\ dbPrimary = m.address THEN NoAddress ELSE dbPrimary

Writes(m) ==
    /\ dbWindow' = IF m.kind \in {"add", "set", "remove"}
                   THEN [dbWindow EXCEPT ![m.address] = m.window] ELSE dbWindow
    /\ dbCertificate' = (dbCertificate \/ m.kind = "certificate")
    /\ IF m.kind = "primary" THEN dbPrimary' = m.address ELSE Repaired(m)

DatabaseHandles ==
    /\ toDatabase # <<>>
    /\ toDatabase' = Tail(toDatabase)
    /\ LET m == Head(toDatabase)
           Answer(ok) == answers' = IF m.call = NoAddress THEN answers
                                    ELSE Append(answers, [call |-> m.call, ok |-> ok])
       IN \/ /\ ~Refuses(m) /\ Writes(m) /\ Answer(TRUE)
             /\ UNCHANGED <<ahead, failures>>
          \/ /\ Refuses(m) /\ Repaired(m) /\ Answer(FALSE)
             /\ ahead' = (ahead \/ m.kind # "remove")
             /\ UNCHANGED <<dbWindow, dbCertificate, failures>>
          \/ /\ Fails /\ Answer(FALSE)
             /\ Repaired(m) \/ UNCHANGED dbPrimary
             /\ ahead' = (ahead \/ m.kind \notin {"serial", "certificate"})
             /\ UNCHANGED <<dbWindow, dbCertificate>>
    /\ UNCHANGED <<ready, memoryVars, certificateVars, call, socketVars, sets>>

----------------------------------------------------------------------------

\* The process ends and starts again, also between the two files of a removal: f_Init reads the
\* database and listens on what it finds, as often as it takes.
Restart ==
    /\ Fails
    /\ \E part \in BOOLEAN :
          dbPrimary' = IF part /\ toDatabase # <<>> /\ Head(toDatabase).kind = "remove"
                          /\ Head(toDatabase).address = dbPrimary THEN NoAddress ELSE dbPrimary
    /\ LET found == {a \in Addresses : dbWindow[a] # 0} IN
       /\ ready' = (found = {})
       /\ primary' = IF dbPrimary' \in found THEN dbPrimary' ELSE NoAddress
       /\ socket' = [id \in IDs |-> IF id \in found THEN "trying" ELSE "none"]
    /\ window' = dbWindow /\ ref' = [a \in Addresses |-> NoAddress]
    /\ certificate' = dbCertificate /\ generating' = FALSE
    /\ call' = [c \in AddCalls |-> IF call[c].at = "idle" THEN call[c] ELSE [call[c] EXCEPT !.at = "done"]]
    /\ toDatabase' = <<>> /\ answers' = <<>> /\ known' = {} /\ stopping' = {}
    /\ ahead' = (dbPrimary' # primary') /\ stray' = FALSE
    /\ UNCHANGED <<dbWindow, dbCertificate, sets>>

\* Every listen of f_Init was tried once.
Initialized ==
    /\ ~ready /\ {a \in Addresses : window[a] # 0} \subseteq known
    /\ ready' = TRUE
    /\ ref' = [a \in Addresses |-> IF window[a] # 0 THEN a ELSE NoAddress]
    /\ UNCHANGED <<window, primary, certificateVars, call, toDatabase, answers, fileVars, socketVars,
                   ahead, boundVars>>

\* Listens of f_Init may be tried for ever, the rest is done and over.
Progress ==
    \/ \E c \in AddCalls : Sign(c) \/ InsertListen(c)
    \/ \E id \in IDs : RemoveListenID(id) \/ Closed(id)
    \/ \E c \in AddCalls : ListenTry(c)
    \/ Answered \/ DatabaseHandles \/ Initialized

Next ==
    \/ Progress \/ Restart
    \/ \E a \in Addresses : ListenTry(a) \/ RetryTimer(a)
    \/ \E a \in Addresses :
          \/ SetPrimaryListen(a) \/ SetListenSendWindow(a) \/ RemoveListen(a)
          \/ \E c \in AddCalls : AddListen(c, a)
    \/ SetPrimaryListen(NoAddress)

Spec == Init /\ [][Next]_vars /\ WF_vars(Progress)

----------------------------------------------------------------------------

Generators == {c \in AddCalls : call[c].at \in {"serial", "signing", "saving"}}
AtRest == toDatabase = <<>> /\ answers = <<>> /\ \A c \in AddCalls : call[c].at # "bound"

\* One call generates the certificate while others wait, and what is stored can
\* be listened on after a restart, whenever it comes. Unless a save failed, memory
\* and database agree when all calls are answered, the primary address is one that
\* is listened on, and the database refuses only the second of two calls that add
\* an address with any port at once. And unless a listen was removed while it was
\* tried again, or lost its reference to such a second call, the distribution manager
\* listens for those that have a reference.
ListensAreKept ==
    /\ generating <=> Cardinality(Generators) = 1
    /\ Waiting # {} => generating
    /\ (\E a \in Addresses : dbWindow[a] # 0) => dbCertificate
    /\ certificate => dbCertificate
    /\ ~ahead =>
          /\ AtRest => window = dbWindow /\ primary = dbPrimary
          /\ primary # NoAddress => window[primary] # 0
          /\ toDatabase # <<>> /\ Refuses(Head(toDatabase)) =>
                Head(toDatabase).kind = "remove" \/ Head(toDatabase).address \in AnyPort
    /\ ~stray /\ ready /\ stopping = {} =>
          known = {id \in IDs : (\E a \in Addresses : ref[a] = id)
                                \/ (id \in AddCalls /\ call[id].at = "bound")}

\* Every call that adds an address ends.
EveryAddEnds == \A c \in AddCalls : []<>(call[c].at \in {"idle", "done"})
=============================================================================
