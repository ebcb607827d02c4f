------------------------ MODULE MCDistributedParts ------------------------
(***************************************************************************)
(* The parts between hosts that share no state, side by side: a behaviour   *)
(* is one of one part, chosen in the initial state, in which the others do  *)
(* not move. The log store is two of them, with an upstream and with a      *)
(* reader, which share nothing but the store.                               *)
(***************************************************************************)
EXTENDS FiniteSets

CONSTANTS
    RemoteCallers, MaxSession,                      \* RemoteCalls
    Actors, Subscribers, MaxChanges,                \* Publications
    MaxSequence,                                    \* ClientConnection
    Hosts, TrustSubscribers, OfSecond, MaxTrustChanges,             \* TrustedActors
    MaxReports, MaxFaults,                          \* LogStore
    FirstUser, SecondUser, Checkers, MaxGrants, MaxAsks, MaxClock   \* Authentications

ASSUME DistributedAssumption == IsFiniteSet(RemoteCallers) /\ IsFiniteSet(Actors)
\* A permission subscription is not the trust manager.
ASSUME CheckersAssumption == "manager" \notin Checkers

VARIABLES
    part,       \* the part this behaviour is one of
    cSession, sSession, toS, toC, calls, made, functors, refs, pending, posts, user, running, sSubs,
    ending,
    pSession, rSession, toR, toP, published, allowed, nextWait, waiting, remoteActors, subscribed,
    notes, known, changes,
    settings, entry, sequence, attempts, timers, socket, identify, host, open, answer, reference,
    overtaken,
    offered, instance, reporting, toDist, distNotes, exists, ns, counter, dispatched, stored,
    toDatabase, resumes, phase, view, mail, deferred, lost, erased, trustChanges,
    lastSeen, db, saved, reports, report, reporter, failed, tasks, step, opened, rows, retry, uSeen,
    uDb, uWork, reader, queued, given, overlooked, unread, faults,
    granted, aKnown, cache, registering, cleaning, aMail, updates, aPhase, check, pattern, hung, kept,
    untold, clock, grants, asks

Remote == INSTANCE RemoteCalls WITH Calls <- RemoteCallers
Publishing == INSTANCE Publications WITH sSession <- rSession, toS <- toR
Connection == INSTANCE ClientConnection
Trusted == INSTANCE TrustedActors WITH
    Subscribers <- TrustSubscribers, MaxChanges <- MaxTrustChanges,
    published <- offered, notes <- distNotes, changes <- trustChanges
Logs == INSTANCE LogStore
Remembering == INSTANCE Authentications WITH
    Users <- {FirstUser, SecondUser},
    Grantable <- {<<FALSE, FirstUser>>, <<TRUE, SecondUser>>, <<TRUE, "">>},
    HasOther <- {<<TRUE, SecondUser>>},
    known <- aKnown, mail <- aMail, phase <- aPhase

remoteVars == <<cSession, sSession, toS, toC, calls, made, functors, refs, pending, posts, user,
                running, sSubs, ending>>
publicationVars == <<pSession, rSession, toR, toP, published, allowed, nextWait, waiting,
                     remoteActors, subscribed, notes, known, changes>>
connectionVars == <<settings, entry, sequence, attempts, timers, socket, identify, host, open,
                    answer, reference, overtaken>>
trustVars == <<offered, instance, reporting, toDist, distNotes, exists, ns, counter, dispatched,
               stored, toDatabase, resumes, phase, view, mail, deferred, lost, erased, trustChanges>>
logVars == <<lastSeen, db, saved, reports, report, reporter, failed, tasks, step, opened, rows, retry,
             uSeen, uDb, uWork, reader, queued, given, overlooked, unread, faults>>
authenticationVars == <<granted, aKnown, cache, registering, cleaning, aMail, updates, aPhase, check,
                        pattern, hung, kept, untold, clock, grants, asks>>
vars == <<part, remoteVars, publicationVars, connectionVars, trustVars, logVars, authenticationVars>>

Init ==
    /\ part \in {"remote", "publications", "connection", "trust", "log upstream", "log reader",
                "authentications"}
    /\ Remote!Init /\ Publishing!Init /\ Trusted!Init /\ Logs!Init
    /\ Connection!Init
    /\ Remembering!Init /\ (part # "authentications" => granted = {Remembering!HostAlone})
    /\ part # "connection" => settings = [anonymous |-> TRUE, retry |-> FALSE, first |-> FALSE]

Only(p) ==
    /\ part = p /\ UNCHANGED part
    /\ IF p = "remote" THEN TRUE ELSE UNCHANGED remoteVars
    /\ IF p = "publications" THEN TRUE ELSE UNCHANGED publicationVars
    /\ IF p = "connection" THEN TRUE ELSE UNCHANGED connectionVars
    /\ IF p = "trust" THEN TRUE ELSE UNCHANGED trustVars
    /\ IF p \in {"log upstream", "log reader"} THEN TRUE ELSE UNCHANGED logVars
    /\ IF p = "authentications" THEN TRUE ELSE UNCHANGED authenticationVars

Next ==
    \/ Only("remote") /\ Remote!Next
    \/ Only("publications") /\ Publishing!Next
    \/ Only("connection") /\ Connection!Next
    \/ Only("trust") /\ Trusted!Next
    \/ Only("log upstream") /\ (Logs!StoreNext \/ Logs!ReporterNext)
    \/ Only("log reader") /\ (Logs!StoreNext \/ Logs!ReaderNext)
    \/ Only("authentications") /\ Remembering!Next

\* What the parts do of themselves, each by the code that schedules it. The others
\* do not move with it, by Next.
Spec ==
    /\ Init /\ [][Next]_vars
    /\ WF_remoteVars(part = "remote" /\ Remote!Progress)
    /\ WF_publicationVars(part = "publications" /\ Publishing!Progress)
    /\ WF_connectionVars(part = "connection" /\ Connection!Progress)
    /\ WF_trustVars(part = "trust" /\ Trusted!Progress)
    /\ WF_logVars(part = "log upstream" /\ (Logs!StoreProgress \/ Logs!ReporterProgress))
    /\ WF_logVars(part = "log reader" /\ (Logs!StoreProgress \/ Logs!ReaderProgress))
    /\ WF_authenticationVars(part = "authentications" /\ Remembering!Progress)
    /\ \A c \in Remembering!Caches :
          WF_authenticationVars(part = "authentications" /\ Remembering!CleanupExpired(c))

----------------------------------------------------------------------------

\* Every part keeps its types.
TypeOK ==
    CASE part = "remote" -> Remote!TypeOK
      [] part = "publications" -> Publishing!TypeOK
      [] part = "connection" -> Connection!TypeOK
      [] part = "trust" -> Trusted!TypeOK
      [] part \in {"log upstream", "log reader"} -> Logs!TypeOK
      [] part = "authentications" -> Remembering!TypeOK

\* Functors and subscriptions are kept while they are used, no longer (RemoteCall.cpp).
KeptWhileUsed == Remote!KeptWhileUsed
\* Each subscriber is told of every change once, in order (fp_HandlePublishPacket).
SubscribersFollow == Publishing!SubscribersFollow
\* Subscribers end up knowing what is published (fp_ResetHostState, Identify).
PublishedIsKnown == Publishing!PublishedIsKnown

\* A client connection that is to be opened again is never left alone (f_Reconnect).
KeepsTrying == Connection!KeepsTrying
\* Remote calls are answered, and subscriptions destroyed, through every reset; whoever
\* calls f_Connect is answered (f_DiscardIdentifyPromise); checks of permissions end, and
\* what they remember is cleaned when it is over (f_CleanupExpired).
EveryCallEnds ==
    Remote!RemoteCallsEnd /\ Connection!EveryConnectAnswered /\ Remembering!ChecksEnd

\* A namespace is kept for its subscribers, and its hosts are stored (f_DisallowHosts).
NamespaceIsKept == Trusted!NamespaceIsKept
\* Subscribers end up with the trusted actors that are published (f_ApplyDeferredChanges).
SubscribersSee == Trusted!SubscribersSee

\* The upstream has every entry up to the number it has seen (f_UpdateLogForReporter).
UpstreamAgrees == Logs!UpstreamAgrees
\* The caches of authentications agree, and follow the permissions (f_RemovePermissions,
\* f_UpdateAuthenticationCache, fp_FilterCachedAuthentications).
AuthenticationsFollow == Remembering!AuthenticationsFollow

\* Readers get every entry once, in order (f_SubscribeLogEntries).
ReadersFollow == Logs!ReadersFollow
\* The upstream catches up after every failure (f_RetryFailedReporters).
CaughtUp == part = "log reader" \/ Logs!CaughtUp
=============================================================================
