---------------------------- MODULE Publications ----------------------------
(***************************************************************************)
(* Actors that one host publishes in a namespace and the subscribers of     *)
(* another host that are told of them (Manager_ActorRegistry.cpp): what is  *)
(* published to whom, the notifications the subscribers handle as messages  *)
(* of their own, the reports the publisher waits for, and what a session    *)
(* that ends does to all of it.                                             *)
(*                                                                          *)
(* Packets of a session arrive once and in order (PacketQueue) and hosts    *)
(* find out that the other dropped it as they identify (HostSession). The   *)
(* hosts trust each other with the one namespace there is.                  *)
(***************************************************************************)
EXTENDS Naturals, Sequences, SequencesExt, FiniteSets, Functions

CONSTANTS
    Actors,         \* what the publisher may publish
    Subscribers,    \* f_SubscribeActors instances of the other host
    MaxChanges      \* bound on what the program and its faults do

VARIABLES
    pSession, sSession,     \* m_LastExecutionID, at the publisher and the subscribing host
    toS, toP,               \* packets queued or on their way
    published,              \* m_PublishedActors
    allowed,                \* m_AllowedNamespaces: the other host has identified
    nextWait,               \* m_NextWaitPublicationID
    waiting,                \* m_WaitingPublications
    remoteActors,           \* m_RemoteActors of the subscribing host
    subscribed,             \* m_SubscribedActors
    notes,                  \* calls queued to the actor of each subscriber
    known,                  \* the actors each subscriber was told of
    changes                 \* what the program and its faults did, for MaxChanges

publicationVars == <<pSession, sSession, toS, toP, published, allowed, nextWait, waiting,
                     remoteActors, subscribed, notes, known, changes>>

publisherVars == <<published, allowed, nextWait, waiting>>
subscriberVars == <<remoteActors, subscribed, notes, known>>

\* A wait is a wait ID and the session it belongs to; nobody waits for NoWait.
Sessions == 1 .. MaxChanges + 1
NoWait == [id |-> 0, session |-> 1]
Wait == [id : 0 .. 2 * MaxChanges, session : Sessions]
Packet == [kind : {"publish", "unpublish"}, actor : Actors, wait : Wait]
Note == [kind : {"new", "removed"}, actor : Actors, wait : Wait]

TypeOK ==
    /\ {pSession, sSession} \subseteq Sessions
    /\ toS \in Seq(Packet) /\ toP \in Seq(Wait)
    /\ published \subseteq Actors /\ remoteActors \subseteq Actors
    /\ allowed \in BOOLEAN
    /\ nextWait \in 0 .. 2 * MaxChanges
    /\ waiting \subseteq 1..nextWait
    /\ subscribed \subseteq Subscribers
    /\ \A i \in Subscribers : notes[i] \in Seq(Note) /\ known[i] \subseteq Actors
    /\ changes \in 0..MaxChanges

Init ==
    /\ pSession = 1 /\ sSession = 1
    /\ toS = <<>> /\ toP = <<>>
    /\ published = {} /\ allowed = FALSE
    /\ nextWait = 0 /\ waiting = {}
    /\ remoteActors = {} /\ subscribed = {}
    /\ notes = [i \in Subscribers |-> <<>>] /\ known = [i \in Subscribers |-> {}]
    /\ changes = 0

Change == changes < MaxChanges /\ changes' = changes + 1
InSession == pSession = sSession

----------------------------------------------------------------------------
(* The publisher.                                                          *)

\* Sends the kinds of packet about an actor, if the host may be told, each with a
\* wait ID of its own or none of them with one.
Send(a, kinds) ==
    IF ~allowed
    THEN UNCHANGED <<toS, nextWait, waiting>>
    ELSE \E waits \in BOOLEAN :
            LET Id(n) == IF waits THEN [id |-> nextWait + n, session |-> pSession] ELSE NoWait IN
            /\ toS' = toS \o [n \in 1..Len(kinds) |->
                                 [kind |-> kinds[n], actor |-> a, wait |-> Id(n)]]
            /\ nextWait' = IF waits THEN nextWait + Len(kinds) ELSE nextWait
            /\ waiting' = waiting \cup (nextWait + 1 .. nextWait')

PublishActor(a) ==
    /\ Change /\ a \notin published
    /\ published' = published \cup {a}
    /\ Send(a, <<"publish">>)
    /\ UNCHANGED <<pSession, sSession, toP, allowed, subscriberVars>>

RemoveActorPublication(a) ==
    /\ Change /\ a \in published
    /\ published' = published \ {a}
    /\ Send(a, <<"unpublish">>)
    /\ UNCHANGED <<pSession, sSession, toP, allowed, subscriberVars>>

RepublishActorPublication(a) ==
    /\ Change /\ a \in published
    /\ Send(a, <<"unpublish", "publish">>)
    /\ UNCHANGED <<pSession, sSession, toP, published, allowed, subscriberVars>>

\* fp_HandlePublishFinishedPacket, fp_HandleUnpublishFinishedPacket. Who waits
\* for several goes on after the last (fg_AllDoneWrapped).
HandleFinished ==
    /\ InSession /\ toP # <<>>
    /\ waiting' = waiting \ {Head(toP).id}
    /\ toP' = Tail(toP)
    /\ UNCHANGED <<pSession, sSession, toS, published, allowed, nextWait, subscriberVars, changes>>

WaitTimesOut ==
    /\ \E w \in waiting : waiting' = waiting \ {w}
    /\ UNCHANGED <<pSession, sSession, toS, toP, published, allowed, nextWait, subscriberVars,
                   changes>>

\* The end of the Identify handler: the host is told of everything that is published.
Everything ==
    [n \in 1..Cardinality(published) |->
        [kind |-> "publish", actor |-> SetToSeq(published)[n], wait |-> NoWait]]

Identified ==
    /\ pSession >= sSession
    /\ allowed' = TRUE
    /\ toS' = toS \o Everything
    /\ UNCHANGED <<pSession, sSession, toP, published, nextWait, waiting, subscriberVars>>

FirstIdentified == ~allowed /\ Identified /\ UNCHANGED changes
Reconnected == allowed /\ Change /\ Identified

----------------------------------------------------------------------------
(* The subscribing host.                                                   *)

\* fp_NotifyNewActor, fp_NotifyRemovedActor: a message to each subscriber.
Notify(kind, actors, w) ==
    notes' = [i \in Subscribers |->
                 IF i \in subscribed
                 THEN notes[i] \o [n \in 1..Len(actors) |->
                                      [kind |-> kind, actor |-> actors[n], wait |-> w]]
                 ELSE notes[i]]

\* fReportResults, once nobody is left to handle a notification.
Report(w, handled) == toP' = IF w.id # 0 /\ handled THEN Append(toP, w) ELSE toP

HandlePublishAgain ==       \* mutant: also an actor that is mapped is new
    /\ InSession /\ toS # <<>> /\ Head(toS).kind = "publish"
    /\ remoteActors' = remoteActors \cup {Head(toS).actor}
    /\ Notify("new", <<Head(toS).actor>>, Head(toS).wait)
    /\ Report(Head(toS).wait, notes' = notes)
    /\ toS' = Tail(toS)
    /\ UNCHANGED <<pSession, sSession, publisherVars, subscribed, known, changes>>

HandlePublish ==
    /\ InSession /\ toS # <<>> /\ Head(toS).kind = "publish"
    /\ LET a == Head(toS).actor
           w == Head(toS).wait
       IN /\ remoteActors' = remoteActors \cup {a}
          /\ IF a \in remoteActors THEN UNCHANGED notes ELSE Notify("new", <<a>>, w)
          /\ Report(w, notes' = notes)
    /\ toS' = Tail(toS)
    /\ UNCHANGED <<pSession, sSession, publisherVars, subscribed, known, changes>>

HandleUnpublish ==
    /\ InSession /\ toS # <<>> /\ Head(toS).kind = "unpublish"
    /\ LET a == Head(toS).actor
           w == Head(toS).wait
       IN /\ remoteActors' = remoteActors \ {a}
          /\ IF a \in remoteActors THEN Notify("removed", <<a>>, w) ELSE UNCHANGED notes
          /\ Report(w, notes' = notes)
    /\ toS' = Tail(toS)
    /\ UNCHANGED <<pSession, sSession, publisherVars, subscribed, known, changes>>

\* Subscriber i is still to handle something that w waits for, in the queues q.
Pending(q, w) == \E i \in Subscribers : \E n \in Range(q[i]) : n.wait = w

\* A subscriber handles a notification; the last one of a wait reports it, also
\* when the host has followed to another session since.
Handle(i) ==
    /\ notes[i] # <<>>
    /\ LET n == Head(notes[i]) IN
          /\ known' = [known EXCEPT ![i] = IF n.kind = "new" THEN @ \cup {n.actor}
                                           ELSE @ \ {n.actor}]
          /\ notes' = [notes EXCEPT ![i] = Tail(@)]
          /\ Report(n.wait, ~Pending(notes', n.wait))
    /\ UNCHANGED <<pSession, sSession, toS, publisherVars, remoteActors, subscribed, changes>>

\* f_SubscribeActors: told at once of the actors that are there.
Subscribe(i) ==
    /\ Change /\ i \notin subscribed /\ notes[i] = <<>>
    /\ subscribed' = subscribed \cup {i}
    /\ known' = [known EXCEPT ![i] = {}]
    /\ notes' = [notes EXCEPT ![i] =
                    [n \in 1..Cardinality(remoteActors) |->
                        [kind |-> "new", actor |-> SetToSeq(remoteActors)[n], wait |-> NoWait]]]
    /\ UNCHANGED <<pSession, sSession, toS, toP, publisherVars, remoteActors>>

Unsubscribe(i) ==
    /\ Change /\ i \in subscribed
    /\ subscribed' = subscribed \ {i}
    /\ UNCHANGED <<pSession, sSession, toS, toP, publisherVars, remoteActors, notes, known>>

----------------------------------------------------------------------------
(* Sessions (fp_ResetHostState).                                           *)

\* The publisher drops the host (f_DestroyHost) or restarts: a new CHost, which
\* counts its wait IDs from the start.
PublisherDrops ==
    /\ InSession /\ Change
    /\ pSession' = pSession + 1
    /\ toS' = <<>> /\ toP' = <<>>
    /\ published' \in {published, {}}
    /\ allowed' = FALSE /\ nextWait' = 0 /\ waiting' = {}
    /\ UNCHANGED <<sSession, subscriberVars>>

PublisherFollowsOnly ==     \* mutant: publishes nothing in the new session
    /\ pSession < sSession
    /\ pSession' = sSession
    /\ toS' = <<>>
    /\ allowed' = TRUE /\ waiting' = {}
    /\ UNCHANGED <<sSession, toP, published, nextWait, subscriberVars, changes>>

PublisherFollows ==
    /\ pSession < sSession
    /\ pSession' = sSession
    /\ toS' = Everything
    /\ allowed' = TRUE /\ waiting' = {}
    /\ UNCHANGED <<sSession, toP, published, nextWait, subscriberVars, changes>>

ResetSubscriptions == remoteActors' = {} /\ Notify("removed", SetToSeq(remoteActors), NoWait)

\* The publisher's CHost is deleted: nothing is reported to it any more.
SubscriberDropsHost ==
    /\ InSession /\ Change
    /\ sSession' = sSession + 1
    /\ toS' = <<>> /\ toP' = <<>>
    /\ remoteActors' = {}
    /\ LET Void(s) == [n \in DOMAIN s |-> [s[n] EXCEPT !.wait = NoWait]]
           removed == [n \in 1..Cardinality(remoteActors) |->
                          [kind |-> "removed", actor |-> SetToSeq(remoteActors)[n], wait |-> NoWait]]
       IN notes' = [i \in Subscribers |->
                       Void(notes[i]) \o (IF i \in subscribed THEN removed ELSE <<>>)]
    /\ UNCHANGED <<pSession, publisherVars, subscribed, known>>

SubscriberRestarts ==
    /\ InSession /\ Change
    /\ sSession' = sSession + 1
    /\ toS' = <<>> /\ toP' = <<>>
    /\ remoteActors' = {} /\ subscribed' = {}
    /\ notes' = [i \in Subscribers |-> <<>>] /\ known' = [i \in Subscribers |-> {}]
    /\ UNCHANGED <<pSession, publisherVars>>

SubscriberFollows ==
    /\ sSession < pSession
    /\ sSession' = pSession
    /\ toP' = <<>>
    /\ ResetSubscriptions
    /\ UNCHANGED <<pSession, toS, publisherVars, subscribed, known, changes>>

----------------------------------------------------------------------------

\* Packets arrive, subscribers handle what they are told, hosts identify.
Progress ==
    \/ HandleFinished \/ HandlePublish \/ HandleUnpublish
    \/ \E i \in Subscribers : Handle(i)
    \/ FirstIdentified \/ PublisherFollows \/ SubscriberFollows

Next ==
    \/ Progress
    \/ \E a \in Actors :
          PublishActor(a) \/ RemoveActorPublication(a) \/ RepublishActorPublication(a)
    \/ \E i \in Subscribers : Subscribe(i) \/ Unsubscribe(i)
    \/ WaitTimesOut \/ Reconnected
    \/ PublisherDrops \/ SubscriberDropsHost \/ SubscriberRestarts

----------------------------------------------------------------------------

\* The actors that are known after the first n of the notifications s, if those of
\* k were before: the last one about an actor tells.
After(k, s, n) ==
    {a \in Actors :
        \/ a \in k /\ \A j \in 1..n : s[j].actor # a
        \/ \E l \in 1..n : /\ s[l].kind = "new" /\ s[l].actor = a
                           /\ \A j \in 1..n : j > l => s[j].actor # a}

\* The actors subscriber i knows of when it has handled the first n notifications.
Knows(i, n) == After(known[i], notes[i], n)

\* Whatever arrives twice or is dropped with a session, a subscriber is told of an
\* actor when it does not know it and of its removal when it does, and what it has
\* been told so far and is still to be told adds up to what the host knows.
SubscribersFollow ==
    \A i \in subscribed :
        /\ Knows(i, Len(notes[i])) = remoteActors
        /\ \A n \in DOMAIN notes[i] :
              notes[i][n].kind = "new" <=> notes[i][n].actor \notin Knows(i, n - 1)

\* In the end the subscribers know what is published, through every session that
\* was dropped on the way, and a publisher that waits is told without its timeout.
PublishedIsKnown ==
    <>[](waiting = {} /\ \A i \in subscribed : known[i] = published)
=============================================================================
