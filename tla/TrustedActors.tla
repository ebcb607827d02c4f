---------------------------- MODULE TrustedActors ----------------------------
(***************************************************************************)
(* Subscriptions to trusted actors (DistributedTrust_TrustedActors.cpp,     *)
(* DistributedTrust.hpp): the trust manager's entry of one namespace, the   *)
(* distribution manager that reports the actors of other hosts to it, the   *)
(* database that keeps which hosts are allowed, and the subscribers, which  *)
(* are told of changes on actors of their own.                              *)
(*                                                                          *)
(* Each host has one actor in the namespace and it implements every type.   *)
(* The database answers without errors, in the order it was asked.          *)
(***************************************************************************)
EXTENDS Naturals, Sequences, FiniteSets, TLC

CONSTANTS
    Hosts,          \* hosts with an actor in the namespace
    Subscribers,    \* calls of f_SubscribeTrustedActors
    OfSecond,       \* those of them that ask for the second type
    MaxChanges      \* bound on publications and changes of trust

VARIABLES
    published,      \* m_RemoteActors of the distribution manager
    instance,       \* its m_SubscribedActors: the sequence of our callbacks, or 0
    reporting,      \* reports it still waits for before it answers f_SubscribeActors
    toDist, notes,  \* messages to and from the distribution manager
    exists,         \* the namespace is in m_Namespaces
    ns,             \* its CNamespaceState
    counter,        \* m_NamespaceSubscriptionSequence
    dispatched,     \* m_OnSubscribe callbacks that were dispatched
    stored,         \* the allowed hosts in the database
    toDatabase,     \* calls of the database
    resumes,        \* answers of f_RemoveNamespace on their way
    phase,          \* how far each subscriber is
    view,           \* m_Actors of its subscription
    mail, deferred, \* changes dispatched to it, and its m_DeferredChanges
    lost,           \* actors dropped with their type from a namespace still subscribed
    erased,         \* an entry with allowed hosts was removed
    changes         \* publications and changes of trust, for MaxChanges

Types == {1, 2}
TypeOf(s) == IF s \in OfSecond THEN 2 ELSE 1

\* CNamespaceTypeState: every actor ever reported, those of its hosts, the allowed ones.
NewType == [mapped |-> {}, actors |-> {}, trusted |-> {}, subs |-> {}]
NewEntry == [allowed |-> {}, inDatabase |-> FALSE, nSubscriptions |-> 0, subscribing |-> FALSE,
             subscription |-> FALSE, sequence |-> 0, onSubscribe |-> {}, types |-> <<>>]

distVars == <<published, instance, reporting>>
dataVars == <<stored, toDatabase, resumes, erased>>
subscriberVars == <<phase, view, mail, deferred>>
vars == <<published, instance, reporting, toDist, notes, exists, ns, counter, dispatched, stored,
          toDatabase, resumes, phase, view, mail, deferred, lost, erased, changes>>

TypeOK ==
    /\ published \subseteq Hosts /\ ns.allowed \subseteq Hosts /\ stored \subseteq Hosts
    /\ {instance, counter, ns.sequence} \subseteq 0..Cardinality(Subscribers)
    /\ {reporting, resumes} \subseteq Nat
    /\ DOMAIN ns.types \subseteq Types
    /\ \A t \in DOMAIN ns.types :
          /\ ns.types[t].trusted \subseteq ns.types[t].actors
          /\ ns.types[t].actors \subseteq ns.types[t].mapped
          /\ ns.types[t].subs \subseteq {s \in Subscribers : TypeOf(s) = t}
    /\ ns.onSubscribe \cup dispatched \subseteq {s \in Subscribers : phase[s] = "waiting"}
    /\ exists \/ ns = NewEntry
    /\ \A s \in Subscribers : view[s] \subseteq Hosts

Init ==
    /\ published = {} /\ instance = 0 /\ reporting = 0
    /\ toDist = <<>> /\ notes = <<>>
    /\ exists = FALSE /\ ns = NewEntry /\ counter = 0 /\ dispatched = {}
    /\ stored = {} /\ toDatabase = <<>> /\ resumes = 0
    /\ phase = [s \in Subscribers |-> "idle"]
    /\ view = [s \in Subscribers |-> {}]
    /\ mail = [s \in Subscribers |-> <<>>] /\ deferred = [s \in Subscribers |-> <<>>]
    /\ lost = {} /\ erased = FALSE /\ changes = 0

Change == changes < MaxChanges /\ changes' = changes + 1

\* The type state that is there, or the one that m_Types[...] makes.
TypeState(n, t) == IF t \in DOMAIN n.types THEN n.types[t] ELSE NewType

\* Dispatches a change to each subscriber of a set.
Tell(subs, kind, h) ==
    mail' = [s \in Subscribers |-> IF s \in subs THEN Append(mail[s], [kind |-> kind, host |-> h])
                                   ELSE mail[s]]

Unsubscribes(n) == toDist' = IF n.subscription THEN Append(toDist, "unsubscribe") ELSE toDist

----------------------------------------------------------------------------
(* The distribution manager. Its own handling of sessions is Publications. *)

Note(kind, h) == [kind |-> kind, host |-> h, sequence |-> instance']

Notifies(kind, h) == notes' = IF instance = 0 THEN notes ELSE Append(notes, Note(kind, h))

Publish(h) ==
    /\ Change /\ h \notin published
    /\ published' = published \cup {h}
    /\ UNCHANGED instance
    /\ Notifies("new", h)
    /\ UNCHANGED <<reporting, toDist, exists, ns, counter, dispatched, dataVars, subscriberVars, lost>>

Unpublish(h) ==
    /\ Change /\ h \in published
    /\ published' = published \ {h}
    /\ UNCHANGED instance
    /\ Notifies("removed", h)
    /\ UNCHANGED <<reporting, toDist, exists, ns, counter, dispatched, dataVars, subscriberVars, lost>>

\* f_SubscribeActors reports the actors that are there and answers when all of
\* the reports were handled.
SubscribeActors ==
    /\ toDist # <<>> /\ Head(toDist) = "subscribe"
    /\ toDist' = Tail(toDist)
    /\ instance' = counter
    /\ reporting' = Cardinality(published)
    /\ \E order \in [1..Cardinality(published) -> published] :
          /\ \A h \in published : \E n \in DOMAIN order : order[n] = h
          /\ notes' = notes \o [n \in DOMAIN order |-> Note("first", order[n])]
                            \o (IF published = {} THEN <<[kind |-> "subscribed"]>> ELSE <<>>)
    /\ UNCHANGED <<published, exists, ns, counter, dispatched, dataVars, subscriberVars, lost, changes>>

ReportHandled ==
    /\ toDist # <<>> /\ Head(toDist) = "reported"
    /\ toDist' = Tail(toDist)
    /\ reporting' = reporting - 1
    /\ notes' = IF reporting = 1 THEN Append(notes, [kind |-> "subscribed"]) ELSE notes
    /\ UNCHANGED <<published, instance, exists, ns, counter, dispatched, dataVars, subscriberVars,
                   lost, changes>>

UnsubscribeActors ==
    /\ toDist # <<>> /\ Head(toDist) = "unsubscribe"
    /\ toDist' = Tail(toDist)
    /\ instance' = 0
    /\ UNCHANGED <<published, reporting, notes, exists, ns, counter, dispatched, dataVars,
                   subscriberVars, lost, changes>>

----------------------------------------------------------------------------
(* The trust manager is told of actors.                                    *)

Watching == exists /\ (ns.subscription \/ ns.subscribing)

\* Every type of the actor gets it; the subscribers are told if its host is allowed.
Added(t, h) ==
    LET s == TypeState(ns, t) IN
    [s EXCEPT !.mapped = @ \cup {h}, !.actors = @ \cup {h},
              !.trusted = IF h \in ns.allowed THEN @ \cup {h} ELSE @]

NewActor ==
    /\ notes # <<>> /\ Head(notes).kind \in {"new", "first"}
    /\ notes' = Tail(notes)
    /\ LET h == Head(notes).host IN
       IF Watching /\ ns.sequence = Head(notes).sequence
       THEN /\ ns' = [ns EXCEPT !.types = [t \in Types |-> Added(t, h)]]
            /\ lost' = {l \in lost : l.host # h}
            /\ Tell(IF h \in ns.allowed THEN UNION {ns.types[t].subs : t \in DOMAIN ns.types} ELSE {},
                    "add", h)
       ELSE UNCHANGED <<ns, mail, lost>>
    /\ toDist' = IF Head(notes).kind = "first" THEN Append(toDist, "reported") ELSE toDist
    /\ UNCHANGED <<distVars, exists, counter, dispatched, dataVars, phase, view, deferred, changes>>

\* A type without actors and subscribers is dropped; the entry in m_Actors stays.
RemovedActor ==
    /\ notes # <<>> /\ Head(notes).kind = "removed"
    /\ notes' = Tail(notes)
    /\ LET h == Head(notes).host
           Without(t) == [ns.types[t] EXCEPT !.actors = @ \ {h}, !.trusted = @ \ {h}]
           Emptied(t) == h \in ns.types[t].actors /\ Without(t).actors = {} /\ ns.types[t].subs = {}
       IN IF Watching
          THEN /\ ns' = [ns EXCEPT !.types = [t \in {u \in DOMAIN @ : ~Emptied(u)} |-> Without(t)]]
               /\ lost' = {l \in lost : l.host # h}
               /\ Tell(UNION {ns.types[t].subs : t \in {u \in DOMAIN ns.types : h \in ns.types[u].trusted}},
                       "remove", h)
          ELSE UNCHANGED <<ns, mail, lost>>
    /\ UNCHANGED <<distVars, toDist, exists, counter, dispatched, dataVars, phase, view, deferred,
                   changes>>

----------------------------------------------------------------------------
(* Subscribing (fp_SubscribeTrustedActors).                                *)

\* The subscribers are put with their type and given the allowed actors it has.
Give(subs, n) ==
    LET Types2 == {TypeOf(s) : s \in subs} IN
    /\ ns' = [n EXCEPT !.types =
                 [t \in DOMAIN @ \cup Types2 |->
                     [TypeState(n, t) EXCEPT !.subs = @ \cup {s \in subs : TypeOf(s) = t}]]]
    /\ view' = [s \in Subscribers |-> IF s \in subs THEN TypeState(n, TypeOf(s)).trusted ELSE view[s]]
    /\ phase' = [s \in Subscribers |-> IF s \in subs THEN "given" ELSE phase[s]]

Entered == [ns EXCEPT !.nSubscriptions = @ + 1]

SubscribeAtOnce(s) ==
    /\ phase[s] = "idle" /\ ns.subscription
    /\ Give({s}, Entered)
    /\ UNCHANGED <<distVars, toDist, notes, exists, counter, dispatched, dataVars, mail, deferred,
                   lost, changes>>

SubscribeWaits(s) ==
    /\ phase[s] = "idle" /\ ~ns.subscription /\ ns.subscribing
    /\ ns' = [Entered EXCEPT !.onSubscribe = @ \cup {s}]
    /\ phase' = [phase EXCEPT ![s] = "waiting"]
    /\ UNCHANGED <<distVars, toDist, notes, exists, counter, dispatched, dataVars, view, mail,
                   deferred, lost, changes>>

SubscribeFirst(s) ==
    /\ phase[s] = "idle" /\ ~ns.subscription /\ ~ns.subscribing
    /\ exists' = TRUE
    /\ counter' = counter + 1
    /\ ns' = [Entered EXCEPT !.subscribing = TRUE, !.sequence = counter']
    /\ phase' = [phase EXCEPT ![s] = "subscribing"]
    /\ toDist' = Append(toDist, "subscribe")
    /\ UNCHANGED <<distVars, notes, dispatched, dataVars, view, mail, deferred, lost, changes>>

SubscribedAgain ==      \* mutant: m_OnSubscribe keeps the callbacks
    /\ notes # <<>> /\ Head(notes).kind = "subscribed"
    /\ notes' = Tail(notes)
    /\ dispatched' = dispatched \cup ns.onSubscribe
    /\ Give({s \in Subscribers : phase[s] = "subscribing"},
            [ns EXCEPT !.subscribing = FALSE, !.subscription = TRUE])
    /\ UNCHANGED <<distVars, toDist, exists, counter, dataVars, mail, deferred, lost, changes>>

\* The distribution manager has answered: those that wait are called later.
Subscribed ==
    /\ notes # <<>> /\ Head(notes).kind = "subscribed"
    /\ notes' = Tail(notes)
    /\ dispatched' = dispatched \cup ns.onSubscribe
    /\ Give({s \in Subscribers : phase[s] = "subscribing"},
            [ns EXCEPT !.subscribing = FALSE, !.subscription = TRUE, !.onSubscribe = {}])
    /\ UNCHANGED <<distVars, toDist, exists, counter, dataVars, mail, deferred, lost, changes>>

OnSubscribe ==
    /\ dispatched # {} /\ exists
    /\ dispatched' = {}
    /\ Give(dispatched, ns)
    /\ UNCHANGED <<distVars, toDist, notes, exists, counter, dataVars, mail, deferred, lost, changes>>

\* The subscription is destroyed, or never became an object of its actor.
Drop(s) ==
    /\ phase[s] \in {"given", "live"}
    /\ phase' = [phase EXCEPT ![s] = "dropped"]
    /\ view' = [view EXCEPT ![s] = {}]
    /\ mail' = [mail EXCEPT ![s] = <<>>] /\ deferred' = [deferred EXCEPT ![s] = <<>>]
    /\ UNCHANGED <<distVars, toDist, notes, exists, ns, counter, dispatched, dataVars, lost, changes>>

\* The last subscriber of a type takes the type with it, and its actors.
Unsubscribe(s) ==
    /\ phase[s] = "dropped" /\ exists
    /\ phase' = [phase EXCEPT ![s] = "gone"]
    /\ LET t == TypeOf(s)
           alone == ns.types[t].subs = {s}
           types == IF alone THEN [u \in DOMAIN ns.types \ {t} |-> ns.types[u]]
                    ELSE [ns.types EXCEPT ![t].subs = @ \ {s}]
           left == [ns EXCEPT !.nSubscriptions = @ - 1, !.types = types]
       IN IF left.nSubscriptions = 0 /\ DOMAIN types = {}
          THEN /\ Unsubscribes(ns)
               /\ exists' = ns.inDatabase
               /\ ns' = IF ns.inDatabase THEN [left EXCEPT !.subscription = FALSE] ELSE NewEntry
               /\ UNCHANGED lost
          ELSE /\ ns' = left
               /\ lost' = IF alone THEN lost \cup [type : {t}, host : ns.types[t].actors] ELSE lost
               /\ UNCHANGED <<toDist, exists>>
    /\ mail' = [mail EXCEPT ![s] = <<>>]
    /\ UNCHANGED <<distVars, notes, counter, dispatched, dataVars, view, deferred, changes>>

----------------------------------------------------------------------------
(* The subscriber's actor (f_AddDistributedActors, f_RemoveDistributedActors). *)

With(v, m) == IF m.kind = "add" THEN v \cup {m.host} ELSE v \ {m.host}

Deliver(s) ==
    /\ phase[s] = "live" /\ mail[s] # <<>>
    /\ view' = [view EXCEPT ![s] = With(@, Head(mail[s]))]
    /\ mail' = [mail EXCEPT ![s] = Tail(@)]
    /\ UNCHANGED <<distVars, toDist, notes, exists, ns, counter, dispatched, dataVars, phase,
                   deferred, lost, changes>>

Defer(s) ==
    /\ phase[s] = "given" /\ mail[s] # <<>>
    /\ deferred' = [deferred EXCEPT ![s] = Append(@, Head(mail[s]))]
    /\ mail' = [mail EXCEPT ![s] = Tail(@)]
    /\ UNCHANGED <<distVars, toDist, notes, exists, ns, counter, dispatched, dataVars, phase, view,
                   lost, changes>>

AppliedNever(v, q) == v     \* mutant: f_ApplyDeferredChanges is not called
\* What was deferred, on top of the initial actors.
Applied(v, q) ==
    LET f[n \in 0..Len(q)] == IF n = 0 THEN v ELSE With(f[n - 1], q[n]) IN f[Len(q)]

\* The result has arrived: the object is moved into place on its actor.
Arrive(s) ==
    /\ phase[s] = "given"
    /\ phase' = [phase EXCEPT ![s] = "live"]
    /\ view' = [view EXCEPT ![s] = Applied(@, deferred[s])]
    /\ deferred' = [deferred EXCEPT ![s] = <<>>]
    /\ UNCHANGED <<distVars, toDist, notes, exists, ns, counter, dispatched, dataVars, mail, lost,
                   changes>>

----------------------------------------------------------------------------
(* Trust in hosts (f_AllowHostsForNamespace, f_DisallowHostsForNamespace). *)

Ask(n) == toDatabase' = Append(toDatabase, [kind |-> IF n.inDatabase THEN "set" ELSE "add",
                                            hosts |-> n.allowed])

Stored(n) == [n EXCEPT !.inDatabase = TRUE]

OfHost(h) == {t \in DOMAIN ns.types : h \in ns.types[t].actors}
SubscribersOf(h) == UNION {ns.types[t].subs : t \in OfHost(h)}

AllowHosts(h) ==
    /\ Change /\ h \notin ns.allowed
    /\ exists' = TRUE
    /\ LET n == [ns EXCEPT !.allowed = @ \cup {h},
                           !.types = [t \in DOMAIN ns.types |->
                               IF t \in OfHost(h) THEN [ns.types[t] EXCEPT !.trusted = @ \cup {h}] ELSE ns.types[t]]]
       IN ns' = Stored(n) /\ Ask(n)
    /\ Tell(SubscribersOf(h), "add", h)
    /\ UNCHANGED <<distVars, toDist, notes, counter, dispatched, stored, resumes, phase, view,
                   deferred, lost, erased>>

\* Without allowed hosts the entry goes: at once if it is not in the database.
DisallowHosts(h) ==
    /\ Change /\ h \in ns.allowed
    /\ LET n == [ns EXCEPT !.allowed = @ \ {h},
                           !.types = [t \in DOMAIN ns.types |->
                               IF t \in OfHost(h) THEN [ns.types[t] EXCEPT !.trusted = @ \ {h}] ELSE ns.types[t]]]
       IN IF n.allowed # {}
          THEN ns' = Stored(n) /\ Ask(n) /\ UNCHANGED exists
          ELSE IF n.inDatabase
          THEN /\ ns' = [n EXCEPT !.inDatabase = FALSE]
               /\ toDatabase' = Append(toDatabase, [kind |-> "remove", hosts |-> {}])
               /\ UNCHANGED exists
          ELSE /\ exists' = (n.nSubscriptions > 0)
               /\ ns' = IF exists' THEN n ELSE NewEntry
               /\ UNCHANGED toDatabase
    /\ Tell(SubscribersOf(h), "remove", h)
    /\ UNCHANGED <<distVars, toDist, notes, counter, dispatched, stored, resumes, phase, view,
                   deferred, lost, erased>>

DatabaseAnswers ==
    /\ toDatabase # <<>>
    /\ toDatabase' = Tail(toDatabase)
    /\ stored' = Head(toDatabase).hosts
    /\ resumes' = IF Head(toDatabase).kind = "remove" THEN resumes + 1 ELSE resumes
    /\ UNCHANGED <<distVars, toDist, notes, exists, ns, counter, dispatched, subscriberVars, lost,
                   erased, changes>>

DisallowResumesAlways ==    \* mutant: does not look for subscriptions
    /\ resumes > 0
    /\ resumes' = resumes - 1
    /\ exists' = FALSE /\ ns' = NewEntry
    /\ Unsubscribes(ns)
    /\ erased' = (erased \/ ns.allowed # {})
    /\ UNCHANGED <<distVars, notes, counter, dispatched, stored, toDatabase, subscriberVars, lost,
                   changes>>

\* f_RemoveNamespace was answered: the entry is looked up again, but not whether
\* hosts were allowed since.
DisallowResumes ==
    /\ resumes > 0
    /\ resumes' = resumes - 1
    /\ IF exists /\ ns.nSubscriptions = 0
       THEN /\ exists' = FALSE /\ ns' = NewEntry
            /\ Unsubscribes(ns)
            /\ erased' = (erased \/ ns.allowed # {})
       ELSE UNCHANGED <<exists, ns, toDist, erased>>
    /\ UNCHANGED <<distVars, notes, counter, dispatched, stored, toDatabase, subscriberVars, lost,
                   changes>>

----------------------------------------------------------------------------

Progress ==
    \/ SubscribeActors \/ ReportHandled \/ UnsubscribeActors
    \/ NewActor \/ RemovedActor \/ Subscribed \/ OnSubscribe
    \/ \E s \in Subscribers : Unsubscribe(s) \/ Deliver(s) \/ Defer(s) \/ Arrive(s)
    \/ DatabaseAnswers \/ DisallowResumes

Next ==
    \/ Progress
    \/ \E h \in Hosts : Publish(h) \/ Unpublish(h) \/ AllowHosts(h) \/ DisallowHosts(h)
    \/ \E s \in Subscribers :
          SubscribeAtOnce(s) \/ SubscribeWaits(s) \/ SubscribeFirst(s) \/ Drop(s)

Spec == Init /\ [][Next]_vars /\ WF_vars(Progress)

----------------------------------------------------------------------------

Counted == {s \in Subscribers : phase[s] \notin {"idle", "gone"}}

SubscribersAreIn ==
    \A s \in Counted :
        phase[s] \notin {"subscribing", "waiting"} =>
            /\ ns.subscription /\ TypeOf(s) \in DOMAIN ns.types
            /\ s \in ns.types[TypeOf(s)].subs

\* The entry of a namespace is there while subscribers count on it (the check
\* DMibFastCheck(pNamespace)), those that have their subscription are with their
\* type and the distribution manager watches for them, and no removal is handled
\* that would follow the m_pHost of an actor that was removed before. And unless an
\* entry was removed with hosts it had been given meanwhile, the database is never
\* asked to add what it has or to change what it has not, and holds the hosts that
\* are allowed when it has answered.
NamespaceIsKept ==
    /\ ns.nSubscriptions = Cardinality(Counted)
    /\ Counted # {} => exists
    /\ SubscribersAreIn
    /\ notes # <<>> /\ Head(notes).kind = "removed" /\ Watching =>
          \A t \in DOMAIN ns.types :
              Head(notes).host \in ns.types[t].mapped => Head(notes).host \in ns.types[t].actors
    /\ ~erased =>
          /\ toDatabase # <<>> => (Head(toDatabase).kind = "add" <=> stored = {})
          /\ toDatabase = <<>> => stored = ns.allowed

\* In the end a subscriber has the actors of its type that are published by hosts
\* that are allowed, but for those that were dropped with their type.
Sees(s) == view[s] = {h \in published \cap ns.allowed : [type |-> TypeOf(s), host |-> h] \notin lost}
SubscribersSee == <>[](\A s \in Subscribers : phase[s] = "live" => Sees(s))

\* The subscribers of a namespace get every actor of their type that is published
\* by a host it trusts (DesignGoals.dox), whoever else subscribed to it before.
AllTrustedAreSeen ==
    notes = <<>> /\ toDist = <<>> /\ (\A s \in Subscribers : mail[s] = <<>>) =>
        \A s \in Subscribers : phase[s] = "live" => view[s] = published \cap ns.allowed
=============================================================================
