# Malterlib Concurrency: verification

TLA+ models of the parts of Malterlib Concurrency that order, schedule and
deliver actor calls, in one process and between hosts, and of what is built on
them to keep hosts agreeing; the TLC configurations that check them on small
instances; and TLAPS proofs of what the core promises for every instance.

Paths below are relative to the repository: `Actor/` is
`Source/Actor/Malterlib_Concurrency_`, `Distributed/` is
`Source/DistributedActor/Malterlib_Concurrency_DistributedActor_`, `Trust/` is
`Source/DistributedTrust/Malterlib_Concurrency_DistributedTrust_`, `App/` is
`Source/DistributedApp/Malterlib_Concurrency_DistributedApp_`.

## The system

### Components, their state and operations

**Actor holder and run queue** (`Actor/ActorHolder.cpp`, `Actor/RunQueue.hpp`).
Every actor is owned by a holder. Its state: the word `mp_Working` (a
processing bit and a count), a lock-free stack of entries other threads push
(`mp_ConcurrentRunQueue`), a local queue only the running thread touches
(`mp_ConcurrentRunQueueLocal`), `mp_bYield`, the actor pointer and flags of its
destruction. Operations: `fp_ConstructActor`, `fp_AddToQueue` with
`fp_QueueProcess`, `fp_RunProcess` with `fp_DequeueProcess`, `fp_Yield`,
`f_Destroy` and `fp_Terminate`. Correct when the actor runs on one thread at a
time, no call waits forever, calls are processed in the order they were made, and
the holder is deleted once, after everybody who waits for it was answered.

**Concurrency manager** (`Actor/Manager.cpp`). Pool threads with a queue per
thread and priority, idle tracking, work offered to other threads, timers. The
holder hands it runs (`fp_QueueJob`). Correct when a queued job is run by a
thread that is awake, and a job that is fixed to a queue by the thread of it.

**Promises and futures** (`Actor/Promise.hpp`, `Actor/Promise_Coroutine.hpp`).
One flag word shared by both sides decides who delivers a result, and a counter
of references who deletes it. Correct when a result is delivered once, also when
a side is abandoned, and no exception is lost unseen.

**Actor sequencer, locks, queues, timers, generators**
(`Actor/ActorSequencerActor.hpp`, `Actor/LockActor.hpp`,
`Source/Malterlib_Concurrency_ThreadSafeQueue.hpp`, `Actor/TimerActor.cpp`,
`Actor/AsyncGeneratorPrivate.hpp`). Built on the above; each promises exclusion
or order and must survive its own destruction.

**Packet queue between hosts** (`Distributed/Manager_PacketQueue.cpp`,
`Distributed/Manager_Protocol.cpp`). The state each host keeps for a peer
(`CHost`): per priority the next number to assign, the packets waiting for a
connection, the next number to process and the packets that came early; for all
priorities the packets sent and not acknowledged; the active connections.
Operations: `f_QueuePacket`, `f_SendPacketQueue`, `fp_QueueIncomingPacket`,
`fp_ProcessPacketQueue`, and the handlers of Identify, Acknowledge,
NotifyConnectionLost and RequestMissingPackets. Correct when packets are
processed once and in order whatever happens to the connections.

**Host session** (`Distributed/Manager_Protocol.cpp`,
`Distributed/Manager_Host.cpp`). Execution IDs tell a restarted peer from one
that reconnects; `fp_ResetHostState` and `f_DestroyHost` drop what belongs to a
session that is over. Correct when what a host processes in one session was
queued in one session of the peer, and nothing of the present session is lost.

**Connection setup** (`Distributed/Manager_Client.cpp`, `Manager_Server.cpp`,
`Manager.cpp`). Opens, re-opens and resets connections, with the sequence number
by which messages of an earlier socket are recognised, a timer for the next
attempt, and the promise that tells `f_Connect` that the peer identified. Correct
when a connection that is to be kept is always on its way to being open.

**Remote calls and subscriptions** (`Distributed/Manager_RemoteCall.cpp`).
Outstanding calls, the functors published for their arguments, and the
subscriptions in their results, which both hosts count; all of it rides on
packets and is dropped by a reset. Correct when every call ends, and functors
and subscriptions live as long as somebody may use them.

**Actor publication** (`Distributed/Manager_ActorRegistry.cpp`). What is
published to which host, what each host was told, the subscribers of a namespace
and the publications that wait for them. Correct when subscribers are told of
every change once and end up knowing what there is.

**Trust manager** (`Source/DistributedTrust`). Namespaces with the hosts allowed
in them, the subscriptions to trusted actors, permissions and who subscribes to
them, users and their authentication, the connections it makes and the addresses it
listens on with their certificates, and tickets, kept in a database. Its calls
change memory, await the database or the network, and go on with what they find.
Correct when a subscriber sees exactly what is published by whom it trusts and what
is permitted, memory agrees with the database when calls are done, and each
connection and socket belongs to an entry.

**Distributed application** (`Source/DistributedApp`). Command line, settings and
daemon, and the log and sensor stores, which number what is reported, store it,
report it to stores upstream and to readers. Correct when upstream stores and
readers end up with what was stored, once and in order.

**Type registry, DDP bridge, U2F.** Serialization and adapters.

### How they interact

A call pushes an entry to the holder of its target; if the word was zero the
caller queues a run to the manager, and a pool thread processes the queue. Its
result goes through a promise to a functor that is queued to the caller's actor,
or resumes a coroutine of it. A call to a remote actor becomes a packet in the
`CHost` of the peer; all of the distribution manager runs inside one actor, so
its handlers do not interleave with each other but with messages, connection
failures and deferred work (`fp_FlushSendPacketQueue`). A host has several
connections to a peer at a time; packets are spread over them, and a connection
orders its messages by priority, so nothing but the receiver's buffer restores
the order. The trust manager subscribes to the actors of a namespace at the
distribution manager and passes those it trusts on to its subscribers, of which
the log store is one: an upstream store is such an actor.

### What is hard

Interleavings of atomic steps around `mp_Working`, the word and event of a pool
thread, and the flags of a promise; packets and acknowledgements that are lost,
repeated and reordered over connections that fail at any point; handlers that
fail half way; a peer that restarts while messages written to its predecessor, or
for it, are in flight; handlers that await something and find the world changed;
the last reference that brings an object back to life; shared pointers and lists
that a reset changes under its callers. `PROJECT.json` lists each place under
`hazards`.

## The modules

| module | models |
| --- | --- |
| `OrderedDelivery` | what the packet queue promises: at each priority, in order and exactly once, and everything in the end |
| `PacketQueue` | one direction of the packet queue: a sender, a receiver, the connections between them |
| `HostSession` | both directions with one priority, execution IDs, restarts and resets |
| `ActorHolder` | the holder of one actor, its callers and pool threads |
| `ActorDestroy` | the end of an actor and its holder |
| `PoolThreads` | the pool threads of one priority |
| `Promise` | the data a promise and its future share |
| `ActorSequencer` | bounded concurrency with waiting calls |
| `TimerActor` | the timers of one queue: registration, callbacks, destruction, deadline, shutdown |
| `AsyncGenerator` | a generator, its iterator, and the end of either |
| `ClientConnection` | a client connection, its attempts and timers |
| `RemoteCalls` | calls with functors and subscriptions over sessions that end |
| `Publications` | publishing actors of a namespace to another host's subscribers |
| `TrustedActors` | the trust manager's subscriptions to a namespace |
| `Permissions` | the permissions of an identity, the database and the subscribers |
| `Authentications` | authentications that are remembered, and checks of permissions |
| `TrustListens` | the addresses a trust manager listens on, certificate and database |
| `TrustConnections` | its connections to a server, their settings and certificates |
| `LogStore` | a log store, the store upstream of it, and a reader |
| `MCPacketQueue`, `MCHostSession`, `MCActorHolder` | symmetry, and properties only TLC checks |
| `MCPacketQueueLive` | the packet queue with and without reconnecting, and its refinement |
| `MCLocalParts`, `MCDistributedParts` | parts that share no state, in one run each |
| `PacketQueue_proofs` | the packets, their refinement and their connections |
| `HostSession_proofs` | the sessions of two hosts over one connection |
| `ActorHolder_proofs` | exclusion and wakeups, and the order of calls |
| `LocalParts_proofs` | the sequencer, promises, timers and pool threads of `MCLocalParts` |
| `LocalActors_proofs` | its generators, the end of its actors, and its permissions |
| `DistributedParts_proofs` | connections, remote calls and publications of `MCDistributedParts` |
| `DistributedTrust_proofs` | its authentications and its log store |
| `DistributedNames_proofs` | its namespaces of trusted actors |

The modules stand on each other by assumption: `ActorDestroy` and
`AsyncGenerator` use the queue of an actor as `ActorHolder` shows it to be,
`RemoteCalls` and `Publications` use sessions and packets as `HostSession` and
`PacketQueue` show them, `TrustedActors` hears of actors as `Publications` shows,
the connections of `TrustConnections` are those of `ClientConnection`.
`MCLocalParts` and `MCDistributedParts` put such modules side by side: a behaviour
is one of one part, chosen in the initial state, and the others stand still, so the
state space is the sum of theirs and each property is about one part. The log
store is two parts, one with the upstream and one with the reader, as these two
share nothing but the store.

### PacketQueue

The sender's variables are fields of its `CHost` (`curOut`, `outgoing`, `sent`,
`flush`, `lastSend`, `lostSent`), as are the receiver's (`nextIn`, `incoming`,
`lostSeen`, and `known`, the priorities that have an entry in
`m_PriorityQueues`). A connection is two ends, each
`down`, `pending` (the other end exists already), `open` (its Identify is sent)
or `active` (in `m_ActiveConnections`), and two sets of messages in flight. Every
handler is one action, since handlers run inside one actor: `SenderIdentified`
acknowledges, resends, activates and sends the waiting packets in one step, as
the code does.

Abstractions, each allowing more than the code:
- the connection a packet goes to is any active one; the code takes them in turn;
- messages of a connection arrive in any order, except that nothing overtakes
  Identify: the WebSocket sorts by priority, and the manager sends Identify first;
- messages in flight are a set: the same packet twice on one connection is one
  message, as the second is dropped on arrival;
- a failing handler is a choice, in behaviours that begin with `mayReject`; without it
  no handler ever fails.

Left out: the two acknowledgement commands are one; version negotiation and
frame-size checks that refuse a connection; the publications an Identify starts,
and handlers that fail while an Identify is being handled. An anonymous client
destroys its host with the last connection; that ends the session and belongs to
`HostSession`.

### HostSession

A `CHost` object is a number in `exec`, the peer's as last seen in `lastExec`.
`DestroyHost` stands for a kicked host, an inactive one (`Manager_Cleanup.cpp`) or
the end of the process; the next connection makes another object, as in
`f_Reconnect` and `fp_OnNewConnection`. `ReceiveIdentify` is the whole handler with
`fp_ResetHostState`: acknowledge first, then compare execution IDs, drop, resend,
activate, send, process, in the order of the code. Packets carry the session of
their sender for the properties only. Packets have one priority, a scheduled
flush may happen at any time, and NotifyConnectionLost, which only sends kept
packets once more, is left to `PacketQueue`.

### ActorHolder

Every atomic operation on `mp_Working` and on the shared stack is a step of its
own, so all interleavings between them are explored; what the running thread does
to its local queue is part of the step around it. `at` is where each thread is in
`fp_AddToQueue` or `fp_RunProcess`. Runs in the pool are a count, which leaves the
choice of thread open. `Local` is the thread of the queue an actor is fixed to:
calls from it take the branch that appends to the local queue. `past` and `knows`
record which calls a call was made after: by the same party, or by one that told
it (`Tells`). The word does not wrap: it would take 2^63 calls while one run holds
the bit.

Left out: `DMibConfig_Concurrency_FairScheduling` (off by default), and the other
kinds of holder.

### ActorDestroy

Users hold strong or weak references. `f_Destroy`, `fp_DestroyInternal` and what it
queues, the last reference that goes (`fsp_ScheduleActorDestroy` takes a
reference, sets `mp_DestroyInitiated`, and calls `fp_Destroy` first when the actor
overrides it), and the handler that destructs the actor and lets go of the holder
are steps of their own, against calls, suspended coroutines and weak references
that are locked. Left out: `f_BlockDestroy` and `fp_Terminate`, the branch for
actors whose construction failed, `fp_OnDestroy` subscriptions, delegated and
separate-thread holders.

### PoolThreads

One priority. `where` is how far each thread is in `fp_RunThread`; a job is pushed
(`shared`), counted (`working`) and signalled (`event`) in steps of their own, by
threads of the pool and by others. `idle` is the mask from which the offer of a
backlog claims a queue. Some steps are merged: claiming an idle queue and splicing
jobs to it, returning from the wait and clearing the idle bit, signalling and the
creation of the thread. Left out: the deadline of the wait (see TimerActor), I/O loops,
priorities, growing the pool, shutdown, builds without the local-first scheduler.

### Promise

Every access to the flags and to the word of counts is a step. Any owner may copy,
set or drop its reference; the party with the future registers a functor, awaits
it as a coroutine, takes the result, discards or drops it. Left out: the frames of
coroutines (`Promise_Coroutine.hpp`), `f_Abandon`, flags that are not atomic.

### ActorSequencer

The whole of `ActorSequencerActor.hpp`: calls that wait for a slot (`f_Sequence`,
`f_TrySequence`), calls that bring their function (`f_RunSequenced`), slots that
are given back, and destruction while calls wait and hold slots.

### TimerActor

The handlers of the actor do not interleave, but the clock goes on between the
turns of the loop of `f_ProcessTimers`, and results of callbacks, destructions of
subscriptions and wakes of the queue (`CheckTimers`, which clears the deadline) come
in any order. Times are relative to the present: `left` is `m_TimerQueue` with what
remains of each timer, `clock` where the present is within a period, to which
`f_RegisterTimer` rounds up. Registrations arrive late by up to `MaxLate`. `listed`,
`outstanding`, `missed`, `destroying` and `awaiting` are `m_Callbacks` and the
fields of its entries; `running` and `returned` are the callback and its result on
their way. Results are handled before the next `fp_ProcessTimers` starts, which is
the same as if the callback returned after it. A timer that is late by exactly one
period, or processed exactly at its time, is due again at once, as `m_NextElapse` is
moved only while it is less than the time; the model does so too, and calls still do
not overlap. Left out: the choice of the timer actor, the destruction of functors on
actors of their own, `fp_Destroy`, more than one `f_FireAllTimeouts`, clocks that
advance between two reads in one turn.

### AsyncGenerator

The messages of the generator's actor are a queue (`inbox`), each processed in one
action: a request for a value, the resumption it dispatches, the arrival of what
the coroutine awaits, the destruction of the generator's functor and of its actor.
Left out: coroutines that await while they are destroyed, more than one await for
a value, generators of remote actors and from functors, cancellation.

### ClientConnection

One connection: `attempts` are continuations of `f_Reconnect` with the sequence
they captured, `timers` a bag of timers with theirs. The socket and its end of the
handshake report in any order. TLS and certificate errors are attempts that fail,
Identify and the end of publishing are one event, and of the sockets that are
open only the last one can still close; whether `OnClose` arrives for a socket
that was reset is left open. Left out: changes of the settings, several
connections of a host, shutdown of the manager.

### RemoteCalls

The caller's side has its outstanding calls, published functors, subscription
references and messages between its actors (`posts`); the called host runs a call
and keeps the subscription. Either host may drop the session at any point. Left
out: a restart of the caller's process, refused calls, functors in results,
authentication handlers, old protocol versions.

### Publications

One namespace, a publisher and a host with subscribers. `notes` are the calls
queued to the actor of each subscriber, `waiting` the publications that wait for
them with their timeouts. A reset of either host withdraws what it knew. A
notification is handled in one step. Left out: several namespaces and hosts,
changes of trust (see `TrustedActors`), what the first connection waits for
(`m_PublishFinished`).

### TrustedActors

The entry of one namespace in the trust manager (`ns`), the distribution manager
that reports actors to it (`toDist`, `notes`), subscribers on actors of their own
(`mail`, `deferred`, `view`) and the database. A first subscriber makes the trust
manager subscribe, those that come meanwhile wait for the answer. Each host has
one actor that implements both types. Functors given to `f_OnActor` run with the
change of the view, and the wait of a removal for the end of its addition is left
out, as are protocol versions, other namespaces, errors of the database and of
`f_SubscribeActors`, and a restart of the trust manager. `lost` and `erased` name
the two cases in which the code loses something, so that the properties can be
checked around them.

### Permissions

One identity and two wildcards, of which one matches a part of the other. `perms`
is the entry of `m_Permissions`, `told` what a wildcard's subscribers were told
(`m_PermissionsPerIdentity`), `mail` the changes on their way to the actors of the
subscribers. `AddPermissions` and `RemovePermissions` change the entry, tell the
wildcards and ask the database in one step; only `f_RemovePermissions` has more to do
after the answer (`RemoveResumes`). The database refuses to add what is there and to
set or remove what is not. `erased` names the case in which the answer to a removal
takes what was added meanwhile. Left out: users as against hosts, errors of the disk.

### Authentications

One host, its users and one permission that requires a factor, which is granted to
users on the host, on any host, or to the host alone. `cache` is when what was
authenticated ends, for the permission and for a pattern that matches it: of the
trust manager, and of each subscription, whose copy is filled when it subscribes
(`Copied`) and follows by what the manager dispatches (`mail`). A check that needs
an authentication (`HasPermission`) waits for the answer of the user and its
verification, looks at the permissions again and sends an update to the manager
(`Answered`, `updates`). Each cache is cleaned by a timer of its own, which is
started by what is added, not by what is copied. `hung` are the actors that do not
leave the loop of `AuthCache.cpp:96`; `untold` are users whose authentication
`f_RemovePermissions` forgets without telling the subscriptions, because the identity
did not have the permission, and `kept` those whose authentication outlives the
permission, because the update arrived after the removal or the permission was one of
the host. Left out: queries of several permissions, the longest lifetime a permission
allows, several checks at once by one subscription.

### TrustListens

The trust manager's map (`window`, `ref`), its primary address, the certificate and
the calls that wait for it, the database, and at the distribution manager
`m_Listens` (`known`) with the sockets below. An address with port 0 (`AnyPort`) can
be bound twice, the others once, also while the earlier socket closes. A reference
that is destroyed stops its listen; one that is overwritten does not, as
its assignment is defaulted (`Distributed/Manager_Server.cpp:16`). A restart reads
the database and tries each address until it is bound; the other calls wait
(`ready`). Left out: several host names, `f_Init` without retries, validation of
addresses, the connections that come in.

### TrustConnections

One server with two addresses. A certificate is its number; the server lets in who
has the last one it issued (`f_ValidateClientAccess`). A call is where it waits and
what it remembers (`op`): the anonymous connection, the ticket's signature, the
database, the final connection. `pending` are the attempts `f_ApplyConnectionConcurrency`
starts, with the settings of that time. Answers of the database resume calls in the
order they were asked. The names `failed`, `raced` and `behind` say what the properties
leave out: a call that failed half way, calls that add and remove an address at
once, and a connection made with settings that were replaced before it was there.
Left out: tickets that expire, a second server, the default settings, an `f_Init` that
does not wait for its connections.

### LogStore

One log: its number (`lastSeen`) and database, the report that holds
`m_LogSequencer`, the reporter of the upstream with its sequencer (`tasks`), the
upstream store, which runs the same code (`UAccept`, `UCommit`), and a reader.
A report is stored and sent side by side; an update opens the reporter again,
compares numbers, reads a snapshot and sends it in batches. Crashes, lost
connections, failing calls, clean-ups and changed logs happen up to `MaxFaults`
times. A batch has any number of the entries that are left, in their order. Left out:
errors of the database, `f_CleanupLogReporter`, filters and sentinels of readers, the upstream's clean-up,
the retention rules, known hosts. `f_LogInfoChanged` commits and queues its updates
in one step. `overlooked` and `unread` name entries the code cannot know of, see
below.

## The runs

| run | instance | shows |
| --- | --- | --- |
| `packet_queue` | 1 priority, 2 connections, 2 packets, 2 failures, with or without failing handlers | `NoLoss`, `AcksAreProcessed`, `BufferedOnce`, `LastSendIsActive`, `NoStalledPacket`, `NoStalledArrival`, `NoEarlyAck`, `DeliversInOrder` |
| `packet_queue_live` | the same with 1 failure: reconnecting, or not reconnecting and without failing handlers | implements `OrderedDelivery` with its fairness; `RecoveredAtKnownPriority` |
| `packet_queue_unseen` | 1 packet | **violated**: recovery of a priority the receiver has not seen |
| `host_session` | both hosts send, one restarts twice, 1 connection, 2 packets, 2 failures | `SessionsPair`, `StableHostNoLoss`, `PeerNeverGoesBack` |
| `host_session_stale` | 1 restart | **violated**: `AgreedNoLoss` for the host that restarted |
| `actor_holder` | 2 callers, 2 workers, 1 call per party, 1 yield | `OneThreadAtATime`, `NoLostWakeup`, `CalledOrder` |
| `actor_holder_fixed` | the fixed queue: 1 caller, 1 worker, 2 calls per party | **violated**: `CalledOrder` for a fixed queue |
| `local_parts` | promises: 3 owners; sequencer: 3 calls, 1 slot; destruction: 2 users; pool: 2 queues, 1 of them fixed to, 3 jobs; fixed holder: 1 caller, 1 worker, 1 call, 1 yield; generator: 2 calls out, 4 in all; permissions: 2 names, 2 subscribers, 3 changes; listens: 2 addresses, one of port 0, 2 calls that add, 2 that set or remove, 1 failure; connections: 2 addresses, 2 calls, 1 error; timers: 2 registrations of 2 periodic timers that share an entry, one that fires at exit and one that can be aborted, period 2, batch 1, lateness 1 | `DeliveredOnce` (promises, timers), `ErrorsAreSeen`; `SlotsInOrder`; `DeletedIsClean`, `EndsForAll`; `NoSleepWithWork` (pool, timers); `EveryJobRuns` (pool and fixed holder); `ValuesInOrder`; `PermissionsFollow`; `TrustIsKept` (listens and connections); `EveryCallAnswered` (sequencer, generator, listens, connections, timers) |
| `distributed_parts` | calls: 2, 3 sessions; publications: 1 actor, 2 subscribers, 4 changes; connection: 3 attempts; trust: 1 host, 3 subscribers, one of another type, 3 changes; log: 3 entries, 2 faults; authentications: 2 users, 1 subscription, 2 checks or a pattern, 1 change of permissions, 2 times | `KeptWhileUsed`; `SubscribersFollow`, `PublishedIsKnown`; `KeepsTrying`; `NamespaceIsKept`, `SubscribersSee`; `UpstreamAgrees`, `ReadersFollow`, `CaughtUp`; `AuthenticationsFollow`; `EveryCallEnds` (calls, connection, authentications) |
| `promise_dropped` | 2 owners | **violated**: `DroppedIsAnswered` |
| `actor_revived` | 2 users | **violated**: `AnsweredIsGone` |
| `trusted_actors_lost` | 1 host, 2 subscribers, 2 changes | **violated**: `AllTrustedAreSeen` |

`TypeOK` is checked in `local_parts` and `distributed_parts` for their parts and
proved for `PacketQueue` and `ActorHolder`.

Bounds. Two packets are the fewest that can be out of order, leave a hole, or be
half acknowledged; two connections the fewest over which packets overtake and one
survives; two failures let a connection fail again while it recovers. Three
`CHost` objects let messages of two earlier ones be in flight at the third. Two
callers, two workers and the actor itself give every pair that can meet at
`mp_Working`. Three owners of a promise let two drop theirs while one sets it;
three calls of a sequencer with one slot let two wait; two users are the fewest
for which one drops the last reference while another locks a weak one; three jobs
on two queues leave a backlog to offer. Three attempts are the fewest in which one
fails after a later one was started. Three subscribers of a namespace are one that
subscribes, one that waits and one of another type. Three entries let one be
stored, one sent and one missed. Three changes of permissions add, remove and add
again, or end with a restart; two calls that add addresses meet at the certificate,
at the port or at the entry, while two more calls set or remove, and one error or
restart comes at any point; two calls about two addresses are the fewest of which
one changes, adds or removes what the other is at work on. Two registrations of timers share
an entry or fall due together, where a batch of one must come back for the other;
a callback may last for any number of periods. Two faults of the log store are a crash
or break together with a clean-up or a failing update. Two users are the fewest for
which the removal of one meets what is remembered of the other, and two checks let one
wait while that happens; a pattern counts for both. The runs with liveness use the smaller bounds TLC
finishes; every action of each module fires in a passing run. Deadlock is not
checked: with bounded packets and calls the system rightly stops when all is done.

Fairness. `Progress` in `PacketQueue` says that actors run what is queued
(`fp_FlushSendPacketQueue` is called by message), that messages on a live
connection arrive, that each end notices that the other is gone, and that a
socket that was accepted gets both its ends. With reconnecting, connections are
opened again, which `OnClose` sees to for every client that is not anonymous
(`Manager_Client.cpp:457`). `MaxBreaks` bounds the failures: a network that always
fails delivers nothing. In `local_parts` and `distributed_parts` there is one weak
fairness of the `Progress` of each part, while it is the one that is chosen: threads go on, queued messages are
processed, constructors, `fp_Destroy` and functions that are sequenced return, what
a generator awaits arrives, attempts to connect end, timers fire and peers
identify, databases answer, certificates are signed and an upstream store is there again. What users and
the network do (drop, destroy, publish, crash) is not fair. One weak fairness of
all these steps is enough because every one of them brings the part closer to
rest; listens that `f_Init` tries again may be tried for ever and are not in it.
Timers never rest, so there the clock, the loop, the deadline, the wake of the queue,
each callback and the results of each are fair by themselves: time goes on, callbacks
of users end, and what is queued to the actor is handled. The timers that clean caches
of authentications are fair by themselves too, as a periodic timer is.
Promises and permissions have no liveness.

### Disagreements found

1. **Unseen priorities are not recovered** (`packet_queue_unseen`). A connection
   is lost with the first packets of a priority. The other end answers
   NotifyConnectionLost with the priorities it has entries for, and
   RequestMissingPackets resends only these (`Manager_Protocol.cpp:696`). The
   handler of Identify does send "packets at priorities the client has never
   seen" (`:325`), so the packets wait until some connection is identified again.
2. **A stale Identify acknowledges packets of a new session**
   (`host_session_stale`). A host loses its `CHost` object and makes another; an
   Identify its peer wrote before noticing still reports what it received from the
   first, and `Manager_Protocol.cpp:177` drops packets of the second with these
   numbers. The check of `m_LastSeenExecutionID` that would tell is disabled
   with "This seems to not be needed" (`:204`).
3. **A fixed queue breaks the order of calls** (`actor_holder_fixed`). A call
   from the thread of the fixed queue goes past calls made before it that are
   still in the shared stack (`ActorHolder.cpp:205`), against
   `Documentation/Malterlib_Concurrency_DesignGoals.dox:177`.
4. **A promise that is dropped twice at once is not answered**
   (`promise_dropped`). `f_Clear` asks whether its reference is the last one and
   drops it in two steps (`Promise.hpp:393`). Two owners that do so at once both
   see the other, neither sets `CExceptionActorResultWasNotSet`, and a coroutine
   that awaits the future is not resumed, against `DesignGoals.dox:444`.
5. **An actor is destroyed twice and answered early** (`actor_revived`). The last
   reference that goes brings the holder back before it sets
   `mp_DestroyInitiated` (`ActorHolder.cpp:670`); a weak reference that is locked in
   between calls `f_Destroy` first, against the assertion at `:671`. The second
   `fp_DestroyInternal` is refused, and `f_Destroy` is answered while the actor is
   in `fp_Destroy`, against `Coroutines.dox:79`.
6. **Trusted actors are lost with their type** (`trusted_actors_lost`). The last
   subscription of a type takes the type and the actors it lists out of the entry
   of the namespace (`TrustedActors.cpp:356`). The distribution manager, still
   subscribed for other types, reports nothing again, and a later subscription to
   the type is not told of actors that are published and trusted, against
   `DesignGoals.dox:667`.

Seen while reading the code, not shown by a run:

- A packet that follows one whose handler failed stays buffered, and its
  repetition is dropped without processing the queue (`Manager_Protocol.cpp:63`),
  so it waits for the next Identify. With two connections a late Identify of a
  destroyed `CHost` moves its peer back to it.
- `Actor/RunQueue.hpp:65`: the destructor of the run queue looks one entry too far.
- `Trust/AuthCache.cpp:96`: the loop over the cached authentications does not
  advance past an entry of another user, so `f_RemovePermissions` for a user on any
  host hangs the trust manager, and then the subscriptions, while another user is
  cached. `Authentications` models it (`Endless`), and `EveryCallEnds` leaves out who
  waits for an actor that hangs; without that exception it is violated.
- `Trust/HostPermissions.cpp:213`: what is authenticated is forgotten before it is
  known whether the identity had the permission, and if not, the copies in the
  subscriptions keep it. An update of the cache does not look at the permissions
  again (`:408`), and the cache a subscription starts with has no timer (`:446`).
- `Promise_Coroutine.cpp:198`: a generator that is run for the first time between
  `fp_DestroyInternal` and the handler that deletes its actor has its result set
  over by an exception, against the assertion at `Promise.cpp:689`; the other
  abort looks at the flags first (`:148`).
- `AsyncGeneratorPrivate.hpp:178`: a generator whose owner is destroyed between two
  values ends as if it were done, where `DesignGoals.dox:129` and `:498` promise an
  exception.
- `Manager_RemoteCall.cpp:780`: an entry of `m_RemoteSubscriptionReferences` is kept
  until the session ends. `Manager_ActorRegistry.cpp:775`: a report that subscribers
  hold back goes to the session that is there when they are done.
- `Manager_Client.cpp:309`: the error of an attempt is reported before its sequence
  is compared (`:315`), so an attempt that fails late resets the socket of a later
  one and leaves a timer with a sequence that starts nothing; `KeepsTrying` leaves
  this case out by the name `overtaken`.
- `f_Connect` without `m_bRetryConnectOnFirstFailure` that fails leaves its entry in
  `m_ClientConnections` with nobody holding its ID (`:287`); a reconnect by hand goes
  by the same flag and may not be tried again; `m_bConnected` is set after the socket
  was closed when the answer of Identify is handled late (`:590`); a connection
  that was removed and is kept by a timer can be opened again by an attempt in
  flight; `CDistributedActorConnectionReference::f_Reconnect` clears
  `mp_DistributionManager` (`:74`). The callback of the old protocol for the end of
  publishing sets the promise without comparing the sequence
  (`Manager_Protocol.cpp:525`).
- `Trust/TrustedActors.cpp:228`: after the database removed a namespace its entry is
  removed if nobody subscribes, also when hosts were allowed meanwhile (`erased`). `m_Actors` keeps entries of actors that were
  removed, with an `m_pHost` that is gone (`TrustedActors.cpp:659`);
  `NamespaceIsKept` shows that it is not followed. An actor that is added again
  while the functor for its first addition runs is told as new, new, removed.
- `Trust/HostPermissions.cpp:247`: `f_RemovePermissions` removes the entry of the
  identity after the database removed the file, with what was added to it
  meanwhile and is in the database again (`erased`). `Trust/Init.cpp:402`: with an
  `f_Init` that does not wait for its connections, a connection that arrives after
  its removal makes an entry without settings and host, against the assertion below.
- `Trust/Server.cpp:192`: the entry of a listen that could not be saved is removed
  while `m_pPrimaryListen` may point at it (`Dangling`). With port 0, two calls that
  add one address at once both bind; the second is refused by the database, takes
  the entry of the first with it, and the listen of the first goes on without an
  entry (`stray`). A listen that was removed while `f_Init` tries it again comes back
  when the attempt ends after the removal (`Manager_Server.cpp:681`, `:745`).
- `Trust/Connection.cpp:263`: an attempt that was started before a setter or a new
  certificate is taken with the settings it was started with, and a call that adds an
  address puts it in with the certificate it got, also when the server has issued another
  one since and all that use it were already changed (`behind`). An address
  that is removed while it is added may stay in memory and go from the database, or
  the other way round, and a setter that the database then refuses may leave more
  connections than the entry has as its number (`raced`).
- `App/LogLocalStore_Upstream.cpp:87`: an entry that is being stored when a reporter
  is added, or was skipped because the reporter had failed, and is not committed
  when the snapshot is read, is neither in the snapshot nor queued, and the
  upstream takes later numbers for all before them (`overlooked`). The initial read of
  `f_SubscribeLogEntries` misses an entry that was told before and is committed after
  (`unread`). After a crash a number that was sent and not committed is given again.
- `App/LogLocalStore_Write.cpp:221` and `:274`: for logs of another host the
  transaction is used that was moved from at `:202`, as in
  `App/SensorLocalStore_Write.cpp:273`.

## The proofs

The constants are arbitrary, under the named assumption of each module
(`PacketQueueAssumption`, `LiveAssumption`, `HostSessionAssumption`,
`ActorHolderAssumption`, `LocalPartsAssumption`, `DistributedAssumption`): sets that are
counted or listed are finite, names that differ in the code differ, bounds are
numbers. TLC evaluates each on the instances of the runs. Every safety property below
is proved along one inductive invariant, which TLC checked first.

**PacketQueue_proofs.** The inductive invariant `IInv` adds to the checked
properties that kept packets were queued and are in one place (`KeptOnce`),
nothing is processed before it was queued (`QueuedFirst`), data in flight was sent
(`InFlightWasSent`), and each packet below the next number was handled once
(`HandledOnce`). `NoLoss` alone is not inductive: an acknowledgement keeps it only
because none in flight is ahead of the receiver, and reports stay behind it only
because the next number never falls. From `IInv` follow `TypeCorrect`,
`NothingLost`, `AcksNeverAhead`, `NothingTwice`, and `Refinement`: every step queues
a packet, processes the next ones, or is a stutter of `OrderedDelivery`.
A second invariant, `ConnInv`, is about the connections. `LastSendIsActive` and
`NoStalledPacket` are inductive as they stand; that an end which is not active never
gets an acknowledgement (`NoEarlyAck`) needs that the Identify an end owes is in flight
before anything of the other end that needs it (`IdentifyFirst`), in both directions.
In behaviours without failing handlers a packet whose turn it is does not wait beside an
active connection (`NoStalledArrival`): a handler that gives way to the next packet
processes all that are there, and a connection that becomes active does so too.

**HostSession_proofs.** For one connection (`OneConnection`), any number of restarts
and packets, also when both hosts restart. A host knows only objects its peer made
(`Objects`), an end waits for an Identify that is on its way (`Handshake`), what is in
flight is of the present objects of both or comes before an Identify that says
otherwise (`OnTheWire`), and the sessions of what was processed, buffered and is on the
wire pair up (`Paired`, `BufferPairs`, `WirePairs`). `Covered` is what makes
`StableHostNoLoss` inductive: a report in flight covers what its sender processed. The
hypothesis is needed: execution IDs have no order in the code, and with two connections
TLC finds a late Identify that takes a host back to an old peer (`PeerNeverGoesBack`,
in 8 steps) and sessions that do not pair (`SessionsPair`, in 18), while
`StableHostNoLoss` holds there too.

**ActorHolder_proofs.** `IInv` says what the word means. While the bit is clear, a
count promises that a run is coming (`Promised`). While it is set, exactly one
worker or the constructor holds it (`Locked`), and an entry that came after the
transfer has changed the count or its caller is about to (`Counted`). `OneThread`
and `NoWakeupIsLost` follow. For an actor without a fixed queue (`Local = {}`), what an
entry's caller knew of is taken, in the local queue or older in the shared one
(`QueueOrder`, `SharedOrder`), and what the actor itself knows of is never still in
the shared stack (`SelfBehind`), which is why its own calls may go straight to the
local queue. `Order` follows. With a fixed queue it is false, as
`actor_holder_fixed` shows.

**LocalParts_proofs.** Four parts, each with an invariant of its own, over the
specification of `MCLocalParts`, in which the others stand still.
`SequencerInv`: the count of running calls is the number of slots that are held, and
who has started is a prefix of who was accepted; hence `SlotsInOrder`.
`PromiseInv`: the reference count is the number of owners and of the future (`Counted`),
the result is set by one owner (`SetOnce`), and of those who publish and who wait one is
left to deliver, the last (`OneDelivers`); hence `ErrorsAreSeen`, and that a future is
given its result once. `TimerInv`: who is in the queue has a timer or is being called
(`Callbacks`), and the next wake-up is not after the first timer (`WakesInTime`).
`PoolInv`: of every queue with entries somebody is awake or has the count still to add
(`QueueSafe`); hence `NoSleepWithWork`. The proof of the promise found an error of the
model: two arms of a `CASE` overlapped when the data is both shared and last, where the
code has an order; they are now nested conditions.

**LocalActors_proofs.** `GeneratorInv`: calls that are not answered are in the mailbox
or queued, in order and once, and a coroutine is resumed by the one message for it;
hence `ValuesInOrder`. `DestroyInv`: a reference is held by an entry, a caller or a
destruction that is under way, and each entry is queued once (`CarriesOnce`); hence
`DeletedIsClean`. `GrantInv`: what a subscriber was told with what its messages
will tell it is what its wildcards match (`WillSee`), and what the database holds with
what it is asked for is what is granted (`Requested`); hence `PermissionsFollow`.

**DistributedParts_proofs.** Over the specification of `MCDistributedParts`.
`ConnInv`: an attempt, a timer or a socket leads on, or the connection was made by hand
and gave up; what is left over from earlier attempts has their number or settings
(`OneEach`, `Asked`, `AsSet`); hence `KeepsTrying`. `CallInv`: messages to the caller's
manager come in the order in which it needs them (`InOrder`), a functor has one owner
(`Owned`), and a subscription of the called host has a message, an entry or a
destruction at the caller's (`Kept`); hence `KeptWhileUsed`. `PubInv`: what a subscriber
knows and its notifications, one by one, add up to `m_RemoteActors` and none of them is
of no use (`Follows`); hence `SubscribersFollow`, for any actors, subscribers, sessions
and restarts. Its lemmas are about the operator `After` of `Publications`, which was a
fold and is now said of the last notification about an actor: what a fold computes
cannot be reasoned about here, what it means can.

**DistributedNames_proofs.** One part of `MCDistributedParts`. `NsInv`: the subscribers
that count are counted and there is an entry for them (`Participants`), and the first
subscription waits for exactly one thing, a message, a note or the actors that are
reported first (`Answered`). What makes the property inductive is the order of messages
over several subscriptions: an `unsubscribe` is before the next `subscribe`, notes of an
earlier subscription are before those of the present one (`InRound`, `Noted`), which has
nothing mapped before its first note (`Fresh`), and of each actor additions and removals
take turns and end with what is published (`Turns`); the requests to the database are
each of the kind that the ones before it call for (`InDatabase`). Hence `NamespaceIsKept`, for
any hosts and subscribers and as often as the last one leaves and another comes.

**DistributedTrust_proofs.** Two more parts of `MCDistributedParts`, and the one further
assumption that the manager is not one of the subscriptions (`CheckersAssumption`).
`AuthInv`: what a subscription remembers, changed by the messages to it, is what the
manager remembers (`CopiesAgree`), where two times that have passed are the same
(`Lasting`), as a cleaned cache and one that is not yet differ in them. The property alone
is not inductive, as it says nothing of a subscription with messages. What the manager
remembers is of users with a permission (`Deserved`), and a timer will clean it (`Watched`).
Hence `AuthenticationsFollow`, for any subscriptions, times and changes.
`LogInv`: numbers are given once and a number above the saved one that is not in the
database was lost in a crash or is being written (`Numbered`, `Accounted`); what is known
up to the last number the upstream has seen is stored there (`Followed`), and while the
reporter is open, all that is known is seen, on its way in an order in which nothing below
is left out, or has a task of its own (`Sending`). `UpstreamAgrees` alone is not inductive: the
upstream moves its number by what a call holds, so each call must be preceded by all that is
below it. For the readers: what is queued is in order and above what was
given (`Reading`); hence `ReadersFollow`. Both hold for any number of entries,
crashes and sizes of batches.

Only model-checked: `TrustIsKept` (the listens and connections of the trust manager),
and `TypeOK` of `MCLocalParts` and `MCDistributedParts` (of the parts that are proved it is
within their invariants); and of `HostSession` everything with two
connections. Liveness (`RefinesOrderedDelivery`, `RecoveredAtKnownPriority` and the
properties of the form `[]<>` and `<>[]`) is out of the prover's reach.

## Not modelled

- Locks and thread-safe queues: the lock actor is a sequencer with readers; the
  queues are not used by the actor system itself.
- Of the trust manager: users, authentication factors and the cache of
  authentications, and the lifetime of tickets, which are handlers around a database
  or the clock and pages of input and output.
- Of the distributed application: command line, settings, daemon and updates, which
  are input and output, and the sensor store, which repeats the log store.
- The type registry and streams (pure functions of types), the DDP bridge and U2F
  (adapters to other systems).
- Within the components that are modelled, what their sections above leave out.

## Plan

Done, in this order: the packet queue, the session and the holder, because
everything else is built on calls being delivered once and in order; then what a
process builds on the holder, and what hosts build on the session.

Next:
1. Proofs: `TrustIsKept`, and the types of the parts.
2. Users and their factors beside `Authentications`; tickets that expire; an `f_Init`
   that does not wait.
3. The sensor store, whose readings are replaced where log entries are added, and
   the lock actor.
4. `f_BlockDestroy` and the shutdown of the concurrency manager.

Abstract specifications worth stating beside `OrderedDelivery`: a stream of calls
processed one at a time in causal order, to be implemented by `ActorHolder`; a
FIFO semaphore, by `ActorSequencer`; a log that is copied in order, by `LogStore`.

Runs are kept few: modules that share no state share a run, with the liveness
checked on the smaller instance.
