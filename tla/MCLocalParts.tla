--------------------------- MODULE MCLocalParts ---------------------------
(***************************************************************************)
(* The parts of one process that share no state, side by side: a behaviour  *)
(* is one of one part, chosen in the initial state, in which the others do  *)
(* not move.                                                                *)
(***************************************************************************)
EXTENDS Naturals, FiniteSets

CONSTANTS
    Owners, First,                                  \* Promise
    SequencerCalls, MaxConcurrency,                 \* ActorSequencer
    Users,                                          \* ActorDestroy
    Queues, FixedQueues, Outside, InvalidQueue, NJobs, Target,      \* PoolThreads
    Caller, Worker, Local, Self, MaxCalls, MaxYields,               \* ActorHolder
    PipelineLength, MaxNext,                        \* AsyncGenerator
    Names, FirstName, NRequirements, Readers, ReadersOfAll, MaxChanges,   \* Permissions
    Addresses, AnyPort, AddCalls, NoAddress, MaxSets, MaxFailures,    \* TrustListens
    Servers, Known, Ops, Nobody, MaxErrors,                         \* TrustConnections
    Periodic, Exact, Plain, Abortable, AtExit, EveryPeriod, Period, BatchSize, Mortal,
    MaxLate, MaxUsed                                                \* TimerActor

\* The calls and threads of a process are finitely many, and its limits are numbers.
ASSUME LocalPartsAssumption ==
    /\ IsFiniteSet(Owners) /\ First \in Owners
    /\ IsFiniteSet(SequencerCalls) /\ MaxConcurrency \in Nat
    /\ Users \cap {"destroy", "revived", "job", "self", "nobody"} = {}
    /\ MaxNext \in Nat /\ PipelineLength \in 1..MaxNext /\ NRequirements \in Nat
    /\ Outside \notin Queues /\ NJobs \in Nat /\ Target \in Nat
    /\ Period \in Nat \ {0} /\ MaxLate \in Nat /\ EveryPeriod \notin Periodic \cup Exact \cup Plain \cup Abortable
    /\ (Periodic \cup Exact) \cap (Plain \cup Abortable) = {} /\ AtExit \subseteq Plain

VARIABLES
    part,       \* the part this behaviour is one of
    flags, result, owner, future, held, promises, got, reported, alive,
    toSequence, nRunning, slot, answer, runs, destroy, accepted, started,
    refs, queue, job, overrides, actorAlive, bit, mpDestroyed, initiated, reviving, inDestroy,
    call, destroyAnswer, holder,
    where, original, working, event, shared, local, idle, adding, offer, fixed, ranOn,
    busy, count, pushed, holderQueue, yielding, holderRuns, at, orig, again, actor, owed, current,
    past, knows, over, yields,
    coroutine, sets, queued, inProgress, done, failed, destroyed, yielded, generatorOwner, inbox,
    iterator, asked, said, given,
    perms, permissionsInDatabase, subs, told, permissionsStored, permissionsToDatabase, resumes, phase,
    view, mail, erased, calls,
    ready, window, ref, primary, certificate, generating, addCall, toDatabase, answers, dbWindow,
    dbPrimary, dbCertificate, known, socket, stopping, ahead, stray, listenSets, failures,
    conn, inDatabase, stored, requests, replies, op, issued, pending, opFailed, raced, behind, errors,
    clock, left, listed, outstanding, missed, destroying, awaiting, resuming, deadline, wakes,
    processing, nProcessed, registering, subscriber, running, returned, gone, fired, shutdown

Promises == INSTANCE Promise
Sequencer == INSTANCE ActorSequencer WITH Calls <- SequencerCalls
Ends == INSTANCE ActorDestroy WITH answer <- destroyAnswer
Pool == INSTANCE PoolThreads
Holding == INSTANCE ActorHolder WITH shared <- pushed, queue <- holderQueue, runs <- holderRuns
Generator == INSTANCE AsyncGenerator WITH owner <- generatorOwner, made <- asked
Granting == INSTANCE Permissions WITH inDatabase <- permissionsInDatabase, MaxCalls <- MaxChanges,
    stored <- permissionsStored, toDatabase <- permissionsToDatabase
Listens == INSTANCE TrustListens WITH call <- addCall, sets <- listenSets
Connections == INSTANCE TrustConnections WITH failed <- opFailed
Timing == INSTANCE TimerActor

promiseVars == <<flags, result, owner, future, held, promises, got, reported, alive>>
sequencerVars == <<toSequence, nRunning, slot, answer, runs, destroy, accepted, started>>
destroyVars == <<refs, queue, job, overrides, actorAlive, bit, mpDestroyed, initiated, reviving,
                 inDestroy, call, destroyAnswer, holder>>
poolVars == <<where, original, working, event, shared, local, idle, adding, offer, fixed, ranOn>>
holderVars == <<busy, count, pushed, holderQueue, yielding, holderRuns, at, orig, again, actor, owed,
                current, past, knows, over, yields>>
generatorVars == <<coroutine, sets, queued, inProgress, done, failed, destroyed, yielded,
                   generatorOwner, inbox, iterator, asked, said, given>>
grantingVars == <<perms, permissionsInDatabase, subs, told, permissionsStored, permissionsToDatabase,
                  resumes, phase, view, mail, erased, calls>>
listensVars == <<ready, window, ref, primary, certificate, generating, addCall, toDatabase, answers,
                 dbWindow, dbPrimary, dbCertificate, known, socket, stopping, ahead, stray, listenSets,
                 failures>>
connectionsVars == <<conn, inDatabase, stored, requests, replies, op, issued, pending, opFailed, raced,
                     behind, errors>>
timingVars == <<clock, left, listed, outstanding, missed, destroying, awaiting, resuming, deadline,
                wakes, processing, nProcessed, registering, subscriber, running, returned, gone, fired,
                shutdown>>
vars == <<part, promiseVars, sequencerVars, destroyVars, poolVars, holderVars, generatorVars,
          grantingVars, listensVars, connectionsVars, timingVars>>

Init ==
    /\ part \in {"promise", "sequencer", "destroy", "pool", "holder", "generator", "granting", "listens",
                "connections", "timing"}
    /\ Timing!Init /\ Granting!Init /\ Listens!Init /\ Connections!Init
    /\ Promises!Init /\ Sequencer!Init /\ Pool!Init /\ Holding!Init /\ Generator!Init
    /\ Ends!Init /\ (part # "destroy" => overrides = FALSE)

Only(p) ==
    /\ part = p /\ UNCHANGED part
    /\ IF p = "promise" THEN TRUE ELSE UNCHANGED promiseVars
    /\ IF p = "sequencer" THEN TRUE ELSE UNCHANGED sequencerVars
    /\ IF p = "destroy" THEN TRUE ELSE UNCHANGED destroyVars
    /\ IF p = "pool" THEN TRUE ELSE UNCHANGED poolVars
    /\ IF p = "holder" THEN TRUE ELSE UNCHANGED holderVars
    /\ IF p = "generator" THEN TRUE ELSE UNCHANGED generatorVars
    /\ IF p = "granting" THEN TRUE ELSE UNCHANGED grantingVars
    /\ IF p = "listens" THEN TRUE ELSE UNCHANGED listensVars
    /\ IF p = "connections" THEN TRUE ELSE UNCHANGED connectionsVars
    /\ IF p = "timing" THEN TRUE ELSE UNCHANGED timingVars

Next ==
    \/ Only("promise") /\ Promises!Next
    \/ Only("sequencer") /\ Sequencer!Next
    \/ Only("destroy") /\ Ends!Next
    \/ Only("pool") /\ Pool!Next
    \/ Only("holder") /\ Holding!Next
    \/ Only("generator") /\ Generator!Next
    \/ Only("granting") /\ Granting!Next
    \/ Only("listens") /\ Listens!Next
    \/ Only("connections") /\ Connections!Next
    \/ Only("timing") /\ Timing!Next

\* What the parts do of themselves, each by the code that schedules it. The others
\* do not move with it, by Next.
Spec ==
    /\ Init /\ [][Next]_vars
    /\ WF_sequencerVars(part = "sequencer" /\ Sequencer!Progress)
    /\ WF_destroyVars(part = "destroy" /\ Ends!Progress)
    /\ WF_poolVars(part = "pool" /\ Pool!Progress)
    /\ WF_holderVars(part = "holder" /\ Holding!Progress)
    /\ WF_generatorVars(part = "generator" /\ Generator!Progress)
    /\ WF_listensVars(part = "listens" /\ Listens!Progress)
    /\ WF_connectionsVars(part = "connections" /\ Connections!Progress)
    /\ WF_timingVars(part = "timing" /\ Timing!Tick)
    /\ WF_timingVars(part = "timing" /\ Timing!Processing)
    /\ WF_timingVars(part = "timing" /\ Timing!CheckTimers)
    /\ WF_timingVars(part = "timing" /\ Timing!BeginProcessing)
    /\ \A s \in Timing!Registered :
          /\ WF_timingVars(part = "timing" /\ Timing!CallbackReturns(s))
          /\ WF_timingVars(part = "timing" /\ Timing!Served(s))

----------------------------------------------------------------------------

\* Every part keeps its types.
TypeOK ==
    CASE part = "promise" -> Promises!TypeOK
      [] part = "sequencer" -> Sequencer!TypeOK
      [] part = "destroy" -> Ends!TypeOK
      [] part = "pool" -> Pool!TypeOK
      [] part = "holder" -> Holding!TypeOK
      [] part = "generator" -> Generator!TypeOK
      [] part = "granting" -> Granting!TypeOK
      [] part = "listens" -> Listens!TypeOK
      [] part = "connections" -> Connections!TypeOK
      [] part = "timing" -> Timing!TypeOK

\* A future is given the result once, whoever publishes last (Promise.hpp, f_OnResult),
\* and the calls of a timer do not overlap or come after its end (f_CallTimer).
DeliveredOnce == Promises!DeliveredOnce /\ Timing!CallsAreOrderly
\* No exception vanishes with the data of a promise (f_ReportNothingSetAtExit).
ErrorsAreSeen == Promises!ErrorsAreSeen

\* Calls of a sequencer get its slots in order, and at once (fp_ProcessSequence).
SlotsInOrder == Sequencer!SlotsInOrder
\* Calls are answered: those to a sequencer and the values asked of a generator also
\* when these are destroyed, and those of the trust manager whatever fails. So are the
\* calls to the timer actor, and timers elapse again and again.
EveryCallAnswered ==
    /\ Sequencer!EveryCallAnswered /\ Generator!EveryNextAnswered
    /\ Listens!EveryAddEnds /\ Connections!EveryOpEnds /\ Timing!TimersServe

\* Nothing refers to an actor holder that is deleted, and it leaves nobody waiting.
DeletedIsClean == Ends!DeletedIsClean
\* Calls and destructions are answered, and what nobody refers to is deleted.
EndsForAll == Ends!EndsForAll

\* No pool thread sleeps on jobs (fp_AddToQueue, fp_RunThread), nor past the time of a
\* timer (f_ProcessTimers).
NoSleepWithWork == Pool!NoSleepWithWork /\ Timing!NoTimerForgotten
\* Every job that is queued to the pool runs, and the calls of an actor that is fixed
\* to a queue are processed (fp_RunThread, fp_RunProcess).
EveryJobRuns == Pool!EveryJobRuns /\ Holding!EveryCallProcessed

\* A generator answers its calls in order and is resumed once for each (f_RunGenerator).
ValuesInOrder == Generator!ValuesInOrder

\* Subscribers have the permissions their wildcards match, and the database what
\* was granted (f_AddPermissions, f_RemovePermissions, fp_SubscribeToPermissions).
PermissionsFollow == Granting!PermissionsFollow
\* The trust manager's listens, with the primary one and the certificate, and its
\* connections, with their certificate and settings, are those in the database, and
\* in the distribution manager, after calls that overlap (f_AddListen, f_RemoveListen,
\* f_AddClientConnection, f_SetClientConnectionConcurrency and the others).
TrustIsKept == Listens!ListensAreKept /\ Connections!ConnectionsAreKept
=============================================================================
