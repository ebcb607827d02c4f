----------------------------- MODULE TimerActor -----------------------------
(***************************************************************************)
(* CTimerActor: the timers of one queue of the concurrency manager.  The    *)
(* handlers of the actor do not interleave, but the clock goes on while     *)
(* f_ProcessTimers runs, and the results of callbacks, subscriptions that   *)
(* are dropped and wakes of the queue arrive in any order.  Times are       *)
(* relative to the present: `left' is what remains until a timer elapses,   *)
(* less than zero once it is late.                                          *)
(***************************************************************************)
EXTENDS Integers, FiniteSets, FiniteSetsExt, Functions

CONSTANTS
    Periodic, Exact,    \* the subscriptions of f_RegisterTimer and f_RegisterExactTimer
    Plain, Abortable,   \* those of f_OneshotTimer and f_OneshotTimerAbortable
    AtExit,             \* the Plain ones with _bFireAtExit
    EveryPeriod,        \* the entry of m_RegisteredTimers, which the Periodic share
    Period,             \* _Period
    BatchSize,          \* how many timers f_ProcessTimers handles, 64
    Mortal,             \* the subscriptions whose actor may be deleted
    MaxLate,            \* bound on the lateness of timers and registrations
    MaxUsed             \* bound on the number of registrations

VARIABLES
    clock,          \* the time, modulo Period
    left,           \* m_TimerQueue: the timers and their m_NextElapse
    listed,         \* the subscriptions that are in the m_Callbacks of their timer
    outstanding, missed, destroying,    \* their m_bOutstanding, m_bMissed, m_bDestroying
    awaiting,       \* those whose destruction awaits m_DestroyPromise
    resuming,       \* those whose m_DestroyPromise is set
    deadline,       \* m_TimerDeadline of the queue, if it has one
    wakes,          \* calls of fp_ProcessTimers that are queued
    processing, nProcessed,     \* f_ProcessTimers
    registering,    \* the subscription whose registration f_ProcessTimers ends
    subscriber,     \* what the user of each has
    running,        \* the calls of each callback that have not ended
    returned,       \* the callbacks whose result is queued
    gone,           \* the subscriptions whose actor is deleted
    fired,          \* history: the oneshots that were called
    shutdown        \* f_BlockOnDestroy of the manager

timerVars == <<clock, left, listed, outstanding, missed, destroying, awaiting, resuming, deadline,
               wakes, processing, nProcessed, registering, subscriber, running, returned,
               gone, fired, shutdown>>
callVars == <<listed, outstanding, missed, destroying, awaiting, resuming, running, returned>>
loopVars == <<deadline, processing, nProcessed, registering>>
userVars == <<gone, shutdown>>

Registered == Periodic \cup Exact
Oneshots == Plain \cup Abortable
Subscriptions == Registered \cup Oneshots
TimerOf(s) == IF s \in Periodic THEN EveryPeriod ELSE s
Timers == {TimerOf(s) : s \in Subscriptions}

TypeOK ==
    /\ clock \in 0..(Period - 1)
    /\ DOMAIN left \subseteq Timers /\ \A t \in DOMAIN left : left[t] \in -MaxLate..Period
    /\ outstanding \cup missed \cup destroying \subseteq listed /\ listed \subseteq Registered
    /\ awaiting \cup resuming \subseteq destroying
    /\ deadline \subseteq -MaxLate..Period /\ Cardinality(deadline) <= 1
    /\ wakes \in 0..(1 + Cardinality(Subscriptions))
    /\ processing \in BOOLEAN /\ nProcessed \in 0..BatchSize
    /\ registering \subseteq Subscriptions /\ Cardinality(registering) <= 1
    /\ subscriber \in [Subscriptions -> {"none", "asks", "has", "leaves", "left"}]
    /\ running \in [Registered -> 0..1] /\ returned \subseteq listed
    /\ gone \subseteq Mortal /\ fired \subseteq Oneshots
    /\ shutdown \in {"no", "fired", "prepared"}

Init ==
    /\ clock = 0 /\ left = [t \in {} |-> 0] /\ listed = {}
    /\ outstanding = {} /\ missed = {} /\ destroying = {} /\ awaiting = {} /\ resuming = {}
    /\ deadline = {} /\ wakes = 0 /\ processing = FALSE /\ nProcessed = 0 /\ registering = {}
    /\ subscriber = [s \in Subscriptions |-> "none"] /\ running = [s \in Registered |-> 0]
    /\ returned = {} /\ gone = {} /\ fired = {} /\ shutdown = "no"

Without(timers) == Restrict(left, DOMAIN left \ timers)

----------------------------------------------------------------------------
(* The clock, and the rest of the process.                                 *)

Tick ==
    /\ \A t \in DOMAIN left : left[t] > -MaxLate
    /\ clock' = (clock + 1) % Period
    /\ left' = [t \in DOMAIN left |-> left[t] - 1]
    /\ deadline' = {IF d > -MaxLate THEN d - 1 ELSE d : d \in deadline}
    /\ UNCHANGED <<callVars, wakes, processing, nProcessed, registering, subscriber, fired, userVars>>

ActorDeleted(s) ==
    /\ s \in Mortal \ gone
    /\ gone' = gone \cup {s}
    /\ UNCHANGED <<clock, left, callVars, loopVars, wakes, subscriber, fired, shutdown>>

\* fp_CheckTimers, between the handlers.
CheckTimers ==
    /\ ~processing /\ \E d \in deadline : d <= 0
    /\ deadline' = {}
    /\ wakes' = wakes + 1
    /\ UNCHANGED <<clock, left, callVars, processing, nProcessed, registering, subscriber, fired, userVars>>

----------------------------------------------------------------------------
(* The handlers.                                                           *)

CallTimersAgain(timers) ==      \* mutant: does not wait for the last call
    LET called == {s \in listed \ (destroying \cup gone) : TimerOf(s) \in timers}
    IN  /\ outstanding' = outstanding \cup called
        /\ running' = [s \in Registered |-> running[s] + (IF s \in called THEN 1 ELSE 0)]
        /\ fired' = fired \cup (Oneshots \cap timers)
        /\ UNCHANGED <<listed, missed, destroying, awaiting, resuming, returned>>

\* f_CallTimer, on each of the timers: callbacks that are being destroyed are left out,
\* those whose last call has not returned are not called but marked, and those whose
\* actor is deleted are not called (fp_CallTimerCallback).
CallTimers(timers) ==
    LET callees == {s \in listed \ destroying : TimerOf(s) \in timers}
        called == callees \ (outstanding \cup gone)
    IN  /\ outstanding' = outstanding \cup called
        /\ missed' = (missed \ called) \cup (callees \cap outstanding)
        /\ running' = [s \in Registered |-> running[s] + (IF s \in called THEN 1 ELSE 0)]
        /\ fired' = fired \cup (Oneshots \cap timers)
        /\ UNCHANGED <<listed, destroying, awaiting, resuming, returned>>

\* The handler goes on to f_ProcessTimers, for a registration or not.
GoProcess(registrations) ==
    /\ ~processing
    /\ processing' = TRUE /\ nProcessed' = 0 /\ registering' = registrations
    /\ UNCHANGED deadline

\* m_NextElapse of a new timer, for a call that was made `age' before it arrives.
Expected(s, age) ==
    IF s \in Periodic THEN ((clock - age + Period) \div Period) * Period - clock
    ELSE Period - age

\* f_RegisterTimer, f_RegisterExactTimer, f_OneshotTimer and f_OneshotTimerAbortable.
Register(s, age) ==
    /\ subscriber[s] = "none" /\ s \notin gone
    /\ Cardinality({u \in Subscriptions : subscriber[u] # "none"}) < MaxUsed
    /\ subscriber' = [subscriber EXCEPT ![s] = "asks"]
    /\ left' = [t \in DOMAIN left \cup {TimerOf(s)} |->
                   IF t \in DOMAIN left THEN left[t] ELSE Expected(s, age)]
    /\ listed' = listed \cup ({s} \cap Registered)
    /\ GoProcess({s})
    /\ UNCHANGED <<clock, outstanding, missed, destroying, awaiting, resuming, running, returned, wakes,
                   fired, userVars>>

\* fp_ProcessTimers. Results that are queued go first: to handle one after it is the same
\* as if the callback returned later.
BeginProcessing ==
    /\ wakes > 0 /\ returned = {} /\ resuming = {}
    /\ wakes' = wakes - 1
    /\ GoProcess({})
    /\ UNCHANGED <<clock, left, callVars, subscriber, fired, userVars>>

\* The next elapse of a periodic timer that is processed: the loop over m_NextElapse
\* moves it past the time, unless it is the time.
Advanced(late) ==
    IF late = 0 THEN 0
    ELSE IF -late > Period THEN Period - (-late % Period)
    ELSE late + Period

\* One turn of the loop of f_ProcessTimers.
ProcessTimer(t) ==
    /\ processing /\ nProcessed < BatchSize
    /\ t \in DOMAIN left /\ left[t] <= 0 /\ \A u \in DOMAIN left : left[t] <= left[u]
    /\ nProcessed' = nProcessed + 1
    /\ CallTimers({t})
    /\ left' = IF t \in Oneshots THEN Without({t}) ELSE [left EXCEPT ![t] = Advanced(@)]
    /\ UNCHANGED <<clock, deadline, wakes, processing, registering, subscriber, userVars>>

\* The end of f_ProcessTimers, and of the handler that called it.
Processed ==
    /\ processing
    /\ nProcessed = BatchSize \/ \A t \in DOMAIN left : left[t] > 0
    /\ processing' = FALSE /\ nProcessed' = 0 /\ registering' = {}
    /\ deadline' = IF DOMAIN left = {} THEN {} ELSE {Min(Range(left))}
    /\ subscriber' = [s \in Subscriptions |-> IF s \in registering THEN "has" ELSE subscriber[s]]
    /\ UNCHANGED <<clock, left, callVars, wakes, fired, userVars>>

\* The last step of a destruction: the callback goes, and with the last one its timer.
RemoveCallback(s) ==
    /\ listed' = listed \ {s}
    /\ left' = IF \E u \in listed \ {s} : TimerOf(u) = TimerOf(s) THEN left
               ELSE Without({TimerOf(s)})
    /\ outstanding' = outstanding \ {s} /\ missed' = missed \ {s}
    /\ destroying' = destroying \ {s} /\ awaiting' = awaiting \ {s} /\ resuming' = resuming \ {s}
    /\ subscriber' = [subscriber EXCEPT ![s] = "left"]
    /\ UNCHANGED <<running, returned>>

\* The destroy function of the subscription that a registration returned.
Unsubscribe(s) ==
    /\ ~processing /\ subscriber[s] = "has"
    /\ UNCHANGED <<clock, loopVars, wakes, fired, userVars>>
    /\ \/ /\ s \in Abortable
          /\ left' = Without({s})
          /\ subscriber' = [subscriber EXCEPT ![s] = "left"]
          /\ UNCHANGED callVars
       \/ /\ s \in outstanding
          /\ subscriber' = [subscriber EXCEPT ![s] = "leaves"]
          /\ destroying' = destroying \cup {s} /\ awaiting' = awaiting \cup {s}
          /\ UNCHANGED <<left, listed, outstanding, missed, resuming, running, returned>>
       \/ /\ s \in Registered \ outstanding
          /\ RemoveCallback(s)

\* A callback ends, or its actor was deleted before it ran.
CallbackReturns(s) ==
    /\ running[s] > 0
    /\ running' = [running EXCEPT ![s] = @ - 1]
    /\ returned' = returned \cup {s}
    /\ UNCHANGED <<clock, left, listed, outstanding, missed, destroying, awaiting, resuming, loopVars,
                   wakes, subscriber, fired, userVars>>

\* The result of a callback, in fp_CallTimerCallback: it makes up for a missed call unless
\* the next one is near.
Result(s) ==
    LET again == s \in missed \ (destroying \cup gone) /\ 10 * left[TimerOf(s)] > Period
    IN  /\ ~processing /\ s \in returned
        /\ returned' = returned \ {s}
        /\ outstanding' = IF again THEN outstanding ELSE outstanding \ {s}
        /\ missed' = IF again THEN missed \ {s} ELSE missed
        /\ running' = [running EXCEPT ![s] = IF again THEN @ + 1 ELSE @]
        /\ resuming' = resuming \cup (awaiting \cap {s})
        /\ UNCHANGED <<clock, left, listed, destroying, awaiting, loopVars, wakes, subscriber,
                       fired, userVars>>

\* The destruction goes on after m_DestroyPromise.
Resume(s) ==
    /\ ~processing /\ s \in resuming
    /\ RemoveCallback(s)
    /\ UNCHANGED <<clock, loopVars, wakes, fired, userVars>>

\* f_BlockOnDestroy fires timers while actors of users are left: first and again those
\* with _bFireAtExit, then all, which happens once here.
FireAtExit ==
    /\ ~processing /\ shutdown # "prepared"
    /\ CallTimers(AtExit \cap DOMAIN left)
    /\ left' = Without(AtExit)
    /\ UNCHANGED <<clock, loopVars, wakes, subscriber, userVars>>

FireAllTimeouts ==
    /\ ~processing /\ shutdown = "no"
    /\ shutdown' = "fired"
    /\ CallTimers(DOMAIN left)
    /\ left' = Without(Oneshots)
    /\ UNCHANGED <<clock, loopVars, wakes, subscriber, gone>>

\* fp_PrepareShutdown, once they are gone and no call is left: what is not to fire at
\* exit is dropped.
PrepareShutdown ==
    /\ shutdown # "prepared" /\ Mortal \subseteq gone
    /\ outstanding = {} /\ wakes = 0
    /\ shutdown' = "prepared"
    /\ CallTimers(AtExit \cap DOMAIN left)
    /\ left' = Without(Oneshots)
    /\ GoProcess({})
    /\ UNCHANGED <<clock, wakes, subscriber, gone>>

Processing == (\E t \in Timers : ProcessTimer(t)) \/ Processed

Next ==
    \/ Tick \/ CheckTimers \/ BeginProcessing \/ Processing
    \/ \E s \in Subscriptions :
          ActorDeleted(s) \/ Unsubscribe(s) \/ \E age \in 0..MaxLate : Register(s, age)
    \/ \E s \in Registered : CallbackReturns(s) \/ Result(s) \/ Resume(s)
    \/ FireAtExit \/ FireAllTimeouts \/ PrepareShutdown

\* What waits in the queue of the actor stays until it is handled, as the loop of
\* f_ProcessTimers ends and is not started again before.
Served(s) == Result(s) \/ Resume(s)
----------------------------------------------------------------------------

\* The calls of a registered callback do not overlap, and none is made or still runs
\* when the destruction of its subscription was answered; a oneshot is called once.
CallsAreOrderly ==
    /\ \A s \in Registered :
          running[s] + (IF s \in returned THEN 1 ELSE 0) = IF s \in outstanding THEN 1 ELSE 0
    /\ \A s \in Registered : subscriber[s] = "left" => running[s] = 0
    /\ fired \cap DOMAIN left = {}

\* No timer is forgotten: the queue wakes in time for the next one, whoever registers or
\* goes and however many timers are due, and the timer of a subscriber is there
\* while it has its subscription, although others share it and leave.
NoTimerForgotten ==
    /\ processing \/ wakes > 0 \/ \A t \in DOMAIN left : \E d \in deadline : d <= left[t]
    /\ \A s \in Subscriptions : subscriber[s] = "has" =>
          TimerOf(s) \in DOMAIN left \/ s \in fired \/ (s \in Oneshots /\ shutdown = "prepared")

\* Destructions end, and who has a periodic timer is called time and again, also when
\* calls take longer than the period.
TimersServe ==
    \A s \in Subscriptions :
        /\ []<>(subscriber[s] \notin {"asks", "leaves"})
        /\ s \in Registered => []<>(subscriber[s] = "has" /\ s \notin gone => running[s] > 0)
        /\ s \in Oneshots => []<>(s \notin DOMAIN left)
=============================================================================
