------------------------------ MODULE Promise ------------------------------
(***************************************************************************)
(* The data a promise and its future share (Promise.hpp, Promise.cpp).     *)
(* One word of flags decides which side delivers the result, one word of   *)
(* counts keeps the data alive, and each access to either is a step:       *)
(* promise references are copied to, set on and dropped by any thread,     *)
(* while one party has the future.                                         *)
(***************************************************************************)
EXTENDS Naturals, Sequences, FiniteSets

CONSTANTS
    Owners,     \* threads that may hold a reference to the promise
    First       \* the one that makes it

VARIABLES
    flags,      \* m_OnResultSet
    result,     \* m_Result: "none", "value", "error", "notSet"
    owner,      \* where each owner is with its reference
    future,     \* where the party with the future is
    held,       \* the future object keeps its reference
    promises,   \* promise references in m_RefCount
    got,        \* what the party with the future was given, in order
    reported,   \* an unobserved exception was reported
    alive       \* the data is not deleted

promiseVars == <<flags, result, owner, future, held, promises, got, reported, alive>>

Flag == {"data", "functor", "discard"}
Failed(r) == r \in {"error", "notSet"}

TypeOK ==
    /\ flags \subseteq Flag
    /\ result \in {"none", "value", "error", "notSet"}
    /\ owner \in [Owners -> {"no", "has", "set", "published", "last", "notSet",
                             "publishedNotSet", "drop"}]
    /\ future \in {"none", "moving", "has", "setsFunctor", "suspends", "deliver",
                   "waits", "awaits", "done"}
    /\ held \in BOOLEAN
    /\ promises \in 0 .. Cardinality(Owners)
    /\ got \in {<<>>} \cup [1 .. 1 -> {"value", "error", "notSet"}]
               \cup [1 .. 2 -> {"value", "error", "notSet"}]
    /\ reported \in BOOLEAN
    /\ alive \in BOOLEAN

Init ==
    /\ flags = {} /\ result = "none"
    /\ owner = [t \in Owners |-> IF t = First THEN "has" ELSE "no"]
    /\ future = "none" /\ held = FALSE
    /\ promises = 1
    /\ got = <<>> /\ reported = FALSE /\ alive = TRUE

Deliver(r) == got' = IF Len(got) < 2 THEN Append(got, r) ELSE got

\* ~TCPromiseData with f_ReportNothingSetAtExit, when both counts are gone.
DeletedWhen(gone) ==
    IF ~gone
    THEN UNCHANGED <<flags, result, got, reported, alive>>
    ELSE /\ alive' = FALSE
         /\ flags' = flags \cup {"data", "functor"}
         /\ IF flags \cap {"data", "functor"} = {"functor"}
            THEN /\ result' = "notSet" /\ Deliver("notSet")
                 /\ UNCHANGED reported
            ELSE /\ reported' = (flags = {"data"} /\ Failed(result))
                 /\ UNCHANGED <<result, got>>

----------------------------------------------------------------------------
(* Owners of the promise.                                                  *)

Copy(t, u) ==
    /\ owner[t] = "has" /\ owner[u] = "no"
    /\ owner' = [owner EXCEPT ![u] = "has"]
    /\ promises' = promises + 1
    /\ UNCHANGED <<flags, result, future, held, got, reported, alive>>

\* f_SetResult, f_SetException: a promise is set by one owner, once.
SetResult(t) ==
    /\ owner[t] = "has" /\ result = "none"
    /\ \E r \in {"value", "error"} : result' = r
    /\ owner' = [owner EXCEPT ![t] = "set"]
    /\ UNCHANGED <<flags, future, held, promises, got, reported, alive>>

OnResultDrops(t) ==     \* mutant: does not look for the functor
    /\ owner[t] = "set"
    /\ flags' = flags \cup {"data"}
    /\ owner' = [owner EXCEPT ![t] = "drop"]
    /\ UNCHANGED <<result, future, held, promises, got, reported, alive>>

\* f_OnResult: the exchange on the flags.
OnResult(t) ==
    /\ owner[t] = "set"
    /\ flags' = flags \cup {"data"}
    /\ owner' = [owner EXCEPT ![t] = IF "functor" \in flags THEN "published" ELSE "drop"]
    /\ UNCHANGED <<result, future, held, promises, got, reported, alive>>

\* The owner that reports is done: it drops its reference, or has turned it
\* into the future already.
Reported(t) ==
    /\ owner' = [owner EXCEPT ![t] = IF future = "moving" THEN "no" ELSE "drop"]
    /\ future' = IF future = "moving" THEN "has" ELSE future

CallFunctor(t) ==
    /\ owner[t] \in {"published", "publishedNotSet"}
    /\ Deliver(result)
    /\ owner' = [owner EXCEPT ![t] = "drop"]
    /\ future' = "done"
    /\ UNCHANGED <<flags, result, held, promises, reported, alive>>

\* f_Clear: is this the last reference to the promise?
Clear(t) ==
    /\ owner[t] = "has"
    /\ owner' = [owner EXCEPT ![t] = IF promises = 1 THEN "last" ELSE "drop"]
    /\ UNCHANGED <<flags, result, future, held, promises, got, reported, alive>>

\* f_ReportNothingSet: returns when set or discarded, else prepares the exception.
ReportNothingSet(t) ==
    /\ owner[t] = "last"
    /\ IF flags \cap {"data", "discard"} # {}
       THEN Reported(t) /\ UNCHANGED result
       ELSE /\ owner' = [owner EXCEPT ![t] = "notSet"]
            /\ result' = "notSet"
            /\ UNCHANGED future
    /\ UNCHANGED <<flags, held, promises, got, reported, alive>>

ReportNothingSetPublish(t) ==
    /\ owner[t] = "notSet"
    /\ flags' = flags \cup {"data", "discard"}
    /\ IF flags \cap {"data", "functor"} = {"functor"}
       THEN owner' = [owner EXCEPT ![t] = "publishedNotSet"] /\ UNCHANGED future
       ELSE Reported(t)
    /\ UNCHANGED <<result, held, promises, got, reported, alive>>

\* f_PromiseDecrease and the deletion.
PromiseDecrease(t) ==
    /\ owner[t] = "drop"
    /\ promises' = promises - 1
    /\ owner' = [owner EXCEPT ![t] = "no"]
    /\ DeletedWhen(promises = 1 /\ ~held)
    /\ UNCHANGED <<future, held>>

----------------------------------------------------------------------------
(* The future.                                                             *)

\* f_Future: a promise is used for one future.
GetFuture(t) ==
    /\ owner[t] = "has" /\ future = "none"
    /\ future' = "has" /\ held' = TRUE
    /\ UNCHANGED <<flags, result, owner, promises, got, reported, alive>>

\* f_MoveFuture: the reference to the promise becomes the one of the future, and
\* when it was the last one nobody is left to set the result.
MoveFuture(t) ==
    /\ owner[t] = "has" /\ future = "none"
    /\ promises' = promises - 1 /\ held' = TRUE
    /\ owner' = [owner EXCEPT ![t] = IF promises = 1 THEN "last" ELSE "no"]
    /\ future' = IF promises = 1 THEN "moving" ELSE "has"
    /\ UNCHANGED <<flags, result, got, reported, alive>>

ObserveUnmarked ==      \* mutant: does not mark the result as seen
    /\ future = "has" /\ flags = {"data"}
    /\ future' = "done"
    /\ Deliver(result)
    /\ UNCHANGED <<flags, result, owner, held, promises, reported, alive>>

\* f_ObserveIfAvailable: the exchange that takes a result that is there.
ObserveIfAvailable ==
    /\ future = "has" /\ flags = {"data"}
    /\ flags' = {"data", "discard"}
    /\ future' = "done"
    /\ Deliver(result)
    /\ UNCHANGED <<result, owner, held, promises, reported, alive>>

\* f_OnResultSet, f_OnResultSetOrAvailable: the functor is stored, then published,
\* by a caller that drops the future or by a coroutine that keeps it.
OnResultSet ==
    /\ future = "has"
    /\ future' \in {"setsFunctor", "suspends"}
    /\ UNCHANGED <<flags, result, owner, held, promises, got, reported, alive>>

OnResultSetPublish ==
    /\ future \in {"setsFunctor", "suspends"}
    /\ flags' = flags \cup {"functor"}
    /\ future' = IF "data" \in flags THEN "deliver"
                 ELSE IF future = "suspends" THEN "awaits" ELSE "waits"
    /\ UNCHANGED <<result, owner, held, promises, got, reported, alive>>

TakeResult ==
    /\ future = "deliver"
    /\ Deliver(result)
    /\ future' = "done"
    /\ UNCHANGED <<flags, result, owner, held, promises, reported, alive>>

DiscardResult ==
    /\ future = "has"
    /\ flags' = flags \cup {"discard"}
    /\ future' = "done"
    /\ UNCHANGED <<result, owner, held, promises, got, reported, alive>>

\* TCFuture::f_Clear. A coroutine that awaits keeps its future until it is resumed.
DropFuture ==
    /\ held /\ future \in {"has", "waits", "done"}
    /\ held' = FALSE
    /\ future' = IF future = "has" THEN "done" ELSE future
    /\ DeletedWhen(promises = 0)
    /\ UNCHANGED <<owner, promises>>

----------------------------------------------------------------------------

OwnerStep(t) ==
    \/ \E u \in Owners : Copy(t, u)
    \/ SetResult(t) \/ OnResult(t) \/ CallFunctor(t)
    \/ Clear(t) \/ ReportNothingSet(t) \/ ReportNothingSetPublish(t)
    \/ PromiseDecrease(t)
    \/ GetFuture(t) \/ MoveFuture(t)

FutureStep ==
    \/ ObserveIfAvailable \/ OnResultSet \/ OnResultSetPublish \/ TakeResult
    \/ DiscardResult \/ DropFuture

Next == (\E t \in Owners : OwnerStep(t)) \/ FutureStep

Spec == Init /\ [][Next]_promiseVars

----------------------------------------------------------------------------

\* The party with the future is given a result once, and it is the one that
\* was set: the flags let one side deliver (f_OnResult, f_OnResultSet). And a
\* functor that waits is called once the result is published, by whoever published
\* last.
DeliveredOnce ==
    /\ Len(got) <= 1 /\ (got # <<>> => got = <<result>>)
    /\ (alive /\ {"data", "functor"} \subseteq flags /\ future \in {"waits", "awaits"})
          => \E t \in Owners : owner[t] \in {"published", "publishedNotSet"}

\* An exception does not vanish: when the data is deleted it was delivered,
\* or discarded on purpose, or reported; and only one that nobody saw is
\* reported (f_ReportNothingSetAtExit).
ErrorsAreSeen ==
    /\ ~alive /\ result = "error" => (got # <<>> \/ "discard" \in flags \/ reported)
    /\ reported => got = <<>>

\* "Promise goes out of scope when this functor returns, and a
\* CExceptionActorResultWasNotSet exception will be returned" (DesignGoals.dox:444):
\* no coroutine awaits a promise that nobody can set any more (f_Clear).
DroppedIsAnswered == ~(alive /\ promises = 0 /\ future = "awaits" /\ flags = {"functor"})
=============================================================================
