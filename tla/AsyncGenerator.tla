--------------------------- MODULE AsyncGenerator ---------------------------
(***************************************************************************)
(* A generator that is a coroutine of an actor, and the iterator that asks  *)
(* it for values (AsyncGeneratorPrivate.hpp): f_GetGeneratorValue,          *)
(* f_RunGenerator, co_yield, the iterators, and the destruction of iterator *)
(* and actor.  All of the generator runs in messages of its actor; each is  *)
(* one action.                                                              *)
(***************************************************************************)
EXTENDS Naturals, Sequences, SequencesExt

CONSTANTS
    PipelineLength,     \* calls the iterator has out, from 1 to MaxNext; 1 for a simple one
    MaxNext             \* bound on the calls

VARIABLES
    coroutine,  \* where the generator is suspended, or "gone"
    sets,       \* how often the result of its promise was set since f_Reset
    queued,     \* m_QueuedCalls, the calls by number
    inProgress, done, failed, destroyed,    \* m_bInProgress, m_bDone, m_pException, m_bDestroyed
    yielded,    \* how many values were yielded
    owner,      \* the actor of the generator
    inbox,      \* the queue of this actor
    iterator,   \* what its user does with the iterator
    made,       \* how many values it asked for
    said, given \* what each call was answered, and which value

generatorVars == <<coroutine, sets, queued, inProgress, done, failed, destroyed, yielded, owner,
                   inbox, iterator, made, said, given>>
runState == <<queued, inProgress, done, failed, destroyed>>

Nexts == 1..MaxNext

TypeOK ==
    /\ coroutine \in {"initial", "yielded", "awaiting", "gone"}
    /\ sets \in 0..2 /\ yielded \in 0..MaxNext /\ made \in 0..MaxNext
    /\ queued \in Seq(Nexts)
    /\ {inProgress, done, failed, destroyed} \subseteq BOOLEAN
    /\ owner \in {"alive", "destroying", "deleted"}
    /\ inbox \in Seq({"get", "resume", "awaited", "asyncDestroy", "dropFunctor",
                      "destroyInternal", "destroyYields", "handler"} \X (0..MaxNext))
    /\ iterator \in {"iterating", "destroying", "functor", "gone"}
    /\ said \in [Nexts -> {"none", "asked", "value", "end", "error", "deleted", "notSet"}]
    /\ given \in [Nexts -> 0..MaxNext]

Init ==
    /\ coroutine = "initial" /\ sets = 0 /\ queued = <<>> /\ yielded = 0
    /\ inProgress = FALSE /\ done = FALSE /\ failed = FALSE /\ destroyed = FALSE
    /\ owner = "alive" /\ inbox = <<>> /\ iterator = "iterating" /\ made = 0
    /\ said = [i \in Nexts |-> "none"] /\ given = [i \in Nexts |-> 0]

Post(kind, i) == <<kind, i>>
IsNext(kind) == inbox # <<>> /\ Head(inbox)[1] = kind
Call == Head(inbox)[2]
Suspended == coroutine \in {"yielded", "awaiting"}     \* in mp_SuspendedCoroutines

\* All calls that wait get the answer a.
AllSaid(a) == [i \in Nexts |-> IF i \in Range(queued) THEN a ELSE said[i]]

----------------------------------------------------------------------------
(* The user of the iterator.                                               *)

\* The calls an iterator makes: as many as it keeps out at first, then one for
\* each value it took (operator ++).
NewCalls ==
    IF made = 0 THEN 1..PipelineLength
    ELSE IF made < MaxNext /\ said[made - PipelineLength + 1] = "value" THEN {made + 1} ELSE {}

AskNext ==
    /\ iterator = "iterating" /\ NewCalls # {}
    /\ made' = made + (IF made = 0 THEN PipelineLength ELSE 1)
    /\ said' = [i \in Nexts |-> IF i \in NewCalls THEN "asked" ELSE said[i]]
    /\ inbox' = inbox \o [n \in 1..(made' - made) |-> Post("get", made + n)]
    /\ UNCHANGED <<coroutine, sets, runState, yielded, owner, iterator, given>>

\* f_Destroy or the destructor of the iterator; a generator that never got an
\* iterator only has its functor destroyed.
DestroyIterator ==
    /\ iterator = "iterating"
    /\ iterator' = IF made = 0 THEN "functor" ELSE "destroying"
    /\ inbox' = Append(inbox, Post(IF made = 0 THEN "dropFunctor" ELSE "asyncDestroy", 0))
    /\ UNCHANGED <<coroutine, sets, runState, yielded, owner, made, said, given>>

\* Whoever owns the actor of the generator destroys it.
DestroyOwner ==
    /\ owner = "alive"
    /\ owner' = "destroying"
    /\ inbox' = Append(inbox, Post("destroyInternal", 0))
    /\ UNCHANGED <<coroutine, sets, runState, yielded, iterator, made, said, given>>

\* What the generator awaits is there.
AwaitedArrives ==
    /\ coroutine = "awaiting" /\ Post("awaited", 0) \notin Range(inbox)
    /\ inbox' = Append(inbox, Post("awaited", 0))
    /\ UNCHANGED <<coroutine, sets, runState, yielded, owner, iterator, made, said, given>>

----------------------------------------------------------------------------
(* The messages of the actor.                                              *)

\* f_GetGeneratorValue, and the first f_RunGenerator.
Get ==
    /\ IsNext("get")
    /\ LET now == CASE owner = "deleted" -> "deleted"
                    [] owner # "deleted" /\ (done \/ destroyed \/ coroutine = "gone") -> "end"
                    [] OTHER -> IF failed THEN "error" ELSE "asked" IN
          /\ said' = [said EXCEPT ![Call] = now]
          /\ queued' = IF now = "asked" THEN Append(queued, Call) ELSE queued
          /\ IF now = "asked" /\ ~inProgress
             THEN /\ inProgress' = TRUE /\ sets' = 0
                  /\ inbox' = Append(Tail(inbox), Post("resume", 0))
             ELSE inbox' = Tail(inbox) /\ UNCHANGED <<inProgress, sets>>
    /\ UNCHANGED <<coroutine, done, failed, destroyed, yielded, owner, iterator, made, given>>

YieldToLast ==      \* mutant: the value goes to the call that came last
    /\ coroutine' = "yielded" /\ yielded' = yielded + 1
    /\ UNCHANGED <<done, failed, destroyed>>
    /\ IF queued = <<>>
       THEN sets' = 1 /\ inbox' = Tail(inbox) /\ UNCHANGED <<queued, inProgress, said, given>>
       ELSE /\ said' = [said EXCEPT ![Last(queued)] = "value"]
            /\ given' = [given EXCEPT ![Last(queued)] = yielded']
            /\ queued' = Front(queued)
            /\ inProgress' = (queued' # <<>>)
            /\ sets' = IF inProgress' THEN 0 ELSE 1
            /\ inbox' = Tail(inbox) \o (IF inProgress' THEN <<Post("resume", 0)>> ELSE <<>>)

\* co_yield: the result goes to the first call; if others wait the promise is
\* reset and the generator is to go on (f_RunGenerator).
Yield ==
    /\ coroutine' = "yielded" /\ yielded' = yielded + 1
    /\ UNCHANGED <<done, failed, destroyed>>
    /\ IF queued = <<>>
       THEN sets' = 1 /\ inbox' = Tail(inbox) /\ UNCHANGED <<queued, inProgress, said, given>>
       ELSE /\ said' = [said EXCEPT ![Head(queued)] = "value"]
            /\ given' = [given EXCEPT ![Head(queued)] = yielded']
            /\ queued' = Tail(queued)
            /\ inProgress' = (queued' # <<>>)
            /\ sets' = IF inProgress' THEN 0 ELSE 1
            /\ inbox' = Tail(inbox) \o (IF inProgress' THEN <<Post("resume", 0)>> ELSE <<>>)

\* The coroutine is destroyed with its last result, an end or an exception a,
\* which goes to all calls that wait, if any do.
Finish(a) ==
    /\ coroutine' = "gone" /\ sets' = sets + 1
    /\ said' = AllSaid(a) /\ queued' = <<>>
    /\ done' = (done \/ (queued # <<>> /\ a = "end"))
    /\ failed' = (failed \/ (queued # <<>> /\ a # "end"))
    /\ UNCHANGED <<inProgress, destroyed, yielded, given>>

\* The code of the generator up to where it suspends; before each value it may
\* await something of its own.
Generate(mayAwait) ==
    /\ UNCHANGED <<owner, iterator, made>>
    /\ \/ Yield
       \/ \E a \in {"end", "error"} : Finish(a) /\ inbox' = Tail(inbox)
       \/ /\ mayAwait
          /\ coroutine' = "awaiting" /\ inbox' = Tail(inbox)
          /\ UNCHANGED <<sets, runState, yielded, said, given>>

\* The lambda f_RunGenerator dispatches, and its result when there is no actor.
Resume ==
    /\ IsNext("resume")
    /\ CASE owner = "deleted" ->
              /\ said' = AllSaid("deleted") /\ queued' = <<>> /\ failed' = TRUE
              /\ inbox' = Tail(inbox)
              /\ UNCHANGED <<coroutine, sets, inProgress, done, destroyed, yielded, owner, iterator,
                             made, given>>
         [] owner # "deleted" /\ coroutine = "gone" ->
              inbox' = Tail(inbox)
              /\ UNCHANGED <<coroutine, sets, runState, yielded, owner, iterator, made, said, given>>
         [] OTHER -> Generate(TRUE)

\* The generator goes on after what it awaited, unless it was aborted.
ResumeAwaited ==
    /\ IsNext("awaited")
    /\ IF coroutine = "awaiting" /\ owner # "deleted"
       THEN Generate(FALSE)
       ELSE inbox' = Tail(inbox)
            /\ UNCHANGED <<coroutine, sets, runState, yielded, owner, iterator, made, said, given>>

\* fs_AsyncDestroy aborts the coroutine, without a result; then f_Destroy drops
\* the promises of the calls that wait.
AsyncDestroy ==
    /\ IsNext("asyncDestroy")
    /\ coroutine' = IF owner # "deleted" THEN "gone" ELSE coroutine
    /\ said' = AllSaid("notSet") /\ queued' = <<>> /\ destroyed' = TRUE
    /\ iterator' = "functor"
    /\ inbox' = Append(Tail(inbox), Post("dropFunctor", 0))
    /\ UNCHANGED <<sets, inProgress, done, failed, yielded, owner, made, given>>

\* The functor goes, with the last reference to the promise and its coroutine.
DropFunctor ==
    /\ IsNext("dropFunctor")
    /\ iterator' = "gone" /\ coroutine' = "gone"
    /\ inbox' = Tail(inbox)
    /\ UNCHANGED <<sets, runState, yielded, owner, made, said, given>>

\* fp_DestroyInternal lets suspended coroutines run once more.
DestroyInternal ==
    /\ IsNext("destroyInternal")
    /\ inbox' = Append(Tail(inbox), Post(IF Suspended THEN "destroyYields" ELSE "handler", 0))
    /\ UNCHANGED <<coroutine, sets, runState, yielded, owner, iterator, made, said, given>>

\* fp_AbortSuspendedCoroutinesWithAsyncDestroy: an exception is the result
\* of a coroutine that has not set one.
DestroyYields ==
    /\ IsNext("destroyYields")
    /\ inbox' = Append(Tail(inbox), Post("handler", 0))
    /\ UNCHANGED <<owner, iterator, made>>
    /\ IF Suspended /\ sets = 0
       THEN Finish("deleted")
       ELSE /\ coroutine' = IF Suspended THEN "gone" ELSE coroutine
            /\ UNCHANGED <<sets, runState, yielded, said, given>>

\* ~CDestroyHandler: fp_AbortSuspendedCoroutines sets an exception always, then
\* the actor is deleted.
Handler ==
    /\ IsNext("handler")
    /\ owner' = "deleted"
    /\ inbox' = Tail(inbox)
    /\ UNCHANGED <<iterator, made>>
    /\ IF Suspended
       THEN Finish("deleted")
       ELSE UNCHANGED <<coroutine, sets, runState, yielded, said, given>>

Process ==
    \/ Get \/ Resume \/ ResumeAwaited \/ AsyncDestroy \/ DropFunctor
    \/ DestroyInternal \/ DestroyYields \/ Handler

Next == AskNext \/ DestroyIterator \/ DestroyOwner \/ AwaitedArrives \/ Process

\* Messages are processed, and what the generator awaits arrives.
Progress == AwaitedArrives \/ Process

Spec == Init /\ [][Next]_generatorVars

----------------------------------------------------------------------------

\* The n-th value that is yielded answers the n-th call: calls that are out at
\* the same time get the values in order, and none is skipped. And the coroutine is
\* resumed where it yielded, once for each reset of its promise (the checks of
\* f_Resume, and f_Reset in f_RunGenerator): not while it awaits something or has a
\* resumption on its way.
ValuesInOrder ==
    /\ \A i \in Nexts : said[i] = "value" => given[i] = i /\ \A j \in 1..i : said[j] = "value"
    /\ \A i, j \in DOMAIN inbox : inbox[i][1] = "resume" /\ inbox[j][1] = "resume" => i = j
    /\ Post("resume", 0) \in Range(inbox) =>
          coroutine = "gone" \/ (coroutine \in {"initial", "yielded"} /\ sets = 0)

\* Whoever asks for a value is answered: by a value, the end or an exception.
EveryNextAnswered == []<>(\A i \in Nexts : said[i] # "asked")
=============================================================================
