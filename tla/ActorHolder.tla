---------------------------- MODULE ActorHolder ----------------------------
(***************************************************************************)
(* How an actor holder turns calls from many threads into the sequenced     *)
(* stream of one actor: the run queue a caller pushes to, the mp_Working    *)
(* word that decides who schedules the actor, and fp_RunProcess, which a    *)
(* pool thread runs to process the queue.                                   *)
(*                                                                          *)
(* mp_Working is a processing bit and a count of calls.  A caller that adds *)
(* to a zero word schedules a run; a run that finds the bit set leaves; a   *)
(* run that finds, when it clears the word, that the count changed starts   *)
(* over.  Atomic operations are single steps, everything between them may   *)
(* interleave.                                                              *)
(***************************************************************************)
EXTENDS Integers, Sequences, SequencesExt

CONSTANTS
    Caller,     \* threads that call the actor from outside
    Worker,     \* pool threads that may run it
    Local,      \* the one thread of the queue it is fixed to, or none
    Self,       \* the actor as a caller of itself
    MaxCalls,   \* bound: calls per caller
    MaxYields   \* bound: f_Yield calls

ASSUME ActorHolderAssumption ==
    /\ Local = {} \/ \E w \in Worker : Local = {w} /\ Worker = {w}
    /\ Caller \cap Worker = {} /\ Self \notin Caller \cup Worker
    /\ MaxCalls \in Nat /\ MaxYields \in Nat

Party == Caller \cup Local \cup {Self}
Call == Party \X (1..MaxCalls)

VARIABLES
    busy, count,  \* mp_Working: the processing bit and the count
    shared,       \* mp_ConcurrentRunQueue, the newest entry first
    queue,        \* mp_ConcurrentRunQueueLocal
    yielding,     \* mp_bYield
    runs,         \* runs of this actor queued to the pool
    at,           \* where each thread is
    orig,         \* OriginalWorking of each worker
    again,        \* bDoneSomething of each worker
    actor,        \* the actor object
    owed,         \* runs the constructing thread is about to queue
    current,      \* history: the call each worker is processing
    past,         \* history: what was called before, causally, per call
    knows,        \* history: the causal past of each party
    over,         \* history: calls that are over
    yields        \* yields so far

vars == <<busy, count, shared, queue, yielding, runs, at, orig, again, actor,
          owed, current, past, knows, over, yields>>
word == <<busy, count>>
queues == <<shared, queue>>
run == <<runs, orig, again>>
history == <<current, past, knows, over>>

\* The actor is under construction, or was and the word is to be cleared.
Construction == {"constructing", "leaving", "failing"}

Where == {"idle", "pushed", "wake", "start", "transfer", "dequeue", "job",
          "unlock", "release", "requeue"}

TypeOK ==
    /\ busy \in BOOLEAN /\ count \in Nat
    /\ shared \in Seq(DOMAIN past) /\ queue \in Seq(DOMAIN past)
    /\ yielding \in BOOLEAN
    /\ runs \in Nat
    /\ at \in [Caller \cup Worker -> Where]
    /\ orig \in [Worker -> Nat] /\ again \in [Worker -> BOOLEAN]
    /\ actor \in {"none", "alive", "failed"} \cup Construction
    /\ owed \in 0..2
    /\ current \in [Worker -> SUBSET DOMAIN past]
    /\ DOMAIN past \subseteq Call /\ \A x \in DOMAIN past : past[x] \subseteq Call
    /\ knows \in [Party -> SUBSET Call]
    /\ over \subseteq Call
    /\ yields \in 0..MaxYields

Init ==
    /\ busy = FALSE /\ count = 0
    /\ shared = <<>> /\ queue = <<>>
    /\ yielding = FALSE
    /\ runs = 0
    /\ at = [t \in Caller \cup Worker |-> "idle"]
    /\ orig = [w \in Worker |-> 0] /\ again = [w \in Worker |-> FALSE]
    /\ actor = "none"
    /\ owed = 0
    /\ current = [w \in Worker |-> {}]
    /\ past = <<>>
    /\ knows = [p \in Party |-> {}]
    /\ over = {}
    /\ yields = 0

-----------------------------------------------------------------------------
Goes(t, from, to) == at[t] = from /\ at' = [at EXCEPT ![t] = to]

\* The next call of a party, with everything the party knows of before it.
Made(p) == {i \in 1..MaxCalls : <<p, i>> \in DOMAIN past}
NextCall(p) == <<p, Cardinality(Made(p)) + 1>>
Calls(p) ==
    LET x == NextCall(p) IN
    /\ Cardinality(Made(p)) < MaxCalls
    /\ past' = [y \in DOMAIN past \cup {x} |-> IF y = x THEN knows[p] ELSE past[y]]
    /\ knows' = [knows EXCEPT ![p] = @ \cup {x}]
    /\ UNCHANGED <<current, over>>

\* f_TransferThreadSafeQueue: the entries come off newest first and are put
\* at the end of the local queue in the order they were added.
TransferredAsIs == queue \o shared    \* mutant: leaves the newest entry first
Transferred == queue \o Reverse(shared)

\* fp_RunProcess between taking the processing bit and giving it back.
Section == {"transfer", "dequeue", "job", "unlock", "release"}

-----------------------------------------------------------------------------
(* Construction *)

ConstructActor ==
    /\ actor = "none"
    /\ actor' = "constructing"
    /\ busy' = TRUE
    /\ UNCHANGED <<count, queues, yielding, run, at, owed, history, yields>>

\* The constructor calls the actor itself.
ConstructCalls ==
    /\ actor = "constructing"
    /\ Calls(Self)
    /\ queue' = Append(queue, NextCall(Self))
    /\ UNCHANGED <<word, shared, yielding, run, at, actor, owed, yields>>

\* The constructor returns and the queues are looked at, or it throws.
ConstructedQuietly ==    \* mutant: does not look at the queues
    /\ actor = "constructing"
    /\ actor' \in {"leaving", "failing"}
    /\ owed' = 0
    /\ UNCHANGED <<word, queues, yielding, run, at, history, yields>>
Constructed ==
    /\ actor = "constructing"
    /\ actor' \in {"leaving", "failing"}
    /\ owed' = IF actor' = "leaving" /\ Transferred # <<>> THEN 1 ELSE 0
    /\ UNCHANGED <<word, queues, yielding, run, at, history, yields>>

\* The word is cleared on the way out; a changed count schedules a run.
ConstructLeaves ==
    /\ actor \in {"leaving", "failing"}
    /\ busy' = FALSE /\ count' = 0
    /\ owed' = IF count # 0 THEN owed + 1 ELSE owed
    /\ actor' = IF actor = "leaving" THEN "alive" ELSE "failed"
    /\ UNCHANGED <<queues, yielding, run, at, history, yields>>

ConstructQueuesRun ==
    /\ actor \in {"alive", "failed"} /\ owed > 0
    /\ owed' = owed - 1
    /\ runs' = runs + 1
    /\ UNCHANGED <<word, queues, yielding, at, orig, again, actor, history, yields>>

-----------------------------------------------------------------------------
(* Callers *)

\* fp_AddToQueue: the entry is pushed, then the word is incremented, and
\* whoever finds it zero queues a run.
Push(c) ==
    /\ actor # "none"
    /\ Goes(c, "idle", "pushed")
    /\ Calls(c)
    /\ shared' = <<NextCall(c)>> \o shared
    /\ UNCHANGED <<word, queue, yielding, run, actor, owed, yields>>

Increment(c) ==
    /\ Goes(c, "pushed", IF ~busy /\ count = 0 THEN "wake" ELSE "idle")
    /\ count' = count + 1
    /\ UNCHANGED <<busy, queues, yielding, run, actor, owed, history, yields>>

QueueRun(c) ==
    /\ Goes(c, "wake", "idle")
    /\ runs' = runs + 1
    /\ UNCHANGED <<word, queues, yielding, orig, again, actor, owed, history, yields>>

\* The thread of the queue the actor is fixed to runs another actor that calls
\* this one: the entry goes straight to the local queue.
FixedCall(w) ==
    /\ actor \in {"alive", "failed"}
    /\ at[w] = "idle"
    /\ Calls(w)
    /\ queue' = Append(queue, NextCall(w))
    /\ IF queue # <<>>
       THEN UNCHANGED <<count, at>>
       ELSE /\ count' = count + 1
            /\ at' = IF ~busy /\ count = 0 THEN [at EXCEPT ![w] = "wake"] ELSE at
    /\ UNCHANGED <<busy, shared, yielding, run, actor, owed, yields>>

\* One party learns of another's calls, as when it is called by it.
Tells(p, q) ==
    /\ p \in Caller => at[p] = "idle"
    /\ p = Self => \E w \in Worker : at[w] = "job"
    /\ ~(knows[p] \subseteq knows[q])
    /\ knows' = [knows EXCEPT ![q] = @ \cup knows[p]]
    /\ UNCHANGED <<word, queues, yielding, run, at, actor, owed, current, past,
                   over, yields>>

-----------------------------------------------------------------------------
(* fp_RunProcess *)

TakeRun(w) ==
    /\ runs > 0
    /\ Goes(w, "idle", "start")
    /\ runs' = runs - 1
    /\ UNCHANGED <<word, queues, yielding, orig, again, actor, owed, history, yields>>

TakeBitAnyway(w) ==    \* mutant: goes on when the bit is set
    /\ Goes(w, "start", "transfer")
    /\ busy' = TRUE
    /\ orig' = [orig EXCEPT ![w] = count]
    /\ UNCHANGED <<count, queues, yielding, runs, again, actor, owed, history, yields>>
TakeBit(w) ==
    /\ Goes(w, "start", IF busy THEN "idle" ELSE "transfer")
    /\ busy' = TRUE
    /\ orig' = IF busy THEN orig ELSE [orig EXCEPT ![w] = count]
    /\ UNCHANGED <<count, queues, yielding, runs, again, actor, owed, history, yields>>

Transfer(w) ==
    /\ Goes(w, "transfer", "dequeue")
    /\ again' = [again EXCEPT ![w] = shared # <<>>]
    /\ queue' = Transferred
    /\ shared' = <<>>
    /\ UNCHANGED <<word, yielding, runs, orig, actor, owed, history, yields>>

\* The next call, cleaned up instead if there is no actor object.
Dequeue(w) ==
    /\ queue # <<>>
    /\ queue' = Tail(queue)
    /\ IF actor = "alive"
       THEN /\ Goes(w, "dequeue", "job")
            /\ current' = [current EXCEPT ![w] = {Head(queue)}]
            /\ knows' = [knows EXCEPT ![Self] = @ \cup {Head(queue)} \cup past[Head(queue)]]
            /\ UNCHANGED <<again, over>>
       ELSE /\ Goes(w, "dequeue", "dequeue")
            /\ over' = over \cup {Head(queue)}
            /\ again' = [again EXCEPT ![w] = TRUE]
            /\ UNCHANGED <<current, knows>>
    /\ UNCHANGED <<word, shared, yielding, runs, orig, actor, owed, past, yields>>

DequeueEmpty(w) ==
    /\ queue = <<>>
    /\ Goes(w, "dequeue", IF again[w] THEN "transfer" ELSE "unlock")
    /\ UNCHANGED <<word, queues, yielding, run, actor, owed, history, yields>>

\* What a call does: it may call the actor itself, yield, and return.
JobCalls(w) ==
    /\ at[w] = "job"
    /\ Calls(Self)
    /\ queue' = Append(queue, NextCall(Self))
    /\ UNCHANGED <<word, shared, yielding, run, at, actor, owed, yields>>

JobYields(w) ==
    /\ at[w] = "job" /\ ~yielding
    /\ yields < MaxYields
    /\ yields' = yields + 1
    /\ yielding' = TRUE
    /\ queue' = Transferred
    /\ shared' = <<>>
    /\ UNCHANGED <<word, run, at, actor, owed, history>>

JobReturns(w) ==
    /\ Goes(w, "job", IF yielding THEN "release" ELSE "dequeue")
    /\ yielding' = FALSE
    /\ again' = [again EXCEPT ![w] = TRUE]
    /\ over' = over \cup current[w]
    /\ current' = [current EXCEPT ![w] = {}]
    /\ UNCHANGED <<word, queues, runs, orig, actor, owed, past, knows, yields>>

\* After a yield the bit is cleared, the count kept, and a run queued.
Release(w) ==
    /\ Goes(w, "release", "requeue")
    /\ busy' = FALSE
    /\ UNCHANGED <<count, queues, yielding, run, actor, owed, history, yields>>

Requeue(w) ==
    /\ Goes(w, "requeue", "idle")
    /\ runs' = runs + 1
    /\ UNCHANGED <<word, queues, yielding, orig, again, actor, owed, history, yields>>

\* The word is cleared; if it changed since the bit was taken, start over.
UnlockAndLeave(w) ==    \* mutant: does not compare the count
    /\ Goes(w, "unlock", "idle")
    /\ busy' = FALSE /\ count' = 0
    /\ UNCHANGED <<queues, yielding, run, actor, owed, history, yields>>
Unlock(w) ==
    /\ Goes(w, "unlock", IF count # orig[w] THEN "start" ELSE "idle")
    /\ busy' = FALSE /\ count' = 0
    /\ UNCHANGED <<queues, yielding, run, actor, owed, history, yields>>

-----------------------------------------------------------------------------
Constructs == ConstructActor \/ ConstructCalls \/ Constructed
ConstructEnds == ConstructLeaves \/ ConstructQueuesRun

Schedules(t) == QueueRun(t) \/ (t \in Caller /\ Increment(t))

Runs(w) ==
    \/ TakeRun(w) \/ TakeBit(w) \/ Transfer(w)
    \/ Dequeue(w) \/ DequeueEmpty(w) \/ JobReturns(w)
    \/ Release(w) \/ Requeue(w) \/ Unlock(w)

Next ==
    \/ Constructs \/ ConstructEnds
    \/ \E c \in Caller : Push(c)
    \/ \E t \in Caller \cup Local : Schedules(t)
    \/ \E w \in Worker : Runs(w) \/ JobCalls(w) \/ JobYields(w)
    \/ \E w \in Local : FixedCall(w)
    \/ \E p \in Caller \cup {Self}, q \in Caller \cup Local : Tells(p, q)

Spec == Init /\ [][Next]_vars

\* The system runs its threads, and constructors return.
Progress ==
    \/ Constructed \/ ConstructEnds
    \/ \E t \in Caller \cup Local : Schedules(t)
    \/ \E w \in Worker : Runs(w)

-----------------------------------------------------------------------------
(* Properties *)

\* The actor executes functions on one thread at a time, and never while it
\* is being constructed.
OneThreadAtATime ==
    /\ \A v, w \in Worker : at[v] \in Section /\ at[w] \in Section => v = w
    /\ actor \in Construction => \A w \in Worker : at[w] \notin Section

\* A queue that is not empty is never left without somebody who will process
\* it: a run in the pool, a thread in fp_RunProcess, or one that is about to
\* queue a run.
NoLostWakeup ==
    queue # <<>> \/ shared # <<>> =>
        \/ actor \in Construction \cup {"failed"} \/ owed > 0
        \/ runs > 0
        \/ \E t \in Caller \cup Worker : at[t] # "idle"

\* Calls are processed in the order they were called: a call is taken up only
\* when every call its caller had made, or knew of, is over.
CalledOrder ==
    \A w \in Worker : \A x \in current[w] : past[x] \subseteq over

\* Every call made is processed in the end.
EveryCallProcessed == []<>(DOMAIN past \subseteq over \/ actor = "failed")

=============================================================================
