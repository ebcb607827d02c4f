---------------------------- MODULE PoolThreads ----------------------------
(***************************************************************************)
(* The pool threads of CConcurrencyManager (Manager.cpp) of one priority,   *)
(* as they are built by default: a queue per thread with a shared and a     *)
(* local part, the word that tells whether the thread will look again, the  *)
(* event it sleeps on, the mask of idle queues, and the offer of a local    *)
(* backlog to queues that are claimed idle.                                 *)
(***************************************************************************)
EXTENDS Naturals, Sequences, SequencesExt, FiniteSets, Functions

CONSTANTS
    Queues,     \* the queues, one pool thread each
    FixedQueues,    \* those of them jobs are fixed to
    Outside,    \* a thread that is not of the pool
    InvalidQueue,   \* gc_InvalidQueue: the fixed queue of a job that is not fixed
    NJobs,      \* how many jobs are queued
    Target      \* DMibConfig_Concurrency_LocalQueueTargetSize

VARIABLES
    where,      \* where each pool thread is in fp_RunThread
    original,   \* OriginalWorking of each thread
    working,    \* the count in m_Working; the processing bit follows from where
    event,      \* m_Event is signalled
    shared,     \* m_JobQueue, oldest first
    local,      \* m_JobQueueLocal
    idle,       \* mp_IdleQueueMasks
    adding,     \* the queue a thread pushed to and how many it has to count
    offer,      \* fp_OfferExcessWork of each thread: its target and what it goes back to
    fixed,      \* the queue each job is fixed to
    ranOn       \* history: the thread that ran each job

poolVars == <<where, original, working, event, shared, local, idle, adding, offer, fixed, ranOn>>

Jobs == 1..NJobs        \* in the order they are queued
Threads == Queues \cup {Outside}
Nowhere == [queue |-> InvalidQueue, n |-> 0]
NoOffer == [target |-> 0, back |-> "drain"]

TypeOK ==
    /\ where \in [Queues -> {"none", "start", "take", "drain", "job", "offer", "unlock",
                           "idle", "wait"}]
    /\ {original[q] : q \in Queues} \cup {working[q] : q \in Queues} \subseteq 0..NJobs
    /\ event \in [Queues -> BOOLEAN]
    /\ \A q \in Queues : shared[q] \in Seq(Jobs) /\ local[q] \in Seq(Jobs)
    /\ idle \subseteq Queues
    /\ adding \in [Threads -> [queue : Queues \cup {InvalidQueue}, n : 0..NJobs]]
    /\ offer \in [Queues -> [target : {0, Target}, back : {"drain", "job"}]]
    /\ fixed \in [Jobs -> Queues \cup {InvalidQueue}]
    /\ ranOn \in [Jobs -> Queues \cup {InvalidQueue}]

Init ==     \* a queue whose thread was never created counts as idle
    /\ where = [q \in Queues |-> "none"] /\ original = [q \in Queues |-> 0]
    /\ working = [q \in Queues |-> 0] /\ event = [q \in Queues |-> FALSE]
    /\ shared = [q \in Queues |-> <<>>] /\ local = [q \in Queues |-> <<>>]
    /\ idle = Queues
    /\ adding = [t \in Threads |-> Nowhere] /\ offer = [q \in Queues |-> NoOffer]
    /\ fixed = [j \in Jobs |-> InvalidQueue] /\ ranOn = [j \in Jobs |-> InvalidQueue]

\* gc_ProcessingMask is set in the m_Working of q.
Processing(q) == where[q] \in {"drain", "job", "offer", "unlock"}
Adds(t) == adding[t] # Nowhere
Queued == UNION {Range(shared[q]) \cup Range(local[q]) : q \in Queues}
Made == Queued \cup {j \in Jobs : ranOn[j] # InvalidQueue}
IsNext(j) == j = Cardinality(Made) + 1

----------------------------------------------------------------------------
(* Queueing a job.                                                         *)

\* The queue fp_QueueJob picks, for a job fixed to f or to none, on thread t, with
\* m_bForceNonLocal or not, and the idle mask it leaves.
Picks(t, f, forced, k) ==
    \/ f # InvalidQueue /\ k = f /\ UNCHANGED idle
    \/ f = InvalidQueue /\ t # Outside /\ ~forced /\ k = t /\ UNCHANGED idle
    \/ f = InvalidQueue /\ t # Outside /\ forced /\ idle \ {t} = {} /\ k = t /\ UNCHANGED idle
    \/ f = InvalidQueue /\ (t = Outside \/ forced) /\ k \in idle \ {t} /\ idle' = idle \ {k}
    \/ f = InvalidQueue /\ t = Outside /\ UNCHANGED idle  \* m_iLastQueue, or round robin

\* fp_AddToQueue, of the thread itself: not counted, and offered when it is long.
AppendLocal(q, j) ==
    /\ local' = [local EXCEPT ![q] = Append(@, j)]
    /\ IF Len(local'[q]) >= 2 * Target
       THEN /\ where' = [where EXCEPT ![q] = "offer"]
            /\ offer' = [offer EXCEPT ![q] = [target |-> Target, back |-> "job"]]
       ELSE UNCHANGED <<where, offer>>
    /\ UNCHANGED <<shared, adding>>

PushShared(t, k, entries) ==
    /\ shared' = [shared EXCEPT ![k] = @ \o entries]
    /\ adding' = [adding EXCEPT ![t] = [queue |-> k, n |-> Len(entries)]]

QueueJob(t, j) ==
    /\ IsNext(j) /\ ~Adds(t)
    /\ t # Outside => where[t] = "job"
    /\ \E f \in FixedQueues \cup {InvalidQueue}, k \in Queues, forced \in BOOLEAN :
          /\ t = Outside => ~forced
          /\ Picks(t, f, forced, k)
          /\ fixed' = [fixed EXCEPT ![j] = f]
          /\ IF k = t /\ ~forced
             THEN AppendLocal(t, j)
             ELSE PushShared(t, k, <<j>>) /\ UNCHANGED <<where, local, offer>>
    /\ UNCHANGED <<original, working, event, ranOn>>

\* m_Working.f_FetchAdd, and f_Signal with fp_CreateThread by the one who finds it zero.
Count(t) ==
    /\ Adds(t)
    /\ LET k == adding[t].queue
           Signals == working[k] = 0 /\ ~Processing(k)
       IN /\ working' = [working EXCEPT ![k] = @ + adding[t].n]
          /\ event' = IF Signals THEN [event EXCEPT ![k] = TRUE] ELSE event
          /\ where' = IF Signals /\ where[k] = "none" THEN [where EXCEPT ![k] = "start"]
                      ELSE where
    /\ adding' = [adding EXCEPT ![t] = Nowhere]
    /\ UNCHANGED <<original, shared, local, idle, offer, fixed, ranOn>>

----------------------------------------------------------------------------
(* fp_OfferExcessWork.                                                     *)

CanOffer(q, target) ==
    /\ Len(local[q]) > target
    /\ fixed[Last(local[q])] = InvalidQueue
    /\ idle \ {q} # {}

\* How many of the newest entries may go: those up to the newest fixed one.
Migratable(q) ==
    CHOOSE n \in 0..Len(local[q]) :
        /\ \A i \in Len(local[q]) - n + 1 .. Len(local[q]) : fixed[local[q][i]] = InvalidQueue
        /\ n < Len(local[q]) => fixed[local[q][Len(local[q]) - n]] # InvalidQueue

\* A chunk of the newest entries goes to a queue that was claimed. An offer made
\* in a long drain (target 0) spreads the backlog over the queues it saw idle.
OfferChunk(q) ==
    /\ where[q] = "offer" /\ ~Adds(q) /\ CanOffer(q, offer[q].target)
    /\ \E k \in idle \ {q}, spread \in IF offer[q].target = 0 THEN 1..Cardinality(Queues) ELSE {1} :
          LET excess == Len(local[q]) - offer[q].target
              n == Min({(excess + spread - 1) \div spread, Target, Migratable(q)})
              kept == Len(local[q]) - n
          IN /\ PushShared(q, k, SubSeq(local[q], kept + 1, kept + n))
             /\ local' = [local EXCEPT ![q] = SubSeq(@, 1, kept)]
             /\ idle' = idle \ {k}
    /\ UNCHANGED <<where, original, working, event, offer, fixed, ranOn>>

OfferEnds(q) ==
    /\ where[q] = "offer" /\ ~Adds(q) /\ ~CanOffer(q, offer[q].target)
    /\ where' = [where EXCEPT ![q] = offer[q].back]
    /\ offer' = [offer EXCEPT ![q] = NoOffer]
    /\ UNCHANGED <<original, working, event, shared, local, idle, adding, fixed, ranOn>>

TransferAndOffer(q, target, back) ==
    /\ local' = [local EXCEPT ![q] = @ \o shared[q]]
    /\ shared' = [shared EXCEPT ![q] = <<>>]
    /\ where' = [where EXCEPT ![q] = "offer"]
    /\ offer' = [offer EXCEPT ![q] = [target |-> target, back |-> back]]
    /\ UNCHANGED <<original, working, event, idle, adding, fixed, ranOn>>

\* fp_DrainCheckpoint, of an actor that processes many calls in one job, where it
\* has something to do.
DrainCheckpoint(q) ==
    /\ where[q] = "job" /\ ~Adds(q)
    /\ \E target \in {0, Target} :
          /\ shared[q] # <<>> \/ CanOffer(q, target)
          /\ TransferAndOffer(q, target, "job")

----------------------------------------------------------------------------
(* fp_RunThread.                                                           *)

\* The thread starts or its wait returns, and it is not idle any more.
Wake(q) ==
    /\ where[q] = "start" \/ (where[q] = "wait" /\ event[q])
    /\ event' = IF where[q] = "wait" THEN [event EXCEPT ![q] = FALSE] ELSE event
    /\ idle' = idle \ {q}
    /\ where' = [where EXCEPT ![q] = "take"]
    /\ UNCHANGED <<original, working, shared, local, adding, offer, fixed, ranOn>>

TakeBit(q) ==
    /\ where[q] = "take"
    /\ original' = [original EXCEPT ![q] = working[q]]
    /\ where' = [where EXCEPT ![q] = "drain"]
    /\ UNCHANGED <<working, event, shared, local, idle, adding, offer, fixed, ranOn>>

Transfer(q) ==
    /\ where[q] = "drain" /\ local[q] = <<>> /\ shared[q] # <<>>
    /\ local' = [local EXCEPT ![q] = shared[q]]
    /\ shared' = [shared EXCEPT ![q] = <<>>]
    /\ IF Len(shared[q]) >= 2 * Target
       THEN /\ where' = [where EXCEPT ![q] = "offer"]
            /\ offer' = [offer EXCEPT ![q] = [target |-> Target, back |-> "drain"]]
       ELSE UNCHANGED <<where, offer>>
    /\ UNCHANGED <<original, working, event, idle, adding, fixed, ranOn>>

RunJob(q) ==
    /\ where[q] = "drain" /\ local[q] # <<>>
    /\ ranOn' = [ranOn EXCEPT ![Head(local[q])] = q]
    /\ local' = [local EXCEPT ![q] = Tail(@)]
    /\ where' = [where EXCEPT ![q] = "job"]
    /\ UNCHANGED <<original, working, event, shared, idle, adding, offer, fixed>>

\* The job returns, at a checkpoint or with a long backlog to an offer.
JobEnds(q) ==
    /\ where[q] = "job" /\ ~Adds(q)
    /\ \/ /\ shared[q] # <<>> \/ CanOffer(q, Target)
          /\ TransferAndOffer(q, Target, "drain")
       \/ /\ Len(local[q]) < 2 * Target \/ (shared[q] = <<>> /\ ~CanOffer(q, Target))
          /\ where' = [where EXCEPT ![q] = "drain"]
          /\ UNCHANGED <<original, working, event, shared, local, idle, adding, offer, fixed, ranOn>>

\* Nothing was found; from here on it is the count that tells.
DrainEnds(q) ==
    /\ where[q] = "drain" /\ local[q] = <<>> /\ shared[q] = <<>>
    /\ where' = [where EXCEPT ![q] = "unlock"]
    /\ UNCHANGED <<original, working, event, shared, local, idle, adding, offer, fixed, ranOn>>

UnlockAnyway(q) ==      \* mutant: does not compare the counts
    /\ where[q] = "unlock"
    /\ working' = [working EXCEPT ![q] = 0]
    /\ where' = [where EXCEPT ![q] = "idle"]
    /\ original' = [original EXCEPT ![q] = 0]
    /\ UNCHANGED <<event, shared, local, idle, adding, offer, fixed, ranOn>>

\* The exchange that gives the bit back: was anything counted since it was taken?
Unlock(q) ==
    /\ where[q] = "unlock"
    /\ working' = [working EXCEPT ![q] = 0]
    /\ where' = [where EXCEPT ![q] = IF working[q] # original[q] THEN "take" ELSE "idle"]
    /\ original' = [original EXCEPT ![q] = 0]
    /\ UNCHANGED <<event, shared, local, idle, adding, offer, fixed, ranOn>>

SetQueueIdle(q) ==
    /\ where[q] = "idle"
    /\ idle' = idle \cup {q}
    /\ where' = [where EXCEPT ![q] = "wait"]
    /\ UNCHANGED <<original, working, event, shared, local, adding, offer, fixed, ranOn>>

----------------------------------------------------------------------------

RunThread(q) ==
    \/ Wake(q) \/ TakeBit(q) \/ Transfer(q) \/ RunJob(q) \/ JobEnds(q)
    \/ OfferChunk(q) \/ OfferEnds(q) \/ DrainEnds(q) \/ Unlock(q) \/ SetQueueIdle(q)

Next ==
    \/ \E t \in Threads : Count(t) \/ \E j \in Jobs : QueueJob(t, j)
    \/ \E q \in Queues : RunThread(q) \/ DrainCheckpoint(q)

\* Threads go on and jobs return.
Progress == (\E t \in Threads : Count(t)) \/ (\E q \in Queues : RunThread(q))

----------------------------------------------------------------------------

\* A thread does not sleep, nor is about to, on a queue with jobs: its event is
\* signalled, or the party that pushed last is still to count and will signal it.
NoSleepWithWork ==
    \A q \in Queues :
        shared[q] \o local[q] # <<>> /\ where[q] \in {"none", "idle", "wait"} =>
            \/ event[q]
            \/ \E t \in Threads : adding[t].queue = q

\* Every job that was queued runs: time and again none is left, and a job is
\* queued once.
EveryJobRuns == []<>(Queued = {})
=============================================================================
