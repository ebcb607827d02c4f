---------------------------- MODULE ActorDestroy ----------------------------
(***************************************************************************)
(* The end of an actor of a CDefaultActorHolder (ActorHolder.cpp,           *)
(* Actor.cpp): f_Destroy, the last reference that is dropped and brings the *)
(* holder back to call fp_Destroy first, the handler that destructs the     *)
(* actor in its own queue, and the deletion of the holder, against calls,   *)
(* coroutines that are suspended and references taken from weak ones.       *)
(*                                                                          *)
(* The queue is the abstract one ActorHolder implements: one run at a time, *)
(* scheduled when an entry finds the queue idle.                            *)
(***************************************************************************)
EXTENDS Naturals, Sequences, FiniteSets, Functions

CONSTANT Users      \* parties with a reference to the actor or a weak one

VARIABLES
    refs,           \* strong references: users, the run, and destroyers
    queue,          \* the run queue: entries with the party they are for
    job,            \* the run in the pool: "strong" or "weak" reference
    overrides,      \* mp_bHasOverriddenDestroy
    actorAlive,     \* mp_pActorUnsafe is set
    bit,            \* CActor::f_IsDestroyed
    mpDestroyed,    \* mp_Destroyed
    initiated,      \* mp_DestroyInitiated
    reviving,       \* where fsp_ScheduleActorDestroy is
    inDestroy,      \* the references whose fp_Destroy is running
    call,           \* the call of each user
    answer,         \* the answer to f_Destroy of each user
    holder          \* the holder: "alive", "deleting", "gone"

destroyVars == <<refs, queue, job, overrides, actorAlive, bit, mpDestroyed, initiated,
                 reviving, inDestroy, call, answer, holder>>

\* References held by the result handlers of fp_DestroyInternal, and by the
\* handler that destructs the actor.
Destroyer == {"destroy", "revived"}
Entry == [kind : {"call", "resume"}, for : Users]
         \cup [kind : {"destroyInternal", "destroyEnds", "yielded"}, for : Destroyer]
         \cup [kind : {"handler"}, for : {"self", "nobody"}]

TypeOK ==
    /\ refs \subseteq Users \cup Destroyer \cup {"job", "self"}
    /\ queue \in Seq(Entry)
    /\ job \in {"none", "strong", "weak"}
    /\ {overrides, actorAlive, bit, initiated} \subseteq BOOLEAN
    /\ mpDestroyed \in 0..3
    /\ reviving \in {"no", "referenced", "initiated"}
    /\ inDestroy \subseteq Destroyer
    /\ call \in [Users -> {"none", "queued", "suspended", "resuming", "done", "deleted"}]
    /\ answer \in [Users -> {"none", "asked", "destroyed", "already"}]
    /\ holder \in {"alive", "deleting", "gone"}

Init ==
    /\ refs = Users /\ queue = <<>> /\ job = "none"
    /\ overrides \in BOOLEAN
    /\ actorAlive = TRUE /\ bit = FALSE
    /\ mpDestroyed = 0 /\ initiated = FALSE
    /\ reviving = "no" /\ inDestroy = {}
    /\ call = [u \in Users |-> "none"] /\ answer = [u \in Users |-> "none"]
    /\ holder = "alive"

E(k, f) == [kind |-> k, for |-> f]
Suspended == {u \in Users : call[u] \in {"suspended", "resuming"}}

----------------------------------------------------------------------------
(* References and the queue.                                               *)

\* An entry is added to queue q, with references r: if no run will see it one is
\* scheduled, with a reference of its own (fp_QueueRunProcess).
Added(e, r, q) ==
    /\ queue' = Append(q, e)
    /\ job' = IF job = "none" THEN "strong" ELSE job
    /\ refs' = IF job = "none" THEN r \cup {"job"} ELSE r

\* fsp_ScheduleActorDestroy: is there something to do before the destruction?
Revives ==
    /\ actorAlive /\ ~bit'
    /\ overrides \/ Suspended # {}

\* The references that are left, with the queue and the run j. When the last one
\* goes, fs_ScheduleActorHolderDestroy decides: the one that moves mp_Destroyed
\* from 0 brings the actor back for its fp_Destroy or queues the handler, and
\* when that is done already the holder is deleted.
Released(r, q, j) ==
    CASE r # {} ->
           /\ refs' = r /\ queue' = q /\ job' = j
           /\ UNCHANGED <<mpDestroyed, reviving, holder>>
      [] r = {} /\ mpDestroyed = 0 /\ Revives ->
           /\ refs' = {"revived"} /\ queue' = q /\ job' = j
           /\ mpDestroyed' = 1 /\ reviving' = "referenced"
           /\ UNCHANGED holder
      [] r = {} /\ mpDestroyed = 0 /\ ~Revives ->
           /\ refs' = r
           /\ mpDestroyed' = 1
           /\ queue' = Append(q, E("handler", "nobody"))
           /\ job' = IF j = "none" THEN "weak" ELSE j
           /\ UNCHANGED <<reviving, holder>>
      [] OTHER ->
           /\ refs' = r /\ queue' = q /\ job' = j
           /\ holder' = "deleting"
           /\ UNCHANGED <<mpDestroyed, reviving>>

\* fsp_ScheduleActorDestroy goes on, visible to who took a weak reference.
ReviveInitiates ==
    /\ reviving = "referenced"
    /\ initiated' = TRUE
    /\ reviving' = "initiated"
    /\ UNCHANGED <<refs, queue, job, overrides, actorAlive, bit, mpDestroyed, inDestroy,
                   call, answer, holder>>

ReviveQueues ==
    /\ reviving = "initiated"
    /\ mpDestroyed' = 0 /\ reviving' = "no"
    /\ Added(E("destroyInternal", "revived"), refs, queue)
    /\ UNCHANGED <<overrides, actorAlive, bit, initiated, inDestroy, call, answer, holder>>

----------------------------------------------------------------------------
(* Users.                                                                  *)

Drop(u) ==
    /\ u \in refs
    /\ UNCHANGED <<overrides, actorAlive, bit, initiated, inDestroy, call, answer>>
    /\ Released(refs \ {u}, queue, job)

Lock(u) ==      \* a weak reference gives a strong one while there are others
    /\ u \notin refs /\ refs # {}
    /\ refs' = refs \cup {u}
    /\ UNCHANGED <<queue, job, overrides, actorAlive, bit, mpDestroyed, initiated,
                   reviving, inDestroy, call, answer, holder>>

Call(u) ==
    /\ u \in refs /\ call[u] = "none"
    /\ call' = [call EXCEPT ![u] = "queued"]
    /\ Added(E("call", u), refs, queue)
    /\ UNCHANGED <<overrides, actorAlive, bit, mpDestroyed, initiated, reviving,
                   inDestroy, answer, holder>>

\* f_Destroy of an actor: the reference goes into the handler of the result.
DestroyActor(u) ==
    /\ u \in refs /\ answer[u] = "none" /\ ~initiated /\ actorAlive
    /\ initiated' = TRUE
    /\ answer' = [answer EXCEPT ![u] = "asked"]
    /\ Added(E("destroyInternal", "destroy"), (refs \ {u}) \cup {"destroy"}, queue)
    /\ UNCHANGED <<overrides, actorAlive, bit, mpDestroyed, reviving, inDestroy, call, holder>>

DestroyAgain(u) ==
    /\ u \in refs /\ answer[u] = "none" /\ initiated
    /\ answer' = [answer EXCEPT ![u] = "already"]
    /\ UNCHANGED <<refs, queue, job, overrides, actorAlive, bit, mpDestroyed, initiated,
                   reviving, inDestroy, call, holder>>

\* The result a coroutine of the actor awaits arrives; its actor is a weak one.
ResumeArrives(u) ==
    /\ call[u] = "suspended" /\ refs # {}
    /\ call' = [call EXCEPT ![u] = "resuming"]
    /\ Added(E("resume", u), refs, queue)
    /\ UNCHANGED <<overrides, actorAlive, bit, mpDestroyed, initiated, reviving,
                   inDestroy, answer, holder>>

\* What an overridden fp_Destroy awaits is there.
DestroyEnds(d) ==
    /\ d \in inDestroy
    /\ inDestroy' = inDestroy \ {d}
    /\ Added(E("destroyEnds", d), refs, queue)
    /\ UNCHANGED <<overrides, actorAlive, bit, mpDestroyed, initiated, reviving,
                   call, answer, holder>>

----------------------------------------------------------------------------
(* The run of the actor.                                                   *)

IsNext(k) == job # "none" /\ queue # <<>> /\ Head(queue).kind = k /\ holder = "alive"
Party == Head(queue).for

ProcessCall ==
    /\ IsNext("call")
    /\ \E s \in IF actorAlive THEN {"done", "suspended"} ELSE {"deleted"} :
          call' = [call EXCEPT ![Party] = s]
    /\ queue' = Tail(queue)
    /\ UNCHANGED <<refs, job, overrides, actorAlive, bit, mpDestroyed, initiated,
                   reviving, inDestroy, answer, holder>>

ProcessResume ==    \* does nothing to a coroutine that was aborted
    /\ IsNext("resume")
    /\ call' = IF call[Party] = "resuming" THEN [call EXCEPT ![Party] = "done"] ELSE call
    /\ queue' = Tail(queue)
    /\ UNCHANGED <<refs, job, overrides, actorAlive, bit, mpDestroyed, initiated,
                   reviving, inDestroy, answer, holder>>

Asked == {u \in Users : answer[u] = "asked"}
Answered == [u \in Users |-> IF u \in Asked THEN "destroyed" ELSE answer[u]]
Aborted == [u \in Users |-> IF u \in Suspended THEN "deleted" ELSE call[u]]

\* The result of fp_DestroyInternal reaches the handler with reference d
\* (fsp_DestroyHandler, or the one of fsp_ScheduleActorDestroy, which sees to
\* the bit that is set already); q is the queue.
Result(d, q) ==
    IF d = "destroy" /\ mpDestroyed = 0
    THEN /\ mpDestroyed' = 1
         /\ refs' = (refs \ {d}) \cup {"self"}
         /\ queue' = Append(q, E("handler", "self"))
         /\ UNCHANGED <<job, reviving, holder, answer>>
    ELSE /\ answer' = IF d = "destroy" THEN Answered ELSE answer
         /\ Released(refs \ {d}, q, job)

\* fp_Destroy has returned: coroutines that are suspended may finish first.
Destroyed(d, q) ==
    IF Suspended = {}
    THEN Result(d, q)
    ELSE /\ Added(E("yielded", d), refs, q)
         /\ UNCHANGED <<mpDestroyed, reviving, answer, holder>>

DestroyInternalSilent ==    \* mutant: a second one is refused without an answer
    /\ IsNext("destroyInternal")
    /\ bit' = TRUE
    /\ UNCHANGED <<overrides, actorAlive, initiated, call>>
    /\ inDestroy' = IF ~bit /\ overrides THEN inDestroy \cup {Party} ELSE inDestroy
    /\ IF bit \/ overrides
       THEN /\ queue' = Tail(queue)
            /\ UNCHANGED <<refs, job, mpDestroyed, reviving, answer, holder>>
       ELSE Destroyed(Party, Tail(queue))

\* fp_DestroyInternal: a second one is refused; an fp_Destroy that is not
\* overridden returns at once.
ProcessDestroyInternal ==
    /\ IsNext("destroyInternal")
    /\ bit' = TRUE
    /\ UNCHANGED <<overrides, actorAlive, initiated, call>>
    /\ inDestroy' = IF ~bit /\ overrides THEN inDestroy \cup {Party} ELSE inDestroy
    /\ CASE bit -> Result(Party, Tail(queue))
         [] ~bit /\ ~overrides -> Destroyed(Party, Tail(queue))
         [] OTHER -> /\ queue' = Tail(queue)
                     /\ UNCHANGED <<refs, job, mpDestroyed, reviving, answer, holder>>

ProcessDestroyEnds ==
    /\ IsNext("destroyEnds")
    /\ UNCHANGED <<overrides, actorAlive, bit, initiated, inDestroy, call>>
    /\ Destroyed(Party, Tail(queue))

ProcessYielded ==
    /\ IsNext("yielded")
    /\ call' = Aborted
    /\ UNCHANGED <<overrides, actorAlive, bit, initiated, inDestroy>>
    /\ Result(Party, Tail(queue))

HandlerDeletes ==       \* mutant: does not ask for other references
    /\ IsNext("handler")
    /\ actorAlive' = FALSE /\ bit' = TRUE
    /\ holder' = "gone" /\ mpDestroyed' = 3
    /\ queue' = <<>> /\ job' = "none" /\ refs' = refs \ {"self"}
    /\ call' = [u \in Users |-> IF E("call", u) \in Range(queue) THEN "deleted" ELSE Aborted[u]]
    /\ answer' = Answered
    /\ UNCHANGED <<overrides, initiated, reviving, inDestroy>>

\* ~CDestroyHandler: destructs the actor, and deletes the holder with what is in
\* its queue when no other reference is left.
ProcessHandler ==
    /\ IsNext("handler")
    /\ actorAlive' = FALSE /\ bit' = TRUE
    /\ LET r == refs \ {"self"} IN
          IF r = {}
          THEN /\ holder' = "gone" /\ mpDestroyed' = 3
               /\ queue' = <<>> /\ job' = "none" /\ refs' = {}
               /\ call' = [u \in Users |->
                              IF E("call", u) \in Range(queue) THEN "deleted" ELSE Aborted[u]]
          ELSE /\ mpDestroyed' = 2
               /\ refs' = r /\ queue' = Tail(queue)
               /\ call' = Aborted
               /\ UNCHANGED <<job, holder>>
    /\ answer' = Answered
    /\ UNCHANGED <<overrides, initiated, reviving, inDestroy>>

RunEnds ==
    /\ job # "none" /\ queue = <<>>
    /\ UNCHANGED <<overrides, actorAlive, bit, initiated, inDestroy, call, answer>>
    /\ Released(refs \ {"job"}, queue, "none")

\* The holder is deleted at once on a thread of the pool, elsewhere by a job.
Delete ==
    /\ holder = "deleting"
    /\ holder' = "gone" /\ mpDestroyed' = 3
    /\ actorAlive' = FALSE
    /\ queue' = <<>>
    /\ UNCHANGED <<refs, job, overrides, bit, initiated, reviving, inDestroy, call, answer>>

----------------------------------------------------------------------------

Run ==
    \/ ProcessCall \/ ProcessResume \/ ProcessDestroyInternal \/ ProcessDestroyEnds
    \/ ProcessYielded \/ ProcessHandler \/ RunEnds

Next ==
    \/ \E u \in Users :
          Drop(u) \/ Lock(u) \/ Call(u) \/ DestroyActor(u) \/ DestroyAgain(u) \/ ResumeArrives(u)
    \/ \E d \in Destroyer : DestroyEnds(d)
    \/ ReviveInitiates \/ ReviveQueues \/ Run \/ Delete

\* The pool runs jobs, threads go on, and fp_Destroy of the actor returns.
Progress ==
    \/ (\E d \in Destroyer : DestroyEnds(d)) \/ ReviveInitiates \/ ReviveQueues \/ Run \/ Delete

Spec == Init /\ [][Next]_destroyVars

----------------------------------------------------------------------------

\* The holder is deleted when nothing refers to it any more: no reference, no
\* entry its queue would have to destruct (~TCConcurrentRunQueue), no caller or
\* coroutine that waits, no destruction on its way.
DeletedIsClean ==
    holder # "alive" =>
        /\ refs = {} /\ queue = <<>> /\ ~actorAlive
        /\ reviving = "no" /\ inDestroy = {}
        /\ \A u \in Users : call[u] \in {"none", "done", "deleted"} /\ answer[u] # "asked"

\* "Actor will asynchronously be destroyed before the future is resolved"
\* (Coroutines.dox:79): f_Destroy is not answered while the actor lives on.
AnsweredIsGone == \A u \in Users : answer[u] = "destroyed" => ~actorAlive

\* Who destroys the actor or calls it is answered, and an actor nobody refers to
\* is deleted: time and again none of them waits, and each asks and calls once.
EndsForAll ==
    []<>(/\ \A u \in Users : answer[u] # "asked" /\ call[u] # "queued"
         /\ refs \cap Users = {} => holder = "gone")
=============================================================================
