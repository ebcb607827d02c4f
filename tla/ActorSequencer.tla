--------------------------- MODULE ActorSequencer ---------------------------
(***************************************************************************)
(* TCActorSequencerActor: calls that take a slot each, at most so many at a *)
(* time, the others waiting in order.  A slot is given back by the release  *)
(* callback of a subscription, which arrives as a message of its own, also  *)
(* after the sequencer began to be destroyed.  The handlers of the actor    *)
(* do not interleave.                                                       *)
(***************************************************************************)
EXTENDS Naturals, Sequences, SequencesExt, FiniteSets

CONSTANTS
    Calls,              \* the calls made to the sequencer
    MaxConcurrency      \* mp_MaxConcurrency

VARIABLES
    toSequence,     \* mp_ToSequence
    nRunning,       \* mp_nRunning
    slot,           \* the subscription of each call
    answer,         \* what each caller was told
    runs,           \* calls of f_RunSequenced, whose function answers
    destroy,        \* f_IsDestroyed, fp_Destroy and mp_AbortPromise
    accepted,       \* history: the calls that were queued, in order
    started         \* history: the calls that got a slot, in order

sequencerVars == <<toSequence, nRunning, slot, answer, runs, destroy, accepted, started>>

TypeOK ==
    /\ toSequence \in Seq(Calls) /\ nRunning \in 0..MaxConcurrency
    /\ slot \in [Calls -> {"none", "held", "dropped", "released"}]
    /\ answer \in [Calls -> {"none", "granted", "result", "skipped", "aborted"}]
    /\ runs \subseteq Calls
    /\ destroy \in {"no", "destroyed", "aborting", "done"}
    /\ accepted \in Seq(Calls) /\ started \in Seq(Calls)

Init ==
    /\ toSequence = <<>> /\ nRunning = 0
    /\ slot = [c \in Calls |-> "none"] /\ answer = [c \in Calls |-> "none"]
    /\ runs = {} /\ destroy = "no"
    /\ accepted = <<>> /\ started = <<>>

IsNew(c) == c \notin Range(accepted) /\ answer[c] = "none"

\* fp_ProcessSequence, on the entries and the number running it is given: it
\* starts the first entry, if there is one and a slot is free. An entry of
\* f_Sequence hands its slot to the caller at once.
ProcessSequence(entries, n) ==
    IF entries = <<>> \/ n >= MaxConcurrency
    THEN /\ toSequence' = entries /\ nRunning' = n
         /\ UNCHANGED <<started, answer>>
    ELSE /\ toSequence' = Tail(entries) /\ nRunning' = n + 1
         /\ started' = Append(started, Head(entries))
         /\ answer' = IF Head(entries) \in runs' THEN answer
                      ELSE [answer EXCEPT ![Head(entries)] = "granted"]

\* The entry that ProcessSequence starts, if any, and what its slot becomes.
Starts(s) == IF started' = started THEN s ELSE [s EXCEPT ![Last(started')] = "held"]

Refuse(c, a) ==
    /\ answer' = [answer EXCEPT ![c] = a]
    /\ UNCHANGED <<toSequence, nRunning, slot, runs, destroy, accepted, started>>

Enqueue(c) ==
    /\ accepted' = Append(accepted, c)
    /\ ProcessSequence(Append(toSequence, c), nRunning)
    /\ slot' = Starts(slot)
    /\ UNCHANGED destroy

Sequence(c) ==
    /\ IsNew(c)
    /\ IF destroy # "no" THEN Refuse(c, "aborted")
       ELSE UNCHANGED runs /\ Enqueue(c)

\* f_TrySequence(true), when it does not go on to f_Sequence.
TrySequence(c) ==
    /\ IsNew(c) /\ nRunning >= MaxConcurrency
    /\ Refuse(c, "skipped")

RunSequenced(c) ==
    /\ IsNew(c)
    /\ IF destroy # "no" THEN Refuse(c, "aborted")
       ELSE runs' = runs \cup {c} /\ Enqueue(c)

\* The function given to f_RunSequenced returns, before or after it lets its
\* subscription go.
Return(c) ==
    /\ c \in runs /\ slot[c] # "none" /\ answer[c] = "none"
    /\ answer' = [answer EXCEPT ![c] = "result"]
    /\ UNCHANGED <<toSequence, nRunning, slot, runs, destroy, accepted, started>>

\* The party with the subscription lets it go: the release is queued.
Drop(c) ==
    /\ slot[c] = "held"
    /\ slot' = [slot EXCEPT ![c] = "dropped"]
    /\ UNCHANGED <<toSequence, nRunning, answer, runs, destroy, accepted, started>>

ReleaseOnly(c) ==       \* mutant: starts nobody
    /\ slot[c] = "dropped"
    /\ nRunning' = nRunning - 1
    /\ slot' = [slot EXCEPT ![c] = "released"]
    /\ destroy' = IF nRunning = 1 /\ destroy = "aborting" THEN "done" ELSE destroy
    /\ UNCHANGED <<toSequence, answer, runs, accepted, started>>

\* The release callback made in fp_ProcessSequence.
Release(c) ==
    /\ slot[c] = "dropped"
    /\ UNCHANGED <<runs, accepted>>
    /\ IF destroy # "no"
       THEN /\ nRunning' = nRunning - 1
            /\ slot' = [slot EXCEPT ![c] = "released"]
            /\ destroy' = IF nRunning = 1 /\ destroy = "aborting" THEN "done" ELSE destroy
            /\ UNCHANGED <<toSequence, answer, started>>
       ELSE /\ ProcessSequence(toSequence, nRunning - 1)
            /\ slot' = Starts([slot EXCEPT ![c] = "released"])
            /\ UNCHANGED destroy

\* f_Destroy arrives: f_IsDestroyed becomes true, the delegates go first.
BeginDestroy ==
    /\ destroy = "no"
    /\ destroy' = "destroyed"
    /\ UNCHANGED <<toSequence, nRunning, slot, answer, runs, accepted, started>>

Destroy ==
    /\ destroy = "destroyed"
    /\ answer' = [c \in Calls |-> IF c \in Range(toSequence) THEN "aborted" ELSE answer[c]]
    /\ toSequence' = <<>>
    /\ destroy' = IF nRunning > 0 THEN "aborting" ELSE "done"
    /\ UNCHANGED <<nRunning, slot, runs, accepted, started>>

Next ==
    \/ \E c \in Calls :
          \/ Sequence(c) \/ TrySequence(c) \/ RunSequenced(c)
          \/ Return(c) \/ Drop(c) \/ Release(c)
    \/ BeginDestroy \/ Destroy

\* Parties let their subscriptions go, functions return, messages arrive.
Progress == (\E c \in Calls : Return(c) \/ Drop(c) \/ Release(c)) \/ Destroy

----------------------------------------------------------------------------

\* Calls get their slots in the order they were queued, whichever of f_Sequence
\* and f_RunSequenced they are, and nobody waits while a slot is free: each call
\* and each release starts exactly one entry.
SlotsInOrder ==
    /\ nRunning = Cardinality({c \in Calls : slot[c] \in {"held", "dropped"}})
    /\ destroy = "no" /\ toSequence # <<>> => nRunning = MaxConcurrency
    /\ IsPrefix(started, accepted)

\* Every call is answered, and the destruction ends, also when calls wait or
\* hold slots as it begins: time and again nothing is outstanding, and a call is
\* made once, so none is outstanding for ever.
EveryCallAnswered ==
    []<>(/\ \A c \in Range(accepted) : answer[c] # "none"
         /\ destroy \in {"no", "done"})
=============================================================================
