---------------------------- MODULE RemoteCalls ----------------------------
(***************************************************************************)
(* Remote calls between two hosts, with a functor in the arguments and a    *)
(* subscription in the result (Manager_RemoteCall.cpp): what the caller     *)
(* keeps for a call that is outstanding, who owns the functor it published, *)
(* and how the subscription is destroyed over the connection, while either  *)
(* host may drop the session (fp_ResetHostState).                           *)
(*                                                                          *)
(* Between hosts in the same session packets arrive once and in order, as   *)
(* PacketQueue does it; a host that dropped the session or restarted is     *)
(* found out by the other when it identifies, as in HostSession.            *)
(***************************************************************************)
EXTENDS Naturals, Sequences, SequencesExt, Functions

CONSTANTS
    Calls,          \* the calls that are made
    MaxSession      \* bound on the sessions

VARIABLES
    cSession, sSession,     \* m_LastExecutionID, at the caller and at the host called
    toS, toC,               \* packets queued or on their way
    calls,                  \* the answer to each call; outstanding ones are in m_OutstandingCalls
    made,                   \* CDistributedActorStreamContextState::m_LastExecutionID of each call
    functors,               \* m_ImplicitlyPublishedFunctions of the caller
    refs,                   \* m_RemoteSubscriptionReferences
    pending,                \* m_PendingRemoteSubscriptionDestroys
    posts,                  \* messages queued to the caller's distribution manager
    user,                   \* the subscription each call returned
    running,                \* the session in which the called host runs a call, 0: not
    sSubs,                  \* m_ImplicitlyPublishedSubscriptions of the called host
    ending                  \* the session in which it destroys a subscription, 0: not

remoteVars == <<cSession, sSession, toS, toC, calls, made, functors, refs, pending, posts, user,
                running, sSubs, ending>>

calleeVars == <<running, sSubs, ending>>
callerVars == <<calls, made, functors, refs, pending, posts, user>>

Packet == [kind : {"call", "destroySubscription", "value", "error", "subscriptionDestroyed"},
           for : Calls]
Post == [kind : {"value", "error", "register", "cleanup", "destroy"}, for : Calls]

TypeOK ==
    /\ {cSession, sSession} \subseteq 1..MaxSession
    /\ toS \in Seq(Packet) /\ toC \in Seq(Packet)
    /\ calls \in [Calls -> {"new", "outstanding", "value", "error"}]
    /\ made \in [Calls -> 0..MaxSession]
    /\ functors \subseteq Calls /\ refs \subseteq Calls /\ pending \subseteq Calls
    /\ posts \in Seq(Post)
    /\ user \in [Calls -> {"none", "held", "destroying", "destroyed"}]
    /\ running \in [Calls -> 0..MaxSession] /\ ending \in [Calls -> 0..MaxSession]
    /\ sSubs \subseteq Calls

Init ==
    /\ cSession = 1 /\ sSession = 1
    /\ toS = <<>> /\ toC = <<>>
    /\ calls = [c \in Calls |-> "new"] /\ made = [c \in Calls |-> 0]
    /\ functors = {} /\ refs = {} /\ pending = {} /\ posts = <<>>
    /\ user = [c \in Calls |-> "none"]
    /\ running = [c \in Calls |-> 0] /\ sSubs = {} /\ ending = [c \in Calls |-> 0]

P(k, c) == [kind |-> k, for |-> c]
InSession == cSession = sSession

----------------------------------------------------------------------------
(* The caller.                                                             *)

\* f_CallRemote. After it dropped the session itself the caller knows no actor of
\* the other host before that has followed.
CallRemote(c) ==
    /\ calls[c] = "new" /\ cSession <= sSession
    /\ calls' = [calls EXCEPT ![c] = "outstanding"]
    /\ made' = [made EXCEPT ![c] = cSession]
    /\ functors' = functors \cup {c}
    /\ toS' = Append(toS, P("call", c))
    /\ UNCHANGED <<cSession, sSession, toC, refs, pending, posts, user, calleeVars>>

\* fp_ApplyRemoteCallResult: the promise is set, and the coroutine of the call is
\* resumed by a message of its own.
ApplyRemoteCallResult ==
    /\ InSession /\ toC # <<>> /\ Head(toC).kind \in {"value", "error"}
    /\ LET c == Head(toC).for IN
          /\ calls[c] = "outstanding"
          /\ calls' = [calls EXCEPT ![c] = Head(toC).kind]
          /\ posts' = Append(posts, P(Head(toC).kind, c))
    /\ toC' = Tail(toC)
    /\ UNCHANGED <<cSession, sSession, toS, made, functors, refs, pending, user, calleeVars>>

HandleSubscriptionDestroyed ==
    /\ InSession /\ toC # <<>> /\ Head(toC).kind = "subscriptionDestroyed"
    /\ LET c == Head(toC).for IN
          /\ pending' = pending \ {c}
          /\ user' = IF c \in pending THEN [user EXCEPT ![c] = "destroyed"] ELSE user
    /\ toC' = Tail(toC)
    /\ UNCHANGED <<cSession, sSession, toS, calls, made, functors, refs, posts, calleeVars>>

\* The party that called lets the subscription go or calls f_Destroy of it.
DestroySubscription(c) ==
    /\ user[c] = "held"
    /\ user' = [user EXCEPT ![c] = "destroying"]
    /\ posts' = Append(posts, P("destroy", c))
    /\ UNCHANGED <<cSession, sSession, toS, toC, calls, made, functors, refs, pending, calleeVars>>

\* The messages of the caller's distribution manager to itself.
IsNextPost(k) == posts # <<>> /\ Head(posts).kind = k
For == Head(posts).for
SameSession == made[For] = cSession

\* The result is read: a subscription in it is registered by a further message,
\* which keeps the state of the call that owns the functor.
ReadResult ==
    /\ IsNextPost("value")
    /\ user' = [user EXCEPT ![For] = "held"]
    /\ posts' = Append(Tail(posts), [Head(posts) EXCEPT !.kind = "register"])
    /\ UNCHANGED <<cSession, sSession, toS, toC, calls, made, functors, refs, pending, calleeVars>>

\* ~CDistributedActorStreamContextState of a call that failed.
ReadException ==
    /\ IsNextPost("error")
    /\ posts' = Append(Tail(posts), [Head(posts) EXCEPT !.kind = "cleanup"])
    /\ UNCHANGED <<cSession, sSession, toS, toC, calls, made, functors, refs, pending, user, calleeVars>>

CleanupRemoteContext ==
    /\ IsNextPost("cleanup")
    /\ functors' = IF SameSession THEN functors \ {For} ELSE functors
    /\ posts' = Tail(posts)
    /\ UNCHANGED <<cSession, sSession, toS, toC, calls, made, refs, pending, user, calleeVars>>

RegisterInAnySession ==     \* mutant: m_LastExecutionID is not compared
    /\ IsNextPost("register")
    /\ refs' = refs \cup {For}
    /\ posts' = Tail(posts)
    /\ UNCHANGED <<cSession, sSession, toS, toC, calls, made, functors, pending, user, calleeVars>>

\* fp_RegisterRemoteSubscription: the functor is the subscription's from now on.
RegisterRemoteSubscription ==
    /\ IsNextPost("register")
    /\ refs' = IF SameSession THEN refs \cup {For} ELSE refs
    /\ posts' = IF SameSession THEN Tail(posts)
                ELSE Append(Tail(posts), [Head(posts) EXCEPT !.kind = "cleanup"])
    /\ UNCHANGED <<cSession, sSession, toS, toC, calls, made, functors, pending, user, calleeVars>>

\* fp_DestroyRemoteSubscription.
DestroyRemoteSubscription ==
    /\ IsNextPost("destroy")
    /\ posts' = Tail(posts)
    /\ UNCHANGED <<cSession, sSession, toC, calls, made, refs, calleeVars>>
    /\ IF SameSession /\ For \in refs
       THEN /\ functors' = functors \ {For}
            /\ toS' = Append(toS, P("destroySubscription", For))
            /\ pending' = pending \cup {For}
            /\ UNCHANGED user
       ELSE /\ user' = [user EXCEPT ![For] = "destroyed"]
            /\ UNCHANGED <<functors, toS, pending>>

----------------------------------------------------------------------------
(* The host that is called.                                                *)

ApplyRemoteCall ==
    /\ InSession /\ toS # <<>> /\ Head(toS).kind = "call"
    /\ running' = [running EXCEPT ![Head(toS).for] = sSession]
    /\ toS' = Tail(toS)
    /\ UNCHANGED <<cSession, sSession, toC, callerVars, sSubs, ending>>

\* The called actor is done: fp_ReplyToRemoteCall or ..WithException, which does
\* nothing when the session is over. A call that is refused ends the same way.
ReplyToRemoteCall(c) ==
    /\ running[c] # 0
    /\ running' = [running EXCEPT ![c] = 0]
    /\ IF running[c] # sSession
       THEN UNCHANGED <<toC, sSubs>>
       ELSE \E k \in {"value", "error"} :
               /\ toC' = Append(toC, P(k, c))
               /\ sSubs' = IF k = "value" THEN sSubs \cup {c} ELSE sSubs
    /\ UNCHANGED <<cSession, sSession, toS, callerVars, ending>>

HandleDestroySubscription ==
    /\ InSession /\ toS # <<>> /\ Head(toS).kind = "destroySubscription"
    /\ LET c == Head(toS).for IN
          /\ sSubs' = sSubs \ {c}
          /\ IF c \in sSubs
             THEN ending' = [ending EXCEPT ![c] = sSession] /\ UNCHANGED toC
             ELSE toC' = Append(toC, P("subscriptionDestroyed", c)) /\ UNCHANGED ending
    /\ toS' = Tail(toS)
    /\ UNCHANGED <<cSession, sSession, callerVars, running>>

\* The subscription that was held for the caller has been destroyed.
SubscriptionEnds(c) ==
    /\ ending[c] # 0
    /\ ending' = [ending EXCEPT ![c] = 0]
    /\ toC' = IF ending[c] = sSession THEN Append(toC, P("subscriptionDestroyed", c)) ELSE toC
    /\ UNCHANGED <<cSession, sSession, toS, callerVars, running, sSubs>>

----------------------------------------------------------------------------
(* Sessions.                                                               *)

ResetCallerOnly ==      \* mutant: the destructions that wait are forgotten
    LET failed == SetToSeq({c \in Calls : calls[c] = "outstanding"}) IN
    /\ calls' = [c \in Calls |-> IF calls[c] = "outstanding" THEN "error" ELSE calls[c]]
    /\ posts' = posts \o [i \in 1..Len(failed) |-> P("error", failed[i])]
    /\ functors' = {} /\ refs' = {} /\ pending' = {}
    /\ UNCHANGED <<made, user>>

\* fp_ResetHostState at the caller: every outstanding call gets an exception, and
\* every destruction that waits its result.
ResetCaller ==
    LET failed == SetToSeq({c \in Calls : calls[c] = "outstanding"}) IN
    /\ calls' = [c \in Calls |-> IF calls[c] = "outstanding" THEN "error" ELSE calls[c]]
    /\ posts' = posts \o [i \in 1..Len(failed) |-> P("error", failed[i])]
    /\ functors' = {} /\ refs' = {} /\ pending' = {}
    /\ user' = [c \in Calls |-> IF c \in pending THEN "destroyed" ELSE user[c]]
    /\ UNCHANGED made

\* A host drops the session (f_DestroyHost, f_KickHost) or, called, restarts.
CallerDrops ==
    /\ InSession /\ cSession < MaxSession
    /\ cSession' = cSession + 1
    /\ toS' = <<>> /\ toC' = <<>>
    /\ ResetCaller
    /\ UNCHANGED <<sSession, calleeVars>>

CalleeDrops ==
    /\ InSession /\ sSession < MaxSession
    /\ sSession' = sSession + 1
    /\ toS' = <<>> /\ toC' = <<>>
    /\ sSubs' = {}
    /\ \/ UNCHANGED <<running, ending>>
       \/ /\ running' = [c \in Calls |-> 0]
          /\ ending' = [c \in Calls |-> 0]
    /\ UNCHANGED <<cSession, callerVars>>

CallerFollows ==
    /\ cSession < sSession
    /\ cSession' = sSession
    /\ toS' = <<>>
    /\ ResetCaller
    /\ UNCHANGED <<sSession, toC, calleeVars>>

CalleeFollows ==
    /\ sSession < cSession
    /\ sSession' = cSession
    /\ toC' = <<>>
    /\ sSubs' = {}
    /\ UNCHANGED <<cSession, toS, callerVars, running, ending>>

----------------------------------------------------------------------------

\* Packets arrive, actors answer, messages are processed, hosts identify.
Progress ==
    \/ ApplyRemoteCallResult \/ HandleSubscriptionDestroyed
    \/ ReadResult \/ ReadException \/ CleanupRemoteContext
    \/ RegisterRemoteSubscription \/ DestroyRemoteSubscription
    \/ ApplyRemoteCall \/ HandleDestroySubscription
    \/ \E c \in Calls : ReplyToRemoteCall(c) \/ SubscriptionEnds(c)
    \/ CallerFollows \/ CalleeFollows

Next ==
    \/ Progress
    \/ \E c \in Calls : CallRemote(c) \/ DestroySubscription(c)
    \/ CallerDrops \/ CalleeDrops

----------------------------------------------------------------------------

PostsOf(c) == {p \in Range(posts) : p.for = c}

\* A functor stays published exactly while its call is outstanding, or a message
\* that will see to it is queued, or the subscription it belongs to is not yet
\* destroyed: none leaks, and none can be called after that. And a subscription the
\* called host keeps for the caller is one the caller still has, will have, or is
\* destroying: while the session lasts none is forgotten.
KeptWhileUsed ==
    /\ \A c \in Calls :
          c \in functors <=>
              \/ calls[c] = "outstanding"
              \/ \E p \in PostsOf(c) : p.kind # "destroy" /\ made[c] = cSession
              \/ c \in refs /\ c \notin pending /\ user[c] \in {"held", "destroying"}
    /\ InSession => \A c \in sSubs :
          \/ P("value", c) \in Range(toC) \/ P("destroySubscription", c) \in Range(toS)
          \/ PostsOf(c) # {} \/ user[c] = "held"

\* "the result is always returned" (DesignGoals.dox:178): a call is answered and the
\* destruction of a subscription ends, whoever drops the session meanwhile: time
\* and again neither is outstanding, and each is done once.
RemoteCallsEnd ==
    []<>(\A c \in Calls : calls[c] # "outstanding" /\ user[c] # "destroying")
=============================================================================
