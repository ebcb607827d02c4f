-------------------------- MODULE ClientConnection -------------------------
(***************************************************************************)
(* One client connection of the distribution manager: f_Connect and its    *)
(* answer, the attempts to open a socket, the reconnect timer, and the      *)
(* sequence number that tells what belongs to an earlier attempt.  All of   *)
(* it runs in the manager's actor; attempts, sockets and timers report to   *)
(* it in any order.                                                         *)
(***************************************************************************)
EXTENDS Integers, BagsExt, Bags

CONSTANT MaxSequence    \* bound: attempts to connect

VARIABLES
    settings,   \* anonymous, m_bRetryConnectOnFailure, m_bRetryConnectOnFirstFailure
    entry,      \* whether m_ClientConnections has the connection
    sequence,   \* m_ConnectionSequence
    attempts,   \* continuations of f_Reconnect that are outstanding
    timers,     \* reconnect timers; each keeps the connection alive
    socket,     \* m_Connection: the attempt that opened it, 0 for none
    identify,   \* m_IdentifyPromise
    host,       \* whether m_pHost is set
    open,       \* the last attempt that opened a socket, until its OnClose, or 0
    answer,     \* of f_Connect
    reference,  \* the CDistributedActorConnectionReference of the caller
    overtaken   \* history: an attempt failed after a later one was started

entryVars == <<settings, entry, sequence>>
vars == <<entryVars, attempts, timers, socket, identify, host, open, answer, reference,
          overtaken>>

Settings == {s \in [anonymous : BOOLEAN, retry : BOOLEAN, first : BOOLEAN] :
                s.anonymous => ~s.retry /\ ~s.first}

Timer == [seq : 1..MaxSequence, retry : BOOLEAN]
Attempt == [seq : 1..MaxSequence, asked : BOOLEAN, retry : BOOLEAN, first : BOOLEAN,
            stage : {"connecting", "accepting", "identifying", "identified", "abandoned"}]

Init ==
    /\ settings \in Settings
    /\ entry = "none" /\ sequence = 0
    /\ attempts = {} /\ timers = EmptyBag
    /\ socket = 0 /\ identify = "abandoned" /\ host = FALSE
    /\ open = 0 /\ answer = "none" /\ reference = "none" /\ overtaken = FALSE

\* What the weak pointers of the continuations still find.
Alive == entry = "listed" \/ timers # EmptyBag

\* The connection is gone, or another attempt was started since.
Stale(a) == ~Alive \/ a.seq # sequence

\* What is left of the continuations when the promise of Identify is discarded.
Discarded(as) ==
    {IF a.stage = "identifying" THEN [a EXCEPT !.stage = "abandoned"] ELSE a : a \in as}

\* f_Reset of the connection, with the continuations as that are left.
Reset(keepHost, as) ==
    /\ attempts' = Discarded(as)
    /\ identify' = "abandoned"
    /\ socket' = 0
    /\ host' = (keepHost /\ host)

\* fp_ScheduleReconnect
ScheduleReconnect(seq, retry, keepHost, as) ==
    /\ Reset(keepHost, as)
    /\ timers' = BagAdd(timers, [seq |-> seq, retry |-> retry])

\* f_DestroyClientConnection
DestroyClientConnection ==
    /\ Reset(FALSE, attempts)
    /\ entry' = "removed"
    /\ UNCHANGED <<settings, sequence, timers>>

\* f_Reconnect
Reconnect(asked, retry, first, as) ==
    /\ sequence < MaxSequence
    /\ sequence' = sequence + 1
    /\ attempts' = as \cup {[seq |-> sequence + 1, asked |-> asked, retry |-> retry,
                             first |-> first, stage |-> "connecting"]}

\* The promise of f_Connect, if this attempt has it; one that is dropped
\* answers with an exception.
Answer(a, result) ==
    /\ answer' = IF a.asked THEN result ELSE answer
    /\ reference' = IF a.asked /\ result = "result" THEN "held" ELSE reference

-----------------------------------------------------------------------------

Connect ==
    /\ entry = "none"
    /\ entry' = "listed" /\ answer' = "waiting"
    /\ Reconnect(TRUE, settings.retry, settings.first, {})
    /\ UNCHANGED <<settings, timers, socket, identify, host, open, reference,
                   overtaken>>

\* A continuation that ends without a connection.
GivesUp(a) ==
    /\ Answer(a, "exception")
    /\ attempts' = attempts \ {a}
    /\ UNCHANGED <<timers, socket, identify, host>>

\* fReportError of f_Reconnect
ReportError(a) ==
    \/ ~(Alive /\ a.first)
       /\ GivesUp(a)
    \/ Alive /\ a.first
       /\ Answer(a, "result")
       /\ ScheduleReconnect(a.seq, a.retry, TRUE, attempts \ {a})

\* The socket cannot be opened, or its certificate is refused.
ConnectFails(a) ==
    /\ a.stage = "connecting"
    /\ ReportError(a)
    /\ overtaken' = (overtaken \/ a.seq # sequence)
    /\ UNCHANGED <<entryVars, open>>

\* What f_Reconnect does with a socket of the present sequence.
Opened(a) ==
    /\ ~Stale(a)
    /\ attempts' = Discarded(attempts \ {a}) \cup {[a EXCEPT !.stage = "accepting"]}
    /\ identify' = "pending"
    /\ socket' = a.seq /\ open' = a.seq
    /\ host' = TRUE
    /\ UNCHANGED <<timers, answer, reference>>

ConnectSucceeds(a) ==
    /\ a.stage = "connecting"
    /\ \/ Opened(a)
       \/ Stale(a)
          /\ GivesUp(a)
          /\ UNCHANGED open
    /\ UNCHANGED <<entryVars, overtaken>>

\* The promise of Identify is awaited, if it was not set or discarded before.
AwaitsIdentify(a) ==
    /\ attempts' = (attempts \ {a}) \cup
          {[a EXCEPT !.stage = CASE identify = "pending" -> "identifying"
                                 [] identify = "set" -> "identified"
                                 [] OTHER -> "abandoned"]}
    /\ UNCHANGED <<timers, socket, identify, host, answer, reference>>

\* The callback of f_Accept.
Accepted(a) ==
    /\ a.stage = "accepting"
    /\ \/ Stale(a)
          /\ GivesUp(a)
       \/ ~Stale(a) /\ ReportError(a)
       \/ ~Stale(a) /\ socket # 0 /\ AwaitsIdentify(a)
    /\ UNCHANGED <<entryVars, open, overtaken>>

\* The callback of the promise of Identify.
Identified(a) ==
    /\ a.stage \in {"identified", "abandoned"}
    /\ \/ Stale(a)
          /\ GivesUp(a)
       \/ ~Stale(a) /\ a.stage = "abandoned" /\ ReportError(a)
       \/ ~Stale(a) /\ a.stage = "identified" /\ ~host /\ GivesUp(a)
       \/ ~Stale(a) /\ a.stage = "identified" /\ host
          /\ Answer(a, "result")
          /\ attempts' = attempts \ {a}
          /\ UNCHANGED <<timers, socket, identify, host>>
    /\ UNCHANGED <<entryVars, open, overtaken>>

\* Identify of the peer arrives on the socket of the present sequence.
ReceiveIdentify ==
    /\ socket # 0 /\ socket = sequence /\ host
    /\ identify = "pending"
    /\ identify' = "set"
    /\ attempts' = {IF a.stage = "identifying" THEN [a EXCEPT !.stage = "identified"] ELSE a :
                       a \in attempts}
    /\ UNCHANGED <<entryVars, timers, socket, host, open, answer, reference, overtaken>>

\* A message on it cannot be handled: fp_OnInvalidConnection.
OnInvalidConnection ==
    /\ socket # 0 /\ socket = sequence /\ host
    /\ \/ settings.retry /\ ScheduleReconnect(sequence, TRUE, TRUE, attempts)
       \/ ~settings.retry /\ Reset(FALSE, attempts) /\ UNCHANGED timers
    /\ UNCHANGED <<entryVars, open, answer, reference, overtaken>>

\* The socket is closed by either end, or is reported after the manager reset
\* it: OnClose of f_Reconnect.
OnClose ==
    /\ open # 0
    /\ open' = 0
    /\ \/ ~(Alive /\ open = sequence /\ host)
          /\ UNCHANGED <<entryVars, attempts, timers, socket, identify, host>>
       \/ Alive /\ open = sequence /\ host /\ settings.anonymous
          /\ DestroyClientConnection
       \/ Alive /\ open = sequence /\ host /\ ~settings.anonymous
          /\ \E keepHost \in BOOLEAN : ScheduleReconnect(open, TRUE, keepHost, attempts)
          /\ UNCHANGED entryVars
    /\ UNCHANGED <<answer, reference, overtaken>>

TimerFiresOnce(t) ==    \* mutant: the attempt of the timer is not tried again
    /\ timers' = BagRemove(timers, t)
    /\ \/ entry = "listed" /\ t.seq = sequence
          /\ Reconnect(FALSE, t.retry, FALSE, attempts)
       \/ ~(entry = "listed" /\ t.seq = sequence)
          /\ UNCHANGED <<sequence, attempts>>
    /\ UNCHANGED <<settings, entry, socket, identify, host, open, answer, reference,
                   overtaken>>

\* The reconnect timer.
TimerFires(t) ==
    /\ timers' = BagRemove(timers, t)
    /\ \/ entry = "listed" /\ t.seq = sequence
          /\ Reconnect(FALSE, t.retry, t.retry, attempts)
       \/ ~(entry = "listed" /\ t.seq = sequence)
          /\ UNCHANGED <<sequence, attempts>>
    /\ UNCHANGED <<settings, entry, socket, identify, host, open, answer, reference,
                   overtaken>>

\* f_Reconnect of the reference, which lets go of the manager, and fp_Reconnect.
ManualReconnect ==
    /\ reference = "held" /\ reference' = "reconnected"
    /\ \/ entry = "listed"
          /\ socket' = 0 /\ identify' = "abandoned"
          /\ Reconnect(FALSE, settings.retry, settings.first, Discarded(attempts))
       \/ entry # "listed"
          /\ UNCHANGED <<sequence, attempts, socket, identify>>
    /\ UNCHANGED <<settings, entry, timers, host, open, answer, overtaken>>

\* f_Disconnect of the reference, or its destructor, and fp_RemoveConnection.
RemoveConnection ==
    /\ reference = "held" /\ reference' = "disconnected"
    /\ \/ entry = "listed" /\ DestroyClientConnection
       \/ entry # "listed"
          /\ UNCHANGED <<entryVars, attempts, timers, socket, identify, host>>
    /\ UNCHANGED <<open, answer, overtaken>>

\* The host is kicked, was inactive too long or restarted: fp_ResetHostState.
ResetHostState ==
    /\ host
    /\ \/ settings.anonymous /\ DestroyClientConnection
       \/ ~settings.anonymous
          /\ ScheduleReconnect(sequence, TRUE, FALSE, attempts)
          /\ UNCHANGED entryVars
    /\ UNCHANGED <<open, answer, reference, overtaken>>

-----------------------------------------------------------------------------

\* Attempts end, callbacks are called, timers fire, and the peer identifies.
Progress ==
    \/ \E a \in attempts : ConnectFails(a) \/ ConnectSucceeds(a) \/ Accepted(a) \/ Identified(a)
    \/ ReceiveIdentify
    \/ \E t \in DOMAIN timers : TimerFires(t)

Next ==
    \/ Progress
    \/ Connect \/ ManualReconnect \/ RemoveConnection
    \/ OnInvalidConnection \/ ResetHostState
    \/ OnClose

Spec == Init /\ [][Next]_vars /\ WF_vars(Progress)

-----------------------------------------------------------------------------
(* Properties *)

TypeOK ==
    /\ settings \in Settings
    /\ entry \in {"none", "listed", "removed"} /\ sequence \in 0..MaxSequence
    /\ attempts \subseteq Attempt /\ DOMAIN timers \subseteq Timer
    /\ socket \in 0..MaxSequence /\ identify \in {"pending", "set", "abandoned"}
    /\ host \in BOOLEAN /\ open \in 0..MaxSequence
    /\ answer \in {"none", "waiting", "result", "exception"}
    /\ reference \in {"none", "held", "reconnected", "disconnected"}
    /\ overtaken \in BOOLEAN

\* A connection made to be opened again on failure is never left without a
\* socket, an attempt to open one, or a timer that will start one: also when
\* it fails while it is accepted or identified, is reset for several reasons
\* at once, and timers of earlier attempts are still to fire.  Two cases are
\* not covered by the code: an attempt that fails after a later one was
\* started resets the later one and leaves a timer that is too old, and one
\* made by hand without m_bRetryConnectOnFirstFailure is not made again.
KeepsTrying ==
    /\ entry = "listed" /\ settings.retry /\ ~overtaken
    /\ settings.first \/ reference = "held"
    =>
        \/ socket # 0
        \/ \E a \in attempts : a.seq = sequence /\ a.stage = "connecting"
        \/ \E t \in DOMAIN timers : t.seq = sequence

\* Whoever calls f_Connect is answered, however the connection fails, is reset
\* or removed before the other end has identified.
EveryConnectAnswered == []<>(answer # "waiting")
=============================================================================
