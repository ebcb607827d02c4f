-------------------------- MODULE OrderedDelivery --------------------------
(***************************************************************************)
(* What the packet queue promises: at each priority the packets of one host *)
(* are processed by the other exactly once and in the order they were       *)
(* queued, and in the end all of them are.                                  *)
(***************************************************************************)
EXTENDS Integers

CONSTANTS Prio, MaxId

Packet == [prio : Prio, id : 1..MaxId]

VARIABLES
    queued,      \* how many packets were queued, per priority
    processed    \* how often each packet was processed
vars == <<queued, processed>>

\* The first n[p] packets of each priority p once, no other.
UpTo(n) == [pk \in Packet |-> IF pk.id <= n[pk.prio] THEN 1 ELSE 0]

Init ==
    /\ queued = [p \in Prio |-> 0]
    /\ processed = [pk \in Packet |-> 0]

Queue(p) ==
    /\ queued[p] < MaxId
    /\ queued' = [queued EXCEPT ![p] = @ + 1]
    /\ UNCHANGED processed

\* The next packets in order, at one or at several priorities.
ProcessSome ==
    /\ \E n \in [Prio -> 0..MaxId] :
          /\ \A p \in Prio : n[p] <= queued[p]
          /\ \A pk \in Packet : processed[pk] <= UpTo(n)[pk]
          /\ UpTo(n) # processed
          /\ processed' = UpTo(n)
    /\ UNCHANGED queued

Next == (\E p \in Prio : Queue(p)) \/ ProcessSome

Spec == Init /\ [][Next]_vars
FairSpec == Spec /\ WF_vars(ProcessSome)

=============================================================================
