-------------------------- MODULE LocalParts_proofs --------------------------
(***************************************************************************)
(* Proofs about the parts of one process.  A step of MCLocalParts is one of *)
(* one part, so that an invariant of a part's own steps is one of all.      *)
(***************************************************************************)
EXTENDS MCLocalParts, Sequences, Integers, FiniteSetTheorems, WellFoundedInduction, TLAPS

\* Cardinality, as the components see it, is the one of FiniteSets.
LEMMA SameCardinality ==
    ASSUME NEW S
    PROVE  Sequencer!Cardinality(S) = Cardinality(S) /\ Promises!Cardinality(S) = Cardinality(S)
  BY DEF Cardinality, Sequencer!Cardinality, Promises!Cardinality

----------------------------------------------------------------------------
(* The actor sequencer.  A call that was queued has started, or waits in the *)
(* order of the queueing, until the sequencer begins to be destroyed; no     *)
(* call is queued twice, and only a call that started has a slot.            *)

Slots(s) == {c \in SequencerCalls : s[c] \in {"held", "dropped"}}

StartedFirst(begun, acc) ==
    /\ Len(begun) <= Len(acc)
    /\ \A i \in 1..Len(begun) : acc[i] = begun[i]
OthersWait(begun, waiting, acc) ==
    /\ Len(acc) = Len(begun) + Len(waiting)
    /\ \A i \in 1..Len(waiting) : acc[Len(begun) + i] = waiting[i]
QueuedOnce(acc) == \A i, j \in 1..Len(acc) : acc[i] = acc[j] => i = j
OnlyStartedHold(s, begun) ==
    \A c \in SequencerCalls : s[c] # "none" => \E i \in 1..Len(begun) : begun[i] = c

SequencerInv ==
    /\ Sequencer!TypeOK
    /\ nRunning = Cardinality(Slots(slot))
    /\ destroy = "no" /\ toSequence # <<>> => nRunning = MaxConcurrency
    /\ StartedFirst(started, accepted)
    /\ destroy = "no" => OthersWait(started, toSequence, accepted)
    /\ QueuedOnce(accepted)
    /\ OnlyStartedHold(slot, started)

LEMMA SlotsAreFinite ==
    ASSUME NEW s
    PROVE  IsFiniteSet(Slots(s)) /\ Cardinality(Slots(s)) \in Nat
  <1>1. Slots(s) \in SUBSET SequencerCalls
    BY DEF Slots
  <1>2. QED
    BY <1>1, FS_Subset, FS_CardinalityType, LocalPartsAssumption DEF LocalPartsAssumption

\* A slot more, and a slot less.
LEMMA SlotTaken ==
    ASSUME NEW s, NEW t, NEW c \in SequencerCalls, c \notin Slots(s), c \in Slots(t),
           \A d \in SequencerCalls : d # c => s[d] = t[d]
    PROVE  Cardinality(Slots(t)) = Cardinality(Slots(s)) + 1
  <1>1. Slots(t) = Slots(s) \cup {c}
    BY DEF Slots
  <1>2. QED
    BY <1>1, SlotsAreFinite, FS_AddElement

\* fp_ProcessSequence starts the first of the entries it is given, if it starts one.
LEMMA ProcessSequenceStep ==
    ASSUME NEW entries \in Seq(SequencerCalls), NEW n \in 0..MaxConcurrency,
           NEW s \in [SequencerCalls -> {"none", "held", "dropped", "released"}],
           NEW acc \in Seq(SequencerCalls),
           SequencerInv, destroy = "no",
           n = Cardinality(Slots(s)),
           entries # <<>> => n = MaxConcurrency \/ n = MaxConcurrency - 1 \/ Len(entries) = 1,
           StartedFirst(started, acc), OthersWait(started, entries, acc), QueuedOnce(acc),
           OnlyStartedHold(s, started),
           Sequencer!ProcessSequence(entries, n), slot' = Sequencer!Starts(s), accepted' = acc,
           destroy' = destroy, runs' \subseteq SequencerCalls
    PROVE  SequencerInv'
  <1>0. MaxConcurrency \in Nat
    BY LocalPartsAssumption DEF LocalPartsAssumption
  <1>1. started \in Seq(SequencerCalls)
    BY DEF SequencerInv, Sequencer!TypeOK
  <1>2. answer \in [SequencerCalls -> {"none", "granted", "result", "skipped", "aborted"}]
    BY DEF SequencerInv, Sequencer!TypeOK
  <1>3. CASE entries = <<>> \/ n >= MaxConcurrency
    <2>1. toSequence' = entries /\ nRunning' = n /\ started' = started /\ answer' = answer
      BY <1>3 DEF Sequencer!ProcessSequence
    <2>2. slot' = s
      BY <2>1 DEF Sequencer!Starts
    <2>3. Sequencer!TypeOK'
      BY <1>0, <1>1, <1>2, <2>1, <2>2 DEF Sequencer!TypeOK
    <2>4. entries # <<>> => n = MaxConcurrency
      BY <1>0, <1>3
    <2>5. QED
      BY <2>1, <2>2, <2>3, <2>4 DEF SequencerInv
  <1>4. CASE entries # <<>> /\ n < MaxConcurrency
    <2> DEFINE c == Head(entries)
    <2>1. /\ toSequence' = Tail(entries) /\ nRunning' = n + 1
          /\ started' = Append(started, c)
          /\ answer' = IF c \in runs' THEN answer ELSE [answer EXCEPT ![c] = "granted"]
      BY <1>0, <1>4 DEF Sequencer!ProcessSequence
    <2>2. c \in SequencerCalls /\ c = entries[1] /\ Len(entries) >= 1 /\ Len(entries) \in Nat
      BY <1>4
    <2>3. /\ started' \in Seq(SequencerCalls) /\ Len(started') = Len(started) + 1
          /\ \A i \in 1..Len(started) : started'[i] = started[i]
          /\ started'[Len(started) + 1] = c
          /\ Len(started) \in Nat
      BY <1>1, <2>1, <2>2
    <2>4. /\ Tail(entries) \in Seq(SequencerCalls) /\ Len(Tail(entries)) = Len(entries) - 1
          /\ \A i \in 1..Len(entries) - 1 : Tail(entries)[i] = entries[i + 1]
      BY <1>4
    <2>5. started' # started
      BY <2>3
    <2>6. slot' = [s EXCEPT ![c] = "held"]
      BY <2>3, <2>5 DEF Sequencer!Starts, Sequencer!Last
    <2>7. acc[Len(started) + 1] = c
      BY <2>2 DEF OthersWait
    <2>8. \A i \in 1..Len(started) : started[i] # c
      <3>1. ASSUME NEW i \in 1..Len(started), started[i] = c
            PROVE  FALSE
        <4>1. acc[i] = acc[Len(started) + 1]
          BY <2>7, <3>1 DEF StartedFirst
        <4>2. i \in 1..Len(acc) /\ Len(started) + 1 \in 1..Len(acc)
          BY <2>2, <2>3 DEF OthersWait
        <4>3. QED
          BY <2>3, <4>1, <4>2 DEF QueuedOnce
      <3>2. QED
        BY <3>1
    <2>9. s[c] = "none"
      BY <2>2, <2>8 DEF OnlyStartedHold
    <2>10. c \notin Slots(s) /\ c \in Slots(slot')
      BY <2>2, <2>6, <2>9 DEF Slots
    <2>11. Cardinality(Slots(slot')) = n + 1
      BY <2>2, <2>6, <2>10, SlotTaken
    <2>12. Tail(entries) # <<>> => n + 1 = MaxConcurrency
      BY <1>0, <1>4, <2>2, <2>4
    <2>13. StartedFirst(started', acc)
      <3>1. Len(started') <= Len(acc)
        BY <2>2, <2>3 DEF OthersWait
      <3>2. ASSUME NEW i \in 1..Len(started')
            PROVE  acc[i] = started'[i]
        <4>1. i \in 1..Len(started) \/ i = Len(started) + 1
          BY <2>3
        <4>2. QED
          BY <2>3, <2>7, <4>1 DEF StartedFirst
      <3>3. QED
        BY <3>1, <3>2 DEF StartedFirst
    <2>14. OthersWait(started', Tail(entries), acc)
      <3>1. Len(acc) = Len(started') + Len(Tail(entries))
        BY <2>2, <2>3, <2>4 DEF OthersWait
      <3>2. ASSUME NEW i \in 1..Len(Tail(entries))
            PROVE  acc[Len(started') + i] = Tail(entries)[i]
        <4>1. i + 1 \in 1..Len(entries) /\ Tail(entries)[i] = entries[i + 1]
          BY <2>2, <2>4
        <4>2. acc[Len(started) + (i + 1)] = entries[i + 1]
          BY <4>1 DEF OthersWait
        <4>3. Len(started') + i = Len(started) + (i + 1)
          BY <2>3
        <4>4. QED
          BY <4>1, <4>2, <4>3
      <3>3. QED
        BY <3>1, <3>2 DEF OthersWait
    <2>15. OnlyStartedHold(slot', started')
      BY <2>3, <2>6 DEF OnlyStartedHold
    <2>16. Sequencer!TypeOK'
      <3>1. answer' \in [SequencerCalls -> {"none", "granted", "result", "skipped", "aborted"}]
        BY <1>2, <2>1, <2>2
      <3>2. slot' \in [SequencerCalls -> {"none", "held", "dropped", "released"}]
        BY <2>2, <2>6
      <3>3. nRunning' \in 0..MaxConcurrency
        BY <1>0, <1>4, <2>1
      <3>4. QED
        BY <2>1, <2>3, <2>4, <3>1, <3>2, <3>3 DEF SequencerInv, Sequencer!TypeOK
    <2>17. QED
      BY <2>1, <2>11, <2>12, <2>13, <2>14, <2>15, <2>16 DEF SequencerInv
  <1>5. QED
    BY <1>0, <1>3, <1>4

\* A call is queued, behind the others, and starts if a slot is free.
LEMMA EnqueueStep ==
    ASSUME SequencerInv, destroy = "no", NEW c \in SequencerCalls, Sequencer!IsNew(c),
           runs' \subseteq SequencerCalls, Sequencer!Enqueue(c)
    PROVE  SequencerInv'
  <1> DEFINE entries == Append(toSequence, c)
             acc == Append(accepted, c)
  <1>0. MaxConcurrency \in Nat
    BY LocalPartsAssumption DEF LocalPartsAssumption
  <1>1. /\ toSequence \in Seq(SequencerCalls) /\ accepted \in Seq(SequencerCalls)
        /\ started \in Seq(SequencerCalls)
        /\ slot \in [SequencerCalls -> {"none", "held", "dropped", "released"}]
        /\ nRunning \in 0..MaxConcurrency
    BY DEF SequencerInv, Sequencer!TypeOK
  <1>2. /\ entries \in Seq(SequencerCalls) /\ Len(entries) = Len(toSequence) + 1
        /\ \A i \in 1..Len(toSequence) : entries[i] = toSequence[i]
        /\ entries[Len(toSequence) + 1] = c /\ Len(toSequence) \in Nat
    BY <1>1
  <1>3. /\ acc \in Seq(SequencerCalls) /\ Len(acc) = Len(accepted) + 1
        /\ \A i \in 1..Len(accepted) : acc[i] = accepted[i]
        /\ acc[Len(accepted) + 1] = c /\ Len(accepted) \in Nat /\ Len(started) \in Nat
    BY <1>1
  <1>4. \A i \in 1..Len(accepted) : accepted[i] # c
    BY <1>1 DEF Sequencer!IsNew, Sequencer!Range
  <1>5. entries # <<>> => nRunning = MaxConcurrency \/ Len(entries) = 1
    BY <1>1, <1>2 DEF SequencerInv
  <1>6. StartedFirst(started, acc)
    BY <1>3 DEF SequencerInv, StartedFirst
  <1>7. OthersWait(started, entries, acc)
    <2>1. Len(acc) = Len(started) + Len(entries) /\ Len(accepted) = Len(started) + Len(toSequence)
      BY <1>2, <1>3 DEF SequencerInv, OthersWait
    <2>2. ASSUME NEW i \in 1..Len(entries)
          PROVE  acc[Len(started) + i] = entries[i]
      <3>1. CASE i = Len(toSequence) + 1
        <4>1. Len(started) + i = Len(accepted) + 1
          BY <1>2, <1>3, <2>1, <3>1
        <4>2. QED
          BY <1>2, <1>3, <3>1, <4>1
      <3>2. CASE i # Len(toSequence) + 1
        <4>1. i \in 1..Len(toSequence) /\ Len(started) + i \in 1..Len(accepted)
          BY <1>2, <1>3, <2>1, <3>2
        <4>2. accepted[Len(started) + i] = toSequence[i]
          BY <4>1 DEF SequencerInv, OthersWait
        <4>3. QED
          BY <1>2, <1>3, <4>1, <4>2
      <3>3. QED
        BY <3>1, <3>2
    <2>3. QED
      BY <2>1, <2>2 DEF OthersWait
  <1>8. QueuedOnce(acc)
    <2>1. ASSUME NEW i \in 1..Len(acc), NEW j \in 1..Len(acc), acc[i] = acc[j]
          PROVE  i = j
      <3>1. \A k \in 1..Len(acc) : k \in 1..Len(accepted) \/ k = Len(accepted) + 1
        BY <1>3
      <3>2. CASE i \in 1..Len(accepted) /\ j \in 1..Len(accepted)
        BY <1>3, <2>1, <3>2 DEF SequencerInv, QueuedOnce
      <3>3. QED
        BY <1>3, <1>4, <2>1, <3>1, <3>2
    <2>2. QED
      BY <2>1 DEF QueuedOnce
  <1>9. Sequencer!ProcessSequence(entries, nRunning) /\ slot' = Sequencer!Starts(slot)
        /\ accepted' = acc /\ destroy' = destroy
    BY DEF Sequencer!Enqueue
  <1>10. nRunning = Cardinality(Slots(slot)) /\ OnlyStartedHold(slot, started)
    BY DEF SequencerInv
  <1> HIDE DEF entries, acc
  <1>11. QED
    BY <1>1, <1>2, <1>3, <1>5, <1>6, <1>7, <1>8, <1>9, <1>10, ProcessSequenceStep

\* What neither starts a call nor changes a slot.
LEMMA SequencerKeeps ==
    ASSUME SequencerInv, Sequencer!TypeOK',
           UNCHANGED <<nRunning, slot, accepted, started>>,
           \/ toSequence' = toSequence /\ (destroy' = destroy \/ destroy' # "no")
           \/ destroy' # "no"
    PROVE  SequencerInv'
  BY DEF SequencerInv

LEMMA SequenceStep ==
    ASSUME SequencerInv, NEW c \in SequencerCalls,
           Sequencer!Sequence(c) \/ Sequencer!TrySequence(c) \/ Sequencer!RunSequenced(c)
    PROVE  SequencerInv'
  <1>1. ASSUME NEW a \in {"skipped", "aborted"}, Sequencer!Refuse(c, a)
        PROVE  SequencerInv'
    <2>1. Sequencer!TypeOK'
      BY <1>1 DEF SequencerInv, Sequencer!TypeOK, Sequencer!Refuse
    <2>2. QED
      BY <1>1, <2>1, SequencerKeeps DEF Sequencer!Refuse
  <1>2. ASSUME destroy = "no", Sequencer!IsNew(c), Sequencer!Enqueue(c), runs' \in {runs, runs \cup {c}}
        PROVE  SequencerInv'
    <2>1. runs' \subseteq SequencerCalls
      BY <1>2 DEF SequencerInv, Sequencer!TypeOK
    <2>2. QED
      BY <1>2, <2>1, EnqueueStep
  <1>3. QED
    BY <1>1, <1>2 DEF Sequencer!Sequence, Sequencer!TrySequence, Sequencer!RunSequenced

\* The release of a slot: the next call starts, unless the sequencer is being destroyed.
LEMMA ReleaseStep ==
    ASSUME SequencerInv, NEW c \in SequencerCalls, Sequencer!Release(c)
    PROVE  SequencerInv'
  <1> DEFINE s == [slot EXCEPT ![c] = "released"]
  <1>0. MaxConcurrency \in Nat
    BY LocalPartsAssumption DEF LocalPartsAssumption
  <1>1. /\ slot \in [SequencerCalls -> {"none", "held", "dropped", "released"}]
        /\ nRunning \in 0..MaxConcurrency /\ slot[c] = "dropped"
        /\ toSequence \in Seq(SequencerCalls) /\ accepted \in Seq(SequencerCalls)
    BY DEF SequencerInv, Sequencer!TypeOK, Sequencer!Release
  <1>2. s \in [SequencerCalls -> {"none", "held", "dropped", "released"}]
    BY <1>1
  <1>3. c \in Slots(slot) /\ c \notin Slots(s)
    BY <1>1 DEF Slots
  <1>4. Cardinality(Slots(slot)) = Cardinality(Slots(s)) + 1
    BY <1>1, <1>3, SlotTaken
  <1>5. nRunning - 1 = Cardinality(Slots(s)) /\ nRunning - 1 \in 0..MaxConcurrency
    BY <1>0, <1>1, <1>4, SlotsAreFinite DEF SequencerInv
  <1>6. OnlyStartedHold(s, started)
    BY <1>1 DEF OnlyStartedHold, SequencerInv
  <1>7. CASE destroy # "no"
    <2>1. /\ nRunning' = nRunning - 1 /\ slot' = s /\ destroy' \in {destroy, "done"} /\ destroy' # "no"
          /\ UNCHANGED <<runs, accepted, toSequence, answer, started>>
      BY <1>7 DEF Sequencer!Release
    <2>2. Sequencer!TypeOK'
      BY <1>2, <1>5, <2>1 DEF SequencerInv, Sequencer!TypeOK
    <2>3. QED
      BY <1>5, <1>6, <2>1, <2>2 DEF SequencerInv
  <1>8. CASE destroy = "no"
    <2>1. /\ Sequencer!ProcessSequence(toSequence, nRunning - 1) /\ slot' = Sequencer!Starts(s)
          /\ accepted' = accepted /\ destroy' = destroy /\ runs' = runs
      BY <1>8 DEF Sequencer!Release
    <2>2. runs' \subseteq SequencerCalls
      BY <2>1 DEF SequencerInv, Sequencer!TypeOK
    <2>3. toSequence # <<>> => nRunning - 1 = MaxConcurrency - 1
      BY <1>8 DEF SequencerInv
    <2>4. /\ StartedFirst(started, accepted) /\ OthersWait(started, toSequence, accepted)
          /\ QueuedOnce(accepted)
      BY <1>8 DEF SequencerInv
    <2> HIDE DEF s
    <2>5. QED
      BY <1>1, <1>2, <1>5, <1>6, <1>8, <2>1, <2>2, <2>3, <2>4, ProcessSequenceStep
  <1>9. QED
    BY <1>7, <1>8

LEMMA SequencerStep ==
    ASSUME SequencerInv, Sequencer!Next
    PROVE  SequencerInv'
  <1>1. ASSUME NEW c \in SequencerCalls, Sequencer!Return(c)
        PROVE  SequencerInv'
    <2>1. Sequencer!TypeOK'
      BY <1>1 DEF SequencerInv, Sequencer!TypeOK, Sequencer!Return
    <2>2. QED
      BY <1>1, <2>1, SequencerKeeps DEF Sequencer!Return
  <1>2. ASSUME NEW c \in SequencerCalls, Sequencer!Drop(c)
        PROVE  SequencerInv'
    <2>1. slot \in [SequencerCalls -> {"none", "held", "dropped", "released"}]
      BY DEF SequencerInv, Sequencer!TypeOK
    <2>2. slot[c] = "held" /\ slot' = [slot EXCEPT ![c] = "dropped"]
          /\ UNCHANGED <<toSequence, nRunning, answer, runs, destroy, accepted, started>>
      BY <1>2 DEF Sequencer!Drop
    <2>3. Slots(slot') = Slots(slot) /\ OnlyStartedHold(slot', started)
      BY <2>1, <2>2 DEF Slots, OnlyStartedHold, SequencerInv
    <2>4. Sequencer!TypeOK'
      BY <2>1, <2>2 DEF SequencerInv, Sequencer!TypeOK
    <2>5. QED
      BY <2>2, <2>3, <2>4 DEF SequencerInv
  <1>3. CASE Sequencer!BeginDestroy
    <2>1. Sequencer!TypeOK'
      BY <1>3 DEF SequencerInv, Sequencer!TypeOK, Sequencer!BeginDestroy
    <2>2. QED
      BY <1>3, <2>1, SequencerKeeps DEF Sequencer!BeginDestroy
  <1>4. CASE Sequencer!Destroy
    <2>1. answer' \in [SequencerCalls -> {"none", "granted", "result", "skipped", "aborted"}]
      BY <1>4 DEF SequencerInv, Sequencer!TypeOK, Sequencer!Destroy
    <2>2. toSequence' \in Seq(SequencerCalls) /\ destroy' \in {"aborting", "done"}
          /\ UNCHANGED <<nRunning, slot, runs, accepted, started>>
      BY <1>4 DEF Sequencer!Destroy
    <2>3. Sequencer!TypeOK'
      BY <2>1, <2>2 DEF SequencerInv, Sequencer!TypeOK
    <2>4. QED
      BY <2>2, <2>3, SequencerKeeps
  <1>5. QED
    BY <1>1, <1>2, <1>3, <1>4, SequenceStep, ReleaseStep DEF Sequencer!Next

\* The sequencer's invariant holds.
THEOREM SequencerInvariance == Spec => []SequencerInv
  <1>1. Init => SequencerInv
    <2>1. SUFFICES ASSUME Init PROVE SequencerInv
      OBVIOUS
    <2>2. Sequencer!Init
      BY <2>1 DEF Init
    <2>3. Slots(slot) = {}
      BY <2>2 DEF Sequencer!Init, Slots
    <2>4. nRunning = Cardinality(Slots(slot))
      BY <2>2, <2>3, FS_EmptySet DEF Sequencer!Init
    <2>5. Sequencer!TypeOK
      BY <2>2, LocalPartsAssumption DEF LocalPartsAssumption, Sequencer!Init, Sequencer!TypeOK
    <2>6. /\ toSequence = <<>> /\ started = <<>> /\ accepted = <<>>
          /\ \A c \in SequencerCalls : slot[c] = "none"
      BY <2>2 DEF Sequencer!Init
    <2>7. StartedFirst(started, accepted) /\ OthersWait(started, toSequence, accepted)
          /\ QueuedOnce(accepted) /\ OnlyStartedHold(slot, started)
      BY <2>6 DEF StartedFirst, OthersWait, QueuedOnce, OnlyStartedHold
    <2>8. QED
      BY <2>4, <2>5, <2>6, <2>7 DEF SequencerInv
  <1>2. SequencerInv /\ [Next]_vars => SequencerInv'
    <2>1. ASSUME SequencerInv, UNCHANGED sequencerVars
          PROVE  SequencerInv'
      BY <2>1 DEF SequencerInv, Sequencer!TypeOK, sequencerVars
    <2>2. [Next]_vars => Sequencer!Next \/ UNCHANGED sequencerVars
      BY DEF Next, Only, vars
    <2>3. QED
      BY <2>1, <2>2, SequencerStep
  <1>3. QED
    BY <1>1, <1>2, PTL DEF Spec

\* Calls get the slots of a sequencer in the order in which they were queued, and none
\* waits while a slot is free (fp_ProcessSequence).
THEOREM CallsStartInOrder == Spec => []SlotsInOrder
  <1>1. SequencerInv => SlotsInOrder
    <2>1. SUFFICES ASSUME SequencerInv PROVE Sequencer!SlotsInOrder
      BY DEF SlotsInOrder
    <2>2. started \in Seq(SequencerCalls) /\ accepted \in Seq(SequencerCalls)
      BY <2>1 DEF SequencerInv, Sequencer!TypeOK
    <2>3. SubSeq(started, 1, Len(started)) = SubSeq(accepted, 1, Len(started))
      BY <2>1, <2>2 DEF SequencerInv, StartedFirst
    <2>4. Sequencer!IsPrefix(started, accepted)
      BY <2>1, <2>3 DEF Sequencer!IsPrefix, SequencerInv, StartedFirst
    <2>5. nRunning = Sequencer!Cardinality({c \in SequencerCalls : slot[c] \in {"held", "dropped"}})
      BY <2>1, SameCardinality DEF SequencerInv, Slots
    <2>6. QED
      BY <2>1, <2>4, <2>5 DEF SequencerInv, Sequencer!SlotsInOrder
  <1>2. QED
    BY <1>1, SequencerInvariance, PTL

----------------------------------------------------------------------------
(* Promises and futures.  The count is that of the owners that still have a  *)
(* reference, and while the data is there the flags tell who delivers.       *)

Referrers == {t \in Owners : owner[t] # "no"}
Ending == {"last", "notSet", "publishedNotSet"}
Setting == {"set", "notSet"}
Delivering == {"published", "publishedNotSet"}
Results == {"value", "error", "notSet"}
Keeping == {"moving", "has", "setsFunctor", "suspends", "deliver", "awaits"}

\* The references: f_MoveFuture takes over one, which is no longer counted.
Counted ==
    /\ promises + (IF future = "moving" THEN 1 ELSE 0) = Cardinality(Referrers)
    /\ future = "moving" => \E t \in Owners : owner[t] \in {"last", "notSet"}
    /\ \A t, u \in Owners : owner[t] \in Ending /\ u # t => owner[u] = "no"
    /\ future \in Keeping => held
    /\ ~alive => promises = 0 /\ ~held

\* The owner that sets the result is one, and publishes it once.
SetOnce ==
    alive =>
        /\ "data" \in flags => result # "none"
        /\ \A t \in Owners : owner[t] \in Setting => "data" \notin flags /\ result # "none"
        /\ \A t, u \in Owners : owner[t] = "set" /\ owner[u] = "set" => t = u
        /\ result # "none" => "data" \in flags \/ \E t \in Owners : owner[t] \in Setting
        /\ \A t \in Owners : owner[t] \in Delivering =>
              {"data", "functor"} \subseteq flags /\ future \in {"waits", "awaits"}
        /\ \A t, u \in Owners : owner[t] = "published" /\ owner[u] = "published" => t = u
        /\ future = "deliver" => "data" \in flags

\* The party with the future was given the result, or will be by the one who published last.
OneDelivers ==
    alive =>
        /\ "functor" \in flags => future \in {"deliver", "waits", "awaits", "done"}
        /\ future \in {"deliver", "waits", "awaits"} => "functor" \in flags
        /\ {"data", "functor"} \subseteq flags /\ future \in {"waits", "awaits"} =>
              \E t \in Owners : owner[t] \in Delivering
        /\ future # "done" => got = <<>>
        /\ got # <<>> => got = <<result>> /\ "data" \in flags /\ flags \cap {"functor", "discard"} # {}
        /\ future = "done" /\ "functor" \in flags => got # <<>>
        /\ ~reported

\* What is left of it when the data is deleted.
Over ==
    ~alive =>
        /\ got # <<>> => got = <<result>>
        /\ result = "error" => got # <<>> \/ "discard" \in flags \/ reported
        /\ reported => got = <<>>

PromiseTypes ==
    /\ flags \subseteq Promises!Flag /\ result \in {"none"} \cup Results
    /\ owner \in [Owners -> {"no", "has", "set", "published", "last", "notSet",
                             "publishedNotSet", "drop"}]
    /\ future \in {"none", "moving", "has", "setsFunctor", "suspends", "deliver",
                   "waits", "awaits", "done"}
    /\ promises \in Nat /\ got \in {<<>>} \cup {<<r>> : r \in Results}
    /\ held \in BOOLEAN /\ reported \in BOOLEAN /\ alive \in BOOLEAN

PromiseInv == PromiseTypes /\ Counted /\ SetOnce /\ OneDelivers /\ Over

LEMMA ReferrersAreFinite == IsFiniteSet(Referrers) /\ Cardinality(Referrers) \in Nat
  BY FS_Subset, FS_CardinalityType, LocalPartsAssumption DEF Referrers, LocalPartsAssumption

\* An owner comes or goes, or stays one.
LEMMA OwnerChanges ==
    ASSUME PromiseTypes, NEW t \in Owners, NEW o, owner' = [owner EXCEPT ![t] = o]
    PROVE  /\ owner[t] = "no" /\ o # "no" => Cardinality(Referrers') = Cardinality(Referrers) + 1
           /\ owner[t] # "no" /\ o = "no" => Cardinality(Referrers') = Cardinality(Referrers) - 1
           /\ owner[t] # "no" /\ o # "no" => Cardinality(Referrers') = Cardinality(Referrers)
  <1>1. owner'[t] = o /\ \A u \in Owners : u # t => owner'[u] = owner[u]
    BY DEF PromiseTypes
  <1>2. owner[t] = "no" /\ o # "no" => Cardinality(Referrers') = Cardinality(Referrers) + 1
    <2>1. HAVE owner[t] = "no" /\ o # "no"
    <2>2. t \notin Referrers /\ Referrers' = Referrers \cup {t}
      BY <1>1, <2>1 DEF Referrers
    <2>3. QED
      BY <2>2, ReferrersAreFinite, FS_AddElement
  <1>3. owner[t] # "no" /\ o = "no" => Cardinality(Referrers') = Cardinality(Referrers) - 1
    <2>1. HAVE owner[t] # "no" /\ o = "no"
    <2>2. t \in Referrers /\ Referrers' = Referrers \ {t}
      BY <1>1, <2>1 DEF Referrers
    <2>3. QED
      BY <2>2, ReferrersAreFinite, FS_RemoveElement
  <1>4. owner[t] # "no" /\ o # "no" => Cardinality(Referrers') = Cardinality(Referrers)
    <2>1. HAVE owner[t] # "no" /\ o # "no"
    <2>2. Referrers' = Referrers
      BY <1>1, <2>1 DEF Referrers
    <2>3. QED
      BY <2>2
  <1>5. QED
    BY <1>2, <1>3, <1>4

\* An owner is counted; if nobody else is, it is the only one.
LEMMA OnlyOwner ==
    ASSUME NEW t \in Owners, owner[t] # "no"
    PROVE  /\ Cardinality(Referrers) >= 1
           /\ Cardinality(Referrers) = 1 => \A u \in Owners : u # t => owner[u] = "no"
  <1>1. t \in Referrers
    BY DEF Referrers
  <1>2. Cardinality(Referrers) # 0
    BY <1>1, ReferrersAreFinite, FS_EmptySet
  <1>3. Cardinality(Referrers) = 1 => Referrers = {t}
    BY <1>1, ReferrersAreFinite, FS_Singleton
  <1>4. QED
    BY <1>2, <1>3, ReferrersAreFinite DEF Referrers

\* Who has a reference keeps the data.
LEMMA KeepsData ==
    ASSUME PromiseInv
    PROVE  /\ \A t \in Owners : owner[t] # "no" => alive
           /\ held \/ future \in Keeping => alive
           /\ alive \in BOOLEAN
  <1>1. ASSUME NEW t \in Owners, owner[t] # "no", ~alive
        PROVE  FALSE
    <2>1. promises = 0 /\ ~held /\ future # "moving"
      BY <1>1 DEF PromiseInv, Counted, Keeping
    <2>2. Cardinality(Referrers) = 0
      BY <2>1 DEF PromiseInv, Counted
    <2>3. Referrers = {}
      BY <2>2, ReferrersAreFinite, FS_EmptySet
    <2>4. QED
      BY <1>1, <2>3 DEF Referrers
  <1>2. QED
    BY <1>1 DEF PromiseInv, Counted, PromiseTypes

\* The first result that is delivered is all that is.
LEMMA FirstDelivered ==
    ASSUME got = <<>>, NEW r, Promises!Deliver(r)
    PROVE  got' = <<r>>
  <1>1. Len(<<>>) = 0 /\ Append(<<>>, r) = <<r>>
    OBVIOUS
  <1>2. QED
    BY <1>1 DEF Promises!Deliver

LEMMA CopyStep ==
    ASSUME PromiseInv, NEW t \in Owners, NEW u \in Owners, Promises!Copy(t, u)
    PROVE  PromiseInv'
  <1>1. PromiseTypes'
    BY ReferrersAreFinite, OwnerChanges DEF PromiseInv, Counted, PromiseTypes, Results, Promises!Flag, Promises!Copy
  <1>2. Counted'
    <2>1. Cardinality(Referrers') = Cardinality(Referrers) + 1
      BY OwnerChanges DEF PromiseInv, Promises!Copy
    <2>2. promises' + (IF future' = "moving" THEN 1 ELSE 0) = Cardinality(Referrers')
      BY <2>1, ReferrersAreFinite DEF PromiseInv, PromiseTypes, Counted, Promises!Copy
    <2>3. alive
      BY KeepsData DEF Promises!Copy
    <2>4. QED
      BY <2>2, <2>3 DEF PromiseInv, PromiseTypes, Counted, Ending, Keeping, Promises!Copy
  <1>3. SetOnce'
    BY DEF PromiseInv, PromiseTypes, Counted, SetOnce, OneDelivers, Setting, Delivering, Ending, Keeping, Results, Promises!Copy
  <1>4. OneDelivers'
    BY DEF PromiseInv, PromiseTypes, Counted, SetOnce, OneDelivers, Setting, Delivering, Ending, Keeping, Results, Promises!Copy
  <1>5. Over'
    BY DEF PromiseInv, PromiseTypes, Counted, SetOnce, OneDelivers, Over, Setting, Delivering, Ending, Keeping, Results, Promises!Copy
  <1>6. QED
    BY <1>1, <1>2, <1>3, <1>4, <1>5 DEF PromiseInv

LEMMA SetResultStep ==
    ASSUME PromiseInv, NEW t \in Owners, Promises!SetResult(t)
    PROVE  PromiseInv'
  <1>1. PromiseTypes'
    BY ReferrersAreFinite, OwnerChanges DEF PromiseInv, Counted, PromiseTypes, Results, Promises!Flag, Promises!SetResult
  <1>2. Counted'
    BY ReferrersAreFinite, OwnerChanges DEF PromiseInv, PromiseTypes, Counted, Referrers, Ending, Keeping, Promises!SetResult
  <1>3. SetOnce'
    BY DEF PromiseInv, PromiseTypes, Counted, SetOnce, OneDelivers, Setting, Delivering, Ending, Keeping, Results, Promises!SetResult
  <1>4. OneDelivers'
    BY DEF PromiseInv, PromiseTypes, Counted, SetOnce, OneDelivers, Setting, Delivering, Ending, Keeping, Results, Promises!SetResult
  <1>5. Over'
    BY KeepsData DEF PromiseInv, PromiseTypes, Counted, SetOnce, OneDelivers, Over, Setting, Delivering, Ending, Keeping, Results, Promises!SetResult
  <1>6. QED
    BY <1>1, <1>2, <1>3, <1>4, <1>5 DEF PromiseInv

LEMMA OnResultStep ==
    ASSUME PromiseInv, NEW t \in Owners, Promises!OnResult(t)
    PROVE  PromiseInv'
  <1>1. PromiseTypes'
    BY ReferrersAreFinite, OwnerChanges DEF PromiseInv, Counted, PromiseTypes, Results, Promises!Flag, Promises!OnResult
  <1>2. Counted'
    BY ReferrersAreFinite, OwnerChanges DEF PromiseInv, PromiseTypes, Counted, Referrers, Ending, Keeping, Promises!OnResult
  <1>3. SetOnce'
    BY DEF PromiseInv, PromiseTypes, Counted, SetOnce, OneDelivers, Setting, Delivering, Ending, Keeping, Results, Promises!OnResult
  <1>4. OneDelivers'
    BY DEF PromiseInv, PromiseTypes, Counted, SetOnce, OneDelivers, Setting, Delivering, Ending, Keeping, Results, Promises!OnResult
  <1>5. Over'
    BY DEF PromiseInv, PromiseTypes, Counted, SetOnce, OneDelivers, Over, Setting, Delivering, Ending, Keeping, Results, Promises!OnResult
  <1>6. QED
    BY <1>1, <1>2, <1>3, <1>4, <1>5 DEF PromiseInv

LEMMA CallFunctorStep ==
    ASSUME PromiseInv, NEW t \in Owners, Promises!CallFunctor(t)
    PROVE  PromiseInv'
  <1>0. got = <<>> /\ got' = <<result>> /\ result \in Results /\ alive
        /\ {"data", "functor"} \subseteq flags /\ future \in {"waits", "awaits"}
        /\ \A u \in Owners : u # t => owner[u] \notin Delivering
    <2>1. alive /\ owner[t] \in Delivering
      BY KeepsData DEF Promises!CallFunctor, Delivering
    <2>2. got = <<>> /\ result \in Results /\ {"data", "functor"} \subseteq flags
          /\ future \in {"waits", "awaits"}
      BY <2>1 DEF PromiseInv, PromiseTypes, SetOnce, OneDelivers
    <2>3. \A u \in Owners : u # t => owner[u] \notin Delivering
      BY <2>1 DEF PromiseInv, PromiseTypes, Counted, SetOnce, Delivering, Ending
    <2>4. QED
      BY <2>1, <2>2, <2>3, FirstDelivered DEF Promises!CallFunctor
  <1>1. PromiseTypes'
    BY <1>0 DEF PromiseInv, PromiseTypes, Promises!CallFunctor
  <1>2. Counted'
    BY ReferrersAreFinite, OwnerChanges DEF PromiseInv, PromiseTypes, Counted, Referrers, Ending, Keeping, Promises!CallFunctor, Promises!Deliver
  <1>3. SetOnce'
    BY DEF PromiseInv, PromiseTypes, Counted, SetOnce, OneDelivers, Setting, Delivering, Ending, Keeping, Results, Promises!CallFunctor, Promises!Deliver
  <1>4. OneDelivers'
    BY <1>0 DEF PromiseInv, PromiseTypes, Counted, OneDelivers, Over, Promises!CallFunctor
  <1>5. Over'
    BY <1>0 DEF PromiseInv, PromiseTypes, Counted, OneDelivers, Over, Promises!CallFunctor
  <1>6. QED
    BY <1>1, <1>2, <1>3, <1>4, <1>5 DEF PromiseInv

LEMMA ClearStep ==
    ASSUME PromiseInv, NEW t \in Owners, Promises!Clear(t)
    PROVE  PromiseInv'
  <1>1. PromiseTypes'
    BY ReferrersAreFinite, OwnerChanges DEF PromiseInv, Counted, PromiseTypes, Results, Promises!Flag, Promises!Clear
  <1>2. Counted'
    <2>1. promises = 1 => \A u \in Owners : u # t => owner[u] = "no"
      <3>1. future # "moving"
        BY DEF PromiseInv, PromiseTypes, Counted, Ending, Promises!Clear
      <3>2. QED
        BY <3>1, OnlyOwner, ReferrersAreFinite DEF PromiseInv, PromiseTypes, Counted, Promises!Clear
    <2>2. Cardinality(Referrers') = Cardinality(Referrers)
      <3>1. PICK o \in {"last", "drop"} : owner' = [owner EXCEPT ![t] = o]
        BY DEF Promises!Clear
      <3>2. QED
        BY <3>1, OwnerChanges DEF PromiseInv, Promises!Clear
    <2>3. future # "moving"
      BY DEF PromiseInv, PromiseTypes, Counted, Ending, Promises!Clear
    <2>4. QED
      BY <2>1, <2>2, <2>3 DEF PromiseInv, PromiseTypes, Counted, Ending, Keeping, Promises!Clear
  <1>3. SetOnce'
    BY DEF PromiseInv, PromiseTypes, Counted, SetOnce, OneDelivers, Setting, Delivering, Ending, Keeping, Results, Promises!Clear
  <1>4. OneDelivers'
    BY DEF PromiseInv, PromiseTypes, Counted, SetOnce, OneDelivers, Setting, Delivering, Ending, Keeping, Results, Promises!Clear
  <1>5. Over'
    BY DEF PromiseInv, PromiseTypes, Counted, SetOnce, OneDelivers, Over, Setting, Delivering, Ending, Keeping, Results, Promises!Clear
  <1>6. QED
    BY <1>1, <1>2, <1>3, <1>4, <1>5 DEF PromiseInv

LEMMA ReportNothingSetStep ==
    ASSUME PromiseInv, NEW t \in Owners, Promises!ReportNothingSet(t)
    PROVE  PromiseInv'
  <1>1. PromiseTypes'
    BY ReferrersAreFinite, OwnerChanges DEF PromiseInv, Counted, PromiseTypes, Results, Promises!Flag, Promises!ReportNothingSet, Promises!Reported
  <1>2. Counted'
    BY ReferrersAreFinite, OwnerChanges DEF PromiseInv, PromiseTypes, Counted, Referrers, Ending, Keeping, Promises!ReportNothingSet, Promises!Reported
  <1>3. SetOnce'
    BY DEF PromiseInv, PromiseTypes, Counted, SetOnce, OneDelivers, Setting, Delivering, Ending, Keeping, Results, Promises!ReportNothingSet, Promises!Reported
  <1>4. OneDelivers'
    BY DEF PromiseInv, PromiseTypes, Counted, SetOnce, OneDelivers, Setting, Delivering, Ending, Keeping, Results, Promises!ReportNothingSet, Promises!Reported
  <1>5. Over'
    BY KeepsData DEF PromiseInv, PromiseTypes, Counted, SetOnce, OneDelivers, Over, Setting, Delivering, Ending, Keeping, Results, Promises!ReportNothingSet, Promises!Reported
  <1>6. QED
    BY <1>1, <1>2, <1>3, <1>4, <1>5 DEF PromiseInv

LEMMA ReportNothingSetPublishStep ==
    ASSUME PromiseInv, NEW t \in Owners, Promises!ReportNothingSetPublish(t)
    PROVE  PromiseInv'
  <1>0. alive /\ owner[t] = "notSet" /\ result # "none" /\ "data" \notin flags
        /\ \A u \in Owners : u # t => owner[u] = "no"
    BY KeepsData DEF PromiseInv, PromiseTypes, Counted, SetOnce, Ending, Setting, Promises!ReportNothingSetPublish
  <1>1. PromiseTypes'
    BY ReferrersAreFinite, OwnerChanges DEF PromiseInv, Counted, PromiseTypes, Results, Promises!Flag, Promises!ReportNothingSetPublish, Promises!Reported
  <1>2. Counted'
    <2>1. PICK o \in {"no", "drop", "publishedNotSet"} :
             /\ owner' = [owner EXCEPT ![t] = o]
             /\ IF future = "moving" THEN o = "no" /\ future' = "has"
                ELSE o # "no" /\ future' = future
      BY <1>0 DEF PromiseInv, PromiseTypes, OneDelivers, Promises!ReportNothingSetPublish, Promises!Reported
    <2>2. Cardinality(Referrers') = Cardinality(Referrers) - (IF o = "no" THEN 1 ELSE 0)
      <3>1. CASE o = "no"
        BY <1>0, <2>1, <3>1, OwnerChanges, ReferrersAreFinite DEF PromiseInv
      <3>2. CASE o # "no"
        <4>1. Cardinality(Referrers') = Cardinality(Referrers)
          BY <1>0, <2>1, <3>2, OwnerChanges DEF PromiseInv
        <4>2. QED
          BY <3>2, <4>1, ReferrersAreFinite
      <3>3. QED
        BY <3>1, <3>2
    <2>3. promises' + (IF future' = "moving" THEN 1 ELSE 0) = Cardinality(Referrers')
      BY <2>1, <2>2, ReferrersAreFinite
         DEF PromiseInv, PromiseTypes, Counted, Promises!ReportNothingSetPublish
    <2>4. future' \in Keeping => held
      BY <2>1 DEF PromiseInv, Counted, Keeping
    <2>5. QED
      BY <1>0, <2>1, <2>3, <2>4 DEF PromiseInv, PromiseTypes, Counted, Ending, Promises!ReportNothingSetPublish
  <1>3. SetOnce'
    BY DEF PromiseInv, PromiseTypes, Counted, SetOnce, OneDelivers, Setting, Delivering, Ending, Keeping, Results, Promises!ReportNothingSetPublish, Promises!Reported
  <1>4. OneDelivers'
    BY DEF PromiseInv, PromiseTypes, Counted, SetOnce, OneDelivers, Setting, Delivering, Ending, Keeping, Results, Promises!ReportNothingSetPublish, Promises!Reported
  <1>5. Over'
    BY DEF PromiseInv, PromiseTypes, Counted, SetOnce, OneDelivers, Over, Setting, Delivering, Ending, Keeping, Results, Promises!ReportNothingSetPublish, Promises!Reported
  <1>6. QED
    BY <1>1, <1>2, <1>3, <1>4, <1>5 DEF PromiseInv

\* The data is deleted: what nobody saw is reported, and who still waits is answered.
LEMMA DeletedStep ==
    ASSUME PromiseInv, alive, Promises!DeletedWhen(TRUE),
           future \in {"none", "has", "waits", "done"},
           future' \in {"none", "waits", "done"}, held' = FALSE, promises' = 0,
           owner' \in [Owners -> {"no"}],
           \A t \in Owners : owner[t] \notin Setting \cup Delivering
    PROVE  PromiseInv'
  <1>1. /\ alive' = FALSE /\ flags' = flags \cup {"data", "functor"}
        /\ IF flags \cap {"data", "functor"} = {"functor"}
           THEN result' = "notSet" /\ Promises!Deliver("notSet") /\ UNCHANGED reported
           ELSE reported' = (flags = {"data"} /\ Promises!Failed(result)) /\ UNCHANGED <<result, got>>
    BY DEF Promises!DeletedWhen
  <1>2. got # <<>> => "data" \in flags /\ flags \cap {"functor", "discard"} # {} /\ got = <<result>>
    BY DEF PromiseInv, OneDelivers
  <1>3. ~reported /\ flags \subseteq {"data", "functor", "discard"}
    BY DEF PromiseInv, OneDelivers, PromiseTypes, Promises!Flag
  <1>4. result # "none" => "data" \in flags
    BY DEF PromiseInv, SetOnce
  <1>5. {"data", "functor"} \subseteq flags => got # <<>>
    BY DEF PromiseInv, OneDelivers
  <1>6. Referrers' = {}
    BY DEF Referrers
  <1>7. Counted'
    BY <1>1, <1>6, FS_EmptySet DEF Counted, Ending, Keeping
  <1>8. CASE flags \cap {"data", "functor"} = {"functor"}
    <2>1. got' = <<"notSet">> /\ result' = "notSet" /\ ~reported'
      BY <1>1, <1>2, <1>3, <1>8, FirstDelivered
    <2>2. PromiseTypes'
      BY <1>1, <1>3, <2>1 DEF PromiseInv, PromiseTypes, Promises!Flag, Results
    <2>3. QED
      BY <1>1, <1>7, <2>1, <2>2 DEF PromiseInv, SetOnce, OneDelivers, Over
  <1>9. CASE flags \cap {"data", "functor"} # {"functor"}
    <2>1. reported' = (flags = {"data"} /\ Promises!Failed(result)) /\ result' = result /\ got' = got
      BY <1>1, <1>9
    <2>2. PromiseTypes'
      BY <1>1, <1>3, <2>1 DEF PromiseInv, PromiseTypes, Promises!Flag, Results
    <2>3. Over'
      BY <1>1, <1>2, <1>3, <1>4, <1>5, <1>9, <2>1 DEF Over, Promises!Failed
    <2>4. QED
      BY <1>1, <1>7, <2>2, <2>3 DEF PromiseInv, SetOnce, OneDelivers
  <1>10. QED
    BY <1>8, <1>9

LEMMA PromiseDecreaseStep ==
    ASSUME PromiseInv, NEW t \in Owners, Promises!PromiseDecrease(t)
    PROVE  PromiseInv'
  <1>0. /\ promises >= 1 /\ promises' = promises - 1 /\ alive /\ future # "moving"
        /\ promises = 1 => \A u \in Owners : owner'[u] = "no"
        /\ owner[t] = "drop" /\ owner' = [owner EXCEPT ![t] = "no"]
        /\ Cardinality(Referrers') = Cardinality(Referrers) - 1
    <2>1. owner[t] = "drop" /\ owner' = [owner EXCEPT ![t] = "no"] /\ promises' = promises - 1
      BY DEF Promises!PromiseDecrease
    <2>2. future # "moving"
      BY <2>1 DEF PromiseInv, PromiseTypes, Counted, Ending
    <2>3. promises = Cardinality(Referrers)
      BY <2>2 DEF PromiseInv, PromiseTypes, Counted
    <2>4. QED
      BY <2>1, <2>2, <2>3, KeepsData, OnlyOwner, OwnerChanges, ReferrersAreFinite DEF PromiseInv, PromiseTypes
  <1>a. CASE ~(promises = 1 /\ ~held)
    <2>1. UNCHANGED <<flags, result, got, reported, alive, future, held>>
      BY <1>a DEF Promises!PromiseDecrease, Promises!DeletedWhen
    <2>2. PromiseTypes'
      BY <1>0, <2>1 DEF PromiseInv, PromiseTypes
    <2>3. Counted'
      BY <1>0, <2>1, ReferrersAreFinite DEF PromiseInv, PromiseTypes, Counted, Ending
    <2>4. SetOnce'
      BY <1>0, <2>1 DEF PromiseInv, PromiseTypes, SetOnce, Setting, Delivering
    <2>5. OneDelivers'
      BY <1>0, <2>1 DEF PromiseInv, PromiseTypes, OneDelivers, Delivering
    <2>6. QED
      BY <1>0, <2>1, <2>2, <2>3, <2>4, <2>5 DEF PromiseInv, Over
  <1>b. CASE promises = 1 /\ ~held
    <2>1. /\ promises' = 0 /\ held' = FALSE /\ future' = future
          /\ \A u \in Owners : owner'[u] = "no"
      BY <1>0, <1>b DEF PromiseInv, PromiseTypes, Promises!PromiseDecrease
    <2>a. Promises!DeletedWhen(TRUE)
      BY <1>b DEF Promises!PromiseDecrease, Promises!DeletedWhen
    <2>b. future \in {"none", "waits", "done"}
      BY <1>0, <1>b DEF PromiseInv, PromiseTypes, Counted, Keeping
    <2>2. \A u \in Owners : owner[u] \notin Setting \cup Delivering
      BY <1>0, <2>1 DEF PromiseInv, PromiseTypes, Setting, Delivering
    <2>3. owner' \in [Owners -> {"no"}]
      BY <1>0, <2>1 DEF PromiseInv, PromiseTypes
    <2>4. QED
      BY <1>0, <2>1, <2>a, <2>b, <2>2, <2>3, DeletedStep
  <1>c. QED
    BY <1>a, <1>b

LEMMA GetFutureStep ==
    ASSUME PromiseInv, NEW t \in Owners, Promises!GetFuture(t)
    PROVE  PromiseInv'
  <1>1. PromiseTypes'
    BY ReferrersAreFinite, OwnerChanges DEF PromiseInv, Counted, PromiseTypes, Results, Promises!Flag, Promises!GetFuture
  <1>2. Counted'
    BY KeepsData DEF PromiseInv, PromiseTypes, Counted, Referrers, Ending, Keeping, Promises!GetFuture
  <1>3. SetOnce'
    BY DEF PromiseInv, PromiseTypes, Counted, SetOnce, OneDelivers, Setting, Delivering, Ending, Keeping, Results, Promises!GetFuture
  <1>4. OneDelivers'
    BY DEF PromiseInv, PromiseTypes, Counted, SetOnce, OneDelivers, Setting, Delivering, Ending, Keeping, Results, Promises!GetFuture
  <1>5. Over'
    BY DEF PromiseInv, PromiseTypes, Counted, SetOnce, OneDelivers, Over, Setting, Delivering, Ending, Keeping, Results, Promises!GetFuture
  <1>6. QED
    BY <1>1, <1>2, <1>3, <1>4, <1>5 DEF PromiseInv

LEMMA MoveFutureStep ==
    ASSUME PromiseInv, NEW t \in Owners, Promises!MoveFuture(t)
    PROVE  PromiseInv'
  <1>0. /\ promises >= 1 /\ alive /\ owner[t] = "has" /\ future = "none"
        /\ promises = 1 => \A u \in Owners : u # t => owner[u] = "no"
        /\ Cardinality(Referrers') = IF promises = 1 THEN 1 ELSE Cardinality(Referrers) - 1
    <2>1. promises = Cardinality(Referrers) /\ promises \in Nat
      BY DEF PromiseInv, PromiseTypes, Counted, Promises!MoveFuture
    <2>2. QED
      <3>1. PICK o \in {"last", "no"} : /\ owner' = [owner EXCEPT ![t] = o]
                                       /\ (o = "last") = (promises = 1)
        BY DEF Promises!MoveFuture
      <3>2. owner[t] = "has" /\ future = "none"
        BY DEF Promises!MoveFuture
      <3>3. QED
        BY <2>1, <3>1, <3>2, OwnerChanges, OnlyOwner, KeepsData, ReferrersAreFinite DEF PromiseInv
  <1>1. PromiseTypes'
    BY <1>0 DEF PromiseInv, PromiseTypes, Promises!MoveFuture
  <1>2. Counted'
    BY <1>0, ReferrersAreFinite DEF PromiseInv, PromiseTypes, Counted, Ending, Keeping, Promises!MoveFuture
  <1>3. SetOnce'
    BY DEF PromiseInv, PromiseTypes, Counted, SetOnce, OneDelivers, Setting, Delivering, Ending, Keeping, Results, Promises!MoveFuture
  <1>4. OneDelivers'
    BY DEF PromiseInv, PromiseTypes, Counted, SetOnce, OneDelivers, Setting, Delivering, Ending, Keeping, Results, Promises!MoveFuture
  <1>5. Over'
    BY DEF PromiseInv, PromiseTypes, Counted, SetOnce, OneDelivers, Over, Setting, Delivering, Ending, Keeping, Results, Promises!MoveFuture
  <1>6. QED
    BY <1>1, <1>2, <1>3, <1>4, <1>5 DEF PromiseInv

LEMMA ObserveIfAvailableStep ==
    ASSUME PromiseInv, Promises!ObserveIfAvailable
    PROVE  PromiseInv'
  <1>0. alive /\ got = <<>> /\ got' = <<result>> /\ result \in Results
    <2>1. alive
      BY KeepsData DEF Promises!ObserveIfAvailable, Keeping
    <2>2. got = <<>> /\ result \in Results
      BY <2>1 DEF PromiseInv, PromiseTypes, SetOnce, OneDelivers, Promises!ObserveIfAvailable
    <2>3. QED
      BY <2>1, <2>2, FirstDelivered DEF Promises!ObserveIfAvailable
  <1>1. PromiseTypes'
    BY <1>0 DEF PromiseInv, PromiseTypes, Promises!Flag, Promises!ObserveIfAvailable
  <1>2. Counted'
    BY ReferrersAreFinite, OwnerChanges DEF PromiseInv, PromiseTypes, Counted, Referrers, Ending, Keeping, Promises!ObserveIfAvailable, Promises!Deliver
  <1>3. SetOnce'
    BY DEF PromiseInv, PromiseTypes, Counted, SetOnce, OneDelivers, Setting, Delivering, Ending, Keeping, Results, Promises!ObserveIfAvailable, Promises!Deliver
  <1>4. OneDelivers'
    BY <1>0 DEF PromiseInv, PromiseTypes, OneDelivers, Over, Promises!ObserveIfAvailable
  <1>5. Over'
    BY <1>0 DEF PromiseInv, PromiseTypes, OneDelivers, Over, Promises!ObserveIfAvailable
  <1>6. QED
    BY <1>1, <1>2, <1>3, <1>4, <1>5 DEF PromiseInv

LEMMA OnResultSetStep ==
    ASSUME PromiseInv, Promises!OnResultSet
    PROVE  PromiseInv'
  <1>1. PromiseTypes'
    BY ReferrersAreFinite, OwnerChanges DEF PromiseInv, Counted, PromiseTypes, Results, Promises!Flag, Promises!OnResultSet
  <1>2. Counted'
    BY ReferrersAreFinite, OwnerChanges DEF PromiseInv, PromiseTypes, Counted, Referrers, Ending, Keeping, Promises!OnResultSet
  <1>3. SetOnce'
    BY DEF PromiseInv, PromiseTypes, Counted, SetOnce, OneDelivers, Setting, Delivering, Ending, Keeping, Results, Promises!OnResultSet
  <1>4. OneDelivers'
    BY DEF PromiseInv, PromiseTypes, Counted, SetOnce, OneDelivers, Setting, Delivering, Ending, Keeping, Results, Promises!OnResultSet
  <1>5. Over'
    BY DEF PromiseInv, PromiseTypes, Counted, SetOnce, OneDelivers, Over, Setting, Delivering, Ending, Keeping, Results, Promises!OnResultSet
  <1>6. QED
    BY <1>1, <1>2, <1>3, <1>4, <1>5 DEF PromiseInv

LEMMA OnResultSetPublishStep ==
    ASSUME PromiseInv, Promises!OnResultSetPublish
    PROVE  PromiseInv'
  <1>0. alive /\ future \in {"setsFunctor", "suspends"} /\ got = <<>> /\ ~reported
        /\ \A t \in Owners : owner[t] \notin Delivering
    BY KeepsData DEF Promises!OnResultSetPublish, Keeping, PromiseInv, SetOnce, OneDelivers
  <1>1. PromiseTypes'
    BY ReferrersAreFinite, OwnerChanges DEF PromiseInv, Counted, PromiseTypes, Results, Promises!Flag, Promises!OnResultSetPublish
  <1>2. Counted'
    BY ReferrersAreFinite, OwnerChanges DEF PromiseInv, PromiseTypes, Counted, Referrers, Ending, Keeping, Promises!OnResultSetPublish
  <1>3. SetOnce'
    BY DEF PromiseInv, PromiseTypes, Counted, SetOnce, OneDelivers, Setting, Delivering, Ending, Keeping, Results, Promises!OnResultSetPublish
  <1>4. OneDelivers'
    <2>1. flags' = flags \cup {"functor"} /\ future' \in {"deliver", "awaits", "waits"}
          /\ ("data" \in flags => future' = "deliver") /\ got' = got /\ reported' = reported
      BY DEF Promises!OnResultSetPublish
    <2>2. QED
      BY <1>0, <2>1 DEF OneDelivers
  <1>5. Over'
    BY DEF PromiseInv, PromiseTypes, Counted, SetOnce, OneDelivers, Over, Setting, Delivering, Ending, Keeping, Results, Promises!OnResultSetPublish
  <1>6. QED
    BY <1>1, <1>2, <1>3, <1>4, <1>5 DEF PromiseInv

LEMMA TakeResultStep ==
    ASSUME PromiseInv, Promises!TakeResult
    PROVE  PromiseInv'
  <1>0. alive /\ got = <<>> /\ got' = <<result>> /\ result \in Results
        /\ {"data", "functor"} \subseteq flags
    <2>1. alive
      BY KeepsData DEF Promises!TakeResult, Keeping
    <2>2. got = <<>> /\ result \in Results /\ {"data", "functor"} \subseteq flags
      BY <2>1 DEF PromiseInv, PromiseTypes, SetOnce, OneDelivers, Promises!TakeResult
    <2>3. QED
      BY <2>1, <2>2, FirstDelivered DEF Promises!TakeResult
  <1>1. PromiseTypes'
    BY <1>0 DEF PromiseInv, PromiseTypes, Promises!TakeResult
  <1>2. Counted'
    BY ReferrersAreFinite, OwnerChanges DEF PromiseInv, PromiseTypes, Counted, Referrers, Ending, Keeping, Promises!TakeResult, Promises!Deliver
  <1>3. SetOnce'
    BY DEF PromiseInv, PromiseTypes, Counted, SetOnce, OneDelivers, Setting, Delivering, Ending, Keeping, Results, Promises!TakeResult, Promises!Deliver
  <1>4. OneDelivers'
    BY <1>0 DEF PromiseInv, PromiseTypes, OneDelivers, Over, Promises!TakeResult
  <1>5. Over'
    BY <1>0 DEF PromiseInv, PromiseTypes, OneDelivers, Over, Promises!TakeResult
  <1>6. QED
    BY <1>1, <1>2, <1>3, <1>4, <1>5 DEF PromiseInv

LEMMA DiscardResultStep ==
    ASSUME PromiseInv, Promises!DiscardResult
    PROVE  PromiseInv'
  <1>1. PromiseTypes'
    BY ReferrersAreFinite, OwnerChanges DEF PromiseInv, Counted, PromiseTypes, Results, Promises!Flag, Promises!DiscardResult
  <1>2. Counted'
    BY ReferrersAreFinite, OwnerChanges DEF PromiseInv, PromiseTypes, Counted, Referrers, Ending, Keeping, Promises!DiscardResult
  <1>3. SetOnce'
    BY DEF PromiseInv, PromiseTypes, Counted, SetOnce, OneDelivers, Setting, Delivering, Ending, Keeping, Results, Promises!DiscardResult
  <1>4. OneDelivers'
    BY DEF PromiseInv, PromiseTypes, Counted, SetOnce, OneDelivers, Setting, Delivering, Ending, Keeping, Results, Promises!DiscardResult
  <1>5. Over'
    BY DEF PromiseInv, PromiseTypes, Counted, SetOnce, OneDelivers, Over, Setting, Delivering, Ending, Keeping, Results, Promises!DiscardResult
  <1>6. QED
    BY <1>1, <1>2, <1>3, <1>4, <1>5 DEF PromiseInv

LEMMA DropFutureStep ==
    ASSUME PromiseInv, Promises!DropFuture
    PROVE  PromiseInv'
  <1>0. /\ held /\ held' = FALSE /\ alive /\ future \in {"has", "waits", "done"}
        /\ future' = IF future = "has" THEN "done" ELSE future
        /\ UNCHANGED <<owner, promises>> /\ Promises!DeletedWhen(promises = 0)
    BY KeepsData DEF Promises!DropFuture, PromiseInv, PromiseTypes
  <1>1. CASE promises # 0
    <2>1. UNCHANGED <<flags, result, got, reported, alive>>
      BY <1>0, <1>1 DEF Promises!DeletedWhen
    <2>2. PromiseTypes'
      BY <1>0, <2>1 DEF PromiseInv, PromiseTypes
    <2>3. Counted'
      BY <1>0, <2>1 DEF PromiseInv, Counted, Keeping, Referrers
    <2>4. SetOnce'
      BY <1>0, <2>1 DEF PromiseInv, SetOnce
    <2>5. OneDelivers'
      BY <1>0, <2>1 DEF PromiseInv, OneDelivers
    <2>6. QED
      BY <1>0, <2>1, <2>2, <2>3, <2>4, <2>5 DEF PromiseInv, Over
  <1>2. CASE promises = 0
    <2>1. Cardinality(Referrers) = 0
      BY <1>0, <1>2 DEF PromiseInv, Counted
    <2>2. \A t \in Owners : owner[t] = "no"
      BY <2>1, ReferrersAreFinite, FS_EmptySet DEF Referrers
    <2>3. owner' \in [Owners -> {"no"}]
      BY <1>0, <2>2 DEF PromiseInv, PromiseTypes
    <2>4. Promises!DeletedWhen(TRUE)
      BY <1>0, <1>2 DEF Promises!DeletedWhen
    <2>5. promises' = 0 /\ future' \in {"none", "waits", "done"}
      BY <1>0, <1>2
    <2>6. QED
      BY <1>0, <2>2, <2>3, <2>4, <2>5, DeletedStep DEF Setting, Delivering
  <1>3. QED
    BY <1>1, <1>2

LEMMA PromiseStep ==
    ASSUME PromiseInv, Promises!Next
    PROVE  PromiseInv'
  <1>1. CASE Promises!FutureStep
    BY <1>1, ObserveIfAvailableStep, OnResultSetStep, OnResultSetPublishStep, TakeResultStep,
       DiscardResultStep, DropFutureStep DEF Promises!FutureStep
  <1>2. ASSUME NEW t \in Owners, Promises!OwnerStep(t)
        PROVE  PromiseInv'
    BY <1>2, CopyStep, SetResultStep, OnResultStep, CallFunctorStep, ClearStep, ReportNothingSetStep,
       ReportNothingSetPublishStep, PromiseDecreaseStep, GetFutureStep, MoveFutureStep
       DEF Promises!OwnerStep
  <1>3. QED
    BY <1>1, <1>2 DEF Promises!Next

\* The invariant of the promise's data holds, whatever the owners of it do meanwhile.
THEOREM PromiseInvariance == Spec => []PromiseInv
  <1>1. Init => PromiseInv
    <2>1. SUFFICES ASSUME Init PROVE PromiseInv
      OBVIOUS
    <2>2. Promises!Init
      BY <2>1 DEF Init
    <2>3. First \in Owners
      BY LocalPartsAssumption DEF LocalPartsAssumption
    <2>4. Referrers = {First}
      BY <2>2, <2>3 DEF Promises!Init, Referrers
    <2>5. Cardinality(Referrers) = 1
      BY <2>4, FS_Singleton
    <2>6. PromiseTypes
      BY <2>2 DEF Promises!Init, PromiseTypes
    <2>7. Counted /\ SetOnce /\ OneDelivers /\ Over
      BY <2>2, <2>5 DEF Promises!Init, Counted, Keeping, Ending, SetOnce, Setting, Delivering, OneDelivers, Over
    <2>8. QED
      BY <2>6, <2>7 DEF PromiseInv
  <1>2. PromiseInv /\ [Next]_vars => PromiseInv'
    <2>1. ASSUME PromiseInv, UNCHANGED promiseVars
          PROVE  PromiseInv'
      BY <2>1 DEF PromiseInv, PromiseTypes, Counted, Referrers, SetOnce, OneDelivers, Over, promiseVars
    <2>2. [Next]_vars => Promises!Next \/ UNCHANGED promiseVars
      BY DEF Next, Only, vars
    <2>3. QED
      BY <2>1, <2>2, PromiseStep
  <1>3. QED
    BY <1>1, <1>2, PTL DEF Spec

\* No exception vanishes with the data of a promise: it was delivered, discarded on
\* purpose or reported, and what was delivered is not reported (f_ReportNothingSetAtExit).
THEOREM ExceptionsAreSeen == Spec => []ErrorsAreSeen
  <1>1. PromiseInv => ErrorsAreSeen
    BY DEF PromiseInv, OneDelivers, Over, ErrorsAreSeen, Promises!ErrorsAreSeen
  <1>2. QED
    BY <1>1, PromiseInvariance, PTL

\* The party with the future is given one result at most, the one that was set, and a
\* functor that waits for a published result has one who will call it.
LEMMA OneResult == PromiseInv => Promises!DeliveredOnce
  <1>1. SUFFICES ASSUME PromiseInv PROVE Promises!DeliveredOnce
    OBVIOUS
  <1>2. got = <<>> \/ \E r \in Results : got = <<r>>
    BY <1>1 DEF PromiseInv, PromiseTypes
  <1>3. ASSUME NEW r, got = <<r>>
        PROVE  Len(got) <= 1
    BY <1>3
  <1>4. Len(got) <= 1
    BY <1>2, <1>3
  <1>5. QED
    BY <1>1, <1>4 DEF PromiseInv, PromiseTypes, OneDelivers, Over, Delivering, Promises!DeliveredOnce

----------------------------------------------------------------------------
(* The timer actor.  A callback is listed while its subscription is not left, *)
(* and a call of it is outstanding from f_CallTimer until its result; while a *)
(* callback is listed its timer is queued.                                   *)

Active == {"asks", "has", "leaves"}

TimerTypes ==
    /\ clock \in 0..(Period - 1)
    /\ \A t \in DOMAIN left : left[t] \in Int /\ left[t] >= -MaxLate
    /\ deadline \subseteq Int /\ wakes \in Nat /\ processing \in BOOLEAN
    /\ subscriber \in [Timing!Subscriptions -> {"none", "asks", "has", "leaves", "left"}]
    /\ running \in [Timing!Registered -> Nat]

Callbacks ==
    /\ listed = {s \in Timing!Registered : subscriber[s] \in Active}
    /\ destroying = {s \in Timing!Registered : subscriber[s] = "leaves"}
    /\ outstanding \cup missed \subseteq listed /\ returned \subseteq outstanding
    /\ awaiting \cup resuming \subseteq destroying /\ resuming \cap outstanding = {}
    /\ \A s \in Timing!Registered :
          running[s] + (IF s \in returned THEN 1 ELSE 0) = IF s \in outstanding THEN 1 ELSE 0

TimersThere ==
    /\ \A s \in listed : Timing!TimerOf(s) \in DOMAIN left
    /\ \A s \in Timing!Oneshots :
          /\ subscriber[s] \in {"asks", "has"} => s \in DOMAIN left \cup fired \/ shutdown = "prepared"
          /\ s \in DOMAIN left \cup fired => subscriber[s] # "none"
    /\ fired \subseteq Timing!Oneshots \ DOMAIN left
    /\ \A s \in registering : s \in Timing!Subscriptions /\ subscriber[s] = "asks"
    /\ processing \/ registering = {}

WakesInTime == processing \/ wakes > 0 \/ \A t \in DOMAIN left : \E d \in deadline : d <= left[t]

TimerInv == TimerTypes /\ Callbacks /\ TimersThere /\ WakesInTime

\* The subscriptions of f_RegisterTimer and f_RegisterExactTimer have no oneshot's timer.
LEMMA TimerSets ==
    /\ Timing!Subscriptions = Timing!Registered \cup Timing!Oneshots
    /\ Timing!Registered \cap Timing!Oneshots = {}
    /\ \A s \in Timing!Registered : Timing!TimerOf(s) \notin Timing!Oneshots
    /\ \A s \in Timing!Oneshots : Timing!TimerOf(s) = s
  BY LocalPartsAssumption
     DEF LocalPartsAssumption, Timing!Subscriptions, Timing!Registered, Timing!Oneshots, Timing!TimerOf

\* A set of numbers has a least one.
LEMMA Least ==
    ASSUME NEW S \in SUBSET Nat, S # {}
    PROVE  \E x \in S : \A y \in S : x <= y
  <1>1. IsWellFoundedOn(OpToRel(<, Nat), Nat)
    BY NatLessThanWellFounded
  <1>2. PICK x \in S : \A y \in S : ~(<<y, x>> \in OpToRel(<, Nat))
    BY <1>1, WFMin
  <1>3. \A y \in S : ~(y < x)
    BY <1>2 DEF OpToRel
  <1>4. QED
    BY <1>3

\* The least element of a set of integers that are not below b.
LEMMA MinIsLeast ==
    ASSUME NEW S \in SUBSET Int, NEW b \in Int, \A x \in S : b <= x, S # {}
    PROVE  Timing!Min(S) \in S /\ \A x \in S : Timing!Min(S) <= x
  <1> DEFINE T == {x - b : x \in S}
  <1>1. \A x \in S : x - b \in Nat
    OBVIOUS
  <1>2. T \in SUBSET Nat /\ T # {}
    BY <1>1
  <1>3. PICK y \in T : \A z \in T : y <= z
    BY <1>2, Least
  <1>4. PICK x \in S : y = x - b
    OBVIOUS
  <1>5. \A z \in S : x <= z
    BY <1>3, <1>4
  <1>6. QED
    BY <1>5 DEF Timing!Min

\* A multiple of n that is at most m is less than n away from it.
LEMMA Multiples ==
    ASSUME NEW m \in Int, NEW n \in Nat \ {0}
    PROVE  (m \div n) \in Int /\ (m \div n) * n \in Int /\ (m \div n) * n > m - n /\ m % n \in 0..(n - 1)
  OBVIOUS

\* What f_CallTimer does to the callbacks.
LEMMA CallTimersStep ==
    ASSUME TimerInv, NEW timers, Timing!CallTimers(timers), UNCHANGED subscriber
    PROVE  /\ Callbacks' /\ listed' = listed
           /\ fired' = fired \cup (Timing!Oneshots \cap timers)
           /\ running' \in [Timing!Registered -> Nat]
  <1> DEFINE callees == {s \in listed \ destroying : Timing!TimerOf(s) \in timers}
             called == callees \ (outstanding \cup gone)
  <1>1. /\ outstanding' = outstanding \cup called
        /\ missed' = (missed \ called) \cup (callees \cap outstanding)
        /\ running' = [s \in Timing!Registered |-> running[s] + (IF s \in called THEN 1 ELSE 0)]
        /\ fired' = fired \cup (Timing!Oneshots \cap timers)
        /\ UNCHANGED <<listed, destroying, awaiting, resuming, returned, subscriber>>
    BY DEF Timing!CallTimers
  <1>2. called \subseteq listed \ (destroying \cup outstanding)
    OBVIOUS
  <1>3. running' \in [Timing!Registered -> Nat]
    BY <1>1 DEF TimerInv, TimerTypes
  <1>4. ASSUME NEW s \in Timing!Registered
        PROVE  running'[s] + (IF s \in returned' THEN 1 ELSE 0) = IF s \in outstanding' THEN 1 ELSE 0
    BY <1>1, <1>2 DEF TimerInv, TimerTypes, Callbacks
  <1>5. outstanding' \cup missed' \subseteq listed' /\ returned' \subseteq outstanding'
    BY <1>1, <1>2 DEF TimerInv, Callbacks
  <1>6. awaiting' \cup resuming' \subseteq destroying' /\ resuming' \cap outstanding' = {}
    BY <1>1, <1>2 DEF TimerInv, Callbacks
  <1>7. listed' = {s \in Timing!Registered : subscriber'[s] \in Active}
        /\ destroying' = {s \in Timing!Registered : subscriber'[s] = "leaves"}
    BY <1>1 DEF TimerInv, Callbacks
  <1>8. QED
    BY <1>1, <1>3, <1>4, <1>5, <1>6, <1>7 DEF Callbacks

\* Timers are called; those that go are oneshots that were called, unless all of them
\* are dropped as the manager shuts down.
LEMMA TimersCalled ==
    ASSUME TimerInv, NEW timers \in SUBSET DOMAIN left,
           DOMAIN left' \subseteq DOMAIN left,
           \A t \in DOMAIN left \ DOMAIN left' :
              t \in Timing!Oneshots /\ (t \in timers \/ shutdown' = "prepared"),
           timers \cap Timing!Oneshots \cap DOMAIN left' = {},
           fired' = fired \cup (Timing!Oneshots \cap timers),
           UNCHANGED <<subscriber, listed>>, registering' \subseteq registering,
           processing' \/ registering' = {},
           shutdown = "prepared" => shutdown' = "prepared"
    PROVE  TimersThere'
  <1>1. ASSUME NEW s \in listed
        PROVE  Timing!TimerOf(s) \in DOMAIN left'
    <2>1. s \in Timing!Registered /\ Timing!TimerOf(s) \in DOMAIN left
      BY <1>1 DEF TimerInv, Callbacks, TimersThere
    <2>2. QED
      BY <2>1, TimerSets
  <1>2. ASSUME NEW s \in Timing!Oneshots
        PROVE  /\ subscriber'[s] \in {"asks", "has"} =>
                     s \in DOMAIN left' \cup fired' \/ shutdown' = "prepared"
               /\ s \in DOMAIN left' \cup fired' => subscriber'[s] # "none"
    BY <1>2 DEF TimerInv, TimersThere
  <1>3. fired' \subseteq Timing!Oneshots \ DOMAIN left'
    BY DEF TimerInv, TimersThere
  <1>4. \A s \in registering' : s \in Timing!Subscriptions /\ subscriber'[s] = "asks"
    BY DEF TimerInv, TimersThere
  <1>5. QED
    BY <1>1, <1>2, <1>3, <1>4 DEF TimersThere

\* Without timers the others keep what is left to them.
LEMMA WithoutTimers ==
    ASSUME NEW T
    PROVE  /\ DOMAIN Timing!Without(T) = DOMAIN left \ T
           /\ \A t \in DOMAIN left \ T : Timing!Without(T)[t] = left[t]
  BY DEF Timing!Without, Timing!Restrict

LEMMA FireAtExitStep ==
    ASSUME TimerInv, Timing!FireAtExit
    PROVE  TimerInv'
  <1>1. /\ Timing!CallTimers(AtExit \cap DOMAIN left) /\ left' = Timing!Without(AtExit)
        /\ UNCHANGED <<clock, deadline, processing, registering, wakes, subscriber, shutdown>>
    BY DEF Timing!FireAtExit, Timing!loopVars, Timing!userVars
  <1>2. DOMAIN left' = DOMAIN left \ AtExit /\ \A t \in DOMAIN left' : left'[t] = left[t]
    BY <1>1, WithoutTimers
  <1>3. /\ Callbacks' /\ listed' = listed /\ running' \in [Timing!Registered -> Nat]
        /\ fired' = fired \cup (Timing!Oneshots \cap (AtExit \cap DOMAIN left))
    BY <1>1, CallTimersStep
  <1>4. AtExit \subseteq Timing!Oneshots
    BY LocalPartsAssumption DEF LocalPartsAssumption, Timing!Oneshots
  <1>5. TimersThere'
    BY <1>1, <1>2, <1>3, <1>4, TimersCalled DEF TimerInv, TimersThere
  <1>6. TimerTypes' /\ WakesInTime'
    BY <1>1, <1>2, <1>3 DEF TimerInv, TimerTypes, WakesInTime
  <1>7. QED
    BY <1>3, <1>5, <1>6 DEF TimerInv

LEMMA FireAllTimeoutsStep ==
    ASSUME TimerInv, Timing!FireAllTimeouts
    PROVE  TimerInv'
  <1>1. /\ Timing!CallTimers(DOMAIN left) /\ left' = Timing!Without(Timing!Oneshots)
        /\ UNCHANGED <<clock, deadline, processing, registering, wakes, subscriber>>
        /\ shutdown = "no"
    BY DEF Timing!FireAllTimeouts, Timing!loopVars
  <1>2. DOMAIN left' = DOMAIN left \ Timing!Oneshots /\ \A t \in DOMAIN left' : left'[t] = left[t]
    BY <1>1, WithoutTimers
  <1>3. /\ Callbacks' /\ listed' = listed /\ running' \in [Timing!Registered -> Nat]
        /\ fired' = fired \cup (Timing!Oneshots \cap DOMAIN left)
    BY <1>1, CallTimersStep
  <1>4. TimersThere'
    BY <1>1, <1>2, <1>3, TimersCalled DEF TimerInv, TimersThere
  <1>5. TimerTypes' /\ WakesInTime'
    BY <1>1, <1>2, <1>3 DEF TimerInv, TimerTypes, WakesInTime
  <1>6. QED
    BY <1>3, <1>4, <1>5 DEF TimerInv

LEMMA PrepareShutdownStep ==
    ASSUME TimerInv, Timing!PrepareShutdown
    PROVE  TimerInv'
  <1>1. /\ Timing!CallTimers(AtExit \cap DOMAIN left) /\ left' = Timing!Without(Timing!Oneshots)
        /\ UNCHANGED <<clock, deadline, wakes, subscriber>> /\ processing' = TRUE /\ registering' = {}
        /\ shutdown' = "prepared"
    BY DEF Timing!PrepareShutdown, Timing!GoProcess
  <1>2. DOMAIN left' = DOMAIN left \ Timing!Oneshots /\ \A t \in DOMAIN left' : left'[t] = left[t]
    BY <1>1, WithoutTimers
  <1>3. /\ Callbacks' /\ listed' = listed /\ running' \in [Timing!Registered -> Nat]
        /\ fired' = fired \cup (Timing!Oneshots \cap (AtExit \cap DOMAIN left))
    BY <1>1, CallTimersStep
  <1>4. TimersThere'
    BY <1>1, <1>2, <1>3, TimersCalled DEF TimerInv, TimersThere
  <1>5. TimerTypes' /\ WakesInTime'
    BY <1>1, <1>2, <1>3 DEF TimerInv, TimerTypes, WakesInTime
  <1>6. QED
    BY <1>3, <1>4, <1>5 DEF TimerInv

LEMMA ProcessTimerStep ==
    ASSUME TimerInv, NEW t, Timing!ProcessTimer(t)
    PROVE  TimerInv'
  <1>1. /\ processing /\ t \in DOMAIN left /\ left[t] <= 0 /\ Timing!CallTimers({t})
        /\ left' = IF t \in Timing!Oneshots THEN Timing!Without({t})
                   ELSE [left EXCEPT ![t] = Timing!Advanced(left[t])]
        /\ UNCHANGED <<clock, deadline, wakes, processing, registering, subscriber, shutdown>>
    BY DEF Timing!ProcessTimer, Timing!userVars
  <1>2. /\ Callbacks' /\ listed' = listed /\ running' \in [Timing!Registered -> Nat]
        /\ fired' = fired \cup (Timing!Oneshots \cap {t})
    BY <1>1, CallTimersStep
  <1>3. DOMAIN left' = IF t \in Timing!Oneshots THEN DOMAIN left \ {t} ELSE DOMAIN left
    BY <1>1, WithoutTimers
  <1>4. TimersThere'
    <2>1. /\ {t} \in SUBSET DOMAIN left /\ DOMAIN left' \subseteq DOMAIN left
          /\ \A u \in DOMAIN left \ DOMAIN left' : u \in Timing!Oneshots /\ u \in {t}
          /\ {t} \cap Timing!Oneshots \cap DOMAIN left' = {}
          /\ fired' = fired \cup (Timing!Oneshots \cap {t})
      BY <1>1, <1>2, <1>3
    <2>2. UNCHANGED <<subscriber, listed, registering, shutdown>> /\ processing'
      BY <1>1, <1>2
    <2>3. QED
      BY ONLY TimerInv, <2>1, <2>2, TimersCalled
  <1>5. Timing!Advanced(left[t]) \in Nat
    <2>1. left[t] \in Int /\ Period \in Nat \ {0}
      BY <1>1, LocalPartsAssumption DEF TimerInv, TimerTypes, LocalPartsAssumption
    <2>2. (-left[t]) % Period \in 0..(Period - 1)
      <3>1. \A m \in Int : m % Period \in 0..(Period - 1)
        BY <2>1, Multiples
      <3>2. QED
        BY <2>1, <3>1
    <2>3. QED
      BY <1>1, <2>1, <2>2 DEF Timing!Advanced
  <1>6. \A u \in DOMAIN left' : left'[u] \in Int /\ left'[u] >= -MaxLate
    <2>1. MaxLate \in Nat
      BY LocalPartsAssumption DEF LocalPartsAssumption
    <2>2. \A u \in DOMAIN left' : left'[u] = left[u] \/ left'[u] = Timing!Advanced(left[t])
      BY <1>1, <1>3, WithoutTimers
    <2>3. QED
      BY <1>3, <1>5, <2>1, <2>2 DEF TimerInv, TimerTypes
  <1>7. TimerTypes' /\ WakesInTime'
    BY <1>1, <1>2, <1>6 DEF TimerInv, TimerTypes, WakesInTime
  <1>8. QED
    BY <1>2, <1>4, <1>7 DEF TimerInv

\* f_ProcessTimers ends and asks to be woken for the timer that elapses first.
LEMMA ProcessedStep ==
    ASSUME TimerInv, Timing!Processed
    PROVE  TimerInv'
  <1>1. /\ processing' = FALSE /\ registering' = {}
        /\ deadline' = IF DOMAIN left = {} THEN {} ELSE {Timing!Min(Timing!Range(left))}
        /\ subscriber' = [s \in Timing!Subscriptions |-> IF s \in registering THEN "has" ELSE subscriber[s]]
        /\ UNCHANGED <<clock, left, listed, outstanding, missed, destroying, awaiting, resuming, running,
                       returned, wakes, fired, gone, shutdown>>
    BY DEF Timing!Processed, Timing!callVars, Timing!userVars
  <1>2. \A s \in Timing!Subscriptions :
           subscriber'[s] = subscriber[s] \/ (subscriber[s] = "asks" /\ subscriber'[s] = "has")
    BY <1>1 DEF TimerInv, TimersThere
  <1>3. \A s \in Timing!Registered : s \in Timing!Subscriptions
    BY TimerSets
  <1>4. Callbacks'
    <2>1. \A s \in Timing!Registered : /\ (subscriber'[s] \in Active) = (subscriber[s] \in Active)
                                       /\ (subscriber'[s] = "leaves") = (subscriber[s] = "leaves")
      BY <1>2, <1>3 DEF Active
    <2>2. QED
      BY <1>1, <2>1 DEF TimerInv, Callbacks
  <1>5. TimersThere'
    <2>1. \A s \in Timing!Oneshots : /\ (subscriber'[s] \in {"asks", "has"}) = (subscriber[s] \in {"asks", "has"})
                                     /\ (subscriber'[s] = "none") = (subscriber[s] = "none")
      BY <1>2, TimerSets
    <2>2. QED
      BY <1>1, <2>1 DEF TimerInv, TimersThere
  <1>6. deadline' \subseteq Int /\ \A t \in DOMAIN left : \E d \in deadline' : d <= left[t]
    <2>1. CASE DOMAIN left = {}
      BY <1>1, <2>1
    <2>2. CASE DOMAIN left # {}
      <3>1. Timing!Range(left) = {left[t] : t \in DOMAIN left}
        BY DEF Timing!Range
      <3>2. /\ Timing!Range(left) \subseteq Int /\ Timing!Range(left) # {}
            /\ \A x \in Timing!Range(left) : -MaxLate <= x
        BY <2>2, <3>1 DEF TimerInv, TimerTypes
      <3>3. -MaxLate \in Int
        BY LocalPartsAssumption DEF LocalPartsAssumption
      <3>4. /\ Timing!Min(Timing!Range(left)) \in Timing!Range(left)
            /\ \A x \in Timing!Range(left) : Timing!Min(Timing!Range(left)) <= x
        BY <3>2, <3>3, MinIsLeast
      <3>5. deadline' = {Timing!Min(Timing!Range(left))}
        BY <1>1, <2>2
      <3>6. QED
        BY <3>1, <3>2, <3>4, <3>5
    <2>3. QED
      BY <2>1, <2>2
  <1>7. TimerTypes'
    BY <1>1, <1>6 DEF TimerInv, TimerTypes
  <1>8. QED
    BY <1>1, <1>4, <1>5, <1>6, <1>7 DEF TimerInv, WakesInTime

\* The clock goes on: a deadline that is later than it may be stays in time.
LEMMA TickStep ==
    ASSUME TimerInv, Timing!Tick
    PROVE  TimerInv'
  <1>0. MaxLate \in Nat /\ Period \in Nat \ {0}
    BY LocalPartsAssumption DEF LocalPartsAssumption
  <1>1. /\ \A t \in DOMAIN left : left[t] > -MaxLate
        /\ clock' = (clock + 1) % Period
        /\ left' = [t \in DOMAIN left |-> left[t] - 1]
        /\ deadline' = {IF d > -MaxLate THEN d - 1 ELSE d : d \in deadline}
        /\ UNCHANGED <<listed, outstanding, missed, destroying, awaiting, resuming, running, returned,
                       wakes, processing, registering, subscriber, fired, gone, shutdown>>
    BY DEF Timing!Tick, Timing!callVars, Timing!userVars
  <1>2. TimerTypes'
    <2>1. clock' \in 0..(Period - 1)
      BY <1>0, <1>1, Multiples DEF TimerInv, TimerTypes
    <2>2. \A t \in DOMAIN left' : left'[t] \in Int /\ left'[t] >= -MaxLate
      BY <1>0, <1>1 DEF TimerInv, TimerTypes
    <2>3. deadline' \subseteq Int
      BY <1>0, <1>1 DEF TimerInv, TimerTypes
    <2>4. QED
      BY <1>1, <2>1, <2>2, <2>3 DEF TimerInv, TimerTypes
  <1>3. Callbacks' /\ TimersThere'
    BY <1>1 DEF TimerInv, Callbacks, TimersThere
  <1>4. WakesInTime'
    <2>1. SUFFICES ASSUME ~processing, ~(wakes > 0), NEW t \in DOMAIN left
                   PROVE  \E e \in deadline' : e <= left'[t]
      BY <1>1 DEF WakesInTime
    <2>2. PICK d \in deadline : d <= left[t]
      BY <2>1 DEF TimerInv, WakesInTime
    <2>3. d \in Int /\ left[t] \in Int /\ left'[t] = left[t] - 1 /\ left[t] > -MaxLate
      BY <1>1, <2>2 DEF TimerInv, TimerTypes
    <2>4. (IF d > -MaxLate THEN d - 1 ELSE d) \in deadline'
      BY <1>1, <2>2
    <2>5. QED
      BY <1>0, <2>2, <2>3, <2>4
  <1>5. QED
    BY <1>2, <1>3, <1>4 DEF TimerInv

\* m_NextElapse of a new timer is not later than the registration is.
LEMMA ExpectedBound ==
    ASSUME TimerInv, NEW s, NEW age \in 0..MaxLate
    PROVE  Timing!Expected(s, age) \in Int /\ Timing!Expected(s, age) >= -MaxLate
  <1>0. MaxLate \in Nat /\ Period \in Nat \ {0} /\ clock \in 0..(Period - 1)
    BY LocalPartsAssumption DEF LocalPartsAssumption, TimerInv, TimerTypes
  <1> DEFINE m == clock - age + Period
  <1>1. m \in Int /\ (m \div Period) * Period \in Int /\ (m \div Period) * Period > m - Period
    BY <1>0, Multiples
  <1>2. QED
    BY <1>0, <1>1 DEF Timing!Expected

LEMMA RegisterStep ==
    ASSUME TimerInv, NEW s \in Timing!Subscriptions, NEW age \in 0..MaxLate, Timing!Register(s, age)
    PROVE  TimerInv'
  <1>1. /\ subscriber[s] = "none" /\ subscriber' = [subscriber EXCEPT ![s] = "asks"]
        /\ left' = [t \in DOMAIN left \cup {Timing!TimerOf(s)} |->
                      IF t \in DOMAIN left THEN left[t] ELSE Timing!Expected(s, age)]
        /\ listed' = listed \cup ({s} \cap Timing!Registered)
        /\ processing' = TRUE /\ registering' = {s}
        /\ UNCHANGED <<clock, outstanding, missed, destroying, awaiting, resuming, running, returned, wakes,
                       fired, gone, shutdown, deadline>>
    BY DEF Timing!Register, Timing!GoProcess, Timing!userVars
  <1>2. /\ \A u \in Timing!Subscriptions : subscriber'[u] = IF u = s THEN "asks" ELSE subscriber[u]
        /\ subscriber' \in [Timing!Subscriptions -> {"none", "asks", "has", "leaves", "left"}]
    BY <1>1 DEF TimerInv, TimerTypes
  <1>3. TimerTypes'
    BY <1>1, <1>2, ExpectedBound DEF TimerInv, TimerTypes
  <1>4. Callbacks'
    <2>1. listed' = {u \in Timing!Registered : subscriber'[u] \in Active}
      BY <1>1, <1>2, TimerSets DEF TimerInv, Callbacks, Active
    <2>2. destroying' = {u \in Timing!Registered : subscriber'[u] = "leaves"}
      BY <1>1, <1>2, TimerSets DEF TimerInv, Callbacks
    <2>3. QED
      BY <1>1, <2>1, <2>2 DEF TimerInv, Callbacks
  <1>5. DOMAIN left' = DOMAIN left \cup {Timing!TimerOf(s)}
    BY <1>1
  <1>6. TimersThere'
    <2>1. \A u \in listed' : Timing!TimerOf(u) \in DOMAIN left'
      BY <1>1, <1>5 DEF TimerInv, TimersThere
    <2>2. ASSUME NEW u \in Timing!Oneshots
          PROVE  /\ subscriber'[u] \in {"asks", "has"} => u \in DOMAIN left' \cup fired' \/ shutdown' = "prepared"
                 /\ u \in DOMAIN left' \cup fired' => subscriber'[u] # "none"
      <3>1. u \in DOMAIN left' => u \in DOMAIN left \/ u = s
        BY <1>5, <2>2, TimerSets
      <3>2. u = s => u \in DOMAIN left'
        BY <1>5, <2>2, TimerSets
      <3>3. QED
        BY <1>1, <1>2, <1>5, <2>2, <3>1, <3>2, TimerSets DEF TimerInv, TimersThere
    <2>3. fired' \subseteq Timing!Oneshots \ DOMAIN left'
      <3>1. ASSUME NEW u \in fired
            PROVE  u \in Timing!Oneshots \ DOMAIN left'
        <4>1. u \in Timing!Oneshots /\ u \notin DOMAIN left /\ subscriber[u] # "none"
          BY DEF TimerInv, TimersThere
        <4>2. u # s
          BY <1>1, <4>1
        <4>3. u # Timing!TimerOf(s)
          BY <4>1, <4>2, TimerSets
        <4>4. QED
          BY <1>5, <4>1, <4>3
      <3>2. QED
        BY <1>1, <3>1
    <2>4. QED
      BY <1>1, <1>2, <2>1, <2>2, <2>3 DEF TimersThere
  <1>7. QED
    BY <1>1, <1>3, <1>4, <1>6 DEF TimerInv, WakesInTime

\* A callback goes whose call is not outstanding; its timer stays while another shares it.
LEMMA RemoveCallbackStep ==
    ASSUME TimerInv, ~processing, NEW s \in Timing!Registered, s \notin outstanding, s \in listed,
           Timing!RemoveCallback(s), UNCHANGED <<clock, Timing!loopVars, wakes, fired, Timing!userVars>>
    PROVE  TimerInv'
  <1>1. /\ listed' = listed \ {s}
        /\ left' = IF \E u \in listed \ {s} : Timing!TimerOf(u) = Timing!TimerOf(s) THEN left
                   ELSE Timing!Without({Timing!TimerOf(s)})
        /\ outstanding' = outstanding \ {s} /\ missed' = missed \ {s}
        /\ destroying' = destroying \ {s} /\ awaiting' = awaiting \ {s} /\ resuming' = resuming \ {s}
        /\ subscriber' = [subscriber EXCEPT ![s] = "left"]
        /\ UNCHANGED <<running, returned, clock, deadline, processing, registering, wakes, fired, gone, shutdown>>
    BY DEF Timing!RemoveCallback, Timing!loopVars, Timing!userVars
  <1>2. s \in Timing!Subscriptions /\ s \notin Timing!Oneshots /\ subscriber[s] \in Active
    BY TimerSets DEF TimerInv, Callbacks
  <1>3. /\ \A u \in Timing!Subscriptions : subscriber'[u] = IF u = s THEN "left" ELSE subscriber[u]
        /\ subscriber' \in [Timing!Subscriptions -> {"none", "asks", "has", "leaves", "left"}]
    BY <1>1, <1>2 DEF TimerInv, TimerTypes
  <1>4. /\ DOMAIN left' \subseteq DOMAIN left /\ \A t \in DOMAIN left' : left'[t] = left[t]
        /\ \A t \in DOMAIN left \ DOMAIN left' :
              t = Timing!TimerOf(s) /\ \A u \in listed \ {s} : Timing!TimerOf(u) # t
    BY <1>1, WithoutTimers
  <1>5. TimerTypes'
    BY <1>1, <1>3, <1>4 DEF TimerInv, TimerTypes
  <1>6. Callbacks'
    <2>1. listed' = {u \in Timing!Registered : subscriber'[u] \in Active}
      BY <1>1, <1>3, TimerSets DEF TimerInv, Callbacks, Active
    <2>2. destroying' = {u \in Timing!Registered : subscriber'[u] = "leaves"}
      BY <1>1, <1>3, TimerSets DEF TimerInv, Callbacks
    <2>3. outstanding' = outstanding
      BY <1>1
    <2>4. QED
      BY <1>1, <2>1, <2>2, <2>3 DEF TimerInv, Callbacks
  <1>7. TimersThere'
    <2>1. \A u \in listed' : Timing!TimerOf(u) \in DOMAIN left'
      BY <1>1, <1>4 DEF TimerInv, TimersThere
    <2>2. \A u \in Timing!Oneshots : u \in DOMAIN left <=> u \in DOMAIN left'
      BY <1>4, TimerSets
    <2>3. \A u \in Timing!Oneshots : subscriber'[u] = subscriber[u]
      BY <1>2, <1>3, TimerSets
    <2>4. registering = {}
      BY DEF TimerInv, TimersThere
    <2>5. QED
      BY <1>1, <1>4, <2>1, <2>2, <2>3, <2>4 DEF TimerInv, TimersThere
  <1>8. WakesInTime'
    BY <1>1, <1>4 DEF TimerInv, WakesInTime
  <1>9. QED
    BY <1>5, <1>6, <1>7, <1>8 DEF TimerInv

LEMMA UnsubscribeStep ==
    ASSUME TimerInv, NEW s \in Timing!Subscriptions, Timing!Unsubscribe(s)
    PROVE  TimerInv'
  <1>1. /\ ~processing /\ subscriber[s] = "has"
        /\ UNCHANGED <<clock, Timing!loopVars, wakes, fired, Timing!userVars>>
    BY DEF Timing!Unsubscribe
  <1>2. UNCHANGED <<clock, deadline, processing, registering, wakes, fired, gone, shutdown>>
    BY <1>1 DEF Timing!loopVars, Timing!userVars
  <1>3. registering = {}
    BY <1>1 DEF TimerInv, TimersThere
  <1>4. ASSUME NEW o \in {"leaves", "left"}, subscriber' = [subscriber EXCEPT ![s] = o]
        PROVE  /\ \A u \in Timing!Subscriptions : subscriber'[u] = IF u = s THEN o ELSE subscriber[u]
               /\ subscriber' \in [Timing!Subscriptions -> {"none", "asks", "has", "leaves", "left"}]
    BY <1>4 DEF TimerInv, TimerTypes
  <1>5. CASE s \in Abortable /\ left' = Timing!Without({s})
             /\ subscriber' = [subscriber EXCEPT ![s] = "left"] /\ UNCHANGED Timing!callVars
    <2>1. UNCHANGED <<listed, outstanding, missed, destroying, awaiting, resuming, running, returned>>
      BY <1>5 DEF Timing!callVars
    <2>2. s \in Timing!Oneshots /\ s \notin Timing!Registered
      BY <1>5, TimerSets DEF Timing!Oneshots
    <2>3. DOMAIN left' = DOMAIN left \ {s} /\ \A t \in DOMAIN left' : left'[t] = left[t]
      BY <1>5, WithoutTimers
    <2>4. TimerTypes'
      BY <1>2, <1>4, <1>5, <2>1, <2>3 DEF TimerInv, TimerTypes
    <2>5. Callbacks'
      <3>1. \A u \in Timing!Registered : subscriber'[u] = subscriber[u]
        BY <1>4, <1>5, <2>2, TimerSets
      <3>2. QED
        BY <2>1, <3>1 DEF TimerInv, Callbacks
    <2>6. TimersThere'
      <3>1. \A u \in listed : Timing!TimerOf(u) # s
        BY <2>2, TimerSets DEF TimerInv, Callbacks
      <3>2. \A u \in listed' : Timing!TimerOf(u) \in DOMAIN left'
        BY <2>1, <2>3, <3>1 DEF TimerInv, TimersThere
      <3>3. \A u \in Timing!Oneshots : subscriber'[u] = IF u = s THEN "left" ELSE subscriber[u]
        BY <1>4, <1>5, TimerSets
      <3>4. QED
        BY <1>2, <1>3, <2>3, <3>2, <3>3 DEF TimerInv, TimersThere
    <2>7. WakesInTime'
      BY <1>2, <2>3 DEF TimerInv, WakesInTime
    <2>8. QED
      BY <2>4, <2>5, <2>6, <2>7 DEF TimerInv
  <1>6. CASE /\ s \in outstanding /\ subscriber' = [subscriber EXCEPT ![s] = "leaves"]
             /\ destroying' = destroying \cup {s} /\ awaiting' = awaiting \cup {s}
             /\ UNCHANGED <<left, listed, outstanding, missed, resuming, running, returned>>
    <2>1. s \in Timing!Registered /\ s \notin Timing!Oneshots
      BY <1>6, TimerSets DEF TimerInv, Callbacks
    <2>2. TimerTypes'
      BY <1>2, <1>4, <1>6 DEF TimerInv, TimerTypes
    <2>3. Callbacks'
      <3>1. listed' = {u \in Timing!Registered : subscriber'[u] \in Active}
        BY <1>1, <1>4, <1>6, TimerSets DEF TimerInv, Callbacks, Active
      <3>2. destroying' = {u \in Timing!Registered : subscriber'[u] = "leaves"}
        BY <1>4, <1>6, <2>1, TimerSets DEF TimerInv, Callbacks
      <3>3. QED
        BY <1>6, <3>1, <3>2 DEF TimerInv, Callbacks
    <2>4. TimersThere'
      <3>1. \A u \in Timing!Oneshots : subscriber'[u] = subscriber[u]
        BY <1>4, <1>6, <2>1, TimerSets
      <3>2. QED
        BY <1>2, <1>3, <1>6, <3>1 DEF TimerInv, TimersThere
    <2>5. WakesInTime'
      BY <1>2, <1>6 DEF TimerInv, WakesInTime
    <2>6. QED
      BY <2>2, <2>3, <2>4, <2>5 DEF TimerInv
  <1>7. CASE s \in Timing!Registered \ outstanding /\ Timing!RemoveCallback(s)
    <2>1. s \in listed
      BY <1>1, <1>7 DEF TimerInv, Callbacks, Active
    <2>2. QED
      BY <1>1, <1>7, <2>1, RemoveCallbackStep
  <1>8. QED
    BY <1>5, <1>6, <1>7 DEF Timing!Unsubscribe

LEMMA CallbackReturnsStep ==
    ASSUME TimerInv, NEW s \in Timing!Registered, Timing!CallbackReturns(s)
    PROVE  TimerInv'
  <1>1. /\ running[s] > 0 /\ running' = [running EXCEPT ![s] = running[s] - 1]
        /\ returned' = returned \cup {s}
        /\ UNCHANGED <<clock, left, listed, outstanding, missed, destroying, awaiting, resuming, deadline,
                       processing, registering, wakes, subscriber, fired, gone, shutdown>>
    BY DEF Timing!CallbackReturns, Timing!loopVars, Timing!userVars
  <1>2. running \in [Timing!Registered -> Nat]
    BY DEF TimerInv, TimerTypes
  <1>3. running[s] = 1 /\ s \notin returned /\ s \in outstanding
    BY <1>1, <1>2 DEF TimerInv, Callbacks
  <1>4. TimerTypes'
    BY <1>1, <1>2 DEF TimerInv, TimerTypes
  <1>5. Callbacks'
    BY <1>1, <1>2, <1>3 DEF TimerInv, Callbacks
  <1>6. QED
    BY <1>1, <1>4, <1>5 DEF TimerInv, TimersThere, WakesInTime

LEMMA ResultStep ==
    ASSUME TimerInv, NEW s \in Timing!Registered, Timing!Result(s)
    PROVE  TimerInv'
  <1>1. PICK more \in BOOLEAN :
          /\ more => s \in missed /\ s \notin destroying
          /\ s \in returned /\ returned' = returned \ {s}
          /\ outstanding' = IF more THEN outstanding ELSE outstanding \ {s}
          /\ missed' = IF more THEN missed \ {s} ELSE missed
          /\ running' = [running EXCEPT ![s] = IF more THEN running[s] + 1 ELSE running[s]]
          /\ resuming' = resuming \cup (awaiting \cap {s})
          /\ UNCHANGED <<clock, left, listed, destroying, awaiting, deadline, processing, registering, wakes,
                         subscriber, fired, gone, shutdown>>
    BY DEF Timing!Result, Timing!loopVars, Timing!userVars
  <1>2. running \in [Timing!Registered -> Nat]
    BY DEF TimerInv, TimerTypes
  <1>3. s \in outstanding /\ running[s] = 0
    BY <1>1, <1>2 DEF TimerInv, Callbacks
  <1>4. more => s \notin awaiting
    BY <1>1 DEF TimerInv, Callbacks
  <1>5. TimerTypes'
    BY <1>1, <1>2 DEF TimerInv, TimerTypes
  <1>6. Callbacks'
    <2>1. \A u \in Timing!Registered :
             running'[u] + (IF u \in returned' THEN 1 ELSE 0) = IF u \in outstanding' THEN 1 ELSE 0
      BY <1>1, <1>2, <1>3 DEF TimerInv, Callbacks
    <2>2. resuming' \cap outstanding' = {} /\ awaiting' \cup resuming' \subseteq destroying'
      BY <1>1, <1>4 DEF TimerInv, Callbacks
    <2>3. outstanding' \cup missed' \subseteq listed' /\ returned' \subseteq outstanding'
      BY <1>1 DEF TimerInv, Callbacks
    <2>4. QED
      BY <1>1, <2>1, <2>2, <2>3 DEF TimerInv, Callbacks
  <1>7. QED
    BY <1>1, <1>5, <1>6 DEF TimerInv, TimersThere, WakesInTime

LEMMA ResumeStep ==
    ASSUME TimerInv, NEW s \in Timing!Registered, Timing!Resume(s)
    PROVE  TimerInv'
  <1>1. /\ ~processing /\ s \in resuming /\ Timing!RemoveCallback(s)
        /\ UNCHANGED <<clock, Timing!loopVars, wakes, fired, Timing!userVars>>
    BY DEF Timing!Resume
  <1>2. s \in listed /\ s \notin outstanding
    BY <1>1 DEF TimerInv, Callbacks, Active
  <1>3. QED
    BY <1>1, <1>2, RemoveCallbackStep

\* What leaves callbacks and timers as they are.
LEMMA TimersRest ==
    ASSUME TimerInv, WakesInTime', deadline' \subseteq Int, wakes' \in Nat, processing' \in BOOLEAN,
           registering' = registering, processing = TRUE => processing' = TRUE,
           UNCHANGED <<clock, left, Timing!callVars, subscriber, fired, shutdown>>
    PROVE  TimerInv'
  <1>1. UNCHANGED <<listed, outstanding, missed, destroying, awaiting, resuming, running, returned>>
    BY DEF Timing!callVars
  <1>2. TimerTypes' /\ Callbacks'
    BY <1>1 DEF TimerInv, TimerTypes, Callbacks
  <1>3. TimersThere'
    BY <1>1 DEF TimerInv, TimerTypes, TimersThere
  <1>4. QED
    BY <1>2, <1>3 DEF TimerInv

LEMMA TimerStep ==
    ASSUME TimerInv, Timing!Next
    PROVE  TimerInv'
  <1>1. CASE Timing!CheckTimers
    <2>1. /\ deadline' = {} /\ wakes' = wakes + 1 /\ wakes \in Nat /\ processing' = processing
          /\ registering' = registering
          /\ UNCHANGED <<clock, left, Timing!callVars, subscriber, fired, shutdown>>
      BY <1>1 DEF Timing!CheckTimers, Timing!userVars, TimerInv, TimerTypes
    <2>2. WakesInTime'
      BY <2>1 DEF WakesInTime
    <2>3. deadline' \subseteq Int /\ wakes' \in Nat /\ processing' \in BOOLEAN
      BY <2>1 DEF TimerInv, TimerTypes
    <2>4. QED
      BY <2>1, <2>2, <2>3, TimersRest
  <1>2. CASE Timing!BeginProcessing
    <2>1. /\ wakes > 0 /\ wakes' = wakes - 1 /\ wakes \in Nat /\ ~processing /\ processing' = TRUE
          /\ registering' = {} /\ deadline' = deadline
          /\ UNCHANGED <<clock, left, Timing!callVars, subscriber, fired, shutdown>>
      BY <1>2 DEF Timing!BeginProcessing, Timing!GoProcess, Timing!userVars, TimerInv, TimerTypes
    <2>2. registering = {} /\ processing = FALSE
      BY <2>1 DEF TimerInv, TimerTypes, TimersThere
    <2>3. WakesInTime'
      BY <2>1 DEF WakesInTime
    <2>4. QED
      BY <2>1, <2>2, <2>3, TimersRest DEF TimerInv, TimerTypes
  <1>3. ASSUME NEW s, Timing!ActorDeleted(s)
        PROVE  TimerInv'
    <2>1. /\ UNCHANGED <<deadline, processing, registering, wakes>>
          /\ UNCHANGED <<clock, left, Timing!callVars, subscriber, fired, shutdown>>
      BY <1>3 DEF Timing!ActorDeleted, Timing!loopVars
    <2>2. WakesInTime'
      BY <2>1 DEF TimerInv, WakesInTime
    <2>3. QED
      BY <2>1, <2>2, TimersRest DEF TimerInv, TimerTypes
  <1>4. CASE Timing!Processing
    BY <1>4, ProcessTimerStep, ProcessedStep DEF Timing!Processing
  <1>5. QED
    BY <1>1, <1>2, <1>3, <1>4, TickStep, UnsubscribeStep, RegisterStep, CallbackReturnsStep, ResultStep,
       ResumeStep, FireAtExitStep, FireAllTimeoutsStep, PrepareShutdownStep DEF Timing!Next

\* The timer actor's invariant holds, however late it is and whoever comes and goes.
THEOREM TimerInvariance == Spec => []TimerInv
  <1>1. Init => TimerInv
    <2>1. SUFFICES ASSUME Init PROVE TimerInv
      OBVIOUS
    <2>2. Timing!Init
      BY <2>1 DEF Init
    <2>3. DOMAIN left = {}
      BY <2>2 DEF Timing!Init
    <2>4. TimerTypes
      <3>1. clock \in 0..(Period - 1)
        BY <2>2, LocalPartsAssumption DEF LocalPartsAssumption, Timing!Init
      <3>2. QED
        BY <2>2, <2>3, <3>1 DEF Timing!Init, TimerTypes
    <2>5. Callbacks
      BY <2>2, TimerSets DEF Timing!Init, Callbacks, Active
    <2>6. TimersThere
      BY <2>2, <2>3, TimerSets DEF Timing!Init, TimersThere
    <2>7. WakesInTime
      BY <2>3 DEF WakesInTime
    <2>8. QED
      BY <2>4, <2>5, <2>6, <2>7 DEF TimerInv
  <1>2. TimerInv /\ [Next]_vars => TimerInv'
    <2>1. ASSUME TimerInv, UNCHANGED timingVars
          PROVE  TimerInv'
      BY <2>1 DEF TimerInv, TimerTypes, Callbacks, TimersThere, WakesInTime, timingVars
    <2>2. [Next]_vars => Timing!Next \/ UNCHANGED timingVars
      BY DEF Next, Only, vars
    <2>3. QED
      BY <2>1, <2>2, TimerStep
  <1>3. QED
    BY <1>1, <1>2, PTL DEF Spec

LEMMA TimerOrderly == TimerInv => Timing!CallsAreOrderly
  <1>1. SUFFICES ASSUME TimerInv PROVE Timing!CallsAreOrderly
    OBVIOUS
  <1>2. ASSUME NEW s \in Timing!Registered, subscriber[s] = "left"
        PROVE  running[s] = 0
    <2>1. s \notin listed
      BY <1>1, <1>2 DEF TimerInv, Callbacks, Active
    <2>2. s \notin outstanding /\ s \notin returned
      BY <1>1, <2>1 DEF TimerInv, Callbacks
    <2>3. QED
      BY <1>1, <2>2 DEF TimerInv, TimerTypes, Callbacks
  <1>3. fired \cap DOMAIN left = {}
    BY <1>1 DEF TimerInv, TimersThere
  <1>4. QED
    BY <1>1, <1>2, <1>3 DEF TimerInv, Callbacks, Timing!CallsAreOrderly

LEMMA TimersKept == TimerInv => Timing!NoTimerForgotten
  <1>1. SUFFICES ASSUME TimerInv PROVE Timing!NoTimerForgotten
    OBVIOUS
  <1>2. ASSUME NEW s \in Timing!Subscriptions, subscriber[s] = "has"
        PROVE  Timing!TimerOf(s) \in DOMAIN left \/ s \in fired \/ (s \in Timing!Oneshots /\ shutdown = "prepared")
    <2>1. CASE s \in Timing!Registered
      BY <1>1, <1>2, <2>1 DEF TimerInv, Callbacks, TimersThere, Active
    <2>2. CASE s \in Timing!Oneshots
      BY <1>1, <1>2, <2>2, TimerSets DEF TimerInv, TimersThere
    <2>3. QED
      BY <2>1, <2>2, TimerSets
  <1>3. QED
    BY <1>1, <1>2 DEF TimerInv, WakesInTime, Timing!NoTimerForgotten

----------------------------------------------------------------------------
(* The pool threads.  What is pushed to a queue is announced in its count    *)
(* until it is counted, and the count tells a thread that gives its bit back *)
(* that there is something.                                                  *)

PoolTypes ==
    /\ where \in [Queues -> {"none", "start", "take", "drain", "job", "offer", "unlock", "idle", "wait"}]
    /\ original \in [Queues -> Nat] /\ working \in [Queues -> Nat]
    /\ event \in [Queues -> BOOLEAN]
    /\ shared \in [Queues -> Seq(Pool!Jobs)] /\ local \in [Queues -> Seq(Pool!Jobs)]
    /\ adding \in [Pool!Threads -> [queue : Queues \cup {InvalidQueue}, n : Nat]]
    /\ \A t \in Pool!Threads : adding[t] # Pool!Nowhere => adding[t].queue \in Queues
    /\ idle \subseteq Queues
    /\ offer \in [Queues -> [target : {0, Target}, back : {"drain", "job"}]]

Announced(q) == \E t \in Pool!Threads : adding[t].queue = q /\ adding[t].n >= 1
Awake(q) == where[q] \notin {"none", "idle", "wait"}

\* What holds of each queue.
QueueSafe(q) ==
    /\ where[q] \notin {"drain", "job", "offer"} => local[q] = <<>>
    /\ where[q] = "unlock" /\ shared[q] # <<>> => working[q] > original[q] \/ Announced(q)
    /\ where[q] \in {"drain", "job", "offer", "unlock"} => working[q] >= original[q]
    /\ ~Awake(q) => /\ working[q] > 0 => event[q]
                    /\ shared[q] # <<>> => event[q] \/ Announced(q)

PoolInv == PoolTypes /\ \A q \in Queues : QueueSafe(q)

\* A thread goes on with its own queue, on which nothing is pushed meanwhile.
LEMMA PoolOther ==
    ASSUME NEW q, QueueSafe(q), adding' = adding,
           where'[q] = where[q], original'[q] = original[q], working'[q] = working[q], event'[q] = event[q],
           shared'[q] = shared[q], local'[q] = local[q]
    PROVE  QueueSafe(q)'
  BY DEF QueueSafe, Awake, Announced

\* Entries are pushed to queue k by thread t, which then has them to count.
LEMMA PushSharedStep ==
    ASSUME PoolTypes, NEW t \in Pool!Threads, ~Pool!Adds(t), NEW k \in Queues,
           NEW entries \in Seq(Pool!Jobs), Pool!PushShared(t, k, entries)
    PROVE  /\ shared' \in [Queues -> Seq(Pool!Jobs)]
           /\ adding' \in [Pool!Threads -> [queue : Queues \cup {InvalidQueue}, n : Nat]]
           /\ \A u \in Pool!Threads : adding'[u] # Pool!Nowhere => adding'[u].queue \in Queues
           /\ \A q \in Queues : Announced(q) => Announced(q)'
           /\ \A q \in Queues : shared'[q] # <<>> => shared[q] # <<>> \/ Announced(q)'
  <1>1. /\ shared' = [shared EXCEPT ![k] = shared[k] \o entries]
        /\ adding' = [adding EXCEPT ![t] = [queue |-> k, n |-> Len(entries)]]
    BY DEF Pool!PushShared
  <1>2. Len(entries) \in Nat /\ shared[k] \o entries \in Seq(Pool!Jobs)
    BY DEF PoolTypes
  <1>3. adding[t] = Pool!Nowhere
    BY DEF Pool!Adds
  <1>4. shared' \in [Queues -> Seq(Pool!Jobs)]
    BY <1>1, <1>2 DEF PoolTypes
  <1>5. /\ adding' \in [Pool!Threads -> [queue : Queues \cup {InvalidQueue}, n : Nat]]
        /\ adding'[t] = [queue |-> k, n |-> Len(entries)]
        /\ \A u \in Pool!Threads : u # t => adding'[u] = adding[u]
    BY <1>1, <1>2 DEF PoolTypes
  <1>6. \A q \in Queues : Announced(q) => Announced(q)'
    <2>1. adding[t].n = 0
      BY <1>3 DEF Pool!Nowhere
    <2>2. QED
      BY <1>5, <2>1 DEF Announced
  <1>7. ASSUME NEW q \in Queues, shared'[q] # <<>>, shared[q] = <<>>
        PROVE  Announced(q)'
    <2>1. q = k /\ <<>> \o entries # <<>>
      BY <1>1, <1>7 DEF PoolTypes
    <2>2. Len(entries) >= 1
      BY <2>1, <1>2
    <2>3. QED
      BY <1>5, <2>1, <2>2 DEF Announced
  <1>8. ASSUME NEW u \in Pool!Threads, adding'[u] # Pool!Nowhere
        PROVE  adding'[u].queue \in Queues
    <2>1. CASE u = t
      BY <1>5, <2>1
    <2>2. CASE u # t
      BY <1>5, <1>8, <2>2 DEF PoolTypes
    <2>3. QED
      BY <2>1, <2>2
  <1>9. QED
    BY <1>4, <1>5, <1>6, <1>7, <1>8

\* The thread that pushes does not touch what sleeping queues have.
LEMMA PushStep ==
    ASSUME PoolInv, NEW t \in Pool!Threads, ~Pool!Adds(t), NEW k \in Queues,
           NEW entries \in Seq(Pool!Jobs), Pool!PushShared(t, k, entries),
           UNCHANGED <<where, original, working, event, offer>>, idle' \subseteq Queues,
           local' \in [Queues -> Seq(Pool!Jobs)],
           \A q \in Queues : where[q] \notin {"drain", "job", "offer"} => local'[q] = local[q]
    PROVE  PoolInv'
  <1>1. PoolTypes
    BY DEF PoolInv
  <1>2. PoolTypes'
    BY <1>1, PushSharedStep DEF PoolTypes
  <1>3. ASSUME NEW q \in Queues
        PROVE  QueueSafe(q)'
    <2>1. QueueSafe(q) /\ (Awake(q)' <=> Awake(q))
      BY DEF PoolInv, Awake
    <2>2. Announced(q) => Announced(q)'
      BY <1>1, PushSharedStep
    <2>3. shared'[q] # <<>> => shared[q] # <<>> \/ Announced(q)'
      BY <1>1, PushSharedStep
    <2>4. QED
      BY <2>1, <2>2, <2>3 DEF QueueSafe
  <1>4. QED
    BY <1>2, <1>3 DEF PoolInv

\* A thread that only touches what is its own keeps what holds of the other queues.
LEMMA OwnStep ==
    ASSUME PoolInv, NEW q \in Queues, PoolTypes', QueueSafe(q)', adding' = adding,
           \A r \in Queues \ {q} :
               /\ where'[r] = where[r] /\ original'[r] = original[r] /\ working'[r] = working[r]
               /\ event'[r] = event[r] /\ shared'[r] = shared[r] /\ local'[r] = local[r]
    PROVE  PoolInv'
  <1>1. ASSUME NEW r \in Queues \ {q}
        PROVE  QueueSafe(r)'
    <2>1. QueueSafe(r)
      BY DEF PoolInv
    <2>2. QED
      BY <2>1, PoolOther
  <1>2. QED
    BY <1>1 DEF PoolInv

LEMMA AppendLocalStep ==
    ASSUME PoolInv, NEW t \in Queues, where[t] = "job", NEW j \in Pool!Jobs, Pool!AppendLocal(t, j),
           UNCHANGED <<original, working, event>>, idle' \subseteq Queues
    PROVE  PoolInv'
  <1>1. PoolTypes
    BY DEF PoolInv
  <1>2. local' = [local EXCEPT ![t] = Append(local[t], j)] /\ local[t] \in Seq(Pool!Jobs)
    BY <1>1 DEF Pool!AppendLocal, PoolTypes
  <1>3. local' \in [Queues -> Seq(Pool!Jobs)]
    BY <1>1, <1>2 DEF PoolTypes
  <1>4. shared' = shared /\ adding' = adding
    BY DEF Pool!AppendLocal
  <1>5. /\ where' \in {where, [where EXCEPT ![t] = "offer"]}
        /\ offer' \in {offer, [offer EXCEPT ![t] = [target |-> Target, back |-> "job"]]}
    BY DEF Pool!AppendLocal
  <1>6. PoolTypes'
    <2>1. where' \in [Queues -> {"none", "start", "take", "drain", "job", "offer", "unlock", "idle", "wait"}]
      BY <1>1, <1>5 DEF PoolTypes
    <2>2. [target |-> Target, back |-> "job"] \in [target : {0, Target}, back : {"drain", "job"}]
      OBVIOUS
    <2>4. offer \in [Queues -> [target : {0, Target}, back : {"drain", "job"}]]
      BY <1>1 DEF PoolTypes
    <2>5. offer' \in [Queues -> [target : {0, Target}, back : {"drain", "job"}]]
      BY <1>5, <2>2, <2>4
    <2>3. QED
      BY <1>1, <1>3, <1>4, <2>1, <2>5 DEF PoolTypes
  <1>7. where'[t] \in {"job", "offer"}
    BY <1>1, <1>5 DEF PoolTypes
  <1>8. \A r \in Queues \ {t} : where'[r] = where[r] /\ local'[r] = local[r]
    BY <1>1, <1>2, <1>5 DEF PoolTypes
  <1>9. QueueSafe(t)'
    BY <1>7 DEF QueueSafe, Awake, PoolInv
  <1>10. QED
    BY <1>4, <1>6, <1>8, <1>9, OwnStep

LEMMA QueueJobStep ==
    ASSUME PoolInv, NEW t \in Pool!Threads, NEW j \in Pool!Jobs, Pool!QueueJob(t, j)
    PROVE  PoolInv'
  <1>1. PICK f \in FixedQueues \cup {InvalidQueue}, k \in Queues, forced \in BOOLEAN :
           /\ Pool!Picks(t, f, forced, k)
           /\ IF k = t /\ ~forced
              THEN Pool!AppendLocal(t, j)
              ELSE Pool!PushShared(t, k, <<j>>) /\ UNCHANGED <<where, local, offer>>
    BY DEF Pool!QueueJob
  <1>2. UNCHANGED <<original, working, event>> /\ ~Pool!Adds(t)
    BY DEF Pool!QueueJob
  <1>3. idle' \subseteq Queues
    BY <1>1 DEF Pool!Picks, PoolInv, PoolTypes
  <1>4. CASE k = t /\ ~forced
    <2>1. where[t] = "job"
      BY <1>4, LocalPartsAssumption DEF LocalPartsAssumption, Pool!QueueJob
    <2>2. QED
      BY <1>1, <1>2, <1>3, <1>4, <2>1, AppendLocalStep
  <1>5. CASE ~(k = t /\ ~forced)
    <2>1. Pool!PushShared(t, k, <<j>>) /\ UNCHANGED <<where, local, offer>>
      BY <1>1, <1>5
    <2>2. <<j>> \in Seq(Pool!Jobs)
      OBVIOUS
    <2>3. local' \in [Queues -> Seq(Pool!Jobs)]
      BY <2>1 DEF PoolInv, PoolTypes
    <2>4. QED
      BY <1>2, <1>3, <2>1, <2>2, <2>3, PushStep
  <1>6. QED
    BY <1>4, <1>5

\* The count of what was pushed: a thread that gives its bit back sees it, and one
\* that sleeps is woken by whoever finds the count zero.
LEMMA CountStep ==
    ASSUME PoolInv, NEW t \in Pool!Threads, Pool!Count(t)
    PROVE  PoolInv'
  <1>1. PoolTypes
    BY DEF PoolInv
  <1>2. PICK k \in Queues, n \in Nat : k = adding[t].queue /\ n = adding[t].n
    BY <1>1 DEF Pool!Count, Pool!Adds, PoolTypes
  <1> DEFINE Signals == working[k] = 0 /\ ~Pool!Processing(k)
  <1>3. /\ working' = [working EXCEPT ![k] = working[k] + n]
        /\ event' = IF Signals THEN [event EXCEPT ![k] = TRUE] ELSE event
        /\ where' = IF Signals /\ where[k] = "none" THEN [where EXCEPT ![k] = "start"] ELSE where
        /\ adding' = [adding EXCEPT ![t] = Pool!Nowhere]
        /\ UNCHANGED <<original, shared, local, idle, offer>>
    BY <1>2 DEF Pool!Count
  <1>4. Pool!Nowhere \in [queue : Queues \cup {InvalidQueue}, n : Nat]
    BY DEF Pool!Nowhere
  <1>5. /\ adding' \in [Pool!Threads -> [queue : Queues \cup {InvalidQueue}, n : Nat]]
        /\ adding'[t] = Pool!Nowhere
        /\ \A u \in Pool!Threads : u # t => adding'[u] = adding[u]
    BY <1>1, <1>3, <1>4 DEF PoolTypes
  <1>6. \A u \in Pool!Threads : adding'[u] # Pool!Nowhere => adding'[u].queue \in Queues
    BY <1>1, <1>5 DEF PoolTypes
  <1>7. working' \in [Queues -> Nat] /\ working'[k] = working[k] + n
    BY <1>1, <1>2, <1>3 DEF PoolTypes
  <1>8. where' \in [Queues -> {"none", "start", "take", "drain", "job", "offer", "unlock", "idle", "wait"}]
    BY <1>1, <1>3 DEF PoolTypes
  <1>9. event' \in [Queues -> BOOLEAN]
    BY <1>1, <1>3 DEF PoolTypes
  <1>10. PoolTypes'
    BY <1>1, <1>3, <1>5, <1>6, <1>7, <1>8, <1>9 DEF PoolTypes
  <1>11. ASSUME NEW q \in Queues, q # k, Announced(q)
         PROVE  Announced(q)'
    <2>1. PICK u \in Pool!Threads : adding[u].queue = q /\ adding[u].n >= 1
      BY <1>11 DEF Announced
    <2>2. u # t
      BY <1>2, <1>11, <2>1
    <2>3. QED
      BY <1>5, <2>1, <2>2 DEF Announced
  <1>12. ASSUME NEW q \in Queues, q # k
         PROVE  QueueSafe(q)'
    <2>1. where'[q] = where[q] /\ working'[q] = working[q] /\ event'[q] = event[q]
      BY <1>1, <1>3, <1>12 DEF PoolTypes
    <2>2. QueueSafe(q) /\ (Awake(q)' <=> Awake(q))
      BY <2>1 DEF PoolInv, Awake
    <2>3. QED
      BY <1>3, <1>11, <1>12, <2>1, <2>2 DEF QueueSafe
  <1>13. QueueSafe(k)'
    <2>1. QueueSafe(k)
      BY <1>2 DEF PoolInv
    <2>2. working[k] \in Nat /\ original[k] \in Nat
      BY <1>1, <1>2 DEF PoolTypes
    <2>3. CASE Awake(k)
      <3>1. where'[k] = where[k]
        BY <1>3, <2>3 DEF Awake
      <3>2. Announced(k) => n >= 1 \/ Announced(k)'
        BY <1>2, <1>5 DEF Announced
      <3>3. where[k] = "unlock" => working[k] >= original[k]
        BY <2>1 DEF QueueSafe
      <3>4. where'[k] = "unlock" /\ shared'[k] # <<>> => working'[k] > original'[k] \/ Announced(k)'
        BY <1>2, <1>3, <1>7, <2>1, <2>2, <3>1, <3>2, <3>3 DEF QueueSafe
      <3>5. where'[k] \in {"drain", "job", "offer", "unlock"} => working'[k] >= original'[k]
        BY <1>2, <1>3, <1>7, <2>1, <2>2, <3>1 DEF QueueSafe
      <3>6. Awake(k)'
        BY <2>3, <3>1 DEF Awake
      <3>7. where'[k] \notin {"drain", "job", "offer"} => local'[k] = <<>>
        BY <1>3, <2>1, <3>1 DEF QueueSafe
      <3>8. QED
        BY <3>4, <3>5, <3>6, <3>7 DEF QueueSafe
    <2>4. CASE ~Awake(k)
      <3>1. ~Pool!Processing(k)
        BY <2>4 DEF Awake, Pool!Processing
      <3>2. working[k] # 0 => event[k]
        BY <2>1, <2>2, <2>4 DEF QueueSafe
      <3>3. event'[k]
        BY <1>1, <1>2, <1>3, <3>1, <3>2 DEF PoolTypes
      <3>4. where'[k] \in {where[k], "start"}
        BY <1>1, <1>2, <1>3 DEF PoolTypes
      <3>5. where[k] \in {"none", "idle", "wait"}
        BY <2>4 DEF Awake
      <3>6. local'[k] = <<>>
        BY <1>3, <2>1, <3>5 DEF QueueSafe
      <3>7. QED
        BY <3>3, <3>4, <3>5, <3>6 DEF QueueSafe
    <2>5. QED
      BY <2>3, <2>4
  <1>14. QED
    BY <1>10, <1>12, <1>13 DEF PoolInv

\* fp_OfferExcessWork: the entries that go are those that are left out of the local part.
LEMMA MigratableBounds ==
    ASSUME PoolTypes, NEW q \in Queues
    PROVE  Pool!Migratable(q) \in 0..Len(local[q])
  <1>1. local[q] \in Seq(Pool!Jobs) /\ Len(local[q]) \in Nat
    BY DEF PoolTypes
  <1> DEFINE L == Len(local[q])
             Splits == {n \in 0..L : n < L => fixed[local[q][L - n]] # InvalidQueue}
             Fits(n) == /\ \A i \in L - n + 1 .. L : fixed[local[q][i]] = InvalidQueue
                        /\ n < L => fixed[local[q][L - n]] # InvalidQueue
  <1>2. L \in Splits /\ Splits \in SUBSET Nat
    BY <1>1
  <1>3. PICK n \in Splits : \A m \in Splits : n <= m
    BY <1>2, Least
  <1>4. ASSUME NEW i \in L - n + 1 .. L
        PROVE  fixed[local[q][i]] = InvalidQueue
    <2>1. L - i \in 0..L /\ L - i < n /\ L - (L - i) = i /\ L - i < L
      BY <1>1, <1>3
    <2>2. L - i \notin Splits
      <3>1. \A m \in Splits : n <= m
        BY <1>3
      <3>2. n \in Int /\ L - i \in Int /\ ~(n <= L - i)
        BY <1>1, <1>3, <2>1
      <3> HIDE DEF Splits
      <3>3. QED
        BY <3>1, <3>2
    <2>3. QED
      BY <2>1, <2>2
  <1>5. n \in 0..L /\ Fits(n)
    BY <1>3, <1>4
  <1>6. \E m \in 0..L : Fits(m)
    BY <1>5
  <1>7. (CHOOSE m \in 0..L : Fits(m)) \in 0..L
    BY <1>6
  <1>8. QED
    BY <1>7 DEF Pool!Migratable

LEMMA MinOfThree ==
    ASSUME NEW a \in Int, NEW b \in Int, NEW c \in Int
    PROVE  /\ Pool!Min({a, b, c}) \in {a, b, c}
           /\ \A x \in {a, b, c} : Pool!Min({a, b, c}) <= x
  <1>1. \E x \in {a, b, c} : \A y \in {a, b, c} : x <= y
    OBVIOUS
  <1>2. QED
    BY <1>1 DEF Pool!Min

LEMMA OfferChunkStep ==
    ASSUME PoolInv, NEW q \in Queues, Pool!OfferChunk(q)
    PROVE  PoolInv'
  <1>1. PoolTypes
    BY DEF PoolInv
  <1>2. local[q] \in Seq(Pool!Jobs) /\ Len(local[q]) \in Nat
    BY <1>1 DEF PoolTypes
  <1>3. offer[q].target \in {0, Target} /\ Target \in Nat /\ Len(local[q]) > offer[q].target
    BY <1>1, LocalPartsAssumption DEF LocalPartsAssumption, Pool!OfferChunk, Pool!CanOffer, PoolTypes
  <1> DEFINE excess == Len(local[q]) - offer[q].target
             Sent(spread) == Pool!Min({(excess + spread - 1) \div spread, Target, Pool!Migratable(q)})
             Kept(spread) == Len(local[q]) - Sent(spread)
  <1>4. PICK k \in idle \ {q}, spread \in IF offer[q].target = 0 THEN 1..Pool!Cardinality(Queues) ELSE {1} :
           /\ Pool!PushShared(q, k, SubSeq(local[q], Kept(spread) + 1, Kept(spread) + Sent(spread)))
           /\ local' = [local EXCEPT ![q] = SubSeq(local[q], 1, Kept(spread))]
           /\ idle' = idle \ {k}
    BY DEF Pool!OfferChunk
  <1>5. k \in Queues
    BY <1>1, <1>4 DEF PoolTypes
  <1>6. spread \in Int /\ spread >= 1
    BY <1>4
  <1>7. (excess + spread - 1) \div spread \in Nat
    <2>1. \A a \in Nat, b \in Nat \ {0} : a \div b \in Nat
      OBVIOUS
    <2>2. excess + spread - 1 \in Nat /\ spread \in Nat \ {0}
      BY <1>2, <1>3, <1>6
    <2>3. QED
      BY <2>1, <2>2
  <1>8. Pool!Migratable(q) \in 0..Len(local[q])
    BY <1>1, MigratableBounds
  <1>9. PICK n \in 0..Len(local[q]) : n = Sent(spread)
    <2> DEFINE a == (excess + spread - 1) \div spread
               b == Pool!Migratable(q)
    <2>1. a \in Int /\ b \in Int /\ b <= Len(local[q]) /\ a >= 0 /\ b >= 0 /\ Target >= 0 /\ Target \in Int
      BY <1>2, <1>3, <1>7, <1>8
    <2> HIDE DEF a, b
    <2>2. Pool!Min({a, Target, b}) \in {a, Target, b} /\ Pool!Min({a, Target, b}) <= b
      BY <2>1, MinOfThree
    <2>3. Pool!Min({a, Target, b}) \in 0..Len(local[q])
      BY <1>2, <2>1, <2>2
    <2>4. QED
      BY <2>3 DEF a, b
  <1> HIDE DEF Sent
  <1>10. PICK kept \in 0..Len(local[q]) : kept = Kept(spread) /\ kept + n = Len(local[q])
    <2>1. Len(local[q]) \in Nat
      BY <1>2
    <2>2. \A len \in Nat : \A i \in 0..len : len - i \in 0..len /\ (len - i) + i = len
      OBVIOUS
    <2>3. Len(local[q]) - n \in 0..Len(local[q]) /\ (Len(local[q]) - n) + n = Len(local[q])
      BY ONLY <2>1, <2>2, <1>9
    <2>4. Kept(spread) = Len(local[q]) - n
      BY <1>9
    <2>5. QED
      BY ONLY <2>3, <2>4
  <1>11. /\ SubSeq(local[q], kept + 1, kept + n) \in Seq(Pool!Jobs)
         /\ SubSeq(local[q], 1, kept) \in Seq(Pool!Jobs)
    BY <1>2, <1>9, <1>10
  <1>12. local' = [local EXCEPT ![q] = SubSeq(local[q], 1, kept)]
    BY <1>4, <1>10
  <1>13. local' \in [Queues -> Seq(Pool!Jobs)]
    BY <1>1, <1>11, <1>12 DEF PoolTypes
  <1>14. Pool!PushShared(q, k, SubSeq(local[q], kept + 1, kept + n))
    BY <1>4, <1>9, <1>10
  <1>15. \A r \in Queues : where[r] \notin {"drain", "job", "offer"} => local'[r] = local[r]
    BY <1>1, <1>12 DEF PoolTypes, Pool!OfferChunk
  <1>16. idle' \subseteq Queues
    BY <1>1, <1>4 DEF PoolTypes
  <1>17. q \in Pool!Threads /\ ~Pool!Adds(q) /\ UNCHANGED <<where, original, working, event, offer>>
    BY DEF Pool!OfferChunk, Pool!Threads
  <1>18. QED
    BY <1>5, <1>11, <1>13, <1>14, <1>15, <1>16, <1>17, PushStep

\* What a thread does with its own queue keeps the types, and what it waits for.
LEMMA RunThreadStep ==
    ASSUME PoolInv, NEW q \in Queues,
           \/ Pool!Wake(q) \/ Pool!TakeBit(q) \/ Pool!Transfer(q) \/ Pool!RunJob(q) \/ Pool!JobEnds(q)
           \/ Pool!OfferEnds(q) \/ Pool!DrainEnds(q) \/ Pool!Unlock(q) \/ Pool!SetQueueIdle(q)
           \/ Pool!DrainCheckpoint(q)
    PROVE  PoolInv'
  <1> DEFINE Places == {"none", "start", "take", "drain", "job", "offer", "unlock", "idle", "wait"}
             Offers == [target : {0, Target}, back : {"drain", "job"}]
  <1>1. PoolTypes /\ QueueSafe(q)
    BY DEF PoolInv
  <1>2. /\ where \in [Queues -> Places] /\ offer \in [Queues -> Offers]
        /\ original \in [Queues -> Nat] /\ working \in [Queues -> Nat] /\ event \in [Queues -> BOOLEAN]
        /\ shared \in [Queues -> Seq(Pool!Jobs)] /\ local \in [Queues -> Seq(Pool!Jobs)]
    BY <1>1 DEF PoolTypes
  <1>3. adding' = adding
    BY DEF Pool!Wake, Pool!TakeBit, Pool!Transfer, Pool!RunJob, Pool!JobEnds, Pool!OfferEnds, Pool!DrainEnds,
           Pool!Unlock, Pool!SetQueueIdle, Pool!DrainCheckpoint, Pool!TransferAndOffer
  <1>4. PICK w \in Places : where' = [where EXCEPT ![q] = w]
    <2>1. where = [where EXCEPT ![q] = where[q]] /\ where[q] \in Places /\ offer[q].back \in {"drain", "job"}
      BY <1>2
    <2>2. QED
      BY <2>1
         DEF Pool!Wake, Pool!TakeBit, Pool!Transfer, Pool!RunJob, Pool!JobEnds, Pool!OfferEnds, Pool!DrainEnds,
             Pool!Unlock, Pool!SetQueueIdle, Pool!DrainCheckpoint, Pool!TransferAndOffer
  <1>5. PICK o \in Offers : offer' = [offer EXCEPT ![q] = o]
    <2>1. offer = [offer EXCEPT ![q] = offer[q]] /\ offer[q] \in Offers
      BY <1>2
    <2>2. \A target \in {0, Target}, back \in {"drain", "job"} : [target |-> target, back |-> back] \in Offers
      OBVIOUS
    <2>3. Pool!NoOffer \in Offers
      BY DEF Pool!NoOffer
    <2>4. QED
      BY <2>1, <2>2, <2>3
         DEF Pool!Wake, Pool!TakeBit, Pool!Transfer, Pool!RunJob, Pool!JobEnds, Pool!OfferEnds, Pool!DrainEnds,
             Pool!Unlock, Pool!SetQueueIdle, Pool!DrainCheckpoint, Pool!TransferAndOffer
  <1>6. PICK n \in Nat, m \in Nat, e \in BOOLEAN :
           /\ original' = [original EXCEPT ![q] = n] /\ working' = [working EXCEPT ![q] = m]
           /\ event' = [event EXCEPT ![q] = e]
    <2>1. /\ original = [original EXCEPT ![q] = original[q]] /\ working = [working EXCEPT ![q] = working[q]]
          /\ event = [event EXCEPT ![q] = event[q]]
          /\ original[q] \in Nat /\ working[q] \in Nat /\ event[q] \in BOOLEAN
      BY <1>2
    <2>2. \E n \in Nat : original' = [original EXCEPT ![q] = n]
      BY <2>1
         DEF Pool!Wake, Pool!TakeBit, Pool!Transfer, Pool!RunJob, Pool!JobEnds, Pool!OfferEnds, Pool!DrainEnds,
             Pool!Unlock, Pool!SetQueueIdle, Pool!DrainCheckpoint, Pool!TransferAndOffer
    <2>3. \E m \in Nat : working' = [working EXCEPT ![q] = m]
      BY <2>1
         DEF Pool!Wake, Pool!TakeBit, Pool!Transfer, Pool!RunJob, Pool!JobEnds, Pool!OfferEnds, Pool!DrainEnds,
             Pool!Unlock, Pool!SetQueueIdle, Pool!DrainCheckpoint, Pool!TransferAndOffer
    <2>4. \E e \in BOOLEAN : event' = [event EXCEPT ![q] = e]
      BY <2>1
         DEF Pool!Wake, Pool!TakeBit, Pool!Transfer, Pool!RunJob, Pool!JobEnds, Pool!OfferEnds, Pool!DrainEnds,
             Pool!Unlock, Pool!SetQueueIdle, Pool!DrainCheckpoint, Pool!TransferAndOffer
    <2>5. QED
      BY <2>2, <2>3, <2>4
  <1>7. PICK s \in Seq(Pool!Jobs), l \in Seq(Pool!Jobs) :
           /\ shared' = [shared EXCEPT ![q] = s] /\ local' = [local EXCEPT ![q] = l]
           /\ s \in {shared[q], <<>>}
    <2>1. /\ shared = [shared EXCEPT ![q] = shared[q]] /\ local = [local EXCEPT ![q] = local[q]]
          /\ shared[q] \in Seq(Pool!Jobs) /\ local[q] \in Seq(Pool!Jobs) /\ <<>> \in Seq(Pool!Jobs)
          /\ local[q] \o shared[q] \in Seq(Pool!Jobs)
          /\ local[q] # <<>> => Tail(local[q]) \in Seq(Pool!Jobs)
      BY <1>2
    <2>2. QED
      BY <2>1
         DEF Pool!Wake, Pool!TakeBit, Pool!Transfer, Pool!RunJob, Pool!JobEnds, Pool!OfferEnds, Pool!DrainEnds,
             Pool!Unlock, Pool!SetQueueIdle, Pool!DrainCheckpoint, Pool!TransferAndOffer
  <1>8. idle' \subseteq Queues
    BY <1>1
       DEF PoolTypes, Pool!Wake, Pool!TakeBit, Pool!Transfer, Pool!RunJob, Pool!JobEnds, Pool!OfferEnds,
           Pool!DrainEnds, Pool!Unlock, Pool!SetQueueIdle, Pool!DrainCheckpoint, Pool!TransferAndOffer
  <1>9. PoolTypes'
    BY <1>1, <1>2, <1>3, <1>4, <1>5, <1>6, <1>7, <1>8 DEF PoolTypes
  <1>10. QueueSafe(q)'
    <2>1. /\ where'[q] = w /\ original'[q] = n /\ working'[q] = m /\ event'[q] = e
          /\ shared'[q] = s /\ local'[q] = l
      BY <1>2, <1>4, <1>6, <1>7
    <2>2. Announced(q)' <=> Announced(q)
      BY <1>3 DEF Announced
    <2>3. CASE Pool!Wake(q)
      BY <1>1, <1>2, <2>1, <2>3 DEF Pool!Wake, QueueSafe, Awake
    <2>4. CASE Pool!TakeBit(q)
      BY <1>1, <1>2, <2>1, <2>4 DEF Pool!TakeBit, QueueSafe, Awake
    <2>5. CASE Pool!Transfer(q)
      BY <1>1, <1>2, <2>1, <2>5 DEF Pool!Transfer, QueueSafe, Awake
    <2>6. CASE Pool!RunJob(q)
      BY <1>1, <1>2, <2>1, <2>6 DEF Pool!RunJob, QueueSafe, Awake
    <2>7. CASE Pool!JobEnds(q)
      BY <1>1, <1>2, <2>1, <2>7 DEF Pool!JobEnds, Pool!TransferAndOffer, QueueSafe, Awake
    <2>8. CASE Pool!OfferEnds(q)
      BY <1>1, <1>2, <2>1, <2>8 DEF Pool!OfferEnds, QueueSafe, Awake
    <2>9. CASE Pool!DrainEnds(q)
      BY <1>1, <1>2, <2>1, <2>9 DEF Pool!DrainEnds, QueueSafe, Awake
    <2>10. CASE Pool!Unlock(q)
      BY <1>1, <1>2, <2>1, <2>2, <2>10 DEF Pool!Unlock, QueueSafe, Awake
    <2>11. CASE Pool!SetQueueIdle(q)
      BY <1>1, <1>2, <2>1, <2>2, <2>11 DEF Pool!SetQueueIdle, QueueSafe, Awake
    <2>12. CASE Pool!DrainCheckpoint(q)
      BY <1>1, <1>2, <2>1, <2>12 DEF Pool!DrainCheckpoint, Pool!TransferAndOffer, QueueSafe, Awake
    <2>13. QED
      BY <2>3, <2>4, <2>5, <2>6, <2>7, <2>8, <2>9, <2>10, <2>11, <2>12
  <1>11. \A r \in Queues \ {q} :
            /\ where'[r] = where[r] /\ original'[r] = original[r] /\ working'[r] = working[r]
            /\ event'[r] = event[r] /\ shared'[r] = shared[r] /\ local'[r] = local[r]
    BY <1>2, <1>4, <1>6, <1>7
  <1>12. QED
    BY <1>3, <1>9, <1>10, <1>11, OwnStep

\* The invariant of the pool threads holds, whoever pushes and whoever goes to sleep.
THEOREM PoolInvariance == Spec => []PoolInv
  <1>1. Init => PoolInv
    <2>1. SUFFICES ASSUME Init PROVE PoolInv
      OBVIOUS
    <2>2. Pool!Init
      BY <2>1 DEF Init
    <2>3. PoolTypes
      BY <2>2 DEF Pool!Init, PoolTypes, Pool!Nowhere, Pool!NoOffer
    <2>4. \A q \in Queues : QueueSafe(q)
      BY <2>2 DEF Pool!Init, QueueSafe
    <2>5. QED
      BY <2>3, <2>4 DEF PoolInv
  <1>2. PoolInv /\ [Next]_vars => PoolInv'
    <2>1. ASSUME PoolInv, UNCHANGED poolVars
          PROVE  PoolInv'
      BY <2>1 DEF PoolInv, PoolTypes, QueueSafe, Awake, Announced, poolVars
    <2>2. ASSUME PoolInv, Pool!Next
          PROVE  PoolInv'
      BY <2>2, CountStep, QueueJobStep, RunThreadStep, OfferChunkStep DEF Pool!Next, Pool!RunThread
    <2>3. [Next]_vars => Pool!Next \/ UNCHANGED poolVars
      BY DEF Next, Only, vars
    <2>4. QED
      BY <2>1, <2>2, <2>3
  <1>3. QED
    BY <1>1, <1>2, PTL DEF Spec

LEMMA SleepersAreWoken == PoolInv => Pool!NoSleepWithWork
  <1>1. SUFFICES ASSUME PoolInv,
                        NEW q \in Queues, shared[q] \o local[q] # <<>>, where[q] \in {"none", "idle", "wait"}
                 PROVE  event[q] \/ \E t \in Pool!Threads : adding[t].queue = q
    BY DEF Pool!NoSleepWithWork
  <1>2. QueueSafe(q) /\ ~Awake(q)
    BY <1>1 DEF PoolInv, Awake
  <1>3. local[q] = <<>> /\ <<>> \o <<>> = <<>>
    BY <1>1, <1>2 DEF QueueSafe
  <1>4. shared[q] # <<>>
    BY <1>1, <1>3
  <1>5. QED
    BY <1>2, <1>4 DEF QueueSafe, Announced

----------------------------------------------------------------------------
(* What the runs check of two parts at a time.                               *)

\* A future is given the result of its promise once, whoever publishes last
\* (f_OnResult), and the calls of one timer do not overlap (f_CallTimer).
THEOREM EachIsDeliveredOnce == Spec => []DeliveredOnce
  <1>1. PromiseInv /\ TimerInv => DeliveredOnce
    BY OneResult, TimerOrderly DEF DeliveredOnce
  <1>2. QED
    BY <1>1, PromiseInvariance, TimerInvariance, PTL

\* No pool thread sleeps on a queue with jobs unless somebody is about to wake it
\* (fp_AddToQueue, fp_RunThread), and none sleeps past the time of a timer.
THEOREM NobodySleepsOnWork == Spec => []NoSleepWithWork
  <1>1. PoolInv /\ TimerInv => NoSleepWithWork
    BY SleepersAreWoken, TimersKept DEF NoSleepWithWork
  <1>2. QED
    BY <1>1, PoolInvariance, TimerInvariance, PTL
=============================================================================
