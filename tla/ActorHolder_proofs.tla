------------------------- MODULE ActorHolder_proofs -------------------------
(***************************************************************************)
(* For any callers, workers and bounds: one thread at a time runs the       *)
(* actor, no wakeup is lost, and calls of an actor that is not fixed to a   *)
(* queue are processed in the order they were called.                       *)
(***************************************************************************)
EXTENDS ActorHolder, TLAPS, FiniteSets, FiniteSetTheorems, SequenceTheorems

Pending == queue # <<>> \/ shared # <<>>

\* Somebody will take a run, and a caller has yet to increment.
Awake == owed > 0 \/ runs > 0 \/ \E t \in Caller \cup Worker : at[t] \in {"start", "requeue", "wake"}
Pushing == \E c \in Caller : at[c] = "pushed"

\* Before the constructor runs nothing has happened; a caller is never in
\* fp_RunProcess, a worker never between a push and its increment.
Places ==
    /\ actor = "none" =>
          /\ ~Pending /\ runs = 0 /\ count = 0 /\ owed = 0
          /\ \A t \in Caller \cup Worker : at[t] = "idle"
    /\ \A c \in Caller : at[c] \in {"idle", "pushed", "wake"}
    /\ \A w \in Worker : at[w] # "pushed"
    /\ \A w \in Worker \ Local : at[w] # "wake"
    /\ actor \in {"constructing", "leaving", "failing"} => owed <= 1

\* The processing bit is a lock: it is set exactly while the actor is
\* constructed or one worker is in fp_RunProcess.
Locked ==
    /\ \A w \in Worker : at[w] \in Section => busy /\ actor \in {"alive", "failed"}
    /\ \A v, w \in Worker : at[v] \in Section /\ at[w] \in Section => v = w
    /\ actor \in Construction => busy
    /\ busy => actor \in Construction \/ \E w \in Worker : at[w] \in Section

\* What the word says while the bit is clear: a count means a run is coming,
\* and so does an entry whose caller has incremented.
Promised ==
    /\ ~busy /\ count > 0 => Awake
    /\ ~busy /\ actor = "alive" /\ Pending => Awake \/ Pushing

\* What it says while the bit is set: an entry that came after the transfer
\* changed the count or is about to.
Counted ==
    /\ \A w \in Worker : at[w] \in Section => count >= orig[w]
    /\ \A w \in Worker :
          at[w] \in {"dequeue", "job", "unlock"} /\ shared # <<>> =>
             count > orig[w] \/ Pushing
    /\ \A w \in Worker : at[w] = "unlock" => queue = <<>>
    /\ actor = "leaving" /\ Pending => owed > 0 \/ count > 0 \/ Pushing

IInv == TypeOK /\ Places /\ Locked /\ Promised /\ Counted

-----------------------------------------------------------------------------
\* A party's calls are finitely many, so the next one has a number.
LEMMA CallsType ==
    ASSUME TypeOK, NEW p \in Party, Calls(p)
    PROVE  /\ NextCall(p) \in DOMAIN past'
           /\ DOMAIN past \subseteq DOMAIN past'
           /\ DOMAIN past' \subseteq Call
           /\ \A x \in DOMAIN past' : past'[x] \subseteq Call
           /\ knows' \in [Party -> SUBSET Call]
           /\ current' = current /\ over' = over
  <1>1. IsFiniteSet(1..MaxCalls)
    BY ActorHolderAssumption, FS_Interval DEF ActorHolderAssumption
  <1>2. IsFiniteSet(Made(p))
    BY <1>1, FS_Subset DEF Made
  <1>3. Cardinality(Made(p)) \in Nat
    BY <1>2, FS_CardinalityType
  <1>4. NextCall(p) \in Call
    BY <1>3, ActorHolderAssumption DEF Calls, NextCall, Call, ActorHolderAssumption
  <1>5. QED
    BY <1>4 DEF Calls, TypeOK

\* The queues and what is processed stay recorded when a call is made.
LEMMA StaysRecorded ==
    ASSUME TypeOK, DOMAIN past \subseteq DOMAIN past'
    PROVE  /\ shared \in Seq(DOMAIN past') /\ queue \in Seq(DOMAIN past')
           /\ current \in [Worker -> SUBSET DOMAIN past']
  BY DEF TypeOK

\* Reversing a sequence keeps its elements and its length (f_TransferThreadSafeQueue).
LEMMA ReverseType ==
    ASSUME NEW S, NEW s \in Seq(S)
    PROVE  /\ Reverse(s) \in Seq(S)
           /\ Len(Reverse(s)) = Len(s)
           /\ \A i \in 1..Len(s) : Reverse(s)[i] = s[Len(s) - i + 1]
  BY DEF Reverse

\* A transfer loses no entry: the local queue holds what both queues held.
LEMMA TransferredType ==
    ASSUME TypeOK
    PROVE  /\ Transferred \in Seq(DOMAIN past)
           /\ Transferred # <<>> <=> Pending
  <1>1. shared \in Seq(DOMAIN past) /\ queue \in Seq(DOMAIN past)
    BY DEF TypeOK
  <1>2. Reverse(shared) \in Seq(DOMAIN past) /\ (Reverse(shared) = <<>> <=> shared = <<>>)
    BY <1>1, ReverseType, EmptySeq
  <1>3. /\ Transferred \in Seq(DOMAIN past)
        /\ Transferred = <<>> <=> queue = <<>> /\ Reverse(shared) = <<>>
    BY <1>1, <1>2, ConcatProperties, ConcatEqualIffEmpty DEF Transferred
  <1>4. QED
    BY <1>2, <1>3 DEF Pending

\* A holder without an actor satisfies the invariant.
LEMMA InitIInv == Init => IInv
  <1> SUFFICES ASSUME Init PROVE IInv
    OBVIOUS
  <1>1. at \in [Caller \cup Worker -> Where]
    BY DEF Init, Where
  <1>2. TypeOK
    <2>1. DOMAIN past = {}
      BY DEF Init
    <2>2. shared \in Seq(DOMAIN past) /\ queue \in Seq(DOMAIN past)
      BY DEF Init
    <2>3. current \in [Worker -> SUBSET DOMAIN past] /\ knows \in [Party -> SUBSET Call]
      BY DEF Init
    <2>4. yields \in 0..MaxYields /\ owed \in 0..2
      BY ActorHolderAssumption DEF Init, ActorHolderAssumption
    <2>5. /\ orig \in [Worker -> Nat] /\ again \in [Worker -> BOOLEAN]
          /\ busy \in BOOLEAN /\ count \in Nat /\ yielding \in BOOLEAN /\ runs \in Nat
          /\ actor = "none" /\ over \subseteq Call
      BY DEF Init
    <2>6. QED
      BY <1>1, <2>1, <2>2, <2>3, <2>4, <2>5 DEF TypeOK
  <1>3. Places /\ Locked /\ Promised /\ Counted
    BY DEF Init, Places, Pending, Construction, Locked, Section, Promised, Counted
  <1>4. QED
    BY <1>2, <1>3 DEF IInv

\* fp_ConstructActor sets the processing bit before anything else.
LEMMA ConstructActorStep ==
    ASSUME IInv, ConstructActor
    PROVE  IInv'
  <1>0. TypeOK /\ Places /\ Locked /\ Promised /\ Counted
    BY DEF IInv
  <1>1. TypeOK'
    BY <1>0 DEF ConstructActor, queues, run, history, TypeOK, Where, Construction, Party
  <1>2. Places'
    BY <1>0 DEF ConstructActor, queues, run, history, TypeOK, Places, Pending, Construction, Locked, Section, Where
  <1>3. Locked'
    BY <1>0 DEF ConstructActor, queues, run, history, TypeOK, Places, Locked, Section, Construction
  <1>4. Promised'
    BY <1>0 DEF ConstructActor, queues, run, history, TypeOK, Places, Locked, Section, Construction, Promised, Awake, Pushing, Pending, Counted
  <1>5. Counted'
    BY <1>0 DEF ConstructActor, queues, run, history, TypeOK, Places, Locked, Section, Construction, Counted, Pushing, Pending
  <1>6. QED
    BY <1>1, <1>2, <1>3, <1>4, <1>5 DEF IInv

\* Calls the constructor makes wait behind the bit.
LEMMA ConstructCallsStep ==
    ASSUME IInv, ConstructCalls
    PROVE  IInv'
  <1>0. TypeOK /\ Places /\ Locked /\ Promised /\ Counted
    BY DEF IInv
  <1>1. /\ NextCall(Self) \in DOMAIN past' /\ DOMAIN past \subseteq DOMAIN past' /\ DOMAIN past' \subseteq Call
        /\ \A x \in DOMAIN past' : past'[x] \subseteq Call
        /\ knows' \in [Party -> SUBSET Call]
        /\ current' = current /\ over' = over
    BY <1>0, CallsType DEF ConstructCalls, Party
  <1>2. /\ shared \in Seq(DOMAIN past') /\ queue \in Seq(DOMAIN past')
        /\ current \in [Worker -> SUBSET DOMAIN past']
    BY <1>0, <1>1, StaysRecorded
  <1>3. TypeOK'
    BY <1>0, <1>1, <1>2 DEF ConstructCalls, word, run, TypeOK, Where, Construction, Party
  <1>4. Places'
    BY <1>0, <1>1, <1>2 DEF ConstructCalls, word, run, TypeOK, Places, Pending, Construction, Locked, Section, Where
  <1>5. Locked'
    BY <1>0, <1>1, <1>2 DEF ConstructCalls, word, run, TypeOK, Places, Locked, Section, Construction
  <1>6. Promised'
    BY <1>0, <1>1, <1>2 DEF ConstructCalls, word, run, TypeOK, Places, Locked, Section, Construction, Promised, Awake, Pushing, Pending, Counted
  <1>7. Counted'
    BY <1>0, <1>1, <1>2 DEF ConstructCalls, word, run, TypeOK, Places, Locked, Section, Construction, Counted, Pushing, Pending
  <1>8. QED
    BY <1>3, <1>4, <1>5, <1>6, <1>7 DEF IInv

\* The constructing thread owes a run for what is in the queues.
LEMMA ConstructedStep ==
    ASSUME IInv, Constructed
    PROVE  IInv'
  <1>0. TypeOK /\ Places /\ Locked /\ Promised /\ Counted
    BY DEF IInv
  <1>1. Transferred \in Seq(DOMAIN past) /\ (Transferred # <<>> <=> Pending)
    BY <1>0, TransferredType
  <1>2. TypeOK'
    BY <1>0, <1>1 DEF Constructed, word, queues, run, history, TypeOK, Where, Construction, Party
  <1>3. Places'
    BY <1>0, <1>1 DEF Constructed, word, queues, run, history, TypeOK, Places, Pending, Construction, Locked, Section, Where
  <1>4. Locked'
    BY <1>0, <1>1 DEF Constructed, word, queues, run, history, TypeOK, Places, Locked, Section, Construction
  <1>5. Promised'
    BY <1>0, <1>1 DEF Constructed, word, queues, run, history, TypeOK, Places, Locked, Section, Construction, Promised, Awake, Pushing, Pending, Counted
  <1>6. Counted'
    BY <1>0, <1>1 DEF Constructed, word, queues, run, history, TypeOK, Places, Locked, Section, Construction, Counted, Pushing, Pending
  <1>7. QED
    BY <1>2, <1>3, <1>4, <1>5, <1>6 DEF IInv

\* Clearing the word after construction owes a run if the count changed.
LEMMA ConstructLeavesStep ==
    ASSUME IInv, ConstructLeaves
    PROVE  IInv'
  <1>0. TypeOK /\ Places /\ Locked /\ Promised /\ Counted
    BY DEF IInv
  <1>1. TypeOK'
    <2>1. owed' \in 0..2
      BY <1>0 DEF ConstructLeaves, TypeOK, Places
    <2>2. QED
      BY <1>0, <2>1 DEF ConstructLeaves, queues, run, history, TypeOK
  <1>2. Places'
    BY <1>0 DEF ConstructLeaves, queues, run, history, TypeOK, Places, Pending, Construction, Locked, Section, Where
  <1>3. Locked'
    BY <1>0 DEF ConstructLeaves, queues, run, history, TypeOK, Places, Locked, Section, Construction
  <1>4. Promised'
    BY <1>0 DEF ConstructLeaves, queues, run, history, TypeOK, Places, Locked, Section, Construction, Promised, Awake, Pushing, Pending, Counted
  <1>5. Counted'
    BY <1>0 DEF ConstructLeaves, queues, run, history, TypeOK, Places, Locked, Section, Construction, Counted, Pushing, Pending
  <1>6. QED
    BY <1>1, <1>2, <1>3, <1>4, <1>5 DEF IInv

\* What was owed becomes a run.
LEMMA ConstructQueuesRunStep ==
    ASSUME IInv, ConstructQueuesRun
    PROVE  IInv'
  <1>0. TypeOK /\ Places /\ Locked /\ Promised /\ Counted
    BY DEF IInv
  <1>1. TypeOK'
    BY <1>0 DEF ConstructQueuesRun, word, queues, history, TypeOK, Where, Construction, Party
  <1>2. Places'
    BY <1>0 DEF ConstructQueuesRun, word, queues, history, TypeOK, Places, Pending, Construction, Locked, Section, Where
  <1>3. Locked'
    BY <1>0 DEF ConstructQueuesRun, word, queues, history, TypeOK, Places, Locked, Section, Construction
  <1>4. Promised'
    BY <1>0 DEF ConstructQueuesRun, word, queues, history, TypeOK, Places, Locked, Section, Construction, Promised, Awake, Pushing, Pending, Counted
  <1>5. Counted'
    BY <1>0 DEF ConstructQueuesRun, word, queues, history, TypeOK, Places, Locked, Section, Construction, Counted, Pushing, Pending
  <1>6. QED
    BY <1>1, <1>2, <1>3, <1>4, <1>5 DEF IInv

\* A pushed entry is covered by the increment its caller is about to do.
LEMMA PushStep ==
    ASSUME IInv, NEW c \in Caller, Push(c)
    PROVE  IInv'
  <1>0. TypeOK /\ Places /\ Locked /\ Promised /\ Counted
    BY DEF IInv
  <1>1. /\ NextCall(c) \in DOMAIN past' /\ DOMAIN past \subseteq DOMAIN past' /\ DOMAIN past' \subseteq Call
        /\ \A x \in DOMAIN past' : past'[x] \subseteq Call
        /\ knows' \in [Party -> SUBSET Call]
        /\ current' = current /\ over' = over
    BY <1>0, CallsType DEF Push, Party
  <1>2. /\ shared \in Seq(DOMAIN past') /\ queue \in Seq(DOMAIN past')
        /\ current \in [Worker -> SUBSET DOMAIN past']
    BY <1>0, <1>1, StaysRecorded
  <1>3. TypeOK'
    BY <1>0, ActorHolderAssumption, <1>1, <1>2 DEF ActorHolderAssumption, Push, Goes, word, run, TypeOK, Where, Construction, Party
  <1>4. Places'
    BY <1>0, ActorHolderAssumption, <1>1, <1>2 DEF ActorHolderAssumption, Push, Goes, word, run, TypeOK, Places, Pending, Construction, Locked, Section, Where
  <1>5. Locked'
    BY <1>0, ActorHolderAssumption, <1>1, <1>2 DEF ActorHolderAssumption, Push, Goes, word, run, TypeOK, Places, Locked, Section, Construction
  <1>6. Promised'
    BY <1>0, ActorHolderAssumption, <1>1, <1>2 DEF ActorHolderAssumption, Push, Goes, word, run, TypeOK, Places, Locked, Section, Construction, Promised, Awake, Pushing, Pending, Counted
  <1>7. Counted'
    BY <1>0, ActorHolderAssumption, <1>1, <1>2 DEF ActorHolderAssumption, Push, Goes, word, run, TypeOK, Places, Locked, Section, Construction, Counted, Pushing, Pending
  <1>8. QED
    BY <1>3, <1>4, <1>5, <1>6, <1>7 DEF IInv

\* The increment takes over: the word is not zero, or the caller queues a run.
LEMMA IncrementStep ==
    ASSUME IInv, NEW c \in Caller, Increment(c)
    PROVE  IInv'
  <1>0. TypeOK /\ Places /\ Locked /\ Promised /\ Counted
    BY DEF IInv
  <1>1. TypeOK'
    BY <1>0 DEF Increment, Goes, queues, run, history, TypeOK, Where, Construction, Party
  <1>2. Places'
    BY <1>0 DEF Increment, Goes, queues, run, history, TypeOK, Places, Pending, Construction, Locked, Section, Where
  <1>3. Locked'
    BY <1>0 DEF Increment, Goes, queues, run, history, TypeOK, Places, Locked, Section, Construction
  <1>4. Promised'
    BY <1>0 DEF Increment, Goes, queues, run, history, TypeOK, Places, Locked, Section, Construction, Promised, Awake, Pushing, Pending, Counted
  <1>5. Counted'
    BY <1>0 DEF Increment, Goes, queues, run, history, TypeOK, Places, Locked, Section, Construction, Counted, Pushing, Pending
  <1>6. QED
    BY <1>1, <1>2, <1>3, <1>4, <1>5 DEF IInv

\* A caller that found the word zero hands over to the run it queues.
LEMMA QueueRunStep ==
    ASSUME IInv, NEW c \in Caller \cup Local, QueueRun(c)
    PROVE  IInv'
  <1>0. TypeOK /\ Places /\ Locked /\ Promised /\ Counted
    BY DEF IInv
  <1>1. TypeOK'
    BY <1>0, ActorHolderAssumption DEF ActorHolderAssumption, QueueRun, Goes, word, queues, history, TypeOK, Where, Construction, Party
  <1>2. Places'
    BY <1>0, ActorHolderAssumption DEF ActorHolderAssumption, QueueRun, Goes, word, queues, history, TypeOK, Places, Pending, Construction, Locked, Section, Where
  <1>3. Locked'
    BY <1>0, ActorHolderAssumption DEF ActorHolderAssumption, QueueRun, Goes, word, queues, history, TypeOK, Places, Locked, Section, Construction
  <1>4. Promised'
    BY <1>0, ActorHolderAssumption DEF ActorHolderAssumption, QueueRun, Goes, word, queues, history, TypeOK, Places, Locked, Section, Construction, Promised, Awake, Pushing, Pending, Counted
  <1>5. Counted'
    BY <1>0, ActorHolderAssumption DEF ActorHolderAssumption, QueueRun, Goes, word, queues, history, TypeOK, Places, Locked, Section, Construction, Counted, Pushing, Pending
  <1>6. QED
    BY <1>1, <1>2, <1>3, <1>4, <1>5 DEF IInv

\* A call on the thread the actor is fixed to counts if the queue was empty.
LEMMA FixedCallStep ==
    ASSUME IInv, NEW w \in Worker, w \in Local, FixedCall(w)
    PROVE  IInv'
  <1>0. TypeOK /\ Places /\ Locked /\ Promised /\ Counted
    BY DEF IInv
  <1>1. /\ NextCall(w) \in DOMAIN past' /\ DOMAIN past \subseteq DOMAIN past' /\ DOMAIN past' \subseteq Call
        /\ \A x \in DOMAIN past' : past'[x] \subseteq Call
        /\ knows' \in [Party -> SUBSET Call]
        /\ current' = current /\ over' = over
    BY <1>0, CallsType DEF FixedCall, Party
  <1>2. /\ shared \in Seq(DOMAIN past') /\ queue \in Seq(DOMAIN past')
        /\ current \in [Worker -> SUBSET DOMAIN past']
    BY <1>0, <1>1, StaysRecorded
  <1>3. TypeOK'
    BY <1>0, ActorHolderAssumption, <1>1, <1>2 DEF ActorHolderAssumption, FixedCall, run, TypeOK, Where, Construction, Party
  <1>4. Places'
    BY <1>0, ActorHolderAssumption, <1>1, <1>2 DEF ActorHolderAssumption, FixedCall, run, TypeOK, Places, Pending, Construction, Locked, Section, Where
  <1>5. Locked'
    BY <1>0, ActorHolderAssumption, <1>1, <1>2 DEF ActorHolderAssumption, FixedCall, run, TypeOK, Places, Locked, Section, Construction
  <1>6. Promised'
    BY <1>0, ActorHolderAssumption, <1>1, <1>2 DEF ActorHolderAssumption, FixedCall, run, TypeOK, Places, Locked, Section, Construction, Promised, Awake, Pushing, Pending, Counted
  <1>7. Counted'
    BY <1>0, ActorHolderAssumption, <1>1, <1>2 DEF ActorHolderAssumption, FixedCall, run, TypeOK, Places, Locked, Section, Construction, Counted, Pushing, Pending
  <1>8. QED
    BY <1>3, <1>4, <1>5, <1>6, <1>7 DEF IInv

\* What the parties know of does not concern the holder.
LEMMA TellsStep ==
    ASSUME IInv, NEW p \in Caller \cup {Self}, NEW q \in Caller \cup Local, Tells(p, q)
    PROVE  IInv'
  <1>0. TypeOK /\ Places /\ Locked /\ Promised /\ Counted
    BY DEF IInv
  <1>1. TypeOK'
    BY <1>0 DEF Tells, word, queues, run, TypeOK, Where, Construction, Party
  <1>2. Places'
    BY <1>0 DEF Tells, word, queues, run, TypeOK, Places, Pending, Construction, Locked, Section, Where
  <1>3. Locked'
    BY <1>0 DEF Tells, word, queues, run, TypeOK, Places, Locked, Section, Construction
  <1>4. Promised'
    BY <1>0 DEF Tells, word, queues, run, TypeOK, Places, Locked, Section, Construction, Promised, Awake, Pushing, Pending, Counted
  <1>5. Counted'
    BY <1>0 DEF Tells, word, queues, run, TypeOK, Places, Locked, Section, Construction, Counted, Pushing, Pending
  <1>6. QED
    BY <1>1, <1>2, <1>3, <1>4, <1>5 DEF IInv

\* A pool thread takes a run and is awake in its place.
LEMMA TakeRunStep ==
    ASSUME IInv, NEW w \in Worker, TakeRun(w)
    PROVE  IInv'
  <1>0. TypeOK /\ Places /\ Locked /\ Promised /\ Counted
    BY DEF IInv
  <1>1. TypeOK'
    BY <1>0, ActorHolderAssumption DEF ActorHolderAssumption, TakeRun, Goes, word, queues, history, TypeOK, Where, Construction, Party
  <1>2. Places'
    BY <1>0, ActorHolderAssumption DEF ActorHolderAssumption, TakeRun, Goes, word, queues, history, TypeOK, Places, Pending, Construction, Locked, Section, Where
  <1>3. Locked'
    BY <1>0, ActorHolderAssumption DEF ActorHolderAssumption, TakeRun, Goes, word, queues, history, TypeOK, Places, Locked, Section, Construction
  <1>4. Promised'
    BY <1>0, ActorHolderAssumption DEF ActorHolderAssumption, TakeRun, Goes, word, queues, history, TypeOK, Places, Locked, Section, Construction, Promised, Awake, Pushing, Pending, Counted
  <1>5. Counted'
    BY <1>0, ActorHolderAssumption DEF ActorHolderAssumption, TakeRun, Goes, word, queues, history, TypeOK, Places, Locked, Section, Construction, Counted, Pushing, Pending
  <1>6. QED
    BY <1>1, <1>2, <1>3, <1>4, <1>5 DEF IInv

\* One run takes the bit; a run that finds it set may leave, as its owner
\* will see the count.
LEMMA TakeBitStep ==
    ASSUME IInv, NEW w \in Worker, TakeBit(w)
    PROVE  IInv'
  <1>0. TypeOK /\ Places /\ Locked /\ Promised /\ Counted
    BY DEF IInv
  <1>1. TypeOK'
    BY <1>0 DEF TakeBit, Goes, queues, history, TypeOK, Where, Construction, Party
  <1>2. Places'
    BY <1>0 DEF TakeBit, Goes, queues, history, TypeOK, Places, Pending, Construction, Locked, Section, Where
  <1>3. Locked'
    BY <1>0 DEF TakeBit, Goes, queues, history, TypeOK, Places, Locked, Section, Construction
  <1>4. Promised'
    BY <1>0 DEF TakeBit, Goes, queues, history, TypeOK, Places, Locked, Section, Construction, Promised, Awake, Pushing, Pending, Counted
  <1>5. Counted'
    BY <1>0 DEF TakeBit, Goes, queues, history, TypeOK, Places, Locked, Section, Construction, Counted, Pushing, Pending
  <1>6. QED
    BY <1>1, <1>2, <1>3, <1>4, <1>5 DEF IInv

\* The transfer empties the shared queue for a run that holds the bit.
LEMMA TransferStep ==
    ASSUME IInv, NEW w \in Worker, Transfer(w)
    PROVE  IInv'
  <1>0. TypeOK /\ Places /\ Locked /\ Promised /\ Counted
    BY DEF IInv
  <1>1. Transferred \in Seq(DOMAIN past) /\ (Transferred # <<>> <=> Pending)
    BY <1>0, TransferredType
  <1>2. TypeOK'
    BY <1>0, <1>1 DEF Transfer, Goes, word, history, TypeOK, Where, Construction, Party
  <1>3. Places'
    BY <1>0, <1>1 DEF Transfer, Goes, word, history, TypeOK, Places, Pending, Construction, Locked, Section, Where
  <1>4. Locked'
    BY <1>0, <1>1 DEF Transfer, Goes, word, history, TypeOK, Places, Locked, Section, Construction
  <1>5. Promised'
    BY <1>0, <1>1 DEF Transfer, Goes, word, history, TypeOK, Places, Locked, Section, Construction, Promised, Awake, Pushing, Pending, Counted
  <1>6. Counted'
    BY <1>0, <1>1 DEF Transfer, Goes, word, history, TypeOK, Places, Locked, Section, Construction, Counted, Pushing, Pending
  <1>7. QED
    BY <1>2, <1>3, <1>4, <1>5, <1>6 DEF IInv

\* Taking an entry off keeps the bit.
LEMMA DequeueStep ==
    ASSUME IInv, NEW w \in Worker, Dequeue(w)
    PROVE  IInv'
  <1>0. TypeOK /\ Places /\ Locked /\ Promised /\ Counted
    BY DEF IInv
  <1>1. /\ Head(queue) \in DOMAIN past /\ Head(queue) \in Call /\ past[Head(queue)] \subseteq Call
        /\ Tail(queue) \in Seq(DOMAIN past)
    BY <1>0 DEF TypeOK, Dequeue
  <1>2. /\ at' \in [Caller \cup Worker -> Where]
        /\ at'[w] \in {"dequeue", "job"} /\ at[w] = "dequeue"
        /\ \A t \in Caller \cup Worker : t # w => at'[t] = at[t]
        /\ actor # "alive" => at' = at
    BY <1>0 DEF TypeOK, Dequeue, Goes, Where
  <1>3. TypeOK'
    <2>1. over' \subseteq Call /\ again' \in [Worker -> BOOLEAN]
      BY <1>0, <1>1 DEF Dequeue, TypeOK
    <2>2. current' \in [Worker -> SUBSET DOMAIN past] /\ knows' \in [Party -> SUBSET Call]
      <3>0. /\ current \in [Worker -> SUBSET DOMAIN past]
            /\ knows \in [Party -> SUBSET Call]
        BY <1>0 DEF TypeOK
      <3>1. CASE actor = "alive"
        <4>1. {Head(queue)} \in SUBSET DOMAIN past
          BY <1>1
        <4>2. knows[Self] \cup {Head(queue)} \cup past[Head(queue)] \in SUBSET Call
          BY <1>1, <3>0 DEF Party
        <4>3. /\ current' = [current EXCEPT ![w] = {Head(queue)}]
              /\ knows' = [knows EXCEPT ![Self] = knows[Self] \cup {Head(queue)} \cup past[Head(queue)]]
          BY <3>1 DEF Dequeue
        <4>4. QED
          BY <3>0, <4>1, <4>2, <4>3
      <3>2. CASE actor # "alive"
        BY <3>0, <3>2 DEF Dequeue
      <3>3. QED
        BY <3>1, <3>2
    <2>3. QED
      BY <1>0, <1>1, <1>2, <2>1, <2>2 DEF Dequeue, word, TypeOK
  <1>4. Places'
    BY <1>0, <1>1, <1>2 DEF Dequeue, Goes, word, TypeOK, Places, Pending, Construction, Locked, Section, Where
  <1>5. Locked'
    BY <1>0, <1>1, <1>2 DEF Dequeue, Goes, word, TypeOK, Places, Locked, Section, Construction
  <1>6. Promised'
    BY <1>0, <1>1, <1>2 DEF Dequeue, Goes, word, TypeOK, Places, Locked, Section, Construction, Promised, Awake, Pushing, Pending, Counted
  <1>7. Counted'
    BY <1>0, <1>1, <1>2 DEF Dequeue, Goes, word, TypeOK, Places, Locked, Section, Construction, Counted, Pushing, Pending
  <1>8. QED
    BY <1>3, <1>4, <1>5, <1>6, <1>7 DEF IInv

\* The bit is given back only with an empty local queue.
LEMMA DequeueEmptyStep ==
    ASSUME IInv, NEW w \in Worker, DequeueEmpty(w)
    PROVE  IInv'
  <1>0. TypeOK /\ Places /\ Locked /\ Promised /\ Counted
    BY DEF IInv
  <1>1. TypeOK'
    BY <1>0 DEF DequeueEmpty, Goes, word, queues, run, history, TypeOK, Where, Construction, Party
  <1>2. Places'
    BY <1>0 DEF DequeueEmpty, Goes, word, queues, run, history, TypeOK, Places, Pending, Construction, Locked, Section, Where
  <1>3. Locked'
    BY <1>0 DEF DequeueEmpty, Goes, word, queues, run, history, TypeOK, Places, Locked, Section, Construction
  <1>4. Promised'
    BY <1>0 DEF DequeueEmpty, Goes, word, queues, run, history, TypeOK, Places, Locked, Section, Construction, Promised, Awake, Pushing, Pending, Counted
  <1>5. Counted'
    BY <1>0 DEF DequeueEmpty, Goes, word, queues, run, history, TypeOK, Places, Locked, Section, Construction, Counted, Pushing, Pending
  <1>6. QED
    BY <1>1, <1>2, <1>3, <1>4, <1>5 DEF IInv

\* A call of the actor to itself goes to the local queue of the running thread.
LEMMA JobCallsStep ==
    ASSUME IInv, NEW w \in Worker, JobCalls(w)
    PROVE  IInv'
  <1>0. TypeOK /\ Places /\ Locked /\ Promised /\ Counted
    BY DEF IInv
  <1>1. /\ NextCall(Self) \in DOMAIN past' /\ DOMAIN past \subseteq DOMAIN past' /\ DOMAIN past' \subseteq Call
        /\ \A x \in DOMAIN past' : past'[x] \subseteq Call
        /\ knows' \in [Party -> SUBSET Call]
        /\ current' = current /\ over' = over
    BY <1>0, CallsType DEF JobCalls, Party
  <1>2. /\ shared \in Seq(DOMAIN past') /\ queue \in Seq(DOMAIN past')
        /\ current \in [Worker -> SUBSET DOMAIN past']
    BY <1>0, <1>1, StaysRecorded
  <1>3. TypeOK'
    BY <1>0, <1>1, <1>2 DEF JobCalls, word, run, TypeOK, Where, Construction, Party
  <1>4. Places'
    BY <1>0, <1>1, <1>2 DEF JobCalls, word, run, TypeOK, Places, Pending, Construction, Locked, Section, Where
  <1>5. Locked'
    BY <1>0, <1>1, <1>2 DEF JobCalls, word, run, TypeOK, Places, Locked, Section, Construction
  <1>6. Promised'
    BY <1>0, <1>1, <1>2 DEF JobCalls, word, run, TypeOK, Places, Locked, Section, Construction, Promised, Awake, Pushing, Pending, Counted
  <1>7. Counted'
    BY <1>0, <1>1, <1>2 DEF JobCalls, word, run, TypeOK, Places, Locked, Section, Construction, Counted, Pushing, Pending
  <1>8. QED
    BY <1>3, <1>4, <1>5, <1>6, <1>7 DEF IInv

\* f_Yield transfers the queue and leaves the bit to the run.
LEMMA JobYieldsStep ==
    ASSUME IInv, NEW w \in Worker, JobYields(w)
    PROVE  IInv'
  <1>0. TypeOK /\ Places /\ Locked /\ Promised /\ Counted
    BY DEF IInv
  <1>1. Transferred \in Seq(DOMAIN past) /\ (Transferred # <<>> <=> Pending)
    BY <1>0, TransferredType
  <1>2. TypeOK'
    BY <1>0, ActorHolderAssumption, <1>1 DEF ActorHolderAssumption, JobYields, word, run, history, TypeOK, Where, Construction, Party
  <1>3. Places'
    BY <1>0, ActorHolderAssumption, <1>1 DEF ActorHolderAssumption, JobYields, word, run, history, TypeOK, Places, Pending, Construction, Locked, Section, Where
  <1>4. Locked'
    BY <1>0, ActorHolderAssumption, <1>1 DEF ActorHolderAssumption, JobYields, word, run, history, TypeOK, Places, Locked, Section, Construction
  <1>5. Promised'
    BY <1>0, ActorHolderAssumption, <1>1 DEF ActorHolderAssumption, JobYields, word, run, history, TypeOK, Places, Locked, Section, Construction, Promised, Awake, Pushing, Pending, Counted
  <1>6. Counted'
    BY <1>0, ActorHolderAssumption, <1>1 DEF ActorHolderAssumption, JobYields, word, run, history, TypeOK, Places, Locked, Section, Construction, Counted, Pushing, Pending
  <1>7. QED
    BY <1>2, <1>3, <1>4, <1>5, <1>6 DEF IInv

\* Returning from a call keeps the bit.
LEMMA JobReturnsStep ==
    ASSUME IInv, NEW w \in Worker, JobReturns(w)
    PROVE  IInv'
  <1>0. TypeOK /\ Places /\ Locked /\ Promised /\ Counted
    BY DEF IInv
  <1>1. TypeOK'
    BY <1>0 DEF JobReturns, Goes, word, queues, TypeOK, Where, Construction, Party
  <1>2. Places'
    BY <1>0 DEF JobReturns, Goes, word, queues, TypeOK, Places, Pending, Construction, Locked, Section, Where
  <1>3. Locked'
    BY <1>0 DEF JobReturns, Goes, word, queues, TypeOK, Places, Locked, Section, Construction
  <1>4. Promised'
    BY <1>0 DEF JobReturns, Goes, word, queues, TypeOK, Places, Locked, Section, Construction, Promised, Awake, Pushing, Pending, Counted
  <1>5. Counted'
    BY <1>0 DEF JobReturns, Goes, word, queues, TypeOK, Places, Locked, Section, Construction, Counted, Pushing, Pending
  <1>6. QED
    BY <1>1, <1>2, <1>3, <1>4, <1>5 DEF IInv

\* After a yield the bit is cleared by a thread that will queue a run.
LEMMA ReleaseStep ==
    ASSUME IInv, NEW w \in Worker, Release(w)
    PROVE  IInv'
  <1>0. TypeOK /\ Places /\ Locked /\ Promised /\ Counted
    BY DEF IInv
  <1>1. TypeOK'
    BY <1>0 DEF Release, Goes, queues, run, history, TypeOK, Where, Construction, Party
  <1>2. Places'
    BY <1>0 DEF Release, Goes, queues, run, history, TypeOK, Places, Pending, Construction, Locked, Section, Where
  <1>3. Locked'
    BY <1>0 DEF Release, Goes, queues, run, history, TypeOK, Places, Locked, Section, Construction
  <1>4. Promised'
    BY <1>0 DEF Release, Goes, queues, run, history, TypeOK, Places, Locked, Section, Construction, Promised, Awake, Pushing, Pending, Counted
  <1>5. Counted'
    BY <1>0 DEF Release, Goes, queues, run, history, TypeOK, Places, Locked, Section, Construction, Counted, Pushing, Pending
  <1>6. QED
    BY <1>1, <1>2, <1>3, <1>4, <1>5 DEF IInv

\* The run that yielded hands over to the run it queues.
LEMMA RequeueStep ==
    ASSUME IInv, NEW w \in Worker, Requeue(w)
    PROVE  IInv'
  <1>0. TypeOK /\ Places /\ Locked /\ Promised /\ Counted
    BY DEF IInv
  <1>1. TypeOK'
    BY <1>0 DEF Requeue, Goes, word, queues, history, TypeOK, Where, Construction, Party
  <1>2. Places'
    BY <1>0 DEF Requeue, Goes, word, queues, history, TypeOK, Places, Pending, Construction, Locked, Section, Where
  <1>3. Locked'
    BY <1>0 DEF Requeue, Goes, word, queues, history, TypeOK, Places, Locked, Section, Construction
  <1>4. Promised'
    BY <1>0 DEF Requeue, Goes, word, queues, history, TypeOK, Places, Locked, Section, Construction, Promised, Awake, Pushing, Pending, Counted
  <1>5. Counted'
    BY <1>0 DEF Requeue, Goes, word, queues, history, TypeOK, Places, Locked, Section, Construction, Counted, Pushing, Pending
  <1>6. QED
    BY <1>1, <1>2, <1>3, <1>4, <1>5 DEF IInv

\* Clearing the word strands no entry: with a changed count the run starts over.
LEMMA UnlockStep ==
    ASSUME IInv, NEW w \in Worker, Unlock(w)
    PROVE  IInv'
  <1>0. TypeOK /\ Places /\ Locked /\ Promised /\ Counted
    BY DEF IInv
  <1>1. TypeOK'
    BY <1>0 DEF Unlock, Goes, queues, run, history, TypeOK, Where, Construction, Party
  <1>2. Places'
    BY <1>0 DEF Unlock, Goes, queues, run, history, TypeOK, Places, Pending, Construction, Locked, Section, Where
  <1>3. Locked'
    BY <1>0 DEF Unlock, Goes, queues, run, history, TypeOK, Places, Locked, Section, Construction
  <1>4. Promised'
    BY <1>0 DEF Unlock, Goes, queues, run, history, TypeOK, Places, Locked, Section, Construction, Promised, Awake, Pushing, Pending, Counted
  <1>5. Counted'
    BY <1>0 DEF Unlock, Goes, queues, run, history, TypeOK, Places, Locked, Section, Construction, Counted, Pushing, Pending
  <1>6. QED
    BY <1>1, <1>2, <1>3, <1>4, <1>5 DEF IInv

-----------------------------------------------------------------------------
\* Every step keeps the invariant.
LEMMA NextIInv == IInv /\ [Next]_vars => IInv'
  <1> SUFFICES ASSUME IInv, [Next]_vars PROVE IInv'
    OBVIOUS
  <1>1. CASE Constructs
    BY <1>1, ConstructActorStep, ConstructCallsStep, ConstructedStep DEF Constructs
  <1>2. CASE ConstructEnds
    BY <1>2, ConstructLeavesStep, ConstructQueuesRunStep DEF ConstructEnds
  <1>3. ASSUME NEW c \in Caller, Push(c) PROVE IInv'
    BY <1>3, PushStep
  <1>4. ASSUME NEW t \in Caller \cup Local, Schedules(t) PROVE IInv'
    BY <1>4, IncrementStep, QueueRunStep DEF Schedules
  <1>5. ASSUME NEW w \in Worker, Runs(w) PROVE IInv'
    BY <1>5, TakeRunStep, TakeBitStep, TransferStep, DequeueStep, DequeueEmptyStep,
       JobReturnsStep, ReleaseStep, RequeueStep, UnlockStep DEF Runs
  <1>6. ASSUME NEW w \in Worker, JobCalls(w) \/ JobYields(w) PROVE IInv'
    BY <1>6, JobCallsStep, JobYieldsStep
  <1>7. ASSUME NEW p \in Caller \cup {Self}, NEW q \in Caller \cup Local, Tells(p, q) PROVE IInv'
    BY <1>7, TellsStep
  <1>8. CASE UNCHANGED vars
    BY <1>8 DEF vars, word, queues, run, history, IInv, TypeOK, Places, Locked, Promised, Counted,
                Pending, Awake, Pushing
  <1>9. ASSUME NEW w \in Local, FixedCall(w) PROVE IInv'
    <2>1. w \in Worker
      BY ActorHolderAssumption DEF ActorHolderAssumption
    <2>2. QED
      BY <1>9, <2>1, FixedCallStep
  <1>10. QED
    BY <1>1, <1>2, <1>3, <1>4, <1>5, <1>6, <1>7, <1>8, <1>9 DEF Next

\* IInv holds in every reachable state, for any callers, workers and bounds:
\* fp_AddToQueue, fp_ConstructActor and fp_RunProcess keep what the processing
\* bit and the count of mp_Working promise.
THEOREM Invariance == Spec => []IInv
  BY InitIInv, NextIInv, PTL DEF Spec

\* The state of a holder has its type.
THEOREM TypeCorrect == Spec => []TypeOK
  <1>1. IInv => TypeOK
    BY DEF IInv
  <1>2. QED
    BY <1>1, Invariance, PTL

\* An actor runs on one thread at a time (fp_RunProcess), never while it is
\* being constructed (fp_ConstructActor).
THEOREM OneThread == Spec => []OneThreadAtATime
  <1>1. IInv => OneThreadAtATime
    BY DEF IInv, Locked, OneThreadAtATime, Construction
  <1>2. QED
    BY <1>1, Invariance, PTL

\* A queue that is not empty always has somebody who will process it: no
\* interleaving of fp_AddToQueue with the end of fp_RunProcess strands a call.
THEOREM NoWakeupIsLost == Spec => []NoLostWakeup
  <1>1. ASSUME IInv PROVE NoLostWakeup
    <2>1. CASE busy
      BY <1>1, <2>1 DEF IInv, Locked, NoLostWakeup, Section
    <2>2. CASE ~busy
      BY <1>1, <2>2 DEF IInv, TypeOK, Places, Promised, Awake, Pushing, Pending, NoLostWakeup
    <2>3. QED
      BY <1>1, <2>1, <2>2 DEF IInv, TypeOK
  <1>2. QED
    BY <1>1, Invariance, PTL

----------------------------------------------------------------------------
(* Calls of an actor that is not fixed to a queue are processed in the      *)
(* order they were called.                                                  *)

\* Calls that were taken from the queues.
Taken == over \cup UNION {current[w] : w \in Worker}
Before(s, i) == {s[j] : j \in 1..(i - 1)}
After(s, i) == {s[j] : j \in (i + 1)..Len(s)}
Members(s) == {s[i] : i \in 1..Len(s)}

\* Calls are numbered without gaps, so the next one is new.
Numbered == \A p \in Party : \E n \in Nat : Made(p) = 1..n

\* A worker holds a call only while it processes it.
HeldInJob == \A w \in Worker : current[w] # {} => at[w] = "job"

\* What is known was called, and what was called is in a queue or taken.
Accounted ==
    /\ \A p \in Party : knows[p] \subseteq DOMAIN past
    /\ \A x \in DOMAIN past : past[x] \subseteq DOMAIN past
    /\ DOMAIN past \subseteq Taken \cup Members(queue) \cup Members(shared)

\* The actor itself knows only of calls ahead of the local queue's end, so it
\* may append to the local queue past the entries that are still shared.
SelfBehind == knows[Self] \subseteq Taken \cup Members(queue)

\* Everything called before an entry is ahead of it.
QueueOrder == \A i \in 1..Len(queue) : past[queue[i]] \subseteq Taken \cup Before(queue, i)
SharedOrder ==
    \A i \in 1..Len(shared) :
        past[shared[i]] \subseteq Taken \cup Members(queue) \cup After(shared, i)

Ordered ==
    /\ Numbered /\ HeldInJob /\ Accounted /\ SelfBehind
    /\ QueueOrder /\ SharedOrder /\ CalledOrder

-----------------------------------------------------------------------------
\* Nothing was called and nothing is queued.
LEMMA InitOrdered == Init => Ordered
  <1> SUFFICES ASSUME Init PROVE Ordered
    OBVIOUS
  <1>1. Numbered
    <2> SUFFICES ASSUME NEW p \in Party PROVE Made(p) = 1..0
      BY DEF Numbered
    <2>1. QED
      BY DEF Init, Made
  <1>2. HeldInJob /\ CalledOrder
    BY DEF Init, HeldInJob, CalledOrder
  <1>3. Accounted /\ SelfBehind
    BY DEF Init, Accounted, SelfBehind, Party
  <1>4. QueueOrder /\ SharedOrder
    BY DEF Init, QueueOrder, SharedOrder
  <1>5. QED
    BY <1>1, <1>2, <1>3, <1>4 DEF Ordered

\* The call a party makes is new, and is recorded after all the party knows.
LEMMA CallIsNew ==
    ASSUME TypeOK, Ordered, NEW p \in Party, Calls(p)
    PROVE  /\ NextCall(p) \notin DOMAIN past
           /\ DOMAIN past' = DOMAIN past \cup {NextCall(p)}
           /\ past'[NextCall(p)] = knows[p]
           /\ \A x \in DOMAIN past : past'[x] = past[x]
           /\ knows'[p] = knows[p] \cup {NextCall(p)}
           /\ \A q \in Party : q # p => knows'[q] = knows[q]
           /\ Numbered'
  <1>1. PICK n \in Nat : Made(p) = 1..n
    BY DEF Ordered, Numbered
  <1>2. Cardinality(Made(p)) = n
    BY <1>1, FS_Interval
  <1>3. NextCall(p) = <<p, n + 1>> /\ n < MaxCalls
    BY <1>2 DEF NextCall, Calls
  <1>4. NextCall(p) \notin DOMAIN past
    <2>1. n + 1 \notin Made(p)
      BY <1>1
    <2>2. QED
      BY <1>3, <2>1, ActorHolderAssumption DEF Made, ActorHolderAssumption
  <1>5. /\ DOMAIN past' = DOMAIN past \cup {NextCall(p)}
        /\ past'[NextCall(p)] = knows[p]
        /\ \A x \in DOMAIN past : past'[x] = past[x]
    BY <1>4 DEF Calls
  <1>6. /\ knows'[p] = knows[p] \cup {NextCall(p)}
        /\ \A q \in Party : q # p => knows'[q] = knows[q]
    BY DEF Calls, TypeOK
  <1>7. Numbered'
    <2> SUFFICES ASSUME NEW q \in Party PROVE \E m \in Nat : Made(q)' = 1..m
      BY DEF Numbered
    <2>1. CASE q = p
      <3>1. Made(p)' = Made(p) \cup {n + 1}
        BY <1>3, <1>5, ActorHolderAssumption DEF Made, ActorHolderAssumption
      <3>2. Made(p)' = 1..(n + 1)
        BY <1>1, <3>1
      <3>3. QED
        BY <2>1, <3>2
    <2>2. CASE q # p
      <3>1. Made(q)' = Made(q)
        BY <1>3, <1>5, <2>2 DEF Made
      <3>2. QED
        BY <3>1 DEF Ordered, Numbered
    <2>3. QED
      BY <2>1, <2>2
  <1>8. QED
    BY <1>4, <1>5, <1>6, <1>7

\* The order does not depend on the word, the threads or the constructor.
LEMMA Unordered ==
    ASSUME Ordered, UNCHANGED <<past, knows, queue, shared, current, over>>, HeldInJob'
    PROVE  Ordered'
  BY DEF Ordered, Numbered, Made, Accounted, SelfBehind, QueueOrder, SharedOrder, CalledOrder,
         Taken, Members, Before, After

\* Steps that touch neither queues nor calls keep the order.
LEMMA FrameStep ==
    ASSUME TypeOK, Ordered,
           \/ Constructs /\ ~ConstructCalls
           \/ ConstructEnds
           \/ \E t \in Caller \cup Local : Schedules(t)
           \/ \E w \in Worker : \/ TakeRun(w) \/ TakeBit(w) \/ DequeueEmpty(w)
                                \/ Release(w) \/ Requeue(w) \/ Unlock(w)
           \/ UNCHANGED vars
    PROVE  Ordered'
  <1>1. UNCHANGED <<past, knows, queue, shared, current, over>>
    BY DEF Constructs, ConstructEnds, Schedules, ConstructActor, Constructed, ConstructLeaves,
           ConstructQueuesRun, Increment, QueueRun, TakeRun, TakeBit, DequeueEmpty, Release,
           Requeue, Unlock, queues, history, vars
  <1>2. \A w \in Worker : at[w] = "job" => at'[w] = "job"
    BY DEF TypeOK, Constructs, ConstructEnds, Schedules, ConstructActor, Constructed, ConstructLeaves,
           ConstructQueuesRun, Increment, QueueRun, TakeRun, TakeBit, DequeueEmpty, Release,
           Requeue, Unlock, Goes, vars
  <1>3. HeldInJob'
    BY <1>1, <1>2 DEF Ordered, HeldInJob
  <1>4. QED
    BY <1>1, <1>3, Unordered

\* A party that is told of calls may call later than they were called, but a
\* call that was made before knows no more than it did.
LEMMA TellsOrder ==
    ASSUME Local = {}, TypeOK, Ordered,
           NEW p \in Caller \cup {Self}, NEW q \in Caller \cup Local, Tells(p, q)
    PROVE  Ordered'
  <1>1. q \in Party /\ p \in Party /\ q # Self
    BY ActorHolderAssumption DEF ActorHolderAssumption, Party
  <1>2. /\ UNCHANGED <<past, queue, shared, current, over, at>>
        /\ knows'[Self] = knows[Self]
        /\ \A r \in Party : knows'[r] \subseteq knows[r] \cup knows[p]
    BY <1>1 DEF Tells, TypeOK, queues
  <1>3. Accounted'
    BY <1>1, <1>2 DEF Ordered, Accounted, Taken, Members
  <1>4. Numbered' /\ HeldInJob' /\ SelfBehind' /\ CalledOrder'
    BY <1>2 DEF Ordered, Numbered, Made, HeldInJob, SelfBehind, CalledOrder, Taken, Members
  <1>5. QueueOrder' /\ SharedOrder'
    BY <1>2 DEF Ordered, QueueOrder, SharedOrder, Taken, Members, Before, After
  <1>6. QED
    BY <1>3, <1>4, <1>5 DEF Ordered

\* fp_AddToQueue from another thread: everything its caller knew of is taken,
\* in the local queue or older in the shared one.
LEMMA PushOrder ==
    ASSUME Local = {}, TypeOK, Ordered, NEW c \in Caller, Push(c)
    PROVE  Ordered'
  <1> DEFINE x == NextCall(c)
  <1>1. c \in Party /\ Self \in Party /\ c # Self
    BY ActorHolderAssumption DEF ActorHolderAssumption, Party
  <1>2. /\ x \notin DOMAIN past /\ DOMAIN past' = DOMAIN past \cup {x}
        /\ past'[x] = knows[c] /\ \A y \in DOMAIN past : past'[y] = past[y]
        /\ knows'[c] = knows[c] \cup {x} /\ \A q \in Party : q # c => knows'[q] = knows[q]
        /\ Numbered'
    BY <1>1, CallIsNew DEF Push
  <1>3. /\ UNCHANGED <<queue, current, over>>
        /\ Taken' = Taken /\ Members(queue)' = Members(queue)
        /\ \A w \in Worker : at[w] = "job" => at'[w] = "job"
    BY <1>1, ActorHolderAssumption
       DEF Push, Goes, Calls, TypeOK, Taken, Members, ActorHolderAssumption
  <1>4. /\ Len(shared') = Len(shared) + 1 /\ shared'[1] = x
        /\ \A i \in 2..Len(shared') : shared'[i] = shared[i - 1]
        /\ \A i \in 1..Len(shared) : shared'[i + 1] = shared[i]
    <2>1. shared \in Seq(DOMAIN past') /\ <<x>> \in Seq(DOMAIN past')
      BY <1>2, StaysRecorded
    <2>2. shared' = <<x>> \o shared
      BY DEF Push
    <2>3. QED
      BY <2>1, <2>2, ConcatProperties
  <1>5. Len(shared) \in Nat /\ \A i \in 1..Len(shared) : shared[i] \in DOMAIN past
    BY DEF TypeOK
  <1>6. Members(shared)' = Members(shared) \cup {x}
    <2>1. Members(shared)' \subseteq Members(shared) \cup {x}
      <3> SUFFICES ASSUME NEW i \in 1..Len(shared') PROVE shared'[i] \in Members(shared) \cup {x}
        BY DEF Members
      <3>1. i = 1 \/ (i \in 2..Len(shared') /\ i - 1 \in 1..Len(shared))
        BY <1>4, <1>5
      <3>2. QED
        BY <1>4, <3>1 DEF Members
    <2>2. Members(shared) \cup {x} \subseteq Members(shared)'
      <3>1. x \in Members(shared)'
        BY <1>4, <1>5 DEF Members
      <3>2. ASSUME NEW i \in 1..Len(shared) PROVE shared[i] \in Members(shared)'
        BY <1>4, <1>5, i + 1 \in 1..Len(shared') DEF Members
      <3>3. QED
        BY <3>1, <3>2 DEF Members
    <2>3. QED
      BY <2>1, <2>2
  <1>7. Accounted' /\ SelfBehind'
    BY <1>1, <1>2, <1>3, <1>6 DEF Ordered, Accounted, SelfBehind
  <1>8. HeldInJob' /\ CalledOrder'
    BY <1>2, <1>3 DEF Ordered, HeldInJob, CalledOrder, TypeOK
  <1>9. QueueOrder'
    BY <1>2, <1>3 DEF Ordered, QueueOrder, Before, TypeOK
  <1>10. SharedOrder'
    <2> SUFFICES ASSUME NEW i \in 1..Len(shared')
                 PROVE  past'[shared'[i]] \subseteq Taken \cup Members(queue) \cup After(shared', i)
      BY <1>3 DEF SharedOrder
    <2>1. CASE i = 1
      <3>1. Members(shared) \subseteq After(shared', 1)
        BY <1>4, <1>5 DEF Members, After
      <3>2. past'[shared'[1]] \subseteq Taken \cup Members(queue) \cup Members(shared)
        BY <1>1, <1>2, <1>4 DEF Ordered, Accounted
      <3>3. QED
        BY <2>1, <3>1, <3>2
    <2>2. CASE i # 1
      <3>1. i - 1 \in 1..Len(shared) /\ shared'[i] = shared[i - 1]
        BY <1>4, <1>5, <2>2
      <3>2. After(shared, i - 1) \subseteq After(shared', i)
        BY <1>4, <1>5, <3>1 DEF After
      <3>3. past'[shared'[i]] = past[shared[i - 1]]
        BY <1>2, <1>5, <3>1
      <3>4. QED
        BY <3>1, <3>2, <3>3 DEF Ordered, SharedOrder
    <2>3. QED
      BY <2>1, <2>2
  <1>11. QED
    BY <1>2, <1>7, <1>8, <1>9, <1>10 DEF Ordered

\* The actor calls itself: the entry goes to the end of the local queue, and
\* all the actor knows of is ahead of it.
LEMMA SelfCallOrder ==
    ASSUME Local = {}, TypeOK, Ordered, Calls(Self), queue' = Append(queue, NextCall(Self)),
           UNCHANGED <<shared, at>>
    PROVE  Ordered'
  <1> DEFINE x == NextCall(Self)
  <1>1. Self \in Party
    BY DEF Party
  <1>2. /\ x \notin DOMAIN past /\ DOMAIN past' = DOMAIN past \cup {x}
        /\ past'[x] = knows[Self] /\ \A y \in DOMAIN past : past'[y] = past[y]
        /\ knows'[Self] = knows[Self] \cup {x}
        /\ \A q \in Party : q # Self => knows'[q] = knows[q]
        /\ Numbered'
    BY <1>1, CallIsNew
  <1>3. UNCHANGED <<current, over>> /\ Taken' = Taken
    BY DEF Calls, Taken
  <1>4. /\ queue \in Seq(DOMAIN past') /\ x \in DOMAIN past'
        /\ \A i \in 1..Len(queue) : queue[i] \in DOMAIN past
    BY <1>2, StaysRecorded DEF TypeOK
  <1>5. /\ Len(queue) \in Nat /\ Len(queue') = Len(queue) + 1 /\ queue'[Len(queue) + 1] = x
        /\ \A i \in 1..Len(queue) : queue'[i] = queue[i]
    BY <1>4
  <1>6. /\ Members(queue)' = Members(queue) \cup {x}
        /\ Before(queue', Len(queue) + 1) = Members(queue)
        /\ \A i \in 1..Len(queue) : Before(queue', i) = Before(queue, i)
    BY <1>5 DEF Members, Before
  <1>7. Accounted' /\ SelfBehind'
    BY <1>1, <1>2, <1>3, <1>6 DEF Ordered, Accounted, SelfBehind, Members
  <1>8. HeldInJob' /\ CalledOrder'
    BY <1>2, <1>3 DEF Ordered, HeldInJob, CalledOrder, TypeOK
  <1>9. QueueOrder'
    <2> SUFFICES ASSUME NEW i \in 1..Len(queue')
                 PROVE  past'[queue'[i]] \subseteq Taken \cup Before(queue', i)
      BY <1>3 DEF QueueOrder
    <2>1. CASE i = Len(queue) + 1
      BY <1>2, <1>5, <1>6, <2>1 DEF Ordered, SelfBehind
    <2>2. CASE i # Len(queue) + 1
      <3>1. i \in 1..Len(queue)
        BY <1>5, <2>2
      <3>2. past'[queue'[i]] = past[queue[i]]
        BY <1>2, <1>4, <1>5, <3>1
      <3>3. QED
        BY <1>6, <3>1, <3>2 DEF Ordered, QueueOrder
    <2>3. QED
      BY <2>1, <2>2
  <1>10. SharedOrder'
    <2>1. /\ \A i \in 1..Len(shared) : past'[shared[i]] = past[shared[i]]
          /\ Members(queue) \subseteq Members(queue)'
      BY <1>2, <1>6 DEF TypeOK
    <2>2. QED
      BY <1>3, <2>1 DEF Ordered, SharedOrder, After
  <1>11. QED
    BY <1>2, <1>7, <1>8, <1>9, <1>10 DEF Ordered

\* The elements of a concatenation, and what comes before each of them.
LEMMA ConcatElements ==
    ASSUME NEW S, NEW s \in Seq(S), NEW r \in Seq(S)
    PROVE  /\ Len(s \o r) = Len(s) + Len(r)
           /\ \A i \in 1..Len(s) : (s \o r)[i] = s[i]
           /\ \A i \in 1..Len(r) : (s \o r)[Len(s) + i] = r[i]
  <1>1. Len(s) \in Nat /\ Len(r) \in Nat
    OBVIOUS
  <1>2. /\ Len(s \o r) = Len(s) + Len(r)
        /\ \A i \in 1..(Len(s) + Len(r)) : (s \o r)[i] = IF i <= Len(s) THEN s[i] ELSE r[i - Len(s)]
    BY ConcatProperties
  <1>3. ASSUME NEW i \in 1..Len(s) PROVE (s \o r)[i] = s[i]
    BY <1>1, <1>2
  <1>4. ASSUME NEW i \in 1..Len(r) PROVE (s \o r)[Len(s) + i] = r[i]
    <2>1. /\ Len(s) + i \in 1..(Len(s) + Len(r)) /\ ~(Len(s) + i <= Len(s))
          /\ (Len(s) + i) - Len(s) = i
      BY <1>1
    <2>2. QED
      BY <1>2, <2>1
  <1>5. QED
    BY <1>2, <1>3, <1>4

\* What is older in the shared queue is ahead after the transfer.
LEMMA ConcatReverse ==
    ASSUME NEW S, NEW s \in Seq(S), NEW t \in Seq(S)
    PROVE  /\ Len(s \o Reverse(t)) = Len(s) + Len(t)
           /\ \A i \in 1..Len(s) : (s \o Reverse(t))[i] = s[i]
           /\ \A i \in 1..Len(t) : (s \o Reverse(t))[Len(s) + i] = t[Len(t) - i + 1]
  <1>1. /\ Reverse(t) \in Seq(S) /\ Len(Reverse(t)) = Len(t)
        /\ \A i \in 1..Len(t) : Reverse(t)[i] = t[Len(t) - i + 1]
    BY ReverseType
  <1>2. /\ Len(s \o Reverse(t)) = Len(s) + Len(Reverse(t))
        /\ \A i \in 1..Len(s) : (s \o Reverse(t))[i] = s[i]
        /\ \A i \in 1..Len(Reverse(t)) : (s \o Reverse(t))[Len(s) + i] = Reverse(t)[i]
    <2>1. Reverse(t) \in Seq(S)
      BY <1>1
    <2>2. QED
      BY <2>1, ConcatElements
  <1>3. QED
    BY <1>1, <1>2

\* The shared entries are put behind the local ones, the oldest first.
LEMMA TransferOrder ==
    ASSUME TypeOK, Ordered, queue' = Transferred, shared' = <<>>,
           UNCHANGED <<past, knows, current, over>>, HeldInJob'
    PROVE  Ordered'
  <1> DEFINE n == Len(queue) m == Len(shared)
  <1>1. n \in Nat /\ m \in Nat /\ shared \in Seq(DOMAIN past) /\ queue \in Seq(DOMAIN past)
    BY DEF TypeOK
  <1>2. queue' = queue \o Reverse(shared)
    BY DEF Transferred
  <1>3. /\ Len(queue') = n + m
        /\ \A i \in 1..n : queue'[i] = queue[i]
        /\ \A i \in 1..m : queue'[n + i] = shared[m - i + 1]
    BY <1>1, <1>2, ConcatReverse
  <1>4. \A j \in 1..m : shared[j] = queue'[n + (m - j + 1)]
    <2> TAKE j \in 1..m
    <2>1. m - j + 1 \in 1..m /\ m - (m - j + 1) + 1 = j
      BY <1>1
    <2>2. QED
      BY <1>3, <2>1
  <1>5. Taken' = Taken
    BY DEF Taken
  <1>6. /\ Members(queue) \subseteq Members(queue)'
        /\ Members(shared) \subseteq Members(queue)'
    <2>1. ASSUME NEW i \in 1..n PROVE queue[i] \in Members(queue)'
      BY <1>1, <1>3, i \in 1..(n + m) DEF Members
    <2>2. ASSUME NEW j \in 1..m PROVE shared[j] \in Members(queue)'
      BY <1>1, <1>3, <1>4, n + (m - j + 1) \in 1..(n + m) DEF Members
    <2>3. QED
      BY <2>1, <2>2 DEF Members
  <1>7. Numbered' /\ Accounted' /\ SelfBehind' /\ SharedOrder' /\ CalledOrder'
    <2>1. Numbered' /\ CalledOrder'
      BY DEF Ordered, Numbered, Made, CalledOrder
    <2>2. Accounted' /\ SelfBehind'
      BY <1>5, <1>6 DEF Ordered, Accounted, SelfBehind
    <2>3. SharedOrder'
      BY DEF SharedOrder
    <2>4. QED
      BY <2>1, <2>2, <2>3
  <1>8. QueueOrder'
    <2> SUFFICES ASSUME NEW i \in 1..(n + m)
                 PROVE  past[queue'[i]] \subseteq Taken \cup Before(queue', i)
      BY <1>3, <1>5 DEF QueueOrder
    <2>1. CASE i <= n
      <3>1. i \in 1..n /\ queue'[i] = queue[i]
        BY <1>1, <1>3, <2>1
      <3>2. Before(queue, i) \subseteq Before(queue', i)
        <4> SUFFICES ASSUME NEW j \in 1..(i - 1) PROVE queue[j] \in Before(queue', i)
          BY DEF Before
        <4>1. queue'[j] = queue[j]
          BY <1>1, <1>3, <3>1, j \in 1..n
        <4>2. QED
          BY <4>1 DEF Before
      <3>3. QED
        BY <3>1, <3>2 DEF Ordered, QueueOrder
    <2>2. CASE i > n
      <3> DEFINE k == m - (i - n) + 1
      <3>1. k \in 1..m /\ queue'[i] = shared[k]
        <4>1. i - n \in 1..m /\ n + (i - n) = i
          BY <1>1, <2>2
        <4>2. QED
          BY <1>1, <1>3, <4>1
      <3>2. Members(queue) \subseteq Before(queue', i)
        <4>1. \A j \in 1..n : j \in 1..(i - 1)
          BY <1>1, <2>2
        <4>2. QED
          BY <1>3, <4>1 DEF Members, Before
      <3>3. After(shared, k) \subseteq Before(queue', i)
        <4> SUFFICES ASSUME NEW j \in (k + 1)..m PROVE shared[j] \in Before(queue', i)
          BY DEF After
        <4>1. j \in 1..m /\ n + (m - j + 1) \in 1..(i - 1)
          BY <1>1, <3>1
        <4>2. QED
          BY <1>4, <4>1 DEF Before
      <3>4. past[shared[k]] \subseteq Taken \cup Members(queue) \cup After(shared, k)
        BY <3>1 DEF Ordered, SharedOrder
      <3>5. QED
        BY <3>1, <3>2, <3>3, <3>4
    <2>3. QED
      BY <1>1, <2>1, <2>2
  <1>9. QED
    BY <1>7, <1>8 DEF Ordered

\* The head of the queue has nothing before it that is not taken.
LEMMA DequeueOrder ==
    ASSUME IInv, Ordered, NEW w \in Worker, Dequeue(w)
    PROVE  Ordered'
  <1> DEFINE h == Head(queue)
  <1>0. TypeOK /\ Locked
    BY DEF IInv
  <1>1. at[w] = "dequeue" /\ \A v \in Worker : current[v] = {}
    <2>1. at[w] = "dequeue"
      BY DEF Dequeue, Goes
    <2>2. \A v \in Worker : at[v] # "job"
      BY <1>0, <2>1 DEF Locked, Section
    <2>3. QED
      BY <2>1, <2>2 DEF Ordered, HeldInJob
  <1>2. Taken = over
    BY <1>1 DEF Taken
  <1>3. /\ Len(queue) \in Nat \ {0} /\ h = queue[1]
        /\ Len(queue') = Len(queue) - 1
        /\ \A i \in 1..Len(queue') : queue'[i] = queue[i + 1]
        /\ \A i \in 1..Len(queue) : queue[i] \in DOMAIN past
    <2>1. queue \in Seq(DOMAIN past) /\ queue # <<>> /\ queue' = Tail(queue)
      BY <1>0 DEF TypeOK, Dequeue
    <2>2. QED
      BY <2>1
  <1>4. past[h] \subseteq over
    BY <1>2, <1>3 DEF Ordered, QueueOrder, Before
  <1>5. Taken' = Taken \cup {h} /\ over \subseteq over'
    <2>1. CASE actor = "alive"
      <3>1. current' = [current EXCEPT ![w] = {h}] /\ over' = over
        BY <2>1 DEF Dequeue
      <3>2. current'[w] = {h} /\ \A v \in Worker : v # w => current'[v] = {}
        BY <1>0, <1>1, <3>1 DEF TypeOK
      <3>3. UNION {current'[v] : v \in Worker} = {h}
        BY <3>2
      <3>4. QED
        BY <1>2, <3>1, <3>3 DEF Taken
    <2>2. CASE actor # "alive"
      BY <1>1, <2>2 DEF Dequeue, Taken
    <2>3. QED
      BY <2>1, <2>2
  <1>6. Members(queue) = Members(queue)' \cup {h}
    <2>1. Members(queue) \subseteq Members(queue)' \cup {h}
      <3> SUFFICES ASSUME NEW i \in 1..Len(queue) PROVE queue[i] \in Members(queue)' \cup {h}
        BY DEF Members
      <3>1. i = 1 \/ (i - 1 \in 1..Len(queue') /\ queue[i] = queue'[i - 1])
        BY <1>3
      <3>2. QED
        BY <1>3, <3>1 DEF Members
    <2>2. Members(queue)' \cup {h} \subseteq Members(queue)
      BY <1>3 DEF Members
    <2>3. QED
      BY <2>1, <2>2
  <1>7. UNCHANGED <<past, shared>>
    BY DEF Dequeue
  <1>8. HeldInJob' /\ CalledOrder'
    <2>1. CASE actor = "alive"
      <3>1. /\ current' = [current EXCEPT ![w] = {h}] /\ over' = over
            /\ at' = [at EXCEPT ![w] = "job"]
        BY <2>1 DEF Dequeue, Goes
      <3>2. QED
        BY <1>0, <1>1, <1>4, <1>7, <3>1 DEF HeldInJob, CalledOrder, TypeOK
    <2>2. CASE actor # "alive"
      BY <1>1, <2>2 DEF Dequeue, HeldInJob, CalledOrder
    <2>3. QED
      BY <2>1, <2>2
  <1>9. Accounted' /\ SelfBehind' /\ Numbered'
    <2>1. \A p \in Party : knows'[p] \subseteq knows[p] \cup {h} \cup past[h]
      BY <1>0 DEF Dequeue, TypeOK
    <2>2. {h} \cup past[h] \subseteq DOMAIN past
      BY <1>3 DEF Ordered, Accounted
    <2>3. Accounted'
      BY <1>5, <1>6, <1>7, <2>1, <2>2 DEF Ordered, Accounted, Members
    <2>4. SelfBehind'
      BY <1>2, <1>4, <1>5, <1>6, <2>1 DEF Ordered, SelfBehind, Party
    <2>5. Numbered'
      BY <1>7 DEF Ordered, Numbered, Made
    <2>6. QED
      BY <2>3, <2>4, <2>5
  <1>10. QueueOrder'
    <2> SUFFICES ASSUME NEW i \in 1..Len(queue')
                 PROVE  past[queue'[i]] \subseteq Taken' \cup Before(queue', i)
      BY <1>7 DEF QueueOrder
    <2>1. i + 1 \in 1..Len(queue) /\ queue'[i] = queue[i + 1]
      BY <1>3
    <2>2. Before(queue, i + 1) \subseteq {h} \cup Before(queue', i)
      <3> SUFFICES ASSUME NEW j \in 1..i PROVE queue[j] \in {h} \cup Before(queue', i)
        BY <1>3 DEF Before
      <3>1. j = 1 \/ (j - 1 \in 1..(i - 1) /\ queue[j] = queue'[j - 1])
        BY <1>3
      <3>2. QED
        BY <1>3, <3>1 DEF Before
    <2>3. QED
      BY <1>5, <2>1, <2>2 DEF Ordered, QueueOrder
  <1>11. SharedOrder'
    BY <1>5, <1>6, <1>7 DEF Ordered, SharedOrder, After
  <1>12. QED
    BY <1>8, <1>9, <1>10, <1>11 DEF Ordered

\* A call that returns is over.
LEMMA JobReturnsOrder ==
    ASSUME TypeOK, Ordered, NEW w \in Worker, JobReturns(w)
    PROVE  Ordered'
  <1>1. /\ UNCHANGED <<past, knows, queue, shared>>
        /\ over' = over \cup current[w] /\ current' = [current EXCEPT ![w] = {}]
        /\ \A v \in Worker : v # w => at'[v] = at[v]
    BY DEF JobReturns, Goes, queues, TypeOK
  <1>2. /\ \A v \in Worker : v # w => current'[v] = current[v]
        /\ current'[w] = {}
    BY <1>1 DEF TypeOK
  <1>3. Taken' = Taken
    BY <1>1, <1>2 DEF Taken
  <1>4. HeldInJob' /\ CalledOrder'
    BY <1>1, <1>2 DEF Ordered, HeldInJob, CalledOrder
  <1>5. QED
    BY <1>1, <1>3, <1>4 DEF Ordered, Numbered, Made, Accounted, SelfBehind, QueueOrder,
                            SharedOrder, Members, Before, After

-----------------------------------------------------------------------------
\* Every step keeps the order.
LEMMA NextOrdered == Local = {} /\ IInv /\ Ordered /\ [Next]_vars => Ordered'
  <1> SUFFICES ASSUME Local = {}, IInv, Ordered, [Next]_vars PROVE Ordered'
    OBVIOUS
  <1>0. TypeOK
    BY DEF IInv
  <1>1. CASE ConstructCalls
    BY <1>0, <1>1, SelfCallOrder DEF ConstructCalls
  <1>2. ASSUME NEW c \in Caller, Push(c) PROVE Ordered'
    BY <1>0, <1>2, PushOrder
  <1>3. ASSUME NEW w \in Worker, Transfer(w) PROVE Ordered'
    <2>1. HeldInJob'
      BY <1>0, <1>3 DEF Transfer, Goes, history, Ordered, HeldInJob, TypeOK
    <2>2. QED
      BY <1>0, <1>3, <2>1, TransferOrder DEF Transfer, history
  <1>4. ASSUME NEW w \in Worker, JobYields(w) PROVE Ordered'
    <2>1. HeldInJob'
      BY <1>4 DEF JobYields, history, Ordered, HeldInJob
    <2>2. QED
      BY <1>0, <1>4, <2>1, TransferOrder DEF JobYields, history
  <1>5. ASSUME NEW w \in Worker, Dequeue(w) PROVE Ordered'
    BY <1>5, DequeueOrder
  <1>6. ASSUME NEW w \in Worker, JobReturns(w) PROVE Ordered'
    BY <1>0, <1>6, JobReturnsOrder
  <1>7. ASSUME NEW w \in Worker, JobCalls(w) PROVE Ordered'
    BY <1>0, <1>7, SelfCallOrder DEF JobCalls
  <1>8. ASSUME NEW p \in Caller \cup {Self}, NEW q \in Caller \cup Local, Tells(p, q) PROVE Ordered'
    BY <1>0, <1>8, TellsOrder
  <1>9. QED
    BY <1>0, <1>1, <1>2, <1>3, <1>4, <1>5, <1>6, <1>7, <1>8, FrameStep
       DEF Next, Constructs, Runs

\* Calls of an actor that is not fixed to a queue are processed in the order
\* they were called, also when threads learn of each other's calls: what
\* fp_AddToQueue and f_TransferThreadSafeQueue keep in order, fp_RunProcess
\* takes up in order.
THEOREM Order ==
    ASSUME Local = {}
    PROVE  Spec => []CalledOrder
  <1>1. Local = {} /\ IInv /\ Ordered /\ [Next]_vars => Ordered'
    BY NextOrdered
  <1>2. Ordered => CalledOrder
    BY DEF Ordered
  <1>3. QED
    BY <1>1, <1>2, InitOrdered, Invariance, PTL DEF Spec
=============================================================================
