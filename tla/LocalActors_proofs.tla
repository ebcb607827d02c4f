------------------------- MODULE LocalActors_proofs -------------------------
(***************************************************************************)
(* Proofs about the life of the actors of one process: the coroutine of a   *)
(* generator, the end of an actor, and the permissions the trust manager    *)
(* tells its subscribers.  A step of MCLocalParts is one of one part, so    *)
(* that an invariant of a part's own steps is one of all.                   *)
(***************************************************************************)
EXTENDS MCLocalParts, Sequences, Integers, SequenceTheorems, FiniteSetTheorems, WellFoundedInduction, TLAPS

----------------------------------------------------------------------------
(* The generator.  While it may still be resumed, the calls it has queued    *)
(* and those on their way are the ones after the last value, in order, and   *)
(* it is on its way to the next one exactly when a call waits.               *)

Messages ==
    {"get", "resume", "awaited", "asyncDestroy", "dropFunctor", "destroyInternal", "destroyYields", "handler"}
    \X (0..MaxNext)
Has(box, m) == \E i \in 1..Len(box) : box[i] = m
Asks(box, low, high) ==
    \A i \in 1..Len(box) : box[i][1] = "get" =>
        /\ box[i][2] > low /\ box[i][2] <= high
        /\ \A j \in 1..Len(box) : i < j /\ box[j][1] = "get" => box[i][2] < box[j][2]
Resumes(box) == \E i \in 1..Len(box) : box[i][1] = "resume"
ResumesOnce(box) == \A i, j \in 1..Len(box) : box[i][1] = "resume" /\ box[j][1] = "resume" => i = j
Generates == coroutine # "gone" /\ generatorOwner # "deleted"
GeneratesInOrder ==
    /\ done = FALSE /\ failed = FALSE /\ destroyed = FALSE
    /\ yielded + Len(queued) <= asked
    /\ \A i \in 1..Len(queued) : queued[i] = yielded + i
    /\ Asks(inbox, yielded + Len(queued), asked)
    /\ \A n \in yielded + Len(queued) + 1..asked : Has(inbox, <<"get", n>>)
    /\ inProgress <=> queued # <<>>
    /\ inProgress <=> Resumes(inbox) \/ coroutine = "awaiting"
GeneratorInv ==
    /\ Generator!TypeOK
    /\ yielded <= asked
    /\ \A i \in Generator!Nexts : /\ said[i] = "value" <=> i <= yielded
                                  /\ i <= yielded => given[i] = i
    /\ \A i \in 1..Len(queued) : queued[i] > yielded /\ queued[i] <= asked
    /\ Asks(inbox, yielded, asked)
    /\ ResumesOnce(inbox)
    /\ Resumes(inbox) => coroutine = "gone" \/ (coroutine \in {"initial", "yielded"} /\ sets = 0)
    /\ coroutine # "gone" => sets <= 1
    /\ generatorOwner = "deleted" => coroutine \in {"initial", "gone"}
    /\ Generates => GeneratesInOrder

LEMMA BoxTail ==
    ASSUME NEW box \in Seq(Messages), box # <<>>
    PROVE  /\ Tail(box) \in Seq(Messages) /\ Head(box) \in Messages
           /\ \A low, high : Asks(box, low, high) => Asks(Tail(box), low, high)
           /\ Resumes(Tail(box)) => Resumes(box)
           /\ Head(box)[1] = "resume" => Resumes(box)
           /\ Resumes(box) /\ Head(box)[1] # "resume" => Resumes(Tail(box))
           /\ ResumesOnce(box) => ResumesOnce(Tail(box))
           /\ ResumesOnce(box) /\ Head(box)[1] = "resume" => ~Resumes(Tail(box))
           /\ \A m : Has(box, m) /\ Head(box) # m => Has(Tail(box), m)
  <1>1. /\ Tail(box) \in Seq(Messages) /\ Head(box) = box[1] /\ Len(box) \in Nat /\ Len(box) >= 1
        /\ Len(Tail(box)) = Len(box) - 1 /\ box[1] \in Messages
        /\ \A i \in 1..Len(box) - 1 : Tail(box)[i] = box[i + 1]
    OBVIOUS
  <1>2. \A i \in 1..Len(Tail(box)) : i + 1 \in 1..Len(box) /\ Tail(box)[i] = box[i + 1]
    BY <1>1
  <1>3. \A i \in 1..Len(box) : i = 1 \/ (i - 1 \in 1..Len(Tail(box)) /\ Tail(box)[i - 1] = box[i])
    BY <1>1
  <1>4. ASSUME NEW low, NEW high, Asks(box, low, high)
        PROVE  Asks(Tail(box), low, high)
    BY <1>1, <1>2, <1>4 DEF Asks
  <1>5. Resumes(Tail(box)) => Resumes(box)
    BY <1>2 DEF Resumes
  <1>6. Head(box)[1] = "resume" => Resumes(box)
    BY <1>1 DEF Resumes
  <1>7. Resumes(box) /\ Head(box)[1] # "resume" => Resumes(Tail(box))
    BY <1>1, <1>3 DEF Resumes
  <1>8. ResumesOnce(box) => ResumesOnce(Tail(box))
    BY <1>1, <1>2 DEF ResumesOnce
  <1>9. ResumesOnce(box) /\ Head(box)[1] = "resume" => ~Resumes(Tail(box))
    BY <1>1, <1>2 DEF ResumesOnce, Resumes
  <1>10. \A m : Has(box, m) /\ Head(box) # m => Has(Tail(box), m)
    BY <1>1, <1>3 DEF Has
  <1>11. QED
    BY <1>1, <1>4, <1>5, <1>6, <1>7, <1>8, <1>9, <1>10

LEMMA BoxAppend ==
    ASSUME NEW box \in Seq(Messages), NEW m \in Messages
    PROVE  /\ Append(box, m) \in Seq(Messages)
           /\ m[1] # "get" => \A low, high : Asks(box, low, high) => Asks(Append(box, m), low, high)
           /\ m[1] # "resume" => (Resumes(Append(box, m)) <=> Resumes(box))
           /\ m[1] = "resume" => Resumes(Append(box, m))
           /\ ResumesOnce(box) /\ (m[1] = "resume" => ~Resumes(box)) => ResumesOnce(Append(box, m))
           /\ \A x : Has(box, x) => Has(Append(box, m), x)
  <1>1. /\ Append(box, m) \in Seq(Messages) /\ Len(box) \in Nat
        /\ Len(Append(box, m)) = Len(box) + 1 /\ Append(box, m)[Len(box) + 1] = m
        /\ \A i \in 1..Len(box) : Append(box, m)[i] = box[i]
    OBVIOUS
  <1>2. ASSUME m[1] # "get", NEW low, NEW high, Asks(box, low, high)
        PROVE  Asks(Append(box, m), low, high)
    BY <1>1, <1>2 DEF Asks
  <1>3. m[1] # "resume" => (Resumes(Append(box, m)) <=> Resumes(box))
    BY <1>1 DEF Resumes
  <1>4. m[1] = "resume" => Resumes(Append(box, m))
    BY <1>1 DEF Resumes
  <1>5. ResumesOnce(box) /\ (m[1] = "resume" => ~Resumes(box)) => ResumesOnce(Append(box, m))
    BY <1>1 DEF ResumesOnce, Resumes
  <1>6. \A x : Has(box, x) => Has(Append(box, m), x)
    BY <1>1 DEF Has
  <1>7. QED
    BY <1>1, <1>2, <1>3, <1>4, <1>5, <1>6

\* The box has k calls more, those after the a-th, at its end.
GetsAdded(box, a, k, new) ==
    /\ new \in Seq(Messages) /\ Len(new) = Len(box) + k
    /\ \A i \in 1..Len(box) : new[i] = box[i]
    /\ \A n \in 1..k : new[Len(box) + n] = <<"get", a + n>>

\* Calls come after those that are there.
LEMMA LaterAsks ==
    ASSUME NEW box \in Seq(Messages), NEW new \in Seq(Messages), NEW a \in Nat, NEW k \in Nat,
           GetsAdded(box, a, k, new)
    PROVE  /\ \A low \in Nat : low <= a /\ Asks(box, low, a) => Asks(new, low, a + k)
           /\ Resumes(new) <=> Resumes(box)
           /\ ResumesOnce(box) => ResumesOnce(new)
           /\ \A x : Has(box, x) => Has(new, x)
           /\ \A n \in a + 1..a + k : Has(new, <<"get", n>>)
  <1>0. MaxNext \in Nat
    BY LocalPartsAssumption DEF LocalPartsAssumption
  <1>1. Len(box) \in Nat /\ Len(new) = Len(box) + k
    BY DEF GetsAdded
  <1>2. \A i \in 1..Len(box) : i \in 1..Len(new) /\ new[i] = box[i]
    BY <1>1 DEF GetsAdded
  <1>3. \A i \in 1..Len(new) : i \in 1..Len(box) \/ (i - Len(box) \in 1..k /\ new[i] = <<"get", a + (i - Len(box))>>)
    <2>1. ASSUME NEW i \in 1..Len(new), i \notin 1..Len(box)
          PROVE  i - Len(box) \in 1..k /\ new[i] = <<"get", a + (i - Len(box))>>
      <3>1. i - Len(box) \in 1..k /\ Len(box) + (i - Len(box)) = i
        BY <1>1, <2>1
      <3>2. QED
        BY <3>1 DEF GetsAdded
    <2>2. QED
      BY <2>1
  <1>4. ASSUME NEW low \in Nat, low <= a, Asks(box, low, a)
        PROVE  Asks(new, low, a + k)
    <2>1. ASSUME NEW i \in 1..Len(new), new[i][1] = "get"
          PROVE  /\ new[i][2] > low /\ new[i][2] <= a + k
                 /\ \A j \in 1..Len(new) : i < j /\ new[j][1] = "get" => new[i][2] < new[j][2]
      <3>1. CASE i \in 1..Len(box)
        <4>1. box[i] \in Messages
          BY <3>1
        <4>2. box[i][2] \in Int
          BY <1>0, <4>1 DEF Messages
        <4>3. box[i][2] > low /\ box[i][2] <= a
          BY <1>2, <1>4, <2>1, <3>1 DEF Asks
        <4>4. ASSUME NEW j \in 1..Len(new), i < j, new[j][1] = "get"
              PROVE  box[i][2] < new[j][2]
          BY <1>2, <1>3, <1>4, <2>1, <3>1, <4>2, <4>3, <4>4 DEF Asks
        <4>5. new[i] = box[i]
          BY <1>2, <3>1
        <4>6. QED
          BY <4>2, <4>3, <4>4, <4>5
      <3>2. CASE i \notin 1..Len(box)
        <4>1. i - Len(box) \in 1..k /\ new[i] = <<"get", a + (i - Len(box))>>
          BY <1>3, <3>2
        <4>2. ASSUME NEW j \in 1..Len(new), i < j
              PROVE  new[i][2] < new[j][2]
          <5>1. j - Len(box) \in 1..k /\ new[j] = <<"get", a + (j - Len(box))>>
            BY <1>2, <1>3, <3>2, <4>1, <4>2
          <5>2. QED
            BY <1>2, <4>1, <4>2, <5>1
        <4>3. QED
          <5>1. new[i][2] = a + (i - Len(box)) /\ i - Len(box) \in 1..k
            BY <4>1
          <5>2. a + (i - Len(box)) > low /\ a + (i - Len(box)) <= a + k
            BY <1>1, <1>4, <4>1
          <5>3. QED
            BY <4>2, <5>1, <5>2
      <3>3. QED
        BY <3>1, <3>2
    <2>2. QED
      BY <2>1 DEF Asks
  <1>11. \A i \in 1..Len(new) : new[i][1] = "resume" => i \in 1..Len(box)
    BY <1>3
  <1>5. Resumes(new) <=> Resumes(box)
    BY <1>2, <1>11 DEF Resumes
  <1>6. ResumesOnce(box) => ResumesOnce(new)
    BY <1>2, <1>11 DEF ResumesOnce
  <1>7. \A x : Has(box, x) => Has(new, x)
    BY <1>2 DEF Has
  <1>8. ASSUME NEW n \in a + 1..a + k
        PROVE  Has(new, <<"get", n>>)
    <2>1. Len(box) + (n - a) \in 1..Len(new) /\ n - a \in 1..k /\ a + (n - a) = n
      BY <1>1
    <2>2. new[Len(box) + (n - a)] = <<"get", n>>
      BY <2>1 DEF GetsAdded
    <2>3. QED
      BY <2>1, <2>2 DEF Has
  <1>9. QED
    BY <1>4, <1>5, <1>6, <1>7, <1>8

\* The calls an iterator makes come after those it made.
LEMMA AskedLater ==
    ASSUME NEW box \in Seq(Messages), NEW a \in Nat, NEW k \in Nat, a + k <= MaxNext
    PROVE  GetsAdded(box, a, k, box \o [n \in 1..k |-> <<"get", a + n>>])
  <1> DEFINE gets == [n \in 1..k |-> <<"get", a + n>>]
  <1>0. MaxNext \in Nat
    BY LocalPartsAssumption DEF LocalPartsAssumption
  <1>1. gets \in Seq(Messages) /\ Len(gets) = k /\ \A n \in 1..k : gets[n] = <<"get", a + n>>
    <2>1. gets \in [1..k -> Messages]
      BY <1>0 DEF Messages
    <2>2. \A n \in 1..k : gets[n] = <<"get", a + n>>
      OBVIOUS
    <2>3. DOMAIN gets = 1..k
      OBVIOUS
    <2> HIDE DEF gets
    <2>4. gets \in UNION {[1..n -> Messages] : n \in Nat}
      BY <2>1
    <2>5. gets \in Seq(Messages)
      BY <2>4, SeqDef, Zenon
    <2>6. Len(gets) = k
      BY <2>3, <2>5, LenProperties
    <2>7. QED
      BY <2>2, <2>5, <2>6
  <1> HIDE DEF gets
  <1>3. /\ box \o gets \in Seq(Messages) /\ Len(box \o gets) = Len(box) + k
        /\ \A i \in 1..Len(box) + k : (box \o gets)[i] = IF i <= Len(box) THEN box[i] ELSE gets[i - Len(box)]
    BY <1>1, ConcatProperties
  <1>4. Len(box) \in Nat
    OBVIOUS
  <1>5. \A i \in 1..Len(box) : (box \o gets)[i] = box[i]
    BY <1>3, <1>4
  <1>6. \A n \in 1..k : (box \o gets)[Len(box) + n] = <<"get", a + n>>
    <2>1. ASSUME NEW n \in 1..k
          PROVE  (box \o gets)[Len(box) + n] = <<"get", a + n>>
      <3>1. Len(box) + n \in 1..Len(box) + k /\ ~(Len(box) + n <= Len(box)) /\ Len(box) + n - Len(box) = n
        BY <1>4
      <3>2. (box \o gets)[Len(box) + n] = gets[n]
        BY <1>3, <3>1
      <3>3. QED
        BY <1>1, <3>2
    <2>2. QED
      BY <2>1
  <1>7. GetsAdded(box, a, k, box \o gets)
    BY <1>3, <1>5, <1>6 DEF GetsAdded
  <1>8. QED
    BY <1>7 DEF gets

\* What holds of the calls that were not asked for yet, and those without a value.
LEMMA GeneratorFacts ==
    ASSUME Generator!TypeOK
    PROVE  /\ inbox \in Seq(Messages) /\ queued \in Seq(Generator!Nexts) /\ Len(queued) \in Nat
           /\ asked \in 0..MaxNext /\ yielded \in 0..MaxNext /\ MaxNext \in Nat /\ sets \in 0..2
           /\ PipelineLength \in 1..MaxNext
  BY LocalPartsAssumption DEF LocalPartsAssumption, Generator!TypeOK, Messages

LEMMA AskNextStep ==
    ASSUME GeneratorInv, Generator!AskNext
    PROVE  GeneratorInv'
  <1>0. Generator!TypeOK
    BY DEF GeneratorInv
  <1>a. /\ inbox \in Seq(Messages) /\ Len(queued) \in Nat /\ asked \in Nat /\ asked <= MaxNext /\ yielded \in Nat
        /\ MaxNext \in Nat /\ PipelineLength \in Nat /\ PipelineLength >= 1 /\ PipelineLength <= MaxNext
    BY <1>0, GeneratorFacts
  <1>1. PICK k \in Nat : asked' = asked + k /\ asked' <= MaxNext /\ Generator!NewCalls = asked + 1..asked + k
    <2>1. /\ asked' = asked + (IF asked = 0 THEN PipelineLength ELSE 1)
          /\ Generator!NewCalls # {}
      BY DEF Generator!AskNext
    <2>2. CASE asked = 0
      BY <1>a, <2>1, <2>2 DEF Generator!NewCalls
    <2>3. CASE asked # 0
      <3>1. asked < MaxNext /\ Generator!NewCalls = {asked + 1}
        BY <2>1, <2>3 DEF Generator!NewCalls
      <3>2. {asked + 1} = asked + 1..asked + 1
        BY <1>a
      <3>3. asked' = asked + 1 /\ asked' <= MaxNext
        BY <1>a, <2>1, <2>3, <3>1
      <3>4. QED
        BY <3>1, <3>2, <3>3
    <2>4. QED
      BY <2>2, <2>3
  <1>2. inbox' = inbox \o [n \in 1..k |-> <<"get", asked + n>>]
    <2>1. asked' - asked = k
      BY <1>0, <1>1, GeneratorFacts
    <2>2. QED
      BY <2>1 DEF Generator!AskNext, Generator!Post
  <1>3. UNCHANGED <<coroutine, sets, queued, inProgress, done, failed, destroyed, yielded, generatorOwner, iterator, given>>
    BY DEF Generator!AskNext, Generator!runState
  <1>4. said' = [i \in Generator!Nexts |-> IF i \in asked + 1..asked + k THEN "asked" ELSE said[i]]
    BY <1>1 DEF Generator!AskNext
  <1>5. GetsAdded(inbox, asked, k, inbox') /\ inbox' \in Seq(Messages)
    <2>1. asked + k <= MaxNext
      BY <1>1
    <2>2. GetsAdded(inbox, asked, k, inbox')
      BY <1>a, <1>2, <2>1, AskedLater
    <2>3. QED
      BY <2>2 DEF GetsAdded
  <1>6. /\ \A low \in Nat : low <= asked /\ Asks(inbox, low, asked) => Asks(inbox', low, asked')
        /\ Resumes(inbox') <=> Resumes(inbox)
        /\ ResumesOnce(inbox) => ResumesOnce(inbox')
        /\ \A x : Has(inbox, x) => Has(inbox', x)
        /\ \A n \in asked + 1..asked' : Has(inbox', <<"get", n>>)
    BY <1>a, <1>1, <1>5, LaterAsks
  <1>7. Generator!TypeOK'
    BY <1>0, <1>1, <1>3, <1>4, <1>5, GeneratorFacts DEF Generator!TypeOK, Messages
  <1>8. Generates' => GeneratesInOrder'
    <2>1. SUFFICES ASSUME Generates PROVE GeneratesInOrder'
      BY <1>3 DEF Generates
    <2>2. GeneratesInOrder
      BY <2>1 DEF GeneratorInv
    <2>3. Asks(inbox', yielded + Len(queued), asked')
      BY <1>a, <1>6, <2>2 DEF GeneratesInOrder
    <2>4. \A n \in yielded + Len(queued) + 1..asked' : Has(inbox', <<"get", n>>)
      <3>1. ASSUME NEW n \in yielded + Len(queued) + 1..asked'
            PROVE  Has(inbox', <<"get", n>>)
        <4>1. n \in yielded + Len(queued) + 1..asked \/ n \in asked + 1..asked'
          BY <1>a, <1>1
        <4>2. n \in yielded + Len(queued) + 1..asked => Has(inbox, <<"get", n>>)
          BY <2>2 DEF GeneratesInOrder
        <4>3. QED
          BY <1>6, <4>1, <4>2
      <3>2. QED
        BY <3>1
    <2>5. QED
      BY <1>0, <1>1, <1>3, <1>6, <2>2, <2>3, <2>4, GeneratorFacts DEF GeneratesInOrder
  <1>9. \A i \in Generator!Nexts : /\ said'[i] = "value" <=> i <= yielded
                                   /\ i <= yielded => given[i] = i
    BY <1>0, <1>1, <1>4, GeneratorFacts DEF GeneratorInv, Generator!Nexts
  <1>10. Asks(inbox', yielded, asked')
    BY <1>0, <1>6, GeneratorFacts DEF GeneratorInv
  <1>11. \A i \in 1..Len(queued) : queued[i] > yielded /\ queued[i] <= asked'
    <2>1. ASSUME NEW i \in 1..Len(queued)
          PROVE  queued[i] > yielded /\ queued[i] <= asked'
      <3>1. queued[i] > yielded /\ queued[i] <= asked /\ queued[i] \in Int
        BY <1>0, GeneratorFacts DEF GeneratorInv, Generator!Nexts
      <3>2. QED
        BY <1>0, <1>1, <3>1, GeneratorFacts
    <2>2. QED
      BY <2>1
  <1>12. yielded <= asked'
    BY <1>0, <1>1, GeneratorFacts DEF GeneratorInv
  <1>13. QED
    BY <1>3, <1>6, <1>7, <1>8, <1>9, <1>10, <1>11, <1>12 DEF GeneratorInv

\* A box with no call and no resumption that the other does not have, in the same order;
\* and one that has them all.
Less(new, box) ==
    /\ new \in Seq(Messages)
    /\ \A low, high : Asks(box, low, high) => Asks(new, low, high)
    /\ Resumes(new) => Resumes(box)
    /\ ResumesOnce(box) => ResumesOnce(new)
Same(new, box) ==
    /\ Less(new, box)
    /\ Resumes(box) => Resumes(new)
    /\ \A n : Has(box, <<"get", n>>) => Has(new, <<"get", n>>)

LEMMA TailLess ==
    ASSUME NEW box \in Seq(Messages), box # <<>>
    PROVE  /\ Less(Tail(box), box)
           /\ Head(box)[1] \notin {"get", "resume"} => Same(Tail(box), box)
           /\ Tail(box) \in Seq(Messages)
  <1>1. Less(Tail(box), box) /\ Tail(box) \in Seq(Messages)
    BY BoxTail DEF Less
  <1>2. ASSUME Head(box)[1] \notin {"get", "resume"}
        PROVE  Same(Tail(box), box)
    <2>1. \A n : Head(box) # <<"get", n>>
      BY <1>2
    <2>2. \A n : Has(box, <<"get", n>>) => Has(Tail(box), <<"get", n>>)
      BY <2>1, BoxTail
    <2>3. Resumes(box) => Resumes(Tail(box))
      BY <1>2, BoxTail
    <2>4. QED
      BY <1>1, <2>2, <2>3 DEF Same
  <1>3. QED
    BY <1>1, <1>2

LEMMA AppendSame ==
    ASSUME NEW box \in Seq(Messages), NEW kind, NEW n, <<kind, n>> \in Messages, kind \notin {"get", "resume"}
    PROVE  Same(Append(box, <<kind, n>>), box)
  <1>1. <<kind, n>>[1] = kind
    OBVIOUS
  <1>2. Less(Append(box, <<kind, n>>), box)
    BY <1>1, BoxAppend DEF Less
  <1>3. QED
    BY <1>1, <1>2, BoxAppend DEF Same

\* The first message is handled, and perhaps another is sent that is none of them.
LEMMA HandledLess ==
    ASSUME NEW box \in Seq(Messages), box # <<>>, NEW kind, <<kind, 0>> \in Messages, kind \notin {"get", "resume"}
    PROVE  /\ Less(Append(Tail(box), <<kind, 0>>), box)
           /\ Head(box)[1] \notin {"get", "resume"} => Same(Append(Tail(box), <<kind, 0>>), box)
  <1>1. Same(Append(Tail(box), <<kind, 0>>), Tail(box))
    BY TailLess, AppendSame
  <1>2. Less(Tail(box), box) /\ (Head(box)[1] \notin {"get", "resume"} => Same(Tail(box), box))
    BY TailLess
  <1>3. QED
    BY <1>1, <1>2 DEF Same, Less

LEMMA AsksFromBelow ==
    ASSUME NEW box \in Seq(Messages), NEW low \in Int, NEW below \in Int, below <= low, NEW high,
           Asks(box, low, high)
    PROVE  Asks(box, below, high)
  <1>1. \A i \in 1..Len(box) : box[i][2] \in Int
    <2>1. \A i \in 1..Len(box) : box[i] \in Messages
      OBVIOUS
    <2>2. QED
      BY <2>1, LocalPartsAssumption DEF LocalPartsAssumption, Messages
  <1>2. QED
    BY <1>1 DEF Asks

----------------------------------------------------------------------------

\* A step after which the generator is not resumed any more.
LEMMA EndsStep ==
    ASSUME GeneratorInv, Generator!TypeOK', ~Generates', Less(inbox', inbox),
           UNCHANGED <<yielded, asked, given>>, queued' \in {queued, <<>>},
           \A i \in Generator!Nexts : said'[i] = said[i] \/ (i > yielded /\ said'[i] # "value"),
           coroutine' = "gone" \/ (coroutine' = coroutine /\ sets' = sets),
           generatorOwner' = "deleted" => coroutine' \in {"initial", "gone"}
    PROVE  GeneratorInv'
  <1>0. Generator!TypeOK
    BY DEF GeneratorInv
  <1>1. yielded \in Int
    BY <1>0, GeneratorFacts
  <1>2. \A i \in Generator!Nexts : /\ said'[i] = "value" <=> i <= yielded
                                   /\ i <= yielded => given[i] = i
    BY <1>0, <1>1, GeneratorFacts DEF GeneratorInv, Generator!Nexts
  <1>3. \A i \in 1..Len(queued') : queued'[i] > yielded /\ queued'[i] <= asked
    BY DEF GeneratorInv
  <1>4. Asks(inbox', yielded, asked) /\ ResumesOnce(inbox') /\ (Resumes(inbox') => Resumes(inbox))
    BY DEF GeneratorInv, Less
  <1>5. QED
    BY <1>2, <1>3, <1>4 DEF GeneratorInv

\* A step in which messages come or go that are not about values.
LEMMA QuietStep ==
    ASSUME GeneratorInv, Generator!TypeOK', Generates, generatorOwner' # "deleted", Same(inbox', inbox),
           UNCHANGED <<coroutine, sets, queued, inProgress, done, failed, destroyed, yielded, asked, said, given>>
    PROVE  GeneratorInv'
  <1>1. GeneratesInOrder
    BY DEF GeneratorInv
  <1>2. /\ \A low, high : Asks(inbox, low, high) => Asks(inbox', low, high)
        /\ Resumes(inbox') <=> Resumes(inbox)
        /\ ResumesOnce(inbox) => ResumesOnce(inbox')
        /\ \A n : Has(inbox, <<"get", n>>) => Has(inbox', <<"get", n>>)
    BY DEF Same, Less
  <1>3. GeneratesInOrder'
    BY <1>1, <1>2 DEF GeneratesInOrder
  <1>4. QED
    BY <1>2, <1>3 DEF GeneratorInv, Generates

\* What is said to the calls that wait is no value, and they are after the last one.
LEMMA AllSaidStep ==
    ASSUME GeneratorInv, NEW a, a # "value"
    PROVE  \A i \in Generator!Nexts :
              \/ Generator!AllSaid(a)[i] = said[i]
              \/ i > yielded /\ Generator!AllSaid(a)[i] # "value"
  <1>1. queued \in Seq(Generator!Nexts) /\ \A i \in 1..Len(queued) : queued[i] > yielded
    BY DEF GeneratorInv, Generator!TypeOK
  <1>2. \A i \in Generator!Range(queued) : i > yielded
    BY <1>1 DEF Generator!Range
  <1>3. QED
    BY <1>2 DEF Generator!AllSaid

LEMMA FinishStep ==
    ASSUME GeneratorInv, coroutine # "gone", NEW a \in {"end", "error", "deleted"}, Generator!Finish(a),
           UNCHANGED <<iterator, asked>>, generatorOwner' \in {"alive", "destroying", "deleted"},
           Less(inbox', inbox)
    PROVE  GeneratorInv'
  <1>0. Generator!TypeOK /\ sets <= 1
    BY DEF GeneratorInv
  <1>1. /\ coroutine' = "gone" /\ sets' = sets + 1 /\ said' = Generator!AllSaid(a) /\ queued' = <<>>
        /\ UNCHANGED <<inProgress, destroyed, yielded, given>>
        /\ done' \in BOOLEAN /\ failed' \in BOOLEAN
    BY <1>0 DEF Generator!Finish, Generator!TypeOK
  <1>2. said' \in [Generator!Nexts -> {"none", "asked", "value", "end", "error", "deleted", "notSet"}]
    BY <1>0, <1>1 DEF Generator!AllSaid, Generator!TypeOK
  <1>3. inbox' \in Seq(Messages) /\ sets' \in 0..2
    BY <1>0, <1>1, GeneratorFacts DEF Less
  <1>4. Generator!TypeOK'
    BY <1>0, <1>1, <1>2, <1>3 DEF Generator!TypeOK, Messages
  <1>5. ~Generates'
    BY <1>1 DEF Generates
  <1>6. QED
    BY <1>1, <1>4, <1>5, AllSaidStep, EndsStep

LEMMA SendStep ==
    ASSUME GeneratorInv, Generator!DestroyIterator \/ Generator!DestroyOwner \/ Generator!AwaitedArrives
    PROVE  GeneratorInv'
  <1>0. Generator!TypeOK /\ inbox \in Seq(Messages) /\ MaxNext \in Nat
    BY GeneratorFacts DEF GeneratorInv
  <1>1. /\ UNCHANGED <<coroutine, sets, queued, inProgress, done, failed, destroyed, yielded, asked, said, given>>
        /\ \/ generatorOwner' = generatorOwner /\ iterator' \in {"functor", "destroying"}
           \/ generatorOwner = "alive" /\ generatorOwner' = "destroying" /\ iterator' = iterator
           \/ generatorOwner' = generatorOwner /\ iterator' = iterator
    BY DEF Generator!DestroyIterator, Generator!DestroyOwner, Generator!AwaitedArrives, Generator!runState
  <1>2. PICK kind \in {"dropFunctor", "asyncDestroy", "destroyInternal", "awaited"} :
           inbox' = Append(inbox, <<kind, 0>>)
    BY DEF Generator!DestroyIterator, Generator!DestroyOwner, Generator!AwaitedArrives, Generator!Post
  <1>3. <<kind, 0>> \in Messages
    BY <1>0 DEF Messages
  <1>4. Same(inbox', inbox)
    BY <1>0, <1>2, <1>3, AppendSame
  <1>5. Less(inbox', inbox) /\ inbox' \in Seq(Messages)
    BY <1>4 DEF Same, Less
  <1>6. Generator!TypeOK'
    BY <1>0, <1>1, <1>5 DEF Generator!TypeOK, Messages
  <1>7. CASE Generates
    <2>1. generatorOwner' # "deleted"
      BY <1>1, <1>7 DEF Generates
    <2>2. QED
      BY <1>1, <1>4, <1>6, <1>7, <2>1, QuietStep
  <1>8. CASE ~Generates
    <2>1. ~Generates'
      BY <1>1, <1>8 DEF Generates
    <2>2. generatorOwner' = "deleted" => coroutine' \in {"initial", "gone"}
      BY <1>1 DEF GeneratorInv
    <2>3. UNCHANGED <<yielded, asked, given>> /\ queued' \in {queued, <<>>}
      BY <1>1
    <2>4. \A n \in Generator!Nexts : said'[n] = said[n] \/ (n > yielded /\ said'[n] # "value")
      BY <1>1
    <2>5. QED
      BY <1>1, <1>5, <1>6, <2>1, <2>2, <2>3, <2>4, EndsStep
  <1>9. QED
    BY <1>7, <1>8

\* The first message is one of a kind.
LEMMA FirstMessage ==
    ASSUME GeneratorInv, NEW kind, Generator!IsNext(kind)
    PROVE  /\ Generator!TypeOK /\ inbox \in Seq(Messages) /\ MaxNext \in Nat
           /\ inbox # <<>> /\ Head(inbox)[1] = kind /\ Head(inbox) \in Messages
           /\ Less(Tail(inbox), inbox) /\ Tail(inbox) \in Seq(Messages)
           /\ kind \notin {"get", "resume"} => Same(Tail(inbox), inbox)
  <1>1. Generator!TypeOK /\ inbox \in Seq(Messages) /\ MaxNext \in Nat
    BY GeneratorFacts DEF GeneratorInv
  <1>2. inbox # <<>> /\ Head(inbox)[1] = kind
    BY DEF Generator!IsNext
  <1>3. QED
    BY <1>1, <1>2, TailLess, BoxTail

\* A message that leaves the generator as it is, or destroys it.
LEMMA EndOrQuietStep ==
    ASSUME GeneratorInv, Generator!TypeOK', Less(inbox', inbox),
           UNCHANGED <<sets, queued, inProgress, done, failed, destroyed, yielded, asked, said, given>>,
           coroutine' \in {coroutine, "gone"},
           Generates' => Same(inbox', inbox) /\ generatorOwner # "deleted",
           generatorOwner' = "deleted" => coroutine' \in {"initial", "gone"}
    PROVE  GeneratorInv'
  <1>1. CASE Generates'
    <2>1. Generates /\ coroutine' = coroutine /\ generatorOwner' # "deleted"
      BY <1>1 DEF Generates
    <2>2. QED
      BY <1>1, <2>1, QuietStep
  <1>2. CASE ~Generates'
    <2>1. UNCHANGED <<yielded, asked, given>> /\ queued' \in {queued, <<>>}
      OBVIOUS
    <2>2. \A n \in Generator!Nexts : said'[n] = said[n] \/ (n > yielded /\ said'[n] # "value")
      OBVIOUS
    <2>3. coroutine' = "gone" \/ (coroutine' = coroutine /\ sets' = sets)
      OBVIOUS
    <2>4. QED
      BY <1>2, <2>1, <2>2, <2>3, EndsStep
  <1>3. QED
    BY <1>1, <1>2

LEMMA AsyncDestroyStep ==
    ASSUME GeneratorInv, Generator!AsyncDestroy
    PROVE  GeneratorInv'
  <1>0. Generator!IsNext("asyncDestroy")
    BY DEF Generator!AsyncDestroy
  <1>1. /\ Generator!TypeOK /\ inbox \in Seq(Messages) /\ MaxNext \in Nat /\ inbox # <<>>
    BY <1>0, FirstMessage
  <1>2. <<"dropFunctor", 0>> \in Messages
    BY <1>1 DEF Messages
  <1>3. inbox' = Append(Tail(inbox), <<"dropFunctor", 0>>)
    BY DEF Generator!AsyncDestroy, Generator!Post
  <1>4. Less(inbox', inbox)
    BY <1>1, <1>2, <1>3, HandledLess
  <1>5. /\ coroutine' = IF generatorOwner # "deleted" THEN "gone" ELSE coroutine
        /\ said' = Generator!AllSaid("notSet") /\ queued' = <<>> /\ destroyed' = TRUE /\ iterator' = "functor"
        /\ UNCHANGED <<sets, inProgress, done, failed, yielded, generatorOwner, asked, given>>
    BY DEF Generator!AsyncDestroy
  <1>6. said' \in [Generator!Nexts -> {"none", "asked", "value", "end", "error", "deleted", "notSet"}]
    BY <1>1, <1>5 DEF Generator!AllSaid, Generator!TypeOK
  <1>7. Generator!TypeOK'
    BY <1>1, <1>4, <1>5, <1>6 DEF Generator!TypeOK, Messages, Less
  <1>8. ~Generates' /\ (generatorOwner' = "deleted" => coroutine' \in {"initial", "gone"})
    BY <1>5 DEF Generates, GeneratorInv
  <1>9. QED
    BY <1>4, <1>5, <1>7, <1>8, AllSaidStep, EndsStep

LEMMA DropFunctorStep ==
    ASSUME GeneratorInv, Generator!DropFunctor
    PROVE  GeneratorInv'
  <1>0. Generator!IsNext("dropFunctor")
    BY DEF Generator!DropFunctor
  <1>1. Generator!TypeOK /\ Less(Tail(inbox), inbox) /\ Tail(inbox) \in Seq(Messages)
    BY <1>0, FirstMessage
  <1>2. /\ iterator' = "gone" /\ coroutine' = "gone" /\ inbox' = Tail(inbox)
        /\ UNCHANGED <<sets, queued, inProgress, done, failed, destroyed, yielded, generatorOwner, asked, said, given>>
    BY DEF Generator!DropFunctor, Generator!runState
  <1>3. Generator!TypeOK'
    BY <1>1, <1>2 DEF Generator!TypeOK, Messages
  <1>4. ~Generates'
    BY <1>2 DEF Generates
  <1>5. QED
    BY <1>1, <1>2, <1>3, <1>4, EndOrQuietStep

LEMMA DestroyInternalStep ==
    ASSUME GeneratorInv, Generator!DestroyInternal
    PROVE  GeneratorInv'
  <1>0. Generator!IsNext("destroyInternal")
    BY DEF Generator!DestroyInternal
  <1>1. /\ Generator!TypeOK /\ inbox \in Seq(Messages) /\ MaxNext \in Nat /\ inbox # <<>>
        /\ Head(inbox)[1] = "destroyInternal"
    BY <1>0, FirstMessage
  <1>2. PICK kind \in {"destroyYields", "handler"} : inbox' = Append(Tail(inbox), <<kind, 0>>)
    BY DEF Generator!DestroyInternal, Generator!Post
  <1>3. <<kind, 0>> \in Messages
    BY <1>1 DEF Messages
  <1>4. Same(inbox', inbox)
    BY <1>1, <1>2, <1>3, HandledLess
  <1>5. UNCHANGED <<coroutine, sets, queued, inProgress, done, failed, destroyed, yielded, generatorOwner, iterator, asked, said, given>>
    BY DEF Generator!DestroyInternal, Generator!runState
  <1>6. Less(inbox', inbox) /\ inbox' \in Seq(Messages)
    BY <1>4 DEF Same, Less
  <1>7. Generator!TypeOK'
    BY <1>1, <1>5, <1>6 DEF Generator!TypeOK, Messages
  <1>8. Generates' => generatorOwner # "deleted"
    BY <1>5 DEF Generates
  <1>9. generatorOwner' = "deleted" => coroutine' \in {"initial", "gone"}
    BY <1>5 DEF GeneratorInv
  <1>10. QED
    BY <1>4, <1>5, <1>6, <1>7, <1>8, <1>9, EndOrQuietStep

LEMMA DestroyYieldsStep ==
    ASSUME GeneratorInv, Generator!DestroyYields
    PROVE  GeneratorInv'
  <1>0. Generator!IsNext("destroyYields")
    BY DEF Generator!DestroyYields
  <1>1. /\ Generator!TypeOK /\ inbox \in Seq(Messages) /\ MaxNext \in Nat /\ inbox # <<>>
        /\ Head(inbox)[1] = "destroyYields"
    BY <1>0, FirstMessage
  <1>2. inbox' = Append(Tail(inbox), <<"handler", 0>>)
    BY DEF Generator!DestroyYields, Generator!Post
  <1>3. <<"handler", 0>> \in Messages
    BY <1>1 DEF Messages
  <1>4. Same(inbox', inbox)
    BY <1>1, <1>2, <1>3, HandledLess
  <1>5. Less(inbox', inbox) /\ inbox' \in Seq(Messages)
    BY <1>4 DEF Same, Less
  <1>6. UNCHANGED <<generatorOwner, iterator, asked>>
    BY DEF Generator!DestroyYields
  <1>7. CASE Generator!Suspended /\ sets = 0
    <2>1. Generator!Finish("deleted") /\ coroutine # "gone"
      BY <1>7 DEF Generator!DestroyYields, Generator!Suspended
    <2>2. generatorOwner' \in {"alive", "destroying", "deleted"}
      BY <1>1, <1>6 DEF Generator!TypeOK
    <2>3. QED
      BY <1>5, <1>6, <2>1, <2>2, FinishStep
  <1>8. CASE ~(Generator!Suspended /\ sets = 0)
    <2>1. /\ coroutine' \in {coroutine, "gone"}
          /\ UNCHANGED <<sets, queued, inProgress, done, failed, destroyed, yielded, said, given>>
      BY <1>8 DEF Generator!DestroyYields, Generator!runState
    <2>2. Generator!TypeOK'
      BY <1>1, <1>5, <1>6, <2>1 DEF Generator!TypeOK, Messages
    <2>3. Generates' => generatorOwner # "deleted"
      BY <1>6 DEF Generates
    <2>4. generatorOwner' = "deleted" => coroutine' \in {"initial", "gone"}
      BY <1>6, <2>1 DEF GeneratorInv
    <2>5. QED
      BY <1>4, <1>5, <1>6, <2>1, <2>2, <2>3, <2>4, EndOrQuietStep
  <1>9. QED
    BY <1>7, <1>8

LEMMA HandlerStep ==
    ASSUME GeneratorInv, Generator!Handler
    PROVE  GeneratorInv'
  <1>0. Generator!IsNext("handler")
    BY DEF Generator!Handler
  <1>1. Generator!TypeOK /\ Less(Tail(inbox), inbox) /\ Tail(inbox) \in Seq(Messages)
    BY <1>0, FirstMessage
  <1>2. generatorOwner' = "deleted" /\ inbox' = Tail(inbox) /\ UNCHANGED <<iterator, asked>>
    BY DEF Generator!Handler
  <1>3. CASE Generator!Suspended
    <2>1. Generator!Finish("deleted") /\ coroutine # "gone"
      BY <1>3 DEF Generator!Handler, Generator!Suspended
    <2>2. QED
      BY <1>1, <1>2, <2>1, FinishStep
  <1>4. CASE ~Generator!Suspended
    <2>1. UNCHANGED <<coroutine, sets, queued, inProgress, done, failed, destroyed, yielded, said, given>>
      BY <1>4 DEF Generator!Handler, Generator!runState
    <2>2. Generator!TypeOK'
      BY <1>1, <1>2, <2>1 DEF Generator!TypeOK, Messages
    <2>3. coroutine' \in {"initial", "gone"}
      BY <1>1, <1>4, <2>1 DEF Generator!TypeOK, Generator!Suspended
    <2>4. ~Generates'
      BY <1>2 DEF Generates
    <2>5. QED
      BY <1>1, <1>2, <2>1, <2>2, <2>3, <2>4, EndOrQuietStep
  <1>5. QED
    BY <1>3, <1>4

\* f_GetGeneratorValue for a generator that ended, or whose actor did.
LEMMA GetEndedStep ==
    ASSUME GeneratorInv, Generator!Get, ~Generates
    PROVE  GeneratorInv'
  <1>0. Generator!IsNext("get")
    BY DEF Generator!Get
  <1>1. /\ Generator!TypeOK /\ inbox \in Seq(Messages) /\ MaxNext \in Nat /\ inbox # <<>>
        /\ Head(inbox)[1] = "get" /\ Head(inbox) \in Messages
        /\ Less(Tail(inbox), inbox) /\ Tail(inbox) \in Seq(Messages)
    BY <1>0, FirstMessage
  <1>2. PICK now \in {"deleted", "end"} :
           /\ said' = [said EXCEPT ![Generator!Call] = now] /\ queued' = queued
           /\ inbox' = Tail(inbox) /\ UNCHANGED <<inProgress, sets>>
    <2>1. CASE generatorOwner = "deleted"
      BY <2>1 DEF Generator!Get
    <2>2. CASE generatorOwner # "deleted"
      BY <2>2 DEF Generator!Get, Generates
    <2>3. QED
      BY <2>1, <2>2
  <1>3. UNCHANGED <<coroutine, done, failed, destroyed, yielded, generatorOwner, iterator, asked, given>>
    BY DEF Generator!Get
  <1>4. Generator!TypeOK'
    BY <1>1, <1>2, <1>3 DEF Generator!TypeOK, Messages
  <1>5. Generator!Call > yielded
    BY <1>1 DEF GeneratorInv, Asks, Generator!Call
  <1>6. \A n \in Generator!Nexts : said'[n] = said[n] \/ (n > yielded /\ said'[n] # "value")
    BY <1>1, <1>2, <1>5 DEF Generator!TypeOK
  <1>7. ~Generates' /\ (generatorOwner' = "deleted" => coroutine' \in {"initial", "gone"})
    BY <1>3 DEF Generates, GeneratorInv
  <1>8. QED
    BY <1>1, <1>2, <1>3, <1>4, <1>6, <1>7, EndsStep

\* The call is queued, as the one after those that are, and sets the generator going.
LEMMA GetStep ==
    ASSUME GeneratorInv, Generator!Get, Generates
    PROVE  GeneratorInv'
  <1> DEFINE c == Head(inbox)[2]
             last == yielded + Len(queued)
  <1>0. Generator!IsNext("get")
    BY DEF Generator!Get
  <1>1. /\ Generator!TypeOK /\ inbox \in Seq(Messages) /\ MaxNext \in Nat /\ inbox # <<>>
        /\ Head(inbox)[1] = "get" /\ Head(inbox) \in Messages
        /\ Less(Tail(inbox), inbox) /\ Tail(inbox) \in Seq(Messages)
    BY <1>0, FirstMessage
  <1>2. GeneratesInOrder
    BY DEF GeneratorInv
  <1>3. /\ asked \in Nat /\ asked <= MaxNext /\ yielded \in Nat /\ Len(queued) \in Nat
        /\ queued \in Seq(Generator!Nexts)
    BY <1>1, GeneratorFacts
  <1>4. /\ said' = [said EXCEPT ![c] = "asked"] /\ queued' = Append(queued, c)
        /\ IF ~inProgress
           THEN inProgress' = TRUE /\ sets' = 0 /\ inbox' = Append(Tail(inbox), <<"resume", 0>>)
           ELSE inbox' = Tail(inbox) /\ UNCHANGED <<inProgress, sets>>
    BY <1>2 DEF Generator!Get, Generator!Call, Generator!Post, Generates, GeneratesInOrder
  <1>5. UNCHANGED <<coroutine, done, failed, destroyed, yielded, generatorOwner, iterator, asked, given>>
    BY DEF Generator!Get
  <1>6. inbox[1] = Head(inbox) /\ 1 \in 1..Len(inbox) /\ c \in Int /\ Head(inbox) = <<"get", c>>
    BY <1>1 DEF Messages
  <1>7. c > last /\ c <= asked
    BY <1>1, <1>2, <1>6 DEF GeneratesInOrder, Asks
  <1>8. ASSUME NEW i \in 1..Len(Tail(inbox)), Tail(inbox)[i][1] = "get"
        PROVE  Tail(inbox)[i][2] > c /\ Tail(inbox)[i][2] <= asked
    <2>1. i + 1 \in 1..Len(inbox) /\ Tail(inbox)[i] = inbox[i + 1] /\ 1 < i + 1
      BY <1>1
    <2>2. c < inbox[i + 1][2] /\ inbox[i + 1][2] <= asked
      BY <1>1, <1>2, <1>6, <1>8, <2>1 DEF GeneratesInOrder, Asks
    <2>3. inbox[i + 1] \in Messages
      BY <1>1, <2>1
    <2>4. inbox[i + 1][2] \in Int
      BY <1>1, <2>3 DEF Messages
    <2>5. QED
      BY <1>6, <2>1, <2>2, <2>4
  <1>9. c = last + 1
    <2>1. SUFFICES ASSUME c > last + 1 PROVE FALSE
      BY <1>3, <1>6, <1>7
    <2>2. Has(inbox, <<"get", last + 1>>)
      BY <1>2, <1>3, <1>6, <1>7, <2>1 DEF GeneratesInOrder
    <2>3. Has(Tail(inbox), <<"get", last + 1>>)
      <3>1. Head(inbox) # <<"get", last + 1>>
        BY <1>3, <1>6, <2>1
      <3>2. QED
        BY <1>1, <2>2, <3>1, BoxTail
    <2>4. PICK i \in 1..Len(Tail(inbox)) : Tail(inbox)[i] = <<"get", last + 1>>
      BY <2>3 DEF Has
    <2>5. Tail(inbox)[i][1] = "get" /\ Tail(inbox)[i][2] = last + 1
      BY <2>4
    <2>6. QED
      BY <1>3, <1>6, <1>8, <2>1, <2>5
  <1>10. /\ queued' \in Seq(Generator!Nexts) /\ Len(queued') = Len(queued) + 1 /\ queued' # <<>>
         /\ \A i \in 1..Len(queued') : queued'[i] = yielded + i
    <2>1. c \in Generator!Nexts
      <3>1. last \in Nat
        BY <1>3
      <3> HIDE DEF last, c
      <3>2. c \in 1..MaxNext
        BY <1>1, <1>3, <1>6, <1>7, <3>1
      <3>3. QED
        BY <3>2 DEF Generator!Nexts
    <2>2. /\ queued' \in Seq(Generator!Nexts) /\ Len(queued') = Len(queued) + 1 /\ queued' # <<>>
          /\ queued'[Len(queued) + 1] = c
          /\ \A i \in 1..Len(queued) : queued'[i] = queued[i]
      BY <1>3, <1>4, <2>1
    <2>3. ASSUME NEW i \in 1..Len(queued')
          PROVE  queued'[i] = yielded + i
      <3>1. CASE i \in 1..Len(queued)
        BY <1>2, <2>2, <3>1 DEF GeneratesInOrder
      <3>2. CASE i \notin 1..Len(queued)
        <4>1. i = Len(queued) + 1
          BY <1>3, <2>2, <3>2
        <4>2. QED
          BY <1>3, <1>9, <2>2, <4>1
      <3>3. QED
        BY <3>1, <3>2
    <2>4. QED
      BY <2>2, <2>3
  <1>11. Asks(Tail(inbox), last, asked)
    BY <1>1, <1>2 DEF GeneratesInOrder, Less
  <1>12. Asks(Tail(inbox), last + 1, asked)
    BY <1>8, <1>9, <1>11 DEF Asks
  <1>13. \A n \in last + 2..asked : Has(Tail(inbox), <<"get", n>>)
    <2>1. ASSUME NEW n \in last + 2..asked
          PROVE  Has(Tail(inbox), <<"get", n>>)
      <3>1. Has(inbox, <<"get", n>>)
        BY <1>2, <1>3 DEF GeneratesInOrder
      <3>2. <<"get", n>> # Head(inbox)
        BY <1>3, <1>6, <1>9
      <3>3. QED
        BY <1>1, <3>1, <3>2, BoxTail
    <2>2. QED
      BY <2>1
  <1>14. <<"resume", 0>> \in Messages
    BY <1>1 DEF Messages
  <1>15. Resumes(Tail(inbox)) <=> Resumes(inbox)
    BY <1>1, BoxTail
  <1>16. /\ inbox' \in Seq(Messages)
         /\ Asks(inbox', last + 1, asked)
         /\ \A n \in last + 2..asked : Has(inbox', <<"get", n>>)
         /\ ResumesOnce(inbox')
         /\ inProgress' = TRUE
         /\ Resumes(inbox') \/ coroutine = "awaiting"
         /\ Resumes(inbox') => coroutine \in {"initial", "yielded"} /\ sets' = 0
         /\ sets' \in 0..2 /\ sets' <= 1
    <2>1. CASE ~inProgress
      <3>1. /\ inProgress' = TRUE /\ sets' = 0 /\ inbox' = Append(Tail(inbox), <<"resume", 0>>)
        BY <1>4, <2>1
      <3>2. ~Resumes(inbox) /\ coroutine # "awaiting"
        BY <1>2, <2>1 DEF GeneratesInOrder
      <3>3. coroutine \in {"initial", "yielded"}
        BY <1>1, <3>2 DEF Generator!TypeOK, Generates
      <3>4. ResumesOnce(Tail(inbox))
        BY <1>1 DEF Less, GeneratorInv
      <3>5. <<"resume", 0>>[1] = "resume"
        OBVIOUS
      <3>6. inbox' \in Seq(Messages) /\ Resumes(inbox') /\ ResumesOnce(inbox')
        BY <1>1, <1>14, <1>15, <3>1, <3>2, <3>4, <3>5, BoxAppend
      <3>7. Asks(inbox', last + 1, asked)
        BY <1>1, <1>12, <1>14, <3>1, <3>5, BoxAppend
      <3>8. \A n \in last + 2..asked : Has(inbox', <<"get", n>>)
        BY <1>1, <1>13, <1>14, <3>1, BoxAppend
      <3>9. QED
        BY <3>1, <3>3, <3>6, <3>7, <3>8
    <2>2. CASE inProgress
      <3>1. inbox' = Tail(inbox) /\ UNCHANGED <<inProgress, sets>>
        BY <1>4, <2>2
      <3>2. inProgress' = TRUE
        BY <1>1, <2>2, <3>1 DEF Generator!TypeOK
      <3>3. Resumes(inbox) \/ coroutine = "awaiting"
        BY <1>2, <2>2 DEF GeneratesInOrder
      <3>4. ResumesOnce(Tail(inbox))
        BY <1>1 DEF Less, GeneratorInv
      <3>5. sets \in 0..2 /\ sets <= 1 /\ (Resumes(inbox) => coroutine \in {"initial", "yielded"} /\ sets = 0)
        BY <1>1 DEF Generates, GeneratorInv, Generator!TypeOK
      <3>6. QED
        BY <1>1, <1>12, <1>13, <1>15, <3>1, <3>2, <3>3, <3>4, <3>5
    <2>3. QED
      BY <2>1, <2>2
  <1>17. Generator!TypeOK'
    <2>1. said' \in [Generator!Nexts -> {"none", "asked", "value", "end", "error", "deleted", "notSet"}]
      BY <1>1, <1>4 DEF Generator!TypeOK
    <2>2. QED
      BY <1>1, <1>5, <1>10, <1>16, <2>1 DEF Generator!TypeOK, Messages
  <1>18. \A i \in Generator!Nexts : /\ said'[i] = "value" <=> i <= yielded
                                    /\ i <= yielded => given[i] = i
    <2>1. c > yielded
      BY <1>3, <1>9
    <2>2. QED
      BY <1>1, <1>3, <1>4, <1>6, <2>1 DEF GeneratorInv, Generator!TypeOK, Generator!Nexts
  <1>19. yielded + Len(queued') = last + 1 /\ yielded + Len(queued') + 1 = last + 2
    BY <1>3, <1>10
  <1>20. GeneratesInOrder'
    <2>1. yielded + Len(queued') <= asked
      BY <1>3, <1>6, <1>7, <1>9, <1>19
    <2>2. Asks(inbox', yielded + Len(queued'), asked)
      BY <1>16, <1>19
    <2>3. \A n \in yielded + Len(queued') + 1..asked : Has(inbox', <<"get", n>>)
      BY <1>16, <1>19
    <2>4. done' = FALSE /\ failed' = FALSE /\ destroyed' = FALSE
      BY <1>2, <1>5 DEF GeneratesInOrder
    <2>5. QED
      BY <1>5, <1>10, <1>16, <2>1, <2>2, <2>3, <2>4 DEF GeneratesInOrder
  <1>21. \A i \in 1..Len(queued') : queued'[i] > yielded /\ queued'[i] <= asked
    BY <1>3, <1>6, <1>7, <1>9, <1>10, <1>19
  <1>22. Asks(inbox', yielded, asked)
    BY <1>3, <1>16, AsksFromBelow
  <1>23. Generates' /\ generatorOwner' # "deleted" /\ coroutine' # "gone"
    BY <1>5 DEF Generates
  <1>24. QED
    BY <1>5, <1>16, <1>17, <1>18, <1>20, <1>21, <1>22, <1>23 DEF GeneratorInv

\* co_yield: the value goes to the call that waits longest, which asked for it.
LEMMA YieldStep ==
    ASSUME GeneratorInv, Generates, queued # <<>>, inbox # <<>>, ~Resumes(Tail(inbox)),
           Head(inbox)[1] # "get", Generator!Yield, UNCHANGED <<generatorOwner, iterator, asked>>
    PROVE  GeneratorInv'
  <1>1. /\ Generator!TypeOK /\ inbox \in Seq(Messages) /\ Less(Tail(inbox), inbox)
        /\ Tail(inbox) \in Seq(Messages)
    BY GeneratorFacts, TailLess DEF GeneratorInv
  <1>2. GeneratesInOrder
    BY DEF GeneratorInv
  <1>3. /\ asked \in Nat /\ asked <= MaxNext /\ yielded \in Nat /\ Len(queued) \in Nat /\ MaxNext \in Nat
        /\ queued \in Seq(Generator!Nexts)
    BY <1>1, GeneratorFacts
  <1>4. /\ coroutine' = "yielded" /\ yielded' = yielded + 1 /\ UNCHANGED <<done, failed, destroyed>>
        /\ said' = [said EXCEPT ![Head(queued)] = "value"]
        /\ given' = [given EXCEPT ![Head(queued)] = yielded']
        /\ queued' = Tail(queued) /\ inProgress' = (queued' # <<>>)
        /\ sets' = IF inProgress' THEN 0 ELSE 1
        /\ inbox' = Tail(inbox) \o (IF inProgress' THEN <<<<"resume", 0>>>> ELSE <<>>)
    BY DEF Generator!Yield, Generator!Post
  <1>5. /\ queued' \in Seq(Generator!Nexts) /\ Len(queued') = Len(queued) - 1 /\ Len(queued) >= 1
        /\ \A i \in 1..Len(queued') : queued'[i] = queued[i + 1] /\ i + 1 \in 1..Len(queued)
        /\ Head(queued) = queued[1] /\ 1 \in 1..Len(queued)
    <2>1. queued \in Seq(Generator!Nexts) /\ queued # <<>> /\ queued' = Tail(queued)
      BY <1>3, <1>4
    <2>2. Len(queued) >= 1 /\ Head(queued) = queued[1] /\ 1 \in 1..Len(queued)
      BY <1>3, <2>1
    <2>3. /\ Tail(queued) \in Seq(Generator!Nexts) /\ Len(Tail(queued)) = Len(queued) - 1
          /\ \A i \in 1..Len(queued) - 1 : Tail(queued)[i] = queued[i + 1]
      BY <2>1
    <2>4. \A i \in 1..Len(queued') : queued'[i] = queued[i + 1] /\ i + 1 \in 1..Len(queued)
      BY <1>3, <2>1, <2>3
    <2>5. QED
      BY <2>1, <2>2, <2>3, <2>4
  <1>6. Head(queued) = yielded + 1 /\ yielded + 1 \in Generator!Nexts /\ yielded + 1 <= asked
    <2>1. Head(queued) = yielded + 1 /\ queued[1] \in Generator!Nexts
      BY <1>2, <1>3, <1>5 DEF GeneratesInOrder
    <2>2. yielded + Len(queued) <= asked
      BY <1>2 DEF GeneratesInOrder
    <2>3. QED
      BY <1>3, <1>5, <2>1, <2>2
  <1>7. \A i \in 1..Len(queued') : queued'[i] = yielded' + i
    <2>1. ASSUME NEW i \in 1..Len(queued')
          PROVE  queued'[i] = yielded' + i
      <3>1. queued[i + 1] = yielded + (i + 1)
        BY <1>2, <1>5 DEF GeneratesInOrder
      <3>2. QED
        BY <1>3, <1>4, <1>5, <3>1
    <2>2. QED
      BY <2>1
  <1>8. yielded' + Len(queued') = yielded + Len(queued)
    BY <1>3, <1>4, <1>5
  <1>9. /\ Asks(Tail(inbox), yielded + Len(queued), asked)
        /\ \A n \in yielded + Len(queued) + 1..asked : Has(Tail(inbox), <<"get", n>>)
    <2>1. Asks(Tail(inbox), yielded + Len(queued), asked)
      BY <1>1, <1>2 DEF GeneratesInOrder, Less
    <2>2. ASSUME NEW n \in yielded + Len(queued) + 1..asked
          PROVE  Has(Tail(inbox), <<"get", n>>)
      <3>1. Has(inbox, <<"get", n>>)
        BY <1>2 DEF GeneratesInOrder
      <3>2. Head(inbox) # <<"get", n>>
        OBVIOUS
      <3>3. QED
        BY <1>1, <3>1, <3>2, BoxTail
    <2>3. QED
      BY <2>1, <2>2
  <1>10. /\ inbox' \in Seq(Messages)
         /\ Asks(inbox', yielded + Len(queued), asked)
         /\ \A n \in yielded + Len(queued) + 1..asked : Has(inbox', <<"get", n>>)
         /\ ResumesOnce(inbox')
         /\ inProgress' \in BOOLEAN
         /\ Resumes(inbox') <=> inProgress'
         /\ inProgress' <=> queued' # <<>>
         /\ Resumes(inbox') => sets' = 0
         /\ sets' \in 0..2 /\ sets' <= 1
    <2>1. ResumesOnce(Tail(inbox))
      BY <1>1 DEF Less, GeneratorInv
    <2>2. CASE queued' = <<>>
      <3>1. inProgress' = FALSE
        BY <1>4, <2>2
      <3>2. sets' = 1 /\ inbox' = Tail(inbox)
        BY <1>1, <1>4, <3>1
      <3>3. /\ inbox' \in Seq(Messages) /\ ~Resumes(inbox') /\ ResumesOnce(inbox')
            /\ Asks(inbox', yielded + Len(queued), asked)
        BY <1>1, <1>9, <2>1, <3>2
      <3>4. \A n \in yielded + Len(queued) + 1..asked : Has(inbox', <<"get", n>>)
        BY <1>9, <3>2
      <3>5. /\ inProgress' \in BOOLEAN /\ (Resumes(inbox') <=> inProgress')
            /\ inProgress' <=> queued' # <<>>
        BY <2>2, <3>1, <3>3
      <3>6. (Resumes(inbox') => sets' = 0) /\ sets' \in 0..2 /\ sets' <= 1
        BY <3>2, <3>3
      <3>7. QED
        BY <3>3, <3>4, <3>5, <3>6
    <2>3. CASE queued' # <<>>
      <3>1. inProgress' = TRUE
        BY <1>4, <2>3
      <3>2. sets' = 0 /\ inbox' = Append(Tail(inbox), <<"resume", 0>>)
        BY <1>1, <1>4, <3>1
      <3>3. <<"resume", 0>> \in Messages /\ <<"resume", 0>>[1] = "resume"
        BY <1>3 DEF Messages
      <3>4. inbox' \in Seq(Messages) /\ Resumes(inbox') /\ ResumesOnce(inbox')
        BY <1>1, <2>1, <3>2, <3>3, BoxAppend
      <3>5. Asks(inbox', yielded + Len(queued), asked)
        BY <1>1, <1>9, <3>2, <3>3, BoxAppend
      <3>6. \A n \in yielded + Len(queued) + 1..asked : Has(inbox', <<"get", n>>)
        BY <1>1, <1>9, <3>2, <3>3, BoxAppend
      <3>7. QED
        BY <2>3, <3>1, <3>2, <3>4, <3>5, <3>6
    <2>4. QED
      BY <2>2, <2>3
  <1>11. /\ said' \in [Generator!Nexts -> {"none", "asked", "value", "end", "error", "deleted", "notSet"}]
         /\ given' \in [Generator!Nexts -> 0..MaxNext]
         /\ yielded' \in 0..MaxNext
    <2>1. yielded' \in 0..MaxNext
      BY <1>3, <1>4, <1>6
    <2>2. QED
      BY <1>1, <1>4, <1>6, <2>1 DEF Generator!TypeOK
  <1>12. Generator!TypeOK'
    BY <1>1, <1>4, <1>5, <1>10, <1>11 DEF Generator!TypeOK, Messages
  <1>13. \A i \in Generator!Nexts : /\ said'[i] = "value" <=> i <= yielded'
                                    /\ i <= yielded' => given'[i] = i
    <2>1. ASSUME NEW i \in Generator!Nexts
          PROVE  /\ said'[i] = "value" <=> i <= yielded'
                 /\ i <= yielded' => given'[i] = i
      <3>1. /\ said[i] = "value" <=> i <= yielded
            /\ i <= yielded => given[i] = i
        BY DEF GeneratorInv
      <3>2. CASE i = yielded + 1
        BY <1>1, <1>3, <1>4, <1>6, <3>2 DEF Generator!TypeOK
      <3>3. CASE i # yielded + 1
        <4>1. said'[i] = said[i] /\ given'[i] = given[i]
          BY <1>1, <1>4, <1>6, <3>3 DEF Generator!TypeOK
        <4>2. i \in Int
          BY DEF Generator!Nexts
        <4>3. QED
          BY <1>3, <1>4, <3>1, <3>3, <4>1, <4>2
      <3>4. QED
        BY <3>2, <3>3
    <2>2. QED
      BY <2>1
  <1>14. GeneratesInOrder'
    <2>1. yielded' + Len(queued') <= asked
      BY <1>2, <1>8 DEF GeneratesInOrder
    <2>2. done' = FALSE /\ failed' = FALSE /\ destroyed' = FALSE
      BY <1>2, <1>4 DEF GeneratesInOrder
    <2>3. coroutine' # "awaiting"
      BY <1>4
    <2>4. QED
      BY <1>7, <1>8, <1>10, <2>1, <2>2, <2>3 DEF GeneratesInOrder
  <1>15. \A i \in 1..Len(queued') : queued'[i] > yielded' /\ queued'[i] <= asked
    <2>1. yielded + Len(queued) <= asked
      BY <1>2 DEF GeneratesInOrder
    <2>2. QED
      BY <1>3, <1>4, <1>5, <1>7, <1>8, <2>1
  <1>16. Asks(inbox', yielded', asked)
    <2>1. yielded' <= yielded + Len(queued) /\ yielded' \in Int /\ yielded + Len(queued) \in Int
      BY <1>3, <1>4, <1>5
    <2>2. QED
      BY <1>10, <2>1, AsksFromBelow
  <1>17. generatorOwner' # "deleted" /\ yielded' <= asked
    BY <1>4, <1>6 DEF Generates
  <1>18. QED
    BY <1>4, <1>10, <1>12, <1>13, <1>14, <1>15, <1>16, <1>17 DEF GeneratorInv, Generates

\* What the generator does until it suspends: f_RunGenerator, or what it awaited.
LEMMA GenerateStep ==
    ASSUME GeneratorInv, Generates, inbox # <<>>, NEW mayAwait \in BOOLEAN,
           \/ Head(inbox)[1] = "resume"
           \/ Head(inbox)[1] = "awaited" /\ coroutine = "awaiting" /\ ~mayAwait,
           Generator!Generate(mayAwait)
    PROVE  GeneratorInv'
  <1>1. /\ Generator!TypeOK /\ inbox \in Seq(Messages) /\ Less(Tail(inbox), inbox)
        /\ Tail(inbox) \in Seq(Messages)
    BY GeneratorFacts, TailLess DEF GeneratorInv
  <1>2. GeneratesInOrder
    BY DEF GeneratorInv
  <1>3. queued # <<>> /\ inProgress
    <2>1. Head(inbox)[1] = "resume" => Resumes(inbox)
      BY <1>1, BoxTail
    <2>2. QED
      BY <1>2, <2>1 DEF GeneratesInOrder
  <1>4. ~Resumes(Tail(inbox))
    <2>1. CASE Head(inbox)[1] = "resume"
      BY <1>1, <2>1, BoxTail DEF GeneratorInv
    <2>2. CASE Head(inbox)[1] # "resume"
      <3>1. ~Resumes(inbox)
        BY <2>2 DEF GeneratorInv
      <3>2. QED
        BY <1>1, <3>1 DEF Less
    <2>3. QED
      BY <2>1, <2>2
  <1>5. UNCHANGED <<generatorOwner, iterator, asked>>
    BY DEF Generator!Generate
  <1>6. CASE Generator!Yield
    BY <1>3, <1>4, <1>5, <1>6, YieldStep
  <1>7. CASE \E a \in {"end", "error"} : Generator!Finish(a) /\ inbox' = Tail(inbox)
    <2>1. coroutine # "gone" /\ generatorOwner' \in {"alive", "destroying", "deleted"}
      BY <1>1, <1>5 DEF Generates, Generator!TypeOK
    <2>2. QED
      BY <1>1, <1>5, <1>7, <2>1, FinishStep
  <1>8. CASE /\ mayAwait
             /\ coroutine' = "awaiting" /\ inbox' = Tail(inbox)
             /\ UNCHANGED <<sets, queued, inProgress, done, failed, destroyed, yielded, said, given>>
    <2>1. Head(inbox)[1] # "get"
      BY <1>8
    <2>2. \A n : Has(inbox, <<"get", n>>) => Has(Tail(inbox), <<"get", n>>)
      <3>1. \A n : Head(inbox) # <<"get", n>>
        BY <2>1
      <3>2. QED
        BY <1>1, <3>1, BoxTail
    <2>3. Generator!TypeOK'
      BY <1>1, <1>5, <1>8 DEF Generator!TypeOK, Messages
    <2>4. GeneratesInOrder'
      BY <1>1, <1>2, <1>3, <1>4, <1>5, <1>8, <2>2 DEF GeneratesInOrder, Less
    <2>5. generatorOwner' # "deleted"
      BY <1>5 DEF Generates
    <2>6. Asks(inbox', yielded, asked) /\ ResumesOnce(inbox') /\ ~Resumes(inbox')
      BY <1>1, <1>4, <1>8 DEF GeneratorInv, Less
    <2>7. sets <= 1
      BY DEF GeneratorInv, Generates
    <2>8. QED
      BY <1>5, <1>8, <2>3, <2>4, <2>5, <2>6, <2>7 DEF GeneratorInv
  <1>9. QED
    BY <1>6, <1>7, <1>8 DEF Generator!Generate, Generator!runState

LEMMA ResumeCoroutineStep ==
    ASSUME GeneratorInv, Generator!Resume \/ Generator!ResumeAwaited
    PROVE  GeneratorInv'
  <1>1. PICK kind \in {"resume", "awaited"} :
           /\ Generator!IsNext(kind)
           /\ kind = "resume" => Generator!Resume
           /\ kind = "awaited" => Generator!ResumeAwaited
    BY DEF Generator!Resume, Generator!ResumeAwaited
  <1>2. /\ Generator!TypeOK /\ inbox # <<>> /\ Head(inbox)[1] = kind
        /\ Less(Tail(inbox), inbox) /\ Tail(inbox) \in Seq(Messages)
        /\ kind = "awaited" => Same(Tail(inbox), inbox)
    BY <1>1, FirstMessage
  <1>3. CASE kind = "resume" /\ generatorOwner = "deleted"
    <2>1. /\ said' = Generator!AllSaid("deleted") /\ queued' = <<>> /\ failed' = TRUE /\ inbox' = Tail(inbox)
          /\ UNCHANGED <<coroutine, sets, inProgress, done, destroyed, yielded, generatorOwner, iterator, asked, given>>
      BY <1>1, <1>3 DEF Generator!Resume
    <2>2. said' \in [Generator!Nexts -> {"none", "asked", "value", "end", "error", "deleted", "notSet"}]
      BY <1>2, <2>1 DEF Generator!AllSaid, Generator!TypeOK
    <2>3. Generator!TypeOK'
      BY <1>2, <2>1, <2>2 DEF Generator!TypeOK, Messages
    <2>4. ~Generates' /\ (generatorOwner' = "deleted" => coroutine' \in {"initial", "gone"})
      BY <1>3, <2>1 DEF Generates, GeneratorInv
    <2>5. QED
      BY <1>2, <2>1, <2>3, <2>4, AllSaidStep, EndsStep
  <1>4. CASE Generates /\ (kind = "resume" \/ coroutine = "awaiting")
    <2>1. CASE kind = "resume"
      <3>1. Generator!Generate(TRUE)
        BY <1>1, <1>4, <2>1 DEF Generator!Resume, Generates
      <3>2. QED
        BY <1>2, <1>4, <2>1, <3>1, GenerateStep
    <2>2. CASE kind # "resume"
      <3>1. Generator!Generate(FALSE) /\ kind = "awaited"
        BY <1>1, <1>4, <2>2 DEF Generator!ResumeAwaited, Generates
      <3>2. QED
        BY <1>2, <1>4, <2>2, <3>1, GenerateStep
    <2>3. QED
      BY <2>1, <2>2
  <1>5. CASE /\ ~(kind = "resume" /\ generatorOwner = "deleted")
             /\ ~(Generates /\ (kind = "resume" \/ coroutine = "awaiting"))
    <2>1. /\ inbox' = Tail(inbox)
          /\ UNCHANGED <<coroutine, sets, queued, inProgress, done, failed, destroyed, yielded, generatorOwner, iterator, asked, said, given>>
      BY <1>1, <1>5 DEF Generator!Resume, Generator!ResumeAwaited, Generator!runState, Generates
    <2>2. Generator!TypeOK'
      BY <1>2, <2>1 DEF Generator!TypeOK, Messages
    <2>3. Generates' => Same(inbox', inbox) /\ generatorOwner # "deleted"
      BY <1>2, <1>5, <2>1 DEF Generates
    <2>4. generatorOwner' = "deleted" => coroutine' \in {"initial", "gone"}
      BY <2>1 DEF GeneratorInv
    <2>5. QED
      BY <1>2, <2>1, <2>2, <2>3, <2>4, EndOrQuietStep
  <1>6. QED
    BY <1>3, <1>4, <1>5

\* The generator's invariant holds, whenever its iterator or its actor is destroyed.
THEOREM GeneratorInvariance == Spec => []GeneratorInv
  <1>1. Init => GeneratorInv
    <2>1. SUFFICES ASSUME Init PROVE GeneratorInv
      OBVIOUS
    <2>2. Generator!Init
      BY <2>1 DEF Init
    <2>3. MaxNext \in Nat
      BY LocalPartsAssumption DEF LocalPartsAssumption
    <2>4. /\ coroutine = "initial" /\ sets = 0 /\ queued = <<>> /\ yielded = 0 /\ inProgress = FALSE /\ done = FALSE
          /\ failed = FALSE /\ destroyed = FALSE /\ generatorOwner = "alive" /\ inbox = <<>> /\ asked = 0
          /\ iterator = "iterating" /\ said = [i \in Generator!Nexts |-> "none"]
          /\ given = [i \in Generator!Nexts |-> 0]
      BY <2>2 DEF Generator!Init
    <2>5. Generator!TypeOK
      <3>1. /\ said \in [Generator!Nexts -> {"none", "asked", "value", "end", "error", "deleted", "notSet"}]
            /\ given \in [Generator!Nexts -> 0..MaxNext]
        BY <2>3, <2>4
      <3>2. yielded \in 0..MaxNext /\ asked \in 0..MaxNext
        BY <2>3, <2>4
      <3>3. {inProgress, done, failed, destroyed} \subseteq BOOLEAN
        BY <2>4
      <3>4. queued \in Seq(Generator!Nexts) /\ inbox \in Seq(Messages)
        BY <2>4
      <3>5. QED
        BY <2>4, <3>1, <3>2, <3>3, <3>4 DEF Generator!TypeOK, Messages
    <2>6. \A i \in Generator!Nexts : said[i] = "none" /\ ~(i <= yielded)
      BY <2>4 DEF Generator!Nexts
    <2>7. ~Resumes(inbox) /\ ResumesOnce(inbox) /\ \A low, high : Asks(inbox, low, high)
      BY <2>4 DEF Resumes, ResumesOnce, Asks
    <2>8. GeneratesInOrder
      BY <2>4, <2>7 DEF GeneratesInOrder
    <2>9. QED
      BY <2>4, <2>5, <2>6, <2>7, <2>8 DEF GeneratorInv
  <1>2. GeneratorInv /\ [Next]_vars => GeneratorInv'
    <2>1. ASSUME GeneratorInv, UNCHANGED generatorVars
          PROVE  GeneratorInv'
      <3>1. UNCHANGED <<coroutine, sets, queued, inProgress, done, failed, destroyed, yielded, generatorOwner, inbox, iterator, asked, said, given>>
        BY <2>1 DEF generatorVars
      <3>2. Generator!TypeOK' /\ (GeneratesInOrder' <=> GeneratesInOrder)
        BY <2>1, <3>1 DEF GeneratorInv, GeneratesInOrder, Generator!TypeOK
      <3>3. QED
        BY <2>1, <3>1, <3>2 DEF GeneratorInv, Generates
    <2>2. ASSUME GeneratorInv, Generator!Next
          PROVE  GeneratorInv'
      BY <2>2, AskNextStep, SendStep, GetEndedStep, GetStep, ResumeCoroutineStep, AsyncDestroyStep, DropFunctorStep,
         DestroyInternalStep, DestroyYieldsStep, HandlerStep DEF Generator!Next, Generator!Process
    <2>3. [Next]_vars => Generator!Next \/ UNCHANGED generatorVars
      BY DEF Next, Only, vars
    <2>4. QED
      BY <2>1, <2>2, <2>3
  <1>3. QED
    BY <1>1, <1>2, PTL DEF Spec

\* The n-th value answers the n-th call, and a generator is resumed where it yielded,
\* once for each reset of its promise (f_RunGenerator, f_Resume).
THEOREM ValuesAnswerInOrder == Spec => []ValuesInOrder
  <1>1. GeneratorInv => ValuesInOrder
    <2>1. SUFFICES ASSUME GeneratorInv PROVE Generator!ValuesInOrder
      BY DEF ValuesInOrder
    <2>2. Generator!TypeOK /\ inbox \in Seq(Messages)
      BY <2>1, GeneratorFacts DEF GeneratorInv
    <2>3. yielded \in Int
      BY <2>2, GeneratorFacts
    <2>4. ASSUME NEW i \in Generator!Nexts, said[i] = "value"
          PROVE  given[i] = i /\ \A j \in 1..i : said[j] = "value"
      <3>1. i <= yielded /\ given[i] = i
        BY <2>1, <2>4 DEF GeneratorInv
      <3>2. \A j \in 1..i : j \in Generator!Nexts /\ j <= yielded
        BY <2>2, <2>3, <3>1, GeneratorFacts DEF Generator!Nexts
      <3>3. QED
        BY <2>1, <3>1, <3>2 DEF GeneratorInv
    <2>5. \A i, j \in DOMAIN inbox : inbox[i][1] = "resume" /\ inbox[j][1] = "resume" => i = j
      BY <2>1, <2>2 DEF GeneratorInv, ResumesOnce
    <2>6. Generator!Post("resume", 0) \in Generator!Range(inbox) => Resumes(inbox)
      BY <2>2 DEF Generator!Post, Generator!Range, Resumes
    <2>7. QED
      BY <2>1, <2>4, <2>5, <2>6 DEF GeneratorInv, Generator!ValuesInOrder
  <1>2. QED
    BY <1>1, GeneratorInvariance, PTL
----------------------------------------------------------------------------
(* The end of an actor.  Whoever destroys it holds a reference, which is in  *)
(* an entry of the queue, in fp_Destroy or in fsp_ScheduleActorDestroy; the  *)
(* one handler that destructs the actor is queued when mp_Destroyed is 1.    *)

At(q, k, f) == \E i \in 1..Len(q) : q[i] = [kind |-> k, for |-> f]
Carries(q, d) == \E i \in 1..Len(q) : q[i].for = d
Handles(q) == \E i \in 1..Len(q) : q[i].kind = "handler"
CarriesOnce(q) ==
    \A i, j \in 1..Len(q) :
        \/ q[i].for \in Ends!Destroyer /\ q[i].for = q[j].for
        \/ q[i].kind = "handler" /\ q[j].kind = "handler"
        => i = j

\* How far the destruction is, with the queue q, in fp_Destroy for ends, and the calls c.
Ending(q, ends, c) ==
    /\ mpDestroyed = 0 => ~Handles(q) /\ reviving = "no" /\ actorAlive
    /\ mpDestroyed = 1 => actorAlive /\ (reviving = "no" => Handles(q))
    /\ mpDestroyed >= 2 => ~Handles(q) /\ reviving = "no" /\ ~actorAlive
    /\ reviving # "no" => ~Carries(q, "revived") /\ "revived" \notin ends /\ ~Handles(q)
    /\ ~actorAlive => \A u \in Users : c[u] \notin {"suspended", "resuming"}

\* Who has the references r, and that the entries of q are seen by the run j.
Referred(r, q, j, ends) ==
    /\ \A d \in Ends!Destroyer :
          /\ d \in r <=> Carries(q, d) \/ d \in ends \/ (d = "revived" /\ reviving # "no")
          /\ d \in ends => ~Carries(q, d)
    /\ "self" \in r <=> At(q, "handler", "self")
    /\ "job" \in r <=> j = "strong"
    /\ q # <<>> => j # "none"
    /\ "destroy" \in r => initiated

\* The handler that has no reference is processed by a run that has none.
Unreferred ==
    /\ At(queue, "handler", "nobody") => refs = {}
    /\ job = "weak" => At(queue, "handler", "nobody")

QueuedCalls(q, c) == \A u \in Users : c[u] = "queued" => At(q, "call", u)
Asking(r, q, a) == \A u \in Users : a[u] = "asked" => "destroy" \in r \/ Handles(q)
Gone == holder # "alive" => refs = {} /\ queue = <<>> /\ job = "none" /\ actorAlive = FALSE

DestroyInv ==
    /\ Ends!TypeOK /\ CarriesOnce(queue)
    /\ Ending(queue, inDestroy, call) /\ Referred(refs, queue, job, inDestroy) /\ Unreferred
    /\ QueuedCalls(queue, call) /\ Asking(refs, queue, destroyAnswer) /\ Gone

LEMMA Names4 == Users \cap {"destroy", "revived", "job", "self", "nobody"} = {}
  BY LocalPartsAssumption DEF LocalPartsAssumption

LEMMA Entries ==
    /\ \A u \in Users : [kind |-> "call", for |-> u] \in Ends!Entry /\ [kind |-> "resume", for |-> u] \in Ends!Entry
    /\ \A d \in Ends!Destroyer, k \in {"destroyInternal", "destroyEnds", "yielded"} : [kind |-> k, for |-> d] \in Ends!Entry
    /\ \A f \in {"self", "nobody"} : [kind |-> "handler", for |-> f] \in Ends!Entry
  BY DEF Ends!Entry

LEMMA EntryKinds ==
    ASSUME NEW e \in Ends!Entry
    PROVE  /\ e = [kind |-> e.kind, for |-> e.for]
           /\ e.kind \in {"call", "resume"} => e.for \in Users /\ e.for \notin Ends!Destroyer
           /\ e.kind \in {"destroyInternal", "destroyEnds", "yielded"} => e.for \in Ends!Destroyer
           /\ e.kind = "handler" => e.for \in {"self", "nobody"} /\ e.for \notin Ends!Destroyer
  <1>1. CASE e \in [kind : {"call", "resume"}, for : Users]
    BY <1>1, Names4 DEF Ends!Destroyer
  <1>2. CASE e \in [kind : {"destroyInternal", "destroyEnds", "yielded"}, for : Ends!Destroyer]
    BY <1>2 DEF Ends!Destroyer
  <1>3. CASE e \in [kind : {"handler"}, for : {"self", "nobody"}]
    BY <1>3 DEF Ends!Destroyer
  <1>4. QED
    BY <1>1, <1>2, <1>3 DEF Ends!Entry

LEMMA EntryTaken ==
    ASSUME NEW q \in Seq(Ends!Entry), q # <<>>
    PROVE  /\ Tail(q) \in Seq(Ends!Entry) /\ Head(q) \in Ends!Entry
           /\ \A k, f : At(q, k, f) <=> Head(q) = [kind |-> k, for |-> f] \/ At(Tail(q), k, f)
           /\ \A d : Carries(q, d) <=> Head(q).for = d \/ Carries(Tail(q), d)
           /\ Handles(q) <=> Head(q).kind = "handler" \/ Handles(Tail(q))
           /\ CarriesOnce(q) => /\ CarriesOnce(Tail(q))
                                /\ Head(q).for \in Ends!Destroyer => ~Carries(Tail(q), Head(q).for)
                                /\ Head(q).kind = "handler" => ~Handles(Tail(q))
  <1>1. /\ Tail(q) \in Seq(Ends!Entry) /\ Head(q) = q[1] /\ Len(q) \in Nat /\ Len(q) >= 1 /\ q[1] \in Ends!Entry
        /\ Len(Tail(q)) = Len(q) - 1 /\ \A i \in 1..Len(q) - 1 : Tail(q)[i] = q[i + 1]
    OBVIOUS
  <1>2. \A i \in 1..Len(Tail(q)) : i + 1 \in 1..Len(q) /\ i + 1 # 1 /\ Tail(q)[i] = q[i + 1]
    BY <1>1
  <1>3. \A i \in 1..Len(q) : i = 1 \/ (i - 1 \in 1..Len(Tail(q)) /\ Tail(q)[i - 1] = q[i])
    BY <1>1
  <1>4. \A k, f : At(q, k, f) <=> Head(q) = [kind |-> k, for |-> f] \/ At(Tail(q), k, f)
    BY <1>1, <1>2, <1>3 DEF At
  <1>5. \A d : Carries(q, d) <=> Head(q).for = d \/ Carries(Tail(q), d)
    <2>1. TAKE d
    <2>2. ASSUME Carries(q, d) PROVE Head(q).for = d \/ Carries(Tail(q), d)
      <3>1. PICK i \in 1..Len(q) : q[i].for = d
        BY <2>2 DEF Carries
      <3>2. QED
        BY <1>1, <1>3, <3>1 DEF Carries
    <2>3. ASSUME Head(q).for = d \/ Carries(Tail(q), d) PROVE Carries(q, d)
      <3>1. CASE Head(q).for = d
        BY <1>1, <3>1 DEF Carries
      <3>2. CASE Carries(Tail(q), d)
        BY <1>2, <3>2 DEF Carries
      <3>3. QED
        BY <2>3, <3>1, <3>2
    <2>4. QED
      BY <2>2, <2>3
  <1>6. Handles(q) <=> Head(q).kind = "handler" \/ Handles(Tail(q))
    BY <1>1, <1>2, <1>3 DEF Handles
  <1>7. ASSUME CarriesOnce(q)
        PROVE  /\ CarriesOnce(Tail(q))
               /\ Head(q).for \in Ends!Destroyer => ~Carries(Tail(q), Head(q).for)
               /\ Head(q).kind = "handler" => ~Handles(Tail(q))
    <2>1. CarriesOnce(Tail(q))
      BY <1>2, <1>7 DEF CarriesOnce
    <2>2. Head(q).for \in Ends!Destroyer => ~Carries(Tail(q), Head(q).for)
      BY <1>1, <1>2, <1>7 DEF CarriesOnce, Carries
    <2>3. Head(q).kind = "handler" => ~Handles(Tail(q))
      BY <1>1, <1>2, <1>7 DEF CarriesOnce, Handles
    <2>4. QED
      BY <2>1, <2>2, <2>3
  <1>8. QED
    BY <1>1, <1>4, <1>5, <1>6, <1>7

LEMMA EntryAdded ==
    ASSUME NEW q \in Seq(Ends!Entry), NEW e \in Ends!Entry
    PROVE  /\ Append(q, e) \in Seq(Ends!Entry) /\ Append(q, e) # <<>>
           /\ \A k, f : At(Append(q, e), k, f) <=> At(q, k, f) \/ e = [kind |-> k, for |-> f]
           /\ \A d : Carries(Append(q, e), d) <=> Carries(q, d) \/ e.for = d
           /\ Handles(Append(q, e)) <=> Handles(q) \/ e.kind = "handler"
           /\ /\ CarriesOnce(q)
              /\ e.for \in Ends!Destroyer => ~Carries(q, e.for)
              /\ e.kind = "handler" => ~Handles(q)
              => CarriesOnce(Append(q, e))
  <1>1. /\ Append(q, e) \in Seq(Ends!Entry) /\ Len(q) \in Nat /\ Len(Append(q, e)) = Len(q) + 1
        /\ Append(q, e)[Len(q) + 1] = e /\ \A i \in 1..Len(q) : Append(q, e)[i] = q[i]
    OBVIOUS
  <1>2. \A i \in 1..Len(Append(q, e)) : i \in 1..Len(q) \/ i = Len(q) + 1
    BY <1>1
  <1>3. (\A i \in 1..Len(q) : i \in 1..Len(Append(q, e))) /\ Len(q) + 1 \in 1..Len(Append(q, e))
    BY <1>1
  <1>4. \A k, f : At(Append(q, e), k, f) <=> At(q, k, f) \/ e = [kind |-> k, for |-> f]
    BY <1>1, <1>2, <1>3 DEF At
  <1>5. \A d : Carries(Append(q, e), d) <=> Carries(q, d) \/ e.for = d
    BY <1>1, <1>2, <1>3 DEF Carries
  <1>6. Handles(Append(q, e)) <=> Handles(q) \/ e.kind = "handler"
    BY <1>1, <1>2, <1>3 DEF Handles
  <1>7. ASSUME CarriesOnce(q), e.for \in Ends!Destroyer => ~Carries(q, e.for), e.kind = "handler" => ~Handles(q)
        PROVE  CarriesOnce(Append(q, e))
    BY <1>1, <1>2, <1>3, <1>7 DEF CarriesOnce, Carries, Handles
  <1>8. Append(q, e) # <<>>
    BY <1>1
  <1>9. QED
    BY <1>1, <1>4, <1>5, <1>6, <1>7, <1>8

\* What holds when a reference is to be dropped: r are left, with the queue q and the run j.
Leaving(r, q, j, ends, c) ==
    /\ r \subseteq Users \cup Ends!Destroyer \cup {"job", "self"} /\ q \in Seq(Ends!Entry)
    /\ j \in {"none", "strong"}
    /\ CarriesOnce(q) /\ Ending(q, ends, c) /\ Referred(r, q, j, ends) /\ ~At(q, "handler", "nobody")
    /\ QueuedCalls(q, c)
Dropping(r, q, j, ends, c, a) == Leaving(r, q, j, ends, c) /\ Asking(r, q, a)

DestroyTypes(ends, c, a) ==
    /\ ends \subseteq Ends!Destroyer
    /\ c \in [Users -> {"none", "queued", "suspended", "resuming", "done", "deleted"}]
    /\ a \in [Users -> {"none", "asked", "destroyed", "already"}]

\* fs_ScheduleActorHolderDestroy, when the last reference went, and before.
LEMMA ReleasedStep ==
    ASSUME Ends!TypeOK, NEW r, NEW q, NEW j, NEW ends, NEW c, NEW a, Dropping(r, q, j, ends, c, a),
           DestroyTypes(ends, c, a), holder = "alive",
           inDestroy' = ends, call' = c, destroyAnswer' = a,
           UNCHANGED <<overrides, actorAlive, initiated>>, bit' \in BOOLEAN, Ends!Released(r, q, j)
    PROVE  DestroyInv'
  <1>0. /\ {overrides, actorAlive, initiated} \subseteq BOOLEAN /\ mpDestroyed \in 0..3
        /\ reviving \in {"no", "referenced", "initiated"}
        /\ overrides' \in BOOLEAN /\ actorAlive' \in BOOLEAN /\ initiated' \in BOOLEAN
    BY DEF Ends!TypeOK
  <1>1. CASE r # {}
    <2>1. /\ refs' = r /\ queue' = q /\ job' = j /\ UNCHANGED <<mpDestroyed, reviving, holder>>
      BY <1>1 DEF Ends!Released
    <2>2. Ends!TypeOK'
      BY <1>0, <2>1 DEF Ends!TypeOK, Dropping, Leaving, DestroyTypes
    <2>3. Ending(queue, inDestroy, call)'
      BY <2>1 DEF Dropping, Leaving, Ending
    <2>4. Referred(refs, queue, job, inDestroy)'
      BY <2>1 DEF Dropping, Leaving, Referred
    <2>5. QED
      BY <2>1, <2>2, <2>3, <2>4 DEF Dropping, Leaving, Unreferred, QueuedCalls, Asking, Gone, DestroyInv
  <1>2. ASSUME r = {}
        PROVE  /\ reviving = "no" /\ ends = {} /\ \A d \in Ends!Destroyer : ~Carries(q, d)
               /\ q = <<>> /\ j = "none" /\ ~Handles(q)
    <2>1. Referred({}, q, j, ends) /\ j \in {"none", "strong"} /\ ends \subseteq Ends!Destroyer
      BY <1>2 DEF Dropping, Leaving, DestroyTypes
    <2>2. j = "none" /\ q = <<>>
      BY <2>1 DEF Referred
    <2>3. reviving = "no" /\ ends = {} /\ \A d \in Ends!Destroyer : ~Carries(q, d)
      BY <2>1 DEF Referred, Ends!Destroyer
    <2>4. ~Handles(q)
      BY <2>2 DEF Handles
    <2>5. QED
      BY <2>2, <2>3, <2>4
  <1>3. CASE r = {} /\ mpDestroyed = 0 /\ Ends!Revives
    <2>1. /\ refs' = {"revived"} /\ queue' = q /\ job' = j /\ mpDestroyed' = 1 /\ reviving' = "referenced"
          /\ holder' = holder
      BY <1>3 DEF Ends!Released
    <2>2. Ends!TypeOK'
      BY <1>0, <2>1 DEF Ends!TypeOK, Dropping, Leaving, DestroyTypes, Ends!Destroyer
    <2>3. actorAlive' = TRUE
      BY <1>0, <1>3 DEF Dropping, Leaving, Ending
    <2>4. DestroyInv'
      BY <1>2, <1>3, <2>1, <2>2, <2>3, Names4
         DEF Dropping, Leaving, Ending, Referred, Unreferred, QueuedCalls, Asking, Gone, DestroyInv, Ends!Destroyer
    <2>5. QED
      BY <2>4
  <1>4. CASE r = {} /\ mpDestroyed = 0 /\ ~Ends!Revives
    <2> DEFINE e == [kind |-> "handler", for |-> "nobody"]
    <2>1. /\ refs' = r /\ mpDestroyed' = 1 /\ queue' = Append(q, e) /\ job' = "weak"
          /\ UNCHANGED <<reviving, holder>>
      BY <1>2, <1>4 DEF Ends!Released, Ends!E
    <2>2. e \in Ends!Entry /\ e.kind = "handler" /\ e.for = "nobody" /\ "nobody" \notin Ends!Destroyer
      BY Entries DEF Ends!Destroyer
    <2>3. q \in Seq(Ends!Entry) /\ CarriesOnce(q)
      BY DEF Dropping, Leaving
    <2> HIDE DEF e
    <2>4. /\ queue' \in Seq(Ends!Entry) /\ queue' # <<>> /\ Handles(queue') /\ CarriesOnce(queue')
          /\ \A d \in Ends!Destroyer : ~Carries(queue', d)
          /\ \A k, f : At(queue', k, f) <=> At(q, k, f) \/ e = [kind |-> k, for |-> f]
      <3>1. /\ Append(q, e) \in Seq(Ends!Entry) /\ Append(q, e) # <<>>
            /\ \A k, f : At(Append(q, e), k, f) <=> At(q, k, f) \/ e = [kind |-> k, for |-> f]
            /\ \A d : Carries(Append(q, e), d) <=> Carries(q, d) \/ e.for = d
            /\ Handles(Append(q, e)) <=> Handles(q) \/ e.kind = "handler"
        BY <2>2, <2>3, EntryAdded
      <3>2. CarriesOnce(Append(q, e))
        BY <1>2, <1>4, <2>2, <2>3, EntryAdded
      <3>3. QED
        BY <1>2, <1>4, <2>1, <2>2, <3>1, <3>2
    <2>5. ~At(q, "handler", "self") /\ At(queue', "handler", "nobody") /\ ~At(queue', "handler", "self")
      <3>1. ~At(q, "handler", "self")
        BY <1>2, <1>4 DEF At, Handles
      <3>2. e = [kind |-> "handler", for |-> "nobody"] /\ e # [kind |-> "handler", for |-> "self"]
        BY DEF e
      <3>3. QED
        BY <2>4, <3>1, <3>2
    <2>6. Ends!TypeOK'
      BY <1>0, <1>4, <2>1, <2>4 DEF Ends!TypeOK, DestroyTypes
    <2>7. actorAlive' = TRUE
      BY <1>0, <1>4 DEF Dropping, Leaving, Ending
    <2>8. QueuedCalls(queue', call')
      BY <2>4 DEF QueuedCalls, Dropping, Leaving
    <2>9. QED
      BY <1>2, <1>4, <2>1, <2>4, <2>5, <2>6, <2>7, <2>8
         DEF Dropping, Leaving, Ending, Referred, Unreferred, Asking, Gone, DestroyInv
  <1>5. CASE r = {} /\ mpDestroyed # 0
    <2>1. /\ refs' = r /\ queue' = q /\ job' = j /\ holder' = "deleting" /\ UNCHANGED <<mpDestroyed, reviving>>
      BY <1>5 DEF Ends!Released
    <2>2. actorAlive = FALSE /\ mpDestroyed >= 2
      BY <1>0, <1>2, <1>5 DEF Dropping, Leaving, Ending
    <2>3. Ends!TypeOK'
      BY <1>0, <2>1 DEF Ends!TypeOK, Dropping, Leaving, DestroyTypes
    <2>4. ~At(q, "handler", "nobody")
      BY DEF Dropping, Leaving
    <2>5. QED
      BY <1>2, <1>5, <2>1, <2>2, <2>3, <2>4
         DEF Dropping, Leaving, Ending, Referred, Unreferred, QueuedCalls, Asking, Gone, DestroyInv
  <1>6. QED
    BY <1>1, <1>3, <1>4, <1>5

LEMMA ResultStep ==
    ASSUME Ends!TypeOK, NEW d \in Ends!Destroyer, d \in refs, NEW q, NEW ends, NEW c,
           Leaving(refs \ {d}, q, job, ends, c), Asking(refs, q, destroyAnswer), job = "strong",
           DestroyTypes(ends, c, destroyAnswer), holder = "alive", inDestroy' = ends, call' = c,
           UNCHANGED <<overrides, actorAlive, initiated>>, bit' \in BOOLEAN, Ends!Result(d, q)
    PROVE  DestroyInv'
  <1>0. /\ {overrides, actorAlive, initiated} \subseteq BOOLEAN /\ mpDestroyed \in 0..3
        /\ reviving \in {"no", "referenced", "initiated"}
        /\ refs \subseteq Users \cup Ends!Destroyer \cup {"job", "self"}
        /\ overrides' \in BOOLEAN /\ actorAlive' \in BOOLEAN /\ initiated' \in BOOLEAN
    BY DEF Ends!TypeOK
  <1>1. CASE d = "destroy" /\ mpDestroyed = 0
    <2> DEFINE e == [kind |-> "handler", for |-> "self"]
    <2>1. /\ mpDestroyed' = 1 /\ refs' = (refs \ {d}) \cup {"self"} /\ queue' = Append(q, e)
          /\ UNCHANGED <<job, reviving, holder, destroyAnswer>>
      BY <1>1 DEF Ends!Result, Ends!E
    <2>2. e \in Ends!Entry /\ e.kind = "handler" /\ e.for = "self" /\ "self" \notin Ends!Destroyer
      BY Entries DEF Ends!Destroyer
    <2>3. e # [kind |-> "handler", for |-> "nobody"] /\ e = [kind |-> "handler", for |-> "self"]
      OBVIOUS
    <2>4. q \in Seq(Ends!Entry) /\ CarriesOnce(q) /\ ~Handles(q) /\ reviving = "no" /\ actorAlive
      BY <1>1 DEF Leaving, Ending
    <2> HIDE DEF e
    <2>5. /\ Append(q, e) \in Seq(Ends!Entry) /\ Append(q, e) # <<>>
          /\ \A k, f : At(Append(q, e), k, f) <=> At(q, k, f) \/ e = [kind |-> k, for |-> f]
          /\ \A x : Carries(Append(q, e), x) <=> Carries(q, x) \/ e.for = x
          /\ Handles(Append(q, e)) <=> Handles(q) \/ e.kind = "handler"
      BY <2>2, <2>4, EntryAdded
    <2>6. CarriesOnce(Append(q, e))
      BY <2>2, <2>4, EntryAdded
    <2>7. Ends!TypeOK'
      BY <1>0, <2>1, <2>5 DEF Ends!TypeOK, DestroyTypes
    <2>8. Ending(queue, inDestroy, call)'
      BY <2>1, <2>2, <2>4, <2>5 DEF Leaving, Ending
    <2>9. Referred(refs, queue, job, inDestroy)'
      <3>1. \A x \in Ends!Destroyer : (x \in refs' <=> x \in refs \ {d}) /\ (Carries(queue', x) <=> Carries(q, x))
        BY <2>1, <2>2, <2>5 DEF Ends!Destroyer
      <3>2. "self" \in refs' /\ At(queue', "handler", "self") /\ "job" \in refs' /\ "destroy" \notin refs'
        <4>1. "job" \in refs \ {d} /\ "destroy" # "self"
          BY DEF Leaving, Referred
        <4>2. QED
          BY <1>1, <2>1, <2>3, <2>5, <4>1
      <3>3. QED
        BY <2>1, <3>1, <3>2 DEF Leaving, Referred
    <2>10. ~At(queue', "handler", "nobody") /\ QueuedCalls(queue', c)
      BY <2>1, <2>3, <2>5 DEF Leaving, QueuedCalls
    <2>11. Handles(queue')
      BY <2>1, <2>2, <2>5
    <2>12. QED
      BY <2>1, <2>6, <2>7, <2>8, <2>9, <2>10, <2>11 DEF Unreferred, QueuedCalls, Asking, Gone, DestroyInv
  <1>2. CASE ~(d = "destroy" /\ mpDestroyed = 0)
    <2>1. /\ destroyAnswer' = IF d = "destroy" THEN Ends!Answered ELSE destroyAnswer
          /\ Ends!Released(refs \ {d}, q, job)
      BY <1>2 DEF Ends!Result
    <2>2. destroyAnswer' \in [Users -> {"none", "asked", "destroyed", "already"}]
      BY <2>1 DEF DestroyTypes, Ends!Answered
    <2>3. Asking(refs \ {d}, q, destroyAnswer')
      <3>1. CASE d = "destroy"
        BY <2>1, <3>1 DEF Asking, Ends!Answered, Ends!Asked, DestroyTypes
      <3>2. CASE d # "destroy"
        BY <2>1, <3>2 DEF Asking
      <3>3. QED
        BY <3>1, <3>2
    <2>4. Dropping(refs \ {d}, q, job, ends, c, destroyAnswer')
      BY <2>3 DEF Dropping
    <2>5. DestroyTypes(ends, c, destroyAnswer')
      BY <2>2 DEF DestroyTypes
    <2>6. QED
      BY <2>1, <2>4, <2>5, ReleasedStep
  <1>3. QED
    BY <1>1, <1>2

\* An entry is added that is not the handler, by a party with a reference.
LEMMA AddedStep ==
    ASSUME Ends!TypeOK, NEW e \in Ends!Entry, e.kind # "handler", NEW r, NEW q \in Seq(Ends!Entry),
           Ends!Added(e, r, q), r \subseteq Users \cup Ends!Destroyer \cup {"job", "self"},
           CarriesOnce(q), e.for \in Ends!Destroyer => ~Carries(q, e.for),
           "job" \in r <=> job = "strong", "self" \in r <=> At(q, "handler", "self"),
           ~At(q, "handler", "nobody"), job # "weak"
    PROVE  /\ queue' \in Seq(Ends!Entry) /\ queue' # <<>> /\ CarriesOnce(queue')
           /\ job' = "strong" /\ refs' = r \cup {"job"}
           /\ refs' \subseteq Users \cup Ends!Destroyer \cup {"job", "self"}
           /\ Handles(queue') <=> Handles(q)
           /\ \A x : Carries(queue', x) <=> Carries(q, x) \/ e.for = x
           /\ \A k, f : At(queue', k, f) <=> At(q, k, f) \/ e = [kind |-> k, for |-> f]
           /\ "self" \in refs' <=> At(queue', "handler", "self")
           /\ ~At(queue', "handler", "nobody")
           /\ \A x \in Ends!Destroyer : x \in refs' <=> x \in r
           /\ \A c : QueuedCalls(q, c) => QueuedCalls(queue', c)
           /\ \A a : Asking(r, q, a) => Asking(refs', queue', a)
  <1>1. /\ queue' = Append(q, e) /\ job' = "strong" /\ refs' = r \cup {"job"}
    BY DEF Ends!Added, Ends!TypeOK
  <1>2. /\ Append(q, e) \in Seq(Ends!Entry) /\ Append(q, e) # <<>>
        /\ \A k, f : At(Append(q, e), k, f) <=> At(q, k, f) \/ e = [kind |-> k, for |-> f]
        /\ \A x : Carries(Append(q, e), x) <=> Carries(q, x) \/ e.for = x
        /\ Handles(Append(q, e)) <=> Handles(q) \/ e.kind = "handler"
    BY EntryAdded
  <1>3. CarriesOnce(Append(q, e))
    BY EntryAdded
  <1>4. \A f : e # [kind |-> "handler", for |-> f]
    OBVIOUS
  <1>5. Handles(queue') <=> Handles(q)
    BY <1>1, <1>2
  <1>6. ("self" \in refs' <=> At(queue', "handler", "self")) /\ ~At(queue', "handler", "nobody")
    BY <1>1, <1>2, <1>4
  <1>7. \A x \in Ends!Destroyer : x \in refs' <=> x \in r
    BY <1>1 DEF Ends!Destroyer
  <1>8. \A c : QueuedCalls(q, c) => QueuedCalls(queue', c)
    BY <1>1, <1>2 DEF QueuedCalls
  <1>9. \A a : Asking(r, q, a) => Asking(refs', queue', a)
    BY <1>1, <1>5 DEF Asking
  <1>10. QED
    BY <1>1, <1>2, <1>3, <1>5, <1>6, <1>7, <1>8, <1>9

\* While there are references the run has one.
LEMMA Referenced ==
    ASSUME DestroyInv, refs # {}
    PROVE  /\ Leaving(refs, queue, job, inDestroy, call) /\ DestroyTypes(inDestroy, call, destroyAnswer)
           /\ job # "weak" /\ holder = "alive" /\ Ends!TypeOK
           /\ {overrides, actorAlive, initiated, bit} \subseteq BOOLEAN /\ Users \cap Ends!Destroyer = {}
           /\ \A u \in Users : u \notin {"job", "self"}
  BY Names4 DEF DestroyInv, Unreferred, Gone, Leaving, DestroyTypes, Ends!TypeOK, Ends!Destroyer

LEMMA DropStep ==
    ASSUME DestroyInv, NEW u \in Users, Ends!Drop(u)
    PROVE  DestroyInv'
  <1>1. /\ u \in refs /\ Ends!Released(refs \ {u}, queue, job)
        /\ UNCHANGED <<overrides, actorAlive, bit, initiated, inDestroy, call, destroyAnswer>>
    BY DEF Ends!Drop
  <1>2. /\ Leaving(refs, queue, job, inDestroy, call) /\ DestroyTypes(inDestroy, call, destroyAnswer)
        /\ holder = "alive" /\ Ends!TypeOK /\ bit' \in BOOLEAN
        /\ u \notin Ends!Destroyer /\ u # "job" /\ u # "self"
    BY <1>1, Referenced
  <1>3. Leaving(refs \ {u}, queue, job, inDestroy, call)
    BY <1>2 DEF Leaving, Referred, Ends!Destroyer
  <1>4. Asking(refs \ {u}, queue, destroyAnswer)
    BY <1>2 DEF DestroyInv, Asking, Ends!Destroyer
  <1>5. QED
    BY <1>1, <1>2, <1>3, <1>4, ReleasedStep DEF Dropping

LEMMA LockStep ==
    ASSUME DestroyInv, NEW u \in Users, Ends!Lock(u)
    PROVE  DestroyInv'
  <1>1. /\ refs # {} /\ refs' = refs \cup {u}
        /\ UNCHANGED <<queue, job, overrides, actorAlive, bit, mpDestroyed, initiated, reviving, inDestroy, call,
                       destroyAnswer, holder>>
    BY DEF Ends!Lock
  <1>2. /\ Leaving(refs, queue, job, inDestroy, call) /\ job # "weak" /\ holder = "alive" /\ Ends!TypeOK
        /\ u \notin Ends!Destroyer /\ u # "job" /\ u # "self"
    BY <1>1, Referenced
  <1>3. Ends!TypeOK'
    BY <1>1, <1>2 DEF Ends!TypeOK
  <1>4. Referred(refs, queue, job, inDestroy)' /\ Unreferred' /\ Asking(refs, queue, destroyAnswer)'
    BY <1>1, <1>2 DEF DestroyInv, Leaving, Referred, Unreferred, Asking, Ends!Destroyer
  <1>5. Ending(queue, inDestroy, call)'
    BY <1>1 DEF DestroyInv, Ending
  <1>6. QED
    BY <1>1, <1>2, <1>3, <1>4, <1>5 DEF DestroyInv, QueuedCalls, Gone

\* A party with a reference adds an entry for a user.
LEMMA UserEntryStep ==
    ASSUME DestroyInv, refs # {}, NEW u \in Users, NEW k \in {"call", "resume"},
           Ends!Added([kind |-> k, for |-> u], refs, queue),
           NEW s \in {"queued", "resuming"}, call' = [call EXCEPT ![u] = s],
           s = "queued" => k = "call", s = "resuming" => call[u] = "suspended",
           UNCHANGED <<overrides, actorAlive, bit, mpDestroyed, initiated, reviving, inDestroy, destroyAnswer, holder>>
    PROVE  DestroyInv'
  <1> DEFINE e == [kind |-> k, for |-> u]
  <1>1. /\ Leaving(refs, queue, job, inDestroy, call) /\ job # "weak" /\ holder = "alive" /\ Ends!TypeOK
        /\ u \notin Ends!Destroyer
    BY Referenced
  <1>2. e \in Ends!Entry /\ e.kind = k /\ e.for = u /\ e = [kind |-> k, for |-> u]
    BY Entries
  <1> HIDE DEF e
  <1>3. /\ refs \subseteq Users \cup Ends!Destroyer \cup {"job", "self"} /\ queue \in Seq(Ends!Entry)
        /\ CarriesOnce(queue) /\ ~At(queue, "handler", "nobody")
        /\ "job" \in refs <=> job = "strong"
        /\ "self" \in refs <=> At(queue, "handler", "self")
    BY <1>1 DEF Leaving, Referred
  <1>4. /\ queue' \in Seq(Ends!Entry) /\ queue' # <<>> /\ CarriesOnce(queue')
        /\ job' = "strong" /\ refs' = refs \cup {"job"}
        /\ refs' \subseteq Users \cup Ends!Destroyer \cup {"job", "self"}
        /\ Handles(queue') <=> Handles(queue)
        /\ \A x : Carries(queue', x) <=> Carries(queue, x) \/ e.for = x
        /\ \A a, f : At(queue', a, f) <=> At(queue, a, f) \/ e = [kind |-> a, for |-> f]
        /\ "self" \in refs' <=> At(queue', "handler", "self")
        /\ ~At(queue', "handler", "nobody")
        /\ \A x \in Ends!Destroyer : x \in refs' <=> x \in refs
        /\ \A c : QueuedCalls(queue, c) => QueuedCalls(queue', c)
        /\ \A a : Asking(refs, queue, a) => Asking(refs', queue', a)
    <2>1. Ends!Added(e, refs, queue) /\ e.kind # "handler" /\ (e.for \in Ends!Destroyer => ~Carries(queue, e.for))
      BY <1>1, <1>2
    <2>2. QED
      BY <1>1, <1>2, <1>3, <2>1, AddedStep
  <1>5. Ends!TypeOK'
    BY <1>1, <1>4 DEF Ends!TypeOK
  <1>6. QueuedCalls(queue', call')
    <2>1. QueuedCalls(queue', call)
      BY <1>4 DEF DestroyInv
    <2>2. s = "queued" => At(queue', "call", u)
      BY <1>2, <1>4
    <2>3. call \in [Users -> {"none", "queued", "suspended", "resuming", "done", "deleted"}]
      BY <1>1 DEF Ends!TypeOK
    <2>4. QED
      BY <2>1, <2>2, <2>3 DEF QueuedCalls
  <1>7. Asking(refs', queue', destroyAnswer')
    BY <1>4 DEF DestroyInv
  <1>8. \A x \in Ends!Destroyer : Carries(queue', x) <=> Carries(queue, x)
    BY <1>1, <1>2, <1>4
  <1>9. Ending(queue, inDestroy, call)'
    <2>1. actorAlive' = FALSE => \A v \in Users : call'[v] \notin {"suspended", "resuming"}
      BY <1>1 DEF DestroyInv, Ending, Ends!TypeOK
    <2>2. \A x \in Ends!Destroyer : Carries(queue', x) <=> Carries(queue, x)
      BY <1>8
    <2>3. "revived" \in Ends!Destroyer
      BY DEF Ends!Destroyer
    <2>4. actorAlive' \in BOOLEAN
      BY <1>5 DEF Ends!TypeOK
    <2>5. QED
      BY <1>4, <2>1, <2>2, <2>3, <2>4 DEF DestroyInv, Ending
  <1>10. Referred(refs, queue, job, inDestroy)'
    BY <1>4, <1>8 DEF DestroyInv, Referred, Ends!Destroyer
  <1>11. QED
    BY <1>1, <1>4, <1>5, <1>6, <1>7, <1>9, <1>10 DEF DestroyInv, Unreferred, Gone

LEMMA CallStep ==
    ASSUME DestroyInv, NEW u \in Users, Ends!Call(u)
    PROVE  DestroyInv'
  <1>1. /\ u \in refs /\ Ends!Added([kind |-> "call", for |-> u], refs, queue)
        /\ call' = [call EXCEPT ![u] = "queued"]
        /\ UNCHANGED <<overrides, actorAlive, bit, mpDestroyed, initiated, reviving, inDestroy, destroyAnswer, holder>>
    BY DEF Ends!Call, Ends!E
  <1>2. QED
    BY <1>1, UserEntryStep

LEMMA ResumeArrivesStep ==
    ASSUME DestroyInv, NEW u \in Users, Ends!ResumeArrives(u)
    PROVE  DestroyInv'
  <1>1. /\ refs # {} /\ Ends!Added([kind |-> "resume", for |-> u], refs, queue)
        /\ call' = [call EXCEPT ![u] = "resuming"] /\ call[u] = "suspended"
        /\ UNCHANGED <<overrides, actorAlive, bit, mpDestroyed, initiated, reviving, inDestroy, destroyAnswer, holder>>
    BY DEF Ends!ResumeArrives, Ends!E
  <1>2. QED
    BY <1>1, UserEntryStep

LEMMA DestroyAgainStep ==
    ASSUME DestroyInv, NEW u \in Users, Ends!DestroyAgain(u)
    PROVE  DestroyInv'
  <1>1. /\ destroyAnswer' = [destroyAnswer EXCEPT ![u] = "already"]
        /\ UNCHANGED <<refs, queue, job, overrides, actorAlive, bit, mpDestroyed, initiated, reviving, inDestroy, call,
                       holder>>
    BY DEF Ends!DestroyAgain
  <1>2. Ends!TypeOK'
    BY <1>1 DEF DestroyInv, Ends!TypeOK
  <1>3. Asking(refs, queue, destroyAnswer)'
    BY <1>1 DEF DestroyInv, Asking, Ends!TypeOK
  <1>4. Ending(queue, inDestroy, call)' /\ Referred(refs, queue, job, inDestroy)' /\ Unreferred'
    BY <1>1 DEF DestroyInv, Ending, Referred, Unreferred
  <1>5. QED
    BY <1>1, <1>2, <1>3, <1>4 DEF DestroyInv, QueuedCalls, Gone

LEMMA ReviveInitiatesStep ==
    ASSUME DestroyInv, Ends!ReviveInitiates
    PROVE  DestroyInv'
  <1>1. /\ reviving = "referenced" /\ reviving' = "initiated" /\ initiated' = TRUE
        /\ UNCHANGED <<refs, queue, job, overrides, actorAlive, bit, mpDestroyed, inDestroy, call, destroyAnswer, holder>>
    BY DEF Ends!ReviveInitiates
  <1>2. Ends!TypeOK'
    BY <1>1 DEF DestroyInv, Ends!TypeOK
  <1>3. Ending(queue, inDestroy, call)' /\ Referred(refs, queue, job, inDestroy)' /\ Unreferred'
    BY <1>1 DEF DestroyInv, Ending, Referred, Unreferred
  <1>4. QED
    BY <1>1, <1>2, <1>3 DEF DestroyInv, QueuedCalls, Asking, Gone

\* A party with a reference adds an entry for a destruction.
LEMMA PartyEntryStep ==
    ASSUME Ends!TypeOK, NEW d \in Ends!Destroyer, NEW k \in {"destroyInternal", "destroyEnds", "yielded"},
           NEW r, NEW q, NEW ends, NEW c, NEW a, d \in r, r \subseteq Users \cup Ends!Destroyer \cup {"job", "self"},
           Leaving(r \ {d}, q, job, ends, c), Asking(r, q, a), DestroyTypes(ends, c, a),
           Ends!Added([kind |-> k, for |-> d], r, q), inDestroy' = ends, call' = c, destroyAnswer' = a,
           holder = "alive", UNCHANGED <<overrides, actorAlive, mpDestroyed, reviving, holder>>,
           bit' \in BOOLEAN, initiated' \in BOOLEAN, initiated => initiated', d = "destroy" => initiated'
    PROVE  DestroyInv'
  <1> DEFINE e == [kind |-> k, for |-> d]
  <1>1. e \in Ends!Entry /\ e.kind = k /\ e.for = d
    BY Entries
  <1>2. Ends!Added(e, r, q)
    OBVIOUS
  <1> HIDE DEF e
  <1>3. /\ q \in Seq(Ends!Entry) /\ CarriesOnce(q) /\ ~At(q, "handler", "nobody") /\ job # "weak" /\ ~Carries(q, d)
        /\ d \notin ends /\ (d = "revived" => reviving = "no")
        /\ "job" \in r <=> job = "strong"
        /\ "self" \in r <=> At(q, "handler", "self")
    BY DEF Leaving, Referred, Ends!Destroyer
  <1>4. /\ queue' \in Seq(Ends!Entry) /\ queue' # <<>> /\ CarriesOnce(queue')
        /\ job' = "strong" /\ refs' = r \cup {"job"}
        /\ refs' \subseteq Users \cup Ends!Destroyer \cup {"job", "self"}
        /\ Handles(queue') <=> Handles(q)
        /\ \A x : Carries(queue', x) <=> Carries(q, x) \/ e.for = x
        /\ "self" \in refs' <=> At(queue', "handler", "self")
        /\ ~At(queue', "handler", "nobody")
        /\ \A x \in Ends!Destroyer : x \in refs' <=> x \in r
        /\ QueuedCalls(q, c) => QueuedCalls(queue', c)
        /\ Asking(r, q, a) => Asking(refs', queue', a)
    <2>1. e.kind # "handler" /\ (e.for \in Ends!Destroyer => ~Carries(q, e.for))
      BY <1>1, <1>3
    <2>2. QED
      BY <1>1, <1>2, <1>3, <2>1, AddedStep
  <1>5. Ends!TypeOK'
    BY <1>4 DEF Ends!TypeOK, DestroyTypes
  <1>6. Ending(queue, inDestroy, call)'
    BY <1>1, <1>3, <1>4 DEF Leaving, Ending
  <1>7. Referred(refs, queue, job, inDestroy)'
    <2>1. \A x \in Ends!Destroyer :
             /\ x \in refs' <=> Carries(queue', x) \/ x \in ends \/ (x = "revived" /\ reviving # "no")
             /\ x \in ends => ~Carries(queue', x)
      <3>1. TAKE x \in Ends!Destroyer
      <3>2. CASE x = d
        BY <1>1, <1>3, <1>4, <3>2
      <3>3. CASE x # d
        <4>1. /\ x \in r <=> Carries(q, x) \/ x \in ends \/ (x = "revived" /\ reviving # "no")
              /\ x \in ends => ~Carries(q, x)
          BY <3>3 DEF Leaving, Referred
        <4>2. QED
          BY <1>1, <1>4, <3>3, <4>1
      <3>4. QED
        BY <3>2, <3>3
    <2>2. "destroy" \in refs' => initiated'
      <3>1. "destroy" \in refs' => "destroy" \in r
        BY <1>4 DEF Ends!Destroyer
      <3>2. "destroy" \in r \ {d} => initiated
        BY DEF Leaving, Referred
      <3>3. QED
        BY <3>1, <3>2
    <2>3. QED
      BY <1>4, <2>1, <2>2 DEF Referred
  <1>8. QED
    BY <1>4, <1>5, <1>6, <1>7 DEF Leaving, DestroyInv, Unreferred, QueuedCalls, Asking, Gone

LEMMA DestroyActorStep ==
    ASSUME DestroyInv, NEW u \in Users, Ends!DestroyActor(u)
    PROVE  DestroyInv'
  <1>1. /\ u \in refs /\ initiated = FALSE /\ initiated' = TRUE
        /\ destroyAnswer' = [destroyAnswer EXCEPT ![u] = "asked"]
        /\ Ends!Added([kind |-> "destroyInternal", for |-> "destroy"], (refs \ {u}) \cup {"destroy"}, queue)
        /\ UNCHANGED <<overrides, actorAlive, bit, mpDestroyed, reviving, inDestroy, call, holder>>
    BY DEF Ends!DestroyActor, Ends!E, DestroyInv, Ends!TypeOK
  <1>2. /\ Leaving(refs, queue, job, inDestroy, call) /\ DestroyTypes(inDestroy, call, destroyAnswer)
        /\ holder = "alive" /\ Ends!TypeOK /\ bit' \in BOOLEAN
        /\ u \notin Ends!Destroyer /\ u # "job" /\ u # "self" /\ "destroy" \in Ends!Destroyer
    BY <1>1, Referenced DEF Ends!Destroyer
  <1>3. "destroy" \notin refs
    BY <1>1, <1>2 DEF Leaving, Referred
  <1>4. Leaving(refs \ {u}, queue, job, inDestroy, call)
    BY <1>2 DEF Leaving, Referred, Ends!Destroyer
  <1>5. ((refs \ {u}) \cup {"destroy"}) \ {"destroy"} = refs \ {u}
    BY <1>3
  <1>6. Asking((refs \ {u}) \cup {"destroy"}, queue, destroyAnswer')
    BY DEF Asking
  <1>7. DestroyTypes(inDestroy, call, destroyAnswer')
    BY <1>1, <1>2 DEF DestroyTypes
  <1>8. (refs \ {u}) \cup {"destroy"} \subseteq Users \cup Ends!Destroyer \cup {"job", "self"}
    BY <1>2 DEF Ends!TypeOK
  <1>9. Leaving(((refs \ {u}) \cup {"destroy"}) \ {"destroy"}, queue, job, inDestroy, call)
    BY <1>4, <1>5
  <1>10. QED
    <2> DEFINE r == (refs \ {u}) \cup {"destroy"}
    <2>1. /\ "destroy" \in r /\ r \subseteq Users \cup Ends!Destroyer \cup {"job", "self"}
          /\ Leaving(r \ {"destroy"}, queue, job, inDestroy, call) /\ Asking(r, queue, destroyAnswer')
          /\ Ends!Added([kind |-> "destroyInternal", for |-> "destroy"], r, queue)
      BY <1>1, <1>6, <1>8, <1>9
    <2> HIDE DEF r
    <2>2. initiated' \in BOOLEAN /\ (initiated => initiated') /\ initiated'
      BY <1>1
    <2>3. QED
      BY <1>1, <1>2, <1>7, <2>1, <2>2, PartyEntryStep

LEMMA DestroyEndsStep ==
    ASSUME DestroyInv, NEW d \in Ends!Destroyer, Ends!DestroyEnds(d)
    PROVE  DestroyInv'
  <1>1. /\ d \in inDestroy /\ inDestroy' = inDestroy \ {d}
        /\ Ends!Added([kind |-> "destroyEnds", for |-> d], refs, queue)
        /\ UNCHANGED <<overrides, actorAlive, bit, mpDestroyed, initiated, reviving, call, destroyAnswer, holder>>
    BY DEF Ends!DestroyEnds, Ends!E
  <1>2. d \in refs
    BY <1>1 DEF DestroyInv, Referred
  <1>3. /\ Leaving(refs, queue, job, inDestroy, call) /\ DestroyTypes(inDestroy, call, destroyAnswer)
        /\ holder = "alive" /\ Ends!TypeOK /\ bit' \in BOOLEAN /\ initiated' \in BOOLEAN
    BY <1>1, <1>2, Referenced
  <1>4. Leaving(refs \ {d}, queue, job, inDestroy \ {d}, call)
    <2>1. ~Carries(queue, d) /\ (d = "revived" => reviving = "no")
      BY <1>1, <1>3 DEF Leaving, Ending, Referred, DestroyTypes, Ends!TypeOK
    <2>2. Ending(queue, inDestroy \ {d}, call)
      BY <1>3 DEF Leaving, Ending
    <2>3. Referred(refs \ {d}, queue, job, inDestroy \ {d})
      BY <1>3, <2>1 DEF Leaving, Referred, Ends!Destroyer
    <2>4. QED
      BY <1>3, <2>2, <2>3 DEF Leaving
  <1>5. DestroyTypes(inDestroy \ {d}, call, destroyAnswer)
    BY <1>3 DEF DestroyTypes
  <1>6. Asking(refs, queue, destroyAnswer) /\ (d = "destroy" => initiated')
        /\ refs \subseteq Users \cup Ends!Destroyer \cup {"job", "self"}
    BY <1>1, <1>2, <1>3 DEF DestroyInv, Leaving, Referred
  <1>7. QED
    BY <1>1, <1>2, <1>3, <1>4, <1>5, <1>6, PartyEntryStep

LEMMA ReviveQueuesStep ==
    ASSUME DestroyInv, Ends!ReviveQueues
    PROVE  DestroyInv'
  <1> DEFINE e == [kind |-> "destroyInternal", for |-> "revived"]
  <1>1. /\ reviving = "initiated" /\ mpDestroyed' = 0 /\ reviving' = "no"
        /\ Ends!Added(e, refs, queue)
        /\ UNCHANGED <<overrides, actorAlive, bit, initiated, inDestroy, call, destroyAnswer, holder>>
    BY DEF Ends!ReviveQueues, Ends!E
  <1>2. e \in Ends!Entry /\ e.kind # "handler" /\ e.for = "revived" /\ "revived" \in Ends!Destroyer
    BY Entries DEF Ends!Destroyer
  <1> HIDE DEF e
  <1>3. "revived" \in refs /\ mpDestroyed \in 0..3
    BY <1>1, <1>2 DEF DestroyInv, Referred, Ends!TypeOK
  <1>4. /\ Leaving(refs, queue, job, inDestroy, call) /\ DestroyTypes(inDestroy, call, destroyAnswer)
        /\ holder = "alive" /\ Ends!TypeOK /\ job # "weak"
    BY <1>3, Referenced
  <1>5. actorAlive /\ ~Carries(queue, "revived") /\ "revived" \notin inDestroy /\ ~Handles(queue)
    BY <1>1, <1>3, <1>4 DEF Leaving, Ending
  <1>6. /\ refs \subseteq Users \cup Ends!Destroyer \cup {"job", "self"} /\ queue \in Seq(Ends!Entry)
        /\ CarriesOnce(queue) /\ ~At(queue, "handler", "nobody")
        /\ "job" \in refs <=> job = "strong"
        /\ "self" \in refs <=> At(queue, "handler", "self")
    BY <1>4 DEF Leaving, Referred
  <1>7. /\ queue' \in Seq(Ends!Entry) /\ queue' # <<>> /\ CarriesOnce(queue')
        /\ job' = "strong" /\ refs' = refs \cup {"job"}
        /\ refs' \subseteq Users \cup Ends!Destroyer \cup {"job", "self"}
        /\ Handles(queue') <=> Handles(queue)
        /\ \A x : Carries(queue', x) <=> Carries(queue, x) \/ e.for = x
        /\ "self" \in refs' <=> At(queue', "handler", "self")
        /\ ~At(queue', "handler", "nobody")
        /\ \A x \in Ends!Destroyer : x \in refs' <=> x \in refs
        /\ QueuedCalls(queue, call) => QueuedCalls(queue', call)
        /\ Asking(refs, queue, destroyAnswer) => Asking(refs', queue', destroyAnswer)
    <2>1. e.for \in Ends!Destroyer => ~Carries(queue, e.for)
      BY <1>2, <1>5
    <2>2. QED
      BY <1>1, <1>2, <1>4, <1>6, <2>1, AddedStep
  <1>8. Ends!TypeOK'
    BY <1>1, <1>4, <1>7 DEF Ends!TypeOK
  <1>9. Ending(queue, inDestroy, call)'
    BY <1>1, <1>5, <1>7 DEF DestroyInv, Ending
  <1>10. Referred(refs, queue, job, inDestroy)'
    BY <1>1, <1>2, <1>3, <1>5, <1>7 DEF DestroyInv, Referred, Ends!Destroyer
  <1>11. QED
    BY <1>1, <1>4, <1>7, <1>8, <1>9, <1>10 DEF DestroyInv, Unreferred, QueuedCalls, Asking, Gone

\* The run takes an entry of a party, which still has its reference.
LEMMA PartyTaken ==
    ASSUME DestroyInv, job # "none", queue # <<>>, Head(queue).kind \in {"destroyInternal", "destroyEnds", "yielded"}
    PROVE  /\ Ends!Party \in Ends!Destroyer /\ Ends!Party \in refs /\ job = "strong" /\ Ends!Party \notin inDestroy
           /\ refs \subseteq Users \cup Ends!Destroyer \cup {"job", "self"}
           /\ ~Carries(Tail(queue), Ends!Party) /\ (Ends!Party = "revived" => reviving = "no")
           /\ Leaving(refs \ {Ends!Party}, Tail(queue), job, inDestroy, call)
           /\ Asking(refs, Tail(queue), destroyAnswer)
           /\ Ends!Party = "destroy" => initiated
           /\ DestroyTypes(inDestroy, call, destroyAnswer) /\ holder = "alive" /\ Ends!TypeOK
           /\ {overrides, actorAlive, initiated, bit} \subseteq BOOLEAN
  <1>1. queue \in Seq(Ends!Entry)
    BY DEF DestroyInv, Ends!TypeOK
  <1>2. /\ Tail(queue) \in Seq(Ends!Entry) /\ Head(queue) \in Ends!Entry
        /\ \A k, f : At(queue, k, f) <=> Head(queue) = [kind |-> k, for |-> f] \/ At(Tail(queue), k, f)
        /\ \A x : Carries(queue, x) <=> Head(queue).for = x \/ Carries(Tail(queue), x)
        /\ Handles(queue) <=> Head(queue).kind = "handler" \/ Handles(Tail(queue))
        /\ CarriesOnce(queue) => /\ CarriesOnce(Tail(queue))
                                 /\ Head(queue).for \in Ends!Destroyer => ~Carries(Tail(queue), Head(queue).for)
    BY <1>1, EntryTaken
  <1>3. Head(queue).for \in Ends!Destroyer /\ Head(queue).kind \notin {"handler", "call", "resume"}
    BY <1>2, EntryKinds
  <1> DEFINE d == Head(queue).for
  <1>4. d = Ends!Party /\ d \in Ends!Destroyer /\ Carries(queue, d) /\ ~Carries(Tail(queue), d)
    BY <1>2, <1>3 DEF Ends!Party, DestroyInv
  <1>5. \A k \in {"handler", "call", "resume"} : \A f : At(queue, k, f) <=> At(Tail(queue), k, f)
    BY <1>2, <1>3
  <1> HIDE DEF d
  <1>6. d \in refs /\ d \notin inDestroy
    BY <1>4 DEF DestroyInv, Referred
  <1>7. /\ Leaving(refs, queue, job, inDestroy, call) /\ DestroyTypes(inDestroy, call, destroyAnswer)
        /\ job = "strong" /\ holder = "alive" /\ Ends!TypeOK
        /\ {overrides, actorAlive, initiated, bit} \subseteq BOOLEAN
    BY <1>6, Referenced DEF Leaving
  <1>8. \A x \in Ends!Destroyer : Carries(Tail(queue), x) <=> Carries(queue, x) /\ x # d
    BY <1>2, <1>4 DEF d
  <1>9. Handles(queue) <=> Handles(Tail(queue))
    BY <1>2, <1>3
  <1>10. d = "revived" => reviving = "no"
    BY <1>4, <1>7 DEF Leaving, Ending
  <1>11. Ending(Tail(queue), inDestroy, call)
    BY <1>7, <1>8, <1>9 DEF Leaving, Ending, Ends!Destroyer
  <1>12. Referred(refs \ {d}, Tail(queue), job, inDestroy)
    <2>1. \A x \in Ends!Destroyer :
             /\ x \in refs \ {d} <=> Carries(Tail(queue), x) \/ x \in inDestroy \/ (x = "revived" /\ reviving # "no")
             /\ x \in inDestroy => ~Carries(Tail(queue), x)
      BY <1>6, <1>7, <1>8, <1>10 DEF Leaving, Referred
    <2>2. "self" \in refs \ {d} <=> At(Tail(queue), "handler", "self")
      BY <1>4, <1>5, <1>7 DEF Leaving, Referred, Ends!Destroyer
    <2>3. "job" \in refs \ {d}
      BY <1>4, <1>7 DEF Leaving, Referred, Ends!Destroyer
    <2>4. QED
      BY <1>7, <2>1, <2>2, <2>3 DEF Leaving, Referred
  <1>13. QueuedCalls(Tail(queue), call) /\ ~At(Tail(queue), "handler", "nobody")
    BY <1>5, <1>7 DEF Leaving, QueuedCalls
  <1>14. Asking(refs, Tail(queue), destroyAnswer)
    BY <1>9 DEF DestroyInv, Asking
  <1>15. Leaving(refs \ {d}, Tail(queue), job, inDestroy, call)
    BY <1>2, <1>7, <1>11, <1>12, <1>13 DEF Leaving
  <1>16. d = "destroy" => initiated
    BY <1>6, <1>7 DEF Leaving, Referred
  <1>17. QED
    BY <1>4, <1>6, <1>7, <1>10, <1>14, <1>15, <1>16 DEF Leaving

\* fp_Destroy has returned.
LEMMA DestroyedStep ==
    ASSUME DestroyInv, job # "none", queue # <<>>, Head(queue).kind \in {"destroyInternal", "destroyEnds", "yielded"},
           Ends!Destroyed(Ends!Party, Tail(queue)), bit' \in BOOLEAN,
           UNCHANGED <<overrides, actorAlive, initiated, inDestroy, call>>
    PROVE  DestroyInv'
  <1> DEFINE d == Ends!Party
             q == Tail(queue)
  <1>1. /\ d \in Ends!Destroyer /\ d \in refs /\ job = "strong"
        /\ refs \subseteq Users \cup Ends!Destroyer \cup {"job", "self"}
        /\ Leaving(refs \ {d}, q, job, inDestroy, call) /\ Asking(refs, q, destroyAnswer)
        /\ d = "destroy" => initiated
        /\ DestroyTypes(inDestroy, call, destroyAnswer) /\ holder = "alive" /\ Ends!TypeOK
        /\ {overrides, actorAlive, initiated, bit} \subseteq BOOLEAN
    BY PartyTaken
  <1>2. Ends!Destroyed(d, q)
    OBVIOUS
  <1> HIDE DEF d, q
  <1>3. CASE Ends!Suspended = {}
    <2>1. Ends!Result(d, q)
      BY <1>2, <1>3 DEF Ends!Destroyed
    <2>2. QED
      BY <1>1, <2>1, ResultStep
  <1>4. CASE Ends!Suspended # {}
    <2>1. Ends!Added([kind |-> "yielded", for |-> d], refs, q) /\ UNCHANGED <<mpDestroyed, reviving, destroyAnswer, holder>>
      BY <1>2, <1>4 DEF Ends!Destroyed, Ends!E
    <2>2. initiated' \in BOOLEAN /\ (initiated => initiated') /\ (d = "destroy" => initiated')
      BY <1>1
    <2>3. QED
      BY <1>1, <2>1, <2>2, PartyEntryStep
  <1>5. QED
    BY <1>3, <1>4

LEMMA ProcessDestroyInternalStep ==
    ASSUME DestroyInv, Ends!ProcessDestroyInternal
    PROVE  DestroyInv'
  <1> DEFINE d == Ends!Party
             q == Tail(queue)
  <1>1. /\ job # "none" /\ queue # <<>> /\ Head(queue).kind = "destroyInternal"
        /\ bit' = TRUE /\ UNCHANGED <<overrides, actorAlive, initiated, call>>
    BY DEF Ends!ProcessDestroyInternal, Ends!IsNext
  <1>2. /\ d \in Ends!Destroyer /\ d \in refs /\ job = "strong" /\ d \notin inDestroy
        /\ refs \subseteq Users \cup Ends!Destroyer \cup {"job", "self"}
        /\ ~Carries(q, d) /\ (d = "revived" => reviving = "no")
        /\ Leaving(refs \ {d}, q, job, inDestroy, call) /\ Asking(refs, q, destroyAnswer)
        /\ d = "destroy" => initiated
        /\ DestroyTypes(inDestroy, call, destroyAnswer) /\ holder = "alive" /\ Ends!TypeOK
        /\ {overrides, actorAlive, initiated, bit} \subseteq BOOLEAN
    BY <1>1, PartyTaken
  <1>3. CASE bit
    <2>1. inDestroy' = inDestroy /\ Ends!Result(d, q)
      BY <1>3 DEF Ends!ProcessDestroyInternal
    <2> HIDE DEF d, q
    <2>2. QED
      BY <1>1, <1>2, <2>1, ResultStep
  <1>4. CASE ~bit /\ ~overrides
    <2>1. inDestroy' = inDestroy /\ Ends!Destroyed(Ends!Party, Tail(queue))
      BY <1>4 DEF Ends!ProcessDestroyInternal
    <2>2. QED
      BY <1>1, <2>1, DestroyedStep
  <1>5. CASE ~bit /\ overrides
    <2>1. inDestroy' = inDestroy \cup {d} /\ queue' = q
          /\ UNCHANGED <<refs, job, mpDestroyed, reviving, destroyAnswer, holder>>
      BY <1>5 DEF Ends!ProcessDestroyInternal
    <2> HIDE DEF d, q
    <2>2. Ends!TypeOK'
      BY <1>1, <1>2, <2>1 DEF Leaving, Ends!TypeOK
    <2>3. Ending(queue, inDestroy, call)'
      BY <1>1, <1>2, <2>1 DEF Leaving, Ending
    <2>4. Referred(refs, queue, job, inDestroy)'
      BY <1>1, <1>2, <2>1 DEF Leaving, Referred, Ends!Destroyer
    <2>5. QED
      BY <1>1, <1>2, <2>1, <2>2, <2>3, <2>4 DEF Leaving, DestroyInv, Unreferred, QueuedCalls, Asking, Gone
  <1>6. QED
    BY <1>2, <1>3, <1>4, <1>5

LEMMA ProcessDestroyEndsStep ==
    ASSUME DestroyInv, Ends!ProcessDestroyEnds
    PROVE  DestroyInv'
  <1>1. /\ job # "none" /\ queue # <<>> /\ Head(queue).kind = "destroyEnds"
        /\ UNCHANGED <<overrides, actorAlive, bit, initiated, inDestroy, call>>
        /\ Ends!Destroyed(Ends!Party, Tail(queue))
    BY DEF Ends!ProcessDestroyEnds, Ends!IsNext
  <1>2. bit' \in BOOLEAN
    BY <1>1 DEF DestroyInv, Ends!TypeOK
  <1>3. QED
    BY <1>1, <1>2, DestroyedStep

LEMMA ProcessYieldedStep ==
    ASSUME DestroyInv, Ends!ProcessYielded
    PROVE  DestroyInv'
  <1> DEFINE d == Ends!Party
             q == Tail(queue)
  <1>1. /\ job # "none" /\ queue # <<>> /\ Head(queue).kind = "yielded"
        /\ call' = Ends!Aborted /\ UNCHANGED <<overrides, actorAlive, bit, initiated, inDestroy>>
        /\ Ends!Result(d, q)
    BY DEF Ends!ProcessYielded, Ends!IsNext
  <1>2. /\ d \in Ends!Destroyer /\ d \in refs /\ job = "strong"
        /\ Leaving(refs \ {d}, q, job, inDestroy, call) /\ Asking(refs, q, destroyAnswer)
        /\ DestroyTypes(inDestroy, call, destroyAnswer) /\ holder = "alive" /\ Ends!TypeOK
        /\ {overrides, actorAlive, initiated, bit} \subseteq BOOLEAN
    BY <1>1, PartyTaken
  <1> HIDE DEF d, q
  <1>3. /\ call' \in [Users -> {"none", "queued", "suspended", "resuming", "done", "deleted"}]
        /\ \A u \in Users : (call'[u] = "queued" => call[u] = "queued") /\ call'[u] \notin {"suspended", "resuming"}
    BY <1>1, <1>2 DEF DestroyTypes, Ends!Aborted, Ends!Suspended
  <1>4. Leaving(refs \ {d}, q, job, inDestroy, call')
    BY <1>2, <1>3 DEF Leaving, Ending, QueuedCalls
  <1>5. DestroyTypes(inDestroy, call', destroyAnswer)
    BY <1>2, <1>3 DEF DestroyTypes
  <1>6. QED
    BY <1>1, <1>2, <1>4, <1>5, ResultStep

\* The run takes the entry of a user.
LEMMA UserTaken ==
    ASSUME DestroyInv, job # "none", queue # <<>>, Head(queue).kind \in {"call", "resume"}, queue' = Tail(queue),
           call' \in [Users -> {"none", "queued", "suspended", "resuming", "done", "deleted"}],
           \A u \in Users : call'[u] = "queued" => call[u] = "queued" /\ Head(queue) # [kind |-> "call", for |-> u],
           ~actorAlive => \A u \in Users : call'[u] \notin {"suspended", "resuming"},
           UNCHANGED <<refs, job, overrides, actorAlive, bit, mpDestroyed, initiated, reviving, inDestroy,
                       destroyAnswer, holder>>
    PROVE  DestroyInv'
  <1>0. queue \in Seq(Ends!Entry) /\ Ends!TypeOK /\ Users \cap Ends!Destroyer = {}
    BY Names4 DEF DestroyInv, Ends!TypeOK, Ends!Destroyer
  <1>1. /\ Tail(queue) \in Seq(Ends!Entry) /\ Head(queue) \in Ends!Entry
        /\ \A k, f : At(queue, k, f) <=> Head(queue) = [kind |-> k, for |-> f] \/ At(Tail(queue), k, f)
        /\ \A x : Carries(queue, x) <=> Head(queue).for = x \/ Carries(Tail(queue), x)
        /\ Handles(queue) <=> Head(queue).kind = "handler" \/ Handles(Tail(queue))
        /\ CarriesOnce(queue) => CarriesOnce(Tail(queue))
    BY <1>0, EntryTaken
  <1>2. Head(queue).for \in Users /\ Head(queue).kind # "handler" /\ Head(queue).for \notin Ends!Destroyer
    BY <1>0, <1>1, EntryKinds
  <1>3. \A f : At(queue', "handler", f) <=> At(queue, "handler", f)
    BY <1>1, <1>2
  <1>4. (\A x \in Ends!Destroyer : Carries(queue', x) <=> Carries(queue, x)) /\ (Handles(queue') <=> Handles(queue))
    BY <1>1, <1>2
  <1>5. QueuedCalls(queue', call')
    BY <1>1 DEF DestroyInv, QueuedCalls
  <1>6. Ends!TypeOK'
    BY <1>0, <1>1 DEF Ends!TypeOK
  <1>7. Ending(queue, inDestroy, call)'
    <2>1. "revived" \in Ends!Destroyer
      BY DEF Ends!Destroyer
    <2>2. QED
      BY <1>4, <2>1 DEF DestroyInv, Ending
  <1>8. Referred(refs, queue, job, inDestroy)' /\ Unreferred'
    <2>1. Referred(refs, queue, job, inDestroy)'
      BY <1>3, <1>4 DEF DestroyInv, Referred
    <2>2. Unreferred'
      BY <1>3 DEF DestroyInv, Unreferred
    <2>3. QED
      BY <2>1, <2>2
  <1>9. CarriesOnce(queue)' /\ Asking(refs, queue, destroyAnswer)' /\ Gone'
    BY <1>1, <1>4 DEF DestroyInv, Asking, Gone
  <1>10. QED
    BY <1>5, <1>6, <1>7, <1>8, <1>9 DEF DestroyInv

LEMMA ProcessCallStep ==
    ASSUME DestroyInv, Ends!ProcessCall
    PROVE  DestroyInv'
  <1>1. /\ job # "none" /\ queue # <<>> /\ Head(queue).kind = "call" /\ queue' = Tail(queue)
        /\ UNCHANGED <<refs, job, overrides, actorAlive, bit, mpDestroyed, initiated, reviving, inDestroy,
                       destroyAnswer, holder>>
    BY DEF Ends!ProcessCall, Ends!IsNext
  <1>2. PICK s \in IF actorAlive THEN {"done", "suspended"} ELSE {"deleted"} :
            call' = [call EXCEPT ![Head(queue).for] = s]
    BY DEF Ends!ProcessCall, Ends!Party
  <1>3. queue \in Seq(Ends!Entry) /\ call \in [Users -> {"none", "queued", "suspended", "resuming", "done", "deleted"}]
    BY DEF DestroyInv, Ends!TypeOK
  <1>4. Head(queue) \in Ends!Entry
    BY <1>1, <1>3, EntryTaken
  <1>5. Head(queue).for \in Users
    BY <1>1, <1>4, EntryKinds
  <1>6. call' \in [Users -> {"none", "queued", "suspended", "resuming", "done", "deleted"}]
    BY <1>2, <1>3
  <1>7. \A u \in Users : call'[u] = "queued" => call[u] = "queued" /\ Head(queue) # [kind |-> "call", for |-> u]
    BY <1>2, <1>3, <1>5
  <1>8. ~actorAlive => \A u \in Users : call'[u] \notin {"suspended", "resuming"}
    BY <1>2, <1>3, <1>5 DEF DestroyInv, Ending
  <1>9. QED
    BY <1>1, <1>6, <1>7, <1>8, UserTaken

LEMMA ProcessResumeStep ==
    ASSUME DestroyInv, Ends!ProcessResume
    PROVE  DestroyInv'
  <1>1. /\ job # "none" /\ queue # <<>> /\ Head(queue).kind = "resume" /\ queue' = Tail(queue)
        /\ call' = IF call[Head(queue).for] = "resuming" THEN [call EXCEPT ![Head(queue).for] = "done"] ELSE call
        /\ UNCHANGED <<refs, job, overrides, actorAlive, bit, mpDestroyed, initiated, reviving, inDestroy,
                       destroyAnswer, holder>>
    BY DEF Ends!ProcessResume, Ends!IsNext, Ends!Party
  <1>3. queue \in Seq(Ends!Entry) /\ call \in [Users -> {"none", "queued", "suspended", "resuming", "done", "deleted"}]
    BY DEF DestroyInv, Ends!TypeOK
  <1>4. Head(queue) \in Ends!Entry
    BY <1>1, <1>3, EntryTaken
  <1>5. Head(queue).for \in Users
    BY <1>1, <1>4, EntryKinds
  <1>6. call' \in [Users -> {"none", "queued", "suspended", "resuming", "done", "deleted"}]
    BY <1>1, <1>3
  <1>7. \A u \in Users : call'[u] = "queued" => call[u] = "queued" /\ Head(queue) # [kind |-> "call", for |-> u]
    BY <1>1, <1>3, <1>5
  <1>8. ~actorAlive => \A u \in Users : call'[u] \notin {"suspended", "resuming"}
    BY <1>1, <1>3, <1>5 DEF DestroyInv, Ending
  <1>9. QED
    BY <1>1, <1>6, <1>7, <1>8, UserTaken

LEMMA EmptyQueue ==
    ASSUME NEW q, q = <<>>
    PROVE  ~Handles(q) /\ CarriesOnce(q) /\ (\A d : ~Carries(q, d)) /\ (\A k, f : ~At(q, k, f))
  <1>1. \A i \in 1..Len(q) : FALSE
    OBVIOUS
  <1>2. QED
    BY <1>1 DEF Handles, CarriesOnce, Carries, At

LEMMA ProcessHandlerStep ==
    ASSUME DestroyInv, Ends!ProcessHandler
    PROVE  DestroyInv'
  <1> DEFINE r == refs \ {"self"}
  <1>1. /\ job # "none" /\ queue # <<>> /\ Head(queue).kind = "handler"
        /\ actorAlive' = FALSE /\ bit' = TRUE /\ destroyAnswer' = Ends!Answered
        /\ UNCHANGED <<overrides, initiated, reviving, inDestroy>>
    BY DEF Ends!ProcessHandler, Ends!IsNext
  <1>2. queue \in Seq(Ends!Entry) /\ Ends!TypeOK
    BY DEF DestroyInv, Ends!TypeOK
  <1>3. /\ Tail(queue) \in Seq(Ends!Entry) /\ Head(queue) \in Ends!Entry
        /\ \A k, f : At(queue, k, f) <=> Head(queue) = [kind |-> k, for |-> f] \/ At(Tail(queue), k, f)
        /\ \A x : Carries(queue, x) <=> Head(queue).for = x \/ Carries(Tail(queue), x)
        /\ Handles(queue) /\ CarriesOnce(Tail(queue)) /\ ~Handles(Tail(queue))
    BY <1>1, <1>2, EntryTaken DEF DestroyInv
  <1>4. /\ Head(queue) = [kind |-> "handler", for |-> Head(queue).for]
        /\ Head(queue).for \in {"self", "nobody"} /\ Head(queue).for \notin Ends!Destroyer
    BY <1>1, <1>3, EntryKinds
  <1>5. reviving = "no" /\ mpDestroyed = 1
    BY <1>2, <1>3 DEF DestroyInv, Ending, Ends!TypeOK
  <1>6. /\ destroyAnswer' \in [Users -> {"none", "asked", "destroyed", "already"}]
        /\ \A u \in Users : destroyAnswer'[u] # "asked"
    BY <1>1, <1>2 DEF Ends!Answered, Ends!Asked, Ends!TypeOK
  <1>7. CASE r = {}
    <2>1. /\ holder' = "gone" /\ mpDestroyed' = 3 /\ queue' = <<>> /\ job' = "none" /\ refs' = {}
          /\ call' = [u \in Users |->
                        IF [kind |-> "call", for |-> u] \in Ends!Range(queue) THEN "deleted" ELSE Ends!Aborted[u]]
      BY <1>7 DEF Ends!ProcessHandler, Ends!E
    <2>2. inDestroy = {} /\ inDestroy' = {}
      <3>1. \A d \in Ends!Destroyer : d \notin refs
        BY <1>7 DEF Ends!Destroyer
      <3>2. \A d \in Ends!Destroyer : d \in inDestroy => d \in refs
        BY DEF DestroyInv, Referred
      <3>3. inDestroy \subseteq Ends!Destroyer
        BY <1>2 DEF Ends!TypeOK
      <3>4. QED
        BY <1>1, <3>1, <3>2, <3>3
    <2>3. \A u \in Users : call[u] = "queued" => [kind |-> "call", for |-> u] \in Ends!Range(queue)
      <3>1. \A k, f : At(queue, k, f) => [kind |-> k, for |-> f] \in Ends!Range(queue)
        BY <1>2 DEF At, Ends!Range
      <3>2. QED
        BY <3>1 DEF DestroyInv, QueuedCalls
    <2>4. /\ call' \in [Users -> {"none", "queued", "suspended", "resuming", "done", "deleted"}]
          /\ \A u \in Users : call'[u] \notin {"queued", "suspended", "resuming"}
      BY <1>2, <2>1, <2>3 DEF Ends!Aborted, Ends!Suspended, Ends!TypeOK
    <2>5. queue' \in Seq(Ends!Entry)
      BY <2>1
    <2>6. ~Handles(queue') /\ (\A x : ~Carries(queue', x)) /\ (\A k, f : ~At(queue', k, f)) /\ CarriesOnce(queue')
      BY <2>1, EmptyQueue
    <2>7. Ends!TypeOK'
      <3>1. {overrides, actorAlive, bit, initiated}' \subseteq BOOLEAN
        BY <1>1, <1>2 DEF Ends!TypeOK
      <3>2. QED
        BY <1>1, <1>2, <1>6, <2>1, <2>4, <2>5, <3>1 DEF Ends!TypeOK
    <2>8. Ending(queue, inDestroy, call)'
      BY <1>1, <1>5, <2>1, <2>4, <2>6 DEF Ending
    <2>9. Referred(refs, queue, job, inDestroy)' /\ Unreferred'
      BY <1>1, <1>5, <2>1, <2>2, <2>6 DEF Referred, Unreferred
    <2>10. QED
      BY <1>1, <1>6, <2>1, <2>4, <2>6, <2>7, <2>8, <2>9 DEF DestroyInv, QueuedCalls, Asking, Gone
  <1>8. CASE r # {}
    <2>1. /\ mpDestroyed' = 2 /\ refs' = r /\ queue' = Tail(queue) /\ call' = Ends!Aborted /\ UNCHANGED <<job, holder>>
      BY <1>8 DEF Ends!ProcessHandler
    <2>2. refs # {}
      BY <1>8
    <2>3. /\ Leaving(refs, queue, job, inDestroy, call) /\ holder = "alive" /\ job # "weak"
      BY <2>2, Referenced
    <2>4. ~At(queue', "handler", "nobody") /\ ~At(queue', "handler", "self")
      <3>1. \A f : At(Tail(queue), "handler", f) => Handles(Tail(queue))
        BY DEF At, Handles
      <3>2. QED
        BY <1>3, <2>1, <3>1
    <2>5. /\ call' \in [Users -> {"none", "queued", "suspended", "resuming", "done", "deleted"}]
          /\ \A u \in Users : (call'[u] = "queued" => call[u] = "queued") /\ call'[u] \notin {"suspended", "resuming"}
      BY <1>2, <2>1 DEF Ends!Aborted, Ends!Suspended, Ends!TypeOK
    <2>6. QueuedCalls(queue', call')
      <3>1. \A u : At(queue, "call", u) => At(queue', "call", u)
        BY <1>1, <1>3, <2>1
      <3>2. \A u \in Users : call[u] = "queued" => At(queue, "call", u)
        BY <2>3 DEF Leaving, QueuedCalls
      <3>3. QED
        BY <2>5, <3>1, <3>2 DEF QueuedCalls
    <2>7. Ends!TypeOK'
      <3>1. {overrides, actorAlive, bit, initiated}' \subseteq BOOLEAN
        BY <1>1, <1>2 DEF Ends!TypeOK
      <3>2. QED
        BY <1>1, <1>2, <1>3, <1>6, <2>1, <2>5, <3>1 DEF Ends!TypeOK
    <2>8. Ending(queue, inDestroy, call)'
      BY <1>1, <1>3, <1>5, <2>1, <2>5 DEF Ending
    <2>9. Referred(refs, queue, job, inDestroy)'
      <3>1. \A x \in Ends!Destroyer : (x \in refs' <=> x \in refs) /\ (Carries(queue', x) <=> Carries(queue, x))
        BY <1>3, <1>4, <2>1 DEF Ends!Destroyer
      <3>2. "self" \notin refs' /\ ("job" \in refs' <=> "job" \in refs)
        BY <2>1
      <3>3. "destroy" \in refs' => "destroy" \in refs
        BY <2>1
      <3>4. QED
        BY <1>1, <2>1, <2>3, <2>4, <3>1, <3>2, <3>3 DEF Leaving, Referred
    <2>10. Unreferred' /\ CarriesOnce(queue)' /\ Gone'
      BY <1>3, <2>1, <2>3, <2>4 DEF Unreferred, Gone
    <2>11. QED
      BY <1>6, <2>6, <2>7, <2>8, <2>9, <2>10 DEF DestroyInv, Asking
  <1>9. QED
    BY <1>7, <1>8

LEMMA RunEndsStep ==
    ASSUME DestroyInv, Ends!RunEnds
    PROVE  DestroyInv'
  <1>1. /\ job # "none" /\ queue = <<>> /\ Ends!Released(refs \ {"job"}, queue, "none")
        /\ UNCHANGED <<overrides, actorAlive, bit, initiated, inDestroy, call, destroyAnswer>>
    BY DEF Ends!RunEnds
  <1>2. ~At(queue, "handler", "nobody") /\ job \in {"none", "strong", "weak"}
    BY <1>1 DEF At, DestroyInv, Ends!TypeOK
  <1>3. "job" \in refs
    BY <1>1, <1>2 DEF DestroyInv, Unreferred, Referred
  <1>4. /\ Leaving(refs, queue, job, inDestroy, call) /\ DestroyTypes(inDestroy, call, destroyAnswer)
        /\ holder = "alive" /\ Ends!TypeOK /\ bit' \in BOOLEAN
    BY <1>1, <1>3, Referenced
  <1>5. Leaving(refs \ {"job"}, queue, "none", inDestroy, call)
    BY <1>1, <1>4 DEF Leaving, Referred, Ends!Destroyer
  <1>6. Asking(refs \ {"job"}, queue, destroyAnswer)
    BY DEF DestroyInv, Asking
  <1>7. Dropping(refs \ {"job"}, queue, "none", inDestroy, call, destroyAnswer)
    BY <1>5, <1>6 DEF Dropping
  <1>8. QED
    BY <1>1, <1>4, <1>7, ReleasedStep

LEMMA DeleteStep ==
    ASSUME DestroyInv, Ends!Delete
    PROVE  DestroyInv'
  <1>1. /\ holder = "deleting" /\ holder' = "gone" /\ mpDestroyed' = 3 /\ actorAlive' = FALSE /\ queue' = <<>>
        /\ UNCHANGED <<refs, job, overrides, bit, initiated, reviving, inDestroy, call, destroyAnswer>>
    BY DEF Ends!Delete
  <1>2. refs = {} /\ queue = <<>> /\ job = "none" /\ actorAlive = FALSE
    BY <1>1 DEF DestroyInv, Gone
  <1>3. queue' \in Seq(Ends!Entry) /\ Len(queue') = 0 /\ ~Handles(queue')
    BY <1>1 DEF Handles
  <1>4. reviving = "no"
    <2>1. "revived" \in Ends!Destroyer /\ "revived" \notin refs
      BY <1>2 DEF Ends!Destroyer
    <2>2. "revived" \in refs <=> Carries(queue, "revived") \/ "revived" \in inDestroy \/ reviving # "no"
      BY <2>1 DEF DestroyInv, Referred
    <2>3. QED
      BY <2>1, <2>2
  <1>5. Ends!TypeOK'
    <2>1. {overrides, actorAlive, bit, initiated}' \subseteq BOOLEAN
      BY <1>1, <1>2 DEF DestroyInv, Ends!TypeOK
    <2>2. QED
      BY <1>1, <1>2, <1>3, <2>1 DEF DestroyInv, Ends!TypeOK
  <1>6. Ending(queue, inDestroy, call)'
    BY <1>1, <1>2, <1>3, <1>4 DEF DestroyInv, Ending
  <1>7. QED
    BY <1>1, <1>2, <1>5, <1>6 DEF DestroyInv, Referred, Unreferred, QueuedCalls, Asking, Gone

THEOREM DestroyInvariance == Spec => []DestroyInv
  <1>1. Init => DestroyInv
    <2>1. SUFFICES ASSUME Init PROVE DestroyInv
      OBVIOUS
    <2>2. Ends!Init
      BY <2>1 DEF Init
    <2>3. /\ refs = Users /\ queue = <<>> /\ job = "none" /\ overrides \in BOOLEAN /\ actorAlive = TRUE
          /\ bit = FALSE /\ mpDestroyed = 0 /\ initiated = FALSE /\ reviving = "no" /\ inDestroy = {}
          /\ call = [u \in Users |-> "none"] /\ destroyAnswer = [u \in Users |-> "none"] /\ holder = "alive"
      BY <2>2 DEF Ends!Init
    <2>4. ~Handles(queue) /\ CarriesOnce(queue) /\ (\A d : ~Carries(queue, d)) /\ (\A k, f : ~At(queue, k, f))
      BY <2>3, EmptyQueue
    <2>5. queue \in Seq(Ends!Entry)
      BY <2>3
    <2>6. Ends!TypeOK
      <3>1. {overrides, actorAlive, bit, initiated} \subseteq BOOLEAN
        BY <2>3
      <3>2. QED
        BY <2>3, <2>5, <3>1 DEF Ends!TypeOK
    <2>7. Ending(queue, inDestroy, call)
      BY <2>3, <2>4 DEF Ending
    <2>8. Referred(refs, queue, job, inDestroy) /\ Unreferred
      BY <2>3, <2>4, Names4 DEF Referred, Unreferred, Ends!Destroyer
    <2>9. QED
      BY <2>3, <2>4, <2>6, <2>7, <2>8 DEF DestroyInv, QueuedCalls, Asking, Gone
  <1>2. DestroyInv /\ [Next]_vars => DestroyInv'
    <2>1. SUFFICES ASSUME DestroyInv, [Next]_vars PROVE DestroyInv'
      OBVIOUS
    <2>2. Ends!Next \/ UNCHANGED destroyVars
      BY <2>1 DEF Next, Only, vars
    <2>3. CASE Ends!Next
      <3>1. ASSUME NEW u \in Users,
                   \/ Ends!Drop(u) \/ Ends!Lock(u) \/ Ends!Call(u) \/ Ends!DestroyActor(u) \/ Ends!DestroyAgain(u)
                   \/ Ends!ResumeArrives(u)
            PROVE  DestroyInv'
        BY <2>1, <3>1, DropStep, LockStep, CallStep, DestroyActorStep, DestroyAgainStep, ResumeArrivesStep
      <3>2. ASSUME NEW d \in Ends!Destroyer, Ends!DestroyEnds(d)
            PROVE  DestroyInv'
        BY <2>1, <3>2, DestroyEndsStep
      <3>3. CASE Ends!ReviveInitiates \/ Ends!ReviveQueues \/ Ends!Delete
        BY <2>1, <3>3, ReviveInitiatesStep, ReviveQueuesStep, DeleteStep
      <3>4. CASE Ends!Run
        BY <2>1, <3>4, ProcessCallStep, ProcessResumeStep, ProcessDestroyInternalStep, ProcessDestroyEndsStep,
           ProcessYieldedStep, ProcessHandlerStep, RunEndsStep DEF Ends!Run
      <3>5. QED
        BY <2>3, <3>1, <3>2, <3>3, <3>4 DEF Ends!Next
    <2>4. CASE UNCHANGED destroyVars
      <3>1. UNCHANGED <<refs, queue, job, overrides, actorAlive, bit, mpDestroyed, initiated, reviving, inDestroy,
                        call, destroyAnswer, holder>>
        BY <2>4 DEF destroyVars
      <3>2. Ends!TypeOK' /\ Ending(queue, inDestroy, call)'
        BY <2>1, <3>1 DEF DestroyInv, Ends!TypeOK, Ending
      <3>3. Referred(refs, queue, job, inDestroy)' /\ Unreferred'
        BY <2>1, <3>1 DEF DestroyInv, Referred, Unreferred
      <3>4. QED
        BY <2>1, <3>1, <3>2, <3>3 DEF DestroyInv, QueuedCalls, Asking, Gone
    <2>5. QED
      BY <2>2, <2>3, <2>4
  <1>3. QED
    BY <1>1, <1>2, PTL DEF Spec

\* Nothing refers to a holder that is deleted, its queue is empty, and no call, coroutine
\* or destruction waits for it (~CActorHolder, fs_ScheduleActorHolderDestroy).
THEOREM DeletedLeavesNobody == Spec => []DeletedIsClean
  <1>1. DestroyInv => DeletedIsClean
    <2>1. SUFFICES ASSUME DestroyInv, holder # "alive"
                   PROVE  /\ refs = {} /\ queue = <<>> /\ ~actorAlive /\ reviving = "no" /\ inDestroy = {}
                          /\ \A u \in Users : call[u] \in {"none", "done", "deleted"} /\ destroyAnswer[u] # "asked"
      BY DEF DeletedIsClean, Ends!DeletedIsClean
    <2>2. refs = {} /\ queue = <<>> /\ actorAlive = FALSE
      BY <2>1 DEF DestroyInv, Gone
    <2>3. ~Handles(queue) /\ (\A d : ~Carries(queue, d)) /\ (\A k, f : ~At(queue, k, f))
      BY <2>2, EmptyQueue
    <2>4. "revived" \in Ends!Destroyer /\ inDestroy \subseteq Ends!Destroyer
      BY <2>1 DEF DestroyInv, Ends!TypeOK, Ends!Destroyer
    <2>5. \A d \in Ends!Destroyer :
             d \in refs <=> Carries(queue, d) \/ d \in inDestroy \/ (d = "revived" /\ reviving # "no")
      BY <2>1 DEF DestroyInv, Referred
    <2>6. reviving = "no" /\ inDestroy = {}
      BY <2>2, <2>4, <2>5
    <2>7. ASSUME NEW u \in Users
          PROVE  call[u] \in {"none", "done", "deleted"} /\ destroyAnswer[u] # "asked"
      <3>1. call[u] # "queued"
        BY <2>1, <2>3 DEF DestroyInv, QueuedCalls
      <3>2. call[u] \notin {"suspended", "resuming"}
        BY <2>1, <2>2 DEF DestroyInv, Ending
      <3>3. call[u] \in {"none", "queued", "suspended", "resuming", "done", "deleted"}
        BY <2>1 DEF DestroyInv, Ends!TypeOK
      <3>4. destroyAnswer[u] # "asked"
        BY <2>1, <2>2, <2>3 DEF DestroyInv, Asking
      <3>5. QED
        BY <3>1, <3>2, <3>3, <3>4
    <2>8. QED
      BY <2>2, <2>6, <2>7
  <1>2. QED
    BY <1>1, DestroyInvariance, PTL

----------------------------------------------------------------------------
(* Permissions.  What the database will hold when it has done what it is     *)
(* asked for, and what a subscriber will hold when it has handled its        *)
(* messages, is what the trust manager has.                                  *)

Changes == [names : SUBSET Names, to : 0..NRequirements]
Saves ==
    [kind : {"add", "set"}, perms : Granting!Granted \ {Granting!NoneGranted}]
    \cup [kind : {"remove"}, perms : {Granting!NoneGranted}]

\* The file before the n-th request of q, when it is f now, and the file for g.
Before(q, f, n) ==
    IF n = 1 THEN f ELSE IF q[n - 1].kind = "remove" THEN Granting!Absent ELSE q[n - 1].perms
File(g) == IF g = Granting!NoneGranted THEN Granting!Absent ELSE g

Requested(q, f, g) ==
    /\ \A n \in 1..Len(q) : q[n].kind = "add" <=> Before(q, f, n) = Granting!Absent
    /\ Before(q, f, Len(q) + 1) = File(g)

\* A view v will have r for p after the changes m.
WillBe(v, m, p, r) ==
    \/ /\ v[p] = r
       /\ \A i \in 1..Len(m) : p \notin m[i].names
    \/ \E i \in 1..Len(m) :
          /\ p \in m[i].names /\ m[i].to = r
          /\ \A j \in 1..Len(m) : j > i => p \notin m[j].names

GrantTypes ==
    /\ perms \in Granting!Granted /\ permissionsInDatabase \in BOOLEAN /\ erased \in BOOLEAN
    /\ permissionsStored = Granting!Absent \/ permissionsStored \in Granting!Granted \ {Granting!NoneGranted}
    /\ permissionsToDatabase \in Seq(Saves)
    /\ subs \in [Granting!Wildcards -> SUBSET Readers] /\ told \in [Granting!Wildcards -> Granting!Granted]
    /\ phase \in [Readers -> {"idle", "in", "dropped", "gone"}]
    /\ view \in [Readers -> Granting!Granted] /\ mail \in [Readers -> Seq(Changes)]

Covered(s) == UNION Granting!WildcardsOf(s)
Subscribed ==
    /\ \A s \in Readers : \A w \in Granting!Wildcards :
          s \in subs[w] <=> w \in Granting!WildcardsOf(s) /\ phase[s] \in {"in", "dropped"}
    /\ \A s \in Readers : phase[s] = "idle" => mail[s] = <<>>
    /\ \A w \in Granting!Wildcards : subs[w] = {} => told[w] = Granting!NoneGranted

ToldAll(g) == \A w \in Granting!Wildcards : subs[w] # {} => told[w] = Granting!Matching(g, w)
WillSee(g) ==
    \A s \in Readers : phase[s] = "in" =>
        \A p \in Names : WillBe(view[s], mail[s], p, IF p \in Covered(s) THEN g[p] ELSE 0)

GrantInv ==
    /\ GrantTypes /\ Subscribed
    /\ permissionsInDatabase <=> perms # Granting!NoneGranted
    /\ ~erased => /\ Requested(permissionsToDatabase, permissionsStored, perms)
                  /\ ToldAll(perms) /\ WillSee(perms)

LEMMA Grants ==
    /\ Granting!NoneGranted \in Granting!Granted
    /\ \A g \in Granting!Granted : g # Granting!NoneGranted => g # Granting!Absent
    /\ \A g \in Granting!Granted, r \in 0..NRequirements : \A ps :
          /\ Granting!With(g, ps, r) \in Granting!Granted
          /\ \A p \in Names : Granting!With(g, ps, r)[p] = IF p \in ps THEN r ELSE g[p]
    /\ \A g \in Granting!Granted : \A w :
          /\ Granting!Matching(g, w) \in Granting!Granted
          /\ \A p \in Names : Granting!Matching(g, w)[p] = IF p \in w THEN g[p] ELSE 0
    /\ \A p \in Names : Granting!NoneGranted[p] = 0
  <1>1. 0 \in 0..NRequirements
    BY LocalPartsAssumption DEF LocalPartsAssumption
  <1>2. Granting!NoneGranted \in Granting!Granted /\ \A p \in Names : Granting!NoneGranted[p] = 0
    BY <1>1 DEF Granting!NoneGranted, Granting!Granted
  <1>3. ASSUME NEW g \in Granting!Granted, g # Granting!NoneGranted
        PROVE  g # Granting!Absent
    <2>1. SUFFICES ASSUME g = <<>> PROVE FALSE
      BY DEF Granting!Absent
    <2>2. DOMAIN g = Names /\ DOMAIN <<>> = {}
      BY DEF Granting!Granted
    <2>3. Names = {}
      BY <2>1, <2>2
    <2>4. g = Granting!NoneGranted
      BY <2>3 DEF Granting!Granted, Granting!NoneGranted
    <2>5. QED
      BY <1>3, <2>4
  <1>4. ASSUME NEW g \in Granting!Granted, NEW r \in 0..NRequirements, NEW ps
        PROVE  /\ Granting!With(g, ps, r) \in Granting!Granted
               /\ \A p \in Names : Granting!With(g, ps, r)[p] = IF p \in ps THEN r ELSE g[p]
    BY DEF Granting!With, Granting!Granted
  <1>5. ASSUME NEW g \in Granting!Granted, NEW w
        PROVE  /\ Granting!Matching(g, w) \in Granting!Granted
               /\ \A p \in Names : Granting!Matching(g, w)[p] = IF p \in w THEN g[p] ELSE 0
    BY <1>1 DEF Granting!Matching, Granting!Granted
  <1>6. QED
    BY <1>2, <1>3, <1>4, <1>5

LEMMA SameGrants ==
    ASSUME NEW g \in Granting!Granted, NEW h \in Granting!Granted, \A p \in Names : g[p] = h[p]
    PROVE  g = h
  BY DEF Granting!Granted

LEMMA RequestedAdded ==
    ASSUME NEW q \in Seq(Saves), NEW c \in Saves, NEW f, NEW g, NEW h, Requested(q, f, g),
           c.kind = "add" <=> File(g) = Granting!Absent,
           File(h) = IF c.kind = "remove" THEN Granting!Absent ELSE c.perms
    PROVE  Requested(Append(q, c), f, h)
  <1>1. /\ Len(q) \in Nat /\ Len(Append(q, c)) = Len(q) + 1
        /\ Append(q, c)[Len(q) + 1] = c /\ \A i \in 1..Len(q) : Append(q, c)[i] = q[i]
    OBVIOUS
  <1>2. ASSUME NEW n \in 1..Len(q) + 1
        PROVE  Before(Append(q, c), f, n) = Before(q, f, n)
    <2>1. n = 1 \/ (n - 1 \in 1..Len(q) /\ Append(q, c)[n - 1] = q[n - 1])
      BY <1>1
    <2>2. QED
      BY <2>1 DEF Before
  <1>3. Before(Append(q, c), f, Len(q) + 2) = IF c.kind = "remove" THEN Granting!Absent ELSE c.perms
    <2>1. Len(q) + 2 # 1 /\ (Len(q) + 2) - 1 = Len(q) + 1
      BY <1>1
    <2>2. QED
      BY <1>1, <2>1 DEF Before
  <1>4. ASSUME NEW n \in 1..Len(Append(q, c))
        PROVE  Append(q, c)[n].kind = "add" <=> Before(Append(q, c), f, n) = Granting!Absent
    <2>1. CASE n \in 1..Len(q)
      BY <1>1, <1>2, <2>1 DEF Requested
    <2>2. CASE n = Len(q) + 1
      BY <1>1, <1>2, <2>2 DEF Requested
    <2>3. QED
      BY <1>1, <2>1, <2>2
  <1>5. Len(Append(q, c)) + 1 = Len(q) + 2
    BY <1>1
  <1>6. QED
    BY <1>3, <1>4, <1>5 DEF Requested

LEMMA RequestedTaken ==
    ASSUME NEW q \in Seq(Saves), q # <<>>, NEW f, NEW g, Requested(q, f, g)
    PROVE  /\ Head(q).kind = "add" <=> f = Granting!Absent
           /\ Requested(Tail(q), IF Head(q).kind = "remove" THEN Granting!Absent ELSE Head(q).perms, g)
  <1> DEFINE h == IF Head(q).kind = "remove" THEN Granting!Absent ELSE Head(q).perms
  <1>1. /\ Head(q) = q[1] /\ Len(q) \in Nat /\ Len(q) >= 1
        /\ Len(Tail(q)) = Len(q) - 1 /\ \A i \in 1..Len(q) - 1 : Tail(q)[i] = q[i + 1]
    OBVIOUS
  <1>2. Before(q, f, 1) = f /\ 1 \in 1..Len(q)
    BY <1>1 DEF Before
  <1>3. ASSUME NEW n \in 1..Len(q)
        PROVE  Before(Tail(q), h, n) = Before(q, f, n + 1)
    <2>1. CASE n = 1
      BY <1>1, <2>1 DEF Before
    <2>2. CASE n # 1
      <3>1. n - 1 \in 1..Len(q) - 1 /\ (n - 1) + 1 = n /\ (n + 1) - 1 = n /\ n + 1 # 1
        BY <1>1, <2>2
      <3>2. Tail(q)[n - 1] = q[n]
        BY <1>1, <3>1
      <3>3. QED
        BY <2>2, <3>1, <3>2 DEF Before
    <2>3. QED
      BY <2>1, <2>2
  <1> HIDE DEF h
  <1>4. \A n \in 1..Len(Tail(q)) : Tail(q)[n].kind = "add" <=> Before(Tail(q), h, n) = Granting!Absent
    <2>1. TAKE n \in 1..Len(Tail(q))
    <2>2. n \in 1..Len(q) /\ n + 1 \in 1..Len(q) /\ Tail(q)[n] = q[n + 1]
      BY <1>1
    <2>3. QED
      BY <1>3, <2>2 DEF Requested
  <1>5. Before(Tail(q), h, Len(Tail(q)) + 1) = File(g)
    <2>1. Len(Tail(q)) + 1 = Len(q) /\ Len(q) \in 1..Len(q)
      BY <1>1
    <2>2. QED
      BY <1>3, <2>1 DEF Requested
  <1>6. Requested(Tail(q), h, g)
    BY <1>4, <1>5 DEF Requested
  <1>7. Head(q).kind = "add" <=> f = Granting!Absent
    BY <1>1, <1>2 DEF Requested
  <1>8. QED
    BY <1>6, <1>7 DEF h

LEMMA WillBeAdded ==
    ASSUME NEW m \in Seq(Changes), NEW c \in Changes, NEW v, NEW p, NEW r, WillBe(v, m, p, r)
    PROVE  WillBe(v, Append(m, c), p, IF p \in c.names THEN c.to ELSE r)
  <1> DEFINE l == Append(m, c)
  <1>1. /\ Len(m) \in Nat /\ Len(l) = Len(m) + 1 /\ l[Len(m) + 1] = c /\ \A i \in 1..Len(m) : l[i] = m[i]
    OBVIOUS
  <1>2. /\ \A i \in 1..Len(l) : i \in 1..Len(m) \/ i = Len(m) + 1
        /\ \A i \in 1..Len(m) : i \in 1..Len(l) /\ i < Len(m) + 1
        /\ Len(m) + 1 \in 1..Len(l) /\ \A i \in 1..Len(l) : ~(i > Len(m) + 1)
    BY <1>1
  <1> HIDE DEF l
  <1>3. CASE p \in c.names
    <2>1. \E i \in 1..Len(l) : p \in l[i].names /\ l[i].to = c.to /\ \A j \in 1..Len(l) : j > i => p \notin l[j].names
      BY <1>1, <1>2, <1>3
    <2>2. QED
      BY <1>3, <2>1 DEF WillBe, l
  <1>4. CASE p \notin c.names
    <2>1. CASE v[p] = r /\ \A i \in 1..Len(m) : p \notin m[i].names
      <3>1. \A i \in 1..Len(l) : p \notin l[i].names
        BY <1>1, <1>2, <1>4, <2>1
      <3>2. QED
        BY <1>4, <2>1, <3>1 DEF WillBe, l
    <2>2. CASE \E i \in 1..Len(m) : p \in m[i].names /\ m[i].to = r /\ \A j \in 1..Len(m) : j > i => p \notin m[j].names
      <3>1. \E i \in 1..Len(l) : p \in l[i].names /\ l[i].to = r /\ \A j \in 1..Len(l) : j > i => p \notin l[j].names
        BY <1>1, <1>2, <1>4, <2>2
      <3>2. QED
        BY <1>4, <3>1 DEF WillBe, l
    <2>3. QED
      BY <2>1, <2>2 DEF WillBe
  <1>5. QED
    BY <1>3, <1>4

LEMMA WillBeTaken ==
    ASSUME NEW m \in Seq(Changes), m # <<>>, NEW v \in Granting!Granted, NEW p \in Names, NEW r, WillBe(v, m, p, r)
    PROVE  WillBe(Granting!With(v, Head(m).names, Head(m).to), Tail(m), p, r)
  <1> DEFINE t == Tail(m)
             u == Granting!With(v, Head(m).names, Head(m).to)
  <1>1. /\ Head(m) = m[1] /\ Len(m) \in Nat /\ Len(m) >= 1 /\ Head(m) \in Changes
        /\ Len(t) = Len(m) - 1 /\ \A i \in 1..Len(m) - 1 : t[i] = m[i + 1]
    OBVIOUS
  <1>2. /\ 1 \in 1..Len(m)
        /\ \A i \in 1..Len(t) : i + 1 \in 1..Len(m) /\ t[i] = m[i + 1] /\ i + 1 > 1
        /\ \A i \in 1..Len(m) : i = 1 \/ (i - 1 \in 1..Len(t) /\ t[i - 1] = m[i])
    BY <1>1
  <1>3. u[p] = IF p \in m[1].names THEN m[1].to ELSE v[p]
    BY <1>1, Grants DEF Changes
  <1> HIDE DEF t, u
  <1>4. CASE v[p] = r /\ \A i \in 1..Len(m) : p \notin m[i].names
    <2>1. u[p] = r /\ \A i \in 1..Len(t) : p \notin t[i].names
      BY <1>2, <1>3, <1>4
    <2>2. QED
      BY <2>1 DEF WillBe, t, u
  <1>5. ASSUME NEW i \in 1..Len(m), p \in m[i].names, m[i].to = r, \A j \in 1..Len(m) : j > i => p \notin m[j].names
        PROVE  WillBe(u, t, p, r)
    <2>1. CASE i = 1
      <3>1. u[p] = r /\ \A j \in 1..Len(t) : p \notin t[j].names
        BY <1>2, <1>3, <1>5, <2>1
      <3>2. QED
        BY <3>1 DEF WillBe
    <2>2. CASE i # 1
      <3>1. i - 1 \in 1..Len(t) /\ t[i - 1] = m[i]
        BY <1>2, <2>2
      <3>2. \A j \in 1..Len(t) : j > i - 1 => p \notin t[j].names
        <4>1. TAKE j \in 1..Len(t)
        <4>2. j > i - 1 => j + 1 > i
          BY <1>1
        <4>3. QED
          BY <1>2, <1>5, <4>2
      <3>3. QED
        BY <1>5, <3>1, <3>2 DEF WillBe
    <2>3. QED
      BY <2>1, <2>2
  <1>6. QED
    BY <1>4, <1>5 DEF WillBe, t, u

LEMMA WildcardSets ==
    /\ \A s : Granting!WildcardsOf(s) \subseteq Granting!Wildcards
    /\ \A s, p : p \in Covered(s) <=> \E w \in Granting!WildcardsOf(s) : p \in w
  BY DEF Granting!WildcardsOf, Granting!Wildcards, Covered

\* The permissions ps, which the manager has with other requirements, become r.
LEMMA ReportStep ==
    ASSUME GrantInv, NEW ps \in SUBSET Names, NEW r \in 0..NRequirements, NEW g,
           g = Granting!With(perms, ps, r), \A p \in ps : perms[p] # r,
           Granting!Report(ps, r), UNCHANGED <<subs, phase, view>>
    PROVE  /\ told' \in [Granting!Wildcards -> Granting!Granted] /\ mail' \in [Readers -> Seq(Changes)]
           /\ g \in Granting!Granted /\ Subscribed'
           /\ ~erased => /\ \A w \in Granting!Wildcards : subs[w] # {} => told'[w] = Granting!Matching(g, w)
                         /\ \A s \in Readers : phase[s] = "in" =>
                               \A p \in Names : WillBe(view[s], mail'[s], p, IF p \in Covered(s) THEN g[p] ELSE 0)
  <1> DEFINE new(s) == UNION {Granting!New(w, ps, r) : w \in {u \in Granting!Wildcards : s \in subs[u]}}
             e(s) == [names |-> new(s), to |-> r]
  <1>1. /\ told' = [w \in Granting!Wildcards |-> Granting!With(told[w], Granting!New(w, ps, r), r)]
        /\ mail' = [s \in Readers |-> IF new(s) = {} THEN mail[s] ELSE Append(mail[s], e(s))]
    BY DEF Granting!Report
  <1>2. g \in Granting!Granted /\ \A p \in Names : g[p] = IF p \in ps THEN r ELSE perms[p]
    BY Grants DEF GrantInv, GrantTypes
  <1>3. \A w \in Granting!Wildcards : told'[w] \in Granting!Granted
    BY <1>1, Grants DEF GrantInv, GrantTypes
  <1>4. \A w \in Granting!Wildcards : Granting!New(w, ps, r) \subseteq Names
    BY DEF Granting!New
  <1>5. \A s \in Readers : e(s) \in Changes
    BY <1>4 DEF Changes
  <1>6. \A s \in Readers : mail'[s] = IF new(s) = {} THEN mail[s] ELSE Append(mail[s], e(s))
    BY <1>1
  <1>7. mail' \in [Readers -> Seq(Changes)]
    <2>1. ASSUME NEW s \in Readers
          PROVE  (IF new(s) = {} THEN mail[s] ELSE Append(mail[s], e(s))) \in Seq(Changes)
      <3>1. mail[s] \in Seq(Changes) /\ e(s) \in Changes
        BY <1>5 DEF GrantInv, GrantTypes
      <3> HIDE DEF e
      <3>2. QED
        BY <3>1
    <2>2. QED
      BY <1>1, <2>1
  <1>8. told' \in [Granting!Wildcards -> Granting!Granted]
    BY <1>1, <1>3
  <1>9. \A w \in Granting!Wildcards : subs[w] = {} => told'[w] = told[w]
    <2>1. TAKE w \in Granting!Wildcards
    <2>2. HAVE subs[w] = {}
    <2>3. told'[w] = Granting!With(told[w], {}, r) /\ told[w] \in Granting!Granted
      BY <1>1, <2>2 DEF Granting!New, GrantInv, GrantTypes
    <2>4. \A p \in Names : told'[w][p] = told[w][p]
      BY <2>3, Grants
    <2>5. QED
      BY <1>3, <2>3, <2>4, SameGrants
  <1>10. Subscribed'
    <2>1. ASSUME NEW s \in Readers, phase[s] = "idle"
          PROVE  mail'[s] = <<>>
      <3>1. \A w \in Granting!Wildcards : s \notin subs[w]
        BY <2>1 DEF GrantInv, Subscribed
      <3>2. new(s) = {}
        BY <3>1
      <3>3. QED
        BY <1>6, <2>1, <3>2 DEF GrantInv, Subscribed
    <2>2. QED
      BY <1>9, <2>1 DEF GrantInv, Subscribed
  <1>11. ASSUME ~erased
         PROVE  /\ \A w \in Granting!Wildcards : subs[w] # {} => told'[w] = Granting!Matching(g, w)
                /\ \A s \in Readers : phase[s] = "in" =>
                      \A p \in Names : WillBe(view[s], mail'[s], p, IF p \in Covered(s) THEN g[p] ELSE 0)
    <2>1. ToldAll(perms) /\ WillSee(perms) /\ Subscribed /\ GrantTypes
      BY <1>11 DEF GrantInv
    <2>2. ASSUME NEW w \in Granting!Wildcards, subs[w] # {}
          PROVE  told'[w] = Granting!Matching(g, w) /\ Granting!New(w, ps, r) = ps \cap w
      <3>1. told[w] \in Granting!Granted /\ \A p \in Names : told[w][p] = IF p \in w THEN perms[p] ELSE 0
        BY <2>1, <2>2, Grants DEF ToldAll, GrantTypes
      <3>2. Granting!New(w, ps, r) = ps \cap w
        BY <2>2, <3>1 DEF Granting!New
      <3>3. told'[w] = Granting!With(told[w], ps \cap w, r)
        BY <1>1, <3>2
      <3>4. \A p \in Names : told'[w][p] = IF p \in w THEN g[p] ELSE 0
        BY <1>2, <3>1, <3>3, Grants
      <3>5. \A p \in Names : told'[w][p] = Granting!Matching(g, w)[p]
        BY <1>2, <3>4, Grants
      <3>6. QED
        BY <1>2, <1>3, <3>2, <3>5, SameGrants, Grants
    <2>3. ASSUME NEW s \in Readers, phase[s] = "in", NEW p \in Names
          PROVE  WillBe(view[s], mail'[s], p, IF p \in Covered(s) THEN g[p] ELSE 0)
      <3>1. {u \in Granting!Wildcards : s \in subs[u]} = Granting!WildcardsOf(s)
        BY <2>1, <2>3, WildcardSets DEF Subscribed
      <3>2. \A w \in Granting!WildcardsOf(s) : w \in Granting!Wildcards /\ subs[w] # {}
        BY <3>1
      <3>3. p \in new(s) <=> p \in ps /\ p \in Covered(s)
        BY <2>2, <3>1, <3>2, WildcardSets
      <3>4. WillBe(view[s], mail[s], p, IF p \in Covered(s) THEN perms[p] ELSE 0)
        BY <2>1, <2>3 DEF WillSee
      <3>5. CASE new(s) = {}
        <4>1. mail'[s] = mail[s] /\ ~(p \in ps /\ p \in Covered(s))
          BY <1>6, <3>3, <3>5
        <4>2. (IF p \in Covered(s) THEN perms[p] ELSE 0) = IF p \in Covered(s) THEN g[p] ELSE 0
          BY <1>2, <4>1
        <4>3. QED
          BY <3>4, <4>1, <4>2
      <3>6. CASE new(s) # {}
        <4>1. mail'[s] = Append(mail[s], e(s)) /\ e(s) \in Changes /\ mail[s] \in Seq(Changes)
          BY <1>5, <1>6, <2>1, <3>6 DEF GrantTypes
        <4>2. e(s).names = new(s) /\ e(s).to = r
          OBVIOUS
        <4> HIDE DEF e, new
        <4>3. WillBe(view[s], Append(mail[s], e(s)), p,
                     IF p \in e(s).names THEN e(s).to ELSE IF p \in Covered(s) THEN perms[p] ELSE 0)
          BY <3>4, <4>1, WillBeAdded
        <4>4. (IF p \in e(s).names THEN e(s).to ELSE IF p \in Covered(s) THEN perms[p] ELSE 0)
              = IF p \in Covered(s) THEN g[p] ELSE 0
          BY <1>2, <3>3, <4>2
        <4>5. QED
          BY <4>1, <4>3, <4>4
      <3>7. QED
        BY <3>5, <3>6
    <2>4. QED
      BY <2>2, <2>3
  <1>12. QED
    BY <1>2, <1>7, <1>8, <1>10, <1>11

\* The database is asked to save or to remove what the manager has.
LEMMA AskStep ==
    ASSUME GrantInv, NEW g \in Granting!Granted, NEW h \in {"add", "set", "remove"},
           h = "remove" <=> g = Granting!NoneGranted, h = "add" <=> perms = Granting!NoneGranted,
           Granting!Ask(h, g)
    PROVE  /\ permissionsToDatabase' \in Seq(Saves)
           /\ ~erased => Requested(permissionsToDatabase', permissionsStored, g)
  <1> DEFINE c == [kind |-> h, perms |-> g]
  <1>1. permissionsToDatabase' = Append(permissionsToDatabase, c) /\ permissionsToDatabase \in Seq(Saves)
    BY DEF Granting!Ask, GrantInv, GrantTypes
  <1>2. c \in Saves /\ c.kind = h /\ c.perms = g
    BY DEF Saves
  <1> HIDE DEF c
  <1>3. File(perms) = Granting!Absent <=> perms = Granting!NoneGranted
    BY Grants DEF File, GrantInv, GrantTypes
  <1>4. File(g) = IF c.kind = "remove" THEN Granting!Absent ELSE c.perms
    BY <1>2 DEF File
  <1>5. ASSUME ~erased
        PROVE  Requested(permissionsToDatabase', permissionsStored, g)
    <2>1. Requested(permissionsToDatabase, permissionsStored, perms)
      BY <1>5 DEF GrantInv
    <2>2. c.kind = "add" <=> File(perms) = Granting!Absent
      BY <1>2, <1>3
    <2>3. QED
      BY <1>1, <1>2, <1>4, <2>1, <2>2, RequestedAdded
  <1>6. permissionsToDatabase' \in Seq(Saves)
    BY <1>1, <1>2
  <1>7. QED
    BY <1>5, <1>6

LEMMA AddPermissionsStep ==
    ASSUME GrantInv, NEW qs \in SUBSET Names, NEW r \in 1..NRequirements, Granting!AddPermissions(qs, r)
    PROVE  GrantInv'
  <1> DEFINE ps == {p \in qs : perms[p] # r}
             g == Granting!With(perms, ps, r)
  <1>1. /\ ps # {} /\ perms' = g /\ Granting!Report(ps, r)
        /\ Granting!Ask(IF permissionsInDatabase THEN "set" ELSE "add", perms') /\ permissionsInDatabase' = TRUE
        /\ UNCHANGED <<subs, permissionsStored, phase, view, erased>>
    BY DEF Granting!AddPermissions, Granting!Save, Granting!readerVars
  <1>2. ps \in SUBSET Names /\ (\A p \in ps : perms[p] # r) /\ r \in 0..NRequirements /\ r # 0
    OBVIOUS
  <1>3. GrantTypes
    BY DEF GrantInv
  <1>4. PICK p \in Names : p \in ps
    BY <1>1, <1>2
  <1> HIDE DEF ps
  <1>5. /\ told' \in [Granting!Wildcards -> Granting!Granted] /\ mail' \in [Readers -> Seq(Changes)]
        /\ g \in Granting!Granted /\ Subscribed'
        /\ ~erased => /\ \A w \in Granting!Wildcards : subs[w] # {} => told'[w] = Granting!Matching(g, w)
                      /\ \A s \in Readers : phase[s] = "in" =>
                            \A n \in Names : WillBe(view[s], mail'[s], n, IF n \in Covered(s) THEN g[n] ELSE 0)
    <2>1. UNCHANGED <<subs, phase, view>>
      BY <1>1
    <2>2. QED
      BY <1>1, <1>2, <2>1, ReportStep
  <1>6. g # Granting!NoneGranted
    <2>1. g[p] = r
      BY <1>2, <1>3, <1>4, Grants DEF GrantTypes
    <2>2. QED
      BY <1>2, <2>1, Grants
  <1> HIDE DEF g
  <1>7. /\ permissionsToDatabase' \in Seq(Saves)
        /\ ~erased => Requested(permissionsToDatabase', permissionsStored, g)
    <2> DEFINE h == IF permissionsInDatabase THEN "set" ELSE "add"
    <2>1. h \in {"add", "set", "remove"} /\ h # "remove" /\ (h = "add" <=> perms = Granting!NoneGranted)
      BY <1>3 DEF GrantInv, GrantTypes
    <2>2. Granting!Ask(h, g)
      BY <1>1
    <2> HIDE DEF h
    <2>3. QED
      BY <1>5, <1>6, <2>1, <2>2, AskStep
  <1>8. GrantTypes'
    BY <1>1, <1>3, <1>5, <1>7 DEF GrantTypes
  <1>9. permissionsInDatabase' <=> perms' # Granting!NoneGranted
    BY <1>1, <1>6
  <1>10. (~erased => Requested(permissionsToDatabase, permissionsStored, perms))'
    BY <1>1, <1>7
  <1>11. (~erased => ToldAll(perms) /\ WillSee(perms))'
    BY <1>1, <1>5 DEF ToldAll, WillSee
  <1>12. QED
    BY <1>5, <1>8, <1>9, <1>10, <1>11 DEF GrantInv

LEMMA RemovePermissionsStep ==
    ASSUME GrantInv, NEW qs \in SUBSET Names, Granting!RemovePermissions(qs)
    PROVE  GrantInv'
  <1> DEFINE ps == {p \in qs : perms[p] # 0}
             g == Granting!With(perms, ps, 0)
  <1>1. /\ ps # {} /\ perms' = g /\ Granting!Report(ps, 0)
        /\ UNCHANGED <<subs, permissionsStored, phase, view, erased>>
    BY DEF Granting!RemovePermissions, Granting!readerVars
  <1>2. ps \in SUBSET Names /\ (\A p \in ps : perms[p] # 0) /\ 0 \in 0..NRequirements
    BY LocalPartsAssumption DEF LocalPartsAssumption
  <1>3. GrantTypes
    BY DEF GrantInv
  <1>4. PICK p \in Names : p \in ps
    BY <1>1, <1>2
  <1>5. permissionsInDatabase = TRUE /\ perms # Granting!NoneGranted
    <2>1. perms # Granting!NoneGranted
      BY <1>2, <1>4, Grants
    <2>2. QED
      BY <1>3, <2>1 DEF GrantInv, GrantTypes
  <1>6. IF g # Granting!NoneGranted
        THEN Granting!Ask("set", g) /\ permissionsInDatabase' = TRUE
        ELSE Granting!Ask("remove", Granting!NoneGranted) /\ permissionsInDatabase' = FALSE
    BY <1>1, <1>5 DEF Granting!RemovePermissions, Granting!Save
  <1> HIDE DEF ps
  <1>7. /\ told' \in [Granting!Wildcards -> Granting!Granted] /\ mail' \in [Readers -> Seq(Changes)]
        /\ g \in Granting!Granted /\ Subscribed'
        /\ ~erased => /\ \A w \in Granting!Wildcards : subs[w] # {} => told'[w] = Granting!Matching(g, w)
                      /\ \A s \in Readers : phase[s] = "in" =>
                            \A n \in Names : WillBe(view[s], mail'[s], n, IF n \in Covered(s) THEN g[n] ELSE 0)
    <2>1. UNCHANGED <<subs, phase, view>>
      BY <1>1
    <2>2. QED
      BY <1>1, <1>2, <2>1, ReportStep
  <1> HIDE DEF g
  <1>8. /\ permissionsToDatabase' \in Seq(Saves)
        /\ ~erased => Requested(permissionsToDatabase', permissionsStored, g)
    <2> DEFINE h == IF g # Granting!NoneGranted THEN "set" ELSE "remove"
    <2>1. h \in {"add", "set", "remove"} /\ (h = "remove" <=> g = Granting!NoneGranted) /\ h # "add"
      OBVIOUS
    <2>2. Granting!Ask(h, g)
      BY <1>6
    <2> HIDE DEF h
    <2>3. QED
      BY <1>5, <1>7, <2>1, <2>2, AskStep
  <1>9. permissionsInDatabase' \in BOOLEAN /\ (permissionsInDatabase' <=> g # Granting!NoneGranted)
    BY <1>6
  <1>10. GrantTypes'
    BY <1>1, <1>3, <1>7, <1>8, <1>9 DEF GrantTypes
  <1>11. (~erased => Requested(permissionsToDatabase, permissionsStored, perms))'
    BY <1>1, <1>8
  <1>12. (~erased => ToldAll(perms) /\ WillSee(perms))'
    BY <1>1, <1>7 DEF ToldAll, WillSee
  <1>13. QED
    BY <1>1, <1>7, <1>9, <1>10, <1>11, <1>12 DEF GrantInv

LEMMA RemoveResumesStep ==
    ASSUME GrantInv, Granting!RemoveResumes
    PROVE  GrantInv'
  <1>1. /\ erased' = (erased \/ perms # Granting!NoneGranted)
        /\ perms' = Granting!NoneGranted /\ permissionsInDatabase' = FALSE
        /\ UNCHANGED <<subs, told, permissionsStored, permissionsToDatabase, phase, view, mail>>
    BY DEF Granting!RemoveResumes, Granting!readerVars
  <1>2. GrantTypes'
    BY <1>1, Grants DEF GrantInv, GrantTypes
  <1>3. Subscribed'
    BY <1>1 DEF GrantInv, Subscribed
  <1>4. CASE erased'
    BY <1>1, <1>2, <1>3, <1>4 DEF GrantInv
  <1>5. CASE ~erased'
    <2>1. ~erased /\ perms' = perms
      BY <1>1, <1>5
    <2>2. ToldAll(perms)' /\ WillSee(perms)'
      BY <1>1, <2>1 DEF GrantInv, ToldAll, WillSee
    <2>3. Requested(permissionsToDatabase, permissionsStored, perms)'
      BY <1>1, <2>1 DEF GrantInv
    <2>4. QED
      BY <1>1, <1>2, <1>3, <2>2, <2>3 DEF GrantInv
  <1>6. QED
    BY <1>4, <1>5

LEMMA DatabaseAnswersStep ==
    ASSUME GrantInv, Granting!DatabaseAnswers
    PROVE  GrantInv'
  <1> DEFINE c == Head(permissionsToDatabase)
  <1>1. /\ permissionsToDatabase # <<>> /\ permissionsToDatabase' = Tail(permissionsToDatabase)
        /\ permissionsStored' = IF Granting!Refused(c.kind) THEN permissionsStored
                                ELSE IF c.kind = "remove" THEN Granting!Absent ELSE c.perms
        /\ UNCHANGED <<perms, permissionsInDatabase, subs, told, phase, view, mail, erased>>
    BY DEF Granting!DatabaseAnswers, Granting!readerVars
  <1>2. permissionsToDatabase \in Seq(Saves) /\ GrantTypes
    BY DEF GrantInv, GrantTypes
  <1>3. c \in Saves /\ permissionsToDatabase' \in Seq(Saves)
    BY <1>1, <1>2
  <1>4. permissionsStored' = Granting!Absent \/ permissionsStored' \in Granting!Granted \ {Granting!NoneGranted}
    <2> HIDE DEF c
    <2>1. c.kind # "remove" => c.perms \in Granting!Granted \ {Granting!NoneGranted}
      BY <1>3 DEF Saves
    <2>2. QED
      BY <1>1, <1>2, <2>1 DEF GrantTypes
  <1>5. GrantTypes'
    BY <1>1, <1>2, <1>3, <1>4 DEF GrantTypes
  <1>6. Subscribed'
    BY <1>1 DEF GrantInv, Subscribed
  <1>7. ASSUME ~erased
        PROVE  Requested(permissionsToDatabase', permissionsStored', perms)
    <2>1. Requested(permissionsToDatabase, permissionsStored, perms)
      BY <1>7 DEF GrantInv
    <2>2. /\ c.kind = "add" <=> permissionsStored = Granting!Absent
          /\ Requested(Tail(permissionsToDatabase), IF c.kind = "remove" THEN Granting!Absent ELSE c.perms, perms)
      BY <1>1, <1>2, <2>1, RequestedTaken
    <2>3. ~Granting!Refused(c.kind)
      BY <2>2 DEF Granting!Refused
    <2>4. QED
      BY <1>1, <2>2, <2>3
  <1>8. (~erased => ToldAll(perms) /\ WillSee(perms))'
    BY <1>1 DEF GrantInv, ToldAll, WillSee
  <1>9. (~erased => Requested(permissionsToDatabase, permissionsStored, perms))'
    BY <1>1, <1>7
  <1>10. QED
    BY <1>1, <1>5, <1>6, <1>8, <1>9 DEF GrantInv

LEMMA SubscribeStep ==
    ASSUME GrantInv, NEW s \in Readers, Granting!Subscribe(s)
    PROVE  GrantInv'
  <1>0. /\ phase[s] = "idle" /\ phase' = [phase EXCEPT ![s] = "in"]
        /\ told' = [w \in Granting!Wildcards |-> IF w \in Granting!WildcardsOf(s) THEN Granting!ToldTo(w) ELSE told[w]]
        /\ subs' = [w \in Granting!Wildcards |-> IF w \in Granting!WildcardsOf(s) THEN subs[w] \cup {s} ELSE subs[w]]
        /\ UNCHANGED <<perms, permissionsInDatabase, permissionsStored, permissionsToDatabase, mail, erased>>
    BY DEF Granting!Subscribe, Granting!storeVars
  <1>1. PICK g \in Granting!Granted :
          /\ \A p \in Names : LET r == {told'[w][p] : w \in Granting!WildcardsOf(s)} \ {0} IN
                              g[p] \in IF r = {} THEN {0} ELSE r
          /\ view' = [view EXCEPT ![s] = g]
    BY DEF Granting!Subscribe
  <1>2. GrantTypes /\ Subscribed
    BY DEF GrantInv
  <1>3. \A w \in Granting!Wildcards : Granting!ToldTo(w) \in Granting!Granted
    BY <1>2, Grants DEF Granting!ToldTo, GrantTypes
  <1>4. told' \in [Granting!Wildcards -> Granting!Granted] /\ subs' \in [Granting!Wildcards -> SUBSET Readers]
    BY <1>0, <1>2, <1>3 DEF GrantTypes
  <1>5. GrantTypes'
    BY <1>0, <1>1, <1>2, <1>4 DEF GrantTypes
  <1>6. Subscribed'
    BY <1>0, <1>2 DEF GrantTypes, Subscribed
  <1>7. ASSUME ~erased
        PROVE  /\ \A w \in Granting!Wildcards : subs'[w] # {} => told'[w] = Granting!Matching(perms, w)
               /\ \A t \in Readers : phase'[t] = "in" =>
                     \A p \in Names : WillBe(view'[t], mail[t], p, IF p \in Covered(t) THEN perms[p] ELSE 0)
    <2>1. ToldAll(perms) /\ WillSee(perms)
      BY <1>7 DEF GrantInv
    <2>2. \A w \in Granting!WildcardsOf(s) : w \in Granting!Wildcards /\ told'[w] = Granting!Matching(perms, w)
      BY <1>0, <2>1, WildcardSets DEF ToldAll, Granting!ToldTo
    <2>3. \A w \in Granting!Wildcards : subs'[w] # {} => told'[w] = Granting!Matching(perms, w)
      BY <1>0, <2>1, <2>2 DEF ToldAll
    <2>4. ASSUME NEW p \in Names
          PROVE  g[p] = IF p \in Covered(s) THEN perms[p] ELSE 0
      <3>1. \A w \in Granting!WildcardsOf(s) : told'[w][p] = IF p \in w THEN perms[p] ELSE 0
        BY <1>2, <2>2, Grants DEF GrantTypes
      <3> DEFINE r == {told'[w][p] : w \in Granting!WildcardsOf(s)} \ {0}
      <3>2. g[p] \in IF r = {} THEN {0} ELSE r
        BY <1>1
      <3>3. CASE r = {}
        <4>1. \A w \in Granting!WildcardsOf(s) : told'[w][p] = 0
          BY <3>3
        <4>2. p \in Covered(s) => perms[p] = 0
          BY <3>1, <4>1, WildcardSets
        <4>3. QED
          BY <3>2, <3>3, <4>2
      <3>4. CASE r # {}
        <4>1. PICK w \in Granting!WildcardsOf(s) : g[p] = told'[w][p] /\ g[p] # 0
          BY <3>2, <3>4
        <4>2. g[p] = perms[p] /\ p \in w
          BY <3>1, <4>1
        <4>3. QED
          BY <4>1, <4>2, WildcardSets
      <3>5. QED
        BY <3>3, <3>4
    <2>5. ASSUME NEW t \in Readers, phase'[t] = "in", NEW p \in Names
          PROVE  WillBe(view'[t], mail[t], p, IF p \in Covered(t) THEN perms[p] ELSE 0)
      <3>1. CASE t = s
        <4>1. view'[t] = g /\ mail[t] = <<>>
          BY <1>0, <1>1, <1>2, <3>1 DEF GrantTypes, Subscribed
        <4>2. \A i \in 1..Len(mail[t]) : FALSE
          BY <4>1
        <4>3. QED
          BY <2>4, <3>1, <4>1, <4>2 DEF WillBe
      <3>2. CASE t # s
        <4>1. phase[t] = "in" /\ view'[t] = view[t]
          BY <1>0, <1>1, <1>2, <2>5, <3>2 DEF GrantTypes
        <4>2. QED
          BY <2>1, <4>1 DEF WillSee
      <3>3. QED
        BY <3>1, <3>2
    <2>6. QED
      BY <2>3, <2>5
  <1>8. (~erased => ToldAll(perms) /\ WillSee(perms))'
    BY <1>0, <1>7 DEF ToldAll, WillSee
  <1>9. QED
    BY <1>0, <1>5, <1>6, <1>8 DEF GrantInv

LEMMA DeliverStep ==
    ASSUME GrantInv, NEW s \in Readers, Granting!Deliver(s)
    PROVE  GrantInv'
  <1>1. /\ mail[s] # <<>> /\ mail' = [mail EXCEPT ![s] = Tail(mail[s])]
        /\ view' = IF phase[s] = "in"
                   THEN [view EXCEPT ![s] = Granting!With(view[s], Head(mail[s]).names, Head(mail[s]).to)]
                   ELSE view
        /\ UNCHANGED <<perms, permissionsInDatabase, subs, told, permissionsStored, permissionsToDatabase, phase, erased>>
    BY DEF Granting!Deliver, Granting!storeVars
  <1>2. GrantTypes /\ Subscribed
    BY DEF GrantInv
  <1>3. mail[s] \in Seq(Changes) /\ view[s] \in Granting!Granted
    BY <1>2 DEF GrantTypes
  <1>4. Tail(mail[s]) \in Seq(Changes) /\ Head(mail[s]) \in Changes
    BY <1>1, <1>3
  <1>5. Granting!With(view[s], Head(mail[s]).names, Head(mail[s]).to) \in Granting!Granted
    BY <1>3, <1>4, Grants DEF Changes
  <1>6. mail' \in [Readers -> Seq(Changes)] /\ view' \in [Readers -> Granting!Granted]
    BY <1>1, <1>2, <1>4, <1>5 DEF GrantTypes
  <1>7. GrantTypes'
    BY <1>1, <1>2, <1>6 DEF GrantTypes
  <1>8. Subscribed'
    BY <1>1, <1>2 DEF GrantTypes, Subscribed
  <1>9. ASSUME ~erased, NEW t \in Readers, phase[t] = "in", NEW p \in Names
        PROVE  WillBe(view'[t], mail'[t], p, IF p \in Covered(t) THEN perms[p] ELSE 0)
    <2>1. WillBe(view[t], mail[t], p, IF p \in Covered(t) THEN perms[p] ELSE 0)
      BY <1>9 DEF GrantInv, WillSee
    <2>2. CASE t = s
      <3>1. view'[t] = Granting!With(view[s], Head(mail[s]).names, Head(mail[s]).to) /\ mail'[t] = Tail(mail[s])
        BY <1>1, <1>2, <1>9, <2>2 DEF GrantTypes
      <3>2. QED
        BY <1>1, <1>3, <2>1, <2>2, <3>1, WillBeTaken
    <2>3. CASE t # s
      <3>1. view'[t] = view[t] /\ mail'[t] = mail[t]
        BY <1>1, <1>2, <2>3 DEF GrantTypes
      <3>2. QED
        BY <2>1, <3>1
    <2>4. QED
      BY <2>2, <2>3
  <1>10. (~erased => ToldAll(perms) /\ WillSee(perms))'
    BY <1>1, <1>9 DEF GrantInv, ToldAll, WillSee
  <1>11. (~erased => Requested(permissionsToDatabase, permissionsStored, perms))'
    BY <1>1 DEF GrantInv
  <1>12. QED
    BY <1>1, <1>7, <1>8, <1>10, <1>11 DEF GrantInv

LEMMA ClearStep ==
    ASSUME GrantInv, NEW s \in Readers, Granting!Clear(s)
    PROVE  GrantInv'
  <1>1. /\ phase[s] = "in" /\ phase' = [phase EXCEPT ![s] = "dropped"]
        /\ view' = [view EXCEPT ![s] = Granting!NoneGranted]
        /\ UNCHANGED <<perms, permissionsInDatabase, subs, told, permissionsStored, permissionsToDatabase, mail, erased>>
    BY DEF Granting!Clear, Granting!storeVars
  <1>2. GrantTypes'
    BY <1>1, Grants DEF GrantInv, GrantTypes
  <1>3. Subscribed'
    BY <1>1 DEF GrantInv, GrantTypes, Subscribed
  <1>4. (~erased => ToldAll(perms) /\ WillSee(perms))'
    BY <1>1 DEF GrantInv, GrantTypes, ToldAll, WillSee
  <1>5. (~erased => Requested(permissionsToDatabase, permissionsStored, perms))'
    BY <1>1 DEF GrantInv
  <1>6. QED
    BY <1>1, <1>2, <1>3, <1>4, <1>5 DEF GrantInv

LEMMA UnsubscribeStep ==
    ASSUME GrantInv, NEW s \in Readers, Granting!Unsubscribe(s)
    PROVE  GrantInv'
  <1>1. /\ phase[s] = "dropped" /\ phase' = [phase EXCEPT ![s] = "gone"]
        /\ subs' = [w \in Granting!Wildcards |-> subs[w] \ {s}]
        /\ told' = [w \in Granting!Wildcards |-> IF subs'[w] = {} THEN Granting!NoneGranted ELSE told[w]]
        /\ UNCHANGED <<perms, permissionsInDatabase, permissionsStored, permissionsToDatabase, view, mail, erased>>
    BY DEF Granting!Unsubscribe, Granting!storeVars
  <1>2. GrantTypes'
    BY <1>1, Grants DEF GrantInv, GrantTypes
  <1>3. Subscribed'
    BY <1>1 DEF GrantInv, GrantTypes, Subscribed
  <1>4. (~erased => ToldAll(perms) /\ WillSee(perms))'
    BY <1>1 DEF GrantInv, GrantTypes, ToldAll, WillSee
  <1>5. (~erased => Requested(permissionsToDatabase, permissionsStored, perms))'
    BY <1>1 DEF GrantInv
  <1>6. QED
    BY <1>1, <1>2, <1>3, <1>4, <1>5 DEF GrantInv

\* The manager starts with what is stored.
LEMMA StartStep ==
    ASSUME NEW f, NEW g, f = Granting!Absent \/ f \in Granting!Granted \ {Granting!NoneGranted},
           g = IF f = Granting!Absent THEN Granting!NoneGranted ELSE f
    PROVE  g \in Granting!Granted /\ Requested(<<>>, f, g) /\ (f # Granting!Absent <=> g # Granting!NoneGranted)
  <1>1. Before(<<>>, f, 1) = f /\ Len(<<>>) + 1 = 1 /\ \A i \in 1..Len(<<>>) : FALSE
    BY DEF Before
  <1>2. g \in Granting!Granted /\ (f # Granting!Absent <=> g # Granting!NoneGranted) /\ File(g) = f
    BY Grants DEF File
  <1>3. QED
    BY <1>1, <1>2 DEF Requested

LEMMA RestartStep ==
    ASSUME GrantInv, Granting!Restart
    PROVE  GrantInv'
  <1>1. /\ perms' = IF permissionsStored = Granting!Absent THEN Granting!NoneGranted ELSE permissionsStored
        /\ permissionsInDatabase' = (permissionsStored # Granting!Absent)
        /\ subs' = [w \in Granting!Wildcards |-> {}] /\ told' = [w \in Granting!Wildcards |-> Granting!NoneGranted]
        /\ permissionsToDatabase' = <<>> /\ phase' = [s \in Readers |-> "idle"]
        /\ view' = [s \in Readers |-> Granting!NoneGranted] /\ mail' = [s \in Readers |-> <<>>]
        /\ erased' = FALSE /\ permissionsStored' = permissionsStored
    BY DEF Granting!Restart
  <1>2. /\ perms' \in Granting!Granted /\ Requested(<<>>, permissionsStored, perms')
        /\ permissionsStored # Granting!Absent <=> perms' # Granting!NoneGranted
    BY <1>1, StartStep DEF GrantInv, GrantTypes
  <1>3. <<>> \in Seq(Changes) /\ <<>> \in Seq(Saves)
    OBVIOUS
  <1>4. GrantTypes'
    BY <1>1, <1>2, <1>3, Grants DEF GrantInv, GrantTypes
  <1>5. Subscribed' /\ ToldAll(perms)' /\ WillSee(perms)'
    BY <1>1 DEF Subscribed, ToldAll, WillSee
  <1>6. Requested(permissionsToDatabase, permissionsStored, perms)'
    BY <1>1, <1>2
  <1>7. QED
    BY <1>1, <1>2, <1>4, <1>5, <1>6 DEF GrantInv

THEOREM GrantInvariance == Spec => []GrantInv
  <1>1. Init => GrantInv
    <2>1. SUFFICES ASSUME Init PROVE GrantInv
      OBVIOUS
    <2>2. /\ perms = Granting!NoneGranted /\ permissionsInDatabase = FALSE
          /\ subs = [w \in Granting!Wildcards |-> {}] /\ told = [w \in Granting!Wildcards |-> Granting!NoneGranted]
          /\ permissionsStored = Granting!Absent /\ permissionsToDatabase = <<>>
          /\ phase = [s \in Readers |-> "idle"]
          /\ view = [s \in Readers |-> Granting!NoneGranted] /\ mail = [s \in Readers |-> <<>>] /\ erased = FALSE
      BY <2>1 DEF Init, Granting!Init
    <2>3. Requested(permissionsToDatabase, permissionsStored, perms)
      BY <2>2, StartStep
    <2>4. <<>> \in Seq(Changes) /\ <<>> \in Seq(Saves)
      OBVIOUS
    <2>5. GrantTypes
      BY <2>2, <2>4, Grants DEF GrantTypes
    <2>6. Subscribed /\ ToldAll(perms) /\ WillSee(perms)
      BY <2>2 DEF Subscribed, ToldAll, WillSee
    <2>7. QED
      BY <2>2, <2>3, <2>5, <2>6 DEF GrantInv
  <1>2. GrantInv /\ [Next]_vars => GrantInv'
    <2>1. SUFFICES ASSUME GrantInv, [Next]_vars PROVE GrantInv'
      OBVIOUS
    <2>2. Granting!Next \/ UNCHANGED grantingVars
      BY <2>1 DEF Next, Only, vars
    <2>3. CASE Granting!Next
      <3>1. CASE Granting!Progress
        BY <2>1, <3>1, RemoveResumesStep, DatabaseAnswersStep, DeliverStep, UnsubscribeStep DEF Granting!Progress
      <3>2. CASE Granting!Restart
        BY <2>1, <3>2, RestartStep
      <3>3. ASSUME NEW qs \in SUBSET Names,
                   Granting!RemovePermissions(qs) \/ \E r \in 1..NRequirements : Granting!AddPermissions(qs, r)
            PROVE  GrantInv'
        BY <2>1, <3>3, RemovePermissionsStep, AddPermissionsStep
      <3>4. ASSUME NEW s \in Readers, Granting!Subscribe(s) \/ Granting!Clear(s)
            PROVE  GrantInv'
        BY <2>1, <3>4, SubscribeStep, ClearStep
      <3>5. QED
        BY <2>3, <3>1, <3>2, <3>3, <3>4 DEF Granting!Next
    <2>4. CASE UNCHANGED grantingVars
      <3>1. UNCHANGED <<perms, permissionsInDatabase, subs, told, permissionsStored, permissionsToDatabase,
                        phase, view, mail, erased>>
        BY <2>4 DEF grantingVars
      <3>2. GrantTypes' /\ Subscribed'
        BY <2>1, <3>1 DEF GrantInv, GrantTypes, Subscribed
      <3>3. (~erased => Requested(permissionsToDatabase, permissionsStored, perms) /\ ToldAll(perms) /\ WillSee(perms))'
        BY <2>1, <3>1 DEF GrantInv, ToldAll, WillSee
      <3>4. QED
        BY <2>1, <3>1, <3>2, <3>3 DEF GrantInv
    <2>5. QED
      BY <2>2, <2>3, <2>4
  <1>3. QED
    BY <1>1, <1>2, PTL DEF Spec

\* A subscriber that has handled its messages has what its wildcards match, and the
\* database holds what is granted once it has done what it was asked for, unless an
\* entry was removed with permissions given meanwhile (DistributedTrust_HostPermissions.cpp).
THEOREM PermissionsArrive == Spec => []PermissionsFollow
  <1>1. GrantInv => PermissionsFollow
    <2>1. SUFFICES ASSUME GrantInv, ~erased
                   PROVE  /\ \A s \in Readers : phase[s] = "in" /\ mail[s] = <<>> =>
                                view[s] = Granting!Matching(perms, Covered(s))
                          /\ permissionsToDatabase # <<>> => ~Granting!Refused(Head(permissionsToDatabase).kind)
                          /\ permissionsToDatabase = <<>> =>
                                /\ perms = IF permissionsStored = Granting!Absent THEN Granting!NoneGranted
                                           ELSE permissionsStored
                                /\ permissionsInDatabase = (permissionsStored # Granting!Absent)
      BY DEF PermissionsFollow, Granting!PermissionsFollow, Covered
    <2>2. GrantTypes /\ Requested(permissionsToDatabase, permissionsStored, perms) /\ WillSee(perms)
      BY <2>1 DEF GrantInv
    <2>3. ASSUME NEW s \in Readers, phase[s] = "in", mail[s] = <<>>
          PROVE  view[s] = Granting!Matching(perms, Covered(s))
      <3>1. \A i \in 1..Len(mail[s]) : FALSE
        BY <2>3
      <3>2. \A p \in Names : view[s][p] = IF p \in Covered(s) THEN perms[p] ELSE 0
        BY <2>2, <2>3, <3>1 DEF WillSee, WillBe
      <3>3. \A p \in Names : view[s][p] = Granting!Matching(perms, Covered(s))[p]
        BY <2>2, <3>2, Grants DEF GrantTypes
      <3>4. view[s] \in Granting!Granted /\ Granting!Matching(perms, Covered(s)) \in Granting!Granted
        BY <2>2, Grants DEF GrantTypes
      <3>5. QED
        BY <3>3, <3>4, SameGrants
    <2>4. permissionsToDatabase # <<>> => ~Granting!Refused(Head(permissionsToDatabase).kind)
      BY <2>2, RequestedTaken DEF GrantTypes, Granting!Refused
    <2>5. ASSUME permissionsToDatabase = <<>>
          PROVE  permissionsStored = File(perms)
      BY <2>2, <2>5 DEF Requested, Before
    <2>6. ASSUME permissionsToDatabase = <<>>
          PROVE  /\ perms = IF permissionsStored = Granting!Absent THEN Granting!NoneGranted ELSE permissionsStored
                 /\ permissionsInDatabase = (permissionsStored # Granting!Absent)
      <3>1. permissionsStored = Granting!Absent <=> perms = Granting!NoneGranted
        BY <2>2, <2>5, <2>6, Grants DEF File, GrantTypes
      <3>2. permissionsInDatabase = (permissionsStored # Granting!Absent)
        BY <2>1, <2>2, <3>1 DEF GrantInv, GrantTypes
      <3>3. QED
        BY <2>5, <2>6, <3>1, <3>2 DEF File
    <2>7. QED
      BY <2>3, <2>4, <2>6
  <1>2. QED
    BY <1>1, GrantInvariance, PTL
====
