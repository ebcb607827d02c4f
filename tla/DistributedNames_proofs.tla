----------------------- MODULE DistributedNames_proofs -----------------------
(***************************************************************************)
(* Proofs about the part "trust" of MCDistributedParts: the entry of a      *)
(* namespace of trusted actors, its subscribers, the notes about actors and *)
(* the messages of its subscription, and the hosts in the database.         *)
(***************************************************************************)
EXTENDS MCDistributedParts, Integers, Sequences, FiniteSetTheorems, TLAPS

TypeIds == {1, 2}
TypeStates ==
    [mapped : SUBSET Hosts, actors : SUBSET Hosts, trusted : SUBSET Hosts, subs : SUBSET TrustSubscribers]
TypeMaps == UNION {[D -> TypeStates] : D \in SUBSET TypeIds}
NsEntry ==
    [allowed : SUBSET Hosts, inDatabase : BOOLEAN, nSubscriptions : Nat, subscribing : BOOLEAN,
     subscription : BOOLEAN, sequence : Nat, onSubscribe : SUBSET TrustSubscribers, types : TypeMaps]
Actions == [kind : {"new", "removed", "first"}, host : Hosts, sequence : Nat \ {0}]
DistNote == Actions \cup {[kind |-> "subscribed"]}
Kinds == {"new", "removed", "first", "subscribed"}
Message == {"subscribe", "reported", "unsubscribe"}
Question == [kind : {"add", "set", "remove"}, hosts : SUBSET Hosts]
Phases == {"idle", "subscribing", "waiting", "given", "live", "dropped", "gone"}

NsTypes ==
    /\ offered \in SUBSET Hosts /\ IsFiniteSet(offered)
    /\ instance \in Nat /\ reporting \in Nat /\ counter \in Nat /\ resumes \in Nat
    /\ toDist \in Seq(Message) /\ distNotes \in Seq(DistNote)
    /\ exists \in BOOLEAN /\ ns \in NsEntry /\ erased \in BOOLEAN
    /\ stored \in SUBSET Hosts /\ toDatabase \in Seq(Question)
    /\ phase \in [TrustSubscribers -> Phases] /\ IsFiniteSet(Trusted!Counted)

Count(q, m) == Cardinality({i \in 1..Len(q) : q[i] = m})
KindCount(q, k) == Cardinality({i \in 1..Len(q) : q[i].kind = k})
One(c) == IF c THEN 1 ELSE 0

\* A note about an actor, and one of the present subscription about the actor of h.
Effective(i) == i \in 1..Len(distNotes) /\ distNotes[i].kind # "subscribed"
About(i, h) == Effective(i) /\ distNotes[i].host = h /\ distNotes[i].sequence = counter

Clean(h) == \A t \in DOMAIN ns.types : h \in ns.types[t].mapped => h \in ns.types[t].actors
NoneMapped == \A t \in DOMAIN ns.types : ns.types[t].mapped = {}
OnItsWay(m) == \E i \in 1..Len(toDist) : toDist[i] = m

\* The first subscription waits for one thing.
Answered ==
    /\ reporting = KindCount(distNotes, "first") + Count(toDist, "reported")
    /\ Count(toDist, "subscribe") + KindCount(distNotes, "subscribed") + One(reporting > 0)
          = One(ns.subscribing)

Participants ==
    /\ ns.nSubscriptions = Cardinality(Trusted!Counted)
    /\ Trusted!Counted # {} => exists
    /\ exists \/ ns = Trusted!NewEntry
    /\ Trusted!SubscribersAreIn
    /\ \A s \in ns.onSubscribe \cup dispatched : s \in TrustSubscribers /\ phase[s] = "waiting"
    /\ dispatched # {} => ns.subscription
    /\ ns.subscribing => ~ns.subscription /\ \E s \in TrustSubscribers : phase[s] = "subscribing"
    /\ ns.onSubscribe # {} => ns.subscribing
    /\ DOMAIN ns.types # {} => Trusted!Watching

\* Notes and messages of an earlier subscription come before those of the present one.
InRound ==
    /\ Trusted!Watching => ns.sequence = counter /\ counter > 0
    /\ Trusted!Watching /\ ~OnItsWay("subscribe") => instance = counter
    /\ instance <= counter
    /\ OnItsWay("subscribe") => instance < counter
    /\ \A i, j \in 1..Len(toDist) : toDist[i] = "subscribe" /\ toDist[j] = "unsubscribe" => j < i
    /\ OnItsWay("unsubscribe") /\ Trusted!Watching => OnItsWay("subscribe")
Noted ==
    /\ \A i \in 1..Len(distNotes) : Effective(i) =>
          /\ distNotes[i].sequence <= counter
          /\ instance # 0 => distNotes[i].sequence <= instance
          /\ \A j \in 1..Len(distNotes) :
                Effective(j) /\ i < j => distNotes[i].sequence <= distNotes[j].sequence
          /\ OnItsWay("subscribe") => distNotes[i].sequence < counter
Fresh ==
    \/ instance # counter
    \/ \E i \in 1..Len(distNotes) : Effective(i) /\ distNotes[i].sequence < counter
    \/ OnItsWay("unsubscribe")
    => NoneMapped

\* Of each actor additions and removals take turns, and end with what is published.
Turns ==
    /\ \A h \in Hosts : \A i \in 1..Len(distNotes) :
          About(i, h) /\ distNotes[i].kind = "removed" /\ (\A j \in 1..Len(distNotes) : j < i => ~About(j, h))
          => Clean(h)
    /\ \A h \in Hosts : \A i, j \in 1..Len(distNotes) :
          i < j /\ About(i, h) /\ About(j, h) /\ distNotes[i].kind = "removed" /\ distNotes[j].kind = "removed"
          => \E k \in 1..Len(distNotes) : i < k /\ k < j /\ About(k, h) /\ distNotes[k].kind # "removed"
    /\ instance = counter => \A h \in offered :
          \/ (\A i \in 1..Len(distNotes) : ~About(i, h)) /\ Clean(h)
          \/ \E i \in 1..Len(distNotes) :
                About(i, h) /\ distNotes[i].kind # "removed" /\ \A j \in 1..Len(distNotes) : j > i => ~About(j, h)

Before(i) == IF i = 1 THEN stored ELSE toDatabase[i - 1].hosts
InDatabase ==
    /\ ns.inDatabase <=> ns.allowed # {}
    /\ ~erased =>
          /\ \A i \in 1..Len(toDatabase) : toDatabase[i].kind = "add" <=> Before(i) = {}
          /\ Before(Len(toDatabase) + 1) = ns.allowed

NsInv == NsTypes /\ Answered /\ Participants /\ InRound /\ Noted /\ Fresh /\ Turns /\ InDatabase

----------------------------------------------------------------------------
(* Counting.                                                               *)

LEMMA SameCount == ASSUME NEW S PROVE Trusted!Cardinality(S) = Cardinality(S)
  BY Zenon DEF Trusted!Cardinality, Cardinality

LEMMA Indices ==
    ASSUME NEW n \in Nat, NEW P \in SUBSET (1..n)
    PROVE  IsFiniteSet(P) /\ Cardinality(P) \in Nat
  <1>1. IsFiniteSet(1..n)
    BY FS_Interval
  <1>2. IsFiniteSet(P)
    BY <1>1, FS_Subset
  <1>3. QED
    BY <1>2, FS_CardinalityType

\* A set of indices and one more, and one moved by one.
LEMMA IndexMore ==
    ASSUME NEW n \in Nat, NEW P \in SUBSET (1..n), NEW R \in SUBSET (1..(n + 1)), R \ {n + 1} = P
    PROVE  /\ Cardinality(P) \in Nat /\ Cardinality(R) \in Nat
           /\ Cardinality(R) = Cardinality(P) + One(n + 1 \in R)
  <1>1. IsFiniteSet(P)
    BY Indices
  <1>2. n + 1 \notin P
    OBVIOUS
  <1>3. CASE n + 1 \in R
    <2>1. R = P \cup {n + 1}
      BY <1>3
    <2>2. QED
      BY <1>1, <1>2, <1>3, <2>1, FS_AddElement, FS_CardinalityType DEF One
  <1>4. CASE n + 1 \notin R
    <2>1. R = P
      BY <1>4
    <2>2. QED
      BY <1>1, <1>4, <2>1, FS_CardinalityType DEF One
  <1>5. QED
    BY <1>3, <1>4

LEMMA IndexMoved ==
    ASSUME NEW n \in Nat, NEW P \in SUBSET (1..(n + 1)), NEW R \in SUBSET (1..n),
           \A i \in 1..n : i \in R <=> i + 1 \in P
    PROVE  /\ Cardinality(P) \in Nat /\ Cardinality(R) \in Nat
           /\ Cardinality(P) = Cardinality(R) + One(1 \in P)
  <1> DEFINE Q == P \ {1}
  <1>1. IsFiniteSet(P) /\ IsFiniteSet(Q) /\ IsFiniteSet(R)
    <2>1. n + 1 \in Nat /\ Q \in SUBSET (1..(n + 1))
      OBVIOUS
    <2>2. QED
      BY <2>1, Indices
  <1>2. Cardinality(Q) = Cardinality(R)
    <2> DEFINE f == [i \in R |-> i + 1]
    <2>1. f \in Bijection(R, Q)
      <3>1. f \in [R -> Q]
        OBVIOUS
      <3>2. \A i, j \in R : f[i] = f[j] => i = j
        OBVIOUS
      <3>3. \A p \in Q : \E i \in R : f[i] = p
        <4>1. SUFFICES ASSUME NEW p \in Q PROVE \E i \in R : f[i] = p
          OBVIOUS
        <4>2. p - 1 \in 1..n /\ (p - 1) + 1 = p
          BY <4>1
        <4>3. p - 1 \in R
          BY <4>1, <4>2
        <4>4. QED
          BY <4>2, <4>3
      <3>4. QED
        BY <3>1, <3>2, <3>3 DEF Bijection, Injection, Surjection, IsInjective
    <2>2. ExistsBijection(R, Q)
      BY <2>1 DEF ExistsBijection
    <2>3. QED
      BY <1>1, <2>2, FS_Bijection
  <1>3. CASE 1 \in P
    <2>1. P = Q \cup {1} /\ 1 \notin Q
      BY <1>3
    <2>2. QED
      BY <1>1, <1>2, <1>3, <2>1, FS_AddElement, FS_CardinalityType DEF One
  <1>4. CASE 1 \notin P
    <2>1. P = Q
      BY <1>4
    <2>2. Cardinality(P) = Cardinality(R)
      BY <1>2, <2>1
    <2>3. Cardinality(P) \in Nat /\ Cardinality(R) \in Nat
      BY <1>1, FS_CardinalityType
    <2>4. QED
      BY <1>4, <2>2, <2>3 DEF One
  <1>5. QED
    BY <1>3, <1>4

LEMMA CountMore ==
    ASSUME NEW q \in Seq(Message), NEW x \in Message, NEW r, r = Append(q, x), NEW m \in Message
    PROVE  /\ Count(q, m) \in Nat /\ Count(r, m) \in Nat
           /\ x = m => Count(r, m) = Count(q, m) + 1
           /\ x # m => Count(r, m) = Count(q, m)
  <1> DEFINE P == {i \in 1..Len(q) : q[i] = m}
             R == {i \in 1..Len(r) : r[i] = m}
  <1>1. /\ Len(q) \in Nat /\ Len(r) = Len(q) + 1 /\ r[Len(q) + 1] = x
        /\ \A i \in 1..Len(q) : r[i] = q[i]
    OBVIOUS
  <1>2. P \in SUBSET (1..Len(q)) /\ R \in SUBSET (1..(Len(q) + 1)) /\ R \ {Len(q) + 1} = P
    BY <1>1
  <1>3. Len(q) + 1 \in R <=> x = m
    BY <1>1
  <1> HIDE DEF P, R
  <1>4. /\ Cardinality(P) \in Nat /\ Cardinality(R) \in Nat
        /\ Cardinality(R) = Cardinality(P) + One(Len(q) + 1 \in R)
    BY <1>1, <1>2, IndexMore
  <1>5. /\ x = m => Cardinality(R) = Cardinality(P) + 1
        /\ x # m => Cardinality(R) = Cardinality(P)
    BY <1>3, <1>4 DEF One
  <1>6. QED
    BY <1>4, <1>5 DEF Count, P, R

LEMMA CountLess ==
    ASSUME NEW q \in Seq(Message), q # <<>>, NEW r, r = Tail(q), NEW m \in Message
    PROVE  /\ Count(q, m) \in Nat /\ Count(r, m) \in Nat
           /\ Head(q) = m => Count(q, m) = Count(r, m) + 1
           /\ Head(q) # m => Count(q, m) = Count(r, m)
  <1> DEFINE P == {i \in 1..Len(q) : q[i] = m}
             R == {i \in 1..Len(r) : r[i] = m}
  <1>1. PICK n \in Nat : n = Len(r)
    OBVIOUS
  <1>2. /\ Len(q) = n + 1 /\ Head(q) = q[1] /\ \A i \in 1..n : r[i] = q[i + 1]
    <2>1. Len(q) \in Nat /\ Len(q) # 0 /\ Len(r) = Len(q) - 1 /\ Head(q) = q[1]
      OBVIOUS
    <2>2. \A i \in 1..Len(r) : r[i] = q[i + 1]
      OBVIOUS
    <2>3. QED
      BY <1>1, <2>1, <2>2
  <1>3. P \in SUBSET (1..(n + 1)) /\ R \in SUBSET (1..n)
    BY <1>1, <1>2
  <1>4. \A i \in 1..n : i \in R <=> i + 1 \in P
    BY <1>1, <1>2
  <1>5. 1 \in P <=> Head(q) = m
    BY <1>1, <1>2
  <1> HIDE DEF P, R
  <1>6. /\ Cardinality(P) \in Nat /\ Cardinality(R) \in Nat
        /\ Cardinality(P) = Cardinality(R) + One(1 \in P)
    BY <1>3, <1>4, IndexMoved
  <1>7. /\ Head(q) = m => Cardinality(P) = Cardinality(R) + 1
        /\ Head(q) # m => Cardinality(P) = Cardinality(R)
    BY <1>5, <1>6 DEF One
  <1>8. QED
    BY <1>6, <1>7 DEF Count, P, R

LEMMA CountNone ==
    ASSUME NEW q \in Seq(Message), NEW m \in Message
    PROVE  /\ Count(q, m) \in Nat
           /\ Count(q, m) = 0 <=> \A i \in 1..Len(q) : q[i] # m
  <1> DEFINE P == {i \in 1..Len(q) : q[i] = m}
  <1>1. IsFiniteSet(P) /\ Cardinality(P) \in Nat
    <2>1. Len(q) \in Nat /\ P \in SUBSET (1..Len(q))
      OBVIOUS
    <2> HIDE DEF P
    <2>2. QED
      BY <2>1, Indices
  <1>2. Cardinality(P) = 0 <=> P = {}
    BY <1>1, FS_EmptySet
  <1>3. P = {} <=> \A i \in 1..Len(q) : q[i] # m
    OBVIOUS
  <1>4. QED
    BY <1>1, <1>2, <1>3 DEF Count

\* The same of the kinds of notes.
LEMMA KindMore ==
    ASSUME NEW q \in Seq(DistNote), NEW x \in DistNote, NEW r, r = Append(q, x), NEW k \in Kinds
    PROVE  /\ KindCount(q, k) \in Nat /\ KindCount(r, k) \in Nat
           /\ x.kind = k => KindCount(r, k) = KindCount(q, k) + 1
           /\ x.kind # k => KindCount(r, k) = KindCount(q, k)
  <1> DEFINE P == {i \in 1..Len(q) : q[i].kind = k}
             R == {i \in 1..Len(r) : r[i].kind = k}
  <1>1. /\ Len(q) \in Nat /\ Len(r) = Len(q) + 1 /\ r[Len(q) + 1] = x
        /\ \A i \in 1..Len(q) : r[i] = q[i]
    OBVIOUS
  <1>2. P \in SUBSET (1..Len(q)) /\ R \in SUBSET (1..(Len(q) + 1)) /\ R \ {Len(q) + 1} = P
    BY <1>1
  <1>3. Len(q) + 1 \in R <=> x.kind = k
    BY <1>1
  <1> HIDE DEF P, R
  <1>4. /\ Cardinality(P) \in Nat /\ Cardinality(R) \in Nat
        /\ Cardinality(R) = Cardinality(P) + One(Len(q) + 1 \in R)
    BY <1>1, <1>2, IndexMore
  <1>5. /\ x.kind = k => Cardinality(R) = Cardinality(P) + 1
        /\ x.kind # k => Cardinality(R) = Cardinality(P)
    BY <1>3, <1>4 DEF One
  <1>6. QED
    BY <1>4, <1>5 DEF KindCount, P, R

LEMMA KindLess ==
    ASSUME NEW q \in Seq(DistNote), q # <<>>, NEW r, r = Tail(q), NEW k \in Kinds
    PROVE  /\ KindCount(q, k) \in Nat /\ KindCount(r, k) \in Nat
           /\ Head(q).kind = k => KindCount(q, k) = KindCount(r, k) + 1
           /\ Head(q).kind # k => KindCount(q, k) = KindCount(r, k)
  <1> DEFINE P == {i \in 1..Len(q) : q[i].kind = k}
             R == {i \in 1..Len(r) : r[i].kind = k}
  <1>1. PICK n \in Nat : n = Len(r)
    OBVIOUS
  <1>2. /\ Len(q) = n + 1 /\ Head(q) = q[1] /\ \A i \in 1..n : r[i] = q[i + 1]
    <2>1. Len(q) \in Nat /\ Len(q) # 0 /\ Len(r) = Len(q) - 1 /\ Head(q) = q[1]
      OBVIOUS
    <2>2. \A i \in 1..Len(r) : r[i] = q[i + 1]
      OBVIOUS
    <2>3. QED
      BY <1>1, <2>1, <2>2
  <1>3. P \in SUBSET (1..(n + 1)) /\ R \in SUBSET (1..n)
    BY <1>1, <1>2
  <1>4. \A i \in 1..n : i \in R <=> i + 1 \in P
    BY <1>1, <1>2
  <1>5. 1 \in P <=> Head(q).kind = k
    BY <1>1, <1>2
  <1> HIDE DEF P, R
  <1>6. /\ Cardinality(P) \in Nat /\ Cardinality(R) \in Nat
        /\ Cardinality(P) = Cardinality(R) + One(1 \in P)
    BY <1>3, <1>4, IndexMoved
  <1>7. /\ Head(q).kind = k => Cardinality(P) = Cardinality(R) + 1
        /\ Head(q).kind # k => Cardinality(P) = Cardinality(R)
    BY <1>5, <1>6 DEF One
  <1>8. QED
    BY <1>6, <1>7 DEF KindCount, P, R

LEMMA KindNone ==
    ASSUME NEW q \in Seq(DistNote), NEW k \in Kinds
    PROVE  /\ KindCount(q, k) \in Nat
           /\ KindCount(q, k) = 0 <=> \A i \in 1..Len(q) : q[i].kind # k
  <1> DEFINE P == {i \in 1..Len(q) : q[i].kind = k}
  <1>1. IsFiniteSet(P) /\ Cardinality(P) \in Nat
    <2>1. Len(q) \in Nat /\ P \in SUBSET (1..Len(q))
      OBVIOUS
    <2> HIDE DEF P
    <2>2. QED
      BY <2>1, Indices
  <1>2. Cardinality(P) = 0 <=> P = {}
    BY <1>1, FS_EmptySet
  <1>3. P = {} <=> \A i \in 1..Len(q) : q[i].kind # k
    OBVIOUS
  <1>4. QED
    BY <1>1, <1>2, <1>3 DEF KindCount

\* Notes that are all of one kind, after some that are of others.
LEMMA KindJoined ==
    ASSUME NEW q \in Seq(DistNote), NEW r \in Seq(DistNote), NEW p, p = q \o r, NEW k \in Kinds,
           \A i \in 1..Len(q) : q[i].kind # k, \A i \in 1..Len(r) : r[i].kind = k
    PROVE  KindCount(p, k) = Len(r)
  <1> DEFINE P == {i \in 1..Len(p) : p[i].kind = k}
  <1>1. PICK m, n \in Nat : m = Len(q) /\ n = Len(r)
    OBVIOUS
  <1>2. /\ Len(p) = m + n /\ \A i \in 1..m : p[i] = q[i]
        /\ \A i \in 1..n : p[m + i] = r[i]
    BY <1>1
  <1>3. P = (m + 1)..(m + n)
    <2>1. SUFFICES ASSUME NEW i \in 1..(m + n) PROVE p[i].kind = k <=> i \in (m + 1)..(m + n)
      BY <1>2
    <2>2. CASE i \in 1..m
      BY <1>1, <1>2, <2>2
    <2>3. CASE i \notin 1..m
      <3>1. i - m \in 1..n /\ m + (i - m) = i
        BY <2>3
      <3>2. p[i] = r[i - m]
        BY <1>2, <3>1
      <3>3. QED
        BY <1>1, <3>1, <3>2
    <2>4. QED
      BY <2>2, <2>3
  <1>4. Cardinality((m + 1)..(m + n)) = n
    <2>1. m + 1 \in Int /\ m + n \in Int
      OBVIOUS
    <2>2. Cardinality((m + 1)..(m + n)) = IF m + 1 > m + n THEN 0 ELSE (m + n) - (m + 1) + 1
      BY <2>1, FS_Interval
    <2>3. QED
      BY <2>2
  <1>5. QED
    BY <1>1, <1>3, <1>4 DEF KindCount

----------------------------------------------------------------------------
(* The notes and the messages.                                             *)

LEMMA NoteIs ==
    ASSUME NsTypes, NEW i \in 1..Len(distNotes)
    PROVE  /\ distNotes[i] \in DistNote
           /\ Effective(i) => distNotes[i] \in Actions /\ distNotes[i].host \in Hosts
                              /\ distNotes[i].sequence \in Nat /\ distNotes[i].sequence > 0
                              /\ distNotes[i].kind \in {"new", "removed", "first"}
           /\ ~Effective(i) => distNotes[i].kind = "subscribed"
  <1>1. distNotes[i] \in DistNote
    BY DEF NsTypes
  <1>2. CASE distNotes[i] \in Actions
    <2>1. /\ distNotes[i].host \in Hosts /\ distNotes[i].sequence \in Nat \ {0}
          /\ distNotes[i].kind \in {"new", "removed", "first"}
      BY <1>2 DEF Actions
    <2>2. QED
      BY <1>1, <1>2, <2>1 DEF Effective
  <1>3. CASE distNotes[i] = [kind |-> "subscribed"]
    BY <1>1, <1>3 DEF Effective
  <1>4. QED
    BY <1>1, <1>2, <1>3 DEF DistNote

\* One note more, and one less.
LEMMA NoteMore ==
    ASSUME NsTypes, NEW x \in DistNote, distNotes' = Append(distNotes, x), UNCHANGED counter
    PROVE  /\ distNotes' \in Seq(DistNote) /\ Len(distNotes) \in Nat /\ Len(distNotes') = Len(distNotes) + 1
           /\ distNotes'[Len(distNotes) + 1] = x
           /\ \A i \in 1..Len(distNotes) : distNotes'[i] = distNotes[i]
           /\ \A i \in 1..Len(distNotes) : Effective(i)' <=> Effective(i)
           /\ \A i \in 1..Len(distNotes) : \A h : About(i, h)' <=> About(i, h)
  <1>1. PICK q : q = Append(distNotes, x)
    OBVIOUS
  <1>2. distNotes \in Seq(DistNote)
    BY DEF NsTypes
  <1>3. /\ q \in Seq(DistNote) /\ Len(distNotes) \in Nat /\ Len(q) = Len(distNotes) + 1
        /\ q[Len(distNotes) + 1] = x /\ \A i \in 1..Len(distNotes) : q[i] = distNotes[i]
    BY <1>1, <1>2
  <1>4. distNotes' = q
    BY <1>1
  <1>5. \A i \in 1..Len(distNotes) : i \in 1..Len(q)
    BY <1>3
  <1>6. \A i \in 1..Len(distNotes) : Effective(i)' <=> Effective(i)
    BY <1>3, <1>4, <1>5 DEF Effective
  <1>7. \A i \in 1..Len(distNotes) : \A h : About(i, h)' <=> About(i, h)
    BY <1>3, <1>4, <1>5, <1>6 DEF About
  <1>8. QED
    BY <1>3, <1>4, <1>6, <1>7

LEMMA NoteLess ==
    ASSUME NsTypes, distNotes # <<>>, distNotes' = Tail(distNotes), UNCHANGED counter
    PROVE  /\ distNotes' \in Seq(DistNote) /\ Len(distNotes') \in Nat /\ Len(distNotes) = Len(distNotes') + 1
           /\ Head(distNotes) = distNotes[1] /\ 1 \in 1..Len(distNotes)
           /\ \A i \in 1..Len(distNotes') : i + 1 \in 1..Len(distNotes) /\ distNotes'[i] = distNotes[i + 1]
           /\ \A i \in 1..Len(distNotes') : Effective(i)' <=> Effective(i + 1)
           /\ \A i \in 1..Len(distNotes') : \A h : About(i, h)' <=> About(i + 1, h)
  <1>1. PICK q : q = Tail(distNotes)
    OBVIOUS
  <1>2. distNotes \in Seq(DistNote)
    BY DEF NsTypes
  <1>3. /\ q \in Seq(DistNote) /\ Len(distNotes) \in Nat /\ Len(q) \in Nat /\ Len(distNotes) = Len(q) + 1
        /\ Head(distNotes) = distNotes[1] /\ 1 \in 1..Len(distNotes)
    BY <1>1, <1>2
  <1>4. \A i \in 1..Len(q) : q[i] = distNotes[i + 1]
    BY <1>1, <1>2
  <1>5. distNotes' = q /\ \A i \in 1..Len(q) : i + 1 \in 1..Len(distNotes)
    BY <1>1, <1>3
  <1>6. \A i \in 1..Len(q) : Effective(i)' <=> Effective(i + 1)
    BY <1>4, <1>5 DEF Effective
  <1>7. \A i \in 1..Len(q) : \A h : About(i, h)' <=> About(i + 1, h)
    BY <1>4, <1>5, <1>6 DEF About
  <1>8. /\ distNotes' \in Seq(DistNote) /\ Len(distNotes') \in Nat /\ Len(distNotes) = Len(distNotes') + 1
        /\ Head(distNotes) = distNotes[1] /\ 1 \in 1..Len(distNotes)
    BY <1>3, <1>5
  <1>9. \A i \in 1..Len(distNotes') : i + 1 \in 1..Len(distNotes) /\ distNotes'[i] = distNotes[i + 1]
    BY <1>4, <1>5
  <1>10. Len(distNotes') = Len(q)
    BY <1>5
  <1>11. QED
    BY <1>6, <1>7, <1>8, <1>9, <1>10

\* One message more, and one less.
LEMMA MessageMore ==
    ASSUME NsTypes, NEW m \in Message, toDist' = Append(toDist, m)
    PROVE  /\ toDist' \in Seq(Message) /\ Len(toDist) \in Nat /\ Len(toDist') = Len(toDist) + 1
           /\ toDist'[Len(toDist) + 1] = m /\ \A i \in 1..Len(toDist) : toDist'[i] = toDist[i]
           /\ \A x : OnItsWay(x)' <=> OnItsWay(x) \/ x = m
  <1>1. PICK q : q = Append(toDist, m)
    OBVIOUS
  <1>2. toDist \in Seq(Message)
    BY DEF NsTypes
  <1>3. /\ q \in Seq(Message) /\ Len(toDist) \in Nat /\ Len(q) = Len(toDist) + 1
        /\ q[Len(toDist) + 1] = m /\ \A i \in 1..Len(toDist) : q[i] = toDist[i]
    BY <1>1, <1>2
  <1>4. \A i \in 1..Len(q) : i \in 1..Len(toDist) \/ i = Len(toDist) + 1
    BY <1>3
  <1>5. \A i \in 1..Len(toDist) : i \in 1..Len(q)
    BY <1>3
  <1>6. toDist' = q
    BY <1>1
  <1>7. \A x : OnItsWay(x)' <=> OnItsWay(x) \/ x = m
    BY <1>3, <1>4, <1>5, <1>6 DEF OnItsWay
  <1>8. QED
    BY <1>3, <1>6, <1>7

LEMMA MessageLess ==
    ASSUME NsTypes, toDist # <<>>, toDist' = Tail(toDist)
    PROVE  /\ toDist' \in Seq(Message) /\ Len(toDist') \in Nat /\ Len(toDist) = Len(toDist') + 1
           /\ Head(toDist) = toDist[1] /\ 1 \in 1..Len(toDist)
           /\ \A i \in 1..Len(toDist') : i + 1 \in 1..Len(toDist) /\ toDist'[i] = toDist[i + 1]
           /\ \A x : OnItsWay(x) <=> OnItsWay(x)' \/ x = Head(toDist)
  <1>1. PICK q : q = Tail(toDist)
    OBVIOUS
  <1>2. toDist \in Seq(Message)
    BY DEF NsTypes
  <1>3. /\ q \in Seq(Message) /\ Len(toDist) \in Nat /\ Len(q) \in Nat /\ Len(toDist) = Len(q) + 1
        /\ Head(toDist) = toDist[1] /\ 1 \in 1..Len(toDist)
    BY <1>1, <1>2
  <1>4. \A i \in 1..Len(q) : q[i] = toDist[i + 1]
    BY <1>1, <1>2
  <1>5. \A i \in 1..Len(q) : i + 1 \in 1..Len(toDist)
    BY <1>3
  <1>6. \A i \in 1..Len(toDist) : i = 1 \/ (i - 1 \in 1..Len(q) /\ (i - 1) + 1 = i)
    BY <1>3
  <1>7. toDist' = q
    BY <1>1
  <1>8. ASSUME NEW x PROVE OnItsWay(x) <=> OnItsWay(x)' \/ x = Head(toDist)
    <2>1. OnItsWay(x) => OnItsWay(x)' \/ x = Head(toDist)
      <3>1. SUFFICES ASSUME NEW i \in 1..Len(toDist), toDist[i] = x, i # 1 PROVE OnItsWay(x)'
        BY <1>3 DEF OnItsWay
      <3>2. i - 1 \in 1..Len(q) /\ q[i - 1] = x
        BY <1>4, <1>6, <3>1
      <3>3. QED
        BY <1>7, <3>2 DEF OnItsWay
    <2>2. OnItsWay(x)' => OnItsWay(x)
      BY <1>4, <1>5, <1>7 DEF OnItsWay
    <2>3. x = Head(toDist) => OnItsWay(x)
      BY <1>3 DEF OnItsWay
    <2>4. QED
      BY <2>1, <2>2, <2>3
  <1>9. /\ toDist' \in Seq(Message) /\ Len(toDist') \in Nat /\ Len(toDist) = Len(toDist') + 1
        /\ Head(toDist) = toDist[1] /\ 1 \in 1..Len(toDist)
    BY <1>3, <1>7
  <1>10. \A i \in 1..Len(toDist') : i + 1 \in 1..Len(toDist) /\ toDist'[i] = toDist[i + 1]
    BY <1>4, <1>5, <1>7
  <1>11. QED
    BY <1>8, <1>9, <1>10

LEMMA MessageCounts ==
    ASSUME NsTypes, NEW x \in Message, toDist' = Append(toDist, x), NEW m \in Message
    PROVE  /\ x = m => Count(toDist', m) = Count(toDist, m) + 1
           /\ x # m => Count(toDist', m) = Count(toDist, m)
  <1>1. toDist \in Seq(Message)
    BY DEF NsTypes
  <1>2. PICK q : q = toDist'
    OBVIOUS
  <1>3. q = Append(toDist, x)
    BY <1>2
  <1>4. x = m => Count(q, m) = Count(toDist, m) + 1
    BY <1>1, <1>3, CountMore
  <1>5. x # m => Count(q, m) = Count(toDist, m)
    BY <1>1, <1>3, CountMore
  <1>6. QED
    BY <1>2, <1>4, <1>5

LEMMA MessageTaken ==
    ASSUME NsTypes, toDist # <<>>, toDist' = Tail(toDist), NEW m \in Message
    PROVE  /\ Count(toDist, m) \in Nat /\ Count(toDist', m) \in Nat
           /\ Head(toDist) = m => Count(toDist, m) = Count(toDist', m) + 1
           /\ Head(toDist) # m => Count(toDist, m) = Count(toDist', m)
  <1>1. toDist \in Seq(Message)
    BY DEF NsTypes
  <1>2. PICK q : q = toDist'
    OBVIOUS
  <1>3. q = Tail(toDist)
    BY <1>2
  <1>4. Count(toDist, m) \in Nat /\ Count(q, m) \in Nat
    BY <1>1, <1>3, CountLess
  <1>5. Head(toDist) = m => Count(toDist, m) = Count(q, m) + 1
    BY <1>1, <1>3, CountLess
  <1>6. Head(toDist) # m => Count(toDist, m) = Count(q, m)
    BY <1>1, <1>3, CountLess
  <1>7. QED
    BY <1>2, <1>4, <1>5, <1>6

LEMMA NoteCounts ==
    ASSUME NsTypes, NEW x \in DistNote, distNotes' = Append(distNotes, x), NEW k \in Kinds
    PROVE  /\ x.kind = k => KindCount(distNotes', k) = KindCount(distNotes, k) + 1
           /\ x.kind # k => KindCount(distNotes', k) = KindCount(distNotes, k)
  <1>1. distNotes \in Seq(DistNote)
    BY DEF NsTypes
  <1>2. PICK q : q = distNotes'
    OBVIOUS
  <1>3. q = Append(distNotes, x)
    BY <1>2
  <1>4. x.kind = k => KindCount(q, k) = KindCount(distNotes, k) + 1
    BY <1>1, <1>3, KindMore
  <1>5. x.kind # k => KindCount(q, k) = KindCount(distNotes, k)
    BY <1>1, <1>3, KindMore
  <1>6. QED
    BY <1>2, <1>4, <1>5

LEMMA NoteTaken ==
    ASSUME NsTypes, distNotes # <<>>, distNotes' = Tail(distNotes), NEW k \in Kinds
    PROVE  /\ KindCount(distNotes, k) \in Nat /\ KindCount(distNotes', k) \in Nat
           /\ Head(distNotes).kind = k => KindCount(distNotes, k) = KindCount(distNotes', k) + 1
           /\ Head(distNotes).kind # k => KindCount(distNotes, k) = KindCount(distNotes', k)
  <1>1. distNotes \in Seq(DistNote)
    BY DEF NsTypes
  <1>2. PICK q : q = distNotes'
    OBVIOUS
  <1>3. q = Tail(distNotes)
    BY <1>2
  <1>4. KindCount(distNotes, k) \in Nat /\ KindCount(q, k) \in Nat
    BY <1>1, <1>3, KindLess
  <1>5. Head(distNotes).kind = k => KindCount(distNotes, k) = KindCount(q, k) + 1
    BY <1>1, <1>3, KindLess
  <1>6. Head(distNotes).kind # k => KindCount(distNotes, k) = KindCount(q, k)
    BY <1>1, <1>3, KindLess
  <1>7. QED
    BY <1>2, <1>4, <1>5, <1>6

\* What the counts say of what is on its way.
LEMMA Outstanding ==
    ASSUME NsTypes, Answered
    PROVE  /\ OnItsWay("subscribe") => ns.subscribing /\ reporting = 0
           /\ distNotes # <<>> /\ Head(distNotes).kind = "subscribed" => ns.subscribing
           /\ reporting = 0 => \A i \in 1..Len(distNotes) : distNotes[i].kind # "first"
           /\ reporting = 0 => ~OnItsWay("reported")
  <1>1. /\ \A m \in Message : Count(toDist, m) \in Nat
        /\ \A m \in Message : Count(toDist, m) = 0 <=> ~OnItsWay(m)
    BY CountNone DEF NsTypes, OnItsWay
  <1>2. /\ \A k \in Kinds : KindCount(distNotes, k) \in Nat
        /\ \A k \in Kinds : KindCount(distNotes, k) = 0 <=> \A i \in 1..Len(distNotes) : distNotes[i].kind # k
    BY KindNone DEF NsTypes
  <1>3. reporting \in Nat /\ ns.subscribing \in BOOLEAN
    BY DEF NsTypes, NsEntry
  <1>4. distNotes # <<>> => 1 \in 1..Len(distNotes) /\ Head(distNotes) = distNotes[1]
    BY DEF NsTypes
  <1>5. PICK a, b, c, d \in Nat :
           a = Count(toDist, "subscribe") /\ b = Count(toDist, "reported")
           /\ c = KindCount(distNotes, "first") /\ d = KindCount(distNotes, "subscribed")
    BY <1>1, <1>2 DEF Message, Kinds
  <1>6. reporting = c + b /\ a + d + One(reporting > 0) = One(ns.subscribing)
    BY <1>5 DEF Answered
  <1>7. a # 0 => ns.subscribing /\ reporting = 0
    BY <1>3, <1>6 DEF One
  <1>8. d # 0 => ns.subscribing
    BY <1>3, <1>6 DEF One
  <1>9. reporting = 0 => c = 0 /\ b = 0
    BY <1>3, <1>6
  <1>10. QED
    BY <1>1, <1>2, <1>4, <1>5, <1>7, <1>8, <1>9 DEF Message, Kinds

----------------------------------------------------------------------------
(* The entry of the namespace.                                             *)

LEMMA MapIs ==
    ASSUME NEW D \in SUBSET TypeIds, NEW f \in [D -> TypeStates]
    PROVE  f \in TypeMaps /\ DOMAIN f = D
  BY DEF TypeMaps

LEMMA MapHas ==
    ASSUME NEW f \in TypeMaps
    PROVE  /\ DOMAIN f \in SUBSET TypeIds /\ f \in [DOMAIN f -> TypeStates]
           /\ \A t \in DOMAIN f : f[t] \in TypeStates
  BY DEF TypeMaps

LEMMA NewEntryIs ==
    /\ Trusted!NewEntry \in NsEntry /\ DOMAIN Trusted!NewEntry.types = {}
    /\ ~Trusted!NewEntry.subscription /\ ~Trusted!NewEntry.subscribing
    /\ Trusted!NewEntry.allowed = {} /\ ~Trusted!NewEntry.inDatabase
    /\ Trusted!NewEntry.onSubscribe = {} /\ Trusted!NewEntry.nSubscriptions = 0
  <1>1. << >> \in [{} -> TypeStates]
    OBVIOUS
  <1>2. << >> \in TypeMaps
    BY <1>1, MapIs
  <1>3. QED
    BY <1>2 DEF Trusted!NewEntry, NsEntry

\* What is in the entry.
LEMMA EntryHas ==
    ASSUME NsTypes
    PROVE  /\ ns \in NsEntry /\ ns.types \in TypeMaps /\ DOMAIN ns.types \in SUBSET TypeIds
           /\ \A t \in DOMAIN ns.types : ns.types[t] \in TypeStates
           /\ ns.allowed \in SUBSET Hosts /\ ns.inDatabase \in BOOLEAN /\ ns.nSubscriptions \in Nat
           /\ ns.subscribing \in BOOLEAN /\ ns.subscription \in BOOLEAN /\ ns.sequence \in Nat
           /\ ns.onSubscribe \in SUBSET TrustSubscribers
  <1>1. ns \in NsEntry
    BY DEF NsTypes
  <1>2. ns.types \in TypeMaps
    BY <1>1 DEF NsEntry
  <1>3. DOMAIN ns.types \in SUBSET TypeIds /\ \A t \in DOMAIN ns.types : ns.types[t] \in TypeStates
    BY <1>2, MapHas
  <1>4. QED
    BY <1>1, <1>2, <1>3 DEF NsEntry

\* Types are as they were, or without actors.
TypesKept ==
    \A t \in DOMAIN ns'.types :
        \/ ns'.types[t].mapped = {}
        \/ /\ t \in DOMAIN ns.types
           /\ ns'.types[t].mapped = ns.types[t].mapped /\ ns'.types[t].actors = ns.types[t].actors

LEMMA KeptClean ==
    ASSUME TypesKept
    PROVE  NoneMapped => NoneMapped'
  BY DEF TypesKept, NoneMapped

LEMMA KeptCleanOf ==
    ASSUME TypesKept, NEW h, Clean(h)
    PROVE  Clean(h)'
  BY DEF TypesKept, Clean

\* Notes, messages and rounds stay as they are.
LEMMA Steady ==
    ASSUME InRound, Noted, Fresh, Turns, TypesKept,
           UNCHANGED <<instance, counter, toDist, distNotes, offered>>,
           Trusted!Watching' => Trusted!Watching /\ ns'.sequence = ns.sequence
    PROVE  InRound' /\ Noted' /\ Fresh' /\ Turns'
  <1>1. \A x : OnItsWay(x)' <=> OnItsWay(x)
    BY DEF OnItsWay
  <1>2. /\ \A i : Effective(i)' <=> Effective(i)
        /\ \A i, h : About(i, h)' <=> About(i, h)
    BY DEF Effective, About
  <1>3. InRound'
    BY <1>1 DEF InRound
  <1>4. Noted'
    BY <1>1, <1>2 DEF Noted
  <1>5. Fresh'
    BY <1>1, <1>2, KeptClean DEF Fresh
  <1>6. Turns'
    <2>1. \A h : Clean(h) => Clean(h)'
      BY KeptCleanOf
    <2>2. QED
      BY <1>2, <2>1 DEF Turns
  <1>7. QED
    BY <1>3, <1>4, <1>5, <1>6

\* The entry has no subscription and no types any more.
LEMMA Leaves ==
    ASSUME NsTypes, Answered, InRound, Noted, Fresh, Turns, DOMAIN ns'.types = {}, ~Trusted!Watching',
           ~ns.subscribing, Trusted!Unsubscribes(ns),
           UNCHANGED <<instance, counter, distNotes, offered>>
    PROVE  /\ InRound' /\ Noted' /\ Fresh' /\ Turns'
           /\ toDist' \in Seq(Message) /\ Count(toDist, "subscribe")' = Count(toDist, "subscribe")
           /\ Count(toDist, "reported")' = Count(toDist, "reported")
  <1>1. NoneMapped' /\ TypesKept /\ \A h : Clean(h)'
    BY DEF NoneMapped, TypesKept, Clean
  <1>2. ~OnItsWay("subscribe")
    BY Outstanding
  <1>3. CASE toDist' = Append(toDist, "unsubscribe")
    <2>0. "unsubscribe" \in Message
      BY DEF Message
    <2>1. /\ toDist' \in Seq(Message) /\ Len(toDist) \in Nat /\ Len(toDist') = Len(toDist) + 1
          /\ toDist'[Len(toDist) + 1] = "unsubscribe" /\ \A i \in 1..Len(toDist) : toDist'[i] = toDist[i]
          /\ \A x : OnItsWay(x)' <=> OnItsWay(x) \/ x = "unsubscribe"
      BY <1>3, <2>0, MessageMore
    <2>2. ~OnItsWay("subscribe")'
      BY <1>2, <2>1
    <2>3. /\ \A i : Effective(i)' <=> Effective(i)
          /\ \A i, h : About(i, h)' <=> About(i, h)
      BY DEF Effective, About
    <2>4. InRound'
      BY <2>2 DEF InRound, OnItsWay
    <2>5. Noted'
      BY <2>2, <2>3 DEF Noted
    <2>6. Fresh'
      BY <1>1 DEF Fresh
    <2>7. Turns'
      BY <1>1, <2>3 DEF Turns
    <2>8. Count(toDist', "subscribe") = Count(toDist, "subscribe") /\ Count(toDist', "reported") = Count(toDist, "reported")
      <3>1. /\ "unsubscribe" \in Message /\ "subscribe" \in Message /\ "reported" \in Message
            /\ "unsubscribe" # "subscribe" /\ "unsubscribe" # "reported"
        BY DEF Message
      <3>2. QED
        BY <1>3, <3>1, MessageCounts
    <2>9. QED
      BY <2>1, <2>4, <2>5, <2>6, <2>7, <2>8
  <1>4. CASE toDist' = toDist
    <2>1. InRound' /\ Noted' /\ Fresh' /\ Turns'
      BY <1>1, <1>4, Steady
    <2>2. QED
      BY <1>4, <2>1 DEF NsTypes
  <1>5. QED
    BY <1>3, <1>4 DEF Trusted!Unsubscribes

----------------------------------------------------------------------------
(* The distribution manager.                                               *)

LEMMA SameParticipants ==
    ASSUME NsTypes, Participants, UNCHANGED <<exists, ns, dispatched, phase>>
    PROVE  /\ Participants' /\ Trusted!Counted' = Trusted!Counted
           /\ Trusted!Watching' = Trusted!Watching /\ TypesKept
  <1>1. Trusted!Counted' = Trusted!Counted /\ Trusted!Watching' = Trusted!Watching
    BY DEF Trusted!Counted, Trusted!Watching
  <1>2. Trusted!SubscribersAreIn'
    BY <1>1 DEF Participants, Trusted!SubscribersAreIn
  <1>3. TypesKept
    BY DEF TypesKept
  <1>4. Participants'
    BY <1>1, <1>2 DEF Participants
  <1>5. QED
    BY <1>1, <1>3, <1>4

LEMMA SameDatabase ==
    ASSUME InDatabase, UNCHANGED <<stored, toDatabase, erased>>,
           ns'.allowed = ns.allowed, ns'.inDatabase = ns.inDatabase
    PROVE  InDatabase'
  <1>1. \A i : Before(i)' = Before(i)
    BY DEF Before
  <1>2. QED
    BY <1>1 DEF InDatabase

\* A note that the present callbacks get.
LEMMA NotedMore ==
    ASSUME NsInv, instance # 0, NEW x \in Actions, x.sequence = instance,
           distNotes' = Append(distNotes, x), UNCHANGED <<instance, counter, toDist, ns, exists>>
    PROVE  InRound' /\ Noted' /\ Fresh'
  <1>1. x \in DistNote /\ x.kind # "subscribed"
    BY DEF Actions, DistNote
  <1>2. NsTypes /\ InRound /\ Noted /\ Fresh
    BY DEF NsInv
  <1>3. PICK n \in Nat : n = Len(distNotes)
    BY <1>2 DEF NsTypes
  <1>4. /\ Len(distNotes') = n + 1 /\ distNotes'[n + 1] = x
        /\ \A i \in 1..n : distNotes'[i] = distNotes[i] /\ (Effective(i)' <=> Effective(i))
    BY <1>1, <1>2, <1>3, NoteMore
  <1>5. Effective(n + 1)'
    BY <1>1, <1>4 DEF Effective
  <1>6. \A i \in 1..(n + 1) : i \in 1..n \/ i = n + 1
    OBVIOUS
  <1>7. /\ \A m : OnItsWay(m)' <=> OnItsWay(m)
        /\ Trusted!Watching' = Trusted!Watching /\ NoneMapped' = NoneMapped
    BY DEF OnItsWay, Trusted!Watching, NoneMapped
  <1>8. instance \in Nat /\ counter \in Nat /\ instance <= counter
    BY <1>2 DEF NsTypes, InRound
  <1>9. \A i \in 1..n : Effective(i) => distNotes[i].sequence \in Nat
    BY <1>2, <1>3, NoteIs
  <1>10. InRound'
    BY <1>2, <1>7 DEF InRound
  <1>11. Noted'
    <2>1. SUFFICES ASSUME NEW i \in 1..(n + 1), Effective(i)'
                   PROVE  /\ distNotes'[i].sequence <= counter
                          /\ distNotes'[i].sequence <= instance
                          /\ \A j \in 1..(n + 1) :
                                Effective(j)' /\ i < j => distNotes'[i].sequence <= distNotes'[j].sequence
                          /\ OnItsWay("subscribe") => distNotes'[i].sequence < counter
      BY <1>4, <1>7 DEF Noted
    <2>2. CASE i = n + 1
      <3>1. \A j \in 1..(n + 1) : ~(i < j)
        BY <2>2
      <3>2. distNotes'[i].sequence = instance
        BY <1>4, <2>2
      <3>3. OnItsWay("subscribe") => instance < counter
        BY <1>2 DEF InRound
      <3>4. QED
        BY <1>8, <3>1, <3>2, <3>3
    <2>3. CASE i \in 1..n
      <3>1. Effective(i) /\ distNotes'[i] = distNotes[i]
        BY <1>4, <2>1, <2>3
      <3>2. /\ distNotes[i].sequence <= counter /\ distNotes[i].sequence <= instance
            /\ \A j \in 1..n : Effective(j) /\ i < j => distNotes[i].sequence <= distNotes[j].sequence
            /\ OnItsWay("subscribe") => distNotes[i].sequence < counter
        BY <1>2, <1>3, <2>3, <3>1 DEF Noted
      <3>3. \A j \in 1..(n + 1) : Effective(j)' /\ i < j => distNotes[i].sequence <= distNotes'[j].sequence
        BY <1>4, <1>6, <3>2
      <3>4. QED
        BY <3>1, <3>2, <3>3
    <2>4. QED
      BY <1>6, <2>2, <2>3
  <1>12. Fresh'
    <2>1. SUFFICES ASSUME \/ instance # counter
                          \/ \E i \in 1..(n + 1) : Effective(i)' /\ distNotes'[i].sequence < counter
                          \/ OnItsWay("unsubscribe")
                   PROVE  NoneMapped
      BY <1>4, <1>7 DEF Fresh
    <2>2. CASE instance # counter \/ OnItsWay("unsubscribe")
      BY <1>2, <2>2 DEF Fresh
    <2>3. CASE \E i \in 1..(n + 1) : Effective(i)' /\ distNotes'[i].sequence < counter
      <3>1. PICK i \in 1..(n + 1) : Effective(i)' /\ distNotes'[i].sequence < counter
        BY <2>3
      <3>2. CASE i \in 1..n
        <4>1. Effective(i) /\ distNotes[i].sequence < counter /\ i \in 1..Len(distNotes)
          BY <1>3, <1>4, <3>1, <3>2
        <4>2. QED
          BY <1>2, <4>1 DEF Fresh
      <3>3. CASE i = n + 1
        <4>1. instance < counter
          BY <1>4, <3>1, <3>3
        <4>2. instance # counter
          BY <1>8, <4>1
        <4>3. QED
          BY <1>2, <4>2 DEF Fresh
      <3>4. QED
        BY <1>6, <3>2, <3>3
    <2>4. QED
      BY <2>1, <2>2, <2>3
  <1>13. QED
    BY <1>10, <1>11, <1>12

\* What is published, when callbacks are told of it or there are none.
LEMMA NobodyTold ==
    ASSUME NsInv, instance = 0, instance = counter
    PROVE  \A h : Clean(h) /\ \A i \in 1..Len(distNotes) : ~About(i, h)
  <1>1. NsTypes /\ InRound /\ Participants
    BY DEF NsInv
  <1>2. DOMAIN ns.types = {}
    BY <1>1 DEF InRound, Participants
  <1>3. \A h : Clean(h)
    BY <1>2 DEF Clean
  <1>4. \A h : \A i \in 1..Len(distNotes) : ~About(i, h)
    BY <1>1, NoteIs DEF About
  <1>5. QED
    BY <1>3, <1>4

\* The callbacks that are there are told of an actor.
LEMMA NotesTold ==
    ASSUME NsInv, NEW h \in Hosts, NEW kind \in {"new", "removed"}, instance # 0,
           IsFiniteSet(offered'), offered' \in SUBSET Hosts,
           UNCHANGED <<instance, reporting, toDist, exists, ns, counter, dispatched, stored, toDatabase,
                       resumes, erased, phase>>,
           distNotes' = Append(distNotes, [kind |-> kind, host |-> h, sequence |-> instance]),
           NEW n \in Nat, n = Len(distNotes)
    PROVE  /\ Turns' => NsInv'
           /\ Len(distNotes') = n + 1 /\ distNotes'[n + 1].kind = kind
           /\ \A i \in 1..n : distNotes'[i] = distNotes[i] /\ i \in 1..(n + 1) /\ i < n + 1
           /\ \A i \in 1..(n + 1) : i \in 1..n \/ i = n + 1
           /\ \A i \in 1..n : \A g : About(i, g)' <=> About(i, g)
           /\ \A g : About(n + 1, g)' <=> g = h /\ instance = counter
           /\ \A g : Clean(g)' <=> Clean(g)
  <1>1. NsTypes /\ Answered /\ Participants /\ InDatabase
    BY DEF NsInv
  <1>2. Participants' /\ Trusted!Counted' = Trusted!Counted /\ Trusted!Watching' = Trusted!Watching /\ TypesKept
    BY <1>1, SameParticipants
  <1>3. InDatabase'
    BY <1>1, SameDatabase
  <1>4. PICK x : x = [kind |-> kind, host |-> h, sequence |-> instance]
    OBVIOUS
  <1>5. x \in Actions /\ x \in DistNote /\ x.sequence = instance /\ x.host = h /\ x.kind = kind
    BY <1>1, <1>4 DEF NsTypes, Actions, DistNote
  <1>6. distNotes' = Append(distNotes, x)
    BY <1>4
  <1>7. InRound' /\ Noted' /\ Fresh'
    BY <1>5, <1>6, NotedMore
  <1>8. /\ distNotes' \in Seq(DistNote) /\ Len(distNotes') = n + 1 /\ distNotes'[n + 1] = x
        /\ \A i \in 1..n : distNotes'[i] = distNotes[i]
        /\ \A i \in 1..n : \A g : About(i, g)' <=> About(i, g)
    BY <1>1, <1>5, <1>6, NoteMore
  <1>9. NsTypes'
    BY <1>1, <1>2, <1>8 DEF NsTypes
  <1>10. Answered'
    <2>1. /\ "first" \in Kinds /\ "subscribed" \in Kinds
          /\ x.kind # "first" /\ x.kind # "subscribed"
      BY <1>5 DEF Kinds
    <2>2. KindCount(distNotes', "first") = KindCount(distNotes, "first")
      BY <1>1, <1>5, <1>6, <2>1, NoteCounts
    <2>3. KindCount(distNotes', "subscribed") = KindCount(distNotes, "subscribed")
      BY <1>1, <1>5, <1>6, <2>1, NoteCounts
    <2>4. QED
      BY <1>1, <2>2, <2>3 DEF Answered
  <1>11. /\ \A g : About(n + 1, g)' <=> g = h /\ instance = counter
         /\ \A i \in 1..(n + 1) : i \in 1..n \/ i = n + 1
         /\ \A i \in 1..n : i \in 1..(n + 1) /\ i < n + 1
    BY <1>5, <1>8 DEF About, Effective
  <1>12. \A g : Clean(g)' <=> Clean(g)
    BY DEF Clean
  <1>13. Turns' => NsInv'
    BY <1>2, <1>3, <1>7, <1>9, <1>10 DEF NsInv
  <1>14. QED
    BY <1>5, <1>8, <1>11, <1>12, <1>13

\* Nobody is.
LEMMA NotesNotTold ==
    ASSUME NsInv, instance = 0, IsFiniteSet(offered'), offered' \in SUBSET Hosts,
           UNCHANGED <<instance, reporting, toDist, exists, ns, counter, dispatched, stored, toDatabase,
                       resumes, erased, phase, distNotes>>
    PROVE  NsInv'
  <1>1. /\ NsTypes /\ Answered /\ Participants /\ InRound /\ Noted /\ Fresh /\ Turns /\ InDatabase
    BY DEF NsInv
  <1>2. Participants' /\ Trusted!Counted' = Trusted!Counted /\ Trusted!Watching' = Trusted!Watching /\ TypesKept
    BY <1>1, SameParticipants
  <1>3. InDatabase'
    BY <1>1, SameDatabase
  <1>4. NsTypes' /\ Answered'
    BY <1>1, <1>2 DEF NsTypes, Answered
  <1>5. /\ \A m : OnItsWay(m)' <=> OnItsWay(m)
        /\ NoneMapped' = NoneMapped /\ \A g : Clean(g)' <=> Clean(g)
        /\ \A i : Effective(i)' <=> Effective(i)
        /\ \A i, g : About(i, g)' <=> About(i, g)
    BY DEF OnItsWay, NoneMapped, Clean, Effective, About
  <1>6. InRound' /\ Noted' /\ Fresh'
    BY <1>1, <1>2, <1>5 DEF InRound, Noted, Fresh
  <1>7. Turns'
    <2>1. instance = counter =>
             \A g \in offered' : (\A i \in 1..Len(distNotes) : ~About(i, g)) /\ Clean(g)
      BY NobodyTold
    <2>2. QED
      BY <1>1, <1>5, <2>1 DEF Turns
  <1>8. QED
    BY <1>2, <1>3, <1>4, <1>6, <1>7 DEF NsInv

LEMMA PublishStep ==
    ASSUME NsInv, NEW h \in Hosts, Trusted!Publish(h)
    PROVE  NsInv'
  <1>1. /\ NsTypes /\ Turns
        /\ UNCHANGED <<instance, reporting, toDist, exists, ns, counter, dispatched, stored, toDatabase,
                       resumes, erased, phase>>
        /\ offered' = offered \cup {h}
    BY DEF NsInv, Trusted!Publish, Trusted!dataVars, Trusted!subscriberVars
  <1>2. IsFiniteSet(offered') /\ offered' \in SUBSET Hosts
    BY <1>1, FS_AddElement DEF NsTypes
  <1>3. CASE instance = 0
    <2>1. UNCHANGED distNotes
      BY <1>3 DEF Trusted!Publish, Trusted!Notifies
    <2>2. QED
      BY <1>1, <1>2, <1>3, <2>1, NotesNotTold
  <1>4. CASE instance # 0
    <2>1. distNotes' = Append(distNotes, [kind |-> "new", host |-> h, sequence |-> instance])
      BY <1>1, <1>4 DEF Trusted!Publish, Trusted!Notifies, Trusted!Note
    <2>2. PICK n \in Nat : n = Len(distNotes)
      BY <1>1 DEF NsTypes
    <2>3. "new" \in {"new", "removed"}
      OBVIOUS
    <2>4. /\ Turns' => NsInv'
          /\ Len(distNotes') = n + 1 /\ distNotes'[n + 1].kind = "new"
          /\ \A i \in 1..n : distNotes'[i] = distNotes[i] /\ i \in 1..(n + 1) /\ i < n + 1
          /\ \A i \in 1..(n + 1) : i \in 1..n \/ i = n + 1
          /\ \A i \in 1..n : \A g : About(i, g)' <=> About(i, g)
          /\ \A g : About(n + 1, g)' <=> g = h /\ instance = counter
          /\ \A g : Clean(g)' <=> Clean(g)
      BY <1>1, <1>2, <1>4, <2>1, <2>2, <2>3, NotesTold, Zenon
    <2>5. ASSUME NEW g \in Hosts, NEW i \in 1..(n + 1), About(i, g)', distNotes'[i].kind = "removed",
                 \A j \in 1..(n + 1) : j < i => ~About(j, g)'
          PROVE  Clean(g)'
      <3>1. i \in 1..n
        BY <2>4, <2>5
      <3>2. About(i, g) /\ distNotes[i].kind = "removed" /\ \A j \in 1..n : j < i => ~About(j, g)
        BY <2>4, <2>5, <3>1
      <3>3. QED
        BY <1>1, <2>2, <2>4, <3>1, <3>2 DEF Turns
    <2>6. ASSUME NEW g \in Hosts, NEW i \in 1..(n + 1), NEW j \in 1..(n + 1), i < j, About(i, g)', About(j, g)',
                 distNotes'[i].kind = "removed", distNotes'[j].kind = "removed"
          PROVE  \E k \in 1..(n + 1) : i < k /\ k < j /\ About(k, g)' /\ distNotes'[k].kind # "removed"
      <3>1. i \in 1..n /\ j \in 1..n
        BY <2>4, <2>6
      <3>2. PICK k \in 1..n : i < k /\ k < j /\ About(k, g) /\ distNotes[k].kind # "removed"
        BY <1>1, <2>2, <2>4, <2>6, <3>1 DEF Turns
      <3>3. QED
        BY <2>4, <3>2
    <2>7. ASSUME instance = counter, NEW g \in offered'
          PROVE  \/ (\A i \in 1..(n + 1) : ~About(i, g)') /\ Clean(g)'
                 \/ \E i \in 1..(n + 1) :
                       About(i, g)' /\ distNotes'[i].kind # "removed" /\ \A j \in 1..(n + 1) : j > i => ~About(j, g)'
      <3>1. CASE g = h
        <4>1. /\ n + 1 \in 1..(n + 1) /\ About(n + 1, g)' /\ distNotes'[n + 1].kind # "removed"
              /\ \A j \in 1..(n + 1) : ~(j > n + 1)
          BY <2>4, <2>7, <3>1
        <4>2. QED
          BY <4>1
      <3>2. CASE g # h
        <4>1. g \in offered
          BY <1>1, <2>7, <3>2
        <4>2. CASE (\A i \in 1..n : ~About(i, g)) /\ Clean(g)
          BY <2>4, <3>2, <4>2
        <4>3. CASE \E i \in 1..n :
                     About(i, g) /\ distNotes[i].kind # "removed" /\ \A j \in 1..n : j > i => ~About(j, g)
          BY <2>4, <3>2, <4>3
        <4>4. QED
          BY <1>1, <2>2, <2>7, <4>1, <4>2, <4>3 DEF Turns
      <3>3. QED
        BY <3>1, <3>2
    <2>8. Turns'
      BY <1>1, <2>4, <2>5, <2>6, <2>7 DEF Turns
    <2>9. QED
      BY <2>4, <2>8
  <1>5. QED
    BY <1>3, <1>4

LEMMA UnpublishStep ==
    ASSUME NsInv, NEW h \in Hosts, Trusted!Unpublish(h)
    PROVE  NsInv'
  <1>1. /\ NsTypes /\ Turns /\ h \in offered
        /\ UNCHANGED <<instance, reporting, toDist, exists, ns, counter, dispatched, stored, toDatabase,
                       resumes, erased, phase>>
        /\ offered' = offered \ {h}
    BY DEF NsInv, Trusted!Unpublish, Trusted!dataVars, Trusted!subscriberVars
  <1>2. IsFiniteSet(offered') /\ offered' \in SUBSET Hosts
    BY <1>1, FS_RemoveElement DEF NsTypes
  <1>3. CASE instance = 0
    <2>1. UNCHANGED distNotes
      BY <1>3 DEF Trusted!Unpublish, Trusted!Notifies
    <2>2. QED
      BY <1>1, <1>2, <1>3, <2>1, NotesNotTold
  <1>4. CASE instance # 0
    <2>1. distNotes' = Append(distNotes, [kind |-> "removed", host |-> h, sequence |-> instance])
      BY <1>1, <1>4 DEF Trusted!Unpublish, Trusted!Notifies, Trusted!Note
    <2>2. PICK n \in Nat : n = Len(distNotes)
      BY <1>1 DEF NsTypes
    <2>3. "removed" \in {"new", "removed"}
      OBVIOUS
    <2>4. /\ Turns' => NsInv'
          /\ Len(distNotes') = n + 1 /\ distNotes'[n + 1].kind = "removed"
          /\ \A i \in 1..n : distNotes'[i] = distNotes[i] /\ i \in 1..(n + 1) /\ i < n + 1
          /\ \A i \in 1..(n + 1) : i \in 1..n \/ i = n + 1
          /\ \A i \in 1..n : \A g : About(i, g)' <=> About(i, g)
          /\ \A g : About(n + 1, g)' <=> g = h /\ instance = counter
          /\ \A g : Clean(g)' <=> Clean(g)
      BY <1>1, <1>2, <1>4, <2>1, <2>2, <2>3, NotesTold, Zenon
    <2>5. About(n + 1, h)' =>
             \/ (\A i \in 1..n : ~About(i, h)) /\ Clean(h)
             \/ \E i \in 1..n :
                   About(i, h) /\ distNotes[i].kind # "removed" /\ \A j \in 1..n : j > i => ~About(j, h)
      BY <1>1, <2>2, <2>4 DEF Turns
    <2>6. ASSUME NEW g \in Hosts, NEW i \in 1..(n + 1), About(i, g)', distNotes'[i].kind = "removed",
                 \A j \in 1..(n + 1) : j < i => ~About(j, g)'
          PROVE  Clean(g)'
      <3>1. CASE i \in 1..n
        <4>1. About(i, g) /\ distNotes[i].kind = "removed" /\ \A j \in 1..n : j < i => ~About(j, g)
          BY <2>4, <2>6, <3>1
        <4>2. QED
          BY <1>1, <2>2, <2>4, <3>1, <4>1 DEF Turns
      <3>2. CASE i = n + 1
        <4>1. g = h /\ \A j \in 1..n : ~About(j, h)
          BY <2>4, <2>6, <3>2
        <4>2. QED
          BY <2>4, <2>5, <2>6, <3>2, <4>1
      <3>3. QED
        BY <2>4, <3>1, <3>2
    <2>7. ASSUME NEW g \in Hosts, NEW i \in 1..(n + 1), NEW j \in 1..(n + 1), i < j, About(i, g)', About(j, g)',
                 distNotes'[i].kind = "removed", distNotes'[j].kind = "removed"
          PROVE  \E k \in 1..(n + 1) : i < k /\ k < j /\ About(k, g)' /\ distNotes'[k].kind # "removed"
      <3>1. i \in 1..n
        BY <2>4, <2>7
      <3>2. CASE j \in 1..n
        <4>1. PICK k \in 1..n : i < k /\ k < j /\ About(k, g) /\ distNotes[k].kind # "removed"
          BY <1>1, <2>2, <2>4, <2>7, <3>1, <3>2 DEF Turns
        <4>2. QED
          BY <2>4, <4>1
      <3>3. CASE j = n + 1
        <4>1. g = h /\ About(i, h) /\ distNotes[i].kind = "removed"
          BY <2>4, <2>7, <3>1, <3>3
        <4>2. PICK k \in 1..n : About(k, h) /\ distNotes[k].kind # "removed" /\ \A l \in 1..n : l > k => ~About(l, h)
          BY <2>5, <2>7, <3>1, <3>3, <4>1
        <4>3. i < k
          BY <3>1, <4>1, <4>2
        <4>4. k < j /\ k \in 1..(n + 1) /\ About(k, g)' /\ distNotes'[k].kind # "removed"
          BY <2>4, <3>3, <4>1, <4>2
        <4>5. QED
          BY <4>3, <4>4
      <3>4. QED
        BY <2>4, <3>2, <3>3
    <2>8. ASSUME instance = counter, NEW g \in offered'
          PROVE  \/ (\A i \in 1..(n + 1) : ~About(i, g)') /\ Clean(g)'
                 \/ \E i \in 1..(n + 1) :
                       About(i, g)' /\ distNotes'[i].kind # "removed" /\ \A j \in 1..(n + 1) : j > i => ~About(j, g)'
      <3>1. g \in offered /\ g # h
        BY <1>1, <2>8
      <3>2. CASE (\A i \in 1..n : ~About(i, g)) /\ Clean(g)
        BY <2>4, <3>1, <3>2
      <3>3. CASE \E i \in 1..n :
                   About(i, g) /\ distNotes[i].kind # "removed" /\ \A j \in 1..n : j > i => ~About(j, g)
        BY <2>4, <3>1, <3>3
      <3>4. QED
        BY <1>1, <2>2, <2>8, <3>1, <3>2, <3>3 DEF Turns
    <2>9. Turns'
      BY <1>1, <2>4, <2>6, <2>7, <2>8 DEF Turns
    <2>10. QED
      BY <2>4, <2>9
  <1>5. QED
    BY <1>3, <1>4

----------------------------------------------------------------------------
(* Steps without notes and messages.                                       *)

LEMMA Quiet ==
    ASSUME NsInv, TypesKept, UNCHANGED <<offered, instance, reporting, toDist, distNotes, counter>>,
           ns'.subscribing = ns.subscribing,
           Trusted!Watching' => Trusted!Watching /\ ns'.sequence = ns.sequence,
           exists' \in BOOLEAN, ns' \in NsEntry, erased' \in BOOLEAN, resumes' \in Nat,
           stored' \in SUBSET Hosts, toDatabase' \in Seq(Question),
           phase' \in [TrustSubscribers -> Phases], IsFiniteSet(Trusted!Counted'),
           Participants', InDatabase'
    PROVE  NsInv'
  <1>1. /\ NsTypes /\ Answered /\ InRound /\ Noted /\ Fresh /\ Turns
    BY DEF NsInv
  <1>2. NsTypes'
    BY <1>1 DEF NsTypes
  <1>3. Answered'
    BY <1>1 DEF Answered
  <1>4. InRound' /\ Noted' /\ Fresh' /\ Turns'
    BY <1>1, Steady
  <1>5. QED
    BY <1>2, <1>3, <1>4 DEF NsInv

\* Nothing that the trust manager and its callers count on changes.
LEMMA QuietAll ==
    ASSUME NsInv, UNCHANGED <<offered, instance, reporting, toDist, distNotes, exists, ns, counter, dispatched,
                              stored, toDatabase, resumes, erased, phase>>
    PROVE  NsInv'
  <1>1. NsTypes /\ Participants /\ InDatabase
    BY DEF NsInv
  <1>2. Participants' /\ Trusted!Counted' = Trusted!Counted /\ Trusted!Watching' = Trusted!Watching /\ TypesKept
    BY <1>1, SameParticipants
  <1>3. InDatabase'
    BY <1>1, SameDatabase
  <1>4. QED
    BY <1>1, <1>2, <1>3, Quiet DEF NsTypes

LEMMA DeliverStep ==
    ASSUME NsInv, NEW s \in TrustSubscribers, Trusted!Deliver(s)
    PROVE  NsInv'
  BY QuietAll DEF Trusted!Deliver, Trusted!distVars, Trusted!dataVars

LEMMA DeferStep ==
    ASSUME NsInv, NEW s \in TrustSubscribers, Trusted!Defer(s)
    PROVE  NsInv'
  BY QuietAll DEF Trusted!Defer, Trusted!distVars, Trusted!dataVars

\* The entry stays as it is, and a subscriber is nearer to its end.
LEMMA PhaseStep ==
    ASSUME NsInv, UNCHANGED <<offered, instance, reporting, toDist, distNotes, exists, ns, counter, dispatched,
                              stored, toDatabase, resumes, erased>>,
           NEW s \in TrustSubscribers, phase[s] \in {"given", "live"}, NEW p \in {"live", "dropped"},
           phase' = [phase EXCEPT ![s] = p]
    PROVE  NsInv'
  <1>1. NsTypes /\ Participants /\ InDatabase /\ phase \in [TrustSubscribers -> Phases]
    BY DEF NsInv, NsTypes
  <1>2. /\ phase' \in [TrustSubscribers -> Phases] /\ phase'[s] = p
        /\ \A q \in TrustSubscribers : q # s => phase'[q] = phase[q]
    BY <1>1 DEF Phases
  <1>3. \A q \in TrustSubscribers : phase'[q] \in {"idle", "gone"} <=> phase[q] \in {"idle", "gone"}
    BY <1>2
  <1>4. Trusted!Counted' = Trusted!Counted
    BY <1>3 DEF Trusted!Counted
  <1>5. \A q \in TrustSubscribers :
           /\ phase'[q] = "subscribing" <=> phase[q] = "subscribing"
           /\ phase'[q] = "waiting" <=> phase[q] = "waiting"
    BY <1>2
  <1>6. Trusted!SubscribersAreIn'
    <2>1. Trusted!SubscribersAreIn /\ \A q \in Trusted!Counted : q \in TrustSubscribers
      BY <1>1 DEF Participants, Trusted!Counted
    <2>2. QED
      BY <1>4, <1>5, <2>1 DEF Trusted!SubscribersAreIn
  <1>7. Trusted!Watching' = Trusted!Watching /\ TypesKept
    BY DEF Trusted!Watching, TypesKept
  <1>8. Participants'
    BY <1>1, <1>4, <1>5, <1>6, <1>7 DEF Participants
  <1>9. InDatabase'
    BY <1>1, SameDatabase
  <1>10. QED
    BY <1>1, <1>2, <1>4, <1>7, <1>8, <1>9, Quiet DEF NsTypes

LEMMA DropStep ==
    ASSUME NsInv, NEW s \in TrustSubscribers, Trusted!Drop(s)
    PROVE  NsInv'
  BY PhaseStep DEF Trusted!Drop, Trusted!distVars, Trusted!dataVars

LEMMA ArriveStep ==
    ASSUME NsInv, NEW s \in TrustSubscribers, Trusted!Arrive(s)
    PROVE  NsInv'
  BY PhaseStep DEF Trusted!Arrive, Trusted!distVars, Trusted!dataVars

\* The database has one question less.
LEMMA DatabaseAnswersStep ==
    ASSUME NsInv, Trusted!DatabaseAnswers
    PROVE  NsInv'
  <1>1. /\ UNCHANGED <<offered, instance, reporting, toDist, distNotes, exists, ns, counter, dispatched,
                       erased, phase>>
        /\ toDatabase # <<>> /\ toDatabase' = Tail(toDatabase) /\ stored' = Head(toDatabase).hosts
        /\ resumes' = IF Head(toDatabase).kind = "remove" THEN resumes + 1 ELSE resumes
    BY DEF Trusted!DatabaseAnswers, Trusted!distVars, Trusted!subscriberVars
  <1>2. NsTypes /\ Participants /\ InDatabase
    BY DEF NsInv
  <1>3. PICK q : q = toDatabase'
    OBVIOUS
  <1>12. toDatabase \in Seq(Question) /\ toDatabase # <<>> /\ q = Tail(toDatabase)
    BY <1>1, <1>2, <1>3 DEF NsTypes
  <1>4. PICK n \in Nat : n = Len(q)
    BY <1>12
  <1>5. /\ q \in Seq(Question) /\ Len(toDatabase) = n + 1 /\ Head(toDatabase) = toDatabase[1]
        /\ Head(toDatabase) \in Question /\ \A i \in 1..n : q[i] = toDatabase[i + 1]
    BY <1>1, <1>2, <1>3, <1>4 DEF NsTypes
  <1>6. stored' \in SUBSET Hosts /\ resumes' \in Nat
    BY <1>1, <1>2, <1>5 DEF NsTypes, Question
  <1>7. \A i \in 1..(n + 1) : Before(i)' = Before(i + 1) /\ i + 1 \in Nat /\ i + 1 # 1
    <2>1. SUFFICES ASSUME NEW i \in 1..(n + 1) PROVE Before(i)' = Before(i + 1) /\ i + 1 # 1
      OBVIOUS
    <2>2. i + 1 # 1 /\ (i + 1) - 1 = i
      OBVIOUS
    <2>3. Before(i + 1) = toDatabase[i].hosts
      BY <2>2 DEF Before
    <2>4. CASE i = 1
      BY <1>1, <1>5, <2>2, <2>3, <2>4 DEF Before
    <2>5. CASE i # 1
      <3>1. i - 1 \in 1..n /\ (i - 1) + 1 = i
        BY <2>5
      <3>2. q[i - 1] = toDatabase[i]
        BY <1>5, <3>1
      <3>3. QED
        BY <1>3, <2>2, <2>3, <2>5, <3>2 DEF Before
    <2>6. QED
      BY <2>4, <2>5
  <1>8. InDatabase'
    <2>1. ASSUME ~erased, NEW i \in 1..n PROVE (q[i].kind = "add") <=> Before(i)' = {}
      <3>1. i + 1 \in 1..(n + 1) /\ i \in 1..(n + 1)
        OBVIOUS
      <3>2. toDatabase[i + 1].kind = "add" <=> Before(i + 1) = {}
        BY <1>2, <1>5, <2>1, <3>1 DEF InDatabase
      <3>3. QED
        BY <1>5, <1>7, <3>1, <3>2
    <2>2. ASSUME ~erased PROVE Before(n + 1)' = ns.allowed
      <3>1. n + 1 \in 1..(n + 1)
        OBVIOUS
      <3>2. Before(n + 1)' = Before((n + 1) + 1)
        BY <1>7, <3>1
      <3>3. QED
        BY <1>2, <1>5, <2>2, <3>2 DEF InDatabase
    <2>3. QED
      BY <1>1, <1>2, <1>3, <1>4, <2>1, <2>2 DEF InDatabase
  <1>9. Participants' /\ Trusted!Counted' = Trusted!Counted /\ Trusted!Watching' = Trusted!Watching /\ TypesKept
    BY <1>1, <1>2, SameParticipants
  <1>10. toDatabase' \in Seq(Question)
    BY <1>3, <1>5
  <1>11. QED
    BY <1>1, <1>2, <1>6, <1>8, <1>9, <1>10, Quiet DEF NsTypes

----------------------------------------------------------------------------
(* Subscribers enter.                                                      *)

\* One more that counts.
LEMMA OneMore ==
    ASSUME NsTypes, NEW s \in TrustSubscribers, phase[s] = "idle",
           NEW p \in {"waiting", "subscribing", "given"}, phase' = [phase EXCEPT ![s] = p]
    PROVE  /\ Trusted!Counted' = Trusted!Counted \cup {s} /\ IsFiniteSet(Trusted!Counted')
           /\ Cardinality(Trusted!Counted) \in Nat
           /\ Cardinality(Trusted!Counted') = Cardinality(Trusted!Counted) + 1
           /\ phase' \in [TrustSubscribers -> Phases] /\ phase'[s] = p /\ s \notin Trusted!Counted
           /\ \A q \in TrustSubscribers : q # s => phase'[q] = phase[q]
  <1>1. /\ phase' \in [TrustSubscribers -> Phases] /\ phase'[s] = p
        /\ \A q \in TrustSubscribers : q # s => phase'[q] = phase[q]
    BY DEF NsTypes, Phases
  <1>2. Trusted!Counted' = Trusted!Counted \cup {s} /\ s \notin Trusted!Counted
    BY <1>1 DEF Trusted!Counted
  <1>3. PICK C : C = Trusted!Counted
    OBVIOUS
  <1>4. IsFiniteSet(C) /\ s \notin C
    BY <1>2, <1>3 DEF NsTypes
  <1>5. IsFiniteSet(C \cup {s}) /\ Cardinality(C) \in Nat /\ Cardinality(C \cup {s}) = Cardinality(C) + 1
    BY <1>4, FS_AddElement, FS_CardinalityType
  <1>6. Trusted!Counted' = C \cup {s}
    BY <1>2, <1>3
  <1>7. QED
    BY <1>1, <1>2, <1>3, <1>5, <1>6

\* Who is given a subscription is with its type, and the actors stay.
LEMMA GiveIs ==
    ASSUME NsTypes, NEW S \in SUBSET TrustSubscribers, NEW n \in NsEntry, n.types = ns.types, Trusted!Give(S, n)
    PROVE  /\ ns' \in NsEntry /\ TypesKept
           /\ ns'.allowed = n.allowed /\ ns'.inDatabase = n.inDatabase /\ ns'.nSubscriptions = n.nSubscriptions
           /\ ns'.subscribing = n.subscribing /\ ns'.subscription = n.subscription
           /\ ns'.sequence = n.sequence /\ ns'.onSubscribe = n.onSubscribe
           /\ \A s \in S : Trusted!TypeOf(s) \in DOMAIN ns'.types /\ s \in ns'.types[Trusted!TypeOf(s)].subs
           /\ \A t \in DOMAIN ns.types : t \in DOMAIN ns'.types /\ ns.types[t].subs \subseteq ns'.types[t].subs
           /\ phase' = [s \in TrustSubscribers |-> IF s \in S THEN "given" ELSE phase[s]]
  <1> DEFINE D == DOMAIN ns.types \cup {Trusted!TypeOf(s) : s \in S}
             F(t) == [Trusted!TypeState(n, t) EXCEPT !.subs = @ \cup {s \in S : Trusted!TypeOf(s) = t}]
             f == [t \in D |-> F(t)]
  <1>1. ns' = [n EXCEPT !.types = f] /\ phase' = [s \in TrustSubscribers |-> IF s \in S THEN "given" ELSE phase[s]]
    BY DEF Trusted!Give
  <1>2. D \in SUBSET TypeIds
    BY EntryHas DEF TypeIds, Trusted!TypeOf
  <1>3. ASSUME NEW t \in D
        PROVE  /\ Trusted!TypeState(n, t) \in TypeStates
               /\ t \in DOMAIN ns.types => Trusted!TypeState(n, t) = ns.types[t]
               /\ t \notin DOMAIN ns.types => Trusted!TypeState(n, t).mapped = {}
    <2>1. CASE t \in DOMAIN ns.types
      BY <2>1, EntryHas DEF Trusted!TypeState
    <2>2. CASE t \notin DOMAIN ns.types
      BY <2>2 DEF Trusted!TypeState, Trusted!NewType, TypeStates
    <2>3. QED
      BY <2>1, <2>2
  <1>4. ASSUME NEW t \in D
        PROVE  /\ F(t) \in TypeStates
               /\ F(t).mapped = Trusted!TypeState(n, t).mapped /\ F(t).actors = Trusted!TypeState(n, t).actors
               /\ F(t).subs = Trusted!TypeState(n, t).subs \cup {s \in S : Trusted!TypeOf(s) = t}
    <2>1. PICK x \in TypeStates : x = Trusted!TypeState(n, t)
      BY <1>3
    <2>2. F(t) = [x EXCEPT !.subs = @ \cup {s \in S : Trusted!TypeOf(s) = t}]
      BY <2>1
    <2>3. {s \in S : Trusted!TypeOf(s) = t} \in SUBSET TrustSubscribers
      OBVIOUS
    <2> HIDE DEF F
    <2>4. QED
      BY <2>1, <2>2, <2>3 DEF TypeStates
  <1>5. f \in [D -> TypeStates] /\ \A t \in D : f[t] = F(t)
    BY <1>4
  <1> HIDE DEF D, F, f
  <1>6. f \in TypeMaps /\ DOMAIN f = D
    BY <1>2, <1>5, MapIs
  <1>7. /\ ns' \in NsEntry /\ ns'.types = f
        /\ ns'.allowed = n.allowed /\ ns'.inDatabase = n.inDatabase /\ ns'.nSubscriptions = n.nSubscriptions
        /\ ns'.subscribing = n.subscribing /\ ns'.subscription = n.subscription
        /\ ns'.sequence = n.sequence /\ ns'.onSubscribe = n.onSubscribe
    BY <1>1, <1>6 DEF NsEntry
  <1>8. \A s \in S : Trusted!TypeOf(s) \in D /\ s \in f[Trusted!TypeOf(s)].subs
    BY <1>4, <1>5 DEF D
  <1>9. \A t \in DOMAIN ns.types : t \in D /\ ns.types[t].subs \subseteq f[t].subs
    <2>1. SUFFICES ASSUME NEW t \in DOMAIN ns.types PROVE t \in D /\ ns.types[t].subs \subseteq f[t].subs
      OBVIOUS
    <2>2. t \in D
      BY DEF D
    <2>3. QED
      BY <1>3, <1>4, <1>5, <2>2
  <1>10. TypesKept
    <2>1. SUFFICES ASSUME NEW t \in D
                   PROVE  \/ f[t].mapped = {}
                          \/ /\ t \in DOMAIN ns.types
                             /\ f[t].mapped = ns.types[t].mapped /\ f[t].actors = ns.types[t].actors
      BY <1>6, <1>7 DEF TypesKept
    <2>2. QED
      BY <1>3, <1>4, <1>5
  <1>11. QED
    BY <1>1, <1>6, <1>7, <1>8, <1>9, <1>10

\* Those that had their subscription keep it when others are given theirs.
LEMMA GivenAreIn ==
    ASSUME NsTypes, Participants, NEW S \in SUBSET TrustSubscribers, NEW n \in NsEntry, n.types = ns.types,
           Trusted!Give(S, n), n.subscription
    PROVE  Trusted!SubscribersAreIn'
  <1>1. /\ ns'.subscription
        /\ \A s \in S : Trusted!TypeOf(s) \in DOMAIN ns'.types /\ s \in ns'.types[Trusted!TypeOf(s)].subs
        /\ \A t \in DOMAIN ns.types : t \in DOMAIN ns'.types /\ ns.types[t].subs \subseteq ns'.types[t].subs
        /\ phase' = [s \in TrustSubscribers |-> IF s \in S THEN "given" ELSE phase[s]]
    BY GiveIs
  <1>2. Trusted!SubscribersAreIn
    BY DEF Participants
  <1>3. SUFFICES ASSUME NEW s \in TrustSubscribers, phase'[s] \notin {"idle", "gone", "subscribing", "waiting"}
                 PROVE  Trusted!TypeOf(s) \in DOMAIN ns'.types /\ s \in ns'.types[Trusted!TypeOf(s)].subs
    BY <1>1 DEF Trusted!SubscribersAreIn, Trusted!Counted, Trusted!TypeOf
  <1>4. CASE s \in S
    BY <1>1, <1>4
  <1>5. CASE s \notin S
    <2>1. phase[s] \notin {"idle", "gone", "subscribing", "waiting"}
      BY <1>1, <1>3, <1>5
    <2>2. Trusted!TypeOf(s) \in DOMAIN ns.types /\ s \in ns.types[Trusted!TypeOf(s)].subs
      BY <1>2, <2>1 DEF Trusted!SubscribersAreIn, Trusted!Counted
    <2>3. QED
      BY <1>1, <2>2
  <1>6. QED
    BY <1>4, <1>5

LEMMA EnteredIs ==
    ASSUME NsTypes
    PROVE  /\ Trusted!Entered \in NsEntry /\ Trusted!Entered.types = ns.types
           /\ Trusted!Entered.allowed = ns.allowed /\ Trusted!Entered.inDatabase = ns.inDatabase
           /\ Trusted!Entered.nSubscriptions = ns.nSubscriptions + 1
           /\ Trusted!Entered.subscribing = ns.subscribing /\ Trusted!Entered.subscription = ns.subscription
           /\ Trusted!Entered.sequence = ns.sequence /\ Trusted!Entered.onSubscribe = ns.onSubscribe
  <1>1. ns \in NsEntry /\ ns.nSubscriptions + 1 \in Nat
    BY EntryHas
  <1>2. QED
    BY <1>1 DEF Trusted!Entered, NsEntry

LEMMA SubscribeAtOnceStep ==
    ASSUME NsInv, NEW s \in TrustSubscribers, Trusted!SubscribeAtOnce(s)
    PROVE  NsInv'
  <1>1. /\ UNCHANGED <<offered, instance, reporting, toDist, distNotes, exists, counter, dispatched,
                       stored, toDatabase, resumes, erased>>
        /\ phase[s] = "idle" /\ ns.subscription /\ Trusted!Give({s}, Trusted!Entered)
    BY DEF Trusted!SubscribeAtOnce, Trusted!distVars, Trusted!dataVars
  <1>2. NsTypes /\ Participants /\ InDatabase
    BY DEF NsInv
  <1>3. /\ Trusted!Entered \in NsEntry /\ Trusted!Entered.types = ns.types
        /\ Trusted!Entered.allowed = ns.allowed /\ Trusted!Entered.inDatabase = ns.inDatabase
        /\ Trusted!Entered.nSubscriptions = ns.nSubscriptions + 1
        /\ Trusted!Entered.subscribing = ns.subscribing /\ Trusted!Entered.subscription = ns.subscription
        /\ Trusted!Entered.sequence = ns.sequence /\ Trusted!Entered.onSubscribe = ns.onSubscribe
    BY <1>2, EnteredIs
  <1>4. {s} \in SUBSET TrustSubscribers
    OBVIOUS
  <1>5. /\ ns' \in NsEntry /\ TypesKept
        /\ ns'.allowed = ns.allowed /\ ns'.inDatabase = ns.inDatabase
        /\ ns'.nSubscriptions = ns.nSubscriptions + 1
        /\ ns'.subscribing = ns.subscribing /\ ns'.subscription = ns.subscription
        /\ ns'.sequence = ns.sequence /\ ns'.onSubscribe = ns.onSubscribe
        /\ phase' = [q \in TrustSubscribers |-> IF q \in {s} THEN "given" ELSE phase[q]]
    BY <1>1, <1>2, <1>3, <1>4, GiveIs
  <1>6. phase' = [phase EXCEPT ![s] = "given"]
    BY <1>2, <1>5 DEF NsTypes
  <1>7. /\ Trusted!Counted' = Trusted!Counted \cup {s} /\ IsFiniteSet(Trusted!Counted')
        /\ Cardinality(Trusted!Counted') = Cardinality(Trusted!Counted) + 1
        /\ phase' \in [TrustSubscribers -> Phases] /\ phase'[s] = "given"
        /\ \A q \in TrustSubscribers : q # s => phase'[q] = phase[q]
    BY <1>1, <1>2, <1>6, OneMore
  <1>8. Trusted!SubscribersAreIn'
    BY <1>1, <1>2, <1>3, <1>4, GivenAreIn
  <1>9. exists
    BY <1>1, <1>2, NewEntryIs DEF Participants
  <1>10. Trusted!Watching /\ Trusted!Watching'
    BY <1>1, <1>5, <1>9 DEF Trusted!Watching
  <1>11. Participants'
    <2>1. \A q \in ns'.onSubscribe \cup dispatched' : q \in TrustSubscribers /\ phase'[q] = "waiting"
      BY <1>1, <1>2, <1>5, <1>7 DEF Participants
    <2>2. ~ns'.subscribing
      BY <1>1, <1>2, <1>5 DEF Participants
    <2>3. QED
      BY <1>1, <1>2, <1>5, <1>7, <1>8, <1>9, <1>10, <2>1, <2>2 DEF Participants
  <1>12. InDatabase'
    BY <1>1, <1>2, <1>5, SameDatabase
  <1>13. QED
    BY <1>1, <1>2, <1>5, <1>7, <1>9, <1>10, <1>11, <1>12, Quiet DEF NsTypes

LEMMA SubscribeWaitsStep ==
    ASSUME NsInv, NEW s \in TrustSubscribers, Trusted!SubscribeWaits(s)
    PROVE  NsInv'
  <1>1. /\ UNCHANGED <<offered, instance, reporting, toDist, distNotes, exists, counter, dispatched,
                       stored, toDatabase, resumes, erased>>
        /\ phase[s] = "idle" /\ ~ns.subscription /\ ns.subscribing
        /\ ns' = [Trusted!Entered EXCEPT !.onSubscribe = @ \cup {s}] /\ phase' = [phase EXCEPT ![s] = "waiting"]
    BY DEF Trusted!SubscribeWaits, Trusted!distVars, Trusted!dataVars
  <1>2. NsTypes /\ Participants /\ InDatabase
    BY DEF NsInv
  <1>3. PICK n : n = Trusted!Entered
    OBVIOUS
  <1>4. /\ n \in NsEntry /\ n.types = ns.types
        /\ n.allowed = ns.allowed /\ n.inDatabase = ns.inDatabase
        /\ n.nSubscriptions = ns.nSubscriptions + 1
        /\ n.subscribing = ns.subscribing /\ n.subscription = ns.subscription
        /\ n.sequence = ns.sequence /\ n.onSubscribe = ns.onSubscribe
    BY <1>2, <1>3, EnteredIs
  <1>5. ns' = [n EXCEPT !.onSubscribe = @ \cup {s}] /\ n.onSubscribe \cup {s} \in SUBSET TrustSubscribers
    BY <1>1, <1>2, <1>3, <1>4, EntryHas
  <1>6. /\ ns' \in NsEntry /\ ns'.types = ns.types
        /\ ns'.allowed = ns.allowed /\ ns'.inDatabase = ns.inDatabase
        /\ ns'.nSubscriptions = ns.nSubscriptions + 1
        /\ ns'.subscribing = ns.subscribing /\ ns'.subscription = ns.subscription
        /\ ns'.sequence = ns.sequence /\ ns'.onSubscribe = ns.onSubscribe \cup {s}
    BY <1>4, <1>5 DEF NsEntry
  <1>7. /\ Trusted!Counted' = Trusted!Counted \cup {s} /\ IsFiniteSet(Trusted!Counted')
        /\ Cardinality(Trusted!Counted') = Cardinality(Trusted!Counted) + 1
        /\ phase' \in [TrustSubscribers -> Phases] /\ phase'[s] = "waiting"
        /\ \A q \in TrustSubscribers : q # s => phase'[q] = phase[q]
    BY <1>1, <1>2, OneMore
  <1>8. Trusted!SubscribersAreIn'
    <2>1. Trusted!SubscribersAreIn
      BY <1>2 DEF Participants
    <2>2. SUFFICES ASSUME NEW q \in TrustSubscribers, phase'[q] \notin {"idle", "gone", "subscribing", "waiting"}
                   PROVE  /\ ns.subscription /\ Trusted!TypeOf(q) \in DOMAIN ns.types
                          /\ q \in ns.types[Trusted!TypeOf(q)].subs
      BY <1>6 DEF Trusted!SubscribersAreIn, Trusted!Counted, Trusted!TypeOf
    <2>3. phase[q] \notin {"idle", "gone", "subscribing", "waiting"}
      BY <1>7, <2>2
    <2>4. QED
      BY <2>1, <2>3 DEF Trusted!SubscribersAreIn, Trusted!Counted
  <1>9. exists
    BY <1>1, <1>2, NewEntryIs DEF Participants
  <1>10. Trusted!Watching /\ Trusted!Watching' /\ TypesKept
    BY <1>1, <1>6, <1>9 DEF Trusted!Watching, TypesKept
  <1>11. Participants'
    <2>1. \A q \in ns'.onSubscribe \cup dispatched' : q \in TrustSubscribers /\ phase'[q] = "waiting"
      BY <1>1, <1>2, <1>6, <1>7 DEF Participants
    <2>2. \E q \in TrustSubscribers : phase'[q] = "subscribing"
      <3>1. PICK q \in TrustSubscribers : phase[q] = "subscribing"
        BY <1>1, <1>2 DEF Participants
      <3>2. phase'[q] = "subscribing"
        BY <1>1, <1>7, <3>1
      <3>3. QED
        BY <3>2
    <2>3. dispatched = {}
      BY <1>1, <1>2 DEF Participants
    <2>4. ns'.nSubscriptions = Cardinality(Trusted!Counted')
      BY <1>2, <1>6, <1>7 DEF Participants
    <2>5. DOMAIN ns'.types # {} => Trusted!Watching'
      BY <1>10
    <2>6. ~ns'.subscription /\ ns'.subscribing /\ exists' /\ dispatched' = {}
      BY <1>1, <1>6, <1>9, <2>3
    <2>7. QED
      BY <1>8, <2>1, <2>2, <2>4, <2>5, <2>6 DEF Participants
  <1>12. InDatabase'
    BY <1>1, <1>2, <1>6, SameDatabase
  <1>13. QED
    BY <1>1, <1>2, <1>6, <1>7, <1>9, <1>10, <1>11, <1>12, Quiet DEF NsTypes

LEMMA SubscribeFirstStep ==
    ASSUME NsInv, NEW s \in TrustSubscribers, Trusted!SubscribeFirst(s)
    PROVE  NsInv'
  <1>1. /\ UNCHANGED <<offered, instance, reporting, distNotes, dispatched, stored, toDatabase, resumes, erased>>
        /\ phase[s] = "idle" /\ ~ns.subscription /\ ~ns.subscribing /\ exists' = TRUE /\ counter' = counter + 1
        /\ ns' = [Trusted!Entered EXCEPT !.subscribing = TRUE, !.sequence = counter']
        /\ phase' = [phase EXCEPT ![s] = "subscribing"] /\ toDist' = Append(toDist, "subscribe")
    BY DEF Trusted!SubscribeFirst, Trusted!distVars, Trusted!dataVars
  <1>2. NsTypes /\ Answered /\ Participants /\ InRound /\ Noted /\ Fresh /\ Turns /\ InDatabase
    BY DEF NsInv
  <1>3. PICK n : n = Trusted!Entered
    OBVIOUS
  <1>4. /\ n \in NsEntry /\ n.types = ns.types
        /\ n.allowed = ns.allowed /\ n.inDatabase = ns.inDatabase
        /\ n.nSubscriptions = ns.nSubscriptions + 1
        /\ n.subscribing = ns.subscribing /\ n.subscription = ns.subscription
        /\ n.sequence = ns.sequence /\ n.onSubscribe = ns.onSubscribe
    BY <1>2, <1>3, EnteredIs
  <1>5. PICK c \in Nat : c = counter /\ c + 1 \in Nat
    BY <1>2 DEF NsTypes
  <1>6. ns' = [n EXCEPT !.subscribing = TRUE, !.sequence = c + 1]
    BY <1>1, <1>3, <1>5
  <1>7. /\ ns' \in NsEntry /\ ns'.types = ns.types
        /\ ns'.allowed = ns.allowed /\ ns'.inDatabase = ns.inDatabase
        /\ ns'.nSubscriptions = ns.nSubscriptions + 1
        /\ ns'.subscribing /\ ns'.subscribing = TRUE /\ ns'.subscription = ns.subscription
        /\ ns'.sequence = c + 1 /\ ns'.onSubscribe = ns.onSubscribe
    BY <1>4, <1>5, <1>6 DEF NsEntry
  <1>8. /\ Trusted!Counted' = Trusted!Counted \cup {s} /\ IsFiniteSet(Trusted!Counted')
        /\ Cardinality(Trusted!Counted') = Cardinality(Trusted!Counted) + 1
        /\ phase' \in [TrustSubscribers -> Phases] /\ phase'[s] = "subscribing"
        /\ \A q \in TrustSubscribers : q # s => phase'[q] = phase[q]
    BY <1>1, <1>2, OneMore
  <1>9. Trusted!SubscribersAreIn'
    <2>1. Trusted!SubscribersAreIn
      BY <1>2 DEF Participants
    <2>2. SUFFICES ASSUME NEW q \in TrustSubscribers, phase'[q] \notin {"idle", "gone", "subscribing", "waiting"}
                   PROVE  /\ ns.subscription /\ Trusted!TypeOf(q) \in DOMAIN ns.types
                          /\ q \in ns.types[Trusted!TypeOf(q)].subs
      BY <1>7 DEF Trusted!SubscribersAreIn, Trusted!Counted, Trusted!TypeOf
    <2>3. phase[q] \notin {"idle", "gone", "subscribing", "waiting"}
      BY <1>8, <2>2
    <2>4. QED
      BY <2>1, <2>3 DEF Trusted!SubscribersAreIn, Trusted!Counted
  <1>10. ~Trusted!Watching /\ Trusted!Watching' /\ DOMAIN ns.types = {} /\ dispatched = {} /\ ns.onSubscribe = {}
    BY <1>1, <1>2, <1>7 DEF Trusted!Watching, Participants
  <1>11. Participants'
    <2>1. ns'.nSubscriptions = Cardinality(Trusted!Counted')
      BY <1>2, <1>7, <1>8 DEF Participants
    <2>2. \E q \in TrustSubscribers : phase'[q] = "subscribing"
      BY <1>8
    <2>3. exists' /\ ns'.onSubscribe = {} /\ dispatched' = {} /\ ~ns'.subscription
      BY <1>1, <1>7, <1>10
    <2>4. QED
      BY <1>9, <1>10, <2>1, <2>2, <2>3 DEF Participants
  <1>12. InDatabase'
    BY <1>1, <1>2, <1>7, SameDatabase
  <1>13. ~OnItsWay("subscribe") /\ reporting \in Nat
    BY <1>1, <1>2, Outstanding DEF NsTypes
  <1>14. /\ "subscribe" \in Message /\ "reported" \in Message /\ "unsubscribe" \in Message
         /\ "first" \in Kinds /\ "subscribed" \in Kinds
    BY DEF Message, Kinds
  <1>15. /\ toDist' \in Seq(Message) /\ Len(toDist) \in Nat /\ Len(toDist') = Len(toDist) + 1
         /\ toDist'[Len(toDist) + 1] = "subscribe" /\ \A i \in 1..Len(toDist) : toDist'[i] = toDist[i]
         /\ \A x : OnItsWay(x)' <=> OnItsWay(x) \/ x = "subscribe"
    BY <1>1, <1>2, <1>14, MessageMore
  <1>16. Answered'
    <2>1. /\ Count(toDist', "subscribe") = Count(toDist, "subscribe") + 1
          /\ Count(toDist', "reported") = Count(toDist, "reported")
      BY <1>1, <1>2, <1>14, MessageCounts
    <2>2. Count(toDist, "subscribe") \in Nat /\ KindCount(distNotes, "subscribed") \in Nat
      BY <1>2, <1>14, CountNone, KindNone DEF NsTypes
    <2>3. PICK a, d \in Nat : a = Count(toDist, "subscribe") /\ d = KindCount(distNotes, "subscribed")
      BY <2>2
    <2>4. a + d + One(reporting > 0) = One(ns.subscribing)
      BY <1>2, <2>3 DEF Answered
    <2>5. a + 1 + d + One(reporting > 0) = One(ns'.subscribing)
      BY <1>1, <1>7, <2>4 DEF One
    <2>6. Count(toDist', "subscribe") = a + 1 /\ reporting' = reporting /\ KindCount(distNotes', "subscribed") = d
      BY <1>1, <2>1, <2>3
    <2>7. KindCount(distNotes', "first") = KindCount(distNotes, "first")
      BY <1>1
    <2>8. QED
      BY <1>2, <2>1, <2>5, <2>6, <2>7 DEF Answered
  <1>17. NsTypes'
    <2>1. counter' \in Nat /\ exists' \in BOOLEAN
      BY <1>1, <1>5
    <2>2. QED
      BY <1>1, <1>2, <1>7, <1>8, <1>15, <2>1 DEF NsTypes
  <1>18. \A i : Effective(i)' <=> Effective(i)
    BY <1>1 DEF Effective
  <1>19. \A i \in 1..Len(distNotes) : Effective(i) => distNotes[i].sequence \in Nat /\ distNotes[i].sequence <= c
    BY <1>2, <1>5, NoteIs DEF Noted
  <1>20. instance \in Nat /\ instance <= c
    BY <1>2, <1>5 DEF NsTypes, InRound
  <1>21. InRound'
    <2>1. ASSUME NEW i \in 1..Len(toDist'), NEW j \in 1..Len(toDist'), toDist'[i] = "subscribe", toDist'[j] = "unsubscribe"
          PROVE  j < i
      <3>1. j \in 1..Len(toDist)
        BY <1>15, <2>1
      <3>2. i \notin 1..Len(toDist)
        BY <1>13, <1>15, <2>1 DEF OnItsWay
      <3>3. QED
        BY <1>15, <3>1, <3>2
    <2>2. counter' > 0 /\ instance' < counter' /\ instance' <= counter'
      BY <1>1, <1>5, <1>20
    <2>3. ns'.sequence = counter'
      BY <1>1, <1>5, <1>7
    <2>4. OnItsWay("subscribe")'
      BY <1>15
    <2>5. QED
      BY <2>1, <2>2, <2>3, <2>4 DEF InRound
  <1>22. Noted'
    <2>1. SUFFICES ASSUME NEW i \in 1..Len(distNotes), Effective(i)
                   PROVE  /\ distNotes[i].sequence < c + 1
                          /\ distNotes[i].sequence <= c + 1
                          /\ instance # 0 => distNotes[i].sequence <= instance
                          /\ \A j \in 1..Len(distNotes) :
                                Effective(j) /\ i < j => distNotes[i].sequence <= distNotes[j].sequence
      BY <1>1, <1>5, <1>18 DEF Noted
    <2>2. distNotes[i].sequence < c + 1 /\ distNotes[i].sequence <= c + 1
      BY <1>5, <1>19, <2>1
    <2>3. QED
      BY <1>2, <2>1, <2>2 DEF Noted
  <1>23. NoneMapped' /\ \A h : Clean(h)'
    BY <1>7, <1>10 DEF NoneMapped, Clean
  <1>24. Turns'
    <2>1. \A i \in 1..Len(distNotes) : \A h : ~About(i, h)'
      BY <1>1, <1>5, <1>18, <1>19 DEF About
    <2>2. instance' # counter'
      BY <1>1, <1>5, <1>20
    <2>3. QED
      BY <1>1, <2>1, <2>2 DEF Turns
  <1>25. Fresh'
    BY <1>23 DEF Fresh
  <1>26. QED
    BY <1>11, <1>12, <1>16, <1>17, <1>21, <1>22, <1>24, <1>25 DEF NsInv

\* The first has its subscription.
LEMMA OnSubscribeStep ==
    ASSUME NsInv, Trusted!OnSubscribe
    PROVE  NsInv'
  <1>1. /\ UNCHANGED <<offered, instance, reporting, toDist, distNotes, exists, counter, stored, toDatabase,
                       resumes, erased>>
        /\ dispatched # {} /\ exists /\ dispatched' = {} /\ Trusted!Give(dispatched, ns)
    BY DEF Trusted!OnSubscribe, Trusted!distVars, Trusted!dataVars
  <1>2. NsTypes /\ Participants /\ InDatabase
    BY DEF NsInv
  <1>3. /\ dispatched \in SUBSET TrustSubscribers /\ ns \in NsEntry /\ ns.subscription
        /\ \A s \in dispatched : phase[s] = "waiting"
    BY <1>1, <1>2 DEF Participants, NsTypes
  <1>4. /\ ns' \in NsEntry /\ TypesKept
        /\ ns'.allowed = ns.allowed /\ ns'.inDatabase = ns.inDatabase /\ ns'.nSubscriptions = ns.nSubscriptions
        /\ ns'.subscribing = ns.subscribing /\ ns'.subscription = ns.subscription
        /\ ns'.sequence = ns.sequence /\ ns'.onSubscribe = ns.onSubscribe
        /\ phase' = [q \in TrustSubscribers |-> IF q \in dispatched THEN "given" ELSE phase[q]]
    <2>1. PICK n \in NsEntry : n = ns
      BY <1>3
    <2>2. n.types = ns.types /\ Trusted!Give(dispatched, n)
      BY <1>1, <2>1
    <2>3. /\ ns' \in NsEntry /\ TypesKept
          /\ ns'.allowed = n.allowed /\ ns'.inDatabase = n.inDatabase /\ ns'.nSubscriptions = n.nSubscriptions
          /\ ns'.subscribing = n.subscribing /\ ns'.subscription = n.subscription
          /\ ns'.sequence = n.sequence /\ ns'.onSubscribe = n.onSubscribe
          /\ phase' = [q \in TrustSubscribers |-> IF q \in dispatched THEN "given" ELSE phase[q]]
      BY <1>2, <1>3, <2>2, GiveIs
    <2>4. QED
      BY <2>1, <2>3
  <1>5. Trusted!SubscribersAreIn'
    BY <1>1, <1>2, <1>3, GivenAreIn
  <1>6. phase' \in [TrustSubscribers -> Phases]
    BY <1>2, <1>4 DEF NsTypes, Phases
  <1>7. Trusted!Counted' = Trusted!Counted
    BY <1>3, <1>4 DEF Trusted!Counted
  <1>8. Trusted!Watching /\ Trusted!Watching'
    BY <1>1, <1>3, <1>4 DEF Trusted!Watching
  <1>9. Participants'
    <2>1. ~ns.subscribing /\ ns.onSubscribe = {}
      BY <1>2, <1>3 DEF Participants
    <2>2. ns'.onSubscribe = {} /\ dispatched' = {} /\ ~ns'.subscribing /\ exists'
      BY <1>1, <1>4, <2>1
    <2>3. ns'.nSubscriptions = Cardinality(Trusted!Counted')
      BY <1>2, <1>4, <1>7 DEF Participants
    <2>4. QED
      BY <1>5, <1>8, <2>2, <2>3 DEF Participants
  <1>10. InDatabase'
    BY <1>1, <1>2, <1>4, SameDatabase
  <1>11. QED
    BY <1>1, <1>2, <1>4, <1>6, <1>7, <1>8, <1>9, <1>10, Quiet DEF NsTypes

----------------------------------------------------------------------------
(* The trust manager takes a note.                                         *)

\* A report may be answered with it.
LEMMA InRoundReported ==
    ASSUME NsTypes, InRound, UNCHANGED <<instance, counter>>, Trusted!Watching' = Trusted!Watching,
           ns'.sequence = ns.sequence, toDist' = toDist \/ toDist' = Append(toDist, "reported")
    PROVE  /\ InRound' /\ toDist' \in Seq(Message)
           /\ OnItsWay("subscribe")' <=> OnItsWay("subscribe")
           /\ OnItsWay("unsubscribe")' <=> OnItsWay("unsubscribe")
  <1>1. CASE toDist' = toDist
    <2>1. \A x : OnItsWay(x)' <=> OnItsWay(x)
      BY <1>1 DEF OnItsWay
    <2>2. InRound'
      BY <1>1, <2>1 DEF InRound
    <2>3. QED
      BY <1>1, <2>1, <2>2 DEF NsTypes
  <1>2. CASE toDist' = Append(toDist, "reported")
    <2>1. "reported" \in Message
      BY DEF Message
    <2>2. /\ toDist' \in Seq(Message) /\ Len(toDist) \in Nat /\ Len(toDist') = Len(toDist) + 1
          /\ toDist'[Len(toDist) + 1] = "reported" /\ \A i \in 1..Len(toDist) : toDist'[i] = toDist[i]
          /\ \A x : OnItsWay(x)' <=> OnItsWay(x) \/ x = "reported"
      BY <1>2, <2>1, MessageMore
    <2>3. /\ OnItsWay("subscribe")' <=> OnItsWay("subscribe")
          /\ OnItsWay("unsubscribe")' <=> OnItsWay("unsubscribe")
      BY <2>2
    <2>4. \A i, j \in 1..Len(toDist') : toDist'[i] = "subscribe" /\ toDist'[j] = "unsubscribe" => j < i
      <3>1. SUFFICES ASSUME NEW i \in 1..Len(toDist'), NEW j \in 1..Len(toDist'),
                            toDist'[i] = "subscribe", toDist'[j] = "unsubscribe"
                     PROVE  j < i
        OBVIOUS
      <3>2. i \in 1..Len(toDist) /\ j \in 1..Len(toDist)
        BY <2>2, <3>1
      <3>3. QED
        BY <2>2, <3>1, <3>2 DEF InRound
    <2>5. InRound'
      BY <2>3, <2>4 DEF InRound
    <2>6. QED
      BY <2>2, <2>3, <2>5
  <1>3. QED
    BY <1>1, <1>2

LEMMA NotedLess ==
    ASSUME NsTypes, Noted, distNotes # <<>>, distNotes' = Tail(distNotes), UNCHANGED <<instance, counter>>,
           OnItsWay("subscribe")' => OnItsWay("subscribe")
    PROVE  Noted'
  <1>1. PICK n \in Nat : n = Len(distNotes')
    BY NoteLess
  <1>2. /\ Len(distNotes) = n + 1
        /\ \A i \in 1..n : i + 1 \in 1..(n + 1) /\ distNotes'[i] = distNotes[i + 1]
        /\ \A i \in 1..n : Effective(i)' <=> Effective(i + 1)
    BY <1>1, NoteLess
  <1>3. SUFFICES ASSUME NEW i \in 1..n, Effective(i)'
                 PROVE  /\ distNotes'[i].sequence <= counter
                        /\ instance # 0 => distNotes'[i].sequence <= instance
                        /\ \A j \in 1..n : Effective(j)' /\ i < j => distNotes'[i].sequence <= distNotes'[j].sequence
                        /\ OnItsWay("subscribe")' => distNotes'[i].sequence < counter
    BY <1>1 DEF Noted
  <1>4. /\ distNotes[i + 1].sequence <= counter
        /\ instance # 0 => distNotes[i + 1].sequence <= instance
        /\ \A j \in 1..(n + 1) :
              Effective(j) /\ i + 1 < j => distNotes[i + 1].sequence <= distNotes[j].sequence
        /\ OnItsWay("subscribe") => distNotes[i + 1].sequence < counter
    BY <1>2, <1>3 DEF Noted
  <1>5. ASSUME NEW j \in 1..n, Effective(j)', i < j PROVE distNotes'[i].sequence <= distNotes'[j].sequence
    <2>1. j + 1 \in 1..(n + 1) /\ Effective(j + 1) /\ i + 1 < j + 1
      BY <1>2, <1>5
    <2>2. QED
      BY <1>2, <1>4, <2>1
  <1>6. QED
    BY <1>2, <1>4, <1>5

\* A note of the present subscription comes after all of earlier ones.
LEMMA PresentNote ==
    ASSUME NsInv, Trusted!Watching, distNotes # <<>>, NEW h, About(1, h)
    PROVE  /\ instance = counter /\ ~OnItsWay("unsubscribe")
           /\ \A i \in 1..Len(distNotes) : Effective(i) => ~(distNotes[i].sequence < counter)
  <1>1. NsTypes /\ InRound /\ Noted
    BY DEF NsInv
  <1>2. 1 \in 1..Len(distNotes) /\ Effective(1) /\ distNotes[1].sequence = counter /\ counter \in Nat
    BY <1>1 DEF About, Effective, NsTypes
  <1>3. ~OnItsWay("subscribe")
    BY <1>1, <1>2 DEF Noted
  <1>4. \A i \in 1..Len(distNotes) : Effective(i) => distNotes[i].sequence \in Nat
    BY <1>1, NoteIs
  <1>5. ASSUME NEW i \in 1..Len(distNotes), Effective(i) PROVE ~(distNotes[i].sequence < counter)
    <2>1. i = 1 \/ 1 < i
      BY <1>2
    <2>2. counter <= distNotes[i].sequence
      BY <1>1, <1>2, <1>5, <2>1 DEF Noted
    <2>3. QED
      BY <1>2, <1>4, <1>5, <2>2
  <1>6. QED
    BY <1>1, <1>3, <1>5 DEF InRound

LEMMA FreshTaken ==
    ASSUME NsInv, distNotes # <<>>, distNotes' = Tail(distNotes), UNCHANGED <<instance, counter>>,
           OnItsWay("unsubscribe")' <=> OnItsWay("unsubscribe"),
           (NoneMapped => NoneMapped') \/ (Trusted!Watching /\ \E h : About(1, h))
    PROVE  Fresh'
  <1>1. NsTypes /\ Fresh
    BY DEF NsInv
  <1>2. PICK n \in Nat : n = Len(distNotes')
    BY <1>1, NoteLess
  <1>3. /\ Len(distNotes) = n + 1
        /\ \A i \in 1..n : i + 1 \in 1..(n + 1) /\ distNotes'[i] = distNotes[i + 1]
        /\ \A i \in 1..n : Effective(i)' <=> Effective(i + 1)
    BY <1>1, <1>2, NoteLess
  <1>4. (\E i \in 1..n : Effective(i)' /\ distNotes'[i].sequence < counter) =>
           \E i \in 1..(n + 1) : Effective(i) /\ distNotes[i].sequence < counter
    BY <1>3
  <1>5. CASE NoneMapped => NoneMapped'
    BY <1>1, <1>2, <1>3, <1>4, <1>5 DEF Fresh
  <1>6. CASE Trusted!Watching /\ \E h : About(1, h)
    <2>1. /\ instance = counter /\ ~OnItsWay("unsubscribe")
          /\ \A i \in 1..(n + 1) : Effective(i) => ~(distNotes[i].sequence < counter)
      BY <1>3, <1>6, PresentNote
    <2>2. QED
      BY <1>2, <1>4, <2>1 DEF Fresh
  <1>7. QED
    BY <1>5, <1>6

\* Additions and removals still take turns.
LEMMA TurnsTaken ==
    ASSUME NsInv, distNotes # <<>>, distNotes' = Tail(distNotes), UNCHANGED <<instance, counter, offered>>,
           \A h \in Hosts : Clean(h) /\ ~(About(1, h) /\ distNotes[1].kind = "removed") => Clean(h)',
           \A h \in Hosts : About(1, h) /\ distNotes[1].kind # "removed" => Clean(h)'
    PROVE  Turns'
  <1>1. NsTypes /\ Turns
    BY DEF NsInv
  <1>2. PICK n \in Nat : n = Len(distNotes')
    BY <1>1, NoteLess
  <1>3. /\ Len(distNotes) = n + 1 /\ 1 \in 1..(n + 1)
        /\ \A i \in 1..n : i + 1 \in 1..(n + 1) /\ distNotes'[i] = distNotes[i + 1]
        /\ \A i \in 1..n : \A h : About(i, h)' <=> About(i + 1, h)
    BY <1>1, <1>2, NoteLess
  <1>4. \A k \in 1..(n + 1) : k = 1 \/ (k - 1 \in 1..n /\ (k - 1) + 1 = k)
    OBVIOUS
  <1>5. ASSUME NEW h \in Hosts, NEW i \in 1..n, About(i, h)', distNotes'[i].kind = "removed",
               \A j \in 1..n : j < i => ~About(j, h)'
        PROVE  Clean(h)'
    <2>1. About(i + 1, h) /\ distNotes[i + 1].kind = "removed" /\ i + 1 \in 1..(n + 1)
      BY <1>3, <1>5
    <2>2. ASSUME NEW k \in 1..(n + 1), k < i + 1, About(k, h) PROVE k = 1
      <3>1. SUFFICES ASSUME k # 1 PROVE FALSE
        OBVIOUS
      <3>2. k - 1 \in 1..n /\ (k - 1) + 1 = k /\ k - 1 < i
        BY <1>4, <2>2, <3>1
      <3>3. About(k - 1, h)'
        BY <1>3, <2>2, <3>2
      <3>4. QED
        BY <1>5, <3>2, <3>3
    <2>3. CASE About(1, h) /\ distNotes[1].kind = "removed"
      <3>1. 1 < i + 1
        OBVIOUS
      <3>2. PICK k \in 1..(n + 1) : 1 < k /\ k < i + 1 /\ About(k, h)
        BY <1>1, <1>3, <2>1, <2>3, <3>1 DEF Turns
      <3>3. QED
        BY <2>2, <3>2
    <2>4. CASE About(1, h) /\ distNotes[1].kind # "removed"
      BY <2>4
    <2>5. CASE ~About(1, h)
      <3>1. \A k \in 1..(n + 1) : k < i + 1 => ~About(k, h)
        BY <2>2, <2>5
      <3>2. Clean(h)
        BY <1>1, <1>3, <2>1, <3>1 DEF Turns
      <3>3. QED
        BY <2>5, <3>2
    <2>6. QED
      BY <2>3, <2>4, <2>5
  <1>6. ASSUME NEW h \in Hosts, NEW i \in 1..n, NEW j \in 1..n, i < j, About(i, h)', About(j, h)',
               distNotes'[i].kind = "removed", distNotes'[j].kind = "removed"
        PROVE  \E k \in 1..n : i < k /\ k < j /\ About(k, h)' /\ distNotes'[k].kind # "removed"
    <2>1. /\ About(i + 1, h) /\ distNotes[i + 1].kind = "removed" /\ i + 1 \in 1..(n + 1)
          /\ About(j + 1, h) /\ distNotes[j + 1].kind = "removed" /\ j + 1 \in 1..(n + 1) /\ i + 1 < j + 1
      BY <1>3, <1>6
    <2>2. PICK k \in 1..(n + 1) : i + 1 < k /\ k < j + 1 /\ About(k, h) /\ distNotes[k].kind # "removed"
      BY <1>1, <1>3, <2>1 DEF Turns
    <2>3. k - 1 \in 1..n /\ (k - 1) + 1 = k /\ i < k - 1 /\ k - 1 < j
      BY <2>2
    <2>4. About(k - 1, h)' /\ distNotes'[k - 1].kind # "removed"
      BY <1>3, <2>2, <2>3
    <2>5. QED
      BY <2>3, <2>4
  <1>7. ASSUME instance = counter, NEW h \in offered
        PROVE  \/ (\A i \in 1..n : ~About(i, h)') /\ Clean(h)'
               \/ \E i \in 1..n :
                     About(i, h)' /\ distNotes'[i].kind # "removed" /\ \A j \in 1..n : j > i => ~About(j, h)'
    <2>1. h \in Hosts
      BY <1>1 DEF NsTypes
    <2>2. CASE (\A i \in 1..(n + 1) : ~About(i, h)) /\ Clean(h)
      BY <1>3, <2>1, <2>2
    <2>3. ASSUME NEW i \in 1..(n + 1), About(i, h), distNotes[i].kind # "removed",
                 \A j \in 1..(n + 1) : j > i => ~About(j, h)
          PROVE  \/ (\A k \in 1..n : ~About(k, h)') /\ Clean(h)'
                 \/ \E k \in 1..n :
                       About(k, h)' /\ distNotes'[k].kind # "removed" /\ \A j \in 1..n : j > k => ~About(j, h)'
      <3>1. \A j \in 1..n : j + 1 > i => ~About(j, h)'
        BY <1>3, <2>3
      <3>2. CASE i = 1
        <4>1. \A j \in 1..n : j + 1 > i
          BY <3>2
        <4>2. QED
          BY <2>1, <2>3, <3>1, <3>2, <4>1
      <3>3. CASE i # 1
        <4>1. i - 1 \in 1..n /\ (i - 1) + 1 = i
          BY <1>4, <3>3
        <4>2. About(i - 1, h)' /\ distNotes'[i - 1].kind # "removed"
          BY <1>3, <2>3, <4>1
        <4>3. \A j \in 1..n : j > i - 1 => j + 1 > i
          BY <4>1
        <4>4. QED
          BY <3>1, <4>1, <4>2, <4>3
      <3>4. QED
        BY <3>2, <3>3
    <2>4. QED
      BY <1>1, <1>3, <1>7, <2>2, <2>3 DEF Turns
  <1>8. QED
    BY <1>1, <1>2, <1>5, <1>6, <1>7 DEF Turns

LEMMA SubscribedStep ==
    ASSUME NsInv, Trusted!Subscribed
    PROVE  NsInv'
  <1> DEFINE n == [ns EXCEPT !.subscribing = FALSE, !.subscription = TRUE, !.onSubscribe = {}]
             S == {s \in TrustSubscribers : phase[s] = "subscribing"}
  <1>1. /\ UNCHANGED <<offered, instance, reporting, toDist, exists, counter, stored, toDatabase, resumes, erased>>
        /\ distNotes # <<>> /\ Head(distNotes).kind = "subscribed" /\ distNotes' = Tail(distNotes)
        /\ dispatched' = dispatched \cup ns.onSubscribe /\ Trusted!Give(S, n)
    BY DEF Trusted!Subscribed, Trusted!distVars, Trusted!dataVars
  <1>2. NsTypes /\ Answered /\ Participants /\ InRound /\ Noted /\ Turns /\ InDatabase
    BY DEF NsInv
  <1>3. /\ n \in NsEntry /\ n.types = ns.types /\ n.allowed = ns.allowed /\ n.inDatabase = ns.inDatabase
        /\ n.nSubscriptions = ns.nSubscriptions /\ n.subscribing = FALSE /\ n.subscription = TRUE
        /\ n.sequence = ns.sequence /\ n.onSubscribe = {}
    BY <1>2 DEF NsTypes, NsEntry
  <1>4. S \in SUBSET TrustSubscribers
    OBVIOUS
  <1> HIDE DEF n
  <1>5. /\ ns' \in NsEntry /\ TypesKept
        /\ ns'.allowed = ns.allowed /\ ns'.inDatabase = ns.inDatabase /\ ns'.nSubscriptions = ns.nSubscriptions
        /\ ns'.subscribing = FALSE /\ ns'.subscription = TRUE
        /\ ns'.sequence = ns.sequence /\ ns'.onSubscribe = {}
        /\ phase' = [q \in TrustSubscribers |-> IF q \in S THEN "given" ELSE phase[q]]
    <2>1. /\ ns' \in NsEntry /\ TypesKept
          /\ ns'.allowed = n.allowed /\ ns'.inDatabase = n.inDatabase /\ ns'.nSubscriptions = n.nSubscriptions
          /\ ns'.subscribing = n.subscribing /\ ns'.subscription = n.subscription
          /\ ns'.sequence = n.sequence /\ ns'.onSubscribe = n.onSubscribe
          /\ phase' = [q \in TrustSubscribers |-> IF q \in S THEN "given" ELSE phase[q]]
      <3> HIDE DEF S
      <3>1. NsTypes /\ Trusted!Give(S, n) /\ n \in NsEntry /\ n.types = ns.types
        BY <1>1, <1>2, <1>3
      <3>2. QED
        BY <1>4, <3>1, GiveIs
    <2>2. QED
      BY <1>3, <2>1
  <1>6. Trusted!SubscribersAreIn'
    BY <1>1, <1>2, <1>3, <1>4, GivenAreIn
  <1>7. phase' \in [TrustSubscribers -> Phases]
    BY <1>2, <1>5 DEF NsTypes, Phases
  <1>8. Trusted!Counted' = Trusted!Counted
    BY <1>5 DEF Trusted!Counted
  <1>9. ns.subscribing /\ exists
    <2>1. ns.subscribing
      BY <1>1, <1>2, Outstanding
    <2>2. QED
      BY <1>2, <2>1, NewEntryIs DEF Participants
  <1>10. Trusted!Watching = TRUE /\ Trusted!Watching' = TRUE
    BY <1>1, <1>5, <1>9 DEF Trusted!Watching
  <1>11. Participants'
    <2>1. \A q \in ns'.onSubscribe \cup dispatched' : q \in TrustSubscribers /\ phase'[q] = "waiting"
      <3>1. SUFFICES ASSUME NEW q \in dispatched \cup ns.onSubscribe
                     PROVE  q \in TrustSubscribers /\ phase'[q] = "waiting"
        BY <1>1, <1>5
      <3>2. q \in TrustSubscribers /\ phase[q] = "waiting"
        BY <1>2 DEF Participants
      <3>3. QED
        BY <1>5, <3>2
    <2>2. ns'.nSubscriptions = Cardinality(Trusted!Counted')
      BY <1>2, <1>5, <1>8 DEF Participants
    <2>3. ns'.onSubscribe = {} /\ ns'.subscription /\ ~ns'.subscribing /\ exists'
      BY <1>1, <1>5, <1>9
    <2>4. QED
      BY <1>6, <1>10, <2>1, <2>2, <2>3 DEF Participants
  <1>12. InDatabase'
    BY <1>1, <1>2, <1>5, SameDatabase
  <1>13. /\ distNotes' \in Seq(DistNote) /\ Head(distNotes) = distNotes[1]
    BY <1>1, <1>2, NoteLess
  <1>14. \A h : ~About(1, h)
    BY <1>1, <1>13 DEF About, Effective
  <1>15. /\ InRound' /\ toDist' \in Seq(Message)
         /\ OnItsWay("subscribe")' <=> OnItsWay("subscribe")
         /\ OnItsWay("unsubscribe")' <=> OnItsWay("unsubscribe")
    BY <1>1, <1>2, <1>5, <1>10, InRoundReported
  <1>16. Noted'
    BY <1>1, <1>2, <1>15, NotedLess
  <1>17. Fresh'
    BY <1>1, <1>5, <1>15, KeptClean, FreshTaken
  <1>18. Turns'
    <2>1. \A h \in Hosts : Clean(h) => Clean(h)'
      BY <1>5, KeptCleanOf
    <2>2. QED
      BY <1>1, <1>14, <2>1, TurnsTaken
  <1>19. Answered'
    <2>1. "first" \in Kinds /\ "subscribed" \in Kinds /\ "subscribe" \in Message
      BY DEF Kinds, Message
    <2>2. /\ KindCount(distNotes', "first") = KindCount(distNotes, "first")
          /\ KindCount(distNotes, "subscribed") = KindCount(distNotes', "subscribed") + 1
          /\ KindCount(distNotes', "subscribed") \in Nat
      BY <1>1, <1>2, <2>1, NoteTaken
    <2>3. PICK a, d \in Nat : a = Count(toDist, "subscribe") /\ d = KindCount(distNotes', "subscribed")
      BY <1>2, <2>1, <2>2, CountNone DEF NsTypes
    <2>4. a + (d + 1) + One(reporting > 0) = 1
      BY <1>2, <1>9, <2>2, <2>3 DEF Answered, One
    <2>5. a + d + One(reporting > 0) = 0
      BY <2>4 DEF One
    <2>6. QED
      BY <1>1, <1>2, <1>5, <2>2, <2>3, <2>5 DEF Answered, One
  <1>20. NsTypes'
    BY <1>1, <1>2, <1>5, <1>7, <1>8, <1>13 DEF NsTypes
  <1>21. QED
    BY <1>11, <1>12, <1>15, <1>16, <1>17, <1>18, <1>19, <1>20 DEF NsInv

\* A note about an actor: only the types of the entry change.
LEMMA ActorTaken ==
    ASSUME NsInv, distNotes # <<>>, Head(distNotes).kind \in {"new", "first", "removed"},
           distNotes' = Tail(distNotes),
           toDist' = IF Head(distNotes).kind = "first" THEN Append(toDist, "reported") ELSE toDist,
           UNCHANGED <<offered, instance, reporting, exists, counter, dispatched, stored, toDatabase, resumes,
                       erased, phase>>,
           NEW f \in TypeMaps, ns' = [ns EXCEPT !.types = f], DOMAIN f # {} => Trusted!Watching,
           \A t \in DOMAIN ns.types : \A s \in ns.types[t].subs : t \in DOMAIN f /\ s \in f[t].subs,
           (NoneMapped => NoneMapped') \/ (Trusted!Watching /\ \E h : About(1, h)),
           \A h \in Hosts : Clean(h) /\ ~(About(1, h) /\ distNotes[1].kind = "removed") => Clean(h)',
           \A h \in Hosts : About(1, h) /\ distNotes[1].kind # "removed" => Clean(h)'
    PROVE  NsInv'
  <1>1. NsTypes /\ Answered /\ Participants /\ InRound /\ Noted /\ InDatabase
    BY DEF NsInv
  <1>2. /\ ns' \in NsEntry /\ ns'.types = f /\ ns'.allowed = ns.allowed /\ ns'.inDatabase = ns.inDatabase
        /\ ns'.nSubscriptions = ns.nSubscriptions /\ ns'.subscribing = ns.subscribing
        /\ ns'.subscription = ns.subscription /\ ns'.sequence = ns.sequence /\ ns'.onSubscribe = ns.onSubscribe
    BY <1>1 DEF NsTypes, NsEntry
  <1>3. Trusted!Watching' = Trusted!Watching /\ Trusted!Counted' = Trusted!Counted
    BY <1>2 DEF Trusted!Watching, Trusted!Counted
  <1>4. Participants'
    <2>1. Trusted!SubscribersAreIn'
      <3>1. Trusted!SubscribersAreIn
        BY <1>1 DEF Participants
      <3>2. SUFFICES ASSUME NEW s \in Trusted!Counted, phase[s] \notin {"subscribing", "waiting"}
                     PROVE  /\ ns.subscription /\ Trusted!TypeOf(s) \in DOMAIN f
                            /\ s \in f[Trusted!TypeOf(s)].subs
        BY <1>2, <1>3 DEF Trusted!SubscribersAreIn, Trusted!TypeOf
      <3>3. QED
        BY <3>1, <3>2 DEF Trusted!SubscribersAreIn
    <2>2. exists \/ ns' = Trusted!NewEntry
      <3>1. SUFFICES ASSUME ~exists PROVE ns' = Trusted!NewEntry
        OBVIOUS
      <3>2. ns = Trusted!NewEntry /\ DOMAIN f = {}
        BY <1>1, <3>1 DEF Participants, Trusted!Watching
      <3>3. f \in [{} -> TypeStates]
        BY <3>2, MapHas
      <3>4. f = << >>
        BY <3>3
      <3>5. ns.types = << >>
        BY <3>2 DEF Trusted!NewEntry
      <3>6. QED
        BY <1>1, <3>2, <3>4, <3>5 DEF NsTypes, NsEntry
    <2>3. DOMAIN ns'.types # {} => Trusted!Watching'
      BY <1>2, <1>3
    <2>4. QED
      BY <1>1, <1>2, <1>3, <2>1, <2>2, <2>3 DEF Participants
  <1>5. InDatabase'
    BY <1>1, <1>2, SameDatabase
  <1>6. distNotes' \in Seq(DistNote)
    BY <1>1, NoteLess
  <1>7. /\ InRound' /\ toDist' \in Seq(Message)
        /\ OnItsWay("subscribe")' <=> OnItsWay("subscribe")
        /\ OnItsWay("unsubscribe")' <=> OnItsWay("unsubscribe")
    BY <1>1, <1>2, <1>3, InRoundReported
  <1>8. Noted'
    BY <1>1, <1>7, NotedLess
  <1>9. Fresh'
    BY <1>7, FreshTaken
  <1>10. Turns'
    BY TurnsTaken
  <1>11. Answered'
    <2>1. /\ "first" \in Kinds /\ "subscribed" \in Kinds /\ "subscribe" \in Message /\ "reported" \in Message
          /\ "reported" # "subscribe"
      BY DEF Kinds, Message
    <2>2. KindCount(distNotes', "subscribed") = KindCount(distNotes, "subscribed")
      BY <1>1, <2>1, NoteTaken
    <2>3. CASE Head(distNotes).kind = "first"
      <3>1. /\ KindCount(distNotes, "first") = KindCount(distNotes', "first") + 1
            /\ KindCount(distNotes', "first") \in Nat /\ Count(toDist, "reported") \in Nat
        BY <1>1, <2>1, <2>3, NoteTaken, CountNone DEF NsTypes
      <3>2. /\ Count(toDist', "subscribe") = Count(toDist, "subscribe")
            /\ Count(toDist', "reported") = Count(toDist, "reported") + 1
        BY <1>1, <2>1, <2>3, MessageCounts
      <3>3. PICK a, b \in Nat : a = KindCount(distNotes', "first") /\ b = Count(toDist, "reported")
        BY <3>1
      <3>4. reporting = a + 1 + b
        BY <1>1, <3>1, <3>3 DEF Answered
      <3>5. reporting' = KindCount(distNotes', "first") + Count(toDist', "reported")
        BY <3>2, <3>3, <3>4
      <3>6. QED
        BY <1>1, <1>2, <2>2, <3>2, <3>5 DEF Answered
    <2>4. CASE Head(distNotes).kind # "first"
      <3>1. KindCount(distNotes', "first") = KindCount(distNotes, "first") /\ toDist' = toDist
        BY <1>1, <2>1, <2>4, NoteTaken
      <3>2. QED
        BY <1>1, <1>2, <2>2, <3>1 DEF Answered
    <2>5. QED
      BY <2>3, <2>4
  <1>12. NsTypes'
    BY <1>1, <1>2, <1>3, <1>6, <1>7 DEF NsTypes
  <1>13. QED
    BY <1>4, <1>5, <1>7, <1>8, <1>9, <1>10, <1>11, <1>12 DEF NsInv

\* Nobody watches any more.
LEMMA ActorMissed ==
    ASSUME NsInv, distNotes # <<>>, Head(distNotes).kind \in {"new", "first", "removed"},
           distNotes' = Tail(distNotes),
           toDist' = IF Head(distNotes).kind = "first" THEN Append(toDist, "reported") ELSE toDist,
           UNCHANGED <<offered, instance, reporting, exists, counter, dispatched, stored, toDatabase, resumes,
                       erased, phase, ns>>,
           \A h \in Hosts : About(1, h) /\ distNotes[1].kind # "removed" => ~Trusted!Watching
    PROVE  NsInv'
  <1>1. NsTypes /\ Participants
    BY DEF NsInv
  <1>2. PICK f \in TypeMaps : f = ns.types
    BY <1>1, EntryHas
  <1>3. ns' = [ns EXCEPT !.types = f]
    BY <1>1, <1>2 DEF NsTypes, NsEntry
  <1>4. DOMAIN f # {} => Trusted!Watching
    BY <1>1, <1>2 DEF Participants
  <1>5. NoneMapped' = NoneMapped /\ \A h : Clean(h)' <=> Clean(h)
    BY DEF NoneMapped, Clean
  <1>6. \A h \in Hosts : About(1, h) /\ distNotes[1].kind # "removed" => Clean(h)
    BY <1>2, <1>4 DEF Clean
  <1>7. \A t \in DOMAIN ns.types : \A s \in ns.types[t].subs : t \in DOMAIN f /\ s \in f[t].subs
    BY <1>2
  <1>8. QED
    BY <1>3, <1>4, <1>5, <1>6, <1>7, ActorTaken

LEMMA NewActorStep ==
    ASSUME NsInv, Trusted!NewActor
    PROVE  NsInv'
  <1> DEFINE h == Head(distNotes).host
             f == [t \in Trusted!Types |-> Trusted!Added(t, h)]
  <1>1. /\ UNCHANGED <<offered, instance, reporting, exists, counter, dispatched, stored, toDatabase, resumes,
                       erased, phase>>
        /\ distNotes # <<>> /\ Head(distNotes).kind \in {"new", "first"} /\ distNotes' = Tail(distNotes)
        /\ toDist' = IF Head(distNotes).kind = "first" THEN Append(toDist, "reported") ELSE toDist
    BY DEF Trusted!NewActor, Trusted!distVars, Trusted!dataVars
  <1>2. NsTypes /\ Participants /\ InRound
    BY DEF NsInv
  <1>3. /\ Head(distNotes) = distNotes[1] /\ 1 \in 1..Len(distNotes)
    BY <1>1, <1>2, NoteLess
  <1>4. Effective(1) /\ h \in Hosts /\ distNotes[1].sequence \in Nat
    BY <1>1, <1>2, <1>3, NoteIs DEF Effective
  <1>5. CASE Trusted!Watching /\ ns.sequence = Head(distNotes).sequence
    <2>1. ns' = [ns EXCEPT !.types = f]
      BY <1>5 DEF Trusted!NewActor
    <2>2. About(1, h)
      BY <1>2, <1>3, <1>4, <1>5 DEF About, InRound
    <2>3. ASSUME NEW t \in Trusted!Types
          PROVE  /\ Trusted!Added(t, h) \in TypeStates
                 /\ Trusted!Added(t, h).subs = Trusted!TypeState(ns, t).subs
                 /\ Trusted!Added(t, h).mapped = Trusted!TypeState(ns, t).mapped \cup {h}
                 /\ Trusted!Added(t, h).actors = Trusted!TypeState(ns, t).actors \cup {h}
                 /\ t \in DOMAIN ns.types => Trusted!TypeState(ns, t) = ns.types[t]
                 /\ t \notin DOMAIN ns.types => Trusted!TypeState(ns, t).mapped = {}
      <3>1. /\ Trusted!TypeState(ns, t) \in TypeStates
            /\ t \in DOMAIN ns.types => Trusted!TypeState(ns, t) = ns.types[t]
            /\ t \notin DOMAIN ns.types => Trusted!TypeState(ns, t).mapped = {}
        <4>1. CASE t \in DOMAIN ns.types
          BY <1>2, <4>1, EntryHas DEF Trusted!TypeState
        <4>2. CASE t \notin DOMAIN ns.types
          BY <4>2 DEF Trusted!TypeState, Trusted!NewType, TypeStates
        <4>3. QED
          BY <4>1, <4>2
      <3>2. PICK x \in TypeStates : x = Trusted!TypeState(ns, t)
        BY <3>1
      <3>3. x.mapped \cup {h} \in SUBSET Hosts /\ x.actors \cup {h} \in SUBSET Hosts /\ x.trusted \cup {h} \in SUBSET Hosts
        BY <1>4, <3>2 DEF TypeStates
      <3>4. PICK y : y = IF h \in ns.allowed THEN x.trusted \cup {h} ELSE x.trusted
        OBVIOUS
      <3>5. y \in SUBSET Hosts
        BY <3>2, <3>3, <3>4 DEF TypeStates
      <3>6. Trusted!Added(t, h) = [x EXCEPT !.mapped = x.mapped \cup {h}, !.actors = x.actors \cup {h}, !.trusted = y]
        BY <3>2, <3>4 DEF Trusted!Added
      <3> HIDE DEF h
      <3>7. /\ Trusted!Added(t, h) \in TypeStates
            /\ Trusted!Added(t, h).subs = x.subs
            /\ Trusted!Added(t, h).mapped = x.mapped \cup {h}
            /\ Trusted!Added(t, h).actors = x.actors \cup {h}
        BY <3>2, <3>3, <3>5, <3>6 DEF TypeStates
      <3>8. QED
        BY <3>1, <3>2, <3>7
    <2>4. f \in TypeMaps /\ DOMAIN f = Trusted!Types /\ \A t \in Trusted!Types : f[t] = Trusted!Added(t, h)
      <3>1. f \in [Trusted!Types -> TypeStates] /\ \A t \in Trusted!Types : f[t] = Trusted!Added(t, h)
        BY <2>3
      <3>2. Trusted!Types \in SUBSET TypeIds
        BY DEF Trusted!Types, TypeIds
      <3> HIDE DEF f
      <3>3. QED
        BY <3>1, <3>2, MapIs
    <2>5. \A t \in DOMAIN ns.types : t \in Trusted!Types
      BY <1>2, EntryHas DEF TypeIds, Trusted!Types
    <2> HIDE DEF f
    <2>6. \A t \in DOMAIN ns.types : \A s \in ns.types[t].subs : t \in DOMAIN f /\ s \in f[t].subs
      BY <2>3, <2>4, <2>5
    <2>7. ns'.types = f
      BY <1>2, <2>1 DEF NsTypes, NsEntry
    <2>8. \A g \in Hosts : g = h => Clean(g)'
      BY <2>3, <2>4, <2>7 DEF Clean
    <2>9. \A g \in Hosts : Clean(g) => Clean(g)'
      BY <2>3, <2>4, <2>7 DEF Clean
    <2>10. \A g \in Hosts : About(1, g) => g = h
      BY <1>3 DEF About
    <2>11. QED
      BY <1>1, <1>5, <2>1, <2>2, <2>4, <2>6, <2>8, <2>9, <2>10, ActorTaken
  <1>6. CASE ~(Trusted!Watching /\ ns.sequence = Head(distNotes).sequence)
    <2>1. UNCHANGED ns
      BY <1>6 DEF Trusted!NewActor
    <2>2. \A g \in Hosts : About(1, g) => ~Trusted!Watching
      BY <1>2, <1>3, <1>6 DEF About, InRound
    <2>3. QED
      BY <1>1, <2>1, <2>2, ActorMissed
  <1>7. QED
    BY <1>5, <1>6

LEMMA RemovedActorStep ==
    ASSUME NsInv, Trusted!RemovedActor
    PROVE  NsInv'
  <1> DEFINE h == Head(distNotes).host
             Without(t) == [ns.types[t] EXCEPT !.actors = @ \ {h}, !.trusted = @ \ {h}]
             Emptied(t) == h \in ns.types[t].actors /\ Without(t).actors = {} /\ ns.types[t].subs = {}
             D == {u \in DOMAIN ns.types : ~Emptied(u)}
             f == [t \in D |-> Without(t)]
  <1>1. /\ UNCHANGED <<offered, instance, reporting, toDist, exists, counter, dispatched, stored, toDatabase,
                       resumes, erased, phase>>
        /\ distNotes # <<>> /\ Head(distNotes).kind = "removed" /\ distNotes' = Tail(distNotes)
    BY DEF Trusted!RemovedActor, Trusted!distVars, Trusted!dataVars
  <1>2. NsTypes /\ Participants /\ InRound /\ Noted /\ Fresh
    BY DEF NsInv
  <1>3. Head(distNotes) = distNotes[1] /\ 1 \in 1..Len(distNotes)
    BY <1>1, <1>2, NoteLess
  <1>4. /\ Effective(1) /\ h \in Hosts /\ distNotes[1].sequence \in Nat /\ distNotes[1].kind = "removed"
        /\ distNotes[1].sequence <= counter /\ counter \in Nat
    BY <1>1, <1>2, <1>3, NoteIs DEF Effective, NsTypes, Noted
  <1>5. toDist' = IF Head(distNotes).kind = "first" THEN Append(toDist, "reported") ELSE toDist
    BY <1>1
  <1>6. CASE Trusted!Watching
    <2>1. ns' = [ns EXCEPT !.types = f]
      BY <1>6 DEF Trusted!RemovedActor
    <2>2. ASSUME NEW t \in DOMAIN ns.types
          PROVE  /\ Without(t) \in TypeStates /\ Without(t).subs = ns.types[t].subs
                 /\ Without(t).mapped = ns.types[t].mapped /\ Without(t).actors = ns.types[t].actors \ {h}
      <3>1. PICK x \in TypeStates : x = ns.types[t]
        BY <1>2, EntryHas
      <3>2. Without(t) = [x EXCEPT !.actors = x.actors \ {h}, !.trusted = x.trusted \ {h}]
        BY <3>1
      <3> HIDE DEF Without, h
      <3>3. QED
        BY <3>1, <3>2 DEF TypeStates
    <2>3. D \in SUBSET TypeIds /\ \A t \in D : t \in DOMAIN ns.types
      BY <1>2, EntryHas
    <2>4. \A t \in DOMAIN ns.types : ns.types[t].subs # {} => t \in D
      OBVIOUS
    <2>5. f \in TypeMaps /\ DOMAIN f = D /\ \A t \in D : f[t] = Without(t)
      <3>1. f \in [D -> TypeStates] /\ \A t \in D : f[t] = Without(t)
        BY <2>2, <2>3
      <3> HIDE DEF f, D
      <3>2. QED
        BY <2>3, <3>1, MapIs
    <2> HIDE DEF f, D, Without, Emptied
    <2>6. \A t \in DOMAIN ns.types : \A s \in ns.types[t].subs : t \in DOMAIN f /\ s \in f[t].subs
      BY <2>2, <2>4, <2>5
    <2>7. ns'.types = f
      BY <1>2, <2>1 DEF NsTypes, NsEntry
    <2>8. \A g \in Hosts : g # h /\ Clean(g) => Clean(g)'
      BY <2>2, <2>3, <2>5, <2>7 DEF Clean
    <2>9. NoneMapped => NoneMapped' /\ \A g \in Hosts : Clean(g)'
      BY <2>2, <2>3, <2>5, <2>7 DEF Clean, NoneMapped
    <2>10. (\A g : ~About(1, g)) => NoneMapped
      <3>1. SUFFICES ASSUME ~About(1, h) PROVE NoneMapped
        OBVIOUS
      <3>2. distNotes[1].sequence < counter
        BY <1>3, <1>4, <3>1 DEF About
      <3>3. QED
        BY <1>2, <1>3, <1>4, <3>2 DEF Fresh
    <2>11. (NoneMapped => NoneMapped') \/ (Trusted!Watching /\ \E g : About(1, g))
      BY <1>6, <2>9
    <2>12. \A g \in Hosts : Clean(g) /\ ~(About(1, g) /\ distNotes[1].kind = "removed") => Clean(g)'
      <3>1. SUFFICES ASSUME NEW g \in Hosts, Clean(g), ~About(1, g) PROVE Clean(g)'
        BY <1>4
      <3>2. CASE g = h
        <4>1. distNotes[1].sequence < counter
          BY <1>3, <1>4, <3>1, <3>2 DEF About
        <4>2. NoneMapped
          BY <1>2, <1>3, <1>4, <4>1 DEF Fresh
        <4>3. QED
          BY <2>9, <4>2
      <3>3. QED
        BY <2>8, <3>1, <3>2
    <2>13. \A g \in Hosts : About(1, g) /\ distNotes[1].kind # "removed" => Clean(g)'
      BY <1>4
    <2>14. DOMAIN f # {} => Trusted!Watching
      BY <1>6
    <2>15. QED
      BY <1>1, <1>5, <2>1, <2>5, <2>6, <2>11, <2>12, <2>13, <2>14, ActorTaken
  <1>7. CASE ~Trusted!Watching
    <2>1. UNCHANGED ns
      BY <1>7 DEF Trusted!RemovedActor
    <2>2. QED
      BY <1>1, <1>5, <1>7, <2>1, ActorMissed
  <1>8. QED
    BY <1>6, <1>7

----------------------------------------------------------------------------
(* Subscribers leave, and trust in hosts changes.                          *)

\* Nobody counts on the entry any more.
LEMMA EntryLeft ==
    ASSUME NsInv, ns.subscribing = FALSE, Trusted!Unsubscribes(ns),
           UNCHANGED <<offered, instance, reporting, distNotes, counter, dispatched, stored, toDatabase>>,
           ns' \in NsEntry, DOMAIN ns'.types = {}, ns'.subscribing = FALSE, ns'.subscription = FALSE,
           ns'.onSubscribe = {}, ns'.nSubscriptions = 0, dispatched = {}, Trusted!Counted' = {},
           exists' \in BOOLEAN, exists' \/ ns' = Trusted!NewEntry,
           phase' \in [TrustSubscribers -> Phases], resumes' \in Nat, erased' \in BOOLEAN, InDatabase'
    PROVE  NsInv'
  <1>1. NsTypes /\ Answered /\ InRound /\ Noted /\ Fresh /\ Turns
    BY DEF NsInv
  <1>2. ~Trusted!Watching'
    BY DEF Trusted!Watching
  <1>3. /\ InRound' /\ Noted' /\ Fresh' /\ Turns'
        /\ toDist' \in Seq(Message) /\ Count(toDist, "subscribe")' = Count(toDist, "subscribe")
        /\ Count(toDist, "reported")' = Count(toDist, "reported")
    BY <1>1, <1>2, Leaves
  <1>4. Answered'
    BY <1>1, <1>3 DEF Answered
  <1>5. IsFiniteSet(Trusted!Counted')
    BY FS_EmptySet
  <1>6. NsTypes'
    BY <1>1, <1>3, <1>5 DEF NsTypes
  <1>7. Participants'
    <2>1. ns'.nSubscriptions = Cardinality(Trusted!Counted')
      BY FS_EmptySet
    <2>2. Trusted!SubscribersAreIn'
      BY DEF Trusted!SubscribersAreIn
    <2>3. dispatched' = {}
      OBVIOUS
    <2>4. QED
      BY <2>1, <2>2, <2>3 DEF Participants
  <1>8. QED
    BY <1>3, <1>4, <1>6, <1>7 DEF NsInv

LEMMA DisallowResumesStep ==
    ASSUME NsInv, Trusted!DisallowResumes
    PROVE  NsInv'
  <1>1. /\ UNCHANGED <<offered, instance, reporting, distNotes, counter, dispatched, stored, toDatabase, phase>>
        /\ resumes > 0 /\ resumes' = resumes - 1
    BY DEF Trusted!DisallowResumes, Trusted!distVars, Trusted!subscriberVars
  <1>2. NsTypes /\ Participants /\ InDatabase
    BY DEF NsInv
  <1>3. resumes' \in Nat /\ Trusted!Counted' = Trusted!Counted
    BY <1>1, <1>2 DEF NsTypes, Trusted!Counted
  <1>4. CASE exists /\ ns.nSubscriptions = 0
    <2>1. exists' = FALSE /\ ns' = Trusted!NewEntry /\ Trusted!Unsubscribes(ns) /\ erased' = (erased \/ ns.allowed # {})
      BY <1>4 DEF Trusted!DisallowResumes
    <2>2. Trusted!Counted = {}
      BY <1>2, <1>4, FS_EmptySet DEF NsTypes, Participants
    <2>3. \A q \in TrustSubscribers : phase[q] \in {"idle", "gone"}
      BY <2>2 DEF Trusted!Counted
    <2>4. ns.subscribing = FALSE /\ ns.onSubscribe = {} /\ dispatched = {}
      BY <1>2, <2>3, EntryHas DEF Participants
    <2>5. InDatabase'
      <3>1. (\A i : Before(i)' = Before(i)) /\ Len(toDatabase') = Len(toDatabase)
        BY <1>1 DEF Before
      <3>2. ~erased' => ~erased /\ ns.allowed = {}
        BY <2>1
      <3>3. ns'.allowed = {} /\ ~ns'.inDatabase
        BY <2>1, NewEntryIs
      <3>4. QED
        BY <1>1, <1>2, <3>1, <3>2, <3>3 DEF InDatabase
    <2>6. erased' \in BOOLEAN /\ exists' \in BOOLEAN
      BY <2>1
    <2>7. /\ ns' \in NsEntry /\ DOMAIN ns'.types = {} /\ ns'.subscribing = FALSE /\ ns'.subscription = FALSE
          /\ ns'.onSubscribe = {} /\ ns'.nSubscriptions = 0
      BY <2>1, NewEntryIs DEF Trusted!NewEntry
    <2>8. phase' \in [TrustSubscribers -> Phases] /\ Trusted!Counted' = {}
      BY <1>1, <1>2, <1>3, <2>2 DEF NsTypes
    <2>9. QED
      BY <1>1, <1>3, <2>1, <2>4, <2>5, <2>6, <2>7, <2>8, EntryLeft
  <1>5. CASE ~(exists /\ ns.nSubscriptions = 0)
    <2>1. UNCHANGED <<exists, ns, toDist, erased>>
      BY <1>5 DEF Trusted!DisallowResumes
    <2>2. Participants' /\ Trusted!Counted' = Trusted!Counted /\ Trusted!Watching' = Trusted!Watching /\ TypesKept
      BY <1>1, <1>2, <2>1, SameParticipants
    <2>3. InDatabase'
      BY <1>1, <1>2, <2>1, SameDatabase
    <2>4. QED
      BY <1>1, <1>2, <1>3, <2>1, <2>2, <2>3, Quiet DEF NsTypes
  <1>6. QED
    BY <1>4, <1>5

\* One less that counts.
LEMMA OneLess ==
    ASSUME NsTypes, NEW s \in TrustSubscribers, phase[s] = "dropped", phase' = [phase EXCEPT ![s] = "gone"]
    PROVE  /\ Trusted!Counted' = Trusted!Counted \ {s} /\ IsFiniteSet(Trusted!Counted')
           /\ Cardinality(Trusted!Counted) \in Nat
           /\ Cardinality(Trusted!Counted') = Cardinality(Trusted!Counted) - 1
           /\ Cardinality(Trusted!Counted') = 0 => Trusted!Counted' = {}
           /\ phase' \in [TrustSubscribers -> Phases] /\ phase'[s] = "gone" /\ s \in Trusted!Counted
           /\ \A q \in TrustSubscribers : q # s => phase'[q] = phase[q]
  <1>1. /\ phase' \in [TrustSubscribers -> Phases] /\ phase'[s] = "gone"
        /\ \A q \in TrustSubscribers : q # s => phase'[q] = phase[q]
    BY DEF NsTypes, Phases
  <1>2. Trusted!Counted' = Trusted!Counted \ {s} /\ s \in Trusted!Counted
    BY <1>1 DEF Trusted!Counted
  <1>3. PICK C : C = Trusted!Counted
    OBVIOUS
  <1>4. IsFiniteSet(C) /\ s \in C
    BY <1>2, <1>3 DEF NsTypes
  <1>5. /\ IsFiniteSet(C \ {s}) /\ Cardinality(C) \in Nat /\ Cardinality(C \ {s}) = Cardinality(C) - 1
        /\ Cardinality(C \ {s}) = 0 => C \ {s} = {}
    BY <1>4, FS_RemoveElement, FS_CardinalityType, FS_EmptySet
  <1>6. Trusted!Counted' = C \ {s}
    BY <1>2, <1>3
  <1>7. QED
    BY <1>1, <1>2, <1>3, <1>5, <1>6

LEMMA UnsubscribeStep ==
    ASSUME NsInv, NEW s \in TrustSubscribers, Trusted!Unsubscribe(s)
    PROVE  NsInv'
  <1> DEFINE t == Trusted!TypeOf(s)
             alone == ns.types[t].subs = {s}
             types == IF alone THEN [u \in DOMAIN ns.types \ {t} |-> ns.types[u]]
                      ELSE [ns.types EXCEPT ![t].subs = @ \ {s}]
             left == [ns EXCEPT !.nSubscriptions = @ - 1, !.types = types]
  <1>1. /\ UNCHANGED <<offered, instance, reporting, distNotes, counter, dispatched, stored, toDatabase, resumes,
                       erased>>
        /\ phase[s] = "dropped" /\ exists /\ phase' = [phase EXCEPT ![s] = "gone"]
    BY DEF Trusted!Unsubscribe, Trusted!distVars, Trusted!dataVars
  <1>2. NsTypes /\ Participants /\ InDatabase
    BY DEF NsInv
  <1>3. /\ Trusted!Counted' = Trusted!Counted \ {s} /\ IsFiniteSet(Trusted!Counted')
        /\ Cardinality(Trusted!Counted) \in Nat
        /\ Cardinality(Trusted!Counted') = Cardinality(Trusted!Counted) - 1
        /\ Cardinality(Trusted!Counted') = 0 => Trusted!Counted' = {}
        /\ phase' \in [TrustSubscribers -> Phases] /\ phase'[s] = "gone" /\ s \in Trusted!Counted
        /\ \A q \in TrustSubscribers : q # s => phase'[q] = phase[q]
    BY <1>1, <1>2, OneLess
  <1>4. /\ ns.subscription /\ t \in DOMAIN ns.types /\ s \in ns.types[t].subs
    BY <1>1, <1>2, <1>3 DEF Participants, Trusted!SubscribersAreIn
  <1>5. ns.subscribing = FALSE /\ ns.onSubscribe = {}
    BY <1>2, <1>4, EntryHas DEF Participants
  <1>6. /\ types \in TypeMaps
        /\ \A u \in DOMAIN types :
              u \in DOMAIN ns.types /\ types[u].mapped = ns.types[u].mapped /\ types[u].actors = ns.types[u].actors
        /\ \A u \in DOMAIN ns.types : \A q \in ns.types[u].subs :
              q # s => u \in DOMAIN types /\ q \in types[u].subs
    <2>1. CASE alone
      <3>1. PICK D : D = DOMAIN ns.types \ {t}
        OBVIOUS
      <3>2. types = [u \in D |-> ns.types[u]]
        BY <2>1, <3>1
      <3>3. D \in SUBSET TypeIds /\ \A u \in D : ns.types[u] \in TypeStates
        BY <1>2, <3>1, EntryHas
      <3>4. \A u \in DOMAIN ns.types : \A q \in ns.types[u].subs : q # s => u \in D
        BY <2>1, <3>1
      <3> HIDE DEF types
      <3>5. types \in [D -> TypeStates] /\ \A u \in D : types[u] = ns.types[u]
        BY <3>2, <3>3
      <3>6. types \in TypeMaps /\ DOMAIN types = D
        BY <3>3, <3>5, MapIs
      <3>7. QED
        BY <3>1, <3>4, <3>5, <3>6
    <2>2. CASE ~alone
      <3>1. PICK m \in TypeMaps : m = ns.types
        BY <1>2, EntryHas
      <3>2. PICK D : D = DOMAIN m
        OBVIOUS
      <3>3. D \in SUBSET TypeIds /\ m \in [D -> TypeStates]
        BY <3>1, <3>2, MapHas
      <3>4. PICK x \in TypeStates : x = m[t]
        BY <1>4, <3>1, <3>2, <3>3
      <3>5. PICK y : y = [x EXCEPT !.subs = x.subs \ {s}]
        OBVIOUS
      <3>6. y \in TypeStates /\ y.subs = x.subs \ {s} /\ y.mapped = x.mapped /\ y.actors = x.actors
        BY <3>4, <3>5 DEF TypeStates
      <3>7. types = [m EXCEPT ![t] = y]
        BY <2>2, <3>1, <3>4, <3>5
      <3>8. t \in D
        BY <1>4, <3>1, <3>2
      <3> HIDE DEF types, alone, t
      <3>9. types \in [D -> TypeStates] /\ types[t] = y /\ \A u \in D : u # t => types[u] = m[u]
        BY <3>3, <3>6, <3>7, <3>8
      <3>10. types \in TypeMaps /\ DOMAIN types = D
        BY <3>3, <3>9, MapIs
      <3>11. QED
        BY <3>1, <3>2, <3>4, <3>6, <3>9, <3>10
    <2>3. QED
      BY <2>1, <2>2
  <1>7. PICK l : l = left
    OBVIOUS
  <1>8. /\ l \in NsEntry /\ l.types = types /\ l.nSubscriptions = ns.nSubscriptions - 1
        /\ l.allowed = ns.allowed /\ l.inDatabase = ns.inDatabase /\ l.subscribing = FALSE
        /\ l.subscription = ns.subscription /\ l.sequence = ns.sequence /\ l.onSubscribe = {}
    <2>1. ns.nSubscriptions - 1 \in Nat
      BY <1>2, <1>3, FS_CardinalityType DEF Participants
    <2>2. PICK f \in TypeMaps : f = types
      BY <1>6
    <2>3. l = [ns EXCEPT !.nSubscriptions = ns.nSubscriptions - 1, !.types = f]
      BY <1>7, <2>2
    <2> HIDE DEF types
    <2>4. QED
      BY <1>2, <1>5, <2>1, <2>2, <2>3 DEF NsTypes, NsEntry
  <1>9. l.nSubscriptions = Cardinality(Trusted!Counted')
    BY <1>2, <1>3, <1>8 DEF Participants
  <1>10. CASE l.nSubscriptions = 0 /\ DOMAIN types = {}
    <2>1. /\ Trusted!Unsubscribes(ns) /\ exists' = ns.inDatabase
          /\ ns' = IF ns.inDatabase THEN [l EXCEPT !.subscription = FALSE] ELSE Trusted!NewEntry
      BY <1>7, <1>10 DEF Trusted!Unsubscribe
    <2> HIDE DEF types, left, alone, t
    <2>2. Trusted!Counted' = {}
      BY <1>3, <1>9, <1>10
    <2>3. dispatched = {}
      <3>1. \A q \in TrustSubscribers : phase[q] # "waiting"
        BY <1>1, <1>3, <2>2 DEF Trusted!Counted
      <3>2. QED
        BY <1>2, <3>1 DEF Participants
    <2>4. /\ ns' \in NsEntry /\ DOMAIN ns'.types = {} /\ ns'.subscribing = FALSE /\ ns'.subscription = FALSE
          /\ ns'.onSubscribe = {} /\ ns'.nSubscriptions = 0 /\ (exists' \/ ns' = Trusted!NewEntry)
          /\ ns'.allowed = ns.allowed /\ ns'.inDatabase = ns.inDatabase
      <3>1. CASE ns.inDatabase
        BY <1>8, <1>10, <2>1, <3>1 DEF NsEntry
      <3>2. CASE ~ns.inDatabase
        <4>1. ns' = Trusted!NewEntry /\ ns.allowed = {} /\ ns.inDatabase = FALSE
          BY <1>2, <2>1, <3>2, EntryHas DEF InDatabase
        <4>2. QED
          BY <4>1, NewEntryIs DEF Trusted!NewEntry
      <3>3. QED
        BY <3>1, <3>2
    <2>5. InDatabase'
      BY <1>1, <1>2, <2>4, SameDatabase
    <2>6. exists' \in BOOLEAN /\ resumes' \in Nat /\ erased' \in BOOLEAN
      BY <1>1, <1>2, <2>1, EntryHas DEF NsTypes
    <2>7. QED
      BY <1>1, <1>3, <1>5, <2>1, <2>2, <2>3, <2>4, <2>5, <2>6, EntryLeft
  <1>11. CASE ~(l.nSubscriptions = 0 /\ DOMAIN types = {})
    <2>1. ns' = l /\ UNCHANGED <<toDist, exists>>
      BY <1>7, <1>11 DEF Trusted!Unsubscribe
    <2>2. PICK f \in TypeMaps : f = types
      BY <1>6
    <2>3. /\ \A u \in DOMAIN f :
                u \in DOMAIN ns.types /\ f[u].mapped = ns.types[u].mapped /\ f[u].actors = ns.types[u].actors
          /\ \A u \in DOMAIN ns.types : \A q \in ns.types[u].subs :
                q # s => u \in DOMAIN f /\ q \in f[u].subs
          /\ ns'.types = f
      BY <1>6, <1>8, <2>1, <2>2
    <2> HIDE DEF types, left, alone, t
    <2>4. TypesKept
      BY <2>3 DEF TypesKept
    <2>5. Trusted!SubscribersAreIn'
      <3>1. SUFFICES ASSUME NEW q \in TrustSubscribers, phase'[q] \notin {"idle", "gone", "subscribing", "waiting"}
                     PROVE  Trusted!TypeOf(q) \in DOMAIN f /\ q \in f[Trusted!TypeOf(q)].subs
        BY <1>4, <1>8, <2>1, <2>3 DEF Trusted!SubscribersAreIn, Trusted!Counted, Trusted!TypeOf
      <3>2. q # s /\ phase[q] \notin {"idle", "gone", "subscribing", "waiting"}
        BY <1>3, <3>1
      <3>3. Trusted!TypeOf(q) \in DOMAIN ns.types /\ q \in ns.types[Trusted!TypeOf(q)].subs
        BY <1>2, <3>2 DEF Participants, Trusted!SubscribersAreIn, Trusted!Counted
      <3>4. QED
        BY <2>3, <3>2, <3>3
    <2>6. Trusted!Watching = TRUE /\ Trusted!Watching' = TRUE
      BY <1>1, <1>4, <1>8, <2>1 DEF Trusted!Watching
    <2>7. Participants'
      <3>1. \A q \in ns'.onSubscribe \cup dispatched' : q \in TrustSubscribers /\ phase'[q] = "waiting"
        <4>1. SUFFICES ASSUME NEW q \in dispatched PROVE q \in TrustSubscribers /\ phase'[q] = "waiting"
          BY <1>1, <1>8, <2>1
        <4>2. q \in TrustSubscribers /\ phase[q] = "waiting"
          BY <1>2 DEF Participants
        <4>3. QED
          BY <1>1, <1>3, <4>2
      <3>2. exists' /\ ns'.subscription /\ ~ns'.subscribing /\ ns'.onSubscribe = {}
        BY <1>1, <1>4, <1>8, <2>1
      <3>3. ns'.nSubscriptions = Cardinality(Trusted!Counted')
        BY <1>9, <2>1
      <3>4. QED
        BY <2>5, <2>6, <3>1, <3>2, <3>3 DEF Participants
    <2>8. InDatabase'
      BY <1>1, <1>2, <1>8, <2>1, SameDatabase
    <2>9. ns' \in NsEntry /\ ns'.subscribing = ns.subscribing /\ ns'.sequence = ns.sequence
      BY <1>5, <1>8, <2>1
    <2>10. QED
      BY <1>1, <1>2, <1>3, <2>1, <2>4, <2>6, <2>7, <2>8, <2>9, Quiet DEF NsTypes
  <1>12. QED
    BY <1>10, <1>11

\* The database is asked to store the hosts that are allowed now.
LEMMA Asked ==
    ASSUME NsTypes, InDatabase, NEW x \in Question, toDatabase' = Append(toDatabase, x),
           UNCHANGED <<stored, erased>>, x.kind = "add" <=> ns.allowed = {},
           ns'.allowed = x.hosts, ns'.inDatabase <=> ns'.allowed # {}
    PROVE  InDatabase' /\ toDatabase' \in Seq(Question)
  <1>1. PICK q : q = Append(toDatabase, x)
    OBVIOUS
  <1>2. PICK n \in Nat : n = Len(toDatabase)
    BY DEF NsTypes
  <1>3. toDatabase \in Seq(Question)
    BY DEF NsTypes
  <1>4. /\ q \in Seq(Question) /\ Len(q) = n + 1 /\ q[n + 1] = x
        /\ \A i \in 1..n : q[i] = toDatabase[i]
    BY <1>1, <1>2, <1>3
  <1>5. toDatabase' = q
    BY <1>1
  <1>6. \A i \in 1..(n + 1) : Before(i)' = Before(i)
    <2>1. SUFFICES ASSUME NEW i \in 1..(n + 1), i # 1 PROVE q[i - 1] = toDatabase[i - 1]
      BY <1>5 DEF Before
    <2>2. i - 1 \in 1..n
      BY <2>1
    <2>3. QED
      BY <1>4, <2>2
  <1>7. Before(n + 2)' = x.hosts
    <2>1. n + 2 # 1 /\ (n + 2) - 1 = n + 1
      OBVIOUS
    <2>2. QED
      BY <1>4, <1>5, <2>1 DEF Before
  <1>8. ASSUME ~erased PROVE \A i \in 1..(n + 1) : q[i].kind = "add" <=> Before(i)' = {}
    <2>1. SUFFICES ASSUME NEW i \in 1..(n + 1) PROVE q[i].kind = "add" <=> Before(i)' = {}
      OBVIOUS
    <2>2. CASE i = n + 1
      <3>1. Before(n + 1) = ns.allowed
        BY <1>2, <1>8 DEF InDatabase
      <3>2. QED
        BY <1>4, <1>6, <2>2, <3>1
    <2>3. CASE i # n + 1
      <3>1. i \in 1..n
        BY <2>3
      <3>2. toDatabase[i].kind = "add" <=> Before(i) = {}
        BY <1>2, <1>8, <3>1 DEF InDatabase
      <3>3. QED
        BY <1>4, <1>6, <3>1, <3>2
    <2>4. QED
      BY <2>2, <2>3
  <1>9. (n + 1) + 1 = n + 2
    OBVIOUS
  <1>10. InDatabase'
    BY <1>4, <1>5, <1>7, <1>8, <1>9 DEF InDatabase
  <1>11. QED
    BY <1>4, <1>5, <1>10

\* Of the types only the actors that are trusted change.
LEMMA TrustChanges ==
    ASSUME NsInv, NEW f, DOMAIN f = DOMAIN ns.types, f = [t \in DOMAIN ns.types |-> f[t]],
           \A t \in DOMAIN ns.types :
              f[t] = ns.types[t] \/ \E T \in SUBSET Hosts : f[t] = [ns.types[t] EXCEPT !.trusted = T],
           NEW A \in SUBSET Hosts, NEW b \in BOOLEAN, b <=> A # {},
           ns' = [ns EXCEPT !.allowed = A, !.types = f, !.inDatabase = b], exists' = TRUE,
           NEW x \in Question, x.hosts = A, x.kind = "add" <=> ns.allowed = {},
           toDatabase' = Append(toDatabase, x),
           UNCHANGED <<offered, instance, reporting, toDist, distNotes, counter, dispatched, stored, resumes,
                       erased, phase>>
    PROVE  NsInv'
  <1>1. NsTypes /\ Participants /\ InDatabase
    BY DEF NsInv
  <1>2. ASSUME NEW t \in DOMAIN ns.types
        PROVE  /\ f[t] \in TypeStates /\ f[t].mapped = ns.types[t].mapped
               /\ f[t].actors = ns.types[t].actors /\ f[t].subs = ns.types[t].subs
    <2>1. PICK y \in TypeStates : y = ns.types[t]
      BY <1>1, EntryHas
    <2>2. f[t] = y \/ \E T \in SUBSET Hosts : f[t] = [y EXCEPT !.trusted = T]
      BY <2>1
    <2>3. f[t] \in TypeStates /\ f[t].mapped = y.mapped /\ f[t].actors = y.actors /\ f[t].subs = y.subs
      BY <2>2 DEF TypeStates
    <2>4. QED
      BY <2>1, <2>3
  <1>3. f \in TypeMaps
    <2>1. PICK D : D = DOMAIN ns.types
      OBVIOUS
    <2>2. D \in SUBSET TypeIds /\ f \in [D -> TypeStates]
      BY <1>1, <1>2, <2>1, EntryHas
    <2>3. QED
      BY <2>2, MapIs
  <1>4. /\ ns' \in NsEntry /\ ns'.types = f /\ ns'.allowed = A /\ ns'.inDatabase = b
        /\ ns'.nSubscriptions = ns.nSubscriptions /\ ns'.subscribing = ns.subscribing
        /\ ns'.subscription = ns.subscription /\ ns'.sequence = ns.sequence /\ ns'.onSubscribe = ns.onSubscribe
    BY <1>1, <1>3 DEF NsTypes, NsEntry
  <1>5. TypesKept
    BY <1>2, <1>4 DEF TypesKept
  <1>6. Trusted!Watching' <=> Trusted!Watching
    <2>1. ~exists => ~ns.subscription /\ ~ns.subscribing
      BY <1>1, NewEntryIs DEF Participants
    <2>2. QED
      BY <1>4, <2>1 DEF Trusted!Watching
  <1>7. Trusted!Counted' = Trusted!Counted
    BY DEF Trusted!Counted
  <1>8. Participants'
    <2>1. Trusted!SubscribersAreIn'
      <3>1. Trusted!SubscribersAreIn
        BY <1>1 DEF Participants
      <3>2. \A s \in Trusted!Counted : Trusted!TypeOf(s) \in DOMAIN ns.types =>
               Trusted!TypeOf(s) \in DOMAIN f /\ f[Trusted!TypeOf(s)].subs = ns.types[Trusted!TypeOf(s)].subs
        BY <1>2
      <3>3. QED
        BY <1>4, <1>7, <3>1, <3>2 DEF Trusted!SubscribersAreIn, Trusted!TypeOf
    <2>2. DOMAIN ns'.types # {} => Trusted!Watching'
      BY <1>1, <1>4, <1>6 DEF Participants
    <2>3. QED
      BY <1>1, <1>4, <1>7, <2>1, <2>2 DEF Participants
  <1>9. ns'.allowed = x.hosts /\ (ns'.inDatabase <=> ns'.allowed # {})
    BY <1>4
  <1>10. InDatabase' /\ toDatabase' \in Seq(Question)
    BY <1>1, <1>9, Asked
  <1>11. QED
    BY <1>1, <1>4, <1>5, <1>6, <1>7, <1>8, <1>10, Quiet DEF NsTypes

LEMMA AllowHostsStep ==
    ASSUME NsInv, NEW h \in Hosts, Trusted!AllowHosts(h)
    PROVE  NsInv'
  <1> DEFINE f == [t \in DOMAIN ns.types |->
                      IF t \in Trusted!OfHost(h) THEN [ns.types[t] EXCEPT !.trusted = @ \cup {h}] ELSE ns.types[t]]
             A == ns.allowed \cup {h}
             n == [ns EXCEPT !.allowed = A, !.types = f]
             x == [kind |-> IF ns.inDatabase THEN "set" ELSE "add", hosts |-> A]
  <1>1. /\ UNCHANGED <<offered, instance, reporting, toDist, distNotes, counter, dispatched, stored, resumes,
                       erased, phase>>
        /\ exists' = TRUE
    BY DEF Trusted!AllowHosts, Trusted!distVars
  <1>2. NsTypes /\ InDatabase /\ ns \in NsEntry
    BY DEF NsInv, NsTypes
  <1>3. ns' = [n EXCEPT !.inDatabase = TRUE]
    BY DEF Trusted!AllowHosts, Trusted!Stored
  <1>4. toDatabase' = Append(toDatabase, [kind |-> IF n.inDatabase THEN "set" ELSE "add", hosts |-> n.allowed])
    BY DEF Trusted!AllowHosts, Trusted!Ask
  <1>5. ASSUME NEW t \in DOMAIN ns.types
        PROVE  f[t] = ns.types[t] \/ \E T \in SUBSET Hosts : f[t] = [ns.types[t] EXCEPT !.trusted = T]
    <2>1. ns.types[t].trusted \cup {h} \in SUBSET Hosts
      BY <1>2, EntryHas DEF TypeStates
    <2>2. QED
      BY <2>1
  <1>6. DOMAIN f = DOMAIN ns.types /\ f = [t \in DOMAIN ns.types |-> f[t]]
    OBVIOUS
  <1>7. A \in SUBSET Hosts /\ A # {}
    BY <1>2, EntryHas
  <1> HIDE DEF f, A
  <1>8. /\ n.inDatabase = ns.inDatabase /\ n.allowed = A
        /\ [n EXCEPT !.inDatabase = TRUE] = [ns EXCEPT !.allowed = A, !.types = f, !.inDatabase = TRUE]
    BY <1>2 DEF NsEntry
  <1>9. PICK y : y = x
    OBVIOUS
  <1>10. y \in Question /\ y.hosts = A /\ (y.kind = "add" <=> ns.allowed = {})
    <2>1. y \in Question /\ y.hosts = A /\ (y.kind = "add" <=> ~ns.inDatabase)
      BY <1>7, <1>9 DEF Question
    <2>2. QED
      BY <1>2, <2>1 DEF InDatabase
  <1>11. toDatabase' = Append(toDatabase, y)
    BY <1>4, <1>8, <1>9
  <1>12. ns' = [ns EXCEPT !.allowed = A, !.types = f, !.inDatabase = TRUE]
    BY <1>3, <1>8
  <1>13. TRUE \in BOOLEAN /\ (TRUE <=> A # {})
    BY <1>7
  <1>14. QED
    BY <1>1, <1>5, <1>6, <1>7, <1>10, <1>11, <1>12, <1>13, TrustChanges

LEMMA DisallowHostsStep ==
    ASSUME NsInv, NEW h \in Hosts, Trusted!DisallowHosts(h)
    PROVE  NsInv'
  <1> DEFINE f == [t \in DOMAIN ns.types |->
                      IF t \in Trusted!OfHost(h) THEN [ns.types[t] EXCEPT !.trusted = @ \ {h}] ELSE ns.types[t]]
             A == ns.allowed \ {h}
             n == [ns EXCEPT !.allowed = A, !.types = f]
             x == [kind |-> IF A # {} THEN "set" ELSE "remove", hosts |-> A]
  <1>1. /\ UNCHANGED <<offered, instance, reporting, toDist, distNotes, counter, dispatched, stored, resumes,
                       erased, phase>>
        /\ h \in ns.allowed
    BY DEF Trusted!DisallowHosts, Trusted!distVars
  <1>2. NsTypes /\ Participants /\ InDatabase /\ ns \in NsEntry
    BY DEF NsInv, NsTypes
  <1>3. ns.inDatabase = TRUE /\ exists = TRUE
    <2>1. ns.inDatabase = TRUE
      BY <1>1, <1>2, EntryHas DEF InDatabase
    <2>2. exists
      BY <1>1, <1>2, NewEntryIs DEF Participants
    <2>3. QED
      BY <1>2, <2>1, <2>2 DEF NsTypes
  <1>4. IF n.allowed # {}
        THEN /\ ns' = [n EXCEPT !.inDatabase = TRUE] /\ UNCHANGED exists
             /\ toDatabase' = Append(toDatabase, [kind |-> IF n.inDatabase THEN "set" ELSE "add", hosts |-> n.allowed])
        ELSE n.inDatabase =>
             /\ ns' = [n EXCEPT !.inDatabase = FALSE] /\ UNCHANGED exists
             /\ toDatabase' = Append(toDatabase, [kind |-> "remove", hosts |-> {}])
    BY DEF Trusted!DisallowHosts, Trusted!Stored, Trusted!Ask
  <1>5. ASSUME NEW t \in DOMAIN ns.types
        PROVE  f[t] = ns.types[t] \/ \E T \in SUBSET Hosts : f[t] = [ns.types[t] EXCEPT !.trusted = T]
    <2>1. ns.types[t].trusted \ {h} \in SUBSET Hosts
      BY <1>2, EntryHas DEF TypeStates
    <2>2. QED
      BY <2>1
  <1>6. DOMAIN f = DOMAIN ns.types /\ f = [t \in DOMAIN ns.types |-> f[t]]
    OBVIOUS
  <1>7. A \in SUBSET Hosts
    BY <1>2, EntryHas
  <1> HIDE DEF f, A
  <1>8. /\ n.inDatabase = TRUE /\ n.allowed = A
        /\ \A b : [n EXCEPT !.inDatabase = b] = [ns EXCEPT !.allowed = A, !.types = f, !.inDatabase = b]
    BY <1>2, <1>3 DEF NsEntry
  <1>9. PICK y : y = x
    OBVIOUS
  <1>10. y \in Question /\ y.hosts = A /\ (y.kind = "add" <=> ns.allowed = {})
    BY <1>1, <1>7, <1>9 DEF Question
  <1>11. CASE A # {}
    <2>1. toDatabase' = Append(toDatabase, y) /\ exists' = TRUE
      BY <1>3, <1>4, <1>8, <1>9, <1>11
    <2>2. ns' = [ns EXCEPT !.allowed = A, !.types = f, !.inDatabase = TRUE]
      BY <1>4, <1>8, <1>11
    <2>3. TRUE \in BOOLEAN /\ (TRUE <=> A # {})
      BY <1>11
    <2>4. QED
      BY <1>1, <1>5, <1>6, <1>7, <1>10, <2>1, <2>2, <2>3, TrustChanges
  <1>12. CASE A = {}
    <2>1. toDatabase' = Append(toDatabase, y) /\ exists' = TRUE
      BY <1>3, <1>4, <1>8, <1>9, <1>12
    <2>2. ns' = [ns EXCEPT !.allowed = A, !.types = f, !.inDatabase = FALSE]
      BY <1>4, <1>8, <1>12
    <2>3. FALSE \in BOOLEAN /\ (FALSE <=> A # {})
      BY <1>12
    <2>4. QED
      BY <1>1, <1>5, <1>6, <1>7, <1>10, <2>1, <2>2, <2>3, TrustChanges
  <1>13. QED
    BY <1>11, <1>12

----------------------------------------------------------------------------
(* The distribution manager takes a message.                               *)

\* What is left of the messages is in the same order.
LEMMA OrderLess ==
    ASSUME NsTypes, InRound, toDist # <<>>, toDist' = Tail(toDist)
    PROVE  \A i, j \in 1..Len(toDist') : toDist'[i] = "subscribe" /\ toDist'[j] = "unsubscribe" => j < i
  <1>1. PICK n \in Nat : n = Len(toDist')
    BY MessageLess
  <1>2. Len(toDist) = n + 1 /\ \A i \in 1..n : i + 1 \in 1..(n + 1) /\ toDist'[i] = toDist[i + 1]
    BY <1>1, MessageLess
  <1>3. SUFFICES ASSUME NEW i \in 1..n, NEW j \in 1..n, toDist'[i] = "subscribe", toDist'[j] = "unsubscribe"
                 PROVE  j < i
    BY <1>1
  <1>4. j + 1 < i + 1
    BY <1>2, <1>3 DEF InRound
  <1>5. QED
    BY <1>4

LEMMA UnsubscribeActorsStep ==
    ASSUME NsInv, Trusted!UnsubscribeActors
    PROVE  NsInv'
  <1>1. /\ UNCHANGED <<offered, reporting, distNotes, exists, ns, counter, dispatched, stored, toDatabase, resumes,
                       erased, phase>>
        /\ toDist # <<>> /\ Head(toDist) = "unsubscribe" /\ toDist' = Tail(toDist) /\ instance' = 0
    BY DEF Trusted!UnsubscribeActors, Trusted!dataVars, Trusted!subscriberVars
  <1>2. NsTypes /\ Answered /\ Participants /\ InRound /\ Noted /\ Fresh /\ Turns /\ InDatabase
    BY DEF NsInv
  <1>3. Participants' /\ Trusted!Counted' = Trusted!Counted /\ Trusted!Watching' = Trusted!Watching
    BY <1>1, <1>2, SameParticipants
  <1>4. InDatabase'
    BY <1>1, <1>2, SameDatabase
  <1>5. /\ toDist' \in Seq(Message)
        /\ \A x : OnItsWay(x) <=> OnItsWay(x)' \/ x = Head(toDist)
    BY <1>1, <1>2, MessageLess
  <1>6. NsTypes'
    BY <1>1, <1>2, <1>3, <1>5 DEF NsTypes
  <1>7. Answered'
    <2>1. "subscribe" \in Message /\ "reported" \in Message
      BY DEF Message
    <2>2. Count(toDist', "subscribe") = Count(toDist, "subscribe") /\ Count(toDist', "reported") = Count(toDist, "reported")
      BY <1>1, <1>2, <2>1, MessageTaken
    <2>3. QED
      BY <1>1, <1>2, <2>2 DEF Answered
  <1>8. OnItsWay("unsubscribe") /\ (OnItsWay("subscribe")' <=> OnItsWay("subscribe"))
    BY <1>1, <1>5
  <1>9. InRound'
    <2>1. \A i, j \in 1..Len(toDist') : toDist'[i] = "subscribe" /\ toDist'[j] = "unsubscribe" => j < i
      BY <1>1, <1>2, OrderLess
    <2>2. 0 <= counter /\ (OnItsWay("subscribe") => 0 < counter)
      BY <1>2 DEF NsTypes, InRound
    <2>3. QED
      BY <1>1, <1>2, <1>3, <1>8, <2>1, <2>2 DEF InRound
  <1>10. /\ \A i : Effective(i)' <=> Effective(i)
         /\ \A i, h : About(i, h)' <=> About(i, h)
         /\ NoneMapped' = NoneMapped /\ \A h : Clean(h)' <=> Clean(h)
    BY <1>1 DEF Effective, About, NoneMapped, Clean
  <1>11. Noted'
    BY <1>1, <1>2, <1>8, <1>10 DEF Noted
  <1>12. NoneMapped
    BY <1>2, <1>8 DEF Fresh
  <1>13. Fresh'
    BY <1>10, <1>12 DEF Fresh
  <1>14. Turns'
    <2>1. \A h : Clean(h)
      BY <1>12 DEF NoneMapped, Clean
    <2>2. 0 = counter => \A i \in 1..Len(distNotes) : \A h : ~About(i, h)
      BY <1>2, NoteIs DEF About
    <2>3. QED
      BY <1>1, <1>2, <1>10, <2>1, <2>2 DEF Turns
  <1>15. QED
    BY <1>3, <1>4, <1>6, <1>7, <1>9, <1>11, <1>13, <1>14 DEF NsInv

\* The answer of the distribution manager is no note about an actor.
LEMMA AnswerNoted ==
    ASSUME NsInv, UNCHANGED <<offered, instance, counter, ns>>, NEW x, x = [kind |-> "subscribed"],
           distNotes' = Append(distNotes, x),
           OnItsWay("subscribe")' <=> OnItsWay("subscribe"), OnItsWay("unsubscribe")' <=> OnItsWay("unsubscribe")
    PROVE  Noted' /\ Fresh' /\ Turns' /\ distNotes' \in Seq(DistNote)
  <1>1. NsTypes /\ Noted /\ Fresh /\ Turns /\ x \in DistNote /\ x.kind = "subscribed"
    BY DEF NsInv, DistNote
  <1>2. PICK n \in Nat : n = Len(distNotes)
    BY <1>1 DEF NsTypes
  <1>3. /\ distNotes' \in Seq(DistNote) /\ Len(distNotes') = n + 1
        /\ distNotes'[n + 1] = x
        /\ \A i \in 1..n : distNotes'[i] = distNotes[i]
        /\ \A i \in 1..n : Effective(i)' <=> Effective(i)
        /\ \A i \in 1..n : \A h : About(i, h)' <=> About(i, h)
    BY <1>1, <1>2, NoteMore
  <1>4. \A i \in 1..(n + 1) : i \in 1..n \/ i = n + 1
    OBVIOUS
  <1>5. ~Effective(n + 1)' /\ \A h : ~About(n + 1, h)'
    BY <1>1, <1>3 DEF Effective, About
  <1>6. \A i \in 1..n : i \in 1..(n + 1)
    OBVIOUS
  <1>7. /\ \A i \in 1..(n + 1) : Effective(i)' => i \in 1..n /\ Effective(i)
        /\ \A i \in 1..(n + 1) : \A h : About(i, h)' => i \in 1..n /\ About(i, h)
    BY <1>3, <1>4, <1>5
  <1>8. NoneMapped' = NoneMapped /\ \A h : Clean(h)' <=> Clean(h)
    BY DEF NoneMapped, Clean
  <1>9. Noted'
    BY <1>1, <1>2, <1>3, <1>7 DEF Noted
  <1>10. Fresh'
    BY <1>1, <1>2, <1>3, <1>7, <1>8 DEF Fresh
  <1>11. Turns'
    <2>1. ASSUME NEW h \in Hosts, NEW i \in 1..(n + 1), About(i, h)', distNotes'[i].kind = "removed",
                 \A j \in 1..(n + 1) : j < i => ~About(j, h)'
          PROVE  Clean(h)'
      BY <1>1, <1>2, <1>3, <1>6, <1>7, <1>8, <2>1 DEF Turns
    <2>2. ASSUME NEW h \in Hosts, NEW i \in 1..(n + 1), NEW j \in 1..(n + 1), i < j, About(i, h)', About(j, h)',
                 distNotes'[i].kind = "removed", distNotes'[j].kind = "removed"
          PROVE  \E k \in 1..(n + 1) : i < k /\ k < j /\ About(k, h)' /\ distNotes'[k].kind # "removed"
      <3>1. i \in 1..n /\ j \in 1..n /\ About(i, h) /\ About(j, h)
        BY <1>7, <2>2
      <3>2. PICK k \in 1..n : i < k /\ k < j /\ About(k, h) /\ distNotes[k].kind # "removed"
        BY <1>1, <1>2, <1>3, <2>2, <3>1 DEF Turns
      <3>3. QED
        BY <1>3, <1>6, <3>2
    <2>3. ASSUME instance = counter, NEW h \in offered
          PROVE  \/ (\A i \in 1..(n + 1) : ~About(i, h)') /\ Clean(h)'
                 \/ \E i \in 1..(n + 1) :
                       About(i, h)' /\ distNotes'[i].kind # "removed" /\ \A j \in 1..(n + 1) : j > i => ~About(j, h)'
      <3>1. CASE (\A i \in 1..n : ~About(i, h)) /\ Clean(h)
        BY <1>7, <1>8, <3>1
      <3>2. CASE \E i \in 1..n :
                   About(i, h) /\ distNotes[i].kind # "removed" /\ \A j \in 1..n : j > i => ~About(j, h)
        <4>1. PICK i \in 1..n : About(i, h) /\ distNotes[i].kind # "removed" /\ \A j \in 1..n : j > i => ~About(j, h)
          BY <3>2
        <4>2. About(i, h)' /\ distNotes'[i].kind # "removed" /\ \A j \in 1..(n + 1) : j > i => ~About(j, h)'
          BY <1>3, <1>7, <4>1
        <4>3. QED
          BY <1>6, <4>2
      <3>3. QED
        BY <1>1, <1>2, <2>3, <3>1, <3>2 DEF Turns
    <2>4. QED
      BY <1>3, <2>1, <2>2, <2>3 DEF Turns
  <1>12. QED
    BY <1>3, <1>9, <1>10, <1>11

LEMMA ReportHandledStep ==
    ASSUME NsInv, Trusted!ReportHandled
    PROVE  NsInv'
  <1>1. /\ UNCHANGED <<offered, instance, exists, ns, counter, dispatched, stored, toDatabase, resumes, erased,
                       phase>>
        /\ toDist # <<>> /\ Head(toDist) = "reported" /\ toDist' = Tail(toDist) /\ reporting' = reporting - 1
        /\ distNotes' = IF reporting = 1 THEN Append(distNotes, [kind |-> "subscribed"]) ELSE distNotes
    BY DEF Trusted!ReportHandled, Trusted!dataVars, Trusted!subscriberVars
  <1>2. NsTypes /\ Answered /\ Participants /\ InRound /\ Noted /\ Fresh /\ Turns /\ InDatabase
    BY DEF NsInv
  <1>3. Participants' /\ Trusted!Counted' = Trusted!Counted /\ Trusted!Watching' = Trusted!Watching /\ TypesKept
    BY <1>1, <1>2, SameParticipants
  <1>4. InDatabase'
    BY <1>1, <1>2, SameDatabase
  <1>5. /\ toDist' \in Seq(Message)
        /\ \A x : OnItsWay(x) <=> OnItsWay(x)' \/ x = Head(toDist)
    BY <1>1, <1>2, MessageLess
  <1>6. /\ OnItsWay("subscribe")' <=> OnItsWay("subscribe")
        /\ OnItsWay("unsubscribe")' <=> OnItsWay("unsubscribe")
    BY <1>1, <1>5
  <1>7. InRound'
    <2>1. \A i, j \in 1..Len(toDist') : toDist'[i] = "subscribe" /\ toDist'[j] = "unsubscribe" => j < i
      BY <1>1, <1>2, OrderLess
    <2>2. QED
      BY <1>1, <1>2, <1>3, <1>6, <2>1 DEF InRound
  <1>8. Noted' /\ Fresh' /\ Turns' /\ distNotes' \in Seq(DistNote)
    <2>1. CASE reporting = 1
      <3>1. PICK x : x = [kind |-> "subscribed"]
        OBVIOUS
      <3>2. distNotes' = Append(distNotes, x)
        BY <1>1, <2>1, <3>1
      <3>3. QED
        BY <1>1, <1>6, <3>1, <3>2, AnswerNoted
    <2>2. CASE reporting # 1
      <3>1. UNCHANGED distNotes
        BY <1>1, <2>2
      <3>2. /\ \A i : Effective(i)' <=> Effective(i)
            /\ \A i, h : About(i, h)' <=> About(i, h)
            /\ NoneMapped' = NoneMapped /\ \A h : Clean(h)' <=> Clean(h)
        BY <1>1, <3>1 DEF Effective, About, NoneMapped, Clean
      <3>3. Noted'
        BY <1>1, <1>2, <1>6, <3>1, <3>2 DEF Noted
      <3>4. Fresh'
        BY <1>1, <1>2, <1>6, <3>1, <3>2 DEF Fresh
      <3>5. Turns'
        BY <1>1, <1>2, <3>1, <3>2 DEF Turns
      <3>6. QED
        BY <1>2, <3>1, <3>3, <3>4, <3>5 DEF NsTypes
    <2>3. QED
      BY <2>1, <2>2
  <1>9. "subscribe" \in Message /\ "reported" \in Message /\ "first" \in Kinds /\ "subscribed" \in Kinds
    BY DEF Message, Kinds
  <1>10. /\ Count(toDist', "subscribe") = Count(toDist, "subscribe")
         /\ Count(toDist, "reported") = Count(toDist', "reported") + 1
         /\ Count(toDist', "reported") \in Nat /\ Count(toDist, "subscribe") \in Nat
    BY <1>1, <1>2, <1>9, MessageTaken
  <1>11. /\ KindCount(distNotes, "first") \in Nat /\ KindCount(distNotes, "subscribed") \in Nat
    BY <1>2, <1>9, KindNone DEF NsTypes
  <1>12. PICK a, b, c, d \in Nat :
            /\ a = Count(toDist', "subscribe") /\ b = Count(toDist', "reported")
            /\ c = KindCount(distNotes, "first") /\ d = KindCount(distNotes, "subscribed")
    BY <1>10, <1>11
  <1>13. reporting = c + (b + 1) /\ a + d + One(reporting > 0) = One(ns.subscribing)
    BY <1>2, <1>10, <1>12 DEF Answered
  <1>14. reporting' \in Nat /\ reporting' = c + b
    BY <1>1, <1>13
  <1>15. Answered'
    <2>1. CASE reporting = 1
      <3>1. PICK x : x = [kind |-> "subscribed"]
        OBVIOUS
      <3>2. x \in DistNote /\ x.kind # "first" /\ x.kind = "subscribed" /\ distNotes' = Append(distNotes, x)
        BY <1>1, <2>1, <3>1 DEF DistNote
      <3>3. KindCount(distNotes', "first") = c /\ KindCount(distNotes', "subscribed") = d + 1
        BY <1>2, <1>9, <1>12, <3>2, NoteCounts
      <3>4. a + (d + 1) + One(reporting' > 0) = One(ns.subscribing)
        BY <1>1, <1>13, <2>1 DEF One
      <3>5. QED
        BY <1>1, <1>12, <1>14, <3>3, <3>4 DEF Answered
    <2>2. CASE reporting # 1
      <3>1. distNotes' = distNotes
        BY <1>1, <2>2
      <3>2. a + d + One(reporting' > 0) = One(ns.subscribing)
        BY <1>1, <1>13, <2>2 DEF One
      <3>3. QED
        BY <1>1, <1>12, <1>14, <3>1, <3>2 DEF Answered
    <2>3. QED
      BY <2>1, <2>2
  <1>16. NsTypes'
    BY <1>1, <1>2, <1>3, <1>5, <1>8, <1>14 DEF NsTypes
  <1>17. QED
    BY <1>3, <1>4, <1>7, <1>8, <1>15, <1>16 DEF NsInv

\* A sequence that names every actor, as long as there are actors, names each once.
LEMMA EachOnce ==
    ASSUME NEW S, IsFiniteSet(S), NEW m \in Nat, m = Cardinality(S), NEW order \in [1..m -> S],
           \A h \in S : \E i \in 1..m : order[i] = h
    PROVE  \A i, j \in 1..m : order[i] = order[j] => i = j
  <1>1. IsFiniteSet(1..m) /\ Cardinality(1..m) = m
    <2>1. 1 \in Int /\ m \in Int
      OBVIOUS
    <2>2. IsFiniteSet(1..m) /\ Cardinality(1..m) = IF 1 > m THEN 0 ELSE m - 1 + 1
      BY <2>1, FS_Interval
    <2>3. QED
      BY <2>2
  <1>2. order \in Surjection(1..m, S)
    BY DEF Surjection
  <1>3. order \in Injection(1..m, S)
    BY <1>1, <1>2, FS_SurjSameCardinalityImpliesInj
  <1>4. QED
    BY <1>3 DEF Injection, IsInjective

\* What is known when the distribution manager takes the call of f_SubscribeActors.
LEMMA SubscribeFound ==
    ASSUME NsInv, toDist # <<>>, Head(toDist) = "subscribe", toDist' = Tail(toDist)
    PROVE  /\ reporting = 0 /\ ns.subscribing = TRUE /\ instance # counter /\ 0 < counter /\ NoneMapped
           /\ ~OnItsWay("subscribe")' /\ ~OnItsWay("unsubscribe")' /\ toDist' \in Seq(Message)
           /\ KindCount(distNotes, "first") = 0 /\ KindCount(distNotes, "subscribed") = 0
           /\ Count(toDist', "subscribe") = 0 /\ Count(toDist', "reported") = 0
           /\ \A i \in 1..Len(distNotes) : Effective(i) => distNotes[i].sequence < counter
  <1>1. NsTypes /\ Answered /\ InRound /\ Noted /\ Fresh
    BY DEF NsInv
  <1>2. /\ toDist' \in Seq(Message) /\ Head(toDist) = toDist[1] /\ 1 \in 1..Len(toDist)
        /\ \A x : OnItsWay(x) <=> OnItsWay(x)' \/ x = Head(toDist)
    BY <1>1, MessageLess
  <1>3. OnItsWay("subscribe")
    BY <1>2
  <1>4. reporting = 0 /\ ns.subscribing = TRUE
    BY <1>1, <1>3, Outstanding, EntryHas
  <1>5. "subscribe" \in Message /\ "reported" \in Message /\ "first" \in Kinds /\ "subscribed" \in Kinds
    BY DEF Message, Kinds
  <1>6. /\ Count(toDist, "subscribe") = Count(toDist', "subscribe") + 1
        /\ Count(toDist, "reported") = Count(toDist', "reported")
        /\ Count(toDist', "reported") \in Nat /\ Count(toDist', "subscribe") \in Nat
    BY <1>1, <1>5, MessageTaken
  <1>7. KindCount(distNotes, "first") \in Nat /\ KindCount(distNotes, "subscribed") \in Nat
    BY <1>1, <1>5, KindNone DEF NsTypes
  <1>8. PICK a, b, c, d \in Nat :
           /\ a = Count(toDist', "subscribe") /\ b = Count(toDist', "reported")
           /\ c = KindCount(distNotes, "first") /\ d = KindCount(distNotes, "subscribed")
    BY <1>6, <1>7
  <1>9. 0 = c + b /\ (a + 1) + d + One(reporting > 0) = One(ns.subscribing)
    BY <1>1, <1>4, <1>6, <1>8 DEF Answered
  <1>10. a = 0 /\ b = 0 /\ c = 0 /\ d = 0
    BY <1>4, <1>9 DEF One
  <1>11. ~OnItsWay("subscribe")'
    <2>1. PICK q \in Seq(Message) : q = toDist'
      BY <1>2
    <2>2. Count(q, "subscribe") = 0
      BY <1>8, <1>10, <2>1
    <2>3. \A i \in 1..Len(q) : q[i] # "subscribe"
      BY <1>5, <2>2, CountNone
    <2>4. QED
      BY <2>1, <2>3 DEF OnItsWay
  <1>12. ~OnItsWay("unsubscribe")
    <2>1. SUFFICES ASSUME NEW j \in 1..Len(toDist), toDist[j] = "unsubscribe" PROVE FALSE
      BY DEF OnItsWay
    <2>2. j < 1
      BY <1>1, <1>2, <2>1 DEF InRound
    <2>3. QED
      BY <2>2
  <1>13. instance # counter /\ 0 < counter
    BY <1>1, <1>3 DEF InRound, NsTypes
  <1>14. NoneMapped
    BY <1>1, <1>13 DEF Fresh
  <1>15. \A i \in 1..Len(distNotes) : Effective(i) => distNotes[i].sequence < counter
    BY <1>1, <1>3 DEF Noted
  <1>16. QED
    BY <1>2, <1>4, <1>8, <1>10, <1>11, <1>12, <1>13, <1>14, <1>15

LEMMA SubscribeActorsStep ==
    ASSUME NsInv, Trusted!SubscribeActors
    PROVE  NsInv'
  <1>1. /\ UNCHANGED <<offered, exists, ns, counter, dispatched, stored, toDatabase, resumes, erased, phase>>
        /\ toDist # <<>> /\ Head(toDist) = "subscribe" /\ toDist' = Tail(toDist) /\ instance' = counter
        /\ reporting' = Cardinality(offered)
    BY SameCount DEF Trusted!SubscribeActors, Trusted!dataVars, Trusted!subscriberVars
  <1>2. NsTypes /\ Answered /\ Participants /\ InRound /\ Noted /\ Turns /\ InDatabase
    BY DEF NsInv
  <1>3. Participants' /\ Trusted!Counted' = Trusted!Counted /\ Trusted!Watching' = Trusted!Watching
    BY <1>1, <1>2, SameParticipants
  <1>4. InDatabase'
    BY <1>1, <1>2, SameDatabase
  <1>5. /\ reporting = 0 /\ ns.subscribing = TRUE /\ instance # counter /\ 0 < counter /\ NoneMapped
        /\ ~OnItsWay("subscribe")' /\ ~OnItsWay("unsubscribe")' /\ toDist' \in Seq(Message)
        /\ KindCount(distNotes, "first") = 0 /\ KindCount(distNotes, "subscribed") = 0
        /\ Count(toDist', "subscribe") = 0 /\ Count(toDist', "reported") = 0
        /\ \A i \in 1..Len(distNotes) : Effective(i) => distNotes[i].sequence < counter
    BY <1>1, SubscribeFound
  <1>6. PICK m \in Nat : m = Cardinality(offered)
    BY <1>2, FS_CardinalityType DEF NsTypes
  <1>7. PICK order \in [1..m -> offered] :
           /\ \A h \in offered : \E i \in 1..m : order[i] = h
           /\ distNotes' = distNotes \o [i \in 1..m |-> [kind |-> "first", host |-> order[i], sequence |-> counter]]
                              \o (IF offered = {} THEN <<[kind |-> "subscribed"]>> ELSE <<>>)
    BY <1>1, <1>6, SameCount DEF Trusted!SubscribeActors, Trusted!Note
  <1>34. \A i, j \in 1..m : order[i] = order[j] => i = j
    <2>1. IsFiniteSet(offered)
      BY <1>2 DEF NsTypes
    <2>2. PICK S : S = offered
      OBVIOUS
    <2>3. m \in Nat /\ m = Cardinality(S) /\ order \in [1..m -> S] /\ \A h \in S : \E i \in 1..m : order[i] = h
      BY <1>6, <1>7, <2>2
    <2>4. IsFiniteSet(S)
      BY <2>1, <2>2
    <2>5. QED
      BY <2>3, <2>4, EachOnce
  <1>8. PICK firsts : firsts = [i \in 1..m |-> [kind |-> "first", host |-> order[i], sequence |-> counter]]
    OBVIOUS
  <1>9. \A i \in 1..m : /\ firsts[i] \in DistNote /\ firsts[i].kind = "first" /\ firsts[i].host = order[i]
                        /\ firsts[i].sequence = counter
    <2>1. SUFFICES ASSUME NEW i \in 1..m
                   PROVE  /\ firsts[i] \in DistNote /\ firsts[i].kind = "first" /\ firsts[i].host = order[i]
                          /\ firsts[i].sequence = counter
      OBVIOUS
    <2>2. firsts[i] = [kind |-> "first", host |-> order[i], sequence |-> counter]
      BY <1>8
    <2>3. order[i] \in Hosts /\ counter \in Nat \ {0}
      BY <1>2, <1>5 DEF NsTypes
    <2>4. QED
      BY <2>2, <2>3 DEF DistNote, Actions
  <1>10. firsts \in Seq(DistNote) /\ Len(firsts) = m
    <2>1. firsts \in [1..m -> DistNote]
      BY <1>8, <1>9
    <2>2. QED
      BY <2>1
  <1>11. PICK n \in Nat : n = Len(distNotes)
    BY <1>2 DEF NsTypes
  <1>12. m = 0 <=> offered = {}
    BY <1>2, <1>6, FS_EmptySet DEF NsTypes
  <1>13. PICK last \in {0, 1} : last = One(offered = {})
    BY DEF One
  <1>14. PICK r : r = distNotes'
    OBVIOUS
  <1>15. /\ r \in Seq(DistNote) /\ Len(r) = n + m + last
         /\ \A i \in 1..n : r[i] = distNotes[i]
         /\ \A i \in 1..m : r[n + i] = firsts[i]
         /\ last = 1 => m = 0 /\ r = Append(distNotes, [kind |-> "subscribed"]) /\ r[n + 1].kind = "subscribed"
         /\ last = 0 => r = distNotes \o firsts
    <2>1. distNotes \in Seq(DistNote) /\ [kind |-> "subscribed"] \in DistNote
      BY <1>2 DEF NsTypes, DistNote
    <2>2. PICK p : p = distNotes \o firsts
      OBVIOUS
    <2>3. /\ p \in Seq(DistNote) /\ Len(p) = n + m /\ \A i \in 1..n : p[i] = distNotes[i]
          /\ \A i \in 1..m : p[n + i] = firsts[i]
      BY <1>10, <1>11, <2>1, <2>2
    <2>4. CASE offered = {}
      <3>1. r = p \o <<[kind |-> "subscribed"]>> /\ last = 1 /\ m = 0
        BY <1>7, <1>8, <1>12, <1>13, <1>14, <2>2, <2>4 DEF One
      <3>2. PICK x \in DistNote : x = [kind |-> "subscribed"]
        BY <2>1
      <3>3. p = distNotes
        BY <1>10, <1>11, <2>1, <2>2, <3>1
      <3>4. r = Append(distNotes, x)
        BY <2>1, <3>1, <3>2, <3>3
      <3>5. r \in Seq(DistNote) /\ Len(r) = n + 1 /\ r[n + 1] = x /\ \A i \in 1..n : r[i] = distNotes[i]
        BY <1>11, <2>1, <3>4
      <3>6. QED
        BY <3>1, <3>2, <3>4, <3>5
    <2>5. CASE offered # {}
      <3>1. r = p \o <<>> /\ last = 0
        BY <1>7, <1>8, <1>13, <1>14, <2>2, <2>5 DEF One
      <3>2. r = p
        BY <2>3, <3>1
      <3>3. QED
        BY <2>2, <2>3, <3>1, <3>2
    <2>6. QED
      BY <2>4, <2>5
  <1>16. \A i \in 1..Len(r) : i \in 1..n \/ (i - n \in 1..m /\ n + (i - n) = i) \/ (last = 1 /\ i = n + 1)
    <2>1. Len(r) = n + m + last /\ (last = 1 => m = 0)
      BY <1>15
    <2>2. SUFFICES ASSUME NEW i \in 1..(n + m + last), i \notin 1..n, ~(last = 1 /\ i = n + 1)
                   PROVE  i - n \in 1..m /\ n + (i - n) = i
      BY <2>1
    <2>3. i \in Int /\ i > n
      BY <2>2
    <2>4. CASE last = 1
      <3>1. m = 0
        BY <2>1, <2>4
      <3>2. i <= n + 1
        BY <2>2, <2>4, <3>1
      <3>3. QED
        BY <2>2, <2>3, <2>4, <3>2
    <2>5. CASE last = 0
      <3>1. i <= n + m
        BY <2>2, <2>5
      <3>2. QED
        BY <2>3, <3>1
    <2>6. QED
      BY <2>4, <2>5
  <1>17. /\ \A i \in 1..n : (Effective(i)' <=> Effective(i)) /\ r[i] = distNotes[i] /\ i \in 1..Len(r)
         /\ \A i \in 1..n : \A h : ~About(i, h)'
    <2>1. \A i \in 1..n : (Effective(i)' <=> Effective(i)) /\ r[i] = distNotes[i] /\ i \in 1..Len(r)
      BY <1>11, <1>14, <1>15 DEF Effective
    <2>2. \A i \in 1..n : Effective(i) => distNotes[i].sequence \in Nat
      BY <1>2, <1>11, NoteIs
    <2>3. counter \in Nat
      BY <1>2 DEF NsTypes
    <2>4. \A i \in 1..n : \A h : ~About(i, h)'
      BY <1>1, <1>5, <1>11, <1>14, <2>1, <2>2, <2>3 DEF About
    <2>5. QED
      BY <2>1, <2>4
  <1>18. ASSUME NEW i \in 1..m
         PROVE  /\ n + i \in 1..Len(r) /\ r[n + i].kind = "first" /\ r[n + i].sequence = counter
                /\ \A h : About(n + i, h)' <=> order[i] = h
    <2>1. n + i \in 1..Len(r) /\ r[n + i] = firsts[i]
      BY <1>15
    <2>2. Effective(n + i)'
      BY <1>9, <1>14, <2>1 DEF Effective
    <2>3. QED
      BY <1>1, <1>9, <1>14, <2>1, <2>2 DEF About
  <1>19. last = 1 => ~Effective(n + 1)' /\ \A h : ~About(n + 1, h)'
    BY <1>14, <1>15 DEF Effective, About
  <1>20. \A i \in 1..Len(r) : Effective(i)' => (i \in 1..n /\ Effective(i)) \/ (i - n \in 1..m /\ n + (i - n) = i)
    BY <1>16, <1>17, <1>19
  <1>21. \A i \in 1..Len(r) : \A h : About(i, h)' => i - n \in 1..m /\ n + (i - n) = i /\ order[i - n] = h
    <2>1. SUFFICES ASSUME NEW i \in 1..Len(r), NEW h, About(i, h)'
                   PROVE  i - n \in 1..m /\ n + (i - n) = i /\ order[i - n] = h
      OBVIOUS
    <2>2. i - n \in 1..m /\ n + (i - n) = i
      BY <1>16, <1>17, <1>19, <2>1
    <2>3. QED
      BY <1>18, <2>1, <2>2
  <1>22. Turns'
    <2>1. ASSUME NEW i \in 1..Len(r), NEW h, About(i, h)' PROVE r[i].kind # "removed"
      BY <1>18, <1>21, <2>1
    <2>2. ASSUME NEW h \in offered
          PROVE  \E i \in 1..Len(r) : About(i, h)' /\ r[i].kind # "removed" /\ \A j \in 1..Len(r) : j > i => ~About(j, h)'
      <3>1. PICK i \in 1..m : order[i] = h
        BY <1>7
      <3>2. n + i \in 1..Len(r) /\ About(n + i, h)' /\ r[n + i].kind # "removed"
        BY <1>18, <3>1
      <3>3. ASSUME NEW j \in 1..Len(r), j > n + i, About(j, h)' PROVE FALSE
        <4>1. j - n \in 1..m /\ n + (j - n) = j /\ order[j - n] = order[i]
          BY <1>21, <3>1, <3>3
        <4>2. j - n = i
          BY <1>34, <4>1
        <4>3. QED
          BY <3>3, <4>2
      <3>4. QED
        BY <3>2, <3>3
    <2>3. QED
      BY <1>1, <1>14, <2>1, <2>2 DEF Turns
  <1>23. NoneMapped'
    BY <1>1, <1>5 DEF NoneMapped
  <1>24. Fresh'
    BY <1>23 DEF Fresh
  <1>25. counter \in Nat /\ \A i \in 1..n : Effective(i) => distNotes[i].sequence \in Nat
    BY <1>2, <1>11, NoteIs DEF NsTypes
  <1>26. \A i \in 1..Len(r) : Effective(i)' => r[i].sequence \in Nat /\ r[i].sequence <= counter
    <2>1. SUFFICES ASSUME NEW i \in 1..Len(r), Effective(i)' PROVE r[i].sequence \in Nat /\ r[i].sequence <= counter
      OBVIOUS
    <2>2. CASE i \in 1..n /\ Effective(i)
      BY <1>5, <1>11, <1>15, <1>25, <2>2
    <2>3. CASE i - n \in 1..m /\ n + (i - n) = i
      BY <1>18, <1>25, <2>3
    <2>4. QED
      BY <1>20, <2>1, <2>2, <2>3
  <1>27. Noted'
    <2>1. ASSUME NEW i \in 1..Len(r), NEW j \in 1..Len(r), Effective(i)', Effective(j)', i < j
          PROVE  r[i].sequence <= r[j].sequence
      <3>1. CASE j - n \in 1..m /\ n + (j - n) = j
        BY <1>18, <1>26, <2>1, <3>1
      <3>2. CASE j \in 1..n /\ Effective(j)
        <4>1. i \in 1..n
          BY <2>1, <3>2
        <4>2. Effective(i) /\ r[i] = distNotes[i] /\ r[j] = distNotes[j]
          BY <1>17, <2>1, <3>2, <4>1
        <4>3. QED
          BY <1>2, <1>11, <2>1, <3>2, <4>1, <4>2 DEF Noted
      <3>3. QED
        BY <1>20, <2>1, <3>1, <3>2
    <2>2. QED
      BY <1>1, <1>5, <1>14, <1>26, <2>1 DEF Noted
  <1>28. InRound'
    <2>1. \A i, j \in 1..Len(toDist') : toDist'[i] = "subscribe" /\ toDist'[j] = "unsubscribe" => j < i
      BY <1>5 DEF OnItsWay
    <2>2. Trusted!Watching => ns.sequence = counter /\ counter > 0
      BY <1>2 DEF InRound
    <2>3. counter <= counter
      BY <1>25
    <2>4. QED
      BY <1>1, <1>3, <1>5, <2>1, <2>2, <2>3 DEF InRound
  <1>29. "first" \in Kinds /\ "subscribed" \in Kinds /\ distNotes \in Seq(DistNote)
    BY <1>2 DEF Kinds, NsTypes
  <1>30. KindCount(r, "first") = m /\ KindCount(r, "subscribed") = last
    <2>1. \A i \in 1..n : distNotes[i].kind # "first" /\ distNotes[i].kind # "subscribed"
      BY <1>5, <1>11, <1>29, KindNone
    <2>2. CASE last = 1
      <3>1. PICK x \in DistNote : x = [kind |-> "subscribed"]
        BY DEF DistNote
      <3>2. r = Append(distNotes, x) /\ m = 0 /\ x.kind # "first" /\ x.kind = "subscribed"
        BY <1>15, <2>2, <3>1
      <3>3. KindCount(r, "first") = KindCount(distNotes, "first")
        BY <1>29, <3>2, KindMore
      <3>4. KindCount(r, "subscribed") = KindCount(distNotes, "subscribed") + 1
        BY <1>29, <3>2, KindMore
      <3>5. QED
        BY <1>5, <2>2, <3>2, <3>3, <3>4
    <2>3. CASE last = 0
      <3>1. r = distNotes \o firsts
        BY <1>15, <2>3
      <3>2. \A i \in 1..Len(firsts) : firsts[i].kind = "first"
        BY <1>9, <1>10
      <3>3. KindCount(r, "first") = m
        BY <1>10, <1>11, <1>29, <2>1, <3>1, <3>2, KindJoined
      <3>4. \A i \in 1..Len(r) : r[i].kind # "subscribed"
        <4>1. SUFFICES ASSUME NEW i \in 1..Len(r) PROVE r[i].kind # "subscribed"
          OBVIOUS
        <4>2. CASE i \in 1..n
          BY <1>15, <2>1, <4>2
        <4>3. CASE i - n \in 1..m /\ n + (i - n) = i
          BY <1>18, <4>3
        <4>4. QED
          BY <1>16, <2>3, <4>2, <4>3
      <3>5. KindCount(r, "subscribed") = 0
        BY <1>15, <1>29, <3>4, KindNone
      <3>6. QED
        BY <2>3, <3>3, <3>5
    <2>4. QED
      BY <2>2, <2>3
  <1>31. Answered'
    <2>1. KindCount(distNotes', "first") = m /\ KindCount(distNotes', "subscribed") = last
      BY <1>14, <1>30
    <2>2. reporting' = m + 0
      BY <1>1, <1>6
    <2>3. 0 + last + One(m > 0) = One(ns.subscribing)
      BY <1>5, <1>12, <1>13 DEF One
    <2>4. QED
      BY <1>1, <1>5, <1>6, <2>1, <2>2, <2>3 DEF Answered
  <1>32. NsTypes'
    <2>1. reporting' \in Nat /\ instance' \in Nat /\ distNotes' \in Seq(DistNote)
      BY <1>1, <1>6, <1>14, <1>15, <1>25
    <2>2. QED
      BY <1>1, <1>2, <1>3, <1>5, <2>1 DEF NsTypes
  <1>33. QED
    BY <1>3, <1>4, <1>22, <1>24, <1>27, <1>28, <1>31, <1>32 DEF NsInv

----------------------------------------------------------------------------
(* The invariant.                                                          *)

LEMMA NsInit ==
    ASSUME Trusted!Init
    PROVE  NsInv
  <1>1. /\ offered = {} /\ instance = 0 /\ reporting = 0 /\ toDist = <<>> /\ distNotes = <<>>
        /\ exists = FALSE /\ ns = Trusted!NewEntry /\ counter = 0 /\ dispatched = {}
        /\ stored = {} /\ toDatabase = <<>> /\ resumes = 0 /\ erased = FALSE
        /\ phase = [s \in TrustSubscribers |-> "idle"]
    BY DEF Trusted!Init
  <1>2. /\ ns \in NsEntry /\ DOMAIN ns.types = {} /\ ns.subscription = FALSE /\ ns.subscribing = FALSE
        /\ ns.allowed = {} /\ ns.inDatabase = FALSE /\ ns.onSubscribe = {} /\ ns.nSubscriptions = 0
    BY <1>1, NewEntryIs DEF Trusted!NewEntry
  <1>3. Trusted!Counted = {}
    BY <1>1 DEF Trusted!Counted
  <1>4. NsTypes
    <2>1. IsFiniteSet(offered) /\ IsFiniteSet(Trusted!Counted)
      BY <1>1, <1>3, FS_EmptySet
    <2>2. phase \in [TrustSubscribers -> Phases]
      BY <1>1 DEF Phases
    <2>3. toDist \in Seq(Message) /\ distNotes \in Seq(DistNote) /\ toDatabase \in Seq(Question)
      BY <1>1
    <2>4. QED
      BY <1>1, <1>2, <2>1, <2>2, <2>3 DEF NsTypes
  <1>5. Len(toDist) = 0 /\ Len(distNotes) = 0 /\ Len(toDatabase) = 0
    BY <1>1
  <1>6. Answered
    <2>1. /\ Count(toDist, "subscribe") = 0 /\ Count(toDist, "reported") = 0
          /\ KindCount(distNotes, "first") = 0 /\ KindCount(distNotes, "subscribed") = 0
      BY <1>5, FS_EmptySet DEF Count, KindCount
    <2>2. QED
      BY <1>1, <1>2, <2>1 DEF Answered, One
  <1>7. Participants
    BY <1>1, <1>2, <1>3, FS_EmptySet DEF Participants, Trusted!SubscribersAreIn
  <1>8. ~Trusted!Watching /\ \A m : ~OnItsWay(m)
    BY <1>1, <1>5 DEF Trusted!Watching, OnItsWay
  <1>9. InRound
    BY <1>1, <1>5, <1>8 DEF InRound
  <1>10. NoneMapped
    BY <1>2 DEF NoneMapped
  <1>11. Noted /\ Fresh /\ Turns
    BY <1>1, <1>5, <1>10 DEF Noted, Fresh, Turns
  <1>12. InDatabase
    BY <1>1, <1>2, <1>5 DEF InDatabase, Before
  <1>13. QED
    BY <1>4, <1>6, <1>7, <1>9, <1>11, <1>12 DEF NsInv

LEMMA NsSteps ==
    ASSUME NsInv, Trusted!Next
    PROVE  NsInv'
  <1>1. CASE Trusted!SubscribeActors
    BY <1>1, SubscribeActorsStep
  <1>2. CASE Trusted!ReportHandled
    BY <1>2, ReportHandledStep
  <1>3. CASE Trusted!UnsubscribeActors
    BY <1>3, UnsubscribeActorsStep
  <1>4. CASE Trusted!NewActor
    BY <1>4, NewActorStep
  <1>5. CASE Trusted!RemovedActor
    BY <1>5, RemovedActorStep
  <1>6. CASE Trusted!Subscribed
    BY <1>6, SubscribedStep
  <1>7. CASE Trusted!OnSubscribe
    BY <1>7, OnSubscribeStep
  <1>8. CASE \E s \in TrustSubscribers :
                Trusted!Unsubscribe(s) \/ Trusted!Deliver(s) \/ Trusted!Defer(s) \/ Trusted!Arrive(s)
    BY <1>8, UnsubscribeStep, DeliverStep, DeferStep, ArriveStep
  <1>9. CASE Trusted!DatabaseAnswers
    BY <1>9, DatabaseAnswersStep
  <1>10. CASE Trusted!DisallowResumes
    BY <1>10, DisallowResumesStep
  <1>11. CASE \E h \in Hosts :
                 Trusted!Publish(h) \/ Trusted!Unpublish(h) \/ Trusted!AllowHosts(h) \/ Trusted!DisallowHosts(h)
    BY <1>11, PublishStep, UnpublishStep, AllowHostsStep, DisallowHostsStep
  <1>12. CASE \E s \in TrustSubscribers :
                 \/ Trusted!SubscribeAtOnce(s) \/ Trusted!SubscribeWaits(s)
                 \/ Trusted!SubscribeFirst(s) \/ Trusted!Drop(s)
    BY <1>12, SubscribeAtOnceStep, SubscribeWaitsStep, SubscribeFirstStep, DropStep
  <1>13. QED
    BY <1>1, <1>2, <1>3, <1>4, <1>5, <1>6, <1>7, <1>8, <1>9, <1>10, <1>11, <1>12 DEF Trusted!Next, Trusted!Progress

LEMMA NsKept ==
    ASSUME NsInv, [Next]_vars
    PROVE  NsInv'
  <1>1. CASE UNCHANGED trustVars
    BY <1>1, QuietAll DEF trustVars
  <1>2. CASE Trusted!Next
    BY <1>2, NsSteps
  <1>3. [Next]_vars => UNCHANGED trustVars \/ Trusted!Next
    BY DEF Next, Only, vars
  <1>4. QED
    BY <1>1, <1>2, <1>3

\* The note that is first is of the present subscription or of an earlier one.
LEMMA NsSays ==
    ASSUME NsInv
    PROVE  NamespaceIsKept
  <1>1. NsTypes /\ Participants /\ InRound /\ Noted /\ Fresh /\ Turns /\ InDatabase
    BY DEF NsInv
  <1>2. ns.nSubscriptions = Trusted!Cardinality(Trusted!Counted)
    BY <1>1, SameCount DEF Participants
  <1>3. (Trusted!Counted # {} => exists) /\ Trusted!SubscribersAreIn
    BY <1>1 DEF Participants
  <1>4. ASSUME distNotes # <<>>, Head(distNotes).kind = "removed", NEW t \in DOMAIN ns.types,
               Head(distNotes).host \in ns.types[t].mapped
        PROVE  Head(distNotes).host \in ns.types[t].actors
    <2>1. Head(distNotes) = distNotes[1] /\ 1 \in 1..Len(distNotes)
      BY <1>1, <1>4 DEF NsTypes
    <2>2. PICK h : h = distNotes[1].host
      OBVIOUS
    <2>3. Effective(1) /\ h \in Hosts /\ distNotes[1].sequence \in Nat /\ distNotes[1].sequence <= counter
      BY <1>1, <1>4, <2>1, <2>2, NoteIs DEF Effective, Noted
    <2>4. CASE distNotes[1].sequence = counter
      <3>1. About(1, h)
        BY <2>2, <2>3, <2>4 DEF About
      <3>2. \A j \in 1..Len(distNotes) : ~(j < 1)
        BY <1>1 DEF NsTypes
      <3>3. Clean(h)
        BY <1>1, <1>4, <2>1, <2>3, <3>1, <3>2 DEF Turns
      <3>4. QED
        BY <1>4, <2>1, <2>2, <3>3 DEF Clean
    <2>5. CASE distNotes[1].sequence # counter
      <3>1. distNotes[1].sequence < counter
        BY <1>1, <2>3, <2>5 DEF NsTypes
      <3>2. NoneMapped
        BY <1>1, <2>1, <2>3, <3>1 DEF Fresh
      <3>3. QED
        BY <1>4, <3>2 DEF NoneMapped
    <2>6. QED
      BY <2>4, <2>5
  <1>5. ASSUME ~erased
        PROVE  /\ toDatabase # <<>> => (Head(toDatabase).kind = "add" <=> stored = {})
               /\ toDatabase = <<>> => stored = ns.allowed
    <2>1. CASE toDatabase # <<>>
      <3>1. 1 \in 1..Len(toDatabase) /\ Head(toDatabase) = toDatabase[1]
        BY <1>1, <2>1 DEF NsTypes
      <3>2. QED
        BY <1>1, <1>5, <2>1, <3>1 DEF InDatabase, Before
    <2>2. CASE toDatabase = <<>>
      <3>1. Len(toDatabase) = 0
        BY <2>2
      <3>2. QED
        BY <1>1, <1>5, <2>2, <3>1 DEF InDatabase, Before
    <2>3. QED
      BY <2>1, <2>2
  <1>6. QED
    BY <1>2, <1>3, <1>4, <1>5 DEF NamespaceIsKept, Trusted!NamespaceIsKept

\* The entry of a namespace goes with its subscribers and the messages of its
\* subscription (DistributedTrust_TrustedActors.cpp).
THEOREM NamespaceInvariance == Spec => []NsInv
  <1>1. Init => NsInv
    BY NsInit DEF Init
  <1>2. NsInv /\ [Next]_vars => NsInv'
    BY NsKept
  <1>3. QED
    BY <1>1, <1>2, PTL DEF Spec

\* A namespace is kept for its subscribers, and its hosts are stored
\* (f_UnsubscribeTrustedActors, f_DisallowHostsForNamespace).
THEOREM NamespacesKept == Spec => []NamespaceIsKept
  <1>1. NsInv => NamespaceIsKept
    BY NsSays
  <1>2. QED
    BY <1>1, NamespaceInvariance, PTL
=============================================================================
