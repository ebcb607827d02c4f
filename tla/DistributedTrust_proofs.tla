------------------------ MODULE DistributedTrust_proofs ------------------------
(***************************************************************************)
(* Proofs about what hosts keep of each other: the authentications that a    *)
(* trust manager remembers, and the log entries that an upstream and the     *)
(* readers of a log store have.                                             *)
(***************************************************************************)
EXTENDS MCDistributedParts, Integers, Sequences, FiniteSetTheorems, WellFoundedInduction, TLAPS

----------------------------------------------------------------------------
(* Authentications.  What a subscription will have remembered when it has    *)
(* handled its messages is, as far as it has not ended, what the manager has.*)

AuthUsers == {FirstUser, SecondUser}
Held == [Remembering!Kinds -> [AuthUsers -> Nat]]
Update == [user : AuthUsers, ends : Nat]
Sent ==
    [kind : {"added", "removed"}, identity : Remembering!Identities]
    \cup [kind : Remembering!Kinds, user : AuthUsers, ends : Nat]

\* What has not ended at t; what a message says of k and u.
Lasting(ends, t) == IF ends >= t THEN ends ELSE 0
Sets(m, k, u) ==
    \/ m.kind = k /\ m.user = u
    \/ k = "permission" /\ m.kind = "removed" /\ u # Remembering!Nobody /\ m.identity[2] = u
To(m) == IF m.kind = "removed" THEN 0 ELSE m.ends

\* One that has h for k and u will, after the messages q, have the same as v at t.
WillHave(h, q, k, u, v, t) ==
    \/ /\ Lasting(h, t) = Lasting(v, t)
       /\ \A n \in 1..Len(q) : ~Sets(q[n], k, u)
    \/ \E n \in 1..Len(q) :
          /\ Sets(q[n], k, u) /\ Lasting(To(q[n]), t) = Lasting(v, t)
          /\ \A j \in 1..Len(q) : j > n => ~Sets(q[j], k, u)

AuthTypes ==
    /\ cache \in [Remembering!Caches -> Held] /\ clock \in Nat
    /\ registering \in [Remembering!Caches -> Nat] /\ cleaning \in [Remembering!Caches -> BOOLEAN]
    /\ aMail \in [Checkers -> Seq(Sent)]
    /\ updates \in [Checkers -> Seq(Update)]
    /\ aPhase \in [Checkers -> {"new", "in", "gone"}]
    /\ check \in [Checkers -> AuthUsers \cup {Remembering!Nobody}]
    /\ pattern \in AuthUsers \cup {Remembering!Nobody}

CopiesAgree ==
    \A s \in Checkers : \A u \in AuthUsers \ untold : \A k \in Remembering!Kinds :
        aPhase[s] = "in" =>
            WillHave(cache[s][k][u], aMail[s], k, u, cache[Remembering!Manager][k][u], clock)
Deserved ==
    Remembering!Manager \notin hung => \A u \in AuthUsers \ kept :
        cache[Remembering!Manager]["permission"][u] # 0 => Remembering!PowerSet(u) \cap granted # {}
Watched == cache[Remembering!Manager] # Remembering!Nothing => Remembering!Cleaned(Remembering!Manager)

AuthInv ==
    /\ AuthTypes /\ CopiesAgree /\ Deserved /\ Watched
    /\ \A s \in Checkers : aPhase[s] = "new" => aMail[s] = <<>>

LEMMA LiveLasts == ASSUME NEW e PROVE Remembering!Live(e) = Lasting(e, clock)
  BY DEF Lasting, Remembering!Live

LEMMA LastingTwice ==
    ASSUME NEW e \in Nat, NEW t \in Nat
    PROVE  /\ Lasting(e, t) \in Nat
           /\ Lasting(Lasting(e, t), t) = Lasting(e, t)
           /\ \A f \in Nat : Lasting(e, t) = Lasting(f, t) => Lasting(e, t + 1) = Lasting(f, t + 1)
  BY DEF Lasting

\* A message more.
LEMMA WillHaveMore ==
    ASSUME NEW h \in Nat, NEW q \in Seq(Sent), NEW m \in Sent, NEW k \in Remembering!Kinds, NEW u \in AuthUsers,
           NEW v \in Nat, NEW t \in Nat
    PROVE  /\ Sets(m, k, u) => WillHave(h, Append(q, m), k, u, To(m), t)
           /\ ~Sets(m, k, u) /\ WillHave(h, q, k, u, v, t) => WillHave(h, Append(q, m), k, u, v, t)
  <1>1. PICK r : r = Append(q, m)
    OBVIOUS
  <1>2. /\ r \in Seq(Sent) /\ Len(r) = Len(q) + 1 /\ Len(q) \in Nat /\ r[Len(q) + 1] = m
        /\ \A n \in 1..Len(q) : r[n] = q[n]
    BY <1>1
  <1>3. Sets(m, k, u) => WillHave(h, r, k, u, To(m), t)
    BY <1>2 DEF WillHave
  <1>4. ASSUME ~Sets(m, k, u), WillHave(h, q, k, u, v, t)
        PROVE  WillHave(h, r, k, u, v, t)
    <2>1. CASE Lasting(h, t) = Lasting(v, t) /\ \A n \in 1..Len(q) : ~Sets(q[n], k, u)
      <3>1. \A n \in 1..Len(r) : ~Sets(r[n], k, u)
        BY <1>2, <1>4, <2>1
      <3>2. QED
        BY <2>1, <3>1 DEF WillHave
    <2>2. CASE \E n \in 1..Len(q) :
                  /\ Sets(q[n], k, u) /\ Lasting(To(q[n]), t) = Lasting(v, t)
                  /\ \A j \in 1..Len(q) : j > n => ~Sets(q[j], k, u)
      <3>1. PICK n \in 1..Len(q) :
                  /\ Sets(q[n], k, u) /\ Lasting(To(q[n]), t) = Lasting(v, t)
                  /\ \A j \in 1..Len(q) : j > n => ~Sets(q[j], k, u)
        BY <2>2
      <3>2. \A j \in 1..Len(r) : j > n => ~Sets(r[j], k, u)
        BY <1>2, <1>4, <3>1
      <3>3. n \in 1..Len(r) /\ r[n] = q[n]
        BY <1>2
      <3>4. QED
        BY <3>1, <3>2, <3>3 DEF WillHave
    <2>3. QED
      BY <1>4, <2>1, <2>2 DEF WillHave
  <1>5. QED
    BY <1>1, <1>3, <1>4

\* The first message handled.
LEMMA WillHaveLess ==
    ASSUME NEW h \in Nat, NEW q \in Seq(Sent), q # <<>>, NEW k \in Remembering!Kinds, NEW u \in AuthUsers,
           NEW v \in Nat, NEW t \in Nat, WillHave(h, q, k, u, v, t)
    PROVE  WillHave(IF Sets(Head(q), k, u) THEN To(Head(q)) ELSE h, Tail(q), k, u, v, t)
  <1>1. PICK r : r = Tail(q)
    OBVIOUS
  <1>2. /\ r \in Seq(Sent) /\ Len(r) = Len(q) - 1 /\ Len(q) \in Nat /\ Len(q) >= 1 /\ Head(q) = q[1]
        /\ \A n \in 1..Len(r) : r[n] = q[n + 1]
    BY <1>1
  <1>3. CASE Lasting(h, t) = Lasting(v, t) /\ \A n \in 1..Len(q) : ~Sets(q[n], k, u)
    <2>1. \A n \in 1..Len(r) : ~Sets(r[n], k, u)
      BY <1>2, <1>3
    <2>2. ~Sets(Head(q), k, u)
      BY <1>2, <1>3
    <2>3. QED
      BY <1>1, <1>3, <2>1, <2>2 DEF WillHave
  <1>4. ASSUME NEW n \in 1..Len(q), Sets(q[n], k, u), Lasting(To(q[n]), t) = Lasting(v, t),
               \A j \in 1..Len(q) : j > n => ~Sets(q[j], k, u)
        PROVE  WillHave(IF Sets(Head(q), k, u) THEN To(Head(q)) ELSE h, r, k, u, v, t)
    <2>1. CASE n = 1
      <3>1. \A j \in 1..Len(r) : ~Sets(r[j], k, u)
        BY <1>2, <1>4, <2>1
      <3>2. QED
        BY <1>2, <1>4, <2>1, <3>1 DEF WillHave
    <2>2. CASE n # 1
      <3>1. n - 1 \in 1..Len(r) /\ r[n - 1] = q[n]
        BY <1>2, <2>2
      <3>2. \A j \in 1..Len(r) : j > n - 1 => ~Sets(r[j], k, u)
        BY <1>2, <1>4
      <3>3. QED
        BY <1>4, <3>1, <3>2 DEF WillHave
    <2>3. QED
      BY <2>1, <2>2
  <1>5. QED
    BY <1>1, <1>3, <1>4 DEF WillHave

\* What has ended does not matter, and ends.
LEMMA WillHaveSame ==
    ASSUME NEW h \in Nat, NEW i \in Nat, NEW q \in Seq(Sent), NEW k \in Remembering!Kinds, NEW u \in AuthUsers,
           NEW v \in Nat, NEW w \in Nat, NEW t \in Nat, WillHave(h, q, k, u, v, t)
    PROVE  /\ Lasting(i, t) = Lasting(h, t) /\ Lasting(w, t) = Lasting(v, t) => WillHave(i, q, k, u, w, t)
           /\ WillHave(h, q, k, u, v, t + 1)
  <1>1. ASSUME Lasting(i, t) = Lasting(h, t), Lasting(w, t) = Lasting(v, t)
        PROVE  WillHave(i, q, k, u, w, t)
    BY <1>1 DEF WillHave
  <1>2. WillHave(h, q, k, u, v, t + 1)
    <2>1. \A n \in 1..Len(q) : Sets(q[n], k, u) => To(q[n]) \in Nat
      <3>1. ASSUME NEW n \in 1..Len(q), Sets(q[n], k, u)
            PROVE  To(q[n]) \in Nat
        <4>1. q[n] \in Sent
          OBVIOUS
        <4>2. QED
          BY <3>1, <4>1 DEF Sent, Sets, To, Remembering!Kinds
      <3>2. QED
        BY <3>1
    <2>2. CASE Lasting(h, t) = Lasting(v, t) /\ \A n \in 1..Len(q) : ~Sets(q[n], k, u)
      BY <2>2, LastingTwice DEF WillHave
    <2>3. CASE \E n \in 1..Len(q) :
                  /\ Sets(q[n], k, u) /\ Lasting(To(q[n]), t) = Lasting(v, t)
                  /\ \A j \in 1..Len(q) : j > n => ~Sets(q[j], k, u)
      <3>1. PICK n \in 1..Len(q) :
                  /\ Sets(q[n], k, u) /\ Lasting(To(q[n]), t) = Lasting(v, t)
                  /\ \A j \in 1..Len(q) : j > n => ~Sets(q[j], k, u)
        BY <2>3
      <3>2. Lasting(To(q[n]), t + 1) = Lasting(v, t + 1)
        BY <2>1, <3>1, LastingTwice
      <3>3. QED
        BY <3>1, <3>2 DEF WillHave
    <2>4. QED
      BY <2>2, <2>3 DEF WillHave
  <1>3. QED
    BY <1>1, <1>2

LEMMA Written ==
    ASSUME AuthTypes, NEW c \in Remembering!Caches, NEW k \in Remembering!Kinds, NEW u \in AuthUsers, NEW e \in Nat
    PROVE  /\ [cache EXCEPT ![c][k][u] = e] \in [Remembering!Caches -> Held]
           /\ \A d \in Remembering!Caches : \A l \in Remembering!Kinds : \A v \in AuthUsers :
                [cache EXCEPT ![c][k][u] = e][d][l][v] = IF d = c /\ l = k /\ v = u THEN e ELSE cache[d][l][v]
  <1>1. cache \in [Remembering!Caches -> Held] /\ cache[c] \in Held /\ cache[c][k] \in [AuthUsers -> Nat]
    BY DEF AuthTypes, Held
  <1>2. PICK f : f = [cache[c][k] EXCEPT ![u] = e]
    OBVIOUS
  <1>3. f \in [AuthUsers -> Nat] /\ \A v \in AuthUsers : f[v] = IF v = u THEN e ELSE cache[c][k][v]
    BY <1>1, <1>2
  <1>4. PICK g : g = [cache[c] EXCEPT ![k] = f]
    OBVIOUS
  <1>5. g \in Held /\ \A l \in Remembering!Kinds : g[l] = IF l = k THEN f ELSE cache[c][l]
    BY <1>1, <1>3, <1>4 DEF Held
  <1>6. PICK w : w = [cache EXCEPT ![c][k][u] = e]
    OBVIOUS
  <1>7. w = [cache EXCEPT ![c] = g]
    BY <1>1, <1>2, <1>4, <1>6
  <1>8. ASSUME NEW d \in Remembering!Caches, NEW l \in Remembering!Kinds, NEW v \in AuthUsers
        PROVE  w[d][l][v] = IF d = c /\ l = k /\ v = u THEN e ELSE cache[d][l][v]
    <2>1. w[d] = IF d = c THEN g ELSE cache[d]
      BY <1>1, <1>7
    <2>2. g[l][v] = IF l = k /\ v = u THEN e ELSE cache[c][l][v]
      BY <1>3, <1>5
    <2>3. QED
      BY <2>1, <2>2
  <1>9. w \in [Remembering!Caches -> Held]
    BY <1>1, <1>5, <1>7
  <1>10. QED
    BY <1>6, <1>8, <1>9

LEMMA Identity ==
    ASSUME NEW i
    PROVE  /\ i \in Remembering!Identities =>
                i[2] = Remembering!Nobody \/ i[2] \in AuthUsers
           /\ \A u : i \in Remembering!PowerSet(u) => i[2] = u \/ i[2] = Remembering!Nobody
  <1>1. PICK a, b : a = TRUE /\ b = FALSE
    OBVIOUS
  <1>2. Remembering!HostAlone = <<a, Remembering!Nobody>>
    BY <1>1 DEF Remembering!HostAlone
  <1>3. i \in Remembering!Identities => i[2] = Remembering!Nobody \/ i[2] \in AuthUsers
    BY <1>2 DEF Remembering!Identities, AuthUsers
  <1>4. ASSUME NEW u, i \in Remembering!PowerSet(u)
        PROVE  i[2] = u \/ i[2] = Remembering!Nobody
    <2>1. i = <<a, u>> \/ i = <<b, u>> \/ i = <<a, Remembering!Nobody>>
      BY <1>1, <1>2, <1>4 DEF Remembering!PowerSet
    <2>2. QED
      BY <2>1
  <1>5. QED
    BY <1>3, <1>4

LEMMA Managing == Remembering!Manager \in Remembering!Caches /\ Remembering!Manager \notin Checkers
  BY CheckersAssumption DEF Remembering!Manager, Remembering!Caches

\* What the subscriptions are told of the manager's cache keeps the copies equal.
LEMMA TellStep ==
    ASSUME AuthInv, NEW m \in Sent, Remembering!Tell(m), cache' \in [Remembering!Caches -> Held],
           UNCHANGED <<aPhase, clock, untold>>, \A s \in Checkers : cache'[s] = cache[s],
           \A k \in Remembering!Kinds : \A u \in AuthUsers \ untold :
              cache'[Remembering!Manager][k][u] =
                  IF Sets(m, k, u) THEN To(m) ELSE cache[Remembering!Manager][k][u]
    PROVE  /\ aMail' \in [Checkers -> Seq(Sent)]
           /\ \A s \in Checkers : (aPhase[s] = "new" => aMail[s] = <<>>)'
           /\ CopiesAgree'
  <1>1. AuthTypes
    BY DEF AuthInv
  <1>2. \A s \in Checkers : aMail'[s] = IF aPhase[s] = "in" THEN Append(aMail[s], m) ELSE aMail[s]
    BY DEF Remembering!Tell
  <1>3. aMail' \in [Checkers -> Seq(Sent)]
    <2>1. \A s \in Checkers : aMail'[s] \in Seq(Sent)
      <3>1. TAKE s \in Checkers
      <3>2. aMail[s] \in Seq(Sent)
        BY <1>1 DEF AuthTypes
      <3>3. Append(aMail[s], m) \in Seq(Sent)
        BY <3>2
      <3>4. QED
        BY <1>2, <3>2, <3>3
    <2>2. QED
      BY <2>1 DEF Remembering!Tell
  <1>4. \A s \in Checkers : (aPhase[s] = "new" => aMail[s] = <<>>)'
    BY <1>2 DEF AuthInv
  <1>5. ASSUME NEW s \in Checkers, NEW u \in AuthUsers \ untold, NEW k \in Remembering!Kinds, aPhase[s] = "in"
        PROVE  WillHave(cache'[s][k][u], aMail'[s], k, u, cache'[Remembering!Manager][k][u], clock)
    <2>1. /\ cache[s][k][u] \in Nat /\ cache[Remembering!Manager][k][u] \in Nat /\ aMail[s] \in Seq(Sent)
          /\ clock \in Nat
      BY <1>1, Managing DEF AuthTypes, Held, Remembering!Caches
    <2>2. WillHave(cache[s][k][u], aMail[s], k, u, cache[Remembering!Manager][k][u], clock)
      BY <1>5 DEF AuthInv, CopiesAgree
    <2>3. aMail'[s] = Append(aMail[s], m) /\ cache'[s][k][u] = cache[s][k][u]
      BY <1>2, <1>5
    <2>4. CASE Sets(m, k, u)
      <3>1. WillHave(cache[s][k][u], Append(aMail[s], m), k, u, To(m), clock)
        BY <2>1, <2>4, WillHaveMore
      <3>2. QED
        BY <2>3, <2>4, <3>1
    <2>5. CASE ~Sets(m, k, u)
      <3>1. WillHave(cache[s][k][u], Append(aMail[s], m), k, u, cache[Remembering!Manager][k][u], clock)
        BY <2>1, <2>2, <2>5, WillHaveMore
      <3>2. QED
        BY <2>3, <2>5, <3>1
    <2>6. QED
      BY <2>4, <2>5
  <1>6. QED
    BY <1>3, <1>4, <1>5 DEF CopiesAgree

LEMMA AddGrantStep ==
    ASSUME AuthInv, NEW i \in Remembering!Identities, Remembering!AddPermissions(i)
    PROVE  AuthInv'
  <1>1. PICK m \in Sent : m = [kind |-> "added", identity |-> i]
    BY DEF Sent
  <1>2. /\ Remembering!Tell(m) /\ granted' = granted \cup {i}
        /\ UNCHANGED <<aKnown, cache, registering, cleaning, hung, updates, aPhase, check, pattern, kept, untold, clock>>
    BY <1>1 DEF Remembering!AddPermissions, Remembering!cacheVars, Remembering!Grants
  <1>3. \A k \in Remembering!Kinds : \A u \in AuthUsers : ~Sets(m, k, u)
    BY <1>1 DEF Sets, Remembering!Kinds
  <1>4. /\ aMail' \in [Checkers -> Seq(Sent)]
        /\ \A s \in Checkers : (aPhase[s] = "new" => aMail[s] = <<>>)'
        /\ CopiesAgree'
    BY <1>2, <1>3, TellStep DEF AuthInv, AuthTypes
  <1>5. AuthTypes'
    BY <1>2, <1>4 DEF AuthInv, AuthTypes
  <1>6. Deserved'
    BY <1>2 DEF AuthInv, Deserved
  <1>7. Watched'
    BY <1>2 DEF AuthInv, Watched, Remembering!Cleaned
  <1>8. QED
    BY <1>4, <1>5, <1>6, <1>7 DEF AuthInv

LEMMA RemoveGrantStep ==
    ASSUME AuthInv, NEW i \in Remembering!Identities, Remembering!RemovePermissions(i)
    PROVE  AuthInv'
  <1> DEFINE M == Remembering!Manager
  <1>1. /\ granted' = granted \ {i}
        /\ UNCHANGED <<aKnown, updates, aPhase, check, pattern, clock, registering, cleaning>>
    BY DEF Remembering!RemovePermissions, Remembering!Grants, Remembering!Hang, Remembering!Forget
  <1>2. AuthTypes /\ CopiesAgree /\ Deserved /\ Watched
    BY DEF AuthInv
  <1>3. CASE Remembering!Endless(M, i)
    <2>1. hung' = hung \cup {M} /\ UNCHANGED <<cache, kept, untold, aMail>>
      BY <1>3 DEF Remembering!RemovePermissions, Remembering!Hang
    <2>2. AuthTypes' /\ CopiesAgree' /\ Deserved' /\ Watched'
      BY <1>1, <1>2, <2>1 DEF AuthTypes, CopiesAgree, Deserved, Watched, Remembering!Cleaned
    <2>3. QED
      BY <1>1, <2>1, <2>2 DEF AuthInv
  <1>4. CASE ~Remembering!Endless(M, i)
    <2>1. /\ Remembering!Forget(M, i) /\ UNCHANGED hung
          /\ kept' = IF i[2] = Remembering!Nobody
                     THEN {u \in AuthUsers : cache[M]["permission"][u] # 0} \cup kept ELSE kept
          /\ IF i \in granted THEN Remembering!Tell([kind |-> "removed", identity |-> i]) /\ UNCHANGED untold
             ELSE untold' = untold \cup ({i[2]} \ {Remembering!Nobody}) /\ UNCHANGED aMail
      BY <1>4 DEF Remembering!RemovePermissions, AuthUsers, Remembering!Forget
    <2>2. /\ cache' \in [Remembering!Caches -> Held]
          /\ \A d \in Remembering!Caches : \A l \in Remembering!Kinds : \A v \in AuthUsers :
                cache'[d][l][v] = IF d = M /\ l = "permission" /\ v = i[2] /\ v # Remembering!Nobody THEN 0
                                  ELSE cache[d][l][v]
          /\ \A s \in Checkers : cache'[s] = cache[s]
      <3>1. CASE i[2] = Remembering!Nobody
        <4>1. cache' = cache
          BY <2>1, <3>1 DEF Remembering!Forget
        <4>2. QED
          BY <1>2, <3>1, <4>1 DEF AuthTypes
      <3>2. CASE i[2] # Remembering!Nobody
        <4>1. i[2] \in AuthUsers
          BY <3>2, Identity
        <4>2. PICK v \in AuthUsers : v = i[2]
          BY <4>1
        <4>3. cache' = [cache EXCEPT ![M]["permission"][v] = 0]
          BY <2>1, <3>2, <4>2 DEF Remembering!Forget
        <4>4. "permission" \in Remembering!Kinds
          BY DEF Remembering!Kinds
        <4>5. /\ cache' \in [Remembering!Caches -> Held]
              /\ \A d \in Remembering!Caches : \A l \in Remembering!Kinds : \A w \in AuthUsers :
                    cache'[d][l][w] = IF d = M /\ l = "permission" /\ w = v THEN 0 ELSE cache[d][l][w]
          BY <1>2, <4>3, <4>4, Written, Managing
        <4>6. \A s \in Checkers : cache'[s] = cache[s]
          BY <1>2, <4>3, Managing DEF AuthTypes, Remembering!Caches
        <4>7. QED
          BY <3>2, <4>2, <4>5, <4>6
      <3>3. QED
        BY <3>1, <3>2
    <2>3. /\ aMail' \in [Checkers -> Seq(Sent)]
          /\ \A s \in Checkers : (aPhase[s] = "new" => aMail[s] = <<>>)'
          /\ CopiesAgree'
      <3>1. CASE i \in granted
        <4>1. PICK m \in Sent : m = [kind |-> "removed", identity |-> i]
          BY DEF Sent
        <4>2. \A k \in Remembering!Kinds : \A u \in AuthUsers :
                Sets(m, k, u) <=> k = "permission" /\ u = i[2] /\ u # Remembering!Nobody
          BY <4>1 DEF Sets, Remembering!Kinds
        <4>3. To(m) = 0 /\ Remembering!Tell(m) /\ UNCHANGED untold
          BY <2>1, <3>1, <4>1 DEF To
        <4>4. \A k \in Remembering!Kinds : \A u \in AuthUsers \ untold :
                cache'[M][k][u] = IF Sets(m, k, u) THEN To(m) ELSE cache[M][k][u]
          BY <2>2, <4>2, <4>3, Managing
        <4>5. QED
          BY <1>1, <2>2, <4>3, <4>4, TellStep
      <3>2. CASE i \notin granted
        <4>1. untold' = untold \cup ({i[2]} \ {Remembering!Nobody}) /\ UNCHANGED aMail
          BY <2>1, <3>2
        <4>2. ASSUME NEW s \in Checkers, NEW u \in AuthUsers \ untold', NEW k \in Remembering!Kinds, aPhase[s] = "in"
              PROVE  WillHave(cache'[s][k][u], aMail'[s], k, u, cache'[M][k][u], clock)
          <5>1. cache'[M][k][u] = cache[M][k][u] /\ cache'[s][k][u] = cache[s][k][u] /\ u \notin untold
            BY <2>2, <4>1, Managing
          <5>2. QED
            BY <1>2, <4>1, <4>2, <5>1 DEF CopiesAgree
        <4>3. CopiesAgree'
          BY <1>1, <4>2 DEF CopiesAgree
        <4>4. QED
          BY <1>1, <4>1, <4>3 DEF AuthInv, AuthTypes
      <3>3. QED
        BY <3>1, <3>2
    <2>4. AuthTypes'
      BY <1>1, <1>2, <2>2, <2>3 DEF AuthTypes
    <2>5. Deserved'
      <3>1. SUFFICES ASSUME M \notin hung, NEW u \in AuthUsers \ kept', cache'[M]["permission"][u] # 0
                     PROVE  Remembering!PowerSet(u) \cap granted' # {}
        BY <2>1 DEF Deserved
      <3>2. cache[M]["permission"][u] # 0 /\ (u # i[2] \/ u = Remembering!Nobody) /\ u \notin kept
        BY <2>1, <2>2, <3>1, Managing DEF Remembering!Kinds
      <3>3. Remembering!PowerSet(u) \cap granted # {}
        BY <1>2, <3>1, <3>2 DEF Deserved
      <3>4. i[2] # Remembering!Nobody
        BY <2>1, <3>1, <3>2
      <3>5. i \notin Remembering!PowerSet(u)
        <4>1. \A j \in Remembering!PowerSet(u) : j[2] = u \/ j[2] = Remembering!Nobody
          BY Identity
        <4>2. i[2] # u
          BY <3>2, <3>4
        <4>3. QED
          BY <3>4, <4>1, <4>2
      <3>6. QED
        BY <1>1, <3>3, <3>5
    <2>6. Watched'
      <3>1. ASSUME cache[M] = Remembering!Nothing
            PROVE  cache'[M] = Remembering!Nothing
        <4>1. \A l \in Remembering!Kinds : \A v \in AuthUsers : cache'[M][l][v] = 0
          BY <2>2, <3>1, Managing DEF Remembering!Nothing, AuthUsers
        <4>2. cache'[M] \in Held
          BY <2>2, Managing
        <4>3. QED
          BY <4>1, <4>2 DEF Held, Remembering!Nothing, AuthUsers
      <3>2. QED
        BY <1>1, <1>2, <3>1 DEF Watched, Remembering!Cleaned
    <2>7. QED
      BY <2>3, <2>4, <2>5, <2>6 DEF AuthInv
  <1>5. QED
    BY <1>3, <1>4

\* Remember writes one entry, and a timer is there or on its way.
LEMMA Remembered ==
    ASSUME AuthTypes, NEW c \in Remembering!Caches, NEW k \in Remembering!Kinds, NEW u \in AuthUsers, NEW e \in Nat,
           Remembering!Remember(c, k, u, e)
    PROVE  /\ cache' \in [Remembering!Caches -> Held]
           /\ \A d \in Remembering!Caches : \A l \in Remembering!Kinds : \A v \in AuthUsers :
                cache'[d][l][v] = IF d = c /\ l = k /\ v = u THEN e ELSE cache[d][l][v]
           /\ \A d \in Remembering!Caches : d # c => cache'[d] = cache[d] /\ registering'[d] = registering[d]
           /\ registering' \in [Remembering!Caches -> Nat] /\ UNCHANGED <<cleaning, hung>>
           /\ Remembering!Cleaned(c)'
  <1>1. /\ cache' = [cache EXCEPT ![c][k][u] = e]
        /\ registering' = [registering EXCEPT ![c] = IF cleaning[c] THEN @ ELSE @ + 1]
        /\ UNCHANGED <<cleaning, hung>>
    BY DEF Remembering!Remember
  <1>2. registering \in [Remembering!Caches -> Nat]
    BY DEF AuthTypes
  <1>3. /\ registering' \in [Remembering!Caches -> Nat] /\ (registering'[c] > 0 \/ cleaning[c])
        /\ \A d \in Remembering!Caches : d # c => registering'[d] = registering[d]
    <2>1. CASE cleaning[c]
      BY <1>1, <1>2, <2>1
    <2>2. CASE ~cleaning[c]
      BY <1>1, <1>2, <2>2
    <2>3. QED
      BY <2>1, <2>2
  <1>4. \A d \in Remembering!Caches : d # c => cache'[d] = cache[d]
    BY <1>1 DEF AuthTypes
  <1>5. /\ cache' \in [Remembering!Caches -> Held]
        /\ \A d \in Remembering!Caches : \A l \in Remembering!Kinds : \A v \in AuthUsers :
              cache'[d][l][v] = IF d = c /\ l = k /\ v = u THEN e ELSE cache[d][l][v]
    BY <1>1, Written
  <1>6. Remembering!Cleaned(c)'
    BY <1>1, <1>3 DEF Remembering!Cleaned
  <1>7. QED
    BY <1>1, <1>3, <1>4, <1>5, <1>6

LEMMA UpdateStep ==
    ASSUME AuthInv, NEW s \in Checkers, Remembering!UpdateAuthenticationCache(s)
    PROVE  AuthInv'
  <1> DEFINE M == Remembering!Manager
  <1>1. AuthTypes /\ Deserved /\ updates[s] \in Seq(Update) /\ updates[s] # <<>>
    BY DEF AuthInv, AuthTypes, Remembering!UpdateAuthenticationCache
  <1>2. PICK a : a = Head(updates[s])
    OBVIOUS
  <1>13. a \in Update /\ Tail(updates[s]) \in Seq(Update)
    BY <1>1, <1>2
  <1>3. "permission" \in Remembering!Kinds /\ a.user \in AuthUsers /\ a.ends \in Nat
    BY <1>13 DEF Update, Remembering!Kinds
  <1>4. PICK m \in Sent : m = [kind |-> "permission", user |-> a.user, ends |-> a.ends]
    BY <1>3 DEF Sent
  <1>5. /\ updates' = [updates EXCEPT ![s] = Tail(@)]
        /\ Remembering!Remember(M, "permission", a.user, a.ends) /\ Remembering!Tell(m)
        /\ kept' = IF Remembering!PowerSet(a.user) \cap granted = {} THEN kept \cup {a.user} ELSE kept
        /\ UNCHANGED <<granted, untold, aKnown, aPhase, check, pattern, clock>>
    BY <1>2, <1>4 DEF Remembering!UpdateAuthenticationCache, Remembering!bounds
  <1>6. /\ cache' \in [Remembering!Caches -> Held]
        /\ \A d \in Remembering!Caches : \A l \in Remembering!Kinds : \A v \in AuthUsers :
              cache'[d][l][v] = IF d = M /\ l = "permission" /\ v = a.user THEN a.ends ELSE cache[d][l][v]
        /\ \A d \in Remembering!Caches : d # M => cache'[d] = cache[d]
        /\ registering' \in [Remembering!Caches -> Nat] /\ UNCHANGED <<cleaning, hung>>
        /\ Remembering!Cleaned(M)'
    BY <1>1, <1>3, <1>5, Managing, Remembered
  <1>7. \A s1 \in Checkers : cache'[s1] = cache[s1]
    BY <1>6, Managing DEF Remembering!Caches
  <1>8. \A k \in Remembering!Kinds : \A u \in AuthUsers :
            cache'[M][k][u] = IF Sets(m, k, u) THEN To(m) ELSE cache[M][k][u]
    <2>1. \A k \in Remembering!Kinds : \A u \in AuthUsers :
            (Sets(m, k, u) <=> k = "permission" /\ u = a.user) /\ To(m) = a.ends
      BY <1>4 DEF Sets, To, Remembering!Kinds
    <2>2. QED
      BY <1>6, <2>1, Managing
  <1>9. /\ aMail' \in [Checkers -> Seq(Sent)]
        /\ \A s1 \in Checkers : (aPhase[s1] = "new" => aMail[s1] = <<>>)'
        /\ CopiesAgree'
    BY <1>5, <1>6, <1>7, <1>8, TellStep
  <1>10. AuthTypes'
    <2>1. updates' \in [Checkers -> Seq(Update)]
      BY <1>1, <1>5, <1>13 DEF AuthTypes
    <2>2. QED
      BY <1>1, <1>5, <1>6, <1>9, <2>1 DEF AuthTypes
  <1>11. Deserved'
    <2>1. SUFFICES ASSUME M \notin hung, NEW u \in AuthUsers \ kept', cache'[M]["permission"][u] # 0
                   PROVE  Remembering!PowerSet(u) \cap granted # {}
      BY <1>5, <1>6 DEF Deserved
    <2>2. CASE u = a.user
      BY <1>5, <2>1, <2>2
    <2>3. CASE u # a.user
      BY <1>1, <1>3, <1>5, <1>6, <2>1, <2>3, Managing DEF Deserved
    <2>4. QED
      BY <2>2, <2>3
  <1>12. QED
    BY <1>6, <1>9, <1>10, <1>11 DEF AuthInv, Watched

LEMMA PatternStep ==
    ASSUME AuthInv, Remembering!PatternAnswered
    PROVE  AuthInv'
  <1> DEFINE M == Remembering!Manager
  <1>1. /\ AuthTypes /\ pattern \in AuthUsers /\ clock \in Nat
        /\ UNCHANGED <<granted, kept, untold, aKnown, updates, aPhase, check, clock>>
        /\ pattern' = Remembering!Nobody
    BY DEF AuthInv, AuthTypes, Remembering!PatternAnswered, Remembering!managerVars, Remembering!bounds
  <1>2. CASE UNCHANGED <<cache, registering, cleaning, hung, aMail>>
    BY <1>1, <1>2 DEF AuthInv, AuthTypes, CopiesAgree, Deserved, Watched, Remembering!Cleaned
  <1>3. ASSUME NEW e \in Nat, Remembering!Remember(M, "pattern", pattern, e),
               Remembering!Tell([kind |-> "pattern", user |-> pattern, ends |-> e])
        PROVE  AuthInv'
    <2>1. "pattern" \in Remembering!Kinds
      BY DEF Remembering!Kinds
    <2>2. PICK m \in Sent : m = [kind |-> "pattern", user |-> pattern, ends |-> e]
      BY <1>1, <2>1 DEF Sent
    <2>3. /\ cache' \in [Remembering!Caches -> Held]
          /\ \A d \in Remembering!Caches : \A l \in Remembering!Kinds : \A v \in AuthUsers :
                cache'[d][l][v] = IF d = M /\ l = "pattern" /\ v = pattern THEN e ELSE cache[d][l][v]
          /\ \A d \in Remembering!Caches : d # M => cache'[d] = cache[d]
          /\ registering' \in [Remembering!Caches -> Nat] /\ UNCHANGED <<cleaning, hung>>
          /\ Remembering!Cleaned(M)'
      BY <1>1, <1>3, <2>1, Managing, Remembered
    <2>4. \A s \in Checkers : cache'[s] = cache[s]
      BY <2>3, Managing DEF Remembering!Caches
    <2>5. \A k \in Remembering!Kinds : \A u \in AuthUsers :
              cache'[M][k][u] = IF Sets(m, k, u) THEN To(m) ELSE cache[M][k][u]
      <3>1. \A k \in Remembering!Kinds : \A u \in AuthUsers :
              (Sets(m, k, u) <=> k = "pattern" /\ u = pattern) /\ To(m) = e
        BY <2>2 DEF Sets, To, Remembering!Kinds
      <3>2. QED
        BY <2>3, <3>1, Managing
    <2>6. /\ aMail' \in [Checkers -> Seq(Sent)]
          /\ \A s1 \in Checkers : (aPhase[s1] = "new" => aMail[s1] = <<>>)'
          /\ CopiesAgree'
      BY <1>1, <1>3, <2>2, <2>3, <2>4, <2>5, TellStep
    <2>7. AuthTypes'
      BY <1>1, <2>3, <2>6 DEF AuthTypes
    <2>8. "permission" \in Remembering!Kinds /\ \A u \in AuthUsers : cache'[M]["permission"][u] = cache[M]["permission"][u]
      BY <2>3, Managing DEF Remembering!Kinds
    <2>9. Deserved'
      BY <1>1, <2>3, <2>8 DEF AuthInv, Deserved
    <2>10. QED
      BY <2>3, <2>6, <2>7, <2>9 DEF AuthInv, Watched
  <1>4. \/ UNCHANGED <<cache, registering, cleaning, hung, aMail>>
        \/ \E e \in Nat : /\ Remembering!Remember(M, "pattern", pattern, e)
                          /\ Remembering!Tell([kind |-> "pattern", user |-> pattern, ends |-> e])
    <2>1. PICK e \in Remembering!Verified :
              IF e = 0 THEN UNCHANGED <<cache, registering, cleaning, hung, aMail>>
              ELSE /\ Remembering!Remember(M, "pattern", pattern, e)
                   /\ Remembering!Tell([kind |-> "pattern", user |-> pattern, ends |-> e])
      BY DEF Remembering!PatternAnswered, Remembering!cacheVars
    <2>2. e \in Nat
      BY <1>1 DEF Remembering!Verified
    <2>3. QED
      BY <2>1, <2>2
  <1>5. QED
    BY <1>2, <1>3, <1>4

\* What a subscription is given of the cache lasts as long.
LEMMA SubscribeAuthStep ==
    ASSUME AuthInv, NEW s \in Checkers, Remembering!Subscribe(s)
    PROVE  AuthInv'
  <1> DEFINE M == Remembering!Manager
  <1>1. /\ AuthTypes /\ CopiesAgree /\ aPhase[s] = "new" /\ aMail[s] = <<>>
        /\ aPhase' = [aPhase EXCEPT ![s] = "in"]
        /\ cache' = [cache EXCEPT ![s] = Remembering!Copied]
        /\ UNCHANGED <<granted, kept, untold, registering, cleaning, hung, aMail, updates, check, pattern, clock>>
    BY DEF AuthInv, Remembering!Subscribe, Remembering!managerVars, Remembering!bounds
  <1>2. M \in Remembering!Caches /\ s \in Remembering!Caches /\ s # M
    BY Managing DEF Remembering!Caches
  <1>3. /\ Remembering!Copied \in Held
        /\ \A k \in Remembering!Kinds : \A u \in AuthUsers :
              Remembering!Copied[k][u] = Lasting(cache[M][k][u], clock)
    <2>1. ASSUME NEW k \in Remembering!Kinds, NEW u \in AuthUsers
          PROVE  /\ Remembering!Live(cache[M][k][u]) = Lasting(cache[M][k][u], clock)
                 /\ Lasting(cache[M][k][u], clock) \in Nat
      <3>1. cache[M][k][u] \in Nat /\ clock \in Nat
        BY <1>1, <1>2 DEF AuthTypes, Held
      <3>2. QED
        BY <3>1, LiveLasts, LastingTwice
    <2>2. Remembering!Copied = [k \in Remembering!Kinds |-> [u \in AuthUsers |-> Remembering!Live(cache[M][k][u])]]
      BY DEF Remembering!Copied, AuthUsers
    <2>3. QED
      BY <2>1, <2>2 DEF Held
  <1>4. /\ cache' \in [Remembering!Caches -> Held] /\ cache'[s] = Remembering!Copied
        /\ \A d \in Remembering!Caches : d # s => cache'[d] = cache[d]
    BY <1>1, <1>2, <1>3 DEF AuthTypes
  <1>5. AuthTypes'
    <2>1. aPhase' \in [Checkers -> {"new", "in", "gone"}]
      BY <1>1 DEF AuthTypes
    <2>2. QED
      BY <1>1, <1>4, <2>1 DEF AuthTypes
  <1>6. CopiesAgree'
    <2>1. SUFFICES ASSUME NEW t \in Checkers, NEW u \in AuthUsers \ untold, NEW k \in Remembering!Kinds,
                          aPhase'[t] = "in"
                   PROVE  WillHave(cache'[t][k][u], aMail[t], k, u, cache'[M][k][u], clock)
      BY <1>1 DEF CopiesAgree
    <2>2. CASE t = s
      <3>1. cache[M][k][u] \in Nat /\ clock \in Nat
        BY <1>1, <1>2 DEF AuthTypes, Held
      <3>2. Lasting(cache'[t][k][u], clock) = Lasting(cache'[M][k][u], clock)
        <4>1. cache'[t][k][u] = Lasting(cache[M][k][u], clock) /\ cache'[M] = cache[M]
          BY <1>2, <1>3, <1>4, <2>1, <2>2
        <4>2. PICK e \in Nat : e = cache[M][k][u]
          BY <3>1
        <4>3. Lasting(Lasting(e, clock), clock) = Lasting(e, clock)
          BY <3>1, LastingTwice
        <4>4. QED
          BY <4>1, <4>2, <4>3
      <3>3. \A n \in 1..Len(aMail[t]) : ~Sets(aMail[t][n], k, u)
        BY <1>1, <2>2
      <3>4. QED
        BY <3>2, <3>3 DEF WillHave
    <2>3. CASE t # s
      <3>1. aPhase[t] = "in" /\ t \in Remembering!Caches
        BY <1>1, <2>1, <2>3 DEF AuthTypes, Remembering!Caches
      <3>2. cache'[t] = cache[t] /\ cache'[M] = cache[M]
        BY <1>2, <1>4, <2>3, <3>1
      <3>3. QED
        BY <1>1, <3>1, <3>2 DEF CopiesAgree
    <2>4. QED
      BY <2>2, <2>3
  <1>7. Deserved' /\ Watched'
    <2>1. cache'[M] = cache[M]
      BY <1>2, <1>4
    <2>2. QED
      BY <1>1, <2>1 DEF AuthInv, Deserved, Watched, Remembering!Cleaned
  <1>8. \A t \in Checkers : (aPhase[t] = "new" => aMail[t] = <<>>)'
    BY <1>1 DEF AuthInv, AuthTypes
  <1>9. QED
    BY <1>5, <1>6, <1>7, <1>8 DEF AuthInv

\* A message is handled: the cache has what it says.
LEMMA Handled ==
    ASSUME AuthInv, NEW s \in Checkers, aPhase[s] = "in", aMail[s] # <<>>,
           aMail' = [aMail EXCEPT ![s] = Tail(@)],
           cache' \in [Remembering!Caches -> Held],
           \A k \in Remembering!Kinds : \A u \in AuthUsers :
              cache'[s][k][u] = IF Sets(Head(aMail[s]), k, u) THEN To(Head(aMail[s])) ELSE cache[s][k][u],
           \A d \in Remembering!Caches : d # s => cache'[d] = cache[d],
           registering' \in [Remembering!Caches -> Nat],
           \A d \in Remembering!Caches : d # s => registering'[d] = registering[d],
           UNCHANGED <<granted, kept, untold, cleaning, hung, updates, aPhase, check, pattern, clock>>
    PROVE  AuthInv'
  <1> DEFINE M == Remembering!Manager
  <1>1. AuthTypes /\ CopiesAgree /\ aMail[s] \in Seq(Sent) /\ Tail(aMail[s]) \in Seq(Sent)
    BY DEF AuthInv, AuthTypes
  <1>2. M \in Remembering!Caches /\ s \in Remembering!Caches /\ s # M
    BY Managing DEF Remembering!Caches
  <1>3. aMail' \in [Checkers -> Seq(Sent)]
    BY <1>1 DEF AuthTypes
  <1>4. AuthTypes'
    BY <1>1, <1>3 DEF AuthTypes
  <1>5. CopiesAgree'
    <2>1. SUFFICES ASSUME NEW t \in Checkers, NEW u \in AuthUsers \ untold, NEW k \in Remembering!Kinds,
                          aPhase[t] = "in"
                   PROVE  WillHave(cache'[t][k][u], aMail'[t], k, u, cache'[M][k][u], clock)
      BY DEF CopiesAgree
    <2>2. WillHave(cache[t][k][u], aMail[t], k, u, cache[M][k][u], clock) /\ cache'[M] = cache[M]
      BY <1>1, <1>2, <2>1 DEF CopiesAgree
    <2>3. CASE t = s
      <3>1. cache[s][k][u] \in Nat /\ cache[M][k][u] \in Nat /\ clock \in Nat
        BY <1>1, <1>2 DEF AuthTypes, Held
      <3>2. WillHave(IF Sets(Head(aMail[s]), k, u) THEN To(Head(aMail[s])) ELSE cache[s][k][u],
                     Tail(aMail[s]), k, u, cache[M][k][u], clock)
        BY <1>1, <2>2, <2>3, <3>1, WillHaveLess
      <3>3. aMail'[t] = Tail(aMail[s])
        BY <1>1, <2>3 DEF AuthTypes
      <3>4. QED
        BY <2>2, <2>3, <3>2, <3>3
    <2>4. CASE t # s
      <3>1. cache'[t] = cache[t] /\ aMail'[t] = aMail[t]
        BY <1>1, <2>4 DEF AuthTypes, Remembering!Caches
      <3>2. QED
        BY <2>2, <3>1
    <2>5. QED
      BY <2>3, <2>4
  <1>6. Deserved' /\ Watched'
    <2>1. cache'[M] = cache[M] /\ registering'[M] = registering[M]
      BY <1>2
    <2>2. QED
      BY <2>1 DEF AuthInv, Deserved, Watched, Remembering!Cleaned
  <1>7. \A t \in Checkers : (aPhase[t] = "new" => aMail[t] = <<>>)'
    BY <1>1 DEF AuthInv, AuthTypes
  <1>8. QED
    BY <1>4, <1>5, <1>6, <1>7 DEF AuthInv

LEMMA DeliverStep ==
    ASSUME AuthInv, NEW s \in Checkers, Remembering!Deliver(s)
    PROVE  AuthInv'
  <1>1. PICK m : m = Head(aMail[s])
    OBVIOUS
  <1>2. /\ AuthTypes /\ aPhase[s] = "in" /\ aMail[s] # <<>> /\ aMail[s] \in Seq(Sent) /\ m \in Sent
        /\ s \in Remembering!Caches
        /\ UNCHANGED <<granted, kept, untold, updates, aPhase, check, pattern, clock>>
    BY <1>1 DEF AuthInv, AuthTypes, Remembering!Deliver, Remembering!managerVars, Remembering!bounds,
                Remembering!Caches
  <1> DEFINE Gone == aMail' = [aMail EXCEPT ![s] = Tail(@)]
  <1>3. ASSUME m.kind = "added", Gone, UNCHANGED <<cache, registering, cleaning, hung>>
        PROVE  AuthInv'
    <2>1. \A k \in Remembering!Kinds : \A u \in AuthUsers : ~Sets(m, k, u)
      BY <1>3 DEF Sets, Remembering!Kinds
    <2>2. QED
      BY <1>1, <1>2, <1>3, <2>1, Handled DEF AuthTypes
  <1>4. ASSUME Remembering!Hang(s), UNCHANGED aMail
        PROVE  AuthInv'
    <2>1. hung' = hung \cup {s} /\ UNCHANGED <<cache, registering, cleaning>>
      BY <1>4 DEF Remembering!Hang
    <2>2. QED
      BY <1>2, <1>4, <2>1 DEF AuthInv, AuthTypes, CopiesAgree, Deserved, Watched, Remembering!Cleaned
  <1>5. ASSUME m.kind = "removed", Gone, Remembering!Forget(s, m.identity)
        PROVE  AuthInv'
    <2>1. PICK v : v = m.identity[2]
      OBVIOUS
    <2>2. v = Remembering!Nobody \/ v \in AuthUsers
      <3>1. m.identity \in Remembering!Identities
        BY <1>2, <1>5 DEF Sent, Remembering!Kinds
      <3>2. QED
        BY <2>1, <3>1, Identity
    <2>3. UNCHANGED <<registering, cleaning, hung>>
      BY <1>5 DEF Remembering!Forget
    <2>4. \A k \in Remembering!Kinds : \A u \in AuthUsers :
            (Sets(m, k, u) <=> k = "permission" /\ u = v /\ v # Remembering!Nobody) /\ To(m) = 0
      BY <1>5, <2>1 DEF Sets, To, Remembering!Kinds
    <2>5. CASE v = Remembering!Nobody
      <3>1. UNCHANGED cache
        BY <1>5, <2>1, <2>5 DEF Remembering!Forget
      <3>2. QED
        BY <1>1, <1>2, <1>5, <2>3, <2>4, <2>5, <3>1, Handled DEF AuthTypes
    <2>6. CASE v # Remembering!Nobody
      <3>1. cache' = [cache EXCEPT ![s]["permission"][v] = 0] /\ v \in AuthUsers
        BY <1>5, <2>1, <2>2, <2>6 DEF Remembering!Forget
      <3>2. "permission" \in Remembering!Kinds
        BY DEF Remembering!Kinds
      <3>3. /\ cache' \in [Remembering!Caches -> Held]
            /\ \A d \in Remembering!Caches : \A l \in Remembering!Kinds : \A w \in AuthUsers :
                  cache'[d][l][w] = IF d = s /\ l = "permission" /\ w = v THEN 0 ELSE cache[d][l][w]
        <4>1. PICK e \in Nat, p \in Remembering!Kinds, w \in AuthUsers : e = 0 /\ p = "permission" /\ w = v
          BY <3>1, <3>2
        <4>2. cache' = [cache EXCEPT ![s][p][w] = e]
          BY <3>1, <4>1
        <4>3. AuthTypes /\ s \in Remembering!Caches
          BY <1>2
        <4>4. /\ cache' \in [Remembering!Caches -> Held]
              /\ \A d \in Remembering!Caches : \A l \in Remembering!Kinds : \A x \in AuthUsers :
                    cache'[d][l][x] = IF d = s /\ l = p /\ x = w THEN e ELSE cache[d][l][x]
          BY <4>2, <4>3, Written
        <4>5. QED
          BY <4>1, <4>4
      <3>4. \A d \in Remembering!Caches : d # s => cache'[d] = cache[d]
        BY <1>2, <3>1 DEF AuthTypes
      <3>5. \A k \in Remembering!Kinds : \A u \in AuthUsers :
                cache'[s][k][u] = IF Sets(m, k, u) THEN To(m) ELSE cache[s][k][u]
        BY <1>2, <2>4, <2>6, <3>3
      <3>6. QED
        BY <1>1, <1>2, <1>5, <2>3, <3>3, <3>4, <3>5, Handled DEF AuthTypes
    <2>7. QED
      BY <2>5, <2>6
  <1>6. ASSUME m.kind \in Remembering!Kinds, Gone, Remembering!Remember(s, m.kind, m.user, m.ends)
        PROVE  AuthInv'
    <2>1. m.user \in AuthUsers /\ m.ends \in Nat
      BY <1>2, <1>6 DEF Sent, Remembering!Kinds
    <2>2. /\ cache' \in [Remembering!Caches -> Held]
          /\ \A d \in Remembering!Caches : \A l \in Remembering!Kinds : \A v \in AuthUsers :
                cache'[d][l][v] = IF d = s /\ l = m.kind /\ v = m.user THEN m.ends ELSE cache[d][l][v]
          /\ \A d \in Remembering!Caches : d # s => cache'[d] = cache[d] /\ registering'[d] = registering[d]
          /\ registering' \in [Remembering!Caches -> Nat] /\ UNCHANGED <<cleaning, hung>>
      BY <1>2, <1>6, <2>1, Remembered
    <2>3. \A k \in Remembering!Kinds : \A u \in AuthUsers :
            (Sets(m, k, u) <=> k = m.kind /\ u = m.user) /\ To(m) = m.ends
      BY <1>6 DEF Sets, To, Remembering!Kinds
    <2>4. \A k \in Remembering!Kinds : \A u \in AuthUsers :
              cache'[s][k][u] = IF Sets(m, k, u) THEN To(m) ELSE cache[s][k][u]
      BY <1>2, <2>2, <2>3
    <2>5. QED
      BY <1>1, <1>2, <1>6, <2>2, <2>4, Handled
  <1>7. QED
    BY <1>1, <1>3, <1>4, <1>5, <1>6 DEF Remembering!Deliver, Remembering!cacheVars

\* Only what has ended is cleaned.
LEMMA CleanupStep ==
    ASSUME AuthInv, NEW c \in Remembering!Caches, Remembering!CleanupExpired(c)
    PROVE  AuthInv'
  <1> DEFINE M == Remembering!Manager
  <1>1. PICK after : after = [k \in Remembering!Kinds |-> [u \in AuthUsers |-> Remembering!Live(cache[c][k][u])]]
    OBVIOUS
  <1>2. /\ AuthTypes /\ CopiesAgree /\ Deserved /\ Watched
        /\ cache' = [cache EXCEPT ![c] = after]
        /\ cleaning' = [cleaning EXCEPT ![c] = ~Remembering!Stops(after)]
        /\ UNCHANGED <<granted, kept, untold, registering, hung, aMail, updates, aPhase, check, pattern, clock>>
    BY <1>1 DEF AuthInv, Remembering!CleanupExpired, Remembering!managerVars, Remembering!bounds, AuthUsers
  <1>3. \A k \in Remembering!Kinds : \A u \in AuthUsers :
            after[k][u] = Lasting(cache[c][k][u], clock) /\ after[k][u] \in Nat
    <2>1. ASSUME NEW k \in Remembering!Kinds, NEW u \in AuthUsers
          PROVE  after[k][u] = Lasting(cache[c][k][u], clock) /\ after[k][u] \in Nat
      <3>1. cache[c][k][u] \in Nat /\ clock \in Nat
        BY <1>2 DEF AuthTypes, Held
      <3>2. after[k][u] = Remembering!Live(cache[c][k][u])
        BY <1>1
      <3>3. QED
        BY <3>1, <3>2, LiveLasts, LastingTwice
    <2>2. QED
      BY <2>1
  <1>4. after \in Held
    BY <1>1, <1>3 DEF Held
  <1>5. /\ cache' \in [Remembering!Caches -> Held] /\ cache'[c] = after
        /\ \A d \in Remembering!Caches : d # c => cache'[d] = cache[d] /\ cleaning'[d] = cleaning[d]
        /\ cleaning' \in [Remembering!Caches -> BOOLEAN] /\ cleaning'[c] = ~Remembering!Stops(after)
    BY <1>2, <1>4 DEF AuthTypes
  <1>6. AuthTypes'
    BY <1>2, <1>5 DEF AuthTypes
  <1>7. \A d \in Remembering!Caches : \A k \in Remembering!Kinds : \A u \in AuthUsers :
            /\ cache[d][k][u] \in Nat /\ cache'[d][k][u] \in Nat
            /\ Lasting(cache'[d][k][u], clock) = Lasting(cache[d][k][u], clock)
            /\ cache'[d][k][u] # 0 => cache[d][k][u] # 0
    <2>1. ASSUME NEW d \in Remembering!Caches, NEW k \in Remembering!Kinds, NEW u \in AuthUsers
          PROVE  /\ cache[d][k][u] \in Nat /\ cache'[d][k][u] \in Nat
                 /\ Lasting(cache'[d][k][u], clock) = Lasting(cache[d][k][u], clock)
                 /\ cache'[d][k][u] # 0 => cache[d][k][u] # 0
      <3>1. cache[d][k][u] \in Nat /\ clock \in Nat /\ cache'[d][k][u] \in Nat
        BY <1>2, <1>5 DEF AuthTypes, Held
      <3>2. cache'[d][k][u] = cache[d][k][u] \/ cache'[d][k][u] = Lasting(cache[d][k][u], clock)
        BY <1>3, <1>5
      <3>3. QED
        BY <3>1, <3>2, LastingTwice DEF Lasting
    <2>2. QED
      BY <2>1
  <1>8. CopiesAgree'
    <2>1. SUFFICES ASSUME NEW s \in Checkers, NEW u \in AuthUsers \ untold, NEW k \in Remembering!Kinds,
                          aPhase[s] = "in"
                   PROVE  WillHave(cache'[s][k][u], aMail[s], k, u, cache'[M][k][u], clock)
      BY <1>2 DEF CopiesAgree
    <2>2. WillHave(cache[s][k][u], aMail[s], k, u, cache[M][k][u], clock)
      BY <1>2, <2>1 DEF CopiesAgree
    <2>3. s \in Remembering!Caches /\ M \in Remembering!Caches /\ aMail[s] \in Seq(Sent) /\ clock \in Nat
      BY <1>2, Managing DEF Remembering!Caches, AuthTypes
    <2>4. /\ cache[s][k][u] \in Nat /\ cache'[s][k][u] \in Nat /\ cache[M][k][u] \in Nat /\ cache'[M][k][u] \in Nat
          /\ Lasting(cache'[s][k][u], clock) = Lasting(cache[s][k][u], clock)
          /\ Lasting(cache'[M][k][u], clock) = Lasting(cache[M][k][u], clock)
      BY <1>7, <2>3
    <2>5. QED
      BY <2>2, <2>3, <2>4, WillHaveSame
  <1>9. Deserved'
    <2>1. SUFFICES ASSUME M \notin hung, NEW u \in AuthUsers \ kept, cache'[M]["permission"][u] # 0
                   PROVE  Remembering!PowerSet(u) \cap granted # {}
      BY <1>2 DEF Deserved
    <2>2. cache[M]["permission"][u] # 0
      BY <1>7, <2>1, Managing DEF Remembering!Kinds
    <2>3. QED
      BY <1>2, <2>1, <2>2 DEF Deserved
  <1>10. Watched'
    <2>1. CASE c = M
      BY <1>2, <1>5, <2>1 DEF Watched, Remembering!Cleaned, Remembering!Stops
    <2>2. CASE c # M
      BY <1>2, <1>5, <2>2, Managing DEF Watched, Remembering!Cleaned
    <2>3. QED
      BY <2>1, <2>2
  <1>11. QED
    BY <1>2, <1>6, <1>8, <1>9, <1>10 DEF AuthInv

LEMMA RegisteredStep ==
    ASSUME AuthInv, NEW c \in Remembering!Caches, Remembering!Registered(c)
    PROVE  AuthInv'
  <1>1. /\ registering[c] > 0
        /\ registering' = [registering EXCEPT ![c] = @ - 1] /\ cleaning' = [cleaning EXCEPT ![c] = TRUE]
        /\ UNCHANGED <<granted, kept, untold, cache, hung, aMail, updates, aPhase, check, pattern, clock>>
    BY DEF Remembering!Registered, Remembering!managerVars, Remembering!bounds
  <1>2. AuthTypes'
    BY <1>1 DEF AuthInv, AuthTypes
  <1>3. Remembering!Cleaned(Remembering!Manager) => Remembering!Cleaned(Remembering!Manager)'
    BY <1>1, Managing DEF AuthInv, AuthTypes, Remembering!Cleaned
  <1>4. QED
    BY <1>1, <1>2, <1>3 DEF AuthInv, CopiesAgree, Deserved, Watched

LEMMA ClearAuthStep ==
    ASSUME AuthInv, NEW s \in Checkers, Remembering!Clear(s)
    PROVE  AuthInv'
  <1> DEFINE M == Remembering!Manager
  <1>1. /\ aPhase' = [aPhase EXCEPT ![s] = "gone"] /\ aMail' = [aMail EXCEPT ![s] = <<>>]
        /\ cache' = [cache EXCEPT ![s] = Remembering!Nothing]
        /\ registering' = [registering EXCEPT ![s] = 0] /\ cleaning' = [cleaning EXCEPT ![s] = FALSE]
        /\ UNCHANGED <<granted, kept, untold, hung, updates, check, pattern, clock>>
    BY DEF Remembering!Clear, Remembering!managerVars, Remembering!bounds
  <1>2. M \in Remembering!Caches /\ s \in Remembering!Caches /\ s # M
    BY Managing DEF Remembering!Caches
  <1>3. Remembering!Nothing \in Held
    BY DEF Remembering!Nothing, Held, AuthUsers
  <1>4. AuthTypes'
    <2>1. AuthTypes
      BY DEF AuthInv
    <2>2. cleaning' \in [Remembering!Caches -> BOOLEAN]
      BY <1>1, <2>1 DEF AuthTypes
    <2>3. aMail' \in [Checkers -> Seq(Sent)] /\ aPhase' \in [Checkers -> {"new", "in", "gone"}]
      BY <1>1, <2>1 DEF AuthTypes
    <2>4. cache' \in [Remembering!Caches -> Held] /\ registering' \in [Remembering!Caches -> Nat]
      BY <1>1, <1>3, <2>1 DEF AuthTypes
    <2>5. QED
      BY <1>1, <2>1, <2>2, <2>3, <2>4 DEF AuthTypes
  <1>5. /\ \A d \in Remembering!Caches : d # s => cache'[d] = cache[d]
        /\ \A t \in Checkers : t # s => aPhase'[t] = aPhase[t] /\ aMail'[t] = aMail[t]
        /\ cleaning'[M] = cleaning[M] /\ registering'[M] = registering[M]
        /\ aPhase'[s] = "gone" /\ aMail'[s] = <<>>
    BY <1>1, <1>2 DEF AuthInv, AuthTypes
  <1>6. CopiesAgree'
    <2>1. SUFFICES ASSUME NEW t \in Checkers, NEW u \in AuthUsers \ untold, NEW k \in Remembering!Kinds,
                          aPhase'[t] = "in"
                   PROVE  WillHave(cache'[t][k][u], aMail'[t], k, u, cache'[M][k][u], clock)
      BY <1>1 DEF CopiesAgree
    <2>2. t # s /\ t \in Remembering!Caches
      BY <1>5, <2>1 DEF Remembering!Caches
    <2>3. QED
      BY <1>2, <1>5, <2>1, <2>2 DEF AuthInv, CopiesAgree
  <1>7. Deserved' /\ Watched'
    BY <1>1, <1>2, <1>5 DEF AuthInv, Deserved, Watched, Remembering!Cleaned
  <1>8. QED
    BY <1>4, <1>5, <1>6, <1>7 DEF AuthInv

LEMMA TickStep ==
    ASSUME AuthInv, Remembering!Tick
    PROVE  AuthInv'
  <1> DEFINE M == Remembering!Manager
  <1>1. /\ clock' = clock + 1 /\ AuthTypes /\ CopiesAgree
        /\ UNCHANGED <<granted, kept, untold, cache, registering, cleaning, hung, aMail, updates, aPhase, check, pattern>>
    BY DEF AuthInv, Remembering!Tick, Remembering!managerVars, Remembering!cacheVars
  <1>2. AuthTypes'
    BY <1>1 DEF AuthTypes
  <1>3. CopiesAgree'
    <2>1. SUFFICES ASSUME NEW s \in Checkers, NEW u \in AuthUsers \ untold, NEW k \in Remembering!Kinds,
                          aPhase[s] = "in"
                   PROVE  WillHave(cache[s][k][u], aMail[s], k, u, cache[M][k][u], clock + 1)
      BY <1>1 DEF CopiesAgree
    <2>2. /\ cache[s][k][u] \in Nat /\ cache[M][k][u] \in Nat /\ aMail[s] \in Seq(Sent) /\ clock \in Nat
      BY <1>1, Managing DEF AuthTypes, Held, Remembering!Caches
    <2>3. WillHave(cache[s][k][u], aMail[s], k, u, cache[M][k][u], clock)
      BY <1>1, <2>1 DEF CopiesAgree
    <2>4. QED
      BY <2>2, <2>3, WillHaveSame
  <1>4. QED
    BY <1>1, <1>2, <1>3 DEF AuthInv, Deserved, Watched, Remembering!Cleaned

\* Who is asked.
LEMMA AskStep ==
    ASSUME AuthInv,
           \/ \E u \in AuthUsers : Remembering!AuthenticatePattern(u) \/ \E s \in Checkers : Remembering!HasPermission(s, u)
           \/ \E s \in Checkers : Remembering!Answered(s)
    PROVE  AuthInv'
  <1>1. UNCHANGED <<granted, kept, untold, cache, registering, cleaning, hung, aMail, aPhase, clock>>
    BY DEF Remembering!AuthenticatePattern, Remembering!HasPermission, Remembering!Answered, Remembering!Asks,
           Remembering!managerVars, Remembering!cacheVars, Remembering!bounds
  <1>2. /\ updates' \in [Checkers -> Seq(Update)] /\ check' \in [Checkers -> AuthUsers \cup {Remembering!Nobody}]
        /\ pattern' \in AuthUsers \cup {Remembering!Nobody}
    <2>1. CASE \E u \in AuthUsers : Remembering!AuthenticatePattern(u) \/ \E s \in Checkers : Remembering!HasPermission(s, u)
      BY <2>1 DEF AuthInv, AuthTypes, Remembering!AuthenticatePattern, Remembering!HasPermission
    <2>2. CASE \E s \in Checkers : Remembering!Answered(s)
      <3>1. PICK s \in Checkers : Remembering!Answered(s)
        BY <2>2
      <3>2. /\ check[s] \in AuthUsers /\ check' = [check EXCEPT ![s] = Remembering!Nobody] /\ UNCHANGED pattern
            /\ updates[s] \in Seq(Update)
        BY <3>1 DEF AuthInv, AuthTypes, Remembering!Answered
      <3>3. PICK e \in Nat : updates' = updates \/
                updates' = [updates EXCEPT ![s] = Append(@, [user |-> check[s], ends |-> e])]
        <4>1. Remembering!Verified \subseteq Nat
          BY DEF AuthInv, AuthTypes, Remembering!Verified
        <4>2. QED
          BY <3>1, <4>1 DEF Remembering!Answered
      <3>4. [user |-> check[s], ends |-> e] \in Update
        BY <3>2 DEF Update
      <3>5. Append(updates[s], [user |-> check[s], ends |-> e]) \in Seq(Update)
        BY <3>2, <3>4
      <3>6. updates' \in [Checkers -> Seq(Update)]
        BY <3>3, <3>5 DEF AuthInv, AuthTypes
      <3>7. QED
        BY <3>2, <3>6 DEF AuthInv, AuthTypes
    <2>3. QED
      BY <2>1, <2>2
  <1>3. QED
    BY <1>1, <1>2 DEF AuthInv, AuthTypes, CopiesAgree, Deserved, Watched, Remembering!Cleaned

\* The identities that may be given the permission.
LEMMA GivenTo == {<<FALSE, FirstUser>>, <<TRUE, SecondUser>>, <<TRUE, "">>} \subseteq Remembering!Identities
  <1>1. \A h \in BOOLEAN : \A u \in {FirstUser, SecondUser} : <<h, u>> \in Remembering!Identities
    BY DEF Remembering!Identities
  <1>2. Remembering!HostAlone \in Remembering!Identities
    BY DEF Remembering!Identities
  <1>3. <<TRUE, "">> = Remembering!HostAlone
    BY DEF Remembering!HostAlone, Remembering!Nobody
  <1>4. QED
    BY <1>1, <1>2, <1>3

\* AuthenticationInvariance: from the initial state, in every state of every behaviour,
\* what a subscription will have remembered is what the manager has, and the manager has
\* it for those with a permission.
THEOREM AuthenticationInvariance == Spec => []AuthInv
  <1>1. Init => AuthInv
    <2>1. SUFFICES ASSUME Init PROVE AuthInv
      OBVIOUS
    <2>2. Remembering!Init
      BY <2>1 DEF Init
    <2>3. Remembering!Nothing \in Held
      BY DEF Remembering!Nothing, Held, AuthUsers
    <2>10. /\ cache = [c \in Remembering!Caches |-> Remembering!Nothing] /\ clock = 1
           /\ registering = [c \in Remembering!Caches |-> 0] /\ cleaning = [c \in Remembering!Caches |-> FALSE]
           /\ aMail = [s \in Checkers |-> <<>>] /\ updates = [s \in Checkers |-> <<>>]
           /\ aPhase = [s \in Checkers |-> "new"] /\ check = [s \in Checkers |-> Remembering!Nobody]
           /\ pattern = Remembering!Nobody
      BY <2>2 DEF Remembering!Init
    <2>11. cleaning \in [Remembering!Caches -> BOOLEAN]
      BY <2>10
    <2>12. aMail \in [Checkers -> Seq(Sent)] /\ updates \in [Checkers -> Seq(Update)]
      BY <2>10
    <2>4. AuthTypes /\ \A s \in Checkers : aPhase[s] = "new" => aMail[s] = <<>>
      BY <2>3, <2>10, <2>11, <2>12 DEF AuthTypes
    <2>5. CopiesAgree
      BY <2>2 DEF Remembering!Init, CopiesAgree
    <2>6. cache[Remembering!Manager] = Remembering!Nothing
      BY <2>2, Managing DEF Remembering!Init
    <2>7. \A u \in AuthUsers : Remembering!Nothing["permission"][u] = 0
      BY DEF Remembering!Nothing, Remembering!Kinds, AuthUsers
    <2>8. Deserved /\ Watched
      BY <2>6, <2>7 DEF Deserved, Watched
    <2>9. QED
      BY <2>4, <2>5, <2>8 DEF AuthInv
  <1>2. AuthInv /\ [Next]_vars => AuthInv'
    <2>1. SUFFICES ASSUME AuthInv, [Next]_vars PROVE AuthInv'
      OBVIOUS
    <2>2. Remembering!Next \/ UNCHANGED authenticationVars
      BY <2>1 DEF Next, Only, vars
    <2>3. CASE UNCHANGED authenticationVars
      BY <2>1, <2>3 DEF authenticationVars, AuthInv, AuthTypes, CopiesAgree, Deserved, Watched, Remembering!Cleaned
    <2>4. CASE Remembering!PatternAnswered \/ Remembering!Tick
      BY <2>1, <2>4, PatternStep, TickStep
    <2>5. ASSUME NEW c \in Remembering!Caches, Remembering!Registered(c) \/ Remembering!CleanupExpired(c)
          PROVE  AuthInv'
      BY <2>1, <2>5, RegisteredStep, CleanupStep
    <2>6. ASSUME NEW s \in Checkers,
                 \/ Remembering!UpdateAuthenticationCache(s) \/ Remembering!Deliver(s)
                 \/ Remembering!Subscribe(s) \/ Remembering!Clear(s)
          PROVE  AuthInv'
      BY <2>1, <2>6, UpdateStep, DeliverStep, SubscribeAuthStep, ClearAuthStep
    <2>7. CASE \/ \E u \in AuthUsers :
                    Remembering!AuthenticatePattern(u) \/ \E s \in Checkers : Remembering!HasPermission(s, u)
               \/ \E s \in Checkers : Remembering!Answered(s)
      BY <2>1, <2>7, AskStep
    <2>8. ASSUME NEW i \in {<<FALSE, FirstUser>>, <<TRUE, SecondUser>>, <<TRUE, "">>},
                 Remembering!AddPermissions(i) \/ Remembering!RemovePermissions(i)
          PROVE  AuthInv'
      <3>1. i \in Remembering!Identities
        BY GivenTo
      <3>2. QED
        BY <2>1, <2>8, <3>1, AddGrantStep, RemoveGrantStep
    <2>9. QED
      BY <2>2, <2>3, <2>4, <2>5, <2>6, <2>7, <2>8 DEF Remembering!Next, Remembering!Progress, AuthUsers
  <1>3. QED
    BY <1>1, <1>2, PTL DEF Spec

\* A subscription that has handled its messages takes as authenticated what the trust
\* manager does, no authentication of the manager outlives the permissions of its user,
\* and a timer cleans its cache while there is anything in it, but for the users left
\* out in the invariant (DistributedTrust_AuthCache.cpp, HostPermissions.cpp).
THEOREM AuthenticationsArrive == Spec => []AuthenticationsFollow
  <1>1. AuthInv => AuthenticationsFollow
    <2>1. SUFFICES ASSUME AuthInv PROVE AuthenticationsFollow
      OBVIOUS
    <2>2. ASSUME NEW s \in Checkers, NEW u \in AuthUsers \ untold, NEW k \in Remembering!Kinds,
                 aPhase[s] = "in", aMail[s] = <<>>
          PROVE  Remembering!LiveIn(s, k, u) = Remembering!LiveIn(Remembering!Manager, k, u)
      <3>1. WillHave(cache[s][k][u], aMail[s], k, u, cache[Remembering!Manager][k][u], clock)
        BY <2>1, <2>2 DEF AuthInv, CopiesAgree
      <3>2. \A n \in 1..Len(aMail[s]) : FALSE
        BY <2>2
      <3>3. Lasting(cache[s][k][u], clock) = Lasting(cache[Remembering!Manager][k][u], clock)
        BY <3>1, <3>2 DEF WillHave
      <3>4. QED
        BY <3>3, LiveLasts DEF Remembering!LiveIn
    <2>3. ASSUME Remembering!Manager \notin hung, NEW u \in AuthUsers \ kept,
                 Remembering!LiveIn(Remembering!Manager, "permission", u) # 0
          PROVE  Remembering!PowerSet(u) \cap granted # {}
      <3>1. cache[Remembering!Manager]["permission"][u] # 0
        BY <2>1, <2>3, Managing DEF Remembering!LiveIn, Remembering!Live, AuthInv, AuthTypes
      <3>2. QED
        BY <2>1, <2>3, <3>1 DEF AuthInv, Deserved
    <2>4. QED
      BY <2>1, <2>2, <2>3 DEF AuthenticationsFollow, Remembering!AuthenticationsFollow, AuthInv, Watched, AuthUsers
  <1>2. QED
    BY <1>1, AuthenticationInvariance, PTL

----------------------------------------------------------------------------
(* The log store.  What is known here is what is in the database or in the   *)
(* report that is being written; all of it is stored by the upstream, or on  *)
(* its way there, or still to be sent, unless it was overlooked.             *)

LogEntry == [n : Nat \ {0}, e : Nat]
Reports ==
    [entry : LogEntry, stored : {"no", "told", "yes"}, sent : BOOLEAN] \cup {Logs!NoReport}
Task == [kind : {"update", "retry", "entry"}, entry : LogEntry \cup {Logs!Nothing}]
Work == [rows : SUBSET LogEntry, accepted : BOOLEAN]

Reporting == report # Logs!NoReport
Known == db \cup (IF Reporting THEN {report.entry} ELSE {})
Told == IF report.stored = "told" THEN {report.entry} ELSE {}
In(x, q) == \E i \in 1..Len(q) : q[i] = x
Increasing(q) == \A i, j \in 1..Len(q) : i < j => q[i].n < q[j].n

\* What the upstream has, what it has or will have, what is still to be sent to it.
Stored(r) ==
    r \in uDb \/ r.n \in overlooked
    \/ \E i \in 1..Len(uWork) : uWork[i].accepted /\ r \in uWork[i].rows
Covered(r) == r.n <= uSeen \/ r.n \in overlooked \/ \E i \in 1..Len(uWork) : r \in uWork[i].rows
Unsent(r) == Reporting /\ r = report.entry /\ ~report.sent

LogTypes ==
    /\ lastSeen \in Nat /\ saved \in Nat /\ uSeen \in Nat /\ opened \in Nat /\ reports \in Nat
    /\ db \in SUBSET LogEntry /\ uDb \in SUBSET LogEntry /\ rows \in SUBSET LogEntry
    /\ report \in Reports /\ tasks \in Seq(Task) /\ uWork \in Seq(Work)
    /\ queued \in Seq(LogEntry) /\ given \in Seq(LogEntry)

\* Numbers are given once, and all that were are reported.
Numbered ==
    /\ saved <= lastSeen /\ lastSeen <= reports /\ uSeen <= reports
    /\ \A x \in db : x.n <= lastSeen
    /\ \A x, y \in db : x.n = y.n => x = y
    /\ \A i \in 1..Len(uWork) : \A x \in uWork[i].rows : x.n <= reports
    /\ Reporting =>
          /\ report.entry.n <= lastSeen
          /\ \A x \in db : x.n < report.entry.n \/ x = report.entry
          /\ report.stored # "yes" => report.entry \notin db
          /\ report.stored = "yes" /\ report.entry \notin db => report.entry.n <= saved

\* A number that was lost in a crash is one that the catch-up cannot know of.
Accounted ==
    /\ \A n \in Nat : saved < n /\ n <= lastSeen /\ (\A x \in db : x.n < n) =>
          n \in overlooked \/ (Reporting /\ report.entry.n = n /\ report.entry \notin db)
    /\ \A n \in Nat : lastSeen < n /\ n <= uSeen => n \in overlooked
    /\ \A n \in Nat : \A i \in 1..Len(uWork) : \A x \in uWork[i].rows :
          lastSeen < n /\ n <= x.n => n \in overlooked

\* What a reader has and what is queued for it are in order; a reader that is live was given
\* all that is in the database, one that has read it was given it or has it queued.
Reading ==
    /\ Increasing(queued) /\ Increasing(given)
    /\ \A i \in 1..Len(queued) : queued[i].n <= lastSeen
    /\ \A i \in 1..Len(given) : given[i].n <= lastSeen
    /\ Reporting /\ report.stored = "no" =>
          /\ \A i \in 1..Len(queued) : queued[i].n < report.entry.n
          /\ \A i \in 1..Len(given) : given[i].n < report.entry.n
    /\ reader \in {"none", "registered"} => given = <<>>
    /\ reader = "none" => queued = <<>>
    /\ reader = "read" => \A x \in db \cup Told :
          In(x, given) \/ x \in unread \/ (In(x, queued) /\ \A i \in 1..Len(given) : given[i].n < x.n)
    /\ reader = "live" => \A x \in db \cup Told : In(x, given) \/ x \in unread

\* Only the first call is being stored, and its entries are above all that are.
Taking ==
    /\ \A i \in 1..Len(uWork) : uWork[i].accepted =>
          i = 1 /\ \A x \in uWork[i].rows : x.n <= uSeen /\ \A y \in uDb : y.n < x.n
    /\ \A y \in uDb : y.n <= uSeen

\* What is known here and is not above what the upstream has seen is stored there; a call
\* under way is preceded by all that is below its entries.
Followed ==
    /\ \A r \in Known : r.n <= uSeen => Stored(r)
    /\ \A i \in 1..Len(uWork) : ~uWork[i].accepted =>
          \A x \in uWork[i].rows : \A r \in Known : r.n <= x.n =>
              r.n <= uSeen \/ r.n \in overlooked \/ \E j \in 1..i : r \in uWork[j].rows

\* While the reporter is open and has not failed, all that is known is covered or its own
\* task is still to be run; during the catch-up it may also be in the rows that were read.
Sending ==
    /\ \A i \in 1..Len(tasks) : tasks[i].kind = "entry" =>
          Unsent(tasks[i].entry) /\ \A j \in 1..Len(tasks) : tasks[j].kind = "entry" => i = j
    /\ step # "idle" => reporter # "none" /\ tasks # <<>>
    /\ reporter = "open" /\ ~failed => \A r \in Known : Covered(r) \/ Unsent(r)
    /\ step = "delivering" => Covered(report.entry) /\ Head(tasks).kind = "entry"
    /\ step = "reading" => uWork = <<>> /\ uSeen = opened
    /\ step = "sending" =>
          /\ \A r \in Known : Covered(r) \/ Unsent(r) \/ r \in rows
          /\ \A x \in rows :
                /\ x.n <= lastSeen /\ (Reporting => x.n <= report.entry.n)
                /\ \A r \in Known : r.n = x.n => r = x

LogInv == LogTypes /\ Numbered /\ Accounted /\ Reading /\ Taking /\ Followed /\ Sending

----------------------------------------------------------------------------

\* The largest of a bounded set of numbers.
LEMMA MaxOf ==
    ASSUME NEW S \in SUBSET Nat, NEW m \in S, NEW b \in Nat, \A n \in S : n <= b
    PROVE  Logs!Max(S) \in S /\ \A n \in S : n <= Logs!Max(S)
  <1> DEFINE R == {p \in Nat \X Nat : p[1] < p[2]}
             U == {u \in Nat : \A n \in S : n <= u}
  <1>1. IsWellFoundedOn(R, Nat)
    BY NatLessThanWellFounded DEF OpToRel
  <1>2. U \subseteq Nat /\ U # {}
    OBVIOUS
  <1>3. PICK u \in U : \A v \in U : ~(<<v, u>> \in R)
    <2> HIDE DEF R, U
    <2>1. QED
      BY <1>1, <1>2, WFMin
  <1>4. u \in S
    <2>1. SUFFICES ASSUME u \notin S
                   PROVE  FALSE
      OBVIOUS
    <2>2. \A n \in S : n < u
      BY <1>3, <2>1
    <2>3. u - 1 \in U /\ <<u - 1, u>> \in R
      BY <1>3, <2>2
    <2>4. QED
      BY <1>3, <2>3
  <1>5. \A n \in S : u >= n
    BY <1>3
  <1>6. QED
    BY <1>4, <1>5 DEF Logs!Max

\* What is kept of a report.
LEMMA ReportFields ==
    ASSUME LogTypes
    PROVE  /\ Reporting => report.entry \in LogEntry
           /\ ~Reporting => report.entry = Logs!Nothing /\ report.stored = "no" /\ ~report.sent
           /\ report.stored \in {"no", "told", "yes"}
  <1>1. CASE Reporting
    <2>1. report \in [entry : LogEntry, stored : {"no", "told", "yes"}, sent : BOOLEAN]
      BY <1>1 DEF LogTypes, Reports, Reporting
    <2>2. QED
      BY <1>1, <2>1
  <1>2. CASE ~Reporting
    BY <1>2 DEF Reporting, Logs!NoReport
  <1>3. QED
    BY <1>1, <1>2

LEMMA ReportStored ==
    ASSUME LogTypes, Reporting, NEW s \in {"told", "yes"}, report' = [report EXCEPT !.stored = s]
    PROVE  /\ report' \in Reports /\ Reporting' /\ report'.stored = s
           /\ report'.entry = report.entry /\ report'.sent = report.sent
  <1>1. report \in [entry : LogEntry, stored : {"no", "told", "yes"}, sent : BOOLEAN]
    BY DEF LogTypes, Reports, Reporting
  <1>2. Logs!NoReport.entry \notin LogEntry
    BY DEF Logs!NoReport, Logs!Nothing, LogEntry
  <1>3. QED
    BY <1>1, <1>2 DEF Reports, Reporting

LEMMA ReportSent ==
    ASSUME LogTypes, Reporting, report' = [report EXCEPT !.sent = TRUE]
    PROVE  /\ report' \in Reports /\ Reporting' /\ report'.sent
           /\ report'.entry = report.entry /\ report'.stored = report.stored
  <1>1. report \in [entry : LogEntry, stored : {"no", "told", "yes"}, sent : BOOLEAN]
    BY DEF LogTypes, Reports, Reporting
  <1>2. Logs!NoReport.entry \notin LogEntry
    BY DEF Logs!NoReport, Logs!Nothing, LogEntry
  <1>3. QED
    BY <1>1, <1>2 DEF Reports, Reporting

LEMMA EntryNumber ==
    /\ \A x \in LogEntry : x.n \in Nat /\ x.n > 0
    /\ \A q \in Seq(LogEntry) : \A i \in 1..Len(q) : q[i] \in LogEntry /\ q[i].n \in Nat
  <1>1. \A x \in LogEntry : x.n \in Nat /\ x.n > 0
    BY DEF LogEntry
  <1>2. \A q \in Seq(LogEntry) : \A i \in 1..Len(q) : q[i] \in LogEntry
    OBVIOUS
  <1>3. QED
    BY <1>1, <1>2

\* An entry more.
LEMMA EntryIn ==
    ASSUME NEW q \in Seq(LogEntry), NEW x \in LogEntry, NEW r, r = Append(q, x)
    PROVE  \A y : In(y, r) <=> In(y, q) \/ y = x
  <1>1. /\ Len(r) = Len(q) + 1 /\ Len(q) \in Nat
        /\ r[Len(q) + 1] = x /\ \A i \in 1..Len(q) : r[i] = q[i]
    OBVIOUS
  <1>2. \A i \in 1..Len(q) + 1 : i \in 1..Len(q) \/ i = Len(q) + 1
    BY <1>1
  <1>3. QED
    BY <1>1, <1>2 DEF In

LEMMA EntryMore ==
    ASSUME NEW q \in Seq(LogEntry), NEW x \in LogEntry, Increasing(q), \A i \in 1..Len(q) : q[i].n < x.n,
           NEW r, r = Append(q, x)
    PROVE  /\ r \in Seq(LogEntry) /\ Increasing(r)
           /\ \A i \in 1..Len(r) : r[i].n <= x.n
  <1>1. /\ r \in Seq(LogEntry) /\ Len(r) = Len(q) + 1 /\ Len(q) \in Nat
        /\ r[Len(q) + 1] = x /\ \A i \in 1..Len(q) : r[i] = q[i]
    OBVIOUS
  <1>2. \A i \in 1..Len(q) + 1 : i \in 1..Len(q) \/ i = Len(q) + 1
    BY <1>1
  <1>3. x.n \in Nat /\ \A i \in 1..Len(q) : q[i].n \in Nat
    BY EntryNumber
  <1>4. Increasing(r)
    <2>1. SUFFICES ASSUME NEW i \in 1..Len(q) + 1, NEW j \in 1..Len(q) + 1, i < j
                   PROVE  r[i].n < r[j].n
      BY <1>1 DEF Increasing
    <2>2. i \in 1..Len(q)
      BY <1>1, <2>1
    <2>3. QED
      BY <1>1, <1>2, <2>1, <2>2 DEF Increasing
  <1>5. \A i \in 1..Len(r) : r[i].n <= x.n
    BY <1>1, <1>2, <1>3
  <1>6. QED
    BY <1>1, <1>4, <1>5

\* What holds of the rest when only what is stored of the report changes.
LEMMA StoredMore ==
    ASSUME LogInv, Reporting, NEW s \in {"told", "yes"}, report' = [report EXCEPT !.stored = s],
           Known' = Known,
           UNCHANGED <<uSeen, uDb, uWork, overlooked, reporter, failed, tasks, step, opened, rows, lastSeen>>
    PROVE  Taking' /\ Followed' /\ Sending'
  <1>1. /\ LogTypes /\ Taking /\ Followed /\ Sending
    BY DEF LogInv
  <1>2. /\ Reporting' /\ report'.entry = report.entry /\ report'.sent = report.sent
    BY <1>1, ReportStored
  <1>3. /\ \A r : Stored(r)' <=> Stored(r)
        /\ \A r : Covered(r)' <=> Covered(r)
        /\ \A r : Unsent(r)' <=> Unsent(r)
    BY <1>2 DEF Stored, Covered, Unsent
  <1>4. Taking'
    BY <1>1 DEF Taking
  <1>5. Followed'
    BY <1>1, <1>3 DEF Followed
  <1>6. Sending'
    BY <1>1, <1>2, <1>3 DEF Sending
  <1>7. QED
    BY <1>4, <1>5, <1>6

\* The actor's answer: readers are told of the entry.
LEMMA WriteBeginsStep ==
    ASSUME LogInv, Logs!WriteBegins
    PROVE  LogInv'
  <1>1. /\ LogTypes /\ Numbered /\ Accounted /\ Reading
        /\ Reporting /\ report.stored = "no"
        /\ report' = [report EXCEPT !.stored = "told"]
        /\ UNCHANGED <<lastSeen, db, saved, reports, reporter, failed, tasks, step, opened, rows, uSeen,
                       uDb, uWork, reader, unread, overlooked>>
    BY DEF LogInv, Logs!WriteBegins, Reporting, Logs!reporterVars, Logs!upstreamVars
  <1>2. /\ report' \in Reports /\ Reporting' /\ report'.stored = "told"
        /\ report'.entry = report.entry /\ report.entry \in LogEntry
    BY <1>1, ReportStored, ReportFields
  <1>3. /\ Known' = Known /\ Told' = {report.entry} /\ Told = {}
    BY <1>1, <1>2 DEF Known, Told
  <1>4. PICK p, q, g : p = report.entry /\ q = Append(queued, p) /\ g = Append(given, p)
    OBVIOUS
  <1>5. /\ queued' = IF reader \in {"registered", "read"} THEN q ELSE queued
        /\ given' = IF reader = "live" THEN g ELSE given
    BY <1>4 DEF Logs!WriteBegins
  <1>6. /\ q \in Seq(LogEntry) /\ Increasing(q) /\ \A x : In(x, q) <=> In(x, queued) \/ x = report.entry
        /\ \A i \in 1..Len(q) : q[i].n <= report.entry.n
    <2>1. /\ queued \in Seq(LogEntry) /\ p \in LogEntry /\ Increasing(queued)
          /\ \A i \in 1..Len(queued) : queued[i].n < p.n
      BY <1>1, <1>2, <1>4 DEF LogTypes, Reading
    <2>2. q \in Seq(LogEntry)
      BY <1>4, <2>1, EntryMore
    <2>3. Increasing(q)
      BY <1>4, <2>1, EntryMore
    <2>4. \A x : In(x, q) <=> In(x, queued) \/ x = p
      <3>1. queued \in Seq(LogEntry) /\ p \in LogEntry
        BY <2>1
      <3>2. q = Append(queued, p)
        BY <1>4
      <3>3. QED
        BY <3>1, <3>2, EntryIn, Zenon
    <2>5. \A i \in 1..Len(q) : q[i].n <= p.n
      BY <1>4, <2>1, EntryMore
    <2>6. QED
      BY <1>4, <2>2, <2>3, <2>4, <2>5
  <1>7. /\ g \in Seq(LogEntry) /\ Increasing(g) /\ \A x : In(x, g) <=> In(x, given) \/ x = report.entry
        /\ \A i \in 1..Len(g) : g[i].n <= report.entry.n
    <2>1. /\ given \in Seq(LogEntry) /\ p \in LogEntry /\ Increasing(given)
          /\ \A i \in 1..Len(given) : given[i].n < p.n
      BY <1>1, <1>2, <1>4 DEF LogTypes, Reading
    <2>2. g \in Seq(LogEntry)
      BY <1>4, <2>1, EntryMore
    <2>3. Increasing(g)
      BY <1>4, <2>1, EntryMore
    <2>4. \A x : In(x, g) <=> In(x, given) \/ x = p
      <3>1. given \in Seq(LogEntry) /\ p \in LogEntry
        BY <2>1
      <3>2. g = Append(given, p)
        BY <1>4
      <3>3. QED
        BY <3>1, <3>2, EntryIn, Zenon
    <2>5. \A i \in 1..Len(g) : g[i].n <= p.n
      BY <1>4, <2>1, EntryMore
    <2>6. QED
      BY <1>4, <2>2, <2>3, <2>4, <2>5
  <1>8. LogTypes'
    BY <1>1, <1>2, <1>5, <1>6, <1>7 DEF LogTypes
  <1>9. Numbered' /\ Accounted'
    BY <1>1, <1>2 DEF Numbered, Accounted
  <1>10. Reading'
    <2>1. /\ Increasing(queued') /\ Increasing(given')
      BY <1>1, <1>5, <1>6, <1>7 DEF Reading
    <2>2. /\ \A i \in 1..Len(queued') : queued'[i].n <= lastSeen
          /\ \A i \in 1..Len(given') : given'[i].n <= lastSeen
      <3>1. report.entry.n <= lastSeen /\ report.entry.n \in Nat /\ lastSeen \in Nat
        BY <1>1, <1>2 DEF Numbered, LogEntry, LogTypes
      <3>2. /\ \A i \in 1..Len(q) : q[i].n <= lastSeen
            /\ \A i \in 1..Len(g) : g[i].n <= lastSeen
        BY <1>6, <1>7, <3>1, EntryNumber
      <3>3. QED
        BY <1>1, <1>5, <3>2 DEF Reading
    <2>3. CASE reader \in {"none", "registered"}
      BY <1>1, <1>2, <1>5, <2>1, <2>2, <2>3 DEF Reading
    <2>4. CASE reader = "read"
      <3>1. \A x \in db \cup {report.entry} :
               In(x, given) \/ x \in unread \/ (In(x, q) /\ \A i \in 1..Len(given) : given[i].n < x.n)
        BY <1>1, <1>2, <1>6, <2>4 DEF Reading
      <3>2. QED
        BY <1>1, <1>2, <1>3, <1>5, <2>1, <2>2, <2>4, <3>1 DEF Reading
    <2>5. CASE reader = "live"
      <3>1. \A x \in db \cup {report.entry} : In(x, g) \/ x \in unread
        BY <1>1, <1>2, <1>7, <2>5 DEF Reading
      <3>2. QED
        BY <1>1, <1>2, <1>3, <1>5, <2>1, <2>2, <2>5, <3>1 DEF Reading
    <2>6. CASE reader \notin {"none", "registered", "read", "live"}
      BY <1>1, <1>2, <1>5, <2>1, <2>2, <2>6 DEF Reading
    <2>7. QED
      BY <2>3, <2>4, <2>5, <2>6
  <1>11. Taking' /\ Followed' /\ Sending'
    BY <1>1, <1>3, StoredMore
  <1>12. QED
    BY <1>8, <1>9, <1>10, <1>11 DEF LogInv

\* The write is committed to the database.
LEMMA CommitStep ==
    ASSUME LogInv, Logs!Commit
    PROVE  LogInv'
  <1>1. /\ LogTypes /\ Numbered /\ Accounted /\ Reading
        /\ report.stored = "told"
        /\ report' = [report EXCEPT !.stored = "yes"] /\ db' = db \cup {report.entry}
        /\ UNCHANGED <<lastSeen, saved, reports, reporter, failed, tasks, step, opened, rows, uSeen,
                       uDb, uWork, reader, queued, given, unread, overlooked>>
    BY DEF LogInv, Logs!Commit, Logs!reporterVars, Logs!upstreamVars, Logs!readerVars
  <1>2. /\ Reporting /\ report.entry \in LogEntry
    BY <1>1, ReportFields
  <1>3. /\ report' \in Reports /\ Reporting' /\ report'.stored = "yes" /\ report'.entry = report.entry
    BY <1>1, <1>2, ReportStored
  <1>4. /\ Known' = Known /\ Told' = {} /\ Told = {report.entry}
    BY <1>1, <1>2, <1>3 DEF Known, Told
  <1>5. LogTypes'
    BY <1>1, <1>2, <1>3 DEF LogTypes
  <1>6. Numbered'
    <2>1. \A x \in db' : \A y \in db' : x.n = y.n => x = y
      BY <1>1, <1>2 DEF Numbered, LogTypes, LogEntry
    <2>2. QED
      BY <1>1, <1>2, <1>3, <2>1 DEF Numbered
  <1>7. Accounted'
    <2>1. ASSUME NEW n \in Nat, saved < n, n <= lastSeen, \A x \in db' : x.n < n
          PROVE  n \in overlooked
      <3>1. report.entry.n < n /\ report.entry.n \in Nat /\ \A x \in db : x.n < n
        BY <1>1, <1>2, <2>1 DEF LogEntry
      <3>2. QED
        BY <1>1, <2>1, <3>1 DEF Accounted
    <2>2. QED
      BY <1>1, <2>1 DEF Accounted
  <1>8. Reading'
    BY <1>1, <1>2, <1>3, <1>4 DEF Reading
  <1>9. Taking' /\ Followed' /\ Sending'
    BY <1>1, <1>2, <1>4, StoredMore
  <1>10. QED
    BY <1>5, <1>6, <1>7, <1>8, <1>9 DEF LogInv

\* The call that reports has its answer.
LEMMA ReportEndsStep ==
    ASSUME LogInv, Logs!ReportEnds
    PROVE  LogInv'
  <1>1. /\ LogTypes /\ Numbered /\ Accounted /\ Reading /\ Taking /\ Followed /\ Sending
        /\ report.stored = "yes" /\ report.sent /\ report' = Logs!NoReport
        /\ UNCHANGED <<lastSeen, db, saved, reports, reporter, failed, tasks, step, opened, rows, uSeen,
                       uDb, uWork, reader, queued, given, unread, overlooked>>
    BY DEF LogInv, Logs!ReportEnds, Logs!reporterVars, Logs!upstreamVars, Logs!readerVars
  <1>2. /\ Reporting /\ report.entry \in LogEntry /\ report' \in Reports /\ ~Reporting' /\ report'.stored = "no"
    BY <1>1, ReportFields DEF Reporting, Reports, Logs!NoReport
  <1>3. /\ Known' = db /\ db \subseteq Known /\ Told' = {} /\ Told = {}
    BY <1>1, <1>2 DEF Known, Told
  <1>4. /\ \A r : ~Unsent(r)
        /\ \A r : Stored(r)' <=> Stored(r)
        /\ \A r : Covered(r)' <=> Covered(r)
    BY <1>1 DEF Stored, Covered, Unsent
  <1>5. LogTypes'
    BY <1>1, <1>2 DEF LogTypes
  <1>6. Numbered'
    BY <1>1, <1>2 DEF Numbered
  <1>7. Accounted'
    <2>1. ASSUME NEW n \in Nat, saved < n, n <= lastSeen, \A x \in db : x.n < n
          PROVE  n \in overlooked
      <3>1. report.entry \notin db => report.entry.n <= saved
        BY <1>1, <1>2 DEF Numbered
      <3>2. QED
        BY <1>1, <1>2, <2>1, <3>1 DEF Accounted, LogTypes, LogEntry
    <2>2. QED
      BY <1>1, <2>1 DEF Accounted
  <1>8. Reading'
    BY <1>1, <1>2, <1>3 DEF Reading
  <1>9. Taking' /\ Followed'
    BY <1>1, <1>3, <1>4 DEF Taking, Followed
  <1>10. Sending'
    <2>1. \A i \in 1..Len(tasks) : tasks[i].kind # "entry"
      BY <1>1, <1>4 DEF Sending
    <2>2. step # "delivering"
      BY <1>1, <2>1 DEF Sending, LogTypes
    <2>3. QED
      BY <1>1, <1>2, <1>3, <1>4, <2>1, <2>2 DEF Sending
  <1>11. QED
    BY <1>5, <1>6, <1>7, <1>8, <1>9, <1>10 DEF LogInv

\* What holds of a sequence of tasks with one more, and with the first gone.
LEMMA TaskMore ==
    ASSUME tasks \in Seq(Task), NEW t \in Task, NEW q, q = Append(tasks, t)
    PROVE  /\ q \in Seq(Task) /\ Len(tasks) \in Nat /\ Len(q) = Len(tasks) + 1 /\ q[Len(tasks) + 1] = t
           /\ \A i \in 1..Len(tasks) : q[i] = tasks[i]
           /\ tasks # <<>> => q # <<>> /\ Head(q) = Head(tasks)
  OBVIOUS

LEMMA TaskLess ==
    ASSUME tasks \in Seq(Task), tasks # <<>>, NEW q, q = Tail(tasks)
    PROVE  /\ q \in Seq(Task) /\ Len(tasks) \in Nat \ {0} /\ Len(q) = Len(tasks) - 1
           /\ \A i \in 1..Len(q) : i + 1 \in 1..Len(tasks) /\ q[i] = tasks[i + 1]
           /\ 1 \in 1..Len(tasks) /\ tasks[1] = Head(tasks)
  OBVIOUS

TasksOnce ==
    \A i \in 1..Len(tasks) : tasks[i].kind = "entry" =>
        Unsent(tasks[i].entry) /\ \A j \in 1..Len(tasks) : tasks[j].kind = "entry" => i = j

\* A number is given to the entry and its task is queued for the reporter.
LEMMA ReportStep ==
    ASSUME LogInv, Logs!Report
    PROVE  LogInv'
  <1>1. /\ LogTypes /\ Numbered /\ Accounted /\ Reading /\ Taking /\ Followed /\ Sending
        /\ ~Reporting /\ lastSeen' = lastSeen + 1 /\ reports' = reports + 1
        /\ UNCHANGED <<db, saved, reporter, failed, step, opened, rows, uSeen, uDb, uWork, reader, queued,
                       given, unread, overlooked>>
    BY DEF LogInv, Logs!Report, Reporting, Logs!upstreamVars, Logs!readerVars
  <1>2. PICK p : p = [n |-> lastSeen + 1, e |-> reports + 1]
    OBVIOUS
  <1>3. p \in LogEntry /\ p.n = lastSeen + 1
    BY <1>1, <1>2 DEF LogEntry, LogTypes
  <1>4. /\ report' \in Reports /\ Reporting' /\ report'.entry = p /\ report'.stored = "no"
        /\ report'.sent <=> reporter = "none"
    <2>1. PICK b \in BOOLEAN : b <=> reporter = "none"
      OBVIOUS
    <2>2. report' = [entry |-> p, stored |-> "no", sent |-> b]
      BY <1>1, <1>2, <2>1 DEF Logs!Report
    <2>3. Logs!NoReport.entry \notin LogEntry
      BY DEF Logs!NoReport, Logs!Nothing, LogEntry
    <2>4. QED
      BY <1>3, <2>1, <2>2, <2>3 DEF Reports, Reporting
  <1>5. /\ Known = db /\ Known' = db \cup {p} /\ Told' = {} /\ Told = {}
        /\ \A r : ~Unsent(r)
        /\ \A r : Stored(r)' <=> Stored(r)
        /\ \A r : Covered(r)' <=> Covered(r)
    <2>1. Known = db /\ Told = {} /\ \A r : ~Unsent(r)
      BY <1>1, ReportFields DEF Known, Told, Unsent
    <2>2. Known' = db \cup {p} /\ Told' = {}
      BY <1>1, <1>4 DEF Known, Told
    <2>3. QED
      BY <1>1, <2>1, <2>2 DEF Stored, Covered
  <1>6. PICK t : t = [kind |-> "entry", entry |-> p]
    OBVIOUS
  <1>7. t \in Task /\ t.kind = "entry" /\ t.entry = p
    BY <1>3, <1>6 DEF Task
  <1>8. tasks' = IF reporter = "none" THEN tasks ELSE Append(tasks, t)
    BY <1>4, <1>6 DEF Logs!Report
  <1>9. LogTypes'
    <2>1. tasks' \in Seq(Task)
      BY <1>1, <1>7, <1>8 DEF LogTypes
    <2>2. QED
      BY <1>1, <1>4, <2>1 DEF LogTypes
  <1>10. \A x \in db : x.n < p.n /\ x.n \in Nat
    BY <1>1, <1>3, EntryNumber DEF Numbered, LogTypes
  <1>11. Numbered'
    <2>1. /\ saved <= lastSeen' /\ lastSeen' <= reports' /\ uSeen <= reports'
          /\ \A x \in db : x.n <= lastSeen'
      BY <1>1, <1>3, <1>10 DEF Numbered, LogTypes
    <2>2. \A i \in 1..Len(uWork) : \A x \in uWork[i].rows : x.n <= reports'
      <3>1. SUFFICES ASSUME NEW i \in 1..Len(uWork), NEW x \in uWork[i].rows
                     PROVE  x.n <= reports'
        OBVIOUS
      <3>2. x.n <= reports /\ x.n \in Nat /\ reports \in Nat
        <4>1. uWork[i] \in Work
          BY <1>1 DEF LogTypes
        <4>2. x \in LogEntry
          BY <4>1 DEF Work
        <4>3. QED
          BY <1>1, <4>2, EntryNumber DEF Numbered, LogTypes
      <3>3. QED
        BY <1>1, <3>2
    <2>3. p \notin db /\ p.n <= lastSeen'
      BY <1>1, <1>3, <1>10 DEF LogTypes
    <2>4. QED
      BY <1>1, <1>4, <1>10, <2>1, <2>2, <2>3 DEF Numbered
  <1>12. Accounted'
    <2>1. ASSUME NEW n \in Nat, saved < n, n <= lastSeen + 1, \A x \in db : x.n < n
          PROVE  n \in overlooked \/ (p.n = n /\ p \notin db)
      <3>1. n <= lastSeen \/ n = p.n
        BY <1>1, <1>3, <2>1 DEF LogTypes
      <3>2. QED
        BY <1>1, <1>3, <1>10, <2>1, <3>1 DEF Accounted
    <2>2. \A n \in Nat : lastSeen + 1 < n => lastSeen < n
      BY <1>1 DEF LogTypes
    <2>3. QED
      BY <1>1, <1>4, <2>1, <2>2 DEF Accounted
  <1>13. Reading'
    <2>1. /\ \A i \in 1..Len(queued) : queued[i].n <= lastSeen + 1 /\ queued[i].n < p.n
          /\ \A i \in 1..Len(given) : given[i].n <= lastSeen + 1 /\ given[i].n < p.n
      <3>1. lastSeen \in Nat /\ queued \in Seq(LogEntry) /\ given \in Seq(LogEntry)
        BY <1>1 DEF LogTypes
      <3>2. /\ \A i \in 1..Len(queued) : queued[i].n <= lastSeen /\ queued[i].n \in Nat
            /\ \A i \in 1..Len(given) : given[i].n <= lastSeen /\ given[i].n \in Nat
        BY <1>1, <3>1, EntryNumber DEF Reading
      <3>3. \A n \in Nat : n <= lastSeen => n <= lastSeen + 1 /\ n < p.n
        BY <1>3, <3>1
      <3>4. QED
        BY <3>2, <3>3
    <2>2. QED
      BY <1>1, <1>4, <1>5, <2>1 DEF Reading
  <1>14. Taking'
    BY <1>1 DEF Taking
  <1>15. Followed'
    <2>1. p.n <= uSeen => p.n \in overlooked
      BY <1>1, <1>3 DEF Accounted, LogTypes
    <2>2. \A i \in 1..Len(uWork) : \A x \in uWork[i].rows : p.n <= x.n => p.n \in overlooked
      BY <1>1, <1>3 DEF Accounted, LogTypes
    <2>3. QED
      BY <1>1, <1>5, <2>1, <2>2 DEF Followed, Stored
  <1>16. Sending'
    <2>1. \A i \in 1..Len(tasks) : tasks[i].kind # "entry"
      BY <1>1, <1>5 DEF Sending
    <2>2. step # "delivering"
      BY <1>1, <2>1 DEF Sending, LogTypes
    <2>3. reporter # "none" => Unsent(p)'
      BY <1>4 DEF Unsent
    <2>4. TasksOnce'
      <3>1. CASE reporter = "none"
        BY <1>8, <2>1, <3>1 DEF TasksOnce
      <3>2. CASE reporter # "none"
        <4>1. /\ Len(tasks) \in Nat /\ Len(tasks') = Len(tasks) + 1 /\ tasks'[Len(tasks) + 1] = t
              /\ \A i \in 1..Len(tasks) : tasks'[i] = tasks[i]
          BY <1>1, <1>7, <1>8, <3>2, TaskMore DEF LogTypes
        <4>2. \A i \in 1..Len(tasks) + 1 : i \in 1..Len(tasks) \/ i = Len(tasks) + 1
          BY <4>1
        <4>3. \A i \in 1..Len(tasks') : tasks'[i].kind = "entry" => i = Len(tasks) + 1
          BY <2>1, <4>1, <4>2
        <4>4. QED
          BY <1>7, <2>3, <3>2, <4>1, <4>3 DEF TasksOnce
      <3>3. QED
        BY <3>1, <3>2
    <2>5. (reporter = "open" /\ ~failed => \A r \in Known : Covered(r) \/ Unsent(r))'
      BY <1>1, <1>5, <2>3 DEF Sending
    <2>6. (step = "sending" =>
              /\ \A r \in Known : Covered(r) \/ Unsent(r) \/ r \in rows
              /\ \A x \in rows :
                    /\ x.n <= lastSeen /\ (Reporting => x.n <= report.entry.n)
                    /\ \A r \in Known : r.n = x.n => r = x)'
      <3>1. SUFFICES ASSUME step = "sending"
                     PROVE  /\ \A r \in db \cup {p} : Covered(r) \/ Unsent(r)' \/ r \in rows
                            /\ \A x \in rows :
                                 /\ x.n <= lastSeen + 1 /\ x.n <= p.n
                                 /\ \A r \in db \cup {p} : r.n = x.n => r = x
        BY <1>1, <1>4, <1>5
      <3>2. \A x \in rows : x.n <= lastSeen /\ x.n < p.n /\ x.n <= lastSeen + 1 /\ x.n <= p.n
        BY <1>1, <1>3, <3>1, EntryNumber DEF Sending, LogTypes
      <3>3. \A x \in rows : \A r \in db \cup {p} : r.n = x.n => r = x
        <4>1. \A x \in rows : x.n # p.n
          BY <1>1, <1>3, <3>2, EntryNumber DEF LogTypes
        <4>2. QED
          BY <1>1, <1>5, <3>1, <4>1 DEF Sending
      <3>4. QED
        BY <1>1, <1>5, <2>3, <3>1, <3>2, <3>3 DEF Sending
    <2>7. tasks # <<>> => tasks' # <<>>
      BY <1>1, <1>7, <1>8, TaskMore DEF LogTypes
    <2>8. QED
      BY <1>1, <2>2, <2>4, <2>5, <2>6, <2>7 DEF Sending, TasksOnce
  <1>17. QED
    BY <1>9, <1>11, <1>12, <1>13, <1>14, <1>15, <1>16 DEF LogInv

\* Nothing is known that was not.
LEMMA LessKnown ==
    ASSUME Taking, Followed, Sending, Known' \subseteq Known,
           UNCHANGED <<report, uSeen, uDb, uWork, overlooked, reporter, failed, tasks, step, opened, rows, lastSeen>>
    PROVE  Taking' /\ Followed' /\ Sending'
  <1>1. /\ \A r : Stored(r)' <=> Stored(r)
        /\ \A r : Covered(r)' <=> Covered(r)
        /\ \A r : Unsent(r)' <=> Unsent(r)
        /\ Reporting' <=> Reporting
    BY DEF Stored, Covered, Unsent, Reporting
  <1>2. QED
    BY <1>1 DEF Taking, Followed, Sending

\* The oldest entries are removed.
LEMMA CleanupLogStep ==
    ASSUME LogInv, Logs!Cleanup
    PROVE  LogInv'
  <1>1. /\ LogTypes /\ Numbered /\ Accounted /\ Reading /\ Taking /\ Followed /\ Sending
        /\ report.stored # "told" /\ saved' = lastSeen /\ db' \subseteq db
        /\ UNCHANGED <<lastSeen, reports, report, reporter, failed, tasks, step, opened, rows, uSeen,
                       uDb, uWork, reader, queued, given, unread, overlooked>>
    BY DEF LogInv, Logs!Cleanup, Logs!Deletes, Logs!Above, Logs!reporterVars, Logs!upstreamVars,
           Logs!readerVars
  <1>2. /\ Reporting' = Reporting /\ Known' \subseteq Known /\ Told' = {} /\ Told = {}
    BY <1>1 DEF Reporting, Known, Told
  <1>3. LogTypes'
    BY <1>1 DEF LogTypes
  <1>4. Numbered'
    BY <1>1, <1>2 DEF Numbered, LogTypes
  <1>5. Accounted'
    BY <1>1 DEF Accounted, LogTypes
  <1>6. Reading'
    BY <1>1, <1>2 DEF Reading
  <1>7. QED
    BY <1>1, <1>2, <1>3, <1>4, <1>5, <1>6, LessKnown DEF LogInv

\* A task more that is not about an entry.
LEMMA UpdateMore ==
    ASSUME LogTypes, TasksOnce, NEW t \in Task, t.kind # "entry", tasks' = Append(tasks, t), UNCHANGED report
    PROVE  /\ TasksOnce' /\ tasks' \in Seq(Task)
           /\ tasks # <<>> => tasks' # <<>> /\ Head(tasks') = Head(tasks)
  <1>1. /\ tasks' \in Seq(Task) /\ Len(tasks) \in Nat /\ Len(tasks') = Len(tasks) + 1
        /\ tasks'[Len(tasks) + 1] = t /\ \A i \in 1..Len(tasks) : tasks'[i] = tasks[i]
        /\ tasks # <<>> => tasks' # <<>> /\ Head(tasks') = Head(tasks)
    <2>1. PICK q : q = Append(tasks, t)
      OBVIOUS
    <2>2. tasks \in Seq(Task)
      BY DEF LogTypes
    <2>3. /\ q \in Seq(Task) /\ Len(tasks) \in Nat /\ Len(q) = Len(tasks) + 1
          /\ q[Len(tasks) + 1] = t /\ \A i \in 1..Len(tasks) : q[i] = tasks[i]
          /\ tasks # <<>> => q # <<>> /\ Head(q) = Head(tasks)
      BY <2>1, <2>2, TaskMore
    <2>4. tasks' = q
      BY <2>1
    <2>5. QED
      BY <2>3, <2>4
  <1>2. \A i \in 1..Len(tasks) + 1 : i \in 1..Len(tasks) \/ i = Len(tasks) + 1
    BY <1>1
  <1>3. \A i \in 1..Len(tasks') : tasks'[i].kind = "entry" => i \in 1..Len(tasks) /\ tasks'[i] = tasks[i]
    BY <1>1, <1>2
  <1>4. \A r : Unsent(r)' <=> Unsent(r)
    BY DEF Unsent, Reporting
  <1>5. QED
    BY <1>1, <1>3, <1>4 DEF TasksOnce

LEMMA UpdateIsTask ==
    /\ Logs!Update \in Task /\ Logs!Update.kind # "entry"
    /\ [Logs!Update EXCEPT !.kind = "retry"] \in Task
    /\ [Logs!Update EXCEPT !.kind = "retry"].kind # "entry"
  BY DEF Logs!Update, Task, Logs!Nothing

\* The log's information is changed.
LEMMA LogInfoChangedStep ==
    ASSUME LogInv, Logs!LogInfoChanged
    PROVE  LogInv'
  <1>1. /\ LogTypes /\ Numbered /\ Accounted /\ Reading /\ Taking /\ Followed /\ Sending
        /\ saved' = lastSeen
        /\ tasks' = IF reporter = "none" THEN tasks ELSE Append(tasks, Logs!Update)
        /\ UNCHANGED <<lastSeen, db, reports, report, reporter, failed, step, opened, rows, uSeen,
                       uDb, uWork, reader, queued, given, unread, overlooked>>
    BY DEF LogInv, Logs!LogInfoChanged, Logs!upstreamVars, Logs!readerVars
  <1>2. /\ Reporting' = Reporting /\ Known' = Known /\ Told' = Told
        /\ \A r : Covered(r)' <=> Covered(r)
        /\ \A r : Unsent(r)' <=> Unsent(r)
        /\ \A r : Stored(r)' <=> Stored(r)
    BY <1>1 DEF Reporting, Known, Told, Unsent, Covered, Stored
  <1>3. /\ TasksOnce' /\ tasks' \in Seq(Task)
        /\ tasks # <<>> => tasks' # <<>> /\ Head(tasks') = Head(tasks)
    <2>1. TasksOnce
      BY <1>1 DEF Sending, TasksOnce
    <2>2. CASE reporter = "none"
      BY <1>1, <1>2, <2>1, <2>2 DEF TasksOnce, LogTypes
    <2>3. CASE reporter # "none"
      BY <1>1, <2>1, <2>3, UpdateMore, UpdateIsTask
    <2>4. QED
      BY <2>2, <2>3
  <1>4. LogTypes'
    BY <1>1, <1>3 DEF LogTypes
  <1>5. Numbered'
    BY <1>1, <1>2 DEF Numbered, LogTypes
  <1>6. Accounted'
    BY <1>1 DEF Accounted, LogTypes
  <1>7. Reading'
    BY <1>1, <1>2 DEF Reading
  <1>8. Taking' /\ Followed'
    BY <1>1, <1>2 DEF Taking, Followed
  <1>9. Sending'
    BY <1>1, <1>2, <1>3 DEF Sending, TasksOnce
  <1>10. QED
    BY <1>4, <1>5, <1>6, <1>7, <1>8, <1>9 DEF LogInv

----------------------------------------------------------------------------
(* The reader.                                                             *)

\* What holds of the rest when only the reader moves.
LEMMA OnlyReads ==
    ASSUME LogInv, Reading', queued' \in Seq(LogEntry), given' \in Seq(LogEntry),
           UNCHANGED <<lastSeen, db, saved, reports, report, reporter, failed, tasks, step, opened, rows,
                       uSeen, uDb, uWork, overlooked>>
    PROVE  LogInv'
  <1>1. LogTypes' /\ Numbered' /\ Accounted'
    BY DEF LogInv, LogTypes, Numbered, Accounted, Reporting
  <1>2. Taking' /\ Followed' /\ Sending'
    BY LessKnown DEF LogInv, Known, Reporting
  <1>3. QED
    BY <1>1, <1>2 DEF LogInv

\* A reader is registered.
LEMMA SubscribeLogStep ==
    ASSUME LogInv, Logs!Subscribe
    PROVE  LogInv'
  <1>1. /\ LogTypes /\ Reading /\ reader = "none" /\ reader' = "registered"
        /\ UNCHANGED <<lastSeen, db, saved, reports, report, reporter, failed, tasks, step, opened, rows,
                       uSeen, uDb, uWork, overlooked, queued, given, unread>>
    BY DEF LogInv, Logs!Subscribe, Logs!upstreamVars, Logs!storeVars, Logs!reporterVars
  <1>2. Reading'
    BY <1>1 DEF Reading, Reporting
  <1>3. QED
    BY <1>1, <1>2, OnlyReads DEF LogTypes

LEMMA ToSetIn == \A q : \A x : x \in Logs!ToSet(q) <=> \E i \in DOMAIN q : q[i] = x
  BY DEF Logs!ToSet

\* What a sorting is.
LEMMA SortingsAre ==
    ASSUME NEW S, NEW key, NEW s \in Logs!Sortings(S, key)
    PROVE  /\ \E m \in Nat : s \in [1..m -> S]
           /\ \A x \in S : \E i \in DOMAIN s : s[i] = x
           /\ \A i, j \in DOMAIN s : i < j => key[s[i]] < key[s[j]]
  <1>1. s \in Logs!SeqOf(S, MaxReports) /\ Logs!ToSet(s) = S
    BY DEF Logs!Sortings
  <1>2. \E m \in Nat : s \in [1..m -> S]
    BY <1>1 DEF Logs!SeqOf
  <1>3. QED
    BY <1>1, <1>2, ToSetIn DEF Logs!Sortings

\* It is given what is in the database.
LEMMA ReadInitialStep ==
    ASSUME LogInv, Logs!ReadInitial
    PROVE  LogInv'
  <1>1. /\ LogTypes /\ Numbered /\ Reading /\ reader = "registered" /\ reader' = "read"
        /\ unread' = IF report.stored = "told" /\ report.entry \notin Logs!ToSet(queued)
                     THEN {report.entry} ELSE {}
        /\ UNCHANGED <<lastSeen, db, saved, reports, report, reporter, failed, tasks, step, opened, rows,
                       uSeen, uDb, uWork, overlooked, queued>>
    BY DEF LogInv, Logs!ReadInitial, Logs!upstreamVars, Logs!storeVars, Logs!reporterVars
  <1>2. given' \in Logs!Sortings(db, [x \in db |-> x.n])
    BY DEF Logs!ReadInitial
  <1>3. PICK m \in Nat : given' \in [1..m -> db]
    BY <1>2, SortingsAre
  <1>4. /\ \A x \in db : \E i \in 1..m : given'[i] = x
        /\ \A i, j \in 1..m : i < j => given'[i].n < given'[j].n
    <2>1. /\ \A x \in db : \E i \in DOMAIN given' : given'[i] = x
          /\ \A i, j \in DOMAIN given' : i < j => [x \in db |-> x.n][given'[i]] < [x \in db |-> x.n][given'[j]]
      BY <1>2, SortingsAre
    <2>2. QED
      BY <1>3, <2>1
  <1>5. given' \in Seq(LogEntry) /\ Len(given') = m
    <2>1. given' \in [1..m -> LogEntry]
      BY <1>1, <1>3 DEF LogTypes
    <2>2. QED
      BY <1>3, <2>1
  <1>6. Increasing(given') /\ \A x \in db : In(x, given')
    BY <1>4, <1>5 DEF Increasing, In
  <1>7. /\ Reporting' = Reporting /\ Told' = Told
    BY <1>1 DEF Reporting, Told
  <1>8. \A i \in 1..Len(given') :
           /\ given'[i] \in db /\ given'[i].n <= lastSeen
           /\ Reporting /\ report.stored \in {"no", "told"} => given'[i].n < report.entry.n
    BY <1>1, <1>3, <1>5 DEF Numbered
  <1>9. \A x \in Told :
           In(x, given') \/ x \in unread' \/ (In(x, queued) /\ \A i \in 1..Len(given') : given'[i].n < x.n)
    <2>1. SUFFICES ASSUME report.stored = "told"
                   PROVE  \/ report.entry \in unread'
                          \/ In(report.entry, queued) /\ \A i \in 1..Len(given') : given'[i].n < report.entry.n
      BY DEF Told
    <2>2. Reporting /\ \A i \in 1..Len(given') : given'[i].n < report.entry.n
      BY <1>1, <1>8, <2>1, ReportFields
    <2>3. report.entry \in Logs!ToSet(queued) => In(report.entry, queued)
      BY <1>1, ToSetIn DEF In, LogTypes
    <2>4. QED
      BY <1>1, <2>1, <2>2, <2>3
  <1>10. Reading'
    BY <1>1, <1>6, <1>7, <1>8, <1>9 DEF Reading
  <1>11. QED
    BY <1>1, <1>5, <1>10, OnlyReads DEF LogTypes

\* Two sequences of entries in order, the first below the second.
LEMMA EntriesJoined ==
    ASSUME NEW g \in Seq(LogEntry), NEW h \in Seq(LogEntry), Increasing(g), Increasing(h),
           \A i \in 1..Len(g) : \A j \in 1..Len(h) : g[i].n < h[j].n,
           NEW r, r = g \o h
    PROVE  /\ r \in Seq(LogEntry) /\ Increasing(r)
           /\ \A i \in 1..Len(r) : In(r[i], g) \/ In(r[i], h)
           /\ \A x : In(x, g) \/ In(x, h) => In(x, r)
  <1>1. /\ r \in Seq(LogEntry) /\ Len(g) \in Nat /\ Len(h) \in Nat /\ Len(r) = Len(g) + Len(h)
        /\ \A i \in 1..Len(g) : r[i] = g[i]
        /\ \A j \in 1..Len(h) : r[Len(g) + j] = h[j]
    OBVIOUS
  <1>2. \A i \in 1..Len(r) : i \in 1..Len(g) \/ (i - Len(g) \in 1..Len(h) /\ r[i] = h[i - Len(g)])
    <2>1. SUFFICES ASSUME NEW i \in 1..Len(r), i \notin 1..Len(g)
                   PROVE  i - Len(g) \in 1..Len(h) /\ r[i] = h[i - Len(g)]
      OBVIOUS
    <2>2. PICK j \in 1..Len(h) : j = i - Len(g) /\ i = Len(g) + j
      BY <1>1, <2>1
    <2>3. QED
      BY <1>1, <2>2
  <1>3. Increasing(r)
    <2>1. SUFFICES ASSUME NEW i \in 1..Len(r), NEW j \in 1..Len(r), i < j
                   PROVE  r[i].n < r[j].n
      BY DEF Increasing
    <2>2. CASE j \in 1..Len(g)
      <3>1. i \in 1..Len(g)
        BY <1>1, <2>1, <2>2
      <3>2. QED
        BY <1>1, <2>1, <2>2, <3>1 DEF Increasing
    <2>3. CASE j \notin 1..Len(g) /\ i \in 1..Len(g)
      BY <1>1, <1>2, <2>3
    <2>4. CASE j \notin 1..Len(g) /\ i \notin 1..Len(g)
      <3>1. PICK k \in 1..Len(h), l \in 1..Len(h) :
               k = i - Len(g) /\ l = j - Len(g) /\ r[i] = h[k] /\ r[j] = h[l]
        BY <1>2, <2>4
      <3>2. k < l
        BY <1>1, <2>1, <3>1
      <3>3. QED
        BY <3>1, <3>2 DEF Increasing
    <2>5. QED
      BY <2>2, <2>3, <2>4
  <1>4. \A i \in 1..Len(r) : In(r[i], g) \/ In(r[i], h)
    BY <1>1, <1>2 DEF In
  <1>5. ASSUME NEW x, In(x, g) \/ In(x, h)
        PROVE  In(x, r)
    <2>1. CASE In(x, g)
      BY <1>1, <2>1 DEF In
    <2>2. CASE In(x, h)
      <3>1. PICK j \in 1..Len(h) : h[j] = x
        BY <2>2 DEF In
      <3>2. Len(g) + j \in 1..Len(r) /\ r[Len(g) + j] = x
        BY <1>1, <3>1
      <3>3. QED
        BY <3>2 DEF In
    <2>3. QED
      BY <1>5, <2>1, <2>2
  <1>6. QED
    BY <1>1, <1>3, <1>4, <1>5

\* It is given those of the queued entries that are new to it.
LEMMA FinishInitialStep ==
    ASSUME LogInv, Logs!FinishInitial
    PROVE  LogInv'
  <1>1. /\ LogTypes /\ Numbered /\ Reading /\ reader = "read" /\ reader' = "live" /\ queued' = <<>>
        /\ queued \in Seq(LogEntry) /\ given \in Seq(LogEntry)
        /\ UNCHANGED <<lastSeen, db, saved, reports, report, reporter, failed, tasks, step, opened, rows,
                       uSeen, uDb, uWork, overlooked, unread>>
    BY DEF LogInv, LogTypes, Logs!FinishInitial, Logs!upstreamVars, Logs!storeVars, Logs!reporterVars
  <1>2. PICK new : new = {i \in DOMAIN queued : Logs!NotSeen(queued[i])}
    OBVIOUS
  <1>3. /\ new \subseteq 1..Len(queued)
        /\ \A i \in 1..Len(queued) : i \in new <=> \A j \in 1..Len(given) : given[j].n < queued[i].n
    BY <1>1, <1>2 DEF Logs!NotSeen
  <1>4. PICK f \in Logs!Sortings(new, [i \in new |-> i]) : given' = given \o [k \in DOMAIN f |-> queued[f[k]]]
    BY <1>2 DEF Logs!FinishInitial
  <1>5. PICK m \in Nat : f \in [1..m -> new]
    BY <1>4, SortingsAre
  <1>6. /\ \A i \in new : \E k \in 1..m : f[k] = i
        /\ \A k, l \in 1..m : k < l => f[k] < f[l]
    <2>1. /\ \A i \in new : \E k \in DOMAIN f : f[k] = i
          /\ \A k, l \in DOMAIN f : k < l => [i \in new |-> i][f[k]] < [i \in new |-> i][f[l]]
      BY <1>4, SortingsAre
    <2>2. QED
      BY <1>5, <2>1
  <1>7. PICK h : h = [k \in 1..m |-> queued[f[k]]]
    OBVIOUS
  <1>8. given' = given \o h
    BY <1>4, <1>5, <1>7
  <1>9. \A k \in 1..m : f[k] \in new /\ f[k] \in 1..Len(queued) /\ h[k] = queued[f[k]]
    BY <1>3, <1>5, <1>7
  <1>10. h \in Seq(LogEntry) /\ Len(h) = m
    <2>1. h \in [1..m -> LogEntry]
      BY <1>1, <1>7, <1>9
    <2>2. QED
      BY <1>7, <2>1
  <1>11. Increasing(h)
    <2>1. SUFFICES ASSUME NEW k \in 1..m, NEW l \in 1..m, k < l
                   PROVE  h[k].n < h[l].n
      BY <1>10 DEF Increasing
    <2>2. PICK i \in 1..Len(queued), j \in 1..Len(queued) : i = f[k] /\ j = f[l] /\ h[k] = queued[i] /\ h[l] = queued[j]
      BY <1>9
    <2>3. i < j
      BY <1>6, <2>1, <2>2
    <2>4. QED
      BY <1>1, <2>2, <2>3 DEF Increasing, Reading
  <1>12. \A i \in 1..Len(given) : \A j \in 1..Len(h) : given[i].n < h[j].n
    BY <1>3, <1>9, <1>10
  <1>13. given' \in Seq(LogEntry) /\ Increasing(given')
    BY <1>1, <1>8, <1>10, <1>11, <1>12, EntriesJoined DEF Reading
  <1>14. /\ \A i \in 1..Len(given') : In(given'[i], given) \/ In(given'[i], h)
         /\ \A x : In(x, given) \/ In(x, h) => In(x, given')
    BY <1>1, <1>8, <1>10, <1>11, <1>12, EntriesJoined DEF Reading
  <1>15. \A x : In(x, h) => In(x, queued)
    BY <1>9, <1>10 DEF In
  <1>16. \A x : In(x, queued) /\ (\A i \in 1..Len(given) : given[i].n < x.n) => In(x, h)
    <2>1. SUFFICES ASSUME NEW x, In(x, queued), \A i \in 1..Len(given) : given[i].n < x.n
                   PROVE  In(x, h)
      OBVIOUS
    <2>2. PICK i \in 1..Len(queued) : queued[i] = x
      BY <2>1 DEF In
    <2>3. i \in new
      BY <1>3, <2>1, <2>2
    <2>4. PICK k \in 1..m : f[k] = i
      BY <1>6, <2>3
    <2>5. k \in 1..Len(h) /\ h[k] = x
      BY <1>9, <1>10, <2>2, <2>4
    <2>6. QED
      BY <2>5 DEF In
  <1>17. /\ Reporting' = Reporting /\ Told' = Told
    BY <1>1 DEF Reporting, Told
  <1>18. /\ \A i \in 1..Len(given') : given'[i].n <= lastSeen
         /\ Reporting /\ report.stored = "no" => \A i \in 1..Len(given') : given'[i].n < report.entry.n
    BY <1>1, <1>14, <1>15 DEF Reading, In
  <1>19. \A x \in db \cup Told : In(x, given') \/ x \in unread
    BY <1>1, <1>14, <1>16 DEF Reading
  <1>20. Increasing(<<>>) /\ <<>> \in Seq(LogEntry)
    BY DEF Increasing
  <1>21. Reading'
    BY <1>1, <1>13, <1>17, <1>18, <1>19, <1>20 DEF Reading
  <1>22. QED
    BY <1>1, <1>13, <1>20, <1>21, OnlyReads

----------------------------------------------------------------------------
(* The reporter.                                                           *)

\* What holds of the rest when only the reporter moves.
LEMMA OnlyReporter ==
    ASSUME LogInv, Sending', tasks' \in Seq(Task), opened' \in Nat, rows' \in SUBSET LogEntry,
           UNCHANGED <<lastSeen, db, saved, reports, report, uSeen, uDb, uWork, reader, queued, given,
                       unread, overlooked>>
    PROVE  LogInv'
  <1>1. LogTypes' /\ Numbered' /\ Accounted' /\ Reading' /\ Taking'
    BY DEF LogInv, LogTypes, Numbered, Accounted, Reading, Taking, Reporting, Told
  <1>2. Followed'
    BY DEF LogInv, Followed, Known, Reporting, Stored
  <1>3. QED
    BY <1>1, <1>2 DEF LogInv

\* A task less.
LEMMA EndsTask ==
    ASSUME LogTypes, TasksOnce, tasks # <<>>, tasks' = Tail(tasks), UNCHANGED report
    PROVE  TasksOnce' /\ tasks' \in Seq(Task)
  <1>1. /\ tasks' \in Seq(Task) /\ Len(tasks) \in Nat \ {0} /\ Len(tasks') = Len(tasks) - 1
        /\ \A i \in 1..Len(tasks') : i + 1 \in 1..Len(tasks) /\ tasks'[i] = tasks[i + 1]
    BY TaskLess DEF LogTypes
  <1>2. \A r : Unsent(r)' <=> Unsent(r)
    BY DEF Unsent, Reporting
  <1>3. SUFFICES ASSUME NEW i \in 1..Len(tasks'), tasks'[i].kind = "entry"
                 PROVE  /\ Unsent(tasks'[i].entry)
                        /\ \A j \in 1..Len(tasks') : tasks'[j].kind = "entry" => i = j
    BY <1>1, <1>2 DEF TasksOnce
  <1>4. PICK k \in 1..Len(tasks) : k = i + 1 /\ tasks'[i] = tasks[k]
    BY <1>1
  <1>5. ASSUME NEW j \in 1..Len(tasks'), tasks'[j].kind = "entry"
        PROVE  i = j
    <2>1. PICK l \in 1..Len(tasks) : l = j + 1 /\ tasks'[j] = tasks[l]
      BY <1>1
    <2>2. k = l
      BY <1>3, <1>4, <1>5, <2>1 DEF TasksOnce
    <2>3. QED
      BY <1>1, <1>4, <2>1, <2>2
  <1>6. QED
    BY <1>3, <1>4, <1>5 DEF TasksOnce

\* The same, of the rest of what is kept of the reporter.
LEMMA SameElse ==
    ASSUME UNCHANGED <<db, report, uSeen, uWork, overlooked>>
    PROVE  /\ Known' = Known /\ Reporting' = Reporting
           /\ \A r : Covered(r)' <=> Covered(r)
           /\ \A r : Unsent(r)' <=> Unsent(r)
  BY DEF Known, Reporting, Covered, Unsent

\* The reporter is to be opened.
LEMMA UpdateStartsStep ==
    ASSUME LogInv, Logs!UpdateStarts
    PROVE  LogInv'
  <1>1. /\ LogTypes /\ Sending /\ reporter' = "closed" /\ step' = "opening" /\ tasks # <<>>
        /\ UNCHANGED <<lastSeen, db, saved, reports, report, failed, tasks, opened, rows, uSeen, uDb,
                       uWork, reader, queued, given, unread, overlooked>>
    BY DEF LogInv, Logs!UpdateStarts, Logs!Runs, Logs!storeVars, Logs!upstreamVars, Logs!readerVars
  <1>2. Sending'
    BY <1>1, SameElse DEF Sending
  <1>3. QED
    BY <1>1, <1>2, OnlyReporter DEF LogTypes

\* It could not be.
LEMMA UpdateFailsStep ==
    ASSUME LogInv, Logs!UpdateFails
    PROVE  LogInv'
  <1>1. /\ LogTypes /\ Sending /\ failed' = TRUE /\ tasks' = Tail(tasks) /\ step' = "idle"
        /\ UNCHANGED <<lastSeen, db, saved, reports, report, reporter, opened, rows, uSeen, uDb,
                       uWork, reader, queued, given, unread, overlooked>>
    BY DEF LogInv, Logs!UpdateFails, Logs!TaskEnds, Logs!storeVars, Logs!upstreamVars, Logs!readerVars
  <1>2. TasksOnce /\ tasks # <<>>
    BY <1>1 DEF Sending, TasksOnce, Logs!UpdateFails
  <1>3. TasksOnce' /\ tasks' \in Seq(Task)
    BY <1>1, <1>2, EndsTask
  <1>4. Sending'
    BY <1>1, <1>3, SameElse DEF Sending, TasksOnce
  <1>5. QED
    BY <1>1, <1>3, <1>4, OnlyReporter DEF LogTypes

\* The catch-up reads what is above the last number the upstream has seen.
LEMMA ReadSnapshotStep ==
    ASSUME LogInv, Logs!ReadSnapshot
    PROVE  LogInv'
  <1>1. /\ LogTypes /\ Numbered /\ Accounted /\ Reading /\ Taking /\ Followed /\ Sending
        /\ step = "reading" /\ step' = "sending"
        /\ rows' = Logs!Above(db, opened) /\ overlooked' = overlooked \cup Logs!Misses
        /\ UNCHANGED <<lastSeen, db, saved, reports, report, reporter, failed, tasks, opened, uSeen, uDb,
                       uWork, reader, queued, given, unread>>
    BY DEF LogInv, Logs!ReadSnapshot, Logs!storeVars, Logs!upstreamVars, Logs!readerVars
  <1>2. /\ Known' = Known /\ Reporting' = Reporting /\ Told' = Told /\ overlooked \subseteq overlooked'
        /\ \A r : Covered(r) => Covered(r)'
        /\ \A r : Stored(r) => Stored(r)'
        /\ \A r : Unsent(r)' <=> Unsent(r)
    BY <1>1 DEF Known, Reporting, Told, Covered, Stored, Unsent
  <1>3. rows' = {x \in db : x.n > opened} /\ uSeen = opened /\ uWork = <<>>
    BY <1>1 DEF Logs!Above, Sending
  <1>4. LogTypes' /\ Numbered' /\ Reading' /\ Taking'
    BY <1>1, <1>2, <1>3 DEF LogTypes, Numbered, Reading, Taking
  <1>5. Accounted'
    BY <1>1, <1>2 DEF Accounted
  <1>6. Followed'
    BY <1>1, <1>2 DEF Followed
  <1>7. \A r \in Known : Covered(r)' \/ Unsent(r)' \/ r \in rows'
    <2>1. ASSUME NEW r \in db
          PROVE  Covered(r)' \/ r \in rows'
      <3>1. r.n <= uSeen \/ r.n > opened
        BY <1>1, <1>3, EntryNumber DEF LogTypes
      <3>2. QED
        BY <1>1, <1>3, <3>1 DEF Covered
    <2>2. ASSUME Reporting, report.entry \notin db, report.sent
          PROVE  report.entry.n \in overlooked'
      BY <1>1, <2>2 DEF Logs!Misses, Reporting
    <2>3. SUFFICES ASSUME NEW r \in Known
                   PROVE  Covered(r)' \/ Unsent(r)' \/ r \in rows'
      OBVIOUS
    <2>4. CASE r \in db
      BY <2>1, <2>4
    <2>5. CASE r \notin db
      <3>1. Reporting /\ r = report.entry
        BY <2>3, <2>5 DEF Known
      <3>2. CASE report.sent
        BY <2>2, <2>5, <3>1, <3>2 DEF Covered
      <3>3. CASE ~report.sent
        BY <1>2, <3>1, <3>3 DEF Unsent
      <3>4. QED
        BY <3>2, <3>3
    <2>6. QED
      BY <2>4, <2>5
  <1>8. \A x \in rows' :
           /\ x.n <= lastSeen /\ (Reporting => x.n <= report.entry.n)
           /\ \A r \in Known : r.n = x.n => r = x
    <2>1. SUFFICES ASSUME NEW x \in db
                   PROVE  /\ x.n <= lastSeen /\ (Reporting => x.n <= report.entry.n)
                          /\ \A r \in Known : r.n = x.n => r = x
      BY <1>3
    <2>2. x.n <= lastSeen /\ \A r \in db : r.n = x.n => r = x
      BY <1>1 DEF Numbered
    <2>3. ASSUME Reporting
          PROVE  x.n <= report.entry.n /\ (report.entry.n = x.n => report.entry = x)
      <3>1. x.n \in Nat /\ report.entry.n \in Nat
        BY <1>1, <2>3, ReportFields, EntryNumber DEF LogTypes
      <3>2. x.n < report.entry.n \/ x = report.entry
        BY <1>1, <2>3 DEF Numbered
      <3>3. QED
        BY <3>1, <3>2
    <2>4. QED
      BY <2>2, <2>3 DEF Known
  <1>9. Sending'
    BY <1>1, <1>2, <1>7, <1>8 DEF Sending
  <1>10. QED
    BY <1>4, <1>5, <1>6, <1>9 DEF LogInv

LEMMA WorkNone ==
    /\ <<>> \in Seq(Work) /\ Len(<<>>) = 0
    /\ \A R \in SUBSET LogEntry : [rows |-> R, accepted |-> FALSE] \in Work
  BY DEF Work

\* What is under way to the upstream with one more.
LEMMA WorkMore ==
    ASSUME uWork \in Seq(Work), NEW R \in SUBSET LogEntry,
           uWork' = Append(uWork, [rows |-> R, accepted |-> FALSE])
    PROVE  /\ uWork' \in Seq(Work) /\ Len(uWork) \in Nat /\ Len(uWork') = Len(uWork) + 1
           /\ \A i \in 1..Len(uWork) : uWork'[i] = uWork[i]
           /\ uWork'[Len(uWork) + 1].rows = R /\ ~uWork'[Len(uWork) + 1].accepted
           /\ \A i \in 1..Len(uWork') : i \in 1..Len(uWork) \/ i = Len(uWork) + 1
           /\ Len(uWork) + 1 \in 1..Len(uWork')
  <1>1. PICK w \in Work : w = [rows |-> R, accepted |-> FALSE]
    BY WorkNone
  <1>2. w.rows = R /\ ~w.accepted
    BY <1>1
  <1>3. /\ uWork' \in Seq(Work) /\ Len(uWork) \in Nat /\ Len(uWork') = Len(uWork) + 1
        /\ \A i \in 1..Len(uWork) : uWork'[i] = uWork[i]
        /\ uWork'[Len(uWork) + 1] = w
    BY <1>1
  <1>4. QED
    BY <1>2, <1>3

\* What of the upstream and the report is sent to it.
SentOn(R) ==
    /\ \A x \in R : x.n <= lastSeen
    /\ \A x \in R : \A r \in Known : r.n <= x.n => Covered(r) \/ r \in R

\* The catch-up sends one batch more.
LEMMA SendsOn ==
    ASSUME LogInv, NEW R \in SUBSET LogEntry, SentOn(R),
           uWork' = Append(uWork, [rows |-> R, accepted |-> FALSE]),
           UNCHANGED <<lastSeen, db, saved, reports, report, uSeen, uDb, reader, queued, given, unread, overlooked>>
    PROVE  /\ uWork' \in Seq(Work) /\ Numbered' /\ Accounted' /\ Reading' /\ Taking' /\ Followed'
           /\ \A r : Covered(r)' <=> Covered(r) \/ r \in R
  <1>1. /\ LogTypes /\ Numbered /\ Accounted /\ Reading /\ Taking /\ Followed
    BY DEF LogInv
  <1>2. /\ uWork' \in Seq(Work) /\ Len(uWork) \in Nat /\ Len(uWork') = Len(uWork) + 1
        /\ \A i \in 1..Len(uWork) : uWork'[i] = uWork[i]
        /\ uWork'[Len(uWork) + 1].rows = R /\ ~uWork'[Len(uWork) + 1].accepted
        /\ \A i \in 1..Len(uWork') : i \in 1..Len(uWork) \/ i = Len(uWork) + 1
        /\ Len(uWork) + 1 \in 1..Len(uWork')
    BY <1>1, WorkMore DEF LogTypes
  <1>3. \A i \in 1..Len(uWork) : i \in 1..Len(uWork')
    BY <1>2
  <1>4. /\ Known' = Known /\ Reporting' = Reporting /\ Told' = Told
        /\ \A r : Stored(r) => Stored(r)'
    <2>1. Known' = Known /\ Reporting' = Reporting /\ Told' = Told
      BY DEF Known, Reporting, Told
    <2>2. \A r : Stored(r) => Stored(r)'
      BY <1>2, <1>3 DEF Stored
    <2>3. QED
      BY <2>1, <2>2
  <1>5. \A r : Covered(r)' <=> Covered(r) \/ r \in R
    BY <1>2, <1>3 DEF Covered
  <1>6. Numbered'
    <2>1. \A x \in R : x.n <= reports
      BY <1>1, EntryNumber DEF SentOn, Numbered, LogTypes
    <2>2. \A i \in 1..Len(uWork') : \A x \in uWork'[i].rows : x.n <= reports
      BY <1>1, <1>2, <2>1 DEF Numbered
    <2>3. QED
      BY <1>1, <1>4, <2>2 DEF Numbered
  <1>7. Accounted'
    <2>1. \A x \in R : \A n \in Nat : ~(lastSeen < n /\ n <= x.n)
      BY <1>1, EntryNumber DEF SentOn, LogTypes
    <2>2. \A n \in Nat : \A i \in 1..Len(uWork') : \A x \in uWork'[i].rows :
             lastSeen < n /\ n <= x.n => n \in overlooked
      BY <1>1, <1>2, <2>1 DEF Accounted
    <2>3. QED
      BY <1>1, <1>4, <2>2 DEF Accounted
  <1>8. Reading'
    BY <1>1, <1>4 DEF Reading
  <1>9. Taking'
    BY <1>1, <1>2 DEF Taking
  <1>10. Followed'
    <2>1. \A i \in 1..Len(uWork') : ~uWork'[i].accepted =>
             \A x \in uWork'[i].rows : \A r \in Known : r.n <= x.n =>
                r.n <= uSeen \/ r.n \in overlooked \/ \E j \in 1..i : r \in uWork'[j].rows
      <3>1. SUFFICES ASSUME NEW i \in 1..Len(uWork'), ~uWork'[i].accepted,
                            NEW x \in uWork'[i].rows, NEW r \in Known, r.n <= x.n
                     PROVE  r.n <= uSeen \/ r.n \in overlooked \/ \E j \in 1..i : r \in uWork'[j].rows
        OBVIOUS
      <3>2. CASE i \in 1..Len(uWork)
        <4>1. r.n <= uSeen \/ r.n \in overlooked \/ \E j \in 1..i : r \in uWork[j].rows
          BY <1>1, <1>2, <3>1, <3>2 DEF Followed
        <4>2. \A j \in 1..i : j \in 1..Len(uWork)
          BY <1>2, <3>2
        <4>3. QED
          BY <1>2, <4>1, <4>2
      <3>3. CASE i = Len(uWork) + 1
        <4>1. Covered(r) \/ r \in R
          BY <1>2, <3>1, <3>3 DEF SentOn
        <4>2. i \in 1..i /\ \A j \in 1..Len(uWork) : j \in 1..i
          BY <1>2, <3>3
        <4>3. QED
          BY <1>2, <3>3, <4>1, <4>2 DEF Covered
      <3>4. QED
        BY <1>2, <3>2, <3>3
    <2>2. QED
      BY <1>1, <1>4, <2>1 DEF Followed
  <1>11. QED
    BY <1>2, <1>5, <1>6, <1>7, <1>8, <1>9, <1>10

LEMMA SendBatchStep ==
    ASSUME LogInv, Logs!SendBatch
    PROVE  LogInv'
  <1>1. /\ LogTypes /\ Sending /\ step = "sending" /\ uWork = <<>>
        /\ UNCHANGED <<lastSeen, db, saved, reports, report, reporter, failed, tasks, step, opened, uSeen,
                       uDb, reader, queued, given, unread, overlooked>>
    BY DEF LogInv, Logs!SendBatch, Logs!storeVars, Logs!readerVars
  <1>2. PICK n \in Logs!Numbers(rows) :
           /\ uWork' = <<[rows |-> rows \ Logs!Above(rows, n), accepted |-> FALSE]>>
           /\ rows' = Logs!Above(rows, n)
    BY DEF Logs!SendBatch
  <1>3. PICK R : R = {x \in rows : ~(x.n > n)}
    OBVIOUS
  <1>4. /\ R \in SUBSET LogEntry /\ R = rows \ Logs!Above(rows, n) /\ rows' = {x \in rows : x.n > n}
    BY <1>1, <1>2, <1>3 DEF LogTypes, Logs!Above
  <1>5. n \in Nat
    BY <1>1, <1>2, EntryNumber DEF Logs!Numbers, LogTypes
  <1>6. uWork' = Append(uWork, [rows |-> R, accepted |-> FALSE])
    <2>1. PICK w : w = [rows |-> R, accepted |-> FALSE]
      OBVIOUS
    <2>2. uWork' = <<w>>
      BY <1>2, <1>4, <2>1
    <2>3. QED
      BY <1>1, <2>1, <2>2
  <1>7. SentOn(R)
    <2>1. \A x \in R : x \in rows /\ x.n <= lastSeen /\ x.n \in Nat
      BY <1>1, <1>3, EntryNumber DEF Sending, LogTypes
    <2>2. SUFFICES ASSUME NEW x \in R, NEW r \in Known, r.n <= x.n
                   PROVE  Covered(r) \/ r \in R
      BY <2>1 DEF SentOn
    <2>3. Covered(r) \/ Unsent(r) \/ r \in rows
      BY <1>1 DEF Sending
    <2>4. CASE r \in rows
      <3>1. r.n \in Nat /\ x.n <= n /\ x.n \in Nat
        BY <1>1, <1>3, <1>5, <2>1, <2>4, EntryNumber DEF LogTypes
      <3>2. ~(r.n > n)
        BY <1>5, <2>2, <3>1
      <3>3. QED
        BY <1>3, <2>4, <3>2
    <2>5. CASE Unsent(r)
      <3>1. Reporting /\ r = report.entry
        BY <2>5 DEF Unsent
      <3>2. x.n <= r.n /\ (r.n = x.n => r = x) /\ x.n \in Nat /\ r.n \in Nat
        BY <1>1, <2>1, <2>2, <3>1, ReportFields, EntryNumber DEF Sending
      <3>3. QED
        BY <2>2, <3>2
    <2>6. QED
      BY <2>3, <2>4, <2>5
  <1>8. /\ uWork' \in Seq(Work) /\ Numbered' /\ Accounted' /\ Reading' /\ Taking' /\ Followed'
        /\ \A r : Covered(r)' <=> Covered(r) \/ r \in R
    BY <1>1, <1>4, <1>6, <1>7, SendsOn
  <1>9. LogTypes'
    BY <1>1, <1>4, <1>8 DEF LogTypes
  <1>10. /\ Known' = Known /\ Reporting' = Reporting
         /\ \A r : Unsent(r)' <=> Unsent(r)
    BY <1>1 DEF Known, Reporting, Unsent
  <1>11. \A r \in rows : r \in R \/ r \in rows'
    BY <1>3, <1>4
  <1>12. Sending'
    BY <1>1, <1>4, <1>8, <1>10, <1>11 DEF Sending
  <1>13. QED
    BY <1>8, <1>9, <1>12 DEF LogInv

LEMMA BatchesSentStep ==
    ASSUME LogInv, Logs!BatchesSent
    PROVE  LogInv'
  <1>1. /\ LogTypes /\ Sending /\ step = "sending" /\ rows = {} /\ tasks' = Tail(tasks) /\ step' = "idle"
        /\ UNCHANGED <<lastSeen, db, saved, reports, report, opened, rows, uSeen, uDb, uWork, reader,
                       queued, given, unread, overlooked>>
    BY DEF LogInv, Logs!BatchesSent, Logs!UpdateSucceeds, Logs!TaskEnds, Logs!storeVars,
           Logs!upstreamVars, Logs!readerVars
  <1>2. TasksOnce /\ tasks # <<>>
    BY <1>1 DEF Sending, TasksOnce
  <1>3. TasksOnce' /\ tasks' \in Seq(Task)
    BY <1>1, <1>2, EndsTask
  <1>4. \A r \in Known : Covered(r) \/ Unsent(r)
    BY <1>1 DEF Sending
  <1>5. Sending'
    BY <1>1, <1>3, <1>4, SameElse DEF Sending, TasksOnce
  <1>6. QED
    BY <1>1, <1>3, <1>5, OnlyReporter DEF LogTypes

\* The upstream's answer: the last number it has seen.
LEMMA OpenedStep ==
    ASSUME LogInv, Logs!Opened
    PROVE  LogInv'
  <1>1. /\ LogTypes /\ Numbered /\ Accounted /\ Reading /\ Taking /\ Followed /\ Sending
        /\ step = "opening" /\ uWork = <<>> /\ opened' = uSeen
        /\ UNCHANGED <<db, saved, reports, report, rows, uSeen, uDb, uWork, reader, queued, given, unread,
                       overlooked>>
    BY DEF LogInv, Logs!Opened, Logs!upstreamVars, Logs!readerVars
  <1>2. CASE uSeen < lastSeen
    <2>1. step' = "reading" /\ UNCHANGED <<lastSeen, reporter, failed, tasks>>
      BY <1>2 DEF Logs!Opened
    <2>2. Sending'
      BY <1>1, <2>1, SameElse DEF Sending
    <2>3. QED
      BY <1>1, <2>1, <2>2, OnlyReporter DEF LogTypes
  <1>3. CASE ~(uSeen < lastSeen)
    <2>1. lastSeen' = uSeen /\ tasks' = Tail(tasks) /\ step' = "idle"
      BY <1>3 DEF Logs!Opened, Logs!UpdateSucceeds, Logs!TaskEnds
    <2>2. TasksOnce /\ tasks # <<>>
      BY <1>1 DEF Sending, TasksOnce
    <2>3. TasksOnce' /\ tasks' \in Seq(Task)
      BY <1>1, <2>1, <2>2, EndsTask
    <2>4. lastSeen <= uSeen /\ lastSeen \in Nat /\ uSeen \in Nat /\ \A n \in Nat : n <= lastSeen => n <= uSeen
      BY <1>1, <1>3 DEF LogTypes
    <2>5. LogTypes'
      BY <1>1, <2>1, <2>3 DEF LogTypes
    <2>6. /\ Known' = Known /\ Reporting' = Reporting /\ Told' = Told
          /\ \A r : Stored(r)' <=> Stored(r)
          /\ \A r : Covered(r)' <=> Covered(r)
          /\ \A r : Unsent(r)' <=> Unsent(r)
      BY <1>1 DEF Known, Reporting, Told, Stored, Covered, Unsent
    <2>7. \A r \in Known : r.n <= uSeen /\ r.n \in Nat
      <3>1. \A r \in Known : r \in LogEntry /\ r.n <= lastSeen
        BY <1>1, ReportFields DEF Known, Numbered, LogTypes
      <3>2. QED
        BY <2>4, <3>1, EntryNumber
    <2>8. Numbered'
      <3>1. saved <= uSeen /\ uSeen <= reports
        BY <1>1, <2>4 DEF Numbered, LogTypes
      <3>2. QED
        BY <1>1, <2>1, <2>6, <2>7, <3>1 DEF Numbered, Known
    <2>9. Accounted'
      <3>1. ASSUME NEW n \in Nat, saved < n, n <= uSeen, \A x \in db : x.n < n
            PROVE  n \in overlooked \/ (Reporting /\ report.entry.n = n /\ report.entry \notin db)
        <4>1. CASE n <= lastSeen
          BY <1>1, <3>1, <4>1 DEF Accounted
        <4>2. CASE ~(n <= lastSeen)
          BY <1>1, <2>4, <3>1, <4>2 DEF Accounted
        <4>3. QED
          BY <4>1, <4>2
      <3>2. \A n \in Nat : ~(uSeen < n /\ n <= uSeen)
        BY <2>4
      <3>3. QED
        BY <1>1, <2>1, <2>6, <3>1, <3>2 DEF Accounted
    <2>10. Reading'
      <3>1. /\ \A i \in 1..Len(queued) : queued[i].n <= uSeen
            /\ \A i \in 1..Len(given) : given[i].n <= uSeen
        BY <1>1, <2>4, EntryNumber DEF Reading, LogTypes
      <3>2. QED
        BY <1>1, <2>1, <2>6, <3>1 DEF Reading
    <2>11. Taking' /\ Followed'
      BY <1>1, <2>6 DEF Taking, Followed
    <2>12. Sending'
      BY <1>1, <2>1, <2>3, <2>6, <2>7 DEF Sending, TasksOnce, Covered
    <2>13. QED
      BY <2>5, <2>8, <2>9, <2>10, <2>11, <2>12 DEF LogInv
  <1>4. QED
    BY <1>2, <1>3

\* What holds of the rest when the report was sent.
LEMMA SentMore ==
    ASSUME LogInv, Reporting, report' = [report EXCEPT !.sent = TRUE],
           UNCHANGED <<lastSeen, db, saved, reports, uSeen, uDb, uWork, reader, queued, given, unread, overlooked>>
    PROVE  /\ Numbered' /\ Accounted' /\ Reading' /\ Taking' /\ Followed' /\ report' \in Reports
           /\ Known' = Known /\ \A r : Covered(r)' <=> Covered(r)
  <1>1. /\ LogTypes /\ Numbered /\ Accounted /\ Reading /\ Taking /\ Followed
    BY DEF LogInv
  <1>2. /\ report' \in Reports /\ Reporting' /\ report'.entry = report.entry
        /\ report'.stored = report.stored
    BY <1>1, ReportSent
  <1>3. /\ Known' = Known /\ Told' = Told
        /\ \A r : Covered(r)' <=> Covered(r)
        /\ \A r : Stored(r)' <=> Stored(r)
    BY <1>2 DEF Known, Told, Covered, Stored
  <1>4. Numbered' /\ Accounted'
    BY <1>1, <1>2 DEF Numbered, Accounted
  <1>5. Reading'
    BY <1>1, <1>2, <1>3 DEF Reading
  <1>6. Taking' /\ Followed'
    BY <1>1, <1>3 DEF Taking, Followed
  <1>7. QED
    BY <1>2, <1>3, <1>4, <1>5, <1>6

\* The entry that is sent is the first task, and the only one.
LEMMA EntryTask ==
    ASSUME LogTypes, TasksOnce, tasks # <<>>, Head(tasks).kind = "entry"
    PROVE  /\ Unsent(Head(tasks).entry) /\ Reporting /\ Head(tasks).entry = report.entry
           /\ \A q : q = Tail(tasks) => q \in Seq(Task) /\ \A i \in 1..Len(q) : q[i].kind # "entry"
  <1>1. 1 \in 1..Len(tasks) /\ tasks[1] = Head(tasks)
    BY TaskLess DEF LogTypes
  <1>2. Unsent(Head(tasks).entry) /\ \A j \in 1..Len(tasks) : tasks[j].kind = "entry" => 1 = j
    BY <1>1 DEF TasksOnce
  <1>3. SUFFICES ASSUME NEW q, q = Tail(tasks)
                 PROVE  q \in Seq(Task) /\ \A i \in 1..Len(q) : q[i].kind # "entry"
    BY <1>2 DEF Unsent
  <1>4. /\ q \in Seq(Task) /\ Len(q) \in Nat
        /\ \A i \in 1..Len(q) : i + 1 \in 1..Len(tasks) /\ q[i] = tasks[i + 1]
    BY <1>3, TaskLess DEF LogTypes
  <1>5. \A i \in 1..Len(q) : i + 1 # 1
    BY <1>4
  <1>6. QED
    BY <1>2, <1>4, <1>5

\* The first task sends its entry.
LEMMA DeliverLogStep ==
    ASSUME LogInv, Logs!Deliver
    PROVE  LogInv'
  <1>1. /\ LogTypes /\ Sending /\ TasksOnce /\ step = "idle" /\ tasks # <<>> /\ Head(tasks).kind = "entry"
        /\ UNCHANGED <<lastSeen, db, saved, reports, reporter, failed, opened, rows, uSeen, uDb, reader,
                       queued, given, unread, overlooked>>
    BY DEF LogInv, Sending, TasksOnce, Logs!Deliver, Logs!Runs, Logs!readerVars
  <1>2. /\ Unsent(Head(tasks).entry) /\ Reporting /\ Head(tasks).entry = report.entry
        /\ \A q : q = Tail(tasks) => q \in Seq(Task) /\ \A i \in 1..Len(q) : q[i].kind # "entry"
    BY <1>1, EntryTask
  <1>3. CASE failed \/ reporter # "open"
    <2>1. /\ tasks' = Tail(tasks) /\ step' = "idle" /\ report' = [report EXCEPT !.sent = TRUE]
          /\ uWork' = uWork
      BY <1>3 DEF Logs!Deliver, Logs!TaskEnds
    <2>2. tasks' \in Seq(Task) /\ \A i \in 1..Len(tasks') : tasks'[i].kind # "entry"
      BY <1>2, <2>1
    <2>3. Numbered' /\ Accounted' /\ Reading' /\ Taking' /\ Followed' /\ report' \in Reports
      BY <1>1, <1>2, <2>1, SentMore
    <2>4. LogTypes'
      BY <1>1, <2>1, <2>2, <2>3 DEF LogTypes
    <2>5. Sending'
      BY <1>1, <1>3, <2>1, <2>2 DEF Sending
    <2>6. QED
      BY <2>3, <2>4, <2>5 DEF LogInv
  <1>4. CASE ~(failed \/ reporter # "open")
    <2>1. PICK p : p = report.entry
      OBVIOUS
    <2>2. /\ step' = "delivering" /\ UNCHANGED <<tasks, report>>
          /\ uWork' = Append(uWork, [rows |-> {p}, accepted |-> FALSE])
      BY <1>2, <1>4, <2>1 DEF Logs!Deliver
    <2>3. /\ {p} \in SUBSET LogEntry /\ Unsent(p) /\ p.n <= lastSeen
      BY <1>1, <1>2, <2>1, ReportFields DEF LogInv, Numbered
    <2>4. SentOn({p})
      <3>1. \A r \in Known : Covered(r) \/ r = p
        BY <1>1, <1>4, <2>1 DEF Sending, Unsent
      <3>2. QED
        BY <2>3, <3>1 DEF SentOn
    <2>5. /\ uWork' \in Seq(Work) /\ Numbered' /\ Accounted' /\ Reading' /\ Taking' /\ Followed'
          /\ \A r : Covered(r)' <=> Covered(r) \/ r \in {p}
      BY <1>1, <2>2, <2>3, <2>4, SendsOn
    <2>6. LogTypes'
      BY <1>1, <2>2, <2>5 DEF LogTypes
    <2>7. /\ Known' = Known /\ Reporting' = Reporting
          /\ \A r : Unsent(r)' <=> Unsent(r)
      BY <1>1, <2>2 DEF Known, Reporting, Unsent
    <2>8. Covered(report.entry)'
      BY <2>1, <2>2, <2>5 DEF Covered
    <2>9. Sending'
      BY <1>1, <1>4, <2>2, <2>5, <2>7, <2>8 DEF Sending
    <2>10. QED
      BY <2>5, <2>6, <2>9 DEF LogInv
  <1>5. QED
    BY <1>3, <1>4

\* It was answered.
LEMMA DeliveredStep ==
    ASSUME LogInv, Logs!Delivered
    PROVE  LogInv'
  <1>1. /\ LogTypes /\ Sending /\ TasksOnce /\ step = "delivering" /\ uWork = <<>>
        /\ tasks' = Tail(tasks) /\ step' = "idle" /\ report' = [report EXCEPT !.sent = TRUE]
        /\ UNCHANGED <<lastSeen, db, saved, reports, reporter, failed, opened, rows, uSeen, uDb, uWork,
                       reader, queued, given, unread, overlooked>>
    BY DEF LogInv, Sending, TasksOnce, Logs!Delivered, Logs!TaskEnds, Logs!upstreamVars, Logs!readerVars
  <1>2. tasks # <<>> /\ Head(tasks).kind = "entry" /\ Covered(report.entry)
    BY <1>1 DEF Sending
  <1>3. /\ Reporting /\ tasks' \in Seq(Task) /\ \A i \in 1..Len(tasks') : tasks'[i].kind # "entry"
    BY <1>1, <1>2, EntryTask
  <1>4. /\ Numbered' /\ Accounted' /\ Reading' /\ Taking' /\ Followed' /\ report' \in Reports
        /\ Known' = Known /\ \A r : Covered(r)' <=> Covered(r)
    BY <1>1, <1>3, SentMore
  <1>5. LogTypes'
    BY <1>1, <1>3, <1>4 DEF LogTypes
  <1>6. reporter = "open" /\ ~failed => \A r \in Known : Covered(r)
    BY <1>1, <1>2 DEF Sending, Unsent
  <1>7. Sending'
    BY <1>1, <1>3, <1>4, <1>6 DEF Sending
  <1>8. QED
    BY <1>4, <1>5, <1>7 DEF LogInv

LEMMA RetryTimerStep ==
    ASSUME LogInv, Logs!RetryTimer
    PROVE  LogInv'
  <1>1. /\ LogTypes /\ Sending /\ TasksOnce
        /\ tasks' = IF failed THEN Append(tasks, [Logs!Update EXCEPT !.kind = "retry"]) ELSE tasks
        /\ UNCHANGED <<lastSeen, db, saved, reports, report, reporter, failed, step, opened, rows, uSeen,
                       uDb, uWork, reader, queued, given, unread, overlooked>>
    BY DEF LogInv, Sending, TasksOnce, Logs!RetryTimer, Logs!storeVars, Logs!upstreamVars, Logs!readerVars
  <1>2. /\ TasksOnce' /\ tasks' \in Seq(Task)
        /\ tasks # <<>> => tasks' # <<>> /\ Head(tasks') = Head(tasks)
    <2>1. CASE failed
      <3>1. PICK t : t = [Logs!Update EXCEPT !.kind = "retry"]
        OBVIOUS
      <3>2. t \in Task /\ t.kind # "entry" /\ tasks' = Append(tasks, t)
        BY <1>1, <2>1, <3>1, UpdateIsTask
      <3>3. QED
        BY <1>1, <3>2, UpdateMore
    <2>2. CASE ~failed
      BY <1>1, <2>2 DEF TasksOnce, Unsent, Reporting, LogTypes
    <2>3. QED
      BY <2>1, <2>2
  <1>3. Sending'
    BY <1>1, <1>2, SameElse DEF Sending, TasksOnce
  <1>4. QED
    BY <1>1, <1>2, <1>3, OnlyReporter DEF LogTypes

LEMMA RetryEndsStep ==
    ASSUME LogInv, Logs!RetryEnds
    PROVE  LogInv'
  <1>1. /\ LogTypes /\ Sending
        /\ UNCHANGED <<lastSeen, db, saved, reports, report, reporter, failed, tasks, step, opened, rows,
                       uSeen, uDb, uWork, reader, queued, given, unread, overlooked>>
    BY DEF LogInv, Logs!RetryEnds, Logs!storeVars, Logs!upstreamVars, Logs!readerVars
  <1>2. Sending'
    BY <1>1, SameElse DEF Sending
  <1>3. QED
    BY <1>1, <1>2, OnlyReporter DEF LogTypes

LEMMA AddedStep ==
    ASSUME LogInv, Logs!Added
    PROVE  LogInv'
  <1>1. /\ LogTypes /\ Sending /\ step = "idle" /\ reporter' = "closed" /\ tasks' = <<Logs!Update>>
        /\ UNCHANGED <<lastSeen, db, saved, reports, report, failed, step, opened, rows, uSeen,
                       uDb, uWork, reader, queued, given, unread, overlooked>>
    BY DEF LogInv, Sending, Logs!Added, Logs!storeVars, Logs!upstreamVars, Logs!readerVars
  <1>2. tasks' \in Seq(Task) /\ \A i \in 1..Len(tasks') : tasks'[i].kind # "entry"
    BY <1>1, UpdateIsTask
  <1>3. Sending'
    BY <1>1, <1>2, SameElse DEF Sending
  <1>4. QED
    BY <1>1, <1>2, <1>3, OnlyReporter DEF LogTypes

----------------------------------------------------------------------------
(* The upstream.                                                           *)

\* What holds of the rest when only the upstream moves.
LEMMA UpstreamMoves ==
    ASSUME LogInv, uWork # <<>>, uSeen' \in Nat, uDb' \in SUBSET LogEntry, uWork' \in Seq(Work),
           Numbered', Accounted', Taking', Followed',
           \A r \in LogEntry : Covered(r) => Covered(r)',
           UNCHANGED <<lastSeen, db, saved, reports, report, reporter, failed, tasks, step, opened, rows,
                       reader, queued, given, unread, overlooked>>
    PROVE  LogInv'
  <1>1. /\ LogTypes /\ Reading /\ Sending
    BY DEF LogInv
  <1>2. /\ Known' = Known /\ Reporting' = Reporting /\ Told' = Told
        /\ \A r : Unsent(r)' <=> Unsent(r)
    BY DEF Known, Reporting, Told, Unsent
  <1>3. LogTypes' /\ Reading'
    BY <1>1, <1>2 DEF LogTypes, Reading
  <1>4. Known \subseteq LogEntry
    BY <1>1, ReportFields DEF Known, LogTypes
  <1>5. step = "delivering" => Covered(report.entry)'
    <2>1. SUFFICES ASSUME step = "delivering"
                   PROVE  Covered(report.entry)'
      OBVIOUS
    <2>2. Covered(report.entry) /\ report.entry \in LogEntry
      BY <1>1, <2>1, EntryTask, ReportFields DEF Sending, TasksOnce
    <2>3. PICK p : p = report.entry /\ p = report'.entry
      OBVIOUS
    <2>4. Covered(p) /\ p \in LogEntry
      BY <2>2, <2>3
    <2>5. Covered(p)'
      BY <2>4
    <2>6. QED
      BY <2>3, <2>5 DEF Covered
  <1>6. Sending'
    BY <1>1, <1>2, <1>4, <1>5 DEF Sending
  <1>7. QED
    BY <1>3, <1>6 DEF LogInv

\* The upstream takes the first call, without what it has seen already.
LEMMA UAcceptStep ==
    ASSUME LogInv, Logs!UAccept
    PROVE  LogInv'
  <1>1. /\ LogTypes /\ Numbered /\ Accounted /\ Taking /\ Followed
        /\ uWork # <<>> /\ ~Head(uWork).accepted
        /\ UNCHANGED <<lastSeen, db, saved, reports, report, reporter, failed, tasks, step, opened, rows,
                       uDb, reader, queued, given, unread, overlooked>>
    BY DEF LogInv, Logs!UAccept, Logs!storeVars, Logs!reporterVars, Logs!readerVars
  <1>2. PICK new : new = {x \in Head(uWork).rows : x.n > uSeen}
    OBVIOUS
  <1>3. /\ uSeen' = Logs!Max(Logs!Numbers(new) \cup {uSeen})
        /\ uWork' = [uWork EXCEPT ![1] = [rows |-> new, accepted |-> TRUE]]
    BY <1>2 DEF Logs!UAccept, Logs!Above
  <1>4. /\ 1 \in 1..Len(uWork) /\ uWork[1] = Head(uWork) /\ uWork \in Seq(Work) /\ Len(uWork) \in Nat
        /\ \A i \in 1..Len(uWork) : uWork[i] \in Work /\ uWork[i].rows \subseteq LogEntry
    <2>1. /\ 1 \in 1..Len(uWork) /\ uWork[1] = Head(uWork) /\ uWork \in Seq(Work) /\ Len(uWork) \in Nat
      BY <1>1 DEF LogTypes
    <2>2. \A i \in 1..Len(uWork) : uWork[i] \in Work
      BY <2>1
    <2>3. QED
      BY <2>1, <2>2 DEF Work
  <1>5. /\ new \in SUBSET LogEntry /\ new = {x \in uWork[1].rows : x.n > uSeen}
        /\ \A x \in new : x.n \in Nat /\ x.n > uSeen
        /\ uSeen \in Nat /\ reports \in Nat /\ lastSeen \in Nat
    BY <1>1, <1>2, <1>4, EntryNumber DEF LogTypes
  <1>6. /\ uWork' \in Seq(Work) /\ Len(uWork') = Len(uWork)
        /\ uWork'[1].rows = new /\ uWork'[1].accepted
        /\ \A i \in 1..Len(uWork) : i # 1 => uWork'[i] = uWork[i]
    <2>1. PICK w \in Work : w = [rows |-> new, accepted |-> TRUE]
      BY <1>5 DEF Work
    <2>2. w.rows = new /\ w.accepted
      BY <2>1
    <2>3. uWork' = [uWork EXCEPT ![1] = w]
      BY <1>3, <2>1
    <2>4. /\ uWork' \in Seq(Work) /\ Len(uWork') = Len(uWork) /\ uWork'[1] = w
          /\ \A i \in 1..Len(uWork) : i # 1 => uWork'[i] = uWork[i]
      BY <1>4, <2>3
    <2>5. QED
      BY <2>2, <2>4
  <1>7. /\ uSeen' \in Nat /\ uSeen <= uSeen' /\ uSeen' <= reports
        /\ \A x \in new : x.n <= uSeen'
        /\ uSeen' = uSeen \/ \E x \in new : uSeen' = x.n
    <2>1. PICK S : S = {x.n : x \in new} \cup {uSeen}
      OBVIOUS
    <2>2. S \in SUBSET Nat /\ uSeen \in S
      BY <1>5, <2>1
    <2>3. \A n \in S : n <= reports
      BY <1>1, <1>4, <1>5, <2>1 DEF Numbered
    <2>4. Logs!Max(S) \in S /\ \A n \in S : n <= Logs!Max(S)
      BY <1>5, <2>2, <2>3, MaxOf
    <2>5. uSeen' = Logs!Max(S)
      BY <1>3, <2>1 DEF Logs!Numbers
    <2>6. QED
      BY <2>1, <2>2, <2>3, <2>4, <2>5
  <1>8. \A i \in 1..Len(uWork) : uWork'[i].rows \subseteq uWork[i].rows
    BY <1>5, <1>6
  <1>9. \A n \in Nat : n <= uSeen => n <= uSeen'
    BY <1>5, <1>7
  <1>10. Numbered'
    BY <1>1, <1>6, <1>7, <1>8 DEF Numbered, Reporting
  <1>11. Accounted'
    <2>1. ASSUME NEW n \in Nat, lastSeen < n, n <= uSeen'
          PROVE  n \in overlooked
      <3>1. CASE n <= uSeen
        BY <1>1, <2>1, <3>1 DEF Accounted
      <3>2. CASE ~(n <= uSeen)
        <4>1. PICK x \in new : uSeen' = x.n
          BY <1>7, <2>1, <3>2
        <4>2. x \in uWork[1].rows /\ n <= x.n
          BY <1>5, <2>1, <4>1
        <4>3. QED
          BY <1>1, <1>4, <2>1, <4>2 DEF Accounted
      <3>3. QED
        BY <3>1, <3>2
    <2>2. \A n \in Nat : \A i \in 1..Len(uWork') : \A x \in uWork'[i].rows :
             lastSeen < n /\ n <= x.n => n \in overlooked
      BY <1>1, <1>6, <1>8 DEF Accounted
    <2>3. QED
      BY <1>1, <2>1, <2>2 DEF Accounted, Reporting
  <1>12. Taking'
    <2>1. \A y \in uDb : y.n <= uSeen /\ y.n <= uSeen' /\ \A x \in new : y.n < x.n
      <3>1. \A y \in uDb : y.n <= uSeen /\ y.n \in Nat
        BY <1>1, EntryNumber DEF Taking, LogTypes
      <3>2. QED
        BY <1>5, <1>7, <3>1
    <2>2. \A i \in 1..Len(uWork) : i # 1 => ~uWork[i].accepted
      BY <1>1 DEF Taking
    <2>3. QED
      BY <1>1, <1>6, <1>7, <2>1, <2>2 DEF Taking
  <1>13. /\ Known' = Known /\ Known \subseteq LogEntry
    BY <1>1, ReportFields DEF Known, LogTypes, Reporting
  <1>14. \A i \in 1..Len(uWork) : ~uWork[i].accepted
    BY <1>1, <1>4 DEF Taking
  <1>15. Followed'
    <2>1. ASSUME NEW r \in Known, r.n <= uSeen'
          PROVE  Stored(r)'
      <3>1. r.n \in Nat
        BY <1>13, EntryNumber
      <3>2. CASE r.n <= uSeen
        <4>1. r \in uDb \/ r.n \in overlooked
          BY <1>1, <1>14, <2>1, <3>2 DEF Followed, Stored
        <4>2. QED
          BY <1>1, <4>1 DEF Stored
      <3>3. CASE ~(r.n <= uSeen)
        <4>1. PICK x \in new : r.n <= x.n
          BY <1>5, <1>7, <2>1, <3>1, <3>3
        <4>2. r.n \in overlooked \/ \E j \in 1..1 : r \in uWork[j].rows
          BY <1>1, <1>4, <1>5, <2>1, <3>3, <4>1 DEF Followed
        <4>3. r.n \in overlooked \/ r \in new
          BY <1>5, <3>1, <3>3, <4>2
        <4>4. QED
          BY <1>1, <1>4, <1>6, <4>3 DEF Stored
      <3>4. QED
        BY <3>2, <3>3
    <2>2. ASSUME NEW i \in 1..Len(uWork), ~uWork'[i].accepted,
                 NEW x \in uWork'[i].rows, NEW r \in Known, r.n <= x.n
          PROVE  r.n <= uSeen' \/ r.n \in overlooked \/ \E j \in 1..i : r \in uWork'[j].rows
      <3>1. i # 1 /\ uWork'[i] = uWork[i] /\ ~uWork[i].accepted /\ r.n \in Nat
        BY <1>6, <1>13, <2>2, EntryNumber
      <3>2. r.n <= uSeen \/ r.n \in overlooked \/ \E j \in 1..i : r \in uWork[j].rows
        BY <1>1, <2>2, <3>1 DEF Followed
      <3>3. ASSUME NEW j \in 1..i, r \in uWork[j].rows
            PROVE  r.n <= uSeen' \/ r \in uWork'[j].rows
        <4>1. j \in 1..Len(uWork)
          BY <1>4, <2>2
        <4>2. CASE j = 1
          BY <1>5, <1>6, <1>9, <3>1, <3>3, <4>2
        <4>3. CASE j # 1
          BY <1>6, <3>3, <4>1, <4>3
        <4>4. QED
          BY <4>2, <4>3
      <3>4. QED
        BY <1>9, <3>1, <3>2, <3>3
    <2>3. QED
      BY <1>1, <1>6, <1>13, <2>1, <2>2 DEF Followed
  <1>16. \A r \in LogEntry : Covered(r) => Covered(r)'
    <2>1. SUFFICES ASSUME NEW r \in LogEntry, Covered(r)
                   PROVE  r.n <= uSeen' \/ r.n \in overlooked \/ \E i \in 1..Len(uWork) : r \in uWork'[i].rows
      BY <1>1, <1>6 DEF Covered
    <2>2. r.n \in Nat
      BY EntryNumber
    <2>3. ASSUME NEW i \in 1..Len(uWork), r \in uWork[i].rows
          PROVE  r.n <= uSeen' \/ r \in uWork'[i].rows
      BY <1>5, <1>6, <1>9, <2>2, <2>3
    <2>4. QED
      BY <1>9, <2>1, <2>2, <2>3 DEF Covered
  <1>17. QED
    BY <1>1, <1>6, <1>7, <1>10, <1>11, <1>12, <1>15, <1>16, UpstreamMoves DEF LogTypes

\* It has stored it.
LEMMA UCommitStep ==
    ASSUME LogInv, Logs!UCommit
    PROVE  LogInv'
  <1>1. /\ LogTypes /\ Numbered /\ Accounted /\ Taking /\ Followed
        /\ uWork # <<>> /\ Head(uWork).accepted
        /\ uDb' = uDb \cup Head(uWork).rows /\ uWork' = Tail(uWork)
        /\ UNCHANGED <<lastSeen, db, saved, reports, report, reporter, failed, tasks, step, opened, rows,
                       uSeen, reader, queued, given, unread, overlooked>>
    BY DEF LogInv, Logs!UCommit, Logs!storeVars, Logs!reporterVars, Logs!readerVars
  <1>2. PICK R : R = Head(uWork).rows
    OBVIOUS
  <1>3. /\ uWork \in Seq(Work) /\ 1 \in 1..Len(uWork) /\ uWork[1].rows = R /\ uWork[1].accepted
        /\ uWork' \in Seq(Work) /\ Len(uWork) \in Nat /\ Len(uWork') = Len(uWork) - 1 /\ Len(uWork') \in Nat
        /\ \A i \in 1..Len(uWork') : i + 1 \in 1..Len(uWork) /\ uWork'[i] = uWork[i + 1]
    BY <1>1, <1>2 DEF LogTypes
  <1>4. R \in SUBSET LogEntry /\ uDb' = uDb \cup R
    <2>1. uWork[1] \in Work
      BY <1>3
    <2>2. QED
      BY <1>1, <1>2, <1>3, <2>1 DEF Work
  <1>5. \A x \in R : x.n <= uSeen /\ \A y \in uDb : y.n < x.n
    BY <1>1, <1>3 DEF Taking
  <1>6. \A i \in 1..Len(uWork') : ~uWork'[i].accepted
    <2>1. SUFFICES ASSUME NEW i \in 1..Len(uWork')
                   PROVE  ~uWork'[i].accepted
      OBVIOUS
    <2>2. PICK j \in 1..Len(uWork) : j = i + 1 /\ uWork'[i] = uWork[j]
      BY <1>3
    <2>3. j # 1
      BY <2>1, <2>2, <1>3
    <2>4. QED
      BY <1>1, <2>2, <2>3 DEF Taking
  <1>7. \A i \in 2..Len(uWork) : i - 1 \in 1..Len(uWork') /\ uWork'[i - 1] = uWork[i]
    <2>1. SUFFICES ASSUME NEW i \in 2..Len(uWork)
                   PROVE  i - 1 \in 1..Len(uWork') /\ uWork'[i - 1] = uWork[i]
      OBVIOUS
    <2>2. PICK k \in 1..Len(uWork') : k = i - 1 /\ k + 1 = i
      BY <1>3
    <2>3. QED
      BY <1>3, <2>2
  <1>8. /\ Known' = Known /\ Known \subseteq LogEntry /\ Reporting' = Reporting
    BY <1>1, ReportFields DEF Known, LogTypes, Reporting
  <1>9. Numbered'
    <2>1. \A i \in 1..Len(uWork') : \A x \in uWork'[i].rows : x.n <= reports
      BY <1>1, <1>3 DEF Numbered
    <2>2. QED
      BY <1>1, <1>8, <2>1 DEF Numbered
  <1>10. Accounted'
    <2>1. \A n \in Nat : \A i \in 1..Len(uWork') : \A x \in uWork'[i].rows :
             lastSeen < n /\ n <= x.n => n \in overlooked
      BY <1>1, <1>3 DEF Accounted
    <2>2. QED
      BY <1>1, <1>8, <2>1 DEF Accounted
  <1>11. Taking'
    BY <1>1, <1>4, <1>5, <1>6 DEF Taking
  <1>12. \A r : Stored(r) => Stored(r)'
    <2>1. SUFFICES ASSUME NEW r, Stored(r)
                   PROVE  r \in uDb' \/ r.n \in overlooked'
      BY DEF Stored
    <2>2. \A i \in 1..Len(uWork) : uWork[i].accepted => i = 1
      BY <1>1 DEF Taking
    <2>3. QED
      BY <1>1, <1>3, <1>4, <2>1, <2>2 DEF Stored
  <1>13. \A r : Covered(r) => Covered(r)'
    <2>1. SUFFICES ASSUME NEW r, Covered(r)
                   PROVE  Covered(r)'
      OBVIOUS
    <2>2. ASSUME NEW i \in 1..Len(uWork), r \in uWork[i].rows
          PROVE  Covered(r)'
      <3>1. CASE i = 1
        BY <1>1, <1>3, <1>5, <2>2, <3>1 DEF Covered
      <3>2. CASE i # 1
        <4>1. PICK k \in 1..Len(uWork') : uWork'[k] = uWork[i]
          BY <1>3, <1>7, <2>2, <3>2
        <4>2. QED
          BY <2>2, <4>1 DEF Covered
      <3>3. QED
        BY <3>1, <3>2
    <2>3. QED
      BY <1>1, <2>1, <2>2 DEF Covered
  <1>14. Followed'
    <2>1. ASSUME NEW i \in 1..Len(uWork'), NEW x \in uWork'[i].rows, NEW r \in Known, r.n <= x.n
          PROVE  r.n <= uSeen \/ r.n \in overlooked \/ \E j \in 1..i : r \in uWork'[j].rows
      <3>1. PICK l \in 1..Len(uWork) : l = i + 1 /\ uWork'[i] = uWork[l]
        BY <1>3, <2>1
      <3>2. r.n <= uSeen \/ r.n \in overlooked \/ \E j \in 1..l : r \in uWork[j].rows
        BY <1>1, <1>6, <2>1, <3>1 DEF Followed
      <3>3. ASSUME NEW j \in 1..l, r \in uWork[j].rows
            PROVE  r.n <= uSeen \/ \E k \in 1..i : r \in uWork'[k].rows
        <4>1. CASE j = 1
          BY <1>3, <1>5, <3>3, <4>1
        <4>2. CASE j # 1
          <5>1. PICK k \in 1..i : k = j - 1
            BY <1>3, <2>1, <3>1, <3>3, <4>2
          <5>2. uWork'[k] = uWork[j]
            BY <1>3, <1>7, <2>1, <3>1, <3>3, <4>2, <5>1
          <5>3. QED
            BY <3>3, <5>2
        <4>3. QED
          BY <4>1, <4>2
      <3>4. QED
        BY <3>2, <3>3
    <2>2. QED
      BY <1>1, <1>8, <1>12, <2>1 DEF Followed
  <1>15. QED
    BY <1>1, <1>3, <1>4, <1>9, <1>10, <1>11, <1>13, <1>14, UpstreamMoves DEF LogTypes

----------------------------------------------------------------------------
(* Connections and crashes.                                                *)

\* What of what is under way is not lost.
Remains ==
    /\ uWork' \in Seq(Work)
    /\ \A i \in 1..Len(uWork') : i \in 1..Len(uWork) /\ uWork'[i] = uWork[i] /\ 1..i \subseteq 1..Len(uWork')
    /\ \A i \in 1..Len(uWork) : uWork[i].accepted => i \in 1..Len(uWork') /\ uWork'[i] = uWork[i]

LEMMA Remaining ==
    ASSUME LogTypes, Taking, uWork' = Logs!Accepted \/ uWork' = uWork
    PROVE  Remains
  <1>1. uWork \in Seq(Work) /\ Len(uWork) \in Nat
    BY DEF LogTypes
  <1>2. CASE uWork' = uWork
    BY <1>1, <1>2 DEF Remains
  <1>3. CASE uWork # <<>> /\ Head(uWork).accepted /\ uWork' = Logs!Accepted
    <2>1. uWork' = <<Head(uWork)>> /\ 1 \in 1..Len(uWork) /\ uWork[1] = Head(uWork) /\ Head(uWork) \in Work
      BY <1>1, <1>3 DEF Logs!Accepted
    <2>2. uWork' \in Seq(Work) /\ Len(uWork') = 1 /\ uWork'[1] = uWork[1]
      BY <2>1
    <2>3. \A i \in 1..Len(uWork) : uWork[i].accepted => i = 1
      BY DEF Taking
    <2>4. \A i \in 1..1 : i = 1 /\ 1..i \subseteq 1..1
      OBVIOUS
    <2>5. QED
      BY <2>1, <2>2, <2>3, <2>4 DEF Remains
  <1>4. CASE ~(uWork # <<>> /\ Head(uWork).accepted) /\ uWork' = Logs!Accepted
    <2>1. uWork' = <<>>
      BY <1>4 DEF Logs!Accepted
    <2>2. \A i \in 1..Len(uWork) : ~uWork[i].accepted
      <3>1. \A i \in 1..Len(uWork) : uWork[i].accepted => i = 1 /\ uWork # <<>> /\ uWork[1] = Head(uWork)
        BY <1>1 DEF Taking
      <3>2. QED
        BY <1>4, <3>1
    <2>3. uWork' \in Seq(Work) /\ Len(uWork') = 0
      BY <2>1, WorkNone
    <2>4. 1..0 = {}
      OBVIOUS
    <2>5. QED
      BY <2>2, <2>3, <2>4 DEF Remains
  <1>5. QED
    BY <1>2, <1>3, <1>4

LEMMA RemainsFollowed ==
    ASSUME LogInv, Remains, Known' \subseteq Known, overlooked \subseteq overlooked', UNCHANGED <<uSeen, uDb>>
    PROVE  Taking' /\ Followed'
  <1>1. Taking /\ Followed
    BY DEF LogInv
  <1>2. \A r : Stored(r) => Stored(r)'
    BY DEF Stored, Remains
  <1>3. Taking'
    BY <1>1 DEF Taking, Remains
  <1>4. Followed'
    <2>1. ASSUME NEW i \in 1..Len(uWork'), ~uWork'[i].accepted,
                 NEW x \in uWork'[i].rows, NEW r \in Known', r.n <= x.n
          PROVE  r.n <= uSeen \/ r.n \in overlooked' \/ \E j \in 1..i : r \in uWork'[j].rows
      <3>1. i \in 1..Len(uWork) /\ uWork'[i] = uWork[i] /\ \A j \in 1..i : uWork'[j] = uWork[j]
        BY <2>1 DEF Remains
      <3>2. r.n <= uSeen \/ r.n \in overlooked \/ \E j \in 1..i : r \in uWork[j].rows
        BY <1>1, <2>1, <3>1 DEF Followed
      <3>3. QED
        BY <3>1, <3>2
    <2>2. QED
      BY <1>1, <1>2, <2>1 DEF Followed
  <1>5. QED
    BY <1>3, <1>4

LEMMA NothingToSend ==
    ASSUME tasks' = <<>>, step' = "idle", reporter' = "none"
    PROVE  Sending'
  BY DEF Sending

\* The connection is lost.
LEMMA BreakLogStep ==
    ASSUME LogInv, Logs!Break
    PROVE  LogInv'
  <1>1. /\ LogTypes /\ Numbered /\ Accounted /\ Reading /\ Taking /\ Followed
        /\ reporter' = "none" /\ tasks' = <<>> /\ step' = "idle" /\ rows' = {}
        /\ report' = [report EXCEPT !.sent = report # Logs!NoReport]
        /\ UNCHANGED <<lastSeen, db, saved, reports, opened, uDb, reader, queued, given, unread, overlooked>>
    BY DEF LogInv, Logs!Break, Logs!Disconnected, Logs!readerVars
  <1>2. /\ report' \in Reports /\ Reporting' = Reporting /\ report'.entry = report.entry
        /\ report'.stored = report.stored
    <2>1. CASE Reporting
      <3>1. report' = [report EXCEPT !.sent = TRUE]
        BY <1>1, <2>1 DEF Reporting
      <3>2. QED
        BY <1>1, <2>1, <3>1, ReportSent
    <2>2. CASE ~Reporting
      <3>1. PICK b : b = FALSE
        OBVIOUS
      <3>2. report' = [report EXCEPT !.sent = b]
        BY <1>1, <2>2, <3>1 DEF Reporting
      <3>3. report = [entry |-> Logs!Nothing, stored |-> "no", sent |-> b]
        BY <2>2, <3>1 DEF Reporting, Logs!NoReport
      <3>4. report' = report
        <4>1. \A e, s : [[entry |-> e, stored |-> s, sent |-> b] EXCEPT !.sent = b]
                           = [entry |-> e, stored |-> s, sent |-> b]
          OBVIOUS
        <4>2. QED
          BY <3>2, <3>3, <4>1
      <3>5. QED
        BY <1>1, <3>4 DEF Reporting, LogTypes
    <2>3. QED
      BY <2>1, <2>2
  <1>3. Known' = Known /\ Told' = Told
    BY <1>1, <1>2 DEF Known, Told
  <1>4. Sending'
    BY <1>1, NothingToSend
  <1>5. Reading'
    BY <1>1, <1>2, <1>3 DEF Reading
  <1>6. tasks' \in Seq(Task) /\ rows' \in SUBSET LogEntry
    BY <1>1
  <1>7. CASE (uWork' = Logs!Accepted \/ uWork' = uWork) /\ uSeen' = uSeen
    <2>1. Remains
      BY <1>1, <1>7, Remaining
    <2>2. Taking' /\ Followed'
      BY <1>1, <1>3, <1>7, <2>1, RemainsFollowed
    <2>3. Numbered'
      BY <1>1, <1>2, <1>7, <2>1 DEF Numbered, Remains
    <2>4. Accounted'
      BY <1>1, <1>2, <1>7, <2>1 DEF Accounted, Remains
    <2>5. LogTypes'
      BY <1>1, <1>2, <1>6, <1>7, <2>1 DEF LogTypes, Remains
    <2>6. QED
      BY <1>4, <1>5, <2>2, <2>3, <2>4, <2>5 DEF LogInv
  <1>8. CASE uWork' = <<>> /\ uSeen' = Logs!Max({0} \cup Logs!Numbers(uDb))
    <2>1. \A y \in uDb : y.n \in Nat /\ y.n <= uSeen
      BY <1>1, EntryNumber DEF Taking, LogTypes
    <2>2. /\ uSeen' \in Nat /\ uSeen' <= uSeen /\ \A y \in uDb : y.n <= uSeen'
          /\ uSeen' = 0 \/ \E y \in uDb : uSeen' = y.n
      <3>1. PICK S : S = {0} \cup {y.n : y \in uDb}
        OBVIOUS
      <3>2. S \in SUBSET Nat /\ 0 \in S /\ uSeen \in Nat /\ \A n \in S : n <= uSeen
        BY <1>1, <2>1, <3>1 DEF LogTypes
      <3>3. Logs!Max(S) \in S /\ \A n \in S : n <= Logs!Max(S)
        BY <3>2, MaxOf
      <3>4. uSeen' = Logs!Max(S)
        BY <1>8, <3>1 DEF Logs!Numbers
      <3>5. QED
        BY <3>1, <3>2, <3>3, <3>4
    <2>3. uSeen \in Nat /\ uSeen <= reports /\ reports \in Nat /\ \A n \in Nat : n <= uSeen' => n <= uSeen
      BY <1>1, <2>2 DEF Numbered, LogTypes
    <2>4. uWork' \in Seq(Work) /\ Len(uWork') = 0 /\ 1..0 = {}
      BY <1>8, WorkNone
    <2>5. Taking'
      BY <1>1, <2>2, <2>4 DEF Taking
    <2>6. Followed'
      <3>1. ASSUME NEW r \in Known, r.n <= uSeen'
            PROVE  r \in uDb \/ r.n \in overlooked
        <4>1. r.n \in Nat /\ r.n > 0 /\ r.n <= uSeen
          BY <1>1, <2>3, <3>1, ReportFields, EntryNumber DEF Known, LogTypes
        <4>2. Stored(r)
          BY <1>1, <3>1, <4>1 DEF Followed
        <4>3. \A i \in 1..Len(uWork) : ~(uWork[i].accepted /\ r \in uWork[i].rows)
          <5>1. SUFFICES ASSUME \A y \in uDb : y.n < r.n
                         PROVE  FALSE
            BY <1>1 DEF Taking
          <5>2. uSeen' < r.n
            BY <2>2, <4>1, <5>1
          <5>3. QED
            BY <2>2, <3>1, <4>1, <5>2
        <4>4. QED
          BY <4>2, <4>3 DEF Stored
      <3>2. QED
        BY <1>1, <1>3, <2>4, <3>1 DEF Followed, Stored
    <2>7. Numbered'
      BY <1>1, <1>2, <2>2, <2>3, <2>4 DEF Numbered
    <2>8. Accounted'
      BY <1>1, <1>2, <2>3, <2>4 DEF Accounted
    <2>9. LogTypes'
      BY <1>1, <1>2, <1>6, <2>2, <2>4 DEF LogTypes
    <2>10. QED
      BY <1>4, <1>5, <2>5, <2>6, <2>7, <2>8, <2>9 DEF LogInv
  <1>9. QED
    BY <1>7, <1>8 DEF Logs!Break

\* The process is lost: what was not saved of the numbers, the report and the calls.
LEMMA CrashLogStep ==
    ASSUME LogInv, Logs!Crash
    PROVE  LogInv'
  <1>1. /\ LogTypes /\ Numbered /\ Accounted /\ Taking
        /\ lastSeen' = Logs!Max(Logs!Numbers(db) \cup {saved})
        /\ overlooked' = IF ~Reporting \/ report.entry \in db THEN overlooked
                         ELSE overlooked \cup {report.entry.n}
        /\ report' = Logs!NoReport
        /\ reporter' = "none" /\ tasks' = <<>> /\ step' = "idle" /\ rows' = {}
        /\ uWork' = Logs!Accepted \/ uWork' = uWork
        /\ reader' = "none" /\ queued' = <<>> /\ given' = <<>>
        /\ UNCHANGED <<db, saved, reports, opened, uSeen, uDb>>
    BY DEF LogInv, Logs!Crash, Logs!Disconnected, Reporting
  <1>2. Remains
    BY <1>1, Remaining
  <1>3. /\ report' \in Reports /\ ~Reporting' /\ Known' = db /\ db \subseteq Known
        /\ overlooked \subseteq overlooked'
    BY <1>1 DEF Reports, Reporting, Known
  <1>4. Taking' /\ Followed' /\ Sending'
    BY <1>1, <1>2, <1>3, RemainsFollowed, NothingToSend
  <1>5. /\ lastSeen' \in Nat /\ saved <= lastSeen' /\ lastSeen' <= lastSeen
        /\ \A x \in db : x.n <= lastSeen'
        /\ lastSeen' = saved \/ \E x \in db : lastSeen' = x.n
    <2>1. PICK S : S = {x.n : x \in db} \cup {saved}
      OBVIOUS
    <2>2. S \in SUBSET Nat /\ saved \in S /\ lastSeen \in Nat /\ \A n \in S : n <= lastSeen
      <3>1. \A x \in db : x.n \in Nat /\ x.n <= lastSeen
        BY <1>1, EntryNumber DEF Numbered, LogTypes
      <3>2. QED
        BY <1>1, <2>1, <3>1 DEF Numbered, LogTypes
    <2>3. Logs!Max(S) \in S /\ \A n \in S : n <= Logs!Max(S)
      BY <2>2, MaxOf
    <2>4. lastSeen' = Logs!Max(S)
      BY <1>1, <2>1 DEF Logs!Numbers
    <2>5. QED
      BY <2>1, <2>2, <2>3, <2>4
  <1>6. \A n \in Nat : lastSeen' < n /\ n <= lastSeen => n \in overlooked'
    <2>1. SUFFICES ASSUME NEW n \in Nat, lastSeen' < n, n <= lastSeen
                   PROVE  n \in overlooked'
      OBVIOUS
    <2>2. saved < n /\ \A x \in db : x.n < n
      <3>1. saved \in Nat /\ \A x \in db : x.n \in Nat
        BY <1>1, EntryNumber DEF LogTypes
      <3>2. PICK l \in Nat : l = lastSeen'
        BY <1>5
      <3>3. l < n /\ saved <= l /\ \A x \in db : x.n <= l
        BY <1>5, <2>1, <3>2
      <3>4. QED
        BY <3>1, <3>2, <3>3
    <2>3. n \in overlooked \/ (Reporting /\ report.entry.n = n /\ report.entry \notin db)
      BY <1>1, <2>1, <2>2 DEF Accounted
    <2>4. QED
      BY <1>1, <2>3
  <1>7. LogTypes'
    BY <1>1, <1>2, <1>3, <1>5 DEF LogTypes, Remains
  <1>8. Numbered'
    <2>1. lastSeen' <= reports
      BY <1>1, <1>5 DEF Numbered, LogTypes
    <2>2. QED
      BY <1>1, <1>2, <1>3, <1>5, <2>1 DEF Numbered, Remains
  <1>9. Accounted'
    <2>1. \A n \in Nat : ~(saved < n /\ n <= lastSeen' /\ \A x \in db : x.n < n)
      <3>1. PICK l \in Nat : l = lastSeen'
        BY <1>5
      <3>2. SUFFICES ASSUME NEW n \in Nat, saved < n, n <= l, \A x \in db : x.n < n
                     PROVE  FALSE
        BY <3>1
      <3>3. CASE l = saved
        BY <3>2, <3>3
      <3>4. CASE \E x \in db : l = x.n
        BY <3>2, <3>4
      <3>5. QED
        BY <1>5, <3>1, <3>3, <3>4
    <2>2. \A n \in Nat : lastSeen' < n /\ n <= uSeen => n \in overlooked'
      <3>1. SUFFICES ASSUME NEW n \in Nat, lastSeen' < n, n <= uSeen, ~(n <= lastSeen)
                     PROVE  n \in overlooked'
        BY <1>6
      <3>2. lastSeen < n
        BY <1>1, <3>1 DEF LogTypes
      <3>3. QED
        BY <1>1, <1>3, <3>1, <3>2 DEF Accounted
    <2>3. \A n \in Nat : \A i \in 1..Len(uWork') : \A x \in uWork'[i].rows :
             lastSeen' < n /\ n <= x.n => n \in overlooked'
      <3>1. SUFFICES ASSUME NEW n \in Nat, NEW i \in 1..Len(uWork'), NEW x \in uWork'[i].rows,
                            lastSeen' < n, n <= x.n, ~(n <= lastSeen)
                     PROVE  n \in overlooked'
        BY <1>6
      <3>2. lastSeen < n /\ i \in 1..Len(uWork) /\ x \in uWork[i].rows
        BY <1>1, <1>2, <3>1 DEF LogTypes, Remains
      <3>3. QED
        BY <1>1, <1>3, <3>1, <3>2 DEF Accounted
    <2>4. QED
      BY <1>1, <2>1, <2>2, <2>3 DEF Accounted
  <1>10. Reading'
    <2>1. 1..0 = {} /\ Len(<<>>) = 0
      OBVIOUS
    <2>2. QED
      BY <1>1, <1>3, <2>1 DEF Reading, Increasing
  <1>11. QED
    BY <1>4, <1>7, <1>8, <1>9, <1>10 DEF LogInv

----------------------------------------------------------------------------

LEMMA LogsInit ==
    ASSUME Logs!Init
    PROVE  LogInv
  <1>1. /\ lastSeen = 0 /\ db = {} /\ saved = 0 /\ reports = 0 /\ report = Logs!NoReport
        /\ reporter = "none" /\ tasks = <<>> /\ step = "idle" /\ opened = 0 /\ rows = {}
        /\ uSeen = 0 /\ uDb = {} /\ uWork = <<>> /\ reader = "none" /\ queued = <<>> /\ given = <<>>
    BY DEF Logs!Init
  <1>2. ~Reporting /\ Known = {} /\ report \in Reports /\ 1..0 = {} /\ Len(<<>>) = 0
    BY <1>1 DEF Reporting, Known, Reports
  <1>3. LogTypes /\ Numbered /\ Accounted
    BY <1>1, <1>2 DEF LogTypes, Numbered, Accounted
  <1>4. Reading
    BY <1>1, <1>2 DEF Reading, Increasing
  <1>5. Taking /\ Followed /\ Sending
    BY <1>1, <1>2 DEF Taking, Followed, Sending
  <1>6. QED
    BY <1>3, <1>4, <1>5 DEF LogInv

\* Every step of the log store keeps LogInv.
LEMMA LogsStep ==
    ASSUME LogInv, Logs!Next
    PROVE  LogInv'
  <1>1. CASE Logs!StoreNext
    BY <1>1, WriteBeginsStep, CommitStep, ReportEndsStep, ReportStep, CrashLogStep, CleanupLogStep,
       LogInfoChangedStep DEF Logs!StoreNext, Logs!StoreProgress
  <1>2. CASE Logs!ReporterNext
    BY <1>2, AddedStep, UpdateStartsStep, OpenedStep, ReadSnapshotStep, SendBatchStep, BatchesSentStep,
       DeliverLogStep, DeliveredStep, RetryTimerStep, RetryEndsStep, UAcceptStep, UCommitStep,
       UpdateFailsStep, BreakLogStep DEF Logs!ReporterNext, Logs!ReporterProgress
  <1>3. CASE Logs!ReaderNext
    BY <1>3, SubscribeLogStep, ReadInitialStep, FinishInitialStep DEF Logs!ReaderNext, Logs!ReaderProgress
  <1>4. QED
    BY <1>1, <1>2, <1>3 DEF Logs!Next

\* What only depends on the log store is kept while it does not move.
LEMMA LogsKept ==
    ASSUME LogInv, UNCHANGED logVars
    PROVE  LogInv'
  <1>1. Sending'
    BY SameElse DEF logVars, LogInv, Sending
  <1>2. QED
    BY <1>1, OnlyReporter DEF logVars, LogInv, LogTypes

\* The properties of the runs follow from LogInv.
LEMMA Agreeing ==
    ASSUME LogInv
    PROVE  Logs!UpstreamAgrees
  <1>1. DOMAIN uWork = 1..Len(uWork)
    BY DEF LogInv, LogTypes
  <1>2. \A r \in db : r.n <= uSeen => Stored(r)
    BY DEF LogInv, Followed, Known
  <1>3. QED
    BY <1>1, <1>2 DEF Logs!UpstreamAgrees, Stored

LEMMA FollowingReaders ==
    ASSUME LogInv
    PROVE  Logs!ReadersFollow
  <1>1. DOMAIN given = 1..Len(given)
    BY DEF LogInv, LogTypes
  <1>2. Increasing(given) /\ (reader = "live" => \A x \in db : In(x, given) \/ x \in unread)
    BY DEF LogInv, Reading
  <1>3. \A x : In(x, given) => x \in Logs!ToSet(given)
    BY <1>1, ToSetIn DEF In
  <1>4. QED
    BY <1>1, <1>2, <1>3 DEF Logs!ReadersFollow, Increasing

\* The log store keeps LogInv: what is known is stored by the upstream or is sent to it.
THEOREM LogInvariance == Spec => []LogInv
  <1>1. Init => LogInv
    BY LogsInit DEF Init
  <1>2. LogInv /\ [Next]_vars => LogInv'
    <2>1. SUFFICES ASSUME LogInv, [Next]_vars PROVE LogInv'
      OBVIOUS
    <2>2. CASE Only("log upstream") /\ (Logs!StoreNext \/ Logs!ReporterNext)
      BY <2>1, <2>2, LogsStep DEF Logs!Next
    <2>3. CASE Only("log reader") /\ (Logs!StoreNext \/ Logs!ReaderNext)
      BY <2>1, <2>3, LogsStep DEF Logs!Next
    <2>4. CASE Only("remote") /\ Remote!Next
      BY <2>1, <2>4, LogsKept DEF Only
    <2>5. CASE Only("publications") /\ Publishing!Next
      BY <2>1, <2>5, LogsKept DEF Only
    <2>6. CASE Only("connection") /\ Connection!Next
      BY <2>1, <2>6, LogsKept DEF Only
    <2>7. CASE Only("trust") /\ Trusted!Next
      BY <2>1, <2>7, LogsKept DEF Only
    <2>8. CASE Only("authentications") /\ Remembering!Next
      BY <2>1, <2>8, LogsKept DEF Only
    <2>9. CASE UNCHANGED vars
      BY <2>1, <2>9, LogsKept DEF vars
    <2>10. QED
      BY <2>1, <2>2, <2>3, <2>4, <2>5, <2>6, <2>7, <2>8, <2>9 DEF Next
  <1>3. QED
    BY <1>1, <1>2, PTL DEF Spec

\* The upstream never has a gap below the last number it has seen, but for the entries the
\* catch-up cannot know of.
THEOREM UpstreamNeverMisses == Spec => []UpstreamAgrees
  <1>1. LogInv => UpstreamAgrees
    BY Agreeing DEF UpstreamAgrees
  <1>2. QED
    BY <1>1, LogInvariance, PTL

\* A reader gets every entry once and in order.
THEOREM ReadersNeverMiss == Spec => []ReadersFollow
  <1>1. LogInv => ReadersFollow
    BY FollowingReaders DEF ReadersFollow
  <1>2. QED
    BY <1>1, LogInvariance, PTL
================================================================================
