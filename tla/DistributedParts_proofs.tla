----------------------- MODULE DistributedParts_proofs -----------------------
(***************************************************************************)
(* Theorems about the connections of a host, the functors of remote calls   *)
(* and the subscriptions to published actors, for any number of hosts,      *)
(* callers, actors, subscribers and sessions: KeepsTrying, KeptWhileUsed    *)
(* and SubscribersFollow, each from an invariant of its part alone.         *)
(***************************************************************************)
EXTENDS MCDistributedParts, Integers, Sequences, FiniteSetTheorems, TLAPS

----------------------------------------------------------------------------
(* A client connection.  While it is to be opened again on failure, what     *)
(* starts the next attempt is there; the attempts and timers that are left   *)
(* over from earlier ones ask for the same.                                  *)

Stages == {"connecting", "accepting", "identifying", "identified", "abandoned"}
Trying == [seq : Nat \ {0}, asked : BOOLEAN, retry : BOOLEAN, first : BOOLEAN, stage : Stages]
ConnTypes ==
    /\ settings.retry \in BOOLEAN /\ settings.first \in BOOLEAN
    /\ entry \in {"none", "listed", "removed"} /\ sequence \in Nat
    /\ attempts \subseteq Trying /\ DOMAIN timers \subseteq [seq : Nat, retry : BOOLEAN]
    /\ overtaken \in BOOLEAN

\* There is one attempt of a sequence number, and only the first is asked for.
OneEach(as) ==
    /\ \A a \in as : a.seq <= sequence
    /\ \A a, b \in as : a.seq = b.seq => a = b
Asked ==
    /\ entry = "none" => attempts = {} /\ reference = "none" /\ sequence = 0
    /\ reference # "none" => \A a \in attempts : ~a.asked
    /\ \A a \in attempts : a.asked => a.seq = 1

\* Attempts and timers are made with the settings of the connection, or better ones.
AsSet(as) ==
    settings.retry =>
        \A a \in as :
            /\ a.retry /\ (settings.first => a.first)
            /\ reference \in {"none", "held"} => a.asked \/ a.first

Tries(as, ts, s) ==
    \/ s # 0
    \/ \E a \in as : a.seq = sequence /\ a.stage = "connecting"
    \/ \E t \in DOMAIN ts : t.seq = sequence
GaveUp(as) ==
    /\ ~settings.first /\ reference # "held"
    /\ \A a \in as : a.seq = sequence => ~a.asked

ConnInv ==
    /\ ConnTypes /\ OneEach(attempts) /\ Asked /\ AsSet(attempts)
    /\ settings.retry => \A t \in DOMAIN timers : t.retry
    /\ entry = "listed" /\ settings.retry /\ ~overtaken => Tries(attempts, timers, socket) \/ GaveUp(attempts)

\* The attempts as are some of those there are, which may have got further.
From(as) ==
    /\ as \subseteq Trying /\ OneEach(as)
    /\ \A a \in as : \E b \in attempts :
          a.seq = b.seq /\ a.asked = b.asked /\ a.retry = b.retry /\ a.first = b.first
Mapped(as, s) == {IF a.stage = "identifying" THEN [a EXCEPT !.stage = s] ELSE a : a \in as}

LEMMA FromSome ==
    ASSUME ConnInv, NEW as \in SUBSET attempts
    PROVE  From(as)
  <1>1. attempts \subseteq Trying /\ OneEach(attempts)
    BY DEF ConnInv, ConnTypes
  <1>2. as \subseteq Trying /\ OneEach(as)
    BY <1>1 DEF OneEach
  <1>3. \A a \in as : a \in attempts
    OBVIOUS
  <1>4. QED
    BY <1>2, <1>3 DEF From

LEMMA FromMapped ==
    ASSUME NEW as, From(as), NEW s \in Stages
    PROVE  /\ From(Mapped(as, s))
           /\ \A b \in Mapped(as, s) : \E a \in as : a.seq = b.seq /\ a.asked = b.asked
           /\ s # "connecting" => \A a \in as : a.stage = "connecting" => a \in Mapped(as, s)
  <1> DEFINE f(a) == IF a.stage = "identifying" THEN [a EXCEPT !.stage = s] ELSE a
  <1>1. \A a \in as : a \in Trying
    BY DEF From
  <1>2. ASSUME NEW a \in Trying
        PROVE  /\ f(a) \in Trying /\ f(a).seq = a.seq /\ f(a).asked = a.asked /\ f(a).retry = a.retry
               /\ f(a).first = a.first /\ (a.stage = "connecting" => f(a) = a)
    BY DEF Trying, Stages
  <1>3. Mapped(as, s) = {f(a) : a \in as}
    BY DEF Mapped
  <1> HIDE DEF f
  <1>4. ASSUME NEW b \in Mapped(as, s)
        PROVE  \E a \in as : b = f(a) /\ a \in Trying
    BY <1>1, <1>3, <1>4
  <1>5. Mapped(as, s) \subseteq Trying
    BY <1>2, <1>4
  <1>6. OneEach(Mapped(as, s))
    <2>1. \A b \in Mapped(as, s) : b.seq <= sequence
      <3>1. TAKE b \in Mapped(as, s)
      <3>2. PICK a \in as : b = f(a) /\ a \in Trying
        BY <1>4
      <3>3. a.seq <= sequence /\ b.seq = a.seq
        BY <1>2, <3>2 DEF From, OneEach
      <3>4. QED
        BY <3>3
    <2>2. ASSUME NEW b \in Mapped(as, s), NEW c \in Mapped(as, s), b.seq = c.seq
          PROVE  b = c
      <3>1. PICK a \in as : b = f(a) /\ a \in Trying
        BY <1>4
      <3>2. PICK d \in as : c = f(d) /\ d \in Trying
        BY <1>4
      <3>3. a.seq = d.seq
        BY <1>2, <2>2, <3>1, <3>2
      <3>4. a = d
        BY <3>3 DEF From, OneEach
      <3>5. QED
        BY <3>1, <3>2, <3>4
    <2>3. QED
      BY <2>1, <2>2 DEF OneEach
  <1>7. ASSUME NEW b \in Mapped(as, s)
        PROVE  \E c \in attempts : b.seq = c.seq /\ b.asked = c.asked /\ b.retry = c.retry /\ b.first = c.first
    <2>1. PICK a \in as : b = f(a) /\ a \in Trying
      BY <1>4
    <2>2. PICK c \in attempts : a.seq = c.seq /\ a.asked = c.asked /\ a.retry = c.retry /\ a.first = c.first
      BY DEF From
    <2>3. QED
      BY <1>2, <2>1, <2>2
  <1>8. ASSUME NEW b \in Mapped(as, s)
        PROVE  \E a \in as : a.seq = b.seq /\ a.asked = b.asked
    <2>1. PICK a \in as : b = f(a) /\ a \in Trying
      BY <1>4
    <2>2. a.seq = b.seq /\ a.asked = b.asked
      BY <1>2, <2>1
    <2>3. QED
      BY ONLY <2>2, a \in as
  <1>9. \A a \in as : a.stage = "connecting" => a \in Mapped(as, s)
    BY <1>1, <1>2, <1>3
  <1>10. QED
    BY <1>5, <1>6, <1>7, <1>8, <1>9 DEF From

LEMMA FromStaged ==
    ASSUME ConnInv, NEW as, From(as), NEW a \in attempts, \A b \in as : b.seq # a.seq, NEW s \in Stages
    PROVE  /\ From(as \cup {[a EXCEPT !.stage = s]})
           /\ [a EXCEPT !.stage = s].seq = a.seq /\ [a EXCEPT !.stage = s].asked = a.asked
           /\ a \in Trying
  <1> DEFINE e == [a EXCEPT !.stage = s]
  <1>1. a \in Trying /\ a.seq <= sequence
    BY DEF ConnInv, ConnTypes, OneEach
  <1>2. /\ e \in Trying /\ e.seq = a.seq /\ e.asked = a.asked /\ e.retry = a.retry /\ e.first = a.first
    BY <1>1 DEF Trying
  <1> HIDE DEF e
  <1>3. OneEach(as \cup {e})
    BY <1>1, <1>2 DEF From, OneEach
  <1>4. From(as \cup {e})
    BY <1>2, <1>3 DEF From
  <1>5. QED
    BY <1>1, <1>2, <1>4 DEF e

\* A step in which no attempt starts.
LEMMA KeptStep ==
    ASSUME ConnInv, NEW as, From(as), attempts' = as, UNCHANGED <<settings, sequence>>,
           entry' \in {entry, "removed"}, entry' = "none" => reference' = reference,
           reference' # "none" => \A a \in as : ~a.asked,
           reference' \in {"none", "held"} => reference \in {"none", "held"},
           \A t \in DOMAIN timers' :
              \/ t \in DOMAIN timers
              \/ t \in [seq : Nat, retry : BOOLEAN] /\ (settings.retry => t.retry),
           overtaken' \in BOOLEAN,
           entry' = "listed" /\ settings.retry /\ ~overtaken' =>
               \/ Tries(as, timers', socket')
               \/ ~settings.first /\ reference' # "held" /\ \A a \in as : a.seq = sequence => ~a.asked
    PROVE  ConnInv'
  <1>1. ConnTypes'
    BY DEF ConnInv, ConnTypes, From
  <1>2. OneEach(attempts)'
    BY DEF From, OneEach
  <1>3. Asked'
    <2>1. \A a \in as : \E b \in attempts : a.asked = b.asked /\ a.seq = b.seq
      BY DEF From
    <2>2. \A a \in as : a.asked => a.seq = 1
      BY <2>1 DEF ConnInv, Asked
    <2>3. entry' = "none" => attempts' = {} /\ reference' = "none" /\ sequence' = 0
      BY <2>1 DEF ConnInv, Asked
    <2>4. QED
      BY <2>2, <2>3 DEF Asked
  <1>4. AsSet(attempts)'
    BY DEF ConnInv, AsSet, From
  <1>5. (settings.retry => \A t \in DOMAIN timers : t.retry)'
    BY DEF ConnInv
  <1>6. (entry = "listed" /\ settings.retry /\ ~overtaken => Tries(attempts, timers, socket) \/ GaveUp(attempts))'
    BY DEF Tries, GaveUp
  <1>7. QED
    BY <1>1, <1>2, <1>3, <1>4, <1>5, <1>6 DEF ConnInv

\* f_Reconnect
LEMMA ReconnectStep ==
    ASSUME ConnInv, NEW as, From(as), NEW wanted \in BOOLEAN, NEW more \in BOOLEAN, NEW first \in BOOLEAN,
           Connection!Reconnect(wanted, more, first, as), settings' = settings, entry' = "listed",
           settings.retry => more /\ (settings.first => first) /\ (reference' \in {"none", "held"} => wanted \/ first),
           wanted => sequence = 0, reference' # "none" => ~wanted /\ \A a \in as : ~a.asked,
           reference' \in {"none", "held"} => reference \in {"none", "held"},
           DOMAIN timers' \subseteq DOMAIN timers, overtaken' = overtaken
    PROVE  ConnInv'
  <1> DEFINE e == [seq |-> sequence + 1, asked |-> wanted, retry |-> more, first |-> first, stage |-> "connecting"]
  <1>1. sequence' = sequence + 1 /\ attempts' = as \cup {e} /\ sequence \in Nat
    BY DEF Connection!Reconnect, ConnInv, ConnTypes
  <1>2. /\ e \in Trying /\ e.seq = sequence + 1 /\ e.asked = wanted /\ e.retry = more /\ e.first = first
        /\ e.stage = "connecting"
    BY <1>1 DEF Trying, Stages
  <1> HIDE DEF e
  <1>3. ConnTypes'
    <2>1. attempts' \subseteq Trying
      BY <1>1, <1>2 DEF From
    <2>2. sequence' \in Nat
      BY <1>1
    <2>3. DOMAIN timers' \subseteq [seq : Nat, retry : BOOLEAN]
      BY DEF ConnInv, ConnTypes
    <2>4. QED
      BY <2>1, <2>2, <2>3 DEF ConnInv, ConnTypes
  <1>4. OneEach(attempts)'
    <2>1. \A a \in as : a.seq \in Nat /\ a.seq <= sequence
      BY DEF From, OneEach, Trying
    <2>2. \A a, b \in as : a.seq = b.seq => a = b
      BY DEF From, OneEach
    <2>3. \A a \in attempts' : a \in as \/ a = e
      BY <1>1
    <2>4. ASSUME NEW a \in as
          PROVE  a.seq <= sequence + 1 /\ a.seq # sequence + 1
      <3>1. a.seq \in Nat /\ a.seq <= sequence /\ sequence \in Nat
        BY <1>1, <2>1
      <3>2. QED
        BY <3>1
    <2>5. sequence + 1 <= sequence + 1
      BY <1>1
    <2>6. \A a \in attempts' : a.seq <= sequence'
      BY <1>1, <1>2, <2>4, <2>5, <2>3
    <2>7. \A a \in as : a.seq # e.seq
      BY <1>1, <1>2, <2>4
    <2>8. \A a, b \in attempts' : a.seq = b.seq => a = b
      BY <2>2, <2>3, <2>7
    <2>9. QED
      BY <2>6, <2>8 DEF OneEach
  <1>5. Asked'
    <2>1. \A a \in as : a.asked => a.seq = 1
      BY DEF ConnInv, Asked, From
    <2>2. e.asked => e.seq = 1
      BY <1>2
    <2>3. QED
      BY <1>1, <1>2, <2>1, <2>2 DEF Asked
  <1>6. AsSet(attempts)'
    BY <1>1, <1>2 DEF ConnInv, AsSet, From
  <1>7. (settings.retry => \A t \in DOMAIN timers : t.retry)'
    BY DEF ConnInv
  <1>8. Tries(attempts, timers, socket)'
    BY <1>1, <1>2 DEF Tries
  <1>9. QED
    BY <1>3, <1>4, <1>5, <1>6, <1>7, <1>8 DEF ConnInv

LEMMA TimerSets ==
    /\ \A ts, t : DOMAIN Connection!BagAdd(ts, t) = DOMAIN ts \cup {t}
    /\ \A ts, t : /\ DOMAIN Connection!BagRemove(ts, t) \subseteq DOMAIN ts
                  /\ DOMAIN ts \ {t} \subseteq DOMAIN Connection!BagRemove(ts, t)
  BY DEF Connection!BagAdd, Connection!BagRemove

\* What holds of one attempt.
LEMMA OneAttempt ==
    ASSUME ConnInv, NEW a \in attempts
    PROVE  /\ a \in Trying /\ a.seq \in Nat \ {0} /\ a.asked \in BOOLEAN /\ a.first \in BOOLEAN /\ a.retry \in BOOLEAN
           /\ attempts \ {a} \subseteq attempts /\ From(attempts \ {a})
           /\ \A b \in attempts \ {a} : b.seq # a.seq
           /\ entry # "none" /\ (a.asked => reference = "none")
           /\ settings.retry => a.retry /\ (settings.first => a.first)
           /\ settings.retry /\ reference = "held" => a.first
           /\ settings.retry /\ reference = "none" => a.asked \/ a.first
           /\ \A b \in attempts : b.asked => reference = "none"
  <1>1. a \in Trying /\ OneEach(attempts) /\ Asked /\ AsSet(attempts)
    BY DEF ConnInv, ConnTypes
  <1>2. From(attempts \ {a})
    BY FromSome
  <1>3. a.seq \in Nat \ {0} /\ a.asked \in BOOLEAN /\ a.first \in BOOLEAN /\ a.retry \in BOOLEAN
    BY <1>1 DEF Trying
  <1>4. \A b \in attempts \ {a} : b.seq # a.seq
    BY <1>1 DEF OneEach
  <1>5. entry # "none" /\ \A b \in attempts : b.asked => reference = "none"
    BY <1>1 DEF Asked
  <1>6. settings.retry => a.retry /\ (settings.first => a.first) /\ (reference \in {"none", "held"} => a.asked \/ a.first)
    BY <1>1 DEF AsSet
  <1>7. QED
    BY <1>1, <1>2, <1>3, <1>4, <1>5, <1>6

\* fp_ScheduleReconnect for the present sequence, or one that is overtaken.
LEMMA ScheduleStep ==
    ASSUME ConnInv, NEW as, From(as), NEW seq \in Nat, NEW more \in BOOLEAN, NEW keepHost,
           Connection!ScheduleReconnect(seq, more, keepHost, as), settings.retry => more,
           UNCHANGED <<settings, sequence, entry>>, entry = "none" => reference' = reference,
           reference' # "none" => \A a \in as : ~a.asked,
           reference' \in {"none", "held"} => reference \in {"none", "held"},
           overtaken' \in BOOLEAN, seq # sequence => overtaken'
    PROVE  ConnInv'
  <1> DEFINE e == [seq |-> seq, retry |-> more]
  <1>1. attempts' = Mapped(as, "abandoned") /\ timers' = Connection!BagAdd(timers, e)
    BY DEF Connection!ScheduleReconnect, Connection!Reset, Connection!Discarded, Mapped
  <1>0. e \in [seq : Nat, retry : BOOLEAN] /\ e.seq = seq /\ e.retry = more
    OBVIOUS
  <1> HIDE DEF e
  <1>2. From(attempts') /\ \A b \in attempts' : \E a \in as : a.seq = b.seq /\ a.asked = b.asked
    BY <1>1, FromMapped DEF Stages
  <1>3. DOMAIN timers' = DOMAIN timers \cup {e}
    BY <1>1, TimerSets
  <1>4. \A t \in DOMAIN timers' :
           \/ t \in DOMAIN timers
           \/ t \in [seq : Nat, retry : BOOLEAN] /\ (settings.retry => t.retry)
    BY <1>0, <1>3
  <1>5. seq = sequence => Tries(attempts', timers', socket')
    BY <1>0, <1>3 DEF Tries
  <1>6. entry' \in {entry, "removed"} /\ (entry' = "none" => reference' = reference)
    OBVIOUS
  <1>7. reference' # "none" => \A a \in attempts' : ~a.asked
    BY <1>2
  <1> DEFINE bs == attempts'
  <1>8. From(bs) /\ attempts' = bs
    BY <1>2
  <1>9. entry' = "listed" /\ settings.retry /\ ~overtaken' =>
           \/ Tries(bs, timers', socket')
           \/ ~settings.first /\ reference' # "held" /\ \A a \in bs : a.seq = sequence => ~a.asked
    BY <1>5
  <1>10. QED
    BY <1>4, <1>6, <1>7, <1>8, <1>9, KeptStep

\* An attempt that is not the one to hope for ends.
LEMMA GivesUpStep ==
    ASSUME ConnInv, NEW a \in attempts, attempts' = attempts \ {a}, UNCHANGED <<settings, sequence, entry, timers, socket>>,
           reference' = reference \/ (a.asked /\ a.seq = sequence /\ a.stage # "connecting" /\ reference' = "held"),
           overtaken' = (overtaken \/ a.seq # sequence) \/ overtaken' = overtaken,
           entry # "listed" \/ a.seq # sequence \/ a.stage # "connecting" \/ ~a.first
    PROVE  ConnInv'
  <1> DEFINE as == attempts \ {a}
  <1>1. /\ a \in Trying /\ a.seq \in Nat \ {0} /\ a.asked \in BOOLEAN /\ a.first \in BOOLEAN /\ From(as)
        /\ \A b \in as : b.seq # a.seq
        /\ entry # "none" /\ (a.asked => reference = "none")
        /\ settings.retry => a.retry /\ (settings.first => a.first)
        /\ settings.retry /\ reference = "held" => a.first
    BY OneAttempt
  <1>2. attempts' = as /\ \A b \in as : b \in attempts
    OBVIOUS
  <1>3. \A b \in attempts : b = a \/ b \in as
    OBVIOUS
  <1> HIDE DEF as
  <1>4. overtaken' \in BOOLEAN /\ (~overtaken' => ~overtaken)
    BY DEF ConnInv, ConnTypes
  <1>5. reference' # "none" => \A b \in as : ~b.asked
    <2>1. CASE reference' = reference
      BY <1>2, <2>1 DEF ConnInv, Asked
    <2>2. CASE a.asked
      <3>1. \A b \in attempts : b.asked => b.seq = 1
        BY DEF ConnInv, Asked
      <3>2. QED
        BY <1>1, <1>2, <2>2, <3>1
    <2>3. QED
      BY <2>1, <2>2
  <1>6. reference' \in {"none", "held"} => reference \in {"none", "held"}
    BY <1>1
  <1>7. ASSUME entry = "listed", settings.retry, ~overtaken'
        PROVE  \/ Tries(as, timers', socket')
               \/ ~settings.first /\ reference' # "held" /\ \A b \in as : b.seq = sequence => ~b.asked
    <2>1. Tries(attempts, timers, socket) \/ GaveUp(attempts)
      BY <1>4, <1>7 DEF ConnInv
    <2>2. CASE socket # 0 \/ \E t \in DOMAIN timers : t.seq = sequence
      BY <2>2 DEF Tries
    <2>3. ASSUME NEW b \in attempts, b.seq = sequence, b.stage = "connecting"
          PROVE  \/ Tries(as, timers', socket')
                 \/ ~settings.first /\ reference' # "held" /\ \A c \in as : c.seq = sequence => ~c.asked
      <3>1. CASE b \in as
        BY <2>3, <3>1 DEF Tries
      <3>2. CASE b = a
        <4>1. ~a.first /\ reference' = reference
          BY <1>7, <2>3, <3>2
        <4>2. QED
          BY <1>1, <1>7, <2>3, <3>2, <4>1
      <3>3. QED
        BY <1>3, <3>1, <3>2
    <2>4. CASE GaveUp(attempts)
      BY <1>2, <2>4 DEF GaveUp
    <2>5. QED
      BY <2>1, <2>2, <2>3, <2>4 DEF Tries
  <1>8. /\ entry' \in {entry, "removed"} /\ (entry' = "none" => reference' = reference)
        /\ \A t \in DOMAIN timers' : t \in DOMAIN timers
    BY <1>1
  <1>9. QED
    BY <1>1, <1>2, <1>4, <1>5, <1>6, <1>7, <1>8, KeptStep

\* No attempt ends or starts, but those that are left may be discarded.
LEMMA QuietStep ==
    ASSUME ConnInv, NEW as, From(as), attempts' = as, UNCHANGED <<settings, sequence, overtaken, timers>>,
           entry' \in {entry, "removed"},
           \A b \in as : \E a \in attempts : a.seq = b.seq /\ a.asked = b.asked,
           \A a \in attempts : a.stage = "connecting" => a \in as,
           reference' = reference \/ (reference = "held" /\ reference' \notin {"none", "held"}),
           socket' = socket \/ socket' # 0 \/ entry' # "listed"
    PROVE  ConnInv'
  <1>1. overtaken' \in BOOLEAN /\ \A t \in DOMAIN timers' : t \in DOMAIN timers
    BY DEF ConnInv, ConnTypes
  <1>2. reference' # "none" => \A b \in as : ~b.asked
    BY DEF ConnInv, Asked
  <1>3. ASSUME entry' = "listed", settings.retry, ~overtaken'
        PROVE  \/ Tries(as, timers', socket')
               \/ ~settings.first /\ reference' # "held" /\ \A b \in as : b.seq = sequence => ~b.asked
    <2>1. Tries(attempts, timers, socket) \/ GaveUp(attempts)
      BY <1>3 DEF ConnInv
    <2>2. CASE Tries(attempts, timers, socket)
      BY <1>3, <2>2 DEF Tries
    <2>3. CASE GaveUp(attempts)
      BY <2>3 DEF GaveUp
    <2>4. QED
      BY <2>1, <2>2, <2>3
  <1>4. entry' = "none" => reference' = reference
    BY DEF ConnInv, Asked
  <1>5. reference' \in {"none", "held"} => reference \in {"none", "held"}
    OBVIOUS
  <1>6. QED
    BY <1>1, <1>2, <1>3, <1>4, <1>5, KeptStep

LEMMA ConnectStep ==
    ASSUME ConnInv, Connection!Connect
    PROVE  ConnInv'
  <1>1. /\ entry = "none" /\ attempts = {} /\ reference = "none" /\ sequence = 0
        /\ settings.retry \in BOOLEAN /\ settings.first \in BOOLEAN
    BY DEF ConnInv, Asked, ConnTypes, Connection!Connect
  <1>2. From({})
    BY FromSome
  <1>3. Connection!Reconnect(TRUE, settings.retry, settings.first, {}) /\ entry' = "listed"
        /\ UNCHANGED <<settings, timers, reference, overtaken>>
    BY DEF Connection!Connect
  <1>4. QED
    BY <1>1, <1>2, <1>3, ReconnectStep

\* A continuation that ends without another attempt.
LEMMA EndsStep ==
    ASSUME ConnInv, NEW a \in attempts, Connection!GivesUp(a), UNCHANGED <<settings, sequence, entry>>,
           overtaken' = overtaken \/ overtaken' = (overtaken \/ a.seq # sequence),
           a.stage = "connecting" => ~(Connection!Alive /\ a.first) \/ Connection!Stale(a)
    PROVE  ConnInv'
  <1>1. /\ attempts' = attempts \ {a} /\ UNCHANGED <<timers, socket>> /\ reference' = reference
    BY DEF Connection!GivesUp, Connection!Answer
  <1>2. entry = "listed" => Connection!Alive
    BY DEF Connection!Alive
  <1>3. entry # "listed" \/ a.seq # sequence \/ a.stage # "connecting" \/ ~a.first
    BY <1>2 DEF Connection!Stale
  <1>4. QED
    BY <1>1, <1>3, GivesUpStep

\* An attempt that fails is made again later.
LEMMA ReportStep ==
    ASSUME ConnInv, NEW a \in attempts, a.first, Connection!Answer(a, "result"),
           Connection!ScheduleReconnect(a.seq, a.retry, TRUE, attempts \ {a}),
           UNCHANGED <<settings, sequence, entry>>,
           \/ overtaken' = (overtaken \/ a.seq # sequence)
           \/ overtaken' = overtaken /\ a.seq = sequence
    PROVE  ConnInv'
  <1> DEFINE as == attempts \ {a}
  <1>1. /\ a.seq \in Nat \ {0} /\ a.retry \in BOOLEAN /\ From(as) /\ a.asked \in BOOLEAN
        /\ \A b \in as : b.seq # a.seq
        /\ entry # "none" /\ (a.asked => reference = "none") /\ (settings.retry => a.retry)
    BY OneAttempt
  <1>2. \A b \in as : b \in attempts
    OBVIOUS
  <1>3. Connection!ScheduleReconnect(a.seq, a.retry, TRUE, as)
    OBVIOUS
  <1> HIDE DEF as
  <1>4. reference' # "none" => \A b \in as : ~b.asked
    <2>1. CASE reference' = reference
      BY <1>2, <2>1 DEF ConnInv, Asked
    <2>2. CASE a.asked
      <3>1. \A b \in attempts : b.asked => b.seq = 1
        BY DEF ConnInv, Asked
      <3>2. QED
        BY <1>1, <1>2, <2>2, <3>1
    <2>3. QED
      BY <2>1, <2>2 DEF Connection!Answer
  <1>5. reference' \in {"none", "held"} => reference \in {"none", "held"}
    BY <1>1 DEF Connection!Answer
  <1>6. overtaken' \in BOOLEAN /\ (a.seq # sequence => overtaken')
    BY DEF ConnInv, ConnTypes
  <1>7. a.seq \in Nat
    BY <1>1
  <1>8. QED
    BY <1>1, <1>3, <1>4, <1>5, <1>6, <1>7, ScheduleStep

LEMMA ConnectFailsStep ==
    ASSUME ConnInv, NEW a \in attempts, Connection!ConnectFails(a)
    PROVE  ConnInv'
  <1>1. /\ a.stage = "connecting" /\ UNCHANGED <<settings, entry, sequence>>
        /\ overtaken' = (overtaken \/ a.seq # sequence)
        /\ Connection!ReportError(a)
    BY DEF Connection!ConnectFails, Connection!entryVars
  <1>2. CASE ~(Connection!Alive /\ a.first) /\ Connection!GivesUp(a)
    BY <1>1, <1>2, EndsStep
  <1>3. CASE a.first /\ Connection!Answer(a, "result") /\ Connection!ScheduleReconnect(a.seq, a.retry, TRUE, attempts \ {a})
    BY <1>1, <1>3, ReportStep
  <1>4. QED
    BY <1>1, <1>2, <1>3 DEF Connection!ReportError

\* An attempt that gets further, and may discard the others.
LEMMA FurtherStep ==
    ASSUME ConnInv, NEW a \in attempts, NEW s \in Stages, NEW as, From(as), \A b \in as : b.seq # a.seq,
           \A b \in as : \E c \in attempts : c.seq = b.seq /\ c.asked = b.asked,
           \A b \in attempts \ {a} : b.stage = "connecting" => b \in as,
           attempts' = as \cup {[a EXCEPT !.stage = s]},
           UNCHANGED <<settings, sequence, entry, overtaken, timers, reference>>,
           socket' # 0
    PROVE  ConnInv'
  <1> DEFINE e == [a EXCEPT !.stage = s]
  <1>0. \A b \in as : b.seq # a.seq
    OBVIOUS
  <1>1. /\ From(as \cup {e}) /\ e.seq = a.seq /\ e.asked = a.asked
    BY ONLY <1>0, ConnInv, a \in attempts, s \in Stages, From(as), FromStaged
  <1>2. entry # "none"
    BY OneAttempt
  <1> HIDE DEF e
  <1>3. overtaken' \in BOOLEAN /\ \A t \in DOMAIN timers' : t \in DOMAIN timers
    BY DEF ConnInv, ConnTypes
  <1>4. reference' # "none" => \A b \in as \cup {e} : ~b.asked
    BY <1>1 DEF ConnInv, Asked
  <1>5. Tries(as \cup {e}, timers', socket')
    BY DEF Tries
  <1>6. attempts' = as \cup {e}
    BY DEF e
  <1>7. /\ entry' \in {entry, "removed"} /\ (entry' = "none" => reference' = reference)
        /\ reference' \in {"none", "held"} => reference \in {"none", "held"}
    OBVIOUS
  <1>8. QED
    BY <1>1, <1>3, <1>4, <1>5, <1>6, <1>7, KeptStep

LEMMA ConnectSucceedsStep ==
    ASSUME ConnInv, NEW a \in attempts, Connection!ConnectSucceeds(a)
    PROVE  ConnInv'
  <1>1. UNCHANGED <<settings, entry, sequence, overtaken>>
    BY DEF Connection!ConnectSucceeds, Connection!entryVars
  <1>2. CASE Connection!Opened(a)
    <2> DEFINE as == Mapped(attempts \ {a}, "abandoned")
    <2>1. /\ a.seq # 0 /\ From(attempts \ {a}) /\ \A b \in attempts \ {a} : b.seq # a.seq
      BY OneAttempt
    <2>2. /\ attempts' = as \cup {[a EXCEPT !.stage = "accepting"]} /\ socket' = a.seq
          /\ UNCHANGED <<timers, reference>>
      BY <1>2 DEF Connection!Opened, Connection!Discarded, Mapped
    <2>3. /\ From(as) /\ \A b \in as : \E c \in attempts \ {a} : c.seq = b.seq /\ c.asked = b.asked
          /\ \A b \in attempts \ {a} : b.stage = "connecting" => b \in as
      <3>1. "abandoned" \in Stages /\ "abandoned" # "connecting"
        BY DEF Stages
      <3>2. QED
        BY <2>1, <3>1, FromMapped
    <2> HIDE DEF as
    <2>4. \A b \in as : b.seq # a.seq
      BY <2>1, <2>3
    <2>5. \A b \in as : \E c \in attempts : c.seq = b.seq /\ c.asked = b.asked
      BY <2>3
    <2>6. "accepting" \in Stages
      BY DEF Stages
    <2>7. QED
      BY <1>1, <2>1, <2>2, <2>3, <2>4, <2>5, <2>6, FurtherStep
  <1>3. CASE Connection!Stale(a) /\ Connection!GivesUp(a)
    BY <1>1, <1>3, EndsStep
  <1>4. QED
    BY <1>2, <1>3 DEF Connection!ConnectSucceeds

LEMMA AcceptedStep ==
    ASSUME ConnInv, NEW a \in attempts, Connection!Accepted(a)
    PROVE  ConnInv'
  <1>1. /\ UNCHANGED <<settings, entry, sequence, overtaken>> /\ a.stage = "accepting"
    BY DEF Connection!Accepted, Connection!entryVars
  <1>2. CASE Connection!GivesUp(a)
    BY <1>1, <1>2, EndsStep
  <1>3. CASE ~Connection!Stale(a) /\ Connection!ReportError(a)
    <2>1. a.seq = sequence
      BY <1>3 DEF Connection!Stale
    <2>2. CASE a.first /\ Connection!Answer(a, "result") /\ Connection!ScheduleReconnect(a.seq, a.retry, TRUE, attempts \ {a})
      BY <1>1, <2>1, <2>2, ReportStep
    <2>3. QED
      BY <1>2, <1>3, <2>2 DEF Connection!ReportError
  <1>4. CASE socket # 0 /\ Connection!AwaitsIdentify(a)
    <2>1. PICK s \in Stages : attempts' = (attempts \ {a}) \cup {[a EXCEPT !.stage = s]}
      BY <1>4 DEF Connection!AwaitsIdentify, Stages
    <2>2. UNCHANGED <<timers, socket, reference>>
      BY <1>4 DEF Connection!AwaitsIdentify
    <2> DEFINE as == attempts \ {a}
    <2>3. From(as) /\ \A b \in as : b.seq # a.seq
      BY OneAttempt
    <2>4. /\ \A b \in as : b \in attempts
          /\ \A b \in attempts \ {a} : b \in as
      OBVIOUS
    <2>5. attempts' = as \cup {[a EXCEPT !.stage = s]}
      BY <2>1
    <2> HIDE DEF as
    <2>6. /\ \A b \in as : \E c \in attempts : c.seq = b.seq /\ c.asked = b.asked
          /\ \A b \in attempts \ {a} : b.stage = "connecting" => b \in as
      BY <2>4
    <2>7. QED
      BY <1>1, <1>4, <2>2, <2>3, <2>5, <2>6, FurtherStep
  <1>5. QED
    BY <1>2, <1>3, <1>4 DEF Connection!Accepted

LEMMA IdentifiedStep ==
    ASSUME ConnInv, NEW a \in attempts, Connection!Identified(a)
    PROVE  ConnInv'
  <1>1. /\ UNCHANGED <<settings, entry, sequence, overtaken>> /\ a.stage \in {"identified", "abandoned"}
    BY DEF Connection!Identified, Connection!entryVars
  <1>2. CASE Connection!GivesUp(a)
    BY <1>1, <1>2, EndsStep
  <1>3. CASE ~Connection!Stale(a) /\ Connection!ReportError(a)
    <2>1. a.seq = sequence
      BY <1>3 DEF Connection!Stale
    <2>2. CASE a.first /\ Connection!Answer(a, "result") /\ Connection!ScheduleReconnect(a.seq, a.retry, TRUE, attempts \ {a})
      BY <1>1, <2>1, <2>2, ReportStep
    <2>3. QED
      BY <1>2, <1>3, <2>2 DEF Connection!ReportError
  <1>4. CASE /\ ~Connection!Stale(a) /\ Connection!Answer(a, "result") /\ attempts' = attempts \ {a}
             /\ UNCHANGED <<timers, socket>>
    <2>1. a.seq = sequence
      BY <1>4 DEF Connection!Stale
    <2>2. reference' = reference \/ (a.asked /\ reference' = "held")
      BY <1>4 DEF Connection!Answer
    <2>3. QED
      BY <1>1, <1>4, <2>1, <2>2, GivesUpStep
  <1>5. QED
    BY <1>2, <1>3, <1>4 DEF Connection!Identified

LEMMA ReceiveIdentifyStep ==
    ASSUME ConnInv, Connection!ReceiveIdentify
    PROVE  ConnInv'
  <1> DEFINE as == Mapped(attempts, "identified")
  <1>1. attempts' = as /\ UNCHANGED <<settings, entry, sequence, timers, socket, reference, overtaken>> /\ socket # 0
    BY DEF Connection!ReceiveIdentify, Connection!entryVars, Mapped
  <1>2. "identified" \in Stages /\ "identified" # "connecting"
    BY DEF Stages
  <1>3. From(attempts)
    BY FromSome
  <1>4. /\ From(as) /\ \A b \in as : \E c \in attempts : c.seq = b.seq /\ c.asked = b.asked
        /\ \A b \in attempts : b.stage = "connecting" => b \in as
    BY <1>2, <1>3, FromMapped
  <1> HIDE DEF as
  <1>5. entry' \in {entry, "removed"}
    BY <1>1
  <1>6. QED
    BY <1>1, <1>4, <1>5, QuietStep

\* The connection is reset and opened again later.
LEMMA ResetStep ==
    ASSUME ConnInv, NEW keepHost, Connection!ScheduleReconnect(sequence, TRUE, keepHost, attempts),
           UNCHANGED <<settings, entry, sequence, reference, overtaken>>
    PROVE  ConnInv'
  <1>1. From(attempts)
    BY FromSome
  <1>2. sequence \in Nat /\ overtaken' \in BOOLEAN
    BY DEF ConnInv, ConnTypes
  <1>3. reference' # "none" => \A a \in attempts : ~a.asked
    BY DEF ConnInv, Asked
  <1>4. QED
    BY <1>1, <1>2, <1>3, ScheduleStep

\* The connection is reset for good.
LEMMA DiscardStep ==
    ASSUME ConnInv, attempts' = Mapped(attempts, "abandoned"), UNCHANGED <<settings, sequence, overtaken, timers>>,
           entry' \in {entry, "removed"}, entry' # "listed" \/ ~settings.retry,
           reference' = reference \/ (reference = "held" /\ reference' \notin {"none", "held"})
    PROVE  ConnInv'
  <1> DEFINE as == Mapped(attempts, "abandoned")
  <1>1. "abandoned" \in Stages /\ "abandoned" # "connecting"
    BY DEF Stages
  <1>2. From(attempts)
    BY FromSome
  <1>3. /\ From(as) /\ \A b \in as : \E c \in attempts : c.seq = b.seq /\ c.asked = b.asked
    BY <1>1, <1>2, FromMapped
  <1>4. attempts' = as
    OBVIOUS
  <1> HIDE DEF as
  <1>5. overtaken' \in BOOLEAN /\ \A t \in DOMAIN timers' : t \in DOMAIN timers
    BY DEF ConnInv, ConnTypes
  <1>6. reference' # "none" => \A b \in as : ~b.asked
    BY <1>3 DEF ConnInv, Asked
  <1>7. entry' = "none" => reference' = reference
    BY DEF ConnInv, Asked
  <1>8. reference' \in {"none", "held"} => reference \in {"none", "held"}
    OBVIOUS
  <1>9. QED
    BY <1>3, <1>4, <1>5, <1>6, <1>7, <1>8, KeptStep

LEMMA DestroyStep ==
    ASSUME ConnInv, Connection!DestroyClientConnection, overtaken' = overtaken,
           reference' = reference \/ (reference = "held" /\ reference' \notin {"none", "held"})
    PROVE  ConnInv'
  <1>1. attempts' = Mapped(attempts, "abandoned") /\ entry' = "removed" /\ UNCHANGED <<settings, sequence, timers>>
    BY DEF Connection!DestroyClientConnection, Connection!Reset, Connection!Discarded, Mapped
  <1>2. QED
    BY <1>1, DiscardStep

LEMMA OnInvalidConnectionStep ==
    ASSUME ConnInv, Connection!OnInvalidConnection
    PROVE  ConnInv'
  <1>1. UNCHANGED <<settings, entry, sequence, reference, overtaken>> /\ socket # 0
    BY DEF Connection!OnInvalidConnection, Connection!entryVars
  <1>3. CASE settings.retry /\ Connection!ScheduleReconnect(sequence, TRUE, TRUE, attempts)
    BY <1>1, <1>3, ResetStep
  <1>4. CASE ~settings.retry /\ Connection!Reset(FALSE, attempts) /\ UNCHANGED timers
    <2>1. attempts' = Mapped(attempts, "abandoned") /\ UNCHANGED timers
      BY <1>4 DEF Connection!Reset, Connection!Discarded, Mapped
    <2>2. QED
      BY <1>1, <1>4, <2>1, DiscardStep
  <1>5. QED
    BY <1>3, <1>4 DEF Connection!OnInvalidConnection

\* What is unchanged leaves the invariant alone.
LEMMA SameStep ==
    ASSUME ConnInv, UNCHANGED <<settings, entry, sequence, attempts, timers, overtaken>>,
           reference' = reference \/ (reference = "held" /\ reference' \notin {"none", "held"}),
           socket' = socket \/ entry # "listed"
    PROVE  ConnInv'
  <1>1. From(attempts)
    BY FromSome
  <1> DEFINE as == attempts
  <1>2. From(as) /\ attempts' = as
    BY <1>1
  <1>3. /\ \A b \in as : \E c \in attempts : c.seq = b.seq /\ c.asked = b.asked
        /\ \A b \in attempts : b.stage = "connecting" => b \in as
    OBVIOUS
  <1> HIDE DEF as
  <1>4. entry' \in {entry, "removed"} /\ (socket' = socket \/ socket' # 0 \/ entry' # "listed")
    OBVIOUS
  <1>5. QED
    BY <1>2, <1>3, <1>4, QuietStep

LEMMA OnCloseStep ==
    ASSUME ConnInv, Connection!OnClose
    PROVE  ConnInv'
  <1>1. UNCHANGED <<reference, overtaken>>
    BY DEF Connection!OnClose
  <1>2. CASE UNCHANGED <<Connection!entryVars, attempts, timers, socket, identify, host>>
    BY <1>1, <1>2, SameStep DEF Connection!entryVars
  <1>3. CASE Connection!DestroyClientConnection
    BY <1>1, <1>3, DestroyStep
  <1>4. ASSUME NEW keepHost \in BOOLEAN, open = sequence,
               Connection!ScheduleReconnect(open, TRUE, keepHost, attempts), UNCHANGED Connection!entryVars
        PROVE  ConnInv'
    BY <1>1, <1>4, ResetStep DEF Connection!entryVars
  <1>5. QED
    BY <1>2, <1>3, <1>4 DEF Connection!OnClose

LEMMA TimerFiresStep ==
    ASSUME ConnInv, NEW t \in DOMAIN timers, Connection!TimerFires(t)
    PROVE  ConnInv'
  <1>1. UNCHANGED <<settings, entry, socket, reference, overtaken>> /\ timers' = Connection!BagRemove(timers, t)
    BY DEF Connection!TimerFires
  <1>2. DOMAIN timers' \subseteq DOMAIN timers /\ DOMAIN timers \ {t} \subseteq DOMAIN timers'
    BY <1>1, TimerSets
  <1>3. From(attempts)
    BY FromSome
  <1>4. t.retry \in BOOLEAN /\ (settings.retry => t.retry)
    BY DEF ConnInv, ConnTypes
  <1>5. CASE entry = "listed" /\ Connection!Reconnect(FALSE, t.retry, t.retry, attempts)
    <2>1. settings.retry => t.retry /\ (settings.first => t.retry) /\ (reference' \in {"none", "held"} => FALSE \/ t.retry)
      BY <1>4
    <2>2. reference' # "none" => ~FALSE /\ \A a \in attempts : ~a.asked
      BY <1>1 DEF ConnInv, Asked
    <2>3. QED
      BY <1>1, <1>2, <1>3, <1>4, <1>5, <2>1, <2>2, ReconnectStep
  <1>6. CASE ~(entry = "listed" /\ t.seq = sequence) /\ UNCHANGED <<sequence, attempts>>
    <2> DEFINE as == attempts
    <2>1. From(as) /\ attempts' = as /\ \A u \in DOMAIN timers' : u \in DOMAIN timers
      BY <1>2, <1>3, <1>6
    <2>2. overtaken' \in BOOLEAN /\ (reference' # "none" => \A a \in as : ~a.asked)
      BY <1>1 DEF ConnInv, ConnTypes, Asked
    <2> HIDE DEF as
    <2>3. ASSUME entry' = "listed", settings.retry, ~overtaken'
          PROVE  \/ Tries(as, timers', socket')
                 \/ ~settings.first /\ reference' # "held" /\ \A b \in as : b.seq = sequence => ~b.asked
      <3>1. Tries(as, timers, socket) \/ GaveUp(as)
        BY <1>1, <2>3 DEF ConnInv, as
      <3>2. \A u \in DOMAIN timers : u.seq = sequence => u \in DOMAIN timers'
        BY <1>1, <1>2, <1>6, <2>3
      <3>3. QED
        BY <1>1, <3>1, <3>2 DEF Tries, GaveUp
    <2>4. QED
      BY <1>1, <1>6, <2>1, <2>2, <2>3, KeptStep
  <1>7. QED
    BY <1>5, <1>6 DEF Connection!TimerFires

LEMMA ManualReconnectStep ==
    ASSUME ConnInv, Connection!ManualReconnect
    PROVE  ConnInv'
  <1>1. /\ UNCHANGED <<settings, entry, timers, overtaken>> /\ reference = "held" /\ reference' = "reconnected"
    BY DEF Connection!ManualReconnect
  <1>2. CASE entry = "listed" /\ Connection!Reconnect(FALSE, settings.retry, settings.first, Connection!Discarded(attempts))
    <2> DEFINE as == Mapped(attempts, "abandoned")
    <2>1. Connection!Reconnect(FALSE, settings.retry, settings.first, as)
      BY <1>2 DEF Connection!Discarded, Mapped
    <2>2. "abandoned" \in Stages
      BY DEF Stages
    <2>3. From(attempts)
      BY FromSome
    <2>4. /\ From(as) /\ \A b \in as : \E c \in attempts : c.seq = b.seq /\ c.asked = b.asked
      BY <2>2, <2>3, FromMapped
    <2> HIDE DEF as
    <2>5. settings.retry \in BOOLEAN /\ settings.first \in BOOLEAN /\ \A b \in as : ~b.asked
      BY <1>1, <2>4 DEF ConnInv, ConnTypes, Asked
    <2>6. QED
      BY <1>1, <1>2, <2>1, <2>4, <2>5, ReconnectStep
  <1>3. CASE entry # "listed" /\ UNCHANGED <<sequence, attempts, socket>>
    BY <1>1, <1>3, SameStep
  <1>4. QED
    BY <1>2, <1>3 DEF Connection!ManualReconnect

LEMMA RemoveConnectionStep ==
    ASSUME ConnInv, Connection!RemoveConnection
    PROVE  ConnInv'
  <1>1. reference = "held" /\ reference' = "disconnected" /\ overtaken' = overtaken
    BY DEF Connection!RemoveConnection
  <1>2. CASE Connection!DestroyClientConnection
    BY <1>1, <1>2, DestroyStep
  <1>3. CASE UNCHANGED <<Connection!entryVars, attempts, timers, socket>>
    BY <1>1, <1>3, SameStep DEF Connection!entryVars
  <1>4. QED
    BY <1>2, <1>3 DEF Connection!RemoveConnection

LEMMA ResetHostStateStep ==
    ASSUME ConnInv, Connection!ResetHostState
    PROVE  ConnInv'
  <1>1. UNCHANGED <<reference, overtaken>>
    BY DEF Connection!ResetHostState
  <1>2. CASE Connection!DestroyClientConnection
    BY <1>1, <1>2, DestroyStep
  <1>3. CASE Connection!ScheduleReconnect(sequence, TRUE, FALSE, attempts) /\ UNCHANGED Connection!entryVars
    BY <1>1, <1>3, ResetStep DEF Connection!entryVars
  <1>4. QED
    BY <1>2, <1>3 DEF Connection!ResetHostState

\* The invariant that makes KeepsTrying inductive: numbers of attempts, what is
\* left of the settings in attempts and timers, and who may still try.
THEOREM ConnectionInvariance == Spec => []ConnInv
  <1>1. Init => ConnInv
    <2>1. DOMAIN Connection!EmptyBag = {}
      BY DEF Connection!EmptyBag, Connection!SetToBag
    <2>2. SUFFICES ASSUME Init
                   PROVE  ConnInv
      OBVIOUS
    <2>3. settings \in [anonymous : BOOLEAN, retry : BOOLEAN, first : BOOLEAN]
      BY <2>2 DEF Init, Connection!Init, Connection!Settings
    <2>4. Connection!Init
      BY <2>2 DEF Init
    <2>7. timers = Connection!EmptyBag
      BY <2>4 DEF Connection!Init
    <2>8. DOMAIN timers = {}
      BY <2>1, <2>7
    <2>9. /\ entry = "none" /\ sequence = 0 /\ attempts = {} /\ reference = "none" /\ overtaken = FALSE
      BY <2>4 DEF Connection!Init
    <2>5. settings.retry \in BOOLEAN /\ settings.first \in BOOLEAN
      BY <2>3
    <2>6. QED
      BY <2>5, <2>8, <2>9 DEF ConnInv, ConnTypes, OneEach, Asked, AsSet
  <1>2. ASSUME ConnInv, Connection!Next
        PROVE  ConnInv'
    <2>1. ASSUME NEW a \in attempts,
                 Connection!ConnectFails(a) \/ Connection!ConnectSucceeds(a)
                 \/ Connection!Accepted(a) \/ Connection!Identified(a)
          PROVE  ConnInv'
      BY <1>2, <2>1, ConnectFailsStep, ConnectSucceedsStep, AcceptedStep, IdentifiedStep
    <2>2. CASE Connection!ReceiveIdentify
      BY <1>2, <2>2, ReceiveIdentifyStep
    <2>3. ASSUME NEW t \in DOMAIN timers, Connection!TimerFires(t)
          PROVE  ConnInv'
      BY <1>2, <2>3, TimerFiresStep
    <2>4. CASE Connection!Connect
      BY <1>2, <2>4, ConnectStep
    <2>5. CASE Connection!ManualReconnect
      BY <1>2, <2>5, ManualReconnectStep
    <2>6. CASE Connection!RemoveConnection
      BY <1>2, <2>6, RemoveConnectionStep
    <2>7. CASE Connection!OnInvalidConnection
      BY <1>2, <2>7, OnInvalidConnectionStep
    <2>8. CASE Connection!ResetHostState
      BY <1>2, <2>8, ResetHostStateStep
    <2>9. CASE Connection!OnClose
      BY <1>2, <2>9, OnCloseStep
    <2>10. QED
      BY <1>2, <2>1, <2>2, <2>3, <2>4, <2>5, <2>6, <2>7, <2>8, <2>9 DEF Connection!Next, Connection!Progress
  <1>3. ASSUME ConnInv, UNCHANGED connectionVars
        PROVE  ConnInv'
    <2>1. UNCHANGED <<settings, entry, sequence, attempts, timers, overtaken, socket, reference>>
      BY <1>3 DEF connectionVars
    <2>2. QED
      BY <1>3, <2>1, SameStep
  <1>4. [Next]_vars => Connection!Next \/ UNCHANGED connectionVars
    BY DEF Next, Only, vars
  <1>5. ConnInv /\ [Next]_vars => ConnInv'
    BY <1>2, <1>3, <1>4
  <1>6. QED
    BY <1>1, <1>5, PTL DEF Spec

\* A connection made to be opened again on failure is never left without a
\* socket, an attempt to open one or a timer that starts one, for every number
\* of attempts, resets and timers (fp_ScheduleReconnect, f_Reconnect).
THEOREM ConnectionsKeepTrying == Spec => []KeepsTrying
  <1>1. ConnInv => KeepsTrying
    BY DEF ConnInv, GaveUp, Tries, KeepsTrying, Connection!KeepsTrying
  <1>2. QED
    BY <1>1, ConnectionInvariance, PTL

----------------------------------------------------------------------------
(* Remote calls.  What is queued to the caller's distribution manager is     *)
(* R == Remote!Range(posts); its order matters for one call only.            *)

Queued == Remote!Range(posts)
Queues(q, c, k) == \E p \in Remote!Range(q) : p.for = c /\ p.kind = k
Kinds == {"call", "destroySubscription", "value", "error", "subscriptionDestroyed",
          "register", "cleanup", "destroy"}
Message == [kind : Kinds, for : RemoteCallers]

CallTypes ==
    /\ cSession \in Nat /\ sSession \in Nat
    /\ toS \in Seq(Message) /\ toC \in Seq(Message) /\ posts \in Seq(Message)
    /\ calls \in [RemoteCallers -> {"new", "outstanding", "value", "error"}]
    /\ made \in [RemoteCallers -> Nat] /\ running \in [RemoteCallers -> Nat]
    /\ user \in [RemoteCallers -> {"none", "held", "destroying", "destroyed"}]
    /\ functors \subseteq RemoteCallers /\ sSubs \subseteq RemoteCallers

\* One message of a call owns its functor, and what registers a subscription is
\* in front of what destroys it.
InOrder(q) ==
    \A i, j \in DOMAIN q :
        q[i].for = q[j].for /\ q[i].kind # "destroy" =>
            IF q[j].kind # "destroy" THEN i = j ELSE q[i].kind = "register" => i < j

\* What a message that is queued tells of its call.
Says(p) ==
    /\ calls[p.for] \in {"value", "error"}
    /\ p.kind \in {"value", "error", "register", "cleanup", "destroy"}
    /\ p.kind # "destroy" => p.for \notin refs
    /\ p.kind \in {"value", "error"} => user[p.for] = "none"
    /\ p.kind = "register" => user[p.for] \in {"held", "destroying"}
    /\ p.kind = "destroy" => user[p.for] \in {"destroying", "destroyed"}

OfCall(c) ==
    /\ made[c] <= cSession
    /\ calls[c] \in {"new", "outstanding"} => user[c] = "none" /\ c \notin refs
    /\ calls[c] = "outstanding" => made[c] = cSession
    /\ c \in refs => made[c] = cSession
    /\ c \in pending => c \in refs
    /\ user[c] = "destroying" => c \in pending \/ Queues(posts, c, "destroy")

Owned(c) ==
    c \in functors <=>
        \/ calls[c] = "outstanding"
        \/ \E p \in Queued : p.for = c /\ p.kind # "destroy" /\ made[c] = cSession
        \/ c \in refs /\ c \notin pending /\ user[c] \in {"held", "destroying"}

\* A host that dropped the session has nothing of the other until that follows.
Dropped ==
    /\ \A c \in RemoteCallers : running[c] <= sSession
    /\ cSession < sSession => sSubs = {} /\ \A c \in RemoteCallers : running[c] # sSession

\* On its way, read, registered, being destroyed or on its way back.
Kept(c) ==
    \/ Queues(toC, c, "value") \/ Queues(toS, c, "destroySubscription")
    \/ made[c] = cSession /\ (Queues(posts, c, "value") \/ Queues(posts, c, "register"))
    \/ c \in refs /\ c \notin pending /\ (user[c] = "held" \/ Queues(posts, c, "destroy"))

CallInv ==
    /\ CallTypes /\ InOrder(posts) /\ \A p \in Queued : Says(p)
    /\ \A c \in RemoteCallers : OfCall(c) /\ Owned(c)
    /\ Dropped
    /\ cSession = sSession => \A c \in sSubs : Kept(c)

\* What is in a queue when its head was taken, and when a message was added.
LEMMA InQueue ==
    ASSUME NEW q \in Seq(Message)
    PROVE  Remote!Range(q) \subseteq Message
  BY DEF Remote!Range

LEMMA Popped ==
    ASSUME NEW q \in Seq(Message), q # <<>>
    PROVE  /\ Tail(q) \in Seq(Message) /\ Head(q) \in Message /\ Head(q) \in Remote!Range(q)
           /\ Remote!Range(Tail(q)) \subseteq Remote!Range(q)
           /\ \A p \in Remote!Range(q) : p = Head(q) \/ p \in Remote!Range(Tail(q))
           /\ InOrder(q) => InOrder(Tail(q))
           /\ InOrder(q) /\ Head(q).kind # "destroy" =>
                 \A p \in Remote!Range(Tail(q)) : p.for = Head(q).for => p.kind = "destroy"
           /\ InOrder(q) /\ Head(q).kind = "destroy" =>
                 \A p \in Remote!Range(q) : p.for = Head(q).for => p.kind # "register"
  <1>1. /\ Len(q) \in Nat /\ 1 <= Len(q) /\ DOMAIN q = 1..Len(q) /\ Head(q) = q[1] /\ 1 \in DOMAIN q
        /\ Tail(q) \in Seq(Message) /\ Head(q) \in Message /\ DOMAIN Tail(q) = 1..(Len(q) - 1)
    OBVIOUS
  <1>2. \A i \in DOMAIN Tail(q) : i \in Nat \ {0} /\ i + 1 \in DOMAIN q /\ i + 1 # 1 /\ Tail(q)[i] = q[i + 1]
    BY <1>1
  <1>3. \A i \in DOMAIN q : i # 1 => i - 1 \in DOMAIN Tail(q) /\ Tail(q)[i - 1] = q[i] /\ i \in Nat
    BY <1>1
  <1>4. Remote!Range(Tail(q)) \subseteq Remote!Range(q) /\ Head(q) \in Remote!Range(q)
    BY <1>1, <1>2 DEF Remote!Range
  <1>5. \A p \in Remote!Range(q) : p = Head(q) \/ p \in Remote!Range(Tail(q))
    BY <1>1, <1>3 DEF Remote!Range
  <1>6. ASSUME InOrder(q)
        PROVE  InOrder(Tail(q))
    <2>1. ASSUME NEW i \in DOMAIN Tail(q), NEW j \in DOMAIN Tail(q), Tail(q)[i].for = Tail(q)[j].for,
                 Tail(q)[i].kind # "destroy"
          PROVE  IF Tail(q)[j].kind # "destroy" THEN i = j ELSE Tail(q)[i].kind = "register" => i < j
      <3>1. /\ Tail(q)[i] = q[i + 1] /\ Tail(q)[j] = q[j + 1] /\ i + 1 \in DOMAIN q /\ j + 1 \in DOMAIN q
            /\ i \in Nat /\ j \in Nat
        BY <1>2
      <3>2. IF q[j + 1].kind # "destroy" THEN i + 1 = j + 1 ELSE q[i + 1].kind = "register" => i + 1 < j + 1
        BY <1>6, <2>1, <3>1 DEF InOrder
      <3>3. QED
        BY <3>1, <3>2
    <2>2. QED
      BY <2>1 DEF InOrder
  <1>7. ASSUME InOrder(q), Head(q).kind # "destroy", NEW p \in Remote!Range(Tail(q)), p.for = Head(q).for
        PROVE  p.kind = "destroy"
    <2>1. PICK i \in DOMAIN Tail(q) : p = q[i + 1] /\ i + 1 \in DOMAIN q /\ i + 1 # 1
      BY <1>2 DEF Remote!Range
    <2>2. QED
      BY <1>1, <1>7, <2>1 DEF InOrder
  <1>8. ASSUME InOrder(q), Head(q).kind = "destroy", NEW p \in Remote!Range(q), p.for = Head(q).for
        PROVE  p.kind # "register"
    <2>1. PICK i \in DOMAIN q : p = q[i]
      BY DEF Remote!Range
    <2>2. i \in 1..Len(q) /\ ~(i < 1)
      BY <1>1
    <2>3. QED
      BY <1>1, <1>8, <2>1, <2>2 DEF InOrder
  <1>9. QED
    BY <1>1, <1>4, <1>5, <1>6, <1>7, <1>8

LEMMA Added ==
    ASSUME NEW q \in Seq(Message), NEW p \in Message
    PROVE  /\ Append(q, p) \in Seq(Message)
           /\ Remote!Range(Append(q, p)) = Remote!Range(q) \cup {p}
           /\ /\ InOrder(q)
              /\ \A r \in Remote!Range(q) : r.for = p.for =>
                    /\ p.kind # "destroy" => r.kind = "destroy"
                    /\ p.kind = "register" => r.kind # "destroy"
              => InOrder(Append(q, p))
  <1>1. /\ Append(q, p) \in Seq(Message) /\ Len(q) \in Nat /\ DOMAIN q = 1..Len(q)
        /\ DOMAIN Append(q, p) = 1..(Len(q) + 1) /\ Append(q, p)[Len(q) + 1] = p
        /\ \A i \in DOMAIN q : Append(q, p)[i] = q[i]
    OBVIOUS
  <1>2. \A i \in DOMAIN Append(q, p) : i = Len(q) + 1 \/ (i \in DOMAIN q /\ i < Len(q) + 1 /\ i # Len(q) + 1)
    BY <1>1
  <1>3. \A i \in DOMAIN q : i \in DOMAIN Append(q, p)
    BY <1>1
  <1>4. Len(q) + 1 \in DOMAIN Append(q, p)
    BY <1>1
  <1>5. Remote!Range(Append(q, p)) = Remote!Range(q) \cup {p}
    BY <1>1, <1>2, <1>3, <1>4 DEF Remote!Range
  <1>6. ASSUME InOrder(q),
               \A r \in Remote!Range(q) : r.for = p.for =>
                    /\ p.kind # "destroy" => r.kind = "destroy"
                    /\ p.kind = "register" => r.kind # "destroy"
        PROVE  InOrder(Append(q, p))
    <2> DEFINE s == Append(q, p)
    <2>1. \A i \in DOMAIN q : q[i] \in Remote!Range(q)
      BY DEF Remote!Range
    <2>2. ASSUME NEW i \in DOMAIN s, NEW j \in DOMAIN s, s[i].for = s[j].for, s[i].kind # "destroy"
          PROVE  IF s[j].kind # "destroy" THEN i = j ELSE s[i].kind = "register" => i < j
      <3>1. CASE i \in DOMAIN q /\ j \in DOMAIN q
        BY <1>1, <1>6, <2>2, <3>1 DEF InOrder
      <3>2. CASE i = Len(q) + 1 /\ j \in DOMAIN q
        BY <1>1, <1>6, <2>1, <2>2, <3>2
      <3>3. CASE i \in DOMAIN q /\ j = Len(q) + 1
        BY <1>1, <1>2, <1>6, <2>1, <2>2, <3>3
      <3>4. CASE i = Len(q) + 1 /\ j = Len(q) + 1
        BY <1>1, <2>2, <3>4
      <3>5. QED
        BY <1>2, <3>1, <3>2, <3>3, <3>4
    <2>3. QED
      BY <2>2 DEF InOrder
  <1>7. QED
    BY <1>1, <1>5, <1>6

\* A call that a step does not touch.
LEMMA Others ==
    ASSUME NEW d \in RemoteCallers, cSession' = cSession,
           calls'[d] = calls[d], made'[d] = made[d], user'[d] = user[d],
           d \in refs' <=> d \in refs, d \in pending' <=> d \in pending, d \in functors' <=> d \in functors,
           \A p : p.for = d => (p \in Remote!Range(posts') <=> p \in Remote!Range(posts))
    PROVE  /\ OfCall(d) => OfCall(d)'
           /\ Owned(d) => Owned(d)'
           /\ (\A p \in Remote!Range(toC) : p.for = d /\ p.kind = "value" => p \in Remote!Range(toC'))
              /\ (\A p \in Remote!Range(toS) : p.for = d /\ p.kind = "destroySubscription" => p \in Remote!Range(toS'))
              => (Kept(d) => Kept(d)')
  <1>1. \A k : Queues(posts, d, k) <=> Queues(posts, d, k)'
    BY DEF Queues
  <1>2. OfCall(d) => OfCall(d)'
    BY <1>1 DEF OfCall
  <1>3. Owned(d) => Owned(d)'
    BY DEF Owned, Queued
  <1>4. ASSUME \A p \in Remote!Range(toC) : p.for = d /\ p.kind = "value" => p \in Remote!Range(toC'),
               \A p \in Remote!Range(toS) : p.for = d /\ p.kind = "destroySubscription" => p \in Remote!Range(toS'),
               Kept(d)
        PROVE  Kept(d)'
    <2>1. /\ Queues(toC, d, "value") => Queues(toC, d, "value")'
          /\ Queues(toS, d, "destroySubscription") => Queues(toS, d, "destroySubscription")'
      BY <1>4 DEF Queues
    <2>2. QED
      BY <1>1, <1>4, <2>1 DEF Kept
  <1>5. QED
    BY <1>2, <1>3, <1>4

\* What the invariant says, in parts.
LEMMA Parts ==
    ASSUME CallInv
    PROVE  /\ CallTypes /\ InOrder(posts) /\ Dropped /\ Queued \subseteq Message
           /\ \A p \in Queued : Says(p)
           /\ \A c \in RemoteCallers : OfCall(c) /\ Owned(c)
           /\ cSession = sSession => \A c \in sSubs : Kept(c)
           /\ sSubs \subseteq RemoteCallers
  BY InQueue DEF CallInv, CallTypes, Queued

LEMMA CallRemoteStep ==
    ASSUME CallInv, NEW c \in RemoteCallers, Remote!CallRemote(c)
    PROVE  CallInv'
  <1> DEFINE m == [kind |-> "call", for |-> c]
  <1>1. /\ CallTypes /\ InOrder(posts) /\ Dropped /\ Queued \subseteq Message
        /\ \A p \in Queued : Says(p)
        /\ \A d \in RemoteCallers : OfCall(d) /\ Owned(d)
        /\ cSession = sSession => \A d \in sSubs : Kept(d)
        /\ sSubs \subseteq RemoteCallers
    BY Parts
  <1>2. /\ calls[c] = "new" /\ UNCHANGED <<cSession, sSession, toC, refs, pending, posts, user, running, sSubs>>
        /\ calls' = [calls EXCEPT ![c] = "outstanding"] /\ made' = [made EXCEPT ![c] = cSession]
        /\ functors' = functors \cup {c} /\ toS' = Append(toS, m)
    BY DEF Remote!CallRemote, Remote!P, Remote!calleeVars
  <1>3. m \in Message
    BY DEF Message, Kinds
  <1> HIDE DEF m
  <1>4. toS' \in Seq(Message) /\ Remote!Range(toS') = Remote!Range(toS) \cup {m}
    BY <1>1, <1>2, <1>3, Added DEF CallTypes
  <1>5. CallTypes'
    BY <1>1, <1>2, <1>4 DEF CallTypes
  <1>6. \A p \in Queued : p.for # c /\ p.for \in RemoteCallers
    BY <1>1, <1>2 DEF Says, Message
  <1>7. \A d \in RemoteCallers : d # c => calls'[d] = calls[d] /\ made'[d] = made[d]
    BY <1>1, <1>2 DEF CallTypes
  <1>8. calls'[c] = "outstanding" /\ made'[c] = cSession
    BY <1>1, <1>2 DEF CallTypes
  <1>9. (\A p \in Queued : Says(p))'
    BY <1>1, <1>2, <1>6, <1>7 DEF Says, Queued
  <1>10. ASSUME NEW d \in RemoteCallers, d # c
         PROVE  OfCall(d)' /\ Owned(d)' /\ (Kept(d) => Kept(d)')
    BY <1>1, <1>2, <1>4, <1>7, <1>10, Others
  <1>11. OfCall(c)' /\ Owned(c)'
    <2>1. user[c] = "none" /\ c \notin refs
      BY <1>1, <1>2 DEF OfCall
    <2>2. c \notin pending
      BY <1>1, <2>1 DEF OfCall
    <2>3. Owned(c)'
      BY <1>2, <1>8 DEF Owned
    <2>4. OfCall(c)'
      BY <1>1, <1>2, <1>8, <2>1, <2>2 DEF OfCall, CallTypes
    <2>5. QED
      BY <2>3, <2>4
  <1>12. Kept(c) => Kept(c)'
    <2>1. c \notin refs
      BY <1>1, <1>2 DEF OfCall
    <2>2. \A k : ~Queues(posts, c, k)
      BY <1>6 DEF Queues, Queued
    <2>3. QED
      BY <1>2, <1>4, <2>1, <2>2 DEF Kept, Queues
  <1>13. QED
    BY <1>1, <1>2, <1>5, <1>9, <1>10, <1>11, <1>12 DEF CallInv, Dropped

LEMMA ApplyRemoteCallResultStep ==
    ASSUME CallInv, Remote!ApplyRemoteCallResult
    PROVE  CallInv'
  <1>1. /\ CallTypes /\ InOrder(posts) /\ Dropped /\ Queued \subseteq Message
        /\ \A p \in Queued : Says(p)
        /\ \A d \in RemoteCallers : OfCall(d) /\ Owned(d)
        /\ cSession = sSession => \A d \in sSubs : Kept(d)
        /\ sSubs \subseteq RemoteCallers
    BY Parts
  <1>0. toC # <<>>
    BY DEF Remote!ApplyRemoteCallResult
  <1>a. PICK c \in RemoteCallers : c = Head(toC).for
    BY <1>0, <1>1, Popped DEF CallTypes, Message
  <1>b. PICK m : m = [kind |-> Head(toC).kind, for |-> c]
    OBVIOUS
  <1>2. /\ calls[c] = "outstanding" /\ cSession = sSession /\ toC # <<>> /\ Head(toC).kind \in {"value", "error"}
        /\ UNCHANGED <<cSession, sSession, toS, made, functors, refs, pending, user, running, sSubs>>
        /\ calls' = [calls EXCEPT ![c] = Head(toC).kind] /\ toC' = Tail(toC) /\ posts' = Append(posts, m)
    BY <1>a, <1>b DEF Remote!ApplyRemoteCallResult, Remote!P, Remote!calleeVars, Remote!InSession
  <1>3. /\ toC' \in Seq(Message) /\ Head(toC) \in Message
        /\ \A p \in Remote!Range(toC) : p = Head(toC) \/ p \in Remote!Range(toC')
    BY <1>1, <1>2, Popped DEF CallTypes
  <1>4. m \in Message /\ m.kind = Head(toC).kind /\ m.for = c /\ c \in RemoteCallers
    BY <1>3, <1>b DEF Message
  <1>5. \A p \in Queued : p.for # c /\ p.for \in RemoteCallers
    BY <1>1, <1>2 DEF Says, Message
  <1>6. /\ posts' \in Seq(Message) /\ Remote!Range(posts') = Queued \cup {m} /\ InOrder(posts')
    BY <1>1, <1>2, <1>4, <1>5, Added DEF CallTypes, Queued
  <1>7. /\ calls'[c] = m.kind /\ \A d \in RemoteCallers : d # c => calls'[d] = calls[d]
        /\ made[c] = cSession /\ user[c] = "none" /\ c \notin refs /\ c \notin pending
    BY <1>1, <1>2, <1>4 DEF CallTypes, OfCall
  <1>8. CallTypes'
    BY <1>1, <1>2, <1>3, <1>4, <1>6 DEF CallTypes
  <1>9. (\A p \in Queued : Says(p))'
    BY <1>1, <1>2, <1>4, <1>5, <1>6, <1>7 DEF Says, Queued
  <1>10. ASSUME NEW d \in RemoteCallers, d # c
         PROVE  OfCall(d)' /\ Owned(d)' /\ (Kept(d) => Kept(d)')
    <2>1. \A p : p.for = d => (p \in Remote!Range(posts') <=> p \in Remote!Range(posts))
      BY <1>4, <1>6, <1>10 DEF Queued
    <2>2. \A p \in Remote!Range(toC) : p.for = d /\ p.kind = "value" => p \in Remote!Range(toC')
      BY <1>3, <1>10, <1>a
    <2>3. QED
      BY <1>1, <1>2, <1>7, <1>10, <2>1, <2>2, Others
  <1>11. OfCall(c)' /\ Owned(c)'
    <2>1. calls'[c] \in {"value", "error"}
      BY <1>2, <1>4, <1>7
    <2>2. OfCall(c)'
      BY <1>1, <1>2, <1>4, <1>7, <2>1 DEF OfCall
    <2>3. c \in functors
      BY <1>1, <1>2, <1>4 DEF Owned
    <2>4. \E p \in Queued' : p.for = c /\ p.kind # "destroy" /\ made'[c] = cSession'
      BY <1>2, <1>4, <1>6, <1>7 DEF Queued
    <2>5. QED
      BY <1>2, <2>2, <2>3, <2>4 DEF Owned
  <1>12. Kept(c) => Kept(c)'
    <2>1. \A k : ~Queues(posts, c, k)
      BY <1>5 DEF Queues, Queued
    <2>2. Queues(toC, c, "value") => Queues(toC, c, "value")' \/ m.kind = "value"
      BY <1>3, <1>4, <1>a DEF Queues
    <2>3. m.kind = "value" => Queues(posts, c, "value")'
      BY <1>4, <1>6 DEF Queues
    <2>4. Queues(toS, c, "destroySubscription") => Queues(toS, c, "destroySubscription")'
      BY <1>2 DEF Queues
    <2>5. QED
      BY <1>2, <1>7, <2>1, <2>2, <2>3, <2>4 DEF Kept
  <1>13. QED
    BY <1>1, <1>2, <1>6, <1>8, <1>9, <1>10, <1>11, <1>12 DEF CallInv, Dropped

LEMMA HandleSubscriptionDestroyedStep ==
    ASSUME CallInv, Remote!HandleSubscriptionDestroyed
    PROVE  CallInv'
  <1>1. /\ CallTypes /\ InOrder(posts) /\ Dropped /\ Queued \subseteq Message
        /\ \A p \in Queued : Says(p)
        /\ \A d \in RemoteCallers : OfCall(d) /\ Owned(d)
        /\ cSession = sSession => \A d \in sSubs : Kept(d)
        /\ sSubs \subseteq RemoteCallers
    BY Parts
  <1>0. toC # <<>>
    BY DEF Remote!HandleSubscriptionDestroyed
  <1>a. PICK c \in RemoteCallers : c = Head(toC).for
    BY <1>0, <1>1, Popped DEF CallTypes, Message
  <1>2. /\ toC # <<>> /\ Head(toC).kind = "subscriptionDestroyed"
        /\ UNCHANGED <<cSession, sSession, toS, calls, made, functors, refs, posts, running, sSubs>>
        /\ pending' = pending \ {c} /\ toC' = Tail(toC)
        /\ user' = IF c \in pending THEN [user EXCEPT ![c] = "destroyed"] ELSE user
    BY <1>a DEF Remote!HandleSubscriptionDestroyed, Remote!calleeVars
  <1>3. /\ toC' \in Seq(Message) /\ Head(toC) \in Message
        /\ \A p \in Remote!Range(toC) : p = Head(toC) \/ p \in Remote!Range(toC')
    BY <1>1, <1>2, Popped DEF CallTypes
  <1>4. /\ c \in RemoteCallers
        /\ \A p \in Remote!Range(toC) : p.kind = "value" => p \in Remote!Range(toC')
    BY <1>2, <1>3 DEF Message
  <1>5. /\ \A d \in RemoteCallers : d # c \/ c \notin pending => user'[d] = user[d]
        /\ c \in pending => user'[c] = "destroyed" /\ c \in refs /\ calls[c] \in {"value", "error"}
    <2>1. c \in pending => c \in refs
      BY <1>1, <1>4 DEF OfCall
    <2>2. calls[c] \in {"new", "outstanding", "value", "error"}
      BY <1>1, <1>4 DEF CallTypes
    <2>3. c \in refs => calls[c] \in {"value", "error"}
      BY <1>1, <1>4, <2>2 DEF OfCall
    <2>4. QED
      BY <1>1, <1>2, <1>4, <2>1, <2>3 DEF CallTypes
  <1>6. CallTypes'
    BY <1>1, <1>2, <1>3 DEF CallTypes
  <1>7. (\A p \in Queued : Says(p))'
    <2>1. SUFFICES ASSUME NEW p \in Queued, Says(p), p \in Message
                   PROVE  Says(p)'
      BY <1>1, <1>2 DEF Queued
    <2>2. p.for \in RemoteCallers
      BY <2>1 DEF Message
    <2>3. CASE p.for = c /\ c \in pending
      BY <1>2, <1>5, <2>1, <2>3 DEF Says
    <2>4. CASE p.for # c \/ c \notin pending
      BY <1>2, <1>5, <2>1, <2>2, <2>4 DEF Says
    <2>5. QED
      BY <2>3, <2>4
  <1>8. ASSUME NEW d \in RemoteCallers, d # c \/ c \notin pending
        PROVE  OfCall(d)' /\ Owned(d)' /\ (Kept(d) => Kept(d)')
    BY <1>1, <1>2, <1>4, <1>5, <1>8, Others
  <1>9. ASSUME c \in pending
        PROVE  OfCall(c)' /\ Owned(c)' /\ (Kept(c) => Kept(c)')
    <2>1. OfCall(c)'
      BY <1>1, <1>2, <1>4, <1>5, <1>9 DEF OfCall
    <2>2. Owned(c)'
      BY <1>1, <1>2, <1>4, <1>5, <1>9 DEF Owned, Queued
    <2>3. Queues(toC, c, "value") => Queues(toC, c, "value")'
      BY <1>4 DEF Queues
    <2>4. \A k : Queues(posts, c, k) <=> Queues(posts, c, k)'
      BY <1>2 DEF Queues
    <2>5. Queues(toS, c, "destroySubscription") => Queues(toS, c, "destroySubscription")'
      BY <1>2 DEF Queues
    <2>6. QED
      BY <1>2, <1>9, <2>1, <2>2, <2>3, <2>4, <2>5 DEF Kept
  <1>10. QED
    BY <1>1, <1>2, <1>6, <1>7, <1>8, <1>9 DEF CallInv, Dropped

LEMMA DestroySubscriptionStep ==
    ASSUME CallInv, NEW c \in RemoteCallers, Remote!DestroySubscription(c)
    PROVE  CallInv'
  <1> DEFINE m == [kind |-> "destroy", for |-> c]
  <1>1. /\ CallTypes /\ InOrder(posts) /\ Dropped /\ Queued \subseteq Message
        /\ \A p \in Queued : Says(p)
        /\ \A d \in RemoteCallers : OfCall(d) /\ Owned(d)
        /\ cSession = sSession => \A d \in sSubs : Kept(d)
        /\ sSubs \subseteq RemoteCallers
    BY Parts
  <1>2. /\ user[c] = "held" /\ posts' = Append(posts, m) /\ user' = [user EXCEPT ![c] = "destroying"]
        /\ UNCHANGED <<cSession, sSession, toS, toC, calls, made, functors, refs, pending, running, sSubs>>
    BY DEF Remote!DestroySubscription, Remote!P, Remote!calleeVars
  <1>3. m \in Message /\ m.kind = "destroy" /\ m.for = c
    BY DEF Message, Kinds
  <1> HIDE DEF m
  <1>4. posts' \in Seq(Message) /\ Remote!Range(posts') = Queued \cup {m} /\ InOrder(posts')
    BY <1>1, <1>2, <1>3, Added DEF CallTypes, Queued
  <1>5. /\ user'[c] = "destroying" /\ \A d \in RemoteCallers : d # c => user'[d] = user[d]
    BY <1>1, <1>2 DEF CallTypes
  <1>6. calls[c] \in {"value", "error"}
    BY <1>1, <1>2 DEF OfCall, CallTypes
  <1>7. CallTypes'
    BY <1>1, <1>2, <1>4 DEF CallTypes
  <1>8. (\A p \in Queued : Says(p))'
    <2>1. SUFFICES ASSUME NEW p \in Queued \cup {m}
                   PROVE  Says(p)'
      BY <1>4 DEF Queued
    <2>2. CASE p = m
      BY <1>2, <1>3, <1>5, <1>6, <2>2 DEF Says
    <2>3. CASE p \in Queued /\ p.for = c
      BY <1>1, <1>2, <1>5, <2>3 DEF Says
    <2>4. CASE p \in Queued /\ p.for # c
      <3>1. p.for \in RemoteCallers /\ Says(p)
        BY <1>1, <2>4 DEF Message
      <3>2. QED
        BY <1>2, <1>5, <2>4, <3>1 DEF Says
    <2>5. QED
      BY <2>1, <2>2, <2>3, <2>4
  <1>9. ASSUME NEW d \in RemoteCallers, d # c
        PROVE  OfCall(d)' /\ Owned(d)' /\ (Kept(d) => Kept(d)')
    <2>1. \A p : p.for = d => (p \in Remote!Range(posts') <=> p \in Remote!Range(posts))
      BY <1>3, <1>4, <1>9 DEF Queued
    <2>2. QED
      BY <1>1, <1>2, <1>5, <1>9, <2>1, Others
  <1>10. OfCall(c)' /\ Owned(c)' /\ (Kept(c) => Kept(c)')
    <2>1. Queues(posts, c, "destroy")'
      BY <1>3, <1>4 DEF Queues
    <2>2. \A k : Queues(posts, c, k) => Queues(posts, c, k)'
      BY <1>4 DEF Queues, Queued
    <2>3. OfCall(c)'
      BY <1>1, <1>2, <1>5, <1>6, <2>1 DEF OfCall
    <2>4. Owned(c)'
      BY <1>1, <1>2, <1>3, <1>4, <1>5 DEF Owned, Queued
    <2>5. Kept(c) => Kept(c)'
      BY <1>2, <2>1, <2>2 DEF Kept, Queues
    <2>6. QED
      BY <2>3, <2>4, <2>5
  <1>11. QED
    BY <1>1, <1>2, <1>4, <1>7, <1>8, <1>9, <1>10 DEF CallInv, Dropped

\* The message the caller's distribution manager processes.
LEMMA HeadPost ==
    ASSUME CallInv, posts # <<>>, NEW h, h = Head(posts)
    PROVE  /\ h \in Queued /\ h \in Message /\ Says(h) /\ h.for \in RemoteCallers
           /\ Tail(posts) \in Seq(Message) /\ InOrder(Tail(posts))
           /\ Remote!Range(Tail(posts)) \subseteq Queued
           /\ \A p \in Queued : p = h \/ p \in Remote!Range(Tail(posts))
           /\ h.kind # "destroy" => \A p \in Remote!Range(Tail(posts)) : p.for = h.for => p.kind = "destroy"
           /\ h.kind = "destroy" => \A p \in Queued : p.for = h.for => p.kind # "register"
           /\ \A p : p.for # h.for => (p \in Remote!Range(Tail(posts)) <=> p \in Remote!Range(posts))
  <1>1. posts \in Seq(Message) /\ InOrder(posts) /\ \A p \in Queued : Says(p)
    BY DEF CallInv, CallTypes
  <1>2. /\ Tail(posts) \in Seq(Message) /\ h \in Message /\ h \in Queued
        /\ Remote!Range(Tail(posts)) \subseteq Queued
        /\ \A p \in Queued : p = h \/ p \in Remote!Range(Tail(posts))
        /\ InOrder(Tail(posts))
        /\ h.kind # "destroy" => \A p \in Remote!Range(Tail(posts)) : p.for = h.for => p.kind = "destroy"
        /\ h.kind = "destroy" => \A p \in Queued : p.for = h.for => p.kind # "register"
    BY <1>1, Popped DEF Queued
  <1>3. \A p : p.for # h.for => (p \in Remote!Range(Tail(posts)) <=> p \in Remote!Range(posts))
    BY <1>2 DEF Queued
  <1>4. h.for \in RemoteCallers
    BY <1>2 DEF Message
  <1>5. QED
    BY <1>1, <1>2, <1>3, <1>4

\* A message that is followed by another of its call.
LEMMA RequeueStep ==
    ASSUME CallInv, posts # <<>>, NEW h, h = Head(posts), NEW c \in RemoteCallers, c = h.for,
           NEW m \in Message, m.for = c, posts' = Append(Tail(posts), m),
           UNCHANGED <<cSession, sSession, toS, toC, calls, made, functors, refs, pending, running, sSubs>>,
           \/ h.kind = "value" /\ m.kind = "register" /\ user' = [user EXCEPT ![c] = "held"]
           \/ h.kind = "error" /\ m.kind = "cleanup" /\ user' = user
           \/ h.kind = "register" /\ m.kind = "cleanup" /\ made[c] # cSession /\ user' = user
    PROVE  CallInv'
  <1>1. /\ CallTypes /\ InOrder(posts) /\ Dropped /\ Queued \subseteq Message
        /\ \A p \in Queued : Says(p)
        /\ \A d \in RemoteCallers : OfCall(d) /\ Owned(d)
        /\ cSession = sSession => \A d \in sSubs : Kept(d)
        /\ sSubs \subseteq RemoteCallers
    BY Parts
  <1> DEFINE rest == Tail(posts)
  <1>2. /\ h \in Queued /\ Says(h) /\ rest \in Seq(Message) /\ InOrder(rest)
        /\ Remote!Range(rest) \subseteq Queued
        /\ \A p \in Queued : p = h \/ p \in Remote!Range(rest)
        /\ \A p \in Remote!Range(rest) : p.for = c => p.kind = "destroy"
        /\ \A p : p.for # c => (p \in Remote!Range(rest) <=> p \in Remote!Range(posts))
    BY HeadPost
  <1> HIDE DEF rest
  <1>3. /\ h.kind = "value" => user[c] = "none" /\ \A p \in Remote!Range(rest) : p.for # c
        /\ c \notin refs /\ calls[c] \in {"value", "error"} /\ c \notin pending
    <2>1. \A p \in Remote!Range(rest) : p.for = c => user[c] # "none"
      BY <1>1, <1>2 DEF Says
    <2>2. QED
      BY <1>1, <1>2, <2>1 DEF Says, OfCall
  <1>4. posts' \in Seq(Message) /\ Remote!Range(posts') = Remote!Range(rest) \cup {m} /\ InOrder(posts')
    <2>1. posts' = Append(rest, m)
      BY DEF rest
    <2>2. \A p \in Remote!Range(rest) : p.for = m.for =>
             /\ m.kind # "destroy" => p.kind = "destroy"
             /\ m.kind = "register" => p.kind # "destroy"
      BY <1>2, <1>3
    <2>3. QED
      BY <1>2, <2>1, <2>2, Added
  <1>5. /\ \A d \in RemoteCallers : d # c => user'[d] = user[d]
        /\ user'[c] = IF h.kind = "value" THEN "held" ELSE user[c]
    BY <1>1 DEF CallTypes
  <1>6. CallTypes'
    <2>1. user' \in [RemoteCallers -> {"none", "held", "destroying", "destroyed"}]
      BY <1>1 DEF CallTypes
    <2>2. QED
      BY <1>1, <1>4, <2>1 DEF CallTypes
  <1>7. (\A p \in Queued : Says(p))'
    <2>1. SUFFICES ASSUME NEW p \in Remote!Range(rest) \cup {m}
                   PROVE  Says(p)'
      BY <1>4 DEF Queued
    <2>2. CASE p = m
      BY <1>2, <1>3, <1>5, <2>2 DEF Says
    <2>3. CASE p \in Remote!Range(rest) /\ p.for = c
      <3>1. Says(p) /\ h.kind # "value"
        BY <1>1, <1>2, <1>3, <2>3
      <3>2. QED
        BY <1>5, <2>3, <3>1 DEF Says
    <2>4. CASE p \in Remote!Range(rest) /\ p.for # c
      <3>1. p.for \in RemoteCallers /\ Says(p)
        BY <1>1, <1>2, <2>4 DEF Message
      <3>2. QED
        BY <1>5, <2>4, <3>1 DEF Says
    <2>5. QED
      BY <2>1, <2>2, <2>3, <2>4
  <1>8. ASSUME NEW d \in RemoteCallers, d # c
        PROVE  OfCall(d)' /\ Owned(d)' /\ (Kept(d) => Kept(d)')
    <2>1. \A p : p.for = d => (p \in Remote!Range(posts') <=> p \in Remote!Range(posts))
      BY <1>2, <1>4, <1>8
    <2>2. QED
      BY <1>1, <1>5, <1>8, <2>1, Others
  <1>9. OfCall(c)' /\ Owned(c)' /\ (Kept(c) => Kept(c)')
    <2>1. Queues(posts, c, "destroy") => Queues(posts, c, "destroy")'
      BY <1>2, <1>4 DEF Queues, Queued
    <2>2. OfCall(c)'
      BY <1>1, <1>3, <1>5, <2>1 DEF OfCall
    <2>3. (\E p \in Queued : p.for = c /\ p.kind # "destroy" /\ made[c] = cSession)
          <=> (\E p \in Queued' : p.for = c /\ p.kind # "destroy" /\ made'[c] = cSession')
      BY <1>2, <1>4 DEF Queued
    <2>4. Owned(c)'
      BY <1>1, <1>3, <2>3 DEF Owned
    <2>5. made[c] = cSession /\ (Queues(posts, c, "value") \/ Queues(posts, c, "register")) => h.kind = "value"
      BY <1>2 DEF Queues, Queued
    <2>6. h.kind = "value" => Queues(posts, c, "register")'
      BY <1>4 DEF Queues
    <2>7. Kept(c) => Kept(c)'
      BY <1>3, <2>5, <2>6 DEF Kept, Queues
    <2>8. QED
      BY <2>2, <2>4, <2>7
  <1>10. QED
    BY <1>1, <1>4, <1>6, <1>7, <1>8, <1>9 DEF CallInv, Dropped

LEMMA ReadStep ==
    ASSUME CallInv, Remote!ReadResult \/ Remote!ReadException
    PROVE  CallInv'
  <1>1. posts # <<>>
    BY DEF Remote!ReadResult, Remote!ReadException, Remote!IsNextPost
  <1>2. PICK h \in Message : h = Head(posts) /\ h.for \in RemoteCallers
    BY <1>1, HeadPost
  <1>3. PICK c \in RemoteCallers : c = h.for
    BY <1>2
  <1>4. UNCHANGED <<cSession, sSession, toS, toC, calls, made, functors, refs, pending, running, sSubs>>
    BY DEF Remote!ReadResult, Remote!ReadException, Remote!calleeVars
  <1>5. CASE Remote!ReadResult
    <2>1. PICK m : m = [h EXCEPT !.kind = "register"]
      OBVIOUS
    <2>2. m \in Message /\ m.for = c /\ m.kind = "register"
      BY <1>2, <1>3, <2>1 DEF Message, Kinds
    <2>3. h.kind = "value" /\ posts' = Append(Tail(posts), m) /\ user' = [user EXCEPT ![c] = "held"]
      BY <1>2, <1>3, <1>5, <2>1 DEF Remote!ReadResult, Remote!IsNextPost, Remote!For
    <2>4. QED
      BY <1>1, <1>2, <1>3, <1>4, <2>2, <2>3, RequeueStep
  <1>6. CASE Remote!ReadException
    <2>1. PICK m : m = [h EXCEPT !.kind = "cleanup"]
      OBVIOUS
    <2>2. m \in Message /\ m.for = c /\ m.kind = "cleanup"
      BY <1>2, <1>3, <2>1 DEF Message, Kinds
    <2>3. h.kind = "error" /\ posts' = Append(Tail(posts), m) /\ user' = user
      BY <1>2, <1>3, <1>6, <2>1 DEF Remote!ReadException, Remote!IsNextPost, Remote!For
    <2>4. QED
      BY <1>1, <1>2, <1>3, <1>4, <2>2, <2>3, RequeueStep
  <1>7. QED
    BY <1>5, <1>6

LEMMA CleanupRemoteContextStep ==
    ASSUME CallInv, Remote!CleanupRemoteContext
    PROVE  CallInv'
  <1>0. posts # <<>>
    BY DEF Remote!CleanupRemoteContext, Remote!IsNextPost
  <1>1. /\ CallTypes /\ InOrder(posts) /\ Dropped /\ Queued \subseteq Message
        /\ \A p \in Queued : Says(p)
        /\ \A d \in RemoteCallers : OfCall(d) /\ Owned(d)
        /\ cSession = sSession => \A d \in sSubs : Kept(d)
        /\ sSubs \subseteq RemoteCallers
    BY Parts
  <1>2. PICK h \in Message : h = Head(posts) /\ h.for \in RemoteCallers
    BY <1>0, HeadPost
  <1>3. PICK c \in RemoteCallers : c = h.for
    BY <1>2
  <1>4. /\ UNCHANGED <<cSession, sSession, toS, toC, calls, made, refs, pending, user, running, sSubs>>
        /\ h.kind = "cleanup" /\ posts' = Tail(posts)
        /\ functors' = IF made[c] = cSession THEN functors \ {c} ELSE functors
    BY <1>2, <1>3 DEF Remote!CleanupRemoteContext, Remote!IsNextPost, Remote!For, Remote!SameSession, Remote!calleeVars
  <1>5. /\ h \in Queued /\ Says(h) /\ posts' \in Seq(Message) /\ InOrder(posts')
        /\ Queued' \subseteq Queued /\ \A p \in Queued : p = h \/ p \in Queued'
        /\ \A p \in Queued' : p.for = c => p.kind = "destroy"
        /\ \A p : p.for # c => (p \in Remote!Range(posts') <=> p \in Remote!Range(posts))
    BY <1>0, <1>2, <1>3, <1>4, HeadPost DEF Queued
  <1>6. c \notin refs /\ calls[c] \in {"value", "error"} /\ c \notin pending
    BY <1>1, <1>3, <1>4, <1>5 DEF Says, OfCall
  <1>7. CallTypes'
    BY <1>1, <1>4, <1>5 DEF CallTypes
  <1>8. (\A p \in Queued : Says(p))'
    BY <1>1, <1>4, <1>5 DEF Says
  <1>9. ASSUME NEW d \in RemoteCallers, d # c
        PROVE  OfCall(d)' /\ Owned(d)' /\ (Kept(d) => Kept(d)')
    <2>1. \A p : p.for = d => (p \in Remote!Range(posts') <=> p \in Remote!Range(posts))
      BY <1>5, <1>9
    <2>2. QED
      BY <1>1, <1>4, <1>9, <2>1, Others
  <1>10. OfCall(c)' /\ Owned(c)' /\ (Kept(c) => Kept(c)')
    <2>1. \A k : k = "destroy" \/ k = "value" \/ k = "register" => (Queues(posts, c, k) => Queues(posts, c, k)')
      BY <1>4, <1>5 DEF Queues, Queued
    <2>2. OfCall(c)'
      BY <1>1, <1>4, <1>6, <2>1 DEF OfCall
    <2>3. Owned(c)'
      <3>1. c \notin functors'
        <4>1. CASE made[c] = cSession
          BY <1>4, <4>1
        <4>2. CASE made[c] # cSession
          BY <1>1, <1>4, <1>6, <4>2 DEF Owned
        <4>3. QED
          BY <4>1, <4>2
      <3>2. QED
        BY <1>4, <1>5, <1>6, <3>1 DEF Owned
    <2>4. Kept(c) => Kept(c)'
      BY <1>4, <2>1 DEF Kept, Queues
    <2>5. QED
      BY <2>2, <2>3, <2>4
  <1>11. QED
    BY <1>1, <1>4, <1>5, <1>7, <1>8, <1>9, <1>10 DEF CallInv, Dropped

LEMMA RegisterRemoteSubscriptionStep ==
    ASSUME CallInv, Remote!RegisterRemoteSubscription
    PROVE  CallInv'
  <1>0. posts # <<>>
    BY DEF Remote!RegisterRemoteSubscription, Remote!IsNextPost
  <1>1. /\ CallTypes /\ InOrder(posts) /\ Dropped /\ Queued \subseteq Message
        /\ \A p \in Queued : Says(p)
        /\ \A d \in RemoteCallers : OfCall(d) /\ Owned(d)
        /\ cSession = sSession => \A d \in sSubs : Kept(d)
        /\ sSubs \subseteq RemoteCallers
    BY Parts
  <1>2. PICK h \in Message : h = Head(posts) /\ h.for \in RemoteCallers
    BY <1>0, HeadPost
  <1>3. PICK c \in RemoteCallers : c = h.for
    BY <1>2
  <1>4. /\ UNCHANGED <<cSession, sSession, toS, toC, calls, made, functors, pending, user, running, sSubs>>
        /\ h.kind = "register"
        /\ refs' = IF made[c] = cSession THEN refs \cup {c} ELSE refs
        /\ posts' = IF made[c] = cSession THEN Tail(posts) ELSE Append(Tail(posts), [h EXCEPT !.kind = "cleanup"])
    BY <1>2, <1>3 DEF Remote!RegisterRemoteSubscription, Remote!IsNextPost, Remote!For, Remote!SameSession, Remote!calleeVars
  <1>5. CASE made[c] # cSession
    <2>1. PICK m : m = [h EXCEPT !.kind = "cleanup"]
      OBVIOUS
    <2>2. m \in Message /\ m.for = c /\ m.kind = "cleanup"
      BY <1>2, <1>3, <2>1 DEF Message, Kinds
    <2>3. posts' = Append(Tail(posts), m) /\ UNCHANGED refs
      BY <1>4, <1>5, <2>1
    <2>4. QED
      BY <1>0, <1>2, <1>3, <1>4, <1>5, <2>2, <2>3, RequeueStep
  <1>6. CASE made[c] = cSession
    <2>1. refs' = refs \cup {c} /\ posts' = Tail(posts)
      BY <1>4, <1>6
    <2>2. /\ h \in Queued /\ Says(h) /\ posts' \in Seq(Message) /\ InOrder(posts')
          /\ Queued' \subseteq Queued /\ \A p \in Queued : p = h \/ p \in Queued'
          /\ \A p \in Queued' : p.for = c => p.kind = "destroy"
          /\ \A p : p.for # c => (p \in Remote!Range(posts') <=> p \in Remote!Range(posts))
      BY <1>0, <1>2, <1>3, <1>4, <2>1, HeadPost DEF Queued
    <2>3. c \notin refs /\ calls[c] \in {"value", "error"} /\ c \notin pending /\ user[c] \in {"held", "destroying"}
      BY <1>1, <1>3, <1>4, <2>2 DEF Says, OfCall
    <2>4. CallTypes'
      BY <1>1, <1>4, <2>2 DEF CallTypes
    <2>5. (\A p \in Queued : Says(p))'
      <3>1. SUFFICES ASSUME NEW p \in Queued'
                     PROVE  Says(p)'
        OBVIOUS
      <3>2. Says(p) /\ (p.for = c => p.kind = "destroy")
        BY <1>1, <2>2
      <3>3. QED
        BY <1>4, <2>1, <3>2 DEF Says
    <2>6. ASSUME NEW d \in RemoteCallers, d # c
          PROVE  OfCall(d)' /\ Owned(d)' /\ (Kept(d) => Kept(d)')
      <3>1. \A p : p.for = d => (p \in Remote!Range(posts') <=> p \in Remote!Range(posts))
        BY <2>2, <2>6
      <3>2. QED
        BY <1>1, <1>4, <2>1, <2>6, <3>1, Others
    <2>7. Queues(posts, c, "destroy") => Queues(posts, c, "destroy")'
      BY <1>4, <2>2 DEF Queues, Queued
    <2>8. OfCall(c)'
      BY <1>1, <1>4, <1>6, <2>1, <2>3, <2>7 DEF OfCall
    <2>9. Owned(c)'
      <3>1. c \in functors
        BY <1>1, <1>3, <1>4, <1>6, <2>2 DEF Owned
      <3>2. QED
        BY <1>4, <2>1, <2>3, <3>1 DEF Owned
    <2>10. Kept(c)'
      <3>1. user[c] = "held" \/ Queues(posts, c, "destroy")
        BY <1>1, <2>3 DEF OfCall
      <3>2. QED
        BY <1>4, <2>1, <2>3, <2>7, <3>1 DEF Kept
    <2>11. QED
      BY <1>1, <1>4, <2>2, <2>4, <2>5, <2>6, <2>8, <2>9, <2>10 DEF CallInv, Dropped
  <1>7. QED
    BY <1>5, <1>6

LEMMA DestroyRemoteSubscriptionStep ==
    ASSUME CallInv, Remote!DestroyRemoteSubscription
    PROVE  CallInv'
  <1>0. posts # <<>>
    BY DEF Remote!DestroyRemoteSubscription, Remote!IsNextPost
  <1>1. /\ CallTypes /\ InOrder(posts) /\ Dropped /\ Queued \subseteq Message
        /\ \A p \in Queued : Says(p)
        /\ \A d \in RemoteCallers : OfCall(d) /\ Owned(d)
        /\ cSession = sSession => \A d \in sSubs : Kept(d)
        /\ sSubs \subseteq RemoteCallers
    BY Parts
  <1>2. PICK h \in Message : h = Head(posts) /\ h.for \in RemoteCallers
    BY <1>0, HeadPost
  <1>3. PICK c \in RemoteCallers : c = h.for
    BY <1>2
  <1>b. PICK m : m = [kind |-> "destroySubscription", for |-> c]
    OBVIOUS
  <1>4. /\ UNCHANGED <<cSession, sSession, toC, calls, made, refs, running, sSubs>>
        /\ h.kind = "destroy" /\ posts' = Tail(posts)
        /\ IF made[c] = cSession /\ c \in refs
           THEN /\ functors' = functors \ {c} /\ pending' = pending \cup {c} /\ user' = user
                /\ toS' = Append(toS, m)
           ELSE user' = [user EXCEPT ![c] = "destroyed"] /\ UNCHANGED <<functors, toS, pending>>
    BY <1>2, <1>3, <1>b DEF Remote!DestroyRemoteSubscription, Remote!IsNextPost, Remote!For, Remote!SameSession,
                     Remote!P, Remote!calleeVars
  <1>c. m \in Message /\ m.for = c /\ m.kind = "destroySubscription"
    BY <1>b DEF Message, Kinds
  <1>5. /\ h \in Queued /\ Says(h) /\ posts' \in Seq(Message) /\ InOrder(posts')
        /\ Queued' \subseteq Queued /\ \A p \in Queued : p = h \/ p \in Queued'
        /\ \A p \in Queued : p.for = c => p.kind # "register"
        /\ \A p : p.for # c => (p \in Remote!Range(posts') <=> p \in Remote!Range(posts))
    BY <1>0, <1>2, <1>3, <1>4, HeadPost DEF Queued
  <1>6. calls[c] \in {"value", "error"} /\ user[c] \in {"destroying", "destroyed"}
    BY <1>3, <1>4, <1>5 DEF Says
  <1>7. \A d \in RemoteCallers : d # c => user'[d] = user[d]
    BY <1>1, <1>4 DEF CallTypes
  <1>8. /\ toS' \in Seq(Message)
        /\ \A p \in Remote!Range(toS) : p \in Remote!Range(toS')
        /\ toS' = Append(toS, m) => m \in Remote!Range(toS')
    <2>1. toS \in Seq(Message) /\ (toS' = toS \/ toS' = Append(toS, m))
      BY <1>1, <1>4 DEF CallTypes
    <2>2. Append(toS, m) \in Seq(Message) /\ Remote!Range(Append(toS, m)) = Remote!Range(toS) \cup {m}
      BY <1>c, <2>1, Added
    <2>3. m \in Remote!Range(Append(toS, m)) /\ \A p \in Remote!Range(toS) : p \in Remote!Range(Append(toS, m))
      BY <2>2
    <2>4. QED
      BY <2>1, <2>2, <2>3
  <1>9. CallTypes'
    BY <1>1, <1>4, <1>5, <1>8 DEF CallTypes
  <1>10. ASSUME NEW d \in RemoteCallers, d # c
         PROVE  OfCall(d)' /\ Owned(d)' /\ (Kept(d) => Kept(d)')
    <2>1. \A p : p.for = d => (p \in Remote!Range(posts') <=> p \in Remote!Range(posts))
      BY <1>5, <1>10
    <2>2. d \in pending' <=> d \in pending
      BY <1>4, <1>10
    <2>3. d \in functors' <=> d \in functors
      BY <1>4, <1>10
    <2>4. QED
      BY <1>1, <1>4, <1>7, <1>8, <1>10, <2>1, <2>2, <2>3, Others
  <1>11. CASE made[c] = cSession /\ c \in refs
    <2>1. functors' = functors \ {c} /\ pending' = pending \cup {c} /\ user' = user /\ m \in Remote!Range(toS')
      BY <1>4, <1>8, <1>11
    <2>2. (\A p \in Queued : Says(p))'
      BY <1>1, <1>4, <1>5, <2>1 DEF Says
    <2>3. \A p \in Queued : p.for = c => p.kind = "destroy"
      BY <1>1, <1>11 DEF Says
    <2>4. OfCall(c)'
      BY <1>1, <1>4, <1>6, <1>11, <2>1 DEF OfCall
    <2>5. Owned(c)'
      BY <1>4, <1>5, <1>6, <2>1, <2>3 DEF Owned
    <2>6. Kept(c)'
      BY <1>c, <2>1 DEF Kept, Queues
    <2>7. QED
      BY <1>1, <1>4, <1>5, <1>9, <1>10, <2>2, <2>4, <2>5, <2>6 DEF CallInv, Dropped
  <1>12. CASE ~(made[c] = cSession /\ c \in refs)
    <2>1. UNCHANGED <<functors, toS, pending>> /\ user'[c] = "destroyed" /\ c \notin refs /\ c \notin pending
      BY <1>1, <1>4, <1>12 DEF CallTypes, OfCall
    <2>2. \A p \in Queued : p.for = c => p.kind \notin {"value", "error", "register"}
      BY <1>1, <1>5, <1>6 DEF Says
    <2>3. (\A p \in Queued : Says(p))'
      <3>1. SUFFICES ASSUME NEW p \in Queued'
                     PROVE  Says(p)'
        OBVIOUS
      <3>2. Says(p) /\ p.for \in RemoteCallers /\ (p.for = c => p.kind \notin {"value", "error", "register"})
        BY <1>1, <1>5, <2>2 DEF Message
      <3>3. QED
        BY <1>4, <1>7, <2>1, <3>2 DEF Says
    <2>4. OfCall(c)'
      BY <1>1, <1>4, <1>6, <2>1 DEF OfCall
    <2>5. (\E p \in Queued : p.for = c /\ p.kind # "destroy" /\ made[c] = cSession)
          <=> (\E p \in Queued' : p.for = c /\ p.kind # "destroy" /\ made'[c] = cSession')
      BY <1>4, <1>5
    <2>6. Owned(c)'
      BY <1>1, <1>4, <2>1, <2>5 DEF Owned
    <2>7. Kept(c) => Kept(c)'
      <3>1. ~Queues(posts, c, "value") /\ ~Queues(posts, c, "register")
        BY <2>2 DEF Queues, Queued
      <3>2. QED
        BY <1>4, <2>1, <3>1 DEF Kept, Queues
    <2>8. QED
      BY <1>1, <1>4, <1>5, <1>9, <1>10, <2>1, <2>3, <2>4, <2>6, <2>7 DEF CallInv, Dropped
  <1>13. QED
    BY <1>11, <1>12

\* Steps of the host that is called leave the caller alone.
LEMMA CalledStep ==
    ASSUME CallInv,
           UNCHANGED <<cSession, calls, made, functors, refs, pending, posts, user>>, sSession' = sSession,
           toS' \in Seq(Message), toC' \in Seq(Message), running' \in [RemoteCallers -> Nat], Dropped',
           \A p \in Remote!Range(toC) : p.kind = "value" => p \in Remote!Range(toC'),
           sSubs' \subseteq RemoteCallers,
           cSession = sSession => \A c \in sSubs' :
              \/ /\ c \in sSubs
                 /\ \A p \in Remote!Range(toS) :
                       p.for = c /\ p.kind = "destroySubscription" => p \in Remote!Range(toS')
              \/ Queues(toC', c, "value")
    PROVE  CallInv'
  <1>1. /\ CallTypes /\ InOrder(posts) /\ Dropped /\ Queued \subseteq Message
        /\ \A p \in Queued : Says(p)
        /\ \A d \in RemoteCallers : OfCall(d) /\ Owned(d)
        /\ cSession = sSession => \A d \in sSubs : Kept(d)
        /\ sSubs \subseteq RemoteCallers
    BY Parts
  <1>2. CallTypes'
    BY <1>1 DEF CallTypes
  <1>3. InOrder(posts)' /\ (\A p \in Queued : Says(p))'
    BY <1>1 DEF Queued, Says
  <1>4. ASSUME NEW d \in RemoteCallers
        PROVE  OfCall(d)' /\ Owned(d)'
    BY <1>1, Others
  <1>5. ASSUME cSession = sSession, NEW d \in sSubs'
        PROVE  Kept(d)'
    <2>1. d \in RemoteCallers
      OBVIOUS
    <2>2. CASE /\ d \in sSubs
               /\ \A p \in Remote!Range(toS) :
                     p.for = d /\ p.kind = "destroySubscription" => p \in Remote!Range(toS')
      BY <1>1, <1>5, <2>1, <2>2, Others
    <2>3. CASE Queues(toC', d, "value")
      BY <2>3 DEF Kept, Queues
    <2>4. QED
      BY <1>5, <2>2, <2>3
  <1>6. QED
    BY <1>1, <1>2, <1>3, <1>4, <1>5 DEF CallInv

LEMMA ApplyRemoteCallStep ==
    ASSUME CallInv, Remote!ApplyRemoteCall
    PROVE  CallInv'
  <1>1. /\ CallTypes /\ InOrder(posts) /\ Dropped /\ Queued \subseteq Message
        /\ \A p \in Queued : Says(p)
        /\ \A d \in RemoteCallers : OfCall(d) /\ Owned(d)
        /\ cSession = sSession => \A d \in sSubs : Kept(d)
        /\ sSubs \subseteq RemoteCallers
    BY Parts
  <1>2. /\ cSession = sSession /\ toS # <<>> /\ Head(toS).kind = "call" /\ toS' = Tail(toS)
        /\ running' = [running EXCEPT ![Head(toS).for] = sSession]
        /\ UNCHANGED <<cSession, sSession, toC, calls, made, functors, refs, pending, posts, user, sSubs>>
    BY DEF Remote!ApplyRemoteCall, Remote!InSession, Remote!callerVars
  <1>3. toS' \in Seq(Message) /\ \A p \in Remote!Range(toS) : p = Head(toS) \/ p \in Remote!Range(toS')
    BY <1>1, <1>2, Popped DEF CallTypes
  <1>4. running' \in [RemoteCallers -> Nat]
    BY <1>1, <1>2 DEF CallTypes
  <1>5. Dropped'
    <2>1. \A c \in RemoteCallers : running'[c] = running[c] \/ running'[c] = sSession
      BY <1>1, <1>2 DEF CallTypes
    <2>2. sSession <= sSession /\ ~(cSession < sSession)
      BY <1>1, <1>2 DEF CallTypes
    <2>3. QED
      BY <1>1, <1>2, <2>1, <2>2 DEF Dropped
  <1>6. toC' \in Seq(Message)
    BY <1>1, <1>2 DEF CallTypes
  <1>7. \A p \in Remote!Range(toS) : p.kind = "destroySubscription" => p \in Remote!Range(toS')
    BY <1>2, <1>3
  <1>8. QED
    BY <1>1, <1>2, <1>3, <1>4, <1>5, <1>6, <1>7, CalledStep

LEMMA ReplyToRemoteCallStep ==
    ASSUME CallInv, NEW c \in RemoteCallers, Remote!ReplyToRemoteCall(c)
    PROVE  CallInv'
  <1>1. /\ CallTypes /\ InOrder(posts) /\ Dropped /\ Queued \subseteq Message
        /\ \A p \in Queued : Says(p)
        /\ \A d \in RemoteCallers : OfCall(d) /\ Owned(d)
        /\ cSession = sSession => \A d \in sSubs : Kept(d)
        /\ sSubs \subseteq RemoteCallers
    BY Parts
  <1>2. /\ running' = [running EXCEPT ![c] = 0]
        /\ UNCHANGED <<cSession, sSession, toS, calls, made, functors, refs, pending, posts, user>>
    BY DEF Remote!ReplyToRemoteCall, Remote!callerVars
  <1>3. running' \in [RemoteCallers -> Nat] /\ \A d \in RemoteCallers : running'[d] = IF d = c THEN 0 ELSE running[d]
    BY <1>1, <1>2 DEF CallTypes
  <1>4. CASE running[c] # sSession /\ UNCHANGED <<toC, sSubs>>
    <2>1. Dropped'
      BY <1>1, <1>2, <1>3, <1>4 DEF Dropped, CallTypes
    <2>2. toC' \in Seq(Message) /\ toS' \in Seq(Message)
      BY <1>1, <1>2, <1>4 DEF CallTypes
    <2>3. QED
      BY <1>1, <1>2, <1>3, <1>4, <2>1, <2>2, CalledStep
  <1>5. ASSUME running[c] = sSession, NEW k \in {"value", "error"},
               toC' = Append(toC, [kind |-> k, for |-> c]),
               sSubs' = IF k = "value" THEN sSubs \cup {c} ELSE sSubs
        PROVE  CallInv'
    <2>1. PICK m : m = [kind |-> k, for |-> c]
      OBVIOUS
    <2>2. m \in Message /\ m.for = c /\ m.kind = k /\ toC' = Append(toC, m)
      BY <1>5, <2>1 DEF Message, Kinds
    <2>3. toC' \in Seq(Message) /\ Remote!Range(toC') = Remote!Range(toC) \cup {m}
      BY <1>1, <2>2, Added DEF CallTypes
    <2>4. ~(cSession < sSession)
      BY <1>1, <1>5 DEF Dropped
    <2>5. Dropped'
      BY <1>1, <1>2, <1>3, <2>4 DEF Dropped, CallTypes
    <2>6. toS' \in Seq(Message) /\ sSubs' \subseteq RemoteCallers
      BY <1>1, <1>2, <1>5 DEF CallTypes
    <2>7. \A d \in sSubs' : d \in sSubs \/ Queues(toC', d, "value")
      BY <1>5, <2>2, <2>3 DEF Queues
    <2>8. QED
      BY <1>1, <1>2, <1>3, <2>3, <2>5, <2>6, <2>7, CalledStep
  <1>6. QED
    BY <1>4, <1>5 DEF Remote!ReplyToRemoteCall, Remote!P

LEMMA HandleDestroySubscriptionStep ==
    ASSUME CallInv, Remote!HandleDestroySubscription
    PROVE  CallInv'
  <1>1. /\ CallTypes /\ InOrder(posts) /\ Dropped /\ Queued \subseteq Message
        /\ \A p \in Queued : Says(p)
        /\ \A d \in RemoteCallers : OfCall(d) /\ Owned(d)
        /\ cSession = sSession => \A d \in sSubs : Kept(d)
        /\ sSubs \subseteq RemoteCallers
    BY Parts
  <1>2. toS # <<>>
    BY DEF Remote!HandleDestroySubscription
  <1>3. PICK h \in Message : h = Head(toS) /\ Tail(toS) \in Seq(Message) /\ h.for \in RemoteCallers
                             /\ \A p \in Remote!Range(toS) : p = h \/ p \in Remote!Range(Tail(toS))
    BY <1>1, <1>2, Popped DEF CallTypes, Message
  <1>4. PICK m : m = [kind |-> "subscriptionDestroyed", for |-> h.for]
    OBVIOUS
  <1>5. m \in Message
    BY <1>3, <1>4 DEF Message, Kinds
  <1>6. /\ cSession = sSession /\ sSubs' = sSubs \ {h.for} /\ toS' = Tail(toS)
        /\ toC' = toC \/ toC' = Append(toC, m)
        /\ UNCHANGED <<cSession, sSession, calls, made, functors, refs, pending, posts, user, running>>
    BY <1>3, <1>4 DEF Remote!HandleDestroySubscription, Remote!InSession, Remote!callerVars, Remote!P
  <1>7. toC' \in Seq(Message) /\ \A p \in Remote!Range(toC) : p \in Remote!Range(toC')
    BY <1>1, <1>5, <1>6, Added DEF CallTypes
  <1>8. Dropped' /\ running' \in [RemoteCallers -> Nat]
    BY <1>1, <1>6 DEF Dropped, CallTypes
  <1>9. QED
    BY <1>1, <1>3, <1>6, <1>7, <1>8, CalledStep

LEMMA SubscriptionEndsStep ==
    ASSUME CallInv, NEW c \in RemoteCallers, Remote!SubscriptionEnds(c)
    PROVE  CallInv'
  <1>1. /\ CallTypes /\ InOrder(posts) /\ Dropped /\ Queued \subseteq Message
        /\ \A p \in Queued : Says(p)
        /\ \A d \in RemoteCallers : OfCall(d) /\ Owned(d)
        /\ cSession = sSession => \A d \in sSubs : Kept(d)
        /\ sSubs \subseteq RemoteCallers
    BY Parts
  <1>2. PICK m : m = [kind |-> "subscriptionDestroyed", for |-> c]
    OBVIOUS
  <1>3. m \in Message
    BY <1>2 DEF Message, Kinds
  <1>4. /\ toC' = toC \/ toC' = Append(toC, m)
        /\ UNCHANGED <<cSession, sSession, toS, calls, made, functors, refs, pending, posts, user, running, sSubs>>
    BY <1>2 DEF Remote!SubscriptionEnds, Remote!callerVars, Remote!P
  <1>5. toC' \in Seq(Message) /\ \A p \in Remote!Range(toC) : p \in Remote!Range(toC')
    BY <1>1, <1>3, <1>4, Added DEF CallTypes
  <1>6. Dropped' /\ running' \in [RemoteCallers -> Nat] /\ toS' \in Seq(Message)
    BY <1>1, <1>4 DEF Dropped, CallTypes
  <1>7. QED
    BY <1>1, <1>4, <1>5, <1>6, CalledStep

\* A set put in some order.
LEMMA Ordered ==
    ASSUME NEW S, IsFiniteSet(S)
    PROVE  LET f == Remote!SetToSeq(S) IN
           /\ f \in Seq(S) /\ Len(f) \in Nat /\ f \in [1..Len(f) -> S]
           /\ \A i, j \in 1..Len(f) : f[i] = f[j] => i = j
  <1>1. Cardinality(S) \in Nat /\ ExistsBijection(1..Cardinality(S), S)
    BY FS_CardinalityType
  <1>2. \E f \in [1..Cardinality(S) -> S] : Remote!IsInjective(f)
    BY <1>1 DEF ExistsBijection, Bijection, Injection, IsInjective, Remote!IsInjective
  <1>3. PICK f : f = Remote!SetToSeq(S)
    OBVIOUS
  <1>c. Remote!Cardinality(S) = Cardinality(S)
    BY Zenon DEF Remote!Cardinality, Cardinality
  <1>4. f \in [1..Cardinality(S) -> S] /\ Remote!IsInjective(f)
    BY <1>2, <1>3, <1>c DEF Remote!SetToSeq
  <1>5. f \in Seq(S) /\ Len(f) = Cardinality(S)
    BY <1>1, <1>4
  <1>6. \A i, j \in 1..Len(f) : f[i] = f[j] => i = j
    BY <1>4, <1>5 DEF Remote!IsInjective
  <1>7. QED
    BY <1>1, <1>3, <1>4, <1>5, <1>6

LEMMA AddedAll ==
    ASSUME NEW q \in Seq(Message), InOrder(q), NEW e \in Seq(Message),
           \A i \in DOMAIN e : e[i].kind = "error" /\ \A p \in Remote!Range(q) : p.for # e[i].for,
           \A i, j \in DOMAIN e : e[i].for = e[j].for => i = j
    PROVE  /\ q \o e \in Seq(Message) /\ InOrder(q \o e)
           /\ \A p \in Remote!Range(q \o e) : p \in Remote!Range(q) \/ \E i \in DOMAIN e : p = e[i]
           /\ Remote!Range(q) \subseteq Remote!Range(q \o e)
  <1> DEFINE s == q \o e
             n == Len(q)
  <1>1. /\ s \in Seq(Message) /\ n \in Nat /\ Len(e) \in Nat /\ DOMAIN s = 1..(n + Len(e))
        /\ DOMAIN q = 1..n /\ DOMAIN e = 1..Len(e)
        /\ \A i \in 1..(n + Len(e)) : s[i] = IF i <= n THEN q[i] ELSE e[i - n]
    OBVIOUS
  <1> HIDE DEF s, n
  <1>2. ASSUME NEW i \in DOMAIN s
        PROVE  /\ i \in Nat
               /\ \/ i \in DOMAIN q /\ s[i] = q[i] /\ i <= n
                  \/ i - n \in DOMAIN e /\ s[i] = e[i - n] /\ i > n
    BY <1>1
  <1>3. \A i \in DOMAIN q : i \in DOMAIN s /\ s[i] = q[i] /\ q[i] \in Remote!Range(q)
    BY <1>1 DEF Remote!Range
  <1>4. InOrder(s)
    <2>1. ASSUME NEW i \in DOMAIN s, NEW j \in DOMAIN s, s[i].for = s[j].for, s[i].kind # "destroy"
          PROVE  IF s[j].kind # "destroy" THEN i = j ELSE s[i].kind = "register" => i < j
      <3>1. CASE i \in DOMAIN q /\ s[i] = q[i] /\ j \in DOMAIN q /\ s[j] = q[j]
        BY <2>1, <3>1 DEF InOrder
      <3>2. CASE i - n \in DOMAIN e /\ s[i] = e[i - n] /\ j - n \in DOMAIN e /\ s[j] = e[j - n]
        <4>1. i - n = j - n /\ s[j].kind # "destroy"
          BY <2>1, <3>2
        <4>2. i = j
          BY <1>1, <1>2, <4>1
        <4>3. QED
          BY <4>1, <4>2
      <3>3. CASE i \in DOMAIN q /\ s[i] = q[i] /\ j - n \in DOMAIN e /\ s[j] = e[j - n]
        BY <1>3, <2>1, <3>3
      <3>4. CASE i - n \in DOMAIN e /\ s[i] = e[i - n] /\ j \in DOMAIN q /\ s[j] = q[j]
        <4>1. q[j] \in Remote!Range(q)
          BY <1>3, <3>4
        <4>2. e[i - n].for # q[j].for
          BY <3>4, <4>1
        <4>3. QED
          BY <2>1, <3>4, <4>2
      <3>5. QED
        BY <1>2, <3>1, <3>2, <3>3, <3>4
    <2>2. QED
      BY <2>1 DEF InOrder
  <1>5. \A p \in Remote!Range(s) : p \in Remote!Range(q) \/ \E i \in DOMAIN e : p = e[i]
    BY <1>2, <1>3 DEF Remote!Range
  <1>6. Remote!Range(q) \subseteq Remote!Range(s)
    BY <1>3 DEF Remote!Range
  <1>7. QED
    BY <1>1, <1>4, <1>5, <1>6 DEF s

\* fp_ResetHostState at the caller, which is in a later session after it.
LEMMA ResetCallerStep ==
    ASSUME CallInv, IsFiniteSet(RemoteCallers), Remote!ResetCaller, cSession' \in Nat, cSession' > cSession,
           sSession' \in Nat, toS' \in Seq(Message), toC' \in Seq(Message), UNCHANGED <<running, sSubs>>,
           Dropped', cSession' = sSession' => sSubs = {}
    PROVE  CallInv'
  <1>1. /\ CallTypes /\ InOrder(posts) /\ Dropped /\ Queued \subseteq Message
        /\ \A p \in Queued : Says(p)
        /\ \A d \in RemoteCallers : OfCall(d) /\ Owned(d)
        /\ cSession = sSession => \A d \in sSubs : Kept(d)
        /\ sSubs \subseteq RemoteCallers
    BY Parts
  <1>2. PICK out \in SUBSET RemoteCallers : out = {c \in RemoteCallers : calls[c] = "outstanding"}
    OBVIOUS
  <1>3. PICK f : f = Remote!SetToSeq(out)
    OBVIOUS
  <1>4. /\ f \in Seq(out) /\ Len(f) \in Nat /\ f \in [1..Len(f) -> out]
        /\ \A i, j \in 1..Len(f) : f[i] = f[j] => i = j
    <2>1. IsFiniteSet(out)
      BY FS_Subset
    <2>2. QED
      BY <1>3, <2>1, Ordered
  <1>5. PICK e : e = [i \in 1..Len(f) |-> [kind |-> "error", for |-> f[i]]]
    OBVIOUS
  <1>6. /\ calls' = [c \in RemoteCallers |-> IF calls[c] = "outstanding" THEN "error" ELSE calls[c]]
        /\ posts' = posts \o e /\ functors' = {} /\ refs' = {} /\ pending' = {} /\ made' = made
        /\ user' = [c \in RemoteCallers |-> IF c \in pending THEN "destroyed" ELSE user[c]]
    BY <1>2, <1>3, <1>5 DEF Remote!ResetCaller, Remote!P
  <1>7. /\ e \in Seq(Message) /\ DOMAIN e = 1..Len(f)
        /\ \A i \in DOMAIN e : e[i].kind = "error" /\ e[i].for = f[i] /\ e[i].for \in out /\ e[i] \in Message
    <2>1. \A i \in 1..Len(f) : [kind |-> "error", for |-> f[i]] \in Message
      BY <1>4 DEF Message, Kinds
    <2>2. e \in [1..Len(f) -> Message]
      BY <1>5, <2>1
    <2>3. e \in Seq(Message) /\ DOMAIN e = 1..Len(f)
      BY <1>4, <2>2
    <2>4. \A i \in DOMAIN e : e[i].kind = "error" /\ e[i].for = f[i] /\ e[i].for \in out /\ e[i] \in Message
      BY <1>4, <1>5, <2>2, <2>3
    <2>5. QED
      BY <2>3, <2>4
  <1>8. \A p \in Queued : p.for \in RemoteCallers /\ p.for \notin out
    BY <1>1, <1>2 DEF Says, Message
  <1>9. /\ posts' \in Seq(Message) /\ InOrder(posts')
        /\ \A p \in Queued' : p \in Queued \/ \E i \in DOMAIN e : p = e[i]
        /\ Queued \subseteq Queued'
    <2>1. posts \in Seq(Message) /\ InOrder(posts)
      BY <1>1 DEF CallTypes
    <2>2. \A i \in DOMAIN e : e[i].kind = "error" /\ \A p \in Remote!Range(posts) : p.for # e[i].for
      BY <1>7, <1>8 DEF Queued
    <2>3. \A i, j \in DOMAIN e : e[i].for = e[j].for => i = j
      BY <1>4, <1>7
    <2>4. QED
      BY <1>6, <1>7, <2>1, <2>2, <2>3, AddedAll DEF Queued
  <1>10. \A c \in out : calls[c] = "outstanding" /\ user[c] = "none" /\ c \notin pending /\ calls'[c] = "error"
    BY <1>1, <1>2, <1>6 DEF OfCall
  <1>11. \A c \in RemoteCallers : user'[c] = IF c \in pending THEN "destroyed" ELSE user[c]
    BY <1>6
  <1>12. \A c \in RemoteCallers : c \notin out => calls'[c] = calls[c]
    BY <1>2, <1>6
  <1>13. CallTypes'
    <2>1. /\ calls' \in [RemoteCallers -> {"new", "outstanding", "value", "error"}]
          /\ user' \in [RemoteCallers -> {"none", "held", "destroying", "destroyed"}]
      BY <1>1, <1>6 DEF CallTypes
    <2>2. QED
      BY <1>1, <1>6, <1>9, <2>1 DEF CallTypes
  <1>14. (\A p \in Queued : Says(p))'
    <2>1. SUFFICES ASSUME NEW p \in Queued'
                   PROVE  Says(p)'
      OBVIOUS
    <2>2. CASE p \in Queued
      <3>1. p.for \in RemoteCallers /\ p.for \notin out /\ Says(p)
        BY <1>1, <1>8, <2>2
      <3>2. CASE p.for \in pending
        <4>1. p.for \in refs
          BY <1>1, <3>1, <3>2 DEF OfCall
        <4>2. p.kind = "destroy" /\ user'[p.for] = "destroyed"
          BY <1>11, <3>1, <3>2, <4>1 DEF Says
        <4>3. QED
          BY <1>12, <3>1, <4>2 DEF Says
      <3>3. CASE p.for \notin pending
        BY <1>6, <1>11, <1>12, <3>1, <3>3 DEF Says
      <3>4. QED
        BY <3>2, <3>3
    <2>3. CASE \E i \in DOMAIN e : p = e[i]
      <3>1. p.kind = "error" /\ p.for \in out
        BY <1>7, <2>3
      <3>2. user'[p.for] = "none" /\ calls'[p.for] = "error"
        BY <1>10, <1>11, <3>1
      <3>3. QED
        BY <1>6, <3>1, <3>2 DEF Says
    <2>4. QED
      BY <1>9, <2>1, <2>2, <2>3
  <1>15. ASSUME NEW c \in RemoteCallers
         PROVE  OfCall(c)' /\ Owned(c)'
    <2>1. made'[c] <= cSession' /\ made'[c] # cSession'
      <3>1. made[c] \in Nat /\ cSession \in Nat /\ made[c] <= cSession
        BY <1>1 DEF CallTypes, OfCall
      <3>2. QED
        BY <1>6, <3>1
    <2>2. calls'[c] # "outstanding" /\ (calls'[c] = "new" => calls[c] = "new")
      BY <1>6
    <2>3. calls[c] = "new" => user[c] = "none" /\ c \notin pending
      BY <1>1 DEF OfCall
    <2>4. user'[c] = "destroying" => Queues(posts, c, "destroy")
      BY <1>1, <1>11 DEF OfCall
    <2>5. Queues(posts, c, "destroy") => Queues(posts, c, "destroy")'
      BY <1>9 DEF Queues, Queued
    <2>6. OfCall(c)'
      BY <1>6, <1>11, <2>1, <2>2, <2>3, <2>4, <2>5 DEF OfCall
    <2>7. Owned(c)'
      BY <1>6, <2>1, <2>2 DEF Owned
    <2>8. QED
      BY <2>6, <2>7
  <1>16. QED
    BY <1>9, <1>13, <1>14, <1>15 DEF CallInv

LEMMA CallerDropsStep ==
    ASSUME CallInv, IsFiniteSet(RemoteCallers), Remote!CallerDrops
    PROVE  CallInv'
  <1>1. /\ CallTypes /\ InOrder(posts) /\ Dropped /\ Queued \subseteq Message
        /\ \A p \in Queued : Says(p)
        /\ \A d \in RemoteCallers : OfCall(d) /\ Owned(d)
        /\ cSession = sSession => \A d \in sSubs : Kept(d)
        /\ sSubs \subseteq RemoteCallers
    BY Parts
  <1>2. /\ cSession = sSession /\ cSession' = cSession + 1 /\ toS' = <<>> /\ toC' = <<>> /\ Remote!ResetCaller
        /\ UNCHANGED <<sSession, running, sSubs>>
    BY DEF Remote!CallerDrops, Remote!InSession, Remote!calleeVars
  <1>3. cSession' \in Nat /\ cSession' > cSession /\ sSession' \in Nat /\ cSession' # sSession' /\ ~(cSession' < sSession')
    BY <1>1, <1>2 DEF CallTypes
  <1>4. Dropped'
    BY <1>1, <1>2, <1>3 DEF Dropped
  <1>5. QED
    BY <1>2, <1>3, <1>4, ResetCallerStep

LEMMA CallerFollowsStep ==
    ASSUME CallInv, IsFiniteSet(RemoteCallers), Remote!CallerFollows
    PROVE  CallInv'
  <1>1. /\ CallTypes /\ InOrder(posts) /\ Dropped /\ Queued \subseteq Message
        /\ \A p \in Queued : Says(p)
        /\ \A d \in RemoteCallers : OfCall(d) /\ Owned(d)
        /\ cSession = sSession => \A d \in sSubs : Kept(d)
        /\ sSubs \subseteq RemoteCallers
    BY Parts
  <1>2. /\ cSession < sSession /\ cSession' = sSession /\ toS' = <<>> /\ Remote!ResetCaller
        /\ UNCHANGED <<sSession, toC, running, sSubs>>
    BY DEF Remote!CallerFollows, Remote!calleeVars
  <1>3. /\ cSession' \in Nat /\ cSession' > cSession /\ sSession' \in Nat /\ ~(cSession' < sSession')
        /\ toC' \in Seq(Message) /\ sSubs = {}
    BY <1>1, <1>2 DEF CallTypes, Dropped
  <1>4. Dropped'
    BY <1>1, <1>2, <1>3 DEF Dropped
  <1>5. QED
    BY <1>2, <1>3, <1>4, ResetCallerStep

\* The host that is called is in a later session, with nothing of the caller.
LEMMA CalleeLaterStep ==
    ASSUME CallInv, sSession' \in Nat, sSession' > sSession,
           UNCHANGED <<cSession, calls, made, functors, refs, pending, posts, user>>,
           toS' \in Seq(Message), toC' \in Seq(Message), sSubs' = {},
           running' \in [RemoteCallers -> Nat], \A c \in RemoteCallers : running'[c] = running[c] \/ running'[c] = 0
    PROVE  CallInv'
  <1>1. /\ CallTypes /\ InOrder(posts) /\ Dropped /\ Queued \subseteq Message
        /\ \A p \in Queued : Says(p)
        /\ \A d \in RemoteCallers : OfCall(d) /\ Owned(d)
        /\ cSession = sSession => \A d \in sSubs : Kept(d)
        /\ sSubs \subseteq RemoteCallers
    BY Parts
  <1>2. CallTypes'
    BY <1>1 DEF CallTypes
  <1>3. InOrder(posts)' /\ (\A p \in Queued : Says(p))'
    BY <1>1 DEF Queued, Says
  <1>4. ASSUME NEW d \in RemoteCallers
        PROVE  OfCall(d)' /\ Owned(d)'
    BY <1>1, Others
  <1>5. Dropped'
    <2>1. ASSUME NEW c \in RemoteCallers
          PROVE  running'[c] <= sSession' /\ running'[c] # sSession'
      <3>1. running[c] \in Nat /\ running[c] <= sSession /\ sSession \in Nat
        BY <1>1 DEF CallTypes, Dropped
      <3>2. QED
        BY <3>1
    <2>2. QED
      BY <2>1 DEF Dropped
  <1>6. QED
    BY <1>2, <1>3, <1>4, <1>5 DEF CallInv

LEMMA CalleeDropsStep ==
    ASSUME CallInv, Remote!CalleeDrops
    PROVE  CallInv'
  <1>1. CallTypes
    BY Parts
  <1>2. /\ sSession' = sSession + 1 /\ toS' = <<>> /\ toC' = <<>> /\ sSubs' = {}
        /\ running' = running \/ running' = [c \in RemoteCallers |-> 0]
        /\ UNCHANGED <<cSession, calls, made, functors, refs, pending, posts, user>>
    BY DEF Remote!CalleeDrops, Remote!callerVars
  <1>3. sSession' \in Nat /\ sSession' > sSession /\ running' \in [RemoteCallers -> Nat]
    BY <1>1, <1>2 DEF CallTypes
  <1>4. \A c \in RemoteCallers : running'[c] = running[c] \/ running'[c] = 0
    BY <1>2
  <1>5. QED
    BY <1>2, <1>3, <1>4, CalleeLaterStep

LEMMA CalleeFollowsStep ==
    ASSUME CallInv, Remote!CalleeFollows
    PROVE  CallInv'
  <1>1. CallTypes
    BY Parts
  <1>2. /\ sSession < cSession /\ sSession' = cSession /\ toC' = <<>> /\ sSubs' = {}
        /\ UNCHANGED <<cSession, toS, calls, made, functors, refs, pending, posts, user, running>>
    BY DEF Remote!CalleeFollows, Remote!callerVars
  <1>3. sSession' \in Nat /\ sSession' > sSession /\ running' \in [RemoteCallers -> Nat] /\ toS' \in Seq(Message)
    BY <1>1, <1>2 DEF CallTypes
  <1>4. QED
    BY <1>2, <1>3, CalleeLaterStep

\* What a call keeps and who owns it, in every order of answers, messages and
\* resets: the invariant that makes KeptWhileUsed inductive.
THEOREM CallInvariance == Spec => []CallInv
  <1>0. IsFiniteSet(RemoteCallers)
    BY DistributedAssumption
  <1>1. Init => CallInv
    <2>1. SUFFICES ASSUME Remote!Init
                   PROVE  CallInv
      BY DEF Init
    <2>2. CallTypes
      BY <2>1 DEF Remote!Init, CallTypes
    <2>3. posts = <<>> /\ functors = {} /\ refs = {} /\ pending = {} /\ sSubs = {} /\ cSession = 1 /\ sSession = 1
      BY <2>1 DEF Remote!Init
    <2>4. Queued = {} /\ InOrder(posts)
      BY <2>3 DEF Queued, Remote!Range, InOrder
    <2>5. \A c \in RemoteCallers : calls[c] = "new" /\ made[c] = 0 /\ user[c] = "none" /\ running[c] = 0
      BY <2>1 DEF Remote!Init
    <2>6. ASSUME NEW c \in RemoteCallers
          PROVE  OfCall(c) /\ Owned(c)
      <3>1. calls[c] = "new" /\ made[c] = 0 /\ user[c] = "none"
        BY <2>5
      <3>2. OfCall(c)
        BY <2>3, <3>1 DEF OfCall
      <3>3. Owned(c)
        BY <2>3, <2>4, <3>1 DEF Owned
      <3>4. QED
        BY <3>2, <3>3
    <2>7. Dropped
      BY <2>3, <2>5 DEF Dropped
    <2>8. QED
      BY <2>2, <2>3, <2>4, <2>6, <2>7 DEF CallInv
  <1>2. ASSUME CallInv, Remote!Next
        PROVE  CallInv'
    <2>1. ASSUME NEW c \in RemoteCallers,
                 Remote!ReplyToRemoteCall(c) \/ Remote!SubscriptionEnds(c)
                 \/ Remote!CallRemote(c) \/ Remote!DestroySubscription(c)
          PROVE  CallInv'
      BY <1>2, <2>1, ReplyToRemoteCallStep, SubscriptionEndsStep, CallRemoteStep, DestroySubscriptionStep
    <2>2. CASE Remote!ApplyRemoteCallResult
      BY <1>2, <2>2, ApplyRemoteCallResultStep
    <2>3. CASE Remote!HandleSubscriptionDestroyed
      BY <1>2, <2>3, HandleSubscriptionDestroyedStep
    <2>4. CASE Remote!ReadResult \/ Remote!ReadException
      BY <1>2, <2>4, ReadStep
    <2>5. CASE Remote!CleanupRemoteContext
      BY <1>2, <2>5, CleanupRemoteContextStep
    <2>6. CASE Remote!RegisterRemoteSubscription
      BY <1>2, <2>6, RegisterRemoteSubscriptionStep
    <2>7. CASE Remote!DestroyRemoteSubscription
      BY <1>2, <2>7, DestroyRemoteSubscriptionStep
    <2>8. CASE Remote!ApplyRemoteCall
      BY <1>2, <2>8, ApplyRemoteCallStep
    <2>9. CASE Remote!HandleDestroySubscription
      BY <1>2, <2>9, HandleDestroySubscriptionStep
    <2>10. CASE Remote!CallerFollows
      BY <1>0, <1>2, <2>10, CallerFollowsStep
    <2>11. CASE Remote!CalleeFollows
      BY <1>2, <2>11, CalleeFollowsStep
    <2>12. CASE Remote!CallerDrops
      BY <1>0, <1>2, <2>12, CallerDropsStep
    <2>13. CASE Remote!CalleeDrops
      BY <1>2, <2>13, CalleeDropsStep
    <2>14. QED
      BY <1>2, <2>1, <2>2, <2>3, <2>4, <2>5, <2>6, <2>7, <2>8, <2>9, <2>10, <2>11, <2>12, <2>13
         DEF Remote!Next, Remote!Progress
  <1>3. ASSUME CallInv, UNCHANGED remoteVars
        PROVE  CallInv'
    BY <1>3 DEF remoteVars, CallInv, CallTypes, Queued, Says, OfCall, Owned, Queues, Dropped, Kept
  <1>4. [Next]_vars => Remote!Next \/ UNCHANGED remoteVars
    BY DEF Next, Only, vars
  <1>5. CallInv /\ [Next]_vars => CallInv'
    BY <1>2, <1>3, <1>4
  <1>6. QED
    BY <1>1, <1>5, PTL DEF Spec

\* A functor stays published exactly while something will still see to it, and no
\* subscription of a session that lasts is forgotten, for any number of calls and
\* sessions (fp_RegisterRemoteSubscription, fp_ResetHostState).
THEOREM FunctorsKeptWhileUsed == Spec => []KeptWhileUsed
  <1>1. ASSUME CallInv
        PROVE  KeptWhileUsed
    <2>1. /\ CallTypes /\ InOrder(posts) /\ Dropped /\ Queued \subseteq Message
          /\ \A p \in Queued : Says(p)
          /\ \A d \in RemoteCallers : OfCall(d) /\ Owned(d)
          /\ cSession = sSession => \A d \in sSubs : Kept(d)
          /\ sSubs \subseteq RemoteCallers
      BY <1>1, Parts
    <2>2. ASSUME NEW c \in RemoteCallers
          PROVE  c \in functors <=>
                    \/ calls[c] = "outstanding"
                    \/ \E p \in Remote!PostsOf(c) : p.kind # "destroy" /\ made[c] = cSession
                    \/ c \in refs /\ c \notin pending /\ user[c] \in {"held", "destroying"}
      <3>1. \A p : p \in Remote!PostsOf(c) <=> p \in Queued /\ p.for = c
        BY DEF Remote!PostsOf, Queued
      <3>2. Owned(c)
        BY <2>1
      <3>3. QED
        BY <3>1, <3>2 DEF Owned
    <2>3. ASSUME NEW c \in sSubs, cSession = sSession
          PROVE  \/ Remote!P("value", c) \in Remote!Range(toC)
                 \/ Remote!P("destroySubscription", c) \in Remote!Range(toS)
                 \/ Remote!PostsOf(c) # {} \/ user[c] = "held"
      <3>1. \A m \in Message : m = [kind |-> m.kind, for |-> m.for]
        BY DEF Message
      <3>2. Remote!Range(toC) \subseteq Message /\ Remote!Range(toS) \subseteq Message
        BY <2>1, InQueue DEF CallTypes
      <3>3. Queues(toC, c, "value") => Remote!P("value", c) \in Remote!Range(toC)
        BY <3>1, <3>2 DEF Queues, Remote!P
      <3>4. Queues(toS, c, "destroySubscription") => Remote!P("destroySubscription", c) \in Remote!Range(toS)
        BY <3>1, <3>2 DEF Queues, Remote!P
      <3>5. \A k : Queues(posts, c, k) => Remote!PostsOf(c) # {}
        BY DEF Queues, Remote!PostsOf
      <3>6. Kept(c)
        BY <2>1, <2>3
      <3>7. QED
        BY <3>3, <3>4, <3>5, <3>6 DEF Kept
    <2>4. QED
      BY <2>2, <2>3 DEF KeptWhileUsed, Remote!KeptWhileUsed, Remote!InSession
  <1>2. QED
    BY <1>1, CallInvariance, PTL

----------------------------------------------------------------------------
(* Subscriptions of published actors.  What a subscriber was told and is     *)
(* still to be told adds up to the actors of the host.                       *)

Waits == [id : Nat, session : Nat]
News == [kind : {"publish", "unpublish", "new", "removed"}, actor : Actors, wait : Waits]

\* Notifications s bring a subscriber that knows k to r, and none is of no use.
Follows(k, s, r) ==
    /\ Publishing!After(k, s, Len(s)) = r
    /\ \A n \in DOMAIN s : s[n].kind = "new" <=> s[n].actor \notin Publishing!After(k, s, n - 1)

\* What the notifications t are about.
ActorsOf(t) == {t[j].actor : j \in DOMAIN t}

PubTypes ==
    /\ pSession \in Nat /\ rSession \in Nat /\ nextWait \in Nat
    /\ published \subseteq Actors /\ remoteActors \subseteq Actors /\ subscribed \subseteq Subscribers
    /\ toR \in Seq(News) /\ notes \in [Subscribers -> Seq(News)]
    /\ known \in [Subscribers -> SUBSET Actors]

PubInv == PubTypes /\ \A i \in subscribed : Follows(known[i], notes[i], remoteActors)

LEMMA AfterNone ==
    ASSUME NEW k \in SUBSET Actors, NEW s
    PROVE  Publishing!After(k, s, 0) = k
  <1>1. 1..0 = {}
    OBVIOUS
  <1>2. QED
    BY <1>1 DEF Publishing!After

\* The last notification about an actor tells.
LEMMA AfterNext ==
    ASSUME NEW k \in SUBSET Actors, NEW s, NEW n \in Nat
    PROVE  Publishing!After(k, s, n + 1) =
              {a \in Actors : IF s[n + 1].actor = a THEN s[n + 1].kind = "new" ELSE a \in Publishing!After(k, s, n)}
  <1>1. /\ 1..(n + 1) = (1..n) \cup {n + 1} /\ \A l \in 1..n : n + 1 > l
        /\ \A j \in 1..n : ~(j > n + 1) /\ ~(n + 1 > n + 1)
    OBVIOUS
  <1>2. ASSUME NEW a \in Actors, s[n + 1].actor = a
        PROVE  a \in Publishing!After(k, s, n + 1) <=> s[n + 1].kind = "new"
    BY <1>1, <1>2 DEF Publishing!After
  <1>3. ASSUME NEW a \in Actors, s[n + 1].actor # a
        PROVE  a \in Publishing!After(k, s, n + 1) <=> a \in Publishing!After(k, s, n)
    <2>1. (a \in k /\ \A j \in 1..(n + 1) : s[j].actor # a) <=> (a \in k /\ \A j \in 1..n : s[j].actor # a)
      BY <1>1, <1>3
    <2>2. (\E l \in 1..(n + 1) : s[l].kind = "new" /\ s[l].actor = a /\ \A j \in 1..(n + 1) : j > l => s[j].actor # a)
          <=> (\E l \in 1..n : s[l].kind = "new" /\ s[l].actor = a /\ \A j \in 1..n : j > l => s[j].actor # a)
      BY <1>1, <1>3
    <2>3. QED
      BY <2>1, <2>2 DEF Publishing!After
  <1>4. Publishing!After(k, s, n + 1) \subseteq Actors
    BY DEF Publishing!After
  <1>5. QED
    BY <1>2, <1>3, <1>4

\* Only the kinds and actors of the first n matter.
LEMMA AfterSame ==
    ASSUME NEW k, NEW s, NEW t, NEW n \in Nat, \A j \in 1..n : s[j].actor = t[j].actor /\ (s[j].kind = t[j].kind)
    PROVE  Publishing!After(k, s, n) = Publishing!After(k, t, n)
  BY DEF Publishing!After

\* The first notification can be handled first.
LEMMA AfterHead ==
    ASSUME NEW k \in SUBSET Actors, NEW s, NEW t, NEW n \in Nat, \A j \in 1..n : t[j] = s[j + 1],
           s[1].actor \in Actors, NEW h, h = IF s[1].kind = "new" THEN k \cup {s[1].actor} ELSE k \ {s[1].actor}
    PROVE  Publishing!After(k, s, n + 1) = Publishing!After(h, t, n)
  <1>1. /\ \A j \in 1..n : j + 1 \in 1..(n + 1) /\ j + 1 # 1 /\ j + 1 > 1 /\ ~(1 > j + 1)
        /\ \A j \in 1..(n + 1) : j = 1 \/ (j - 1 \in 1..n /\ (j - 1) + 1 = j)
        /\ \A j, l \in 1..n : j > l <=> j + 1 > l + 1
        /\ 1 \in 1..(n + 1)
    OBVIOUS
  <1>2. ASSUME NEW a \in Actors
        PROVE  a \in Publishing!After(k, s, n + 1) <=> a \in Publishing!After(h, t, n)
    <2>1. (\A j \in 1..(n + 1) : s[j].actor # a) <=> (s[1].actor # a /\ \A j \in 1..n : t[j].actor # a)
      BY <1>1
    <2>2. (\E l \in 1..(n + 1) : s[l].kind = "new" /\ s[l].actor = a /\ \A j \in 1..(n + 1) : j > l => s[j].actor # a)
          <=> \/ s[1].kind = "new" /\ s[1].actor = a /\ \A j \in 1..n : t[j].actor # a
              \/ \E l \in 1..n : t[l].kind = "new" /\ t[l].actor = a /\ \A j \in 1..n : j > l => t[j].actor # a
      <3>1. ASSUME NEW l \in 1..(n + 1), s[l].kind = "new", s[l].actor = a, \A j \in 1..(n + 1) : j > l => s[j].actor # a
            PROVE  \/ s[1].kind = "new" /\ s[1].actor = a /\ \A j \in 1..n : t[j].actor # a
                   \/ \E m \in 1..n : t[m].kind = "new" /\ t[m].actor = a /\ \A j \in 1..n : j > m => t[j].actor # a
        <4>1. CASE l = 1
          BY <1>1, <3>1, <4>1
        <4>2. CASE l # 1
          <5>1. l - 1 \in 1..n /\ t[l - 1] = s[l]
            BY <1>1, <4>2
          <5>2. \A j \in 1..n : j > l - 1 => t[j].actor # a
            <6>1. \A j \in 1..n : j > l - 1 => j + 1 > l /\ j + 1 \in 1..(n + 1)
              OBVIOUS
            <6>2. QED
              BY <3>1, <6>1
          <5>3. QED
            BY <3>1, <5>1, <5>2
        <4>3. QED
          BY <4>1, <4>2
      <3>2. ASSUME s[1].kind = "new", s[1].actor = a, \A j \in 1..n : t[j].actor # a
            PROVE  \E l \in 1..(n + 1) : s[l].kind = "new" /\ s[l].actor = a /\ \A j \in 1..(n + 1) : j > l => s[j].actor # a
        <4>1. \A j \in 1..(n + 1) : j > 1 => j - 1 \in 1..n /\ t[j - 1] = s[j]
          BY <1>1
        <4>2. QED
          BY <1>1, <3>2, <4>1
      <3>3. ASSUME NEW m \in 1..n, t[m].kind = "new", t[m].actor = a, \A j \in 1..n : j > m => t[j].actor # a
            PROVE  \E l \in 1..(n + 1) : s[l].kind = "new" /\ s[l].actor = a /\ \A j \in 1..(n + 1) : j > l => s[j].actor # a
        <4>1. m + 1 \in 1..(n + 1) /\ s[m + 1] = t[m]
          BY <1>1
        <4>2. \A j \in 1..(n + 1) : j > m + 1 => j - 1 \in 1..n /\ j - 1 > m /\ t[j - 1] = s[j]
          <5>1. \A j \in 1..(n + 1) : j > m + 1 => j - 1 \in 1..n /\ j - 1 > m /\ (j - 1) + 1 = j
            OBVIOUS
          <5>2. QED
            BY <5>1
        <4>3. \A j \in 1..(n + 1) : j > m + 1 => s[j].actor # a
          BY <3>3, <4>2
        <4>4. QED
          BY <3>3, <4>1, <4>3
      <3>4. QED
        BY <3>1, <3>2, <3>3
    <2>3. QED
      BY <2>1, <2>2 DEF Publishing!After
  <1>3. QED
    BY <1>2 DEF Publishing!After

\* More notifications, each of another actor and of the same kind.
LEMMA FollowsMore ==
    ASSUME NEW k \in SUBSET Actors, NEW s \in Seq(News), NEW r \in SUBSET Actors, Follows(k, s, r),
           NEW t \in Seq(News), NEW add \in BOOLEAN, NEW told, told = ActorsOf(t),
           \A i, j \in DOMAIN t : t[i].actor = t[j].actor => i = j,
           \A j \in DOMAIN t : t[j].kind = "new" <=> add,
           add => told \cap r = {}, ~add => told \subseteq r
    PROVE  Follows(k, s \o t, IF add THEN r \cup told ELSE r \ told)
  <1> DEFINE q == s \o t
             After(n) == Publishing!After(k, q, Len(s) + n)
  <1>1. /\ q \in Seq(News) /\ Len(s) \in Nat /\ Len(t) \in Nat /\ Len(q) = Len(s) + Len(t)
        /\ DOMAIN s = 1..Len(s) /\ DOMAIN t = 1..Len(t) /\ DOMAIN q = 1..(Len(s) + Len(t))
        /\ \A j \in 1..Len(s) : q[j] = s[j]
        /\ \A j \in 1..Len(t) : q[Len(s) + j] = t[j]
    OBVIOUS
  <1> HIDE DEF q
  <1>a. \A j \in DOMAIN t : t[j] \in News /\ t[j].actor \in Actors /\ t[j].actor \in told
    <2>1. TAKE j \in DOMAIN t
    <2>2. t[j] \in News
      OBVIOUS
    <2>3. t[j].actor \in Actors
      BY <2>2 DEF News
    <2>4. t[j].actor \in told
      BY DEF ActorsOf
    <2>5. QED
      BY <2>2, <2>3, <2>4
  <1>b. told \subseteq Actors /\ \A a \in told : \E j \in 1..Len(t) : t[j].actor = a
    BY <1>1, <1>a DEF ActorsOf
  <1>2. \A n \in 0..Len(s) : Publishing!After(k, q, n) = Publishing!After(k, s, n)
    <2>1. SUFFICES ASSUME NEW n \in 0..Len(s)
                   PROVE  Publishing!After(k, q, n) = Publishing!After(k, s, n)
      OBVIOUS
    <2>2. n \in Nat /\ \A j \in 1..n : q[j] = s[j]
      BY <1>1
    <2>3. QED
      BY <2>2, AfterSame
  <1>3. After(0) = r
    BY <1>1, <1>2 DEF Follows
  <1>4. ASSUME NEW n \in 0..Len(t), NEW a \in Actors
        PROVE  a \in After(n) <=> IF \E j \in 1..n : t[j].actor = a THEN add ELSE a \in r
    <2>1. a \in r <=> a \in Publishing!After(k, q, Len(s))
      BY <1>1, <1>3
    <2>2. /\ 1..Len(s) \subseteq 1..(Len(s) + n) /\ \A j \in 1..n : Len(s) + j \in 1..(Len(s) + n)
          /\ \A j \in 1..(Len(s) + n) : j \in 1..Len(s) \/ (j - Len(s) \in 1..n /\ q[j] = t[j - Len(s)] /\ j = Len(s) + (j - Len(s)))
          /\ \A j \in 1..n : \A l \in 1..Len(s) : Len(s) + j > l
          /\ \A j \in 1..n : q[Len(s) + j] = t[j]
      <3>1. PICK l \in Nat : l = Len(s)
        BY <1>1
      <3>2. /\ 1..l \subseteq 1..(l + n) /\ \A j \in 1..n : l + j \in 1..(l + n)
            /\ \A j \in 1..(l + n) : j \in 1..l \/ (j - l \in 1..n /\ j = l + (j - l))
            /\ \A j \in 1..n : \A m \in 1..l : l + j > m
        OBVIOUS
      <3>3. 1..n \subseteq 1..Len(t)
        BY <1>1
      <3>4. QED
        BY <1>1, <3>1, <3>2, <3>3
    <2>3. CASE \E j \in 1..n : t[j].actor = a
      <3>1. PICK j \in 1..n : t[j].actor = a
        BY <2>3
      <3>2. j \in DOMAIN t /\ q[Len(s) + j].actor = a /\ (q[Len(s) + j].kind = "new" <=> add)
        <4>1. j \in DOMAIN t /\ q[Len(s) + j] = t[j]
          BY <1>1, <3>1
        <4>2. QED
          BY <3>1, <4>1
      <3>3. \A l \in 1..(Len(s) + n) : l > Len(s) + j => q[l].actor # a
        <4>1. SUFFICES ASSUME NEW l \in 1..(Len(s) + n), l > Len(s) + j, q[l].actor = a
                       PROVE  FALSE
          OBVIOUS
        <4>2. l - Len(s) \in 1..n /\ q[l] = t[l - Len(s)] /\ l - Len(s) \in DOMAIN t /\ l - Len(s) # j
          BY <1>1, <2>2, <3>1, <4>1
        <4>3. QED
          BY <3>1, <3>2, <4>1, <4>2
      <3>4. CASE add
        BY <2>2, <3>2, <3>3, <3>4 DEF Publishing!After
      <3>5. CASE ~add
        <4>1. SUFFICES ASSUME NEW l \in 1..(Len(s) + n), q[l].kind = "new", q[l].actor = a,
                              \A m \in 1..(Len(s) + n) : m > l => q[m].actor # a
                       PROVE  FALSE
          BY <2>2, <3>2, <3>5 DEF Publishing!After
        <4>2. ~(Len(s) + j > l)
          BY <2>2, <3>2, <4>1
        <4>3. l \notin 1..Len(s)
          BY <2>2, <4>2
        <4>4. l - Len(s) \in 1..n /\ q[l] = t[l - Len(s)] /\ l - Len(s) \in DOMAIN t
          BY <1>1, <2>2, <4>3
        <4>5. QED
          BY <3>5, <4>1, <4>4
      <3>6. QED
        BY <3>1, <3>4, <3>5
    <2>4. CASE ~\E j \in 1..n : t[j].actor = a
      <3>1. \A l \in 1..(Len(s) + n) : l \notin 1..Len(s) => q[l].actor # a
        BY <2>2, <2>4
      <3>2. (\A l \in 1..(Len(s) + n) : q[l].actor # a) <=> (\A l \in 1..Len(s) : q[l].actor # a)
        BY <2>2, <3>1
      <3>3. (\E l \in 1..(Len(s) + n) : q[l].kind = "new" /\ q[l].actor = a
                                        /\ \A j \in 1..(Len(s) + n) : j > l => q[j].actor # a)
            <=> (\E l \in 1..Len(s) : q[l].kind = "new" /\ q[l].actor = a
                                      /\ \A j \in 1..Len(s) : j > l => q[j].actor # a)
        BY <2>2, <3>1
      <3>4. QED
        BY <2>1, <2>4, <3>2, <3>3 DEF Publishing!After
    <2>5. QED
      BY <2>3, <2>4
  <1>5. \A n : After(n) \subseteq Actors
    BY DEF Publishing!After
  <1>6. Publishing!After(k, q, Len(q)) = IF add THEN r \cup told ELSE r \ told
    <2>1. Len(t) \in 0..Len(t) /\ Publishing!After(k, q, Len(q)) = After(Len(t))
      BY <1>1
    <2> HIDE DEF After
    <2>2. \A a \in Actors : a \in After(Len(t)) <=> IF a \in told THEN add ELSE a \in r
      <3>1. \A a \in Actors : a \in told <=> \E j \in 1..Len(t) : t[j].actor = a
        <4>1. \A j \in 1..Len(t) : t[j].actor \in told
          BY <1>1, <1>a
        <4>2. QED
          BY ONLY <1>b, <4>1
      <3>2. QED
        BY <1>4, <2>1, <3>1
    <2>3. told \subseteq Actors
      BY <1>b
    <2>4. QED
      BY <1>5, <2>1, <2>2, <2>3
  <1>7. ASSUME NEW n \in DOMAIN q
        PROVE  q[n].kind = "new" <=> q[n].actor \notin Publishing!After(k, q, n - 1)
    <2>1. CASE n \in 1..Len(s)
      <3>1. n - 1 \in 0..Len(s) /\ q[n] = s[n] /\ n \in DOMAIN s
        BY <1>1, <2>1
      <3>2. QED
        BY <1>2, <3>1 DEF Follows
    <2>2. CASE n \notin 1..Len(s)
      <3>1. PICK m \in 1..Len(t) : n = Len(s) + m
        <4>1. n - Len(s) \in 1..Len(t) /\ n = Len(s) + (n - Len(s))
          BY <1>1, <2>2
        <4>2. QED
          BY <4>1
      <3>2. m - 1 \in 0..Len(t) /\ n - 1 = Len(s) + (m - 1) /\ q[n] = t[m] /\ m \in DOMAIN t /\ m \notin 1..(m - 1)
            /\ \A j \in 1..(m - 1) : j \in DOMAIN t /\ j # m
        BY <1>1, <3>1
      <3>3. Publishing!After(k, q, n - 1) = After(m - 1)
        BY <3>2
      <3>4. t[m].actor \in Actors /\ t[m].actor \in told
        BY <1>a, <3>2
      <3>5. ~\E j \in 1..(m - 1) : t[j].actor = t[m].actor
        BY <3>2
      <3> HIDE DEF After
      <3>6. t[m].actor \in After(m - 1) <=> t[m].actor \in r
        BY <1>4, <3>2, <3>4, <3>5
      <3>7. t[m].actor \in r <=> ~add
        BY <3>4
      <3>8. QED
        BY <3>2, <3>3, <3>6, <3>7
    <2>3. QED
      BY <2>1, <2>2
  <1>8. QED
    BY <1>6, <1>7 DEF Follows, q

\* The notification that is handled moves to what is known.
LEMMA FollowsHead ==
    ASSUME NEW k \in SUBSET Actors, NEW s \in Seq(News), s # <<>>, NEW r, Follows(k, s, r),
           NEW h, h = IF Head(s).kind = "new" THEN k \cup {Head(s).actor} ELSE k \ {Head(s).actor}
    PROVE  Follows(h, Tail(s), r)
  <1> DEFINE t == Tail(s)
  <1>1. /\ t \in Seq(News) /\ Len(s) \in Nat \ {0} /\ Len(t) = Len(s) - 1 /\ Head(s) = s[1]
        /\ \A j \in 1..Len(t) : t[j] = s[j + 1]
        /\ DOMAIN t = 1..Len(t) /\ Len(t) + 1 = Len(s) /\ Len(t) \in Nat /\ DOMAIN s = 1..Len(s)
        /\ s[1] \in News
    OBVIOUS
  <1>2. s[1].actor \in Actors
    BY <1>1 DEF News
  <1> HIDE DEF t
  <1>3. ASSUME NEW n \in 0..Len(t)
        PROVE  Publishing!After(k, s, n + 1) = Publishing!After(h, t, n)
    <2>1. n \in Nat /\ \A j \in 1..n : t[j] = s[j + 1]
      BY <1>1
    <2>2. h = IF s[1].kind = "new" THEN k \cup {s[1].actor} ELSE k \ {s[1].actor}
      BY <1>1
    <2>3. QED
      BY <1>2, <2>1, <2>2, AfterHead
  <1>4. Publishing!After(h, t, Len(t)) = r
    <2>1. Len(t) \in 0..Len(t) /\ Publishing!After(k, s, Len(s)) = r
      BY <1>1 DEF Follows
    <2>2. QED
      BY <1>1, <1>3, <2>1
  <1>5. ASSUME NEW n \in DOMAIN t
        PROVE  t[n].kind = "new" <=> t[n].actor \notin Publishing!After(h, t, n - 1)
    <2>1. n + 1 \in DOMAIN s /\ t[n] = s[n + 1] /\ n - 1 \in 0..Len(t) /\ (n + 1) - 1 = (n - 1) + 1
      BY <1>1
    <2>2. s[n + 1].kind = "new" <=> s[n + 1].actor \notin Publishing!After(k, s, (n + 1) - 1)
      BY <2>1 DEF Follows
    <2>3. QED
      BY <1>3, <2>1, <2>2
  <1>6. QED
    BY <1>4, <1>5 DEF Follows, t

\* Which wait a notification belongs to does not matter.
LEMMA FollowsSame ==
    ASSUME NEW k, NEW s \in Seq(News), NEW t \in Seq(News), NEW r, Follows(k, s, r), Len(t) = Len(s),
           \A j \in 1..Len(s) : s[j].actor = t[j].actor /\ (s[j].kind = t[j].kind)
    PROVE  Follows(k, t, r)
  <1>1. Len(s) \in Nat /\ DOMAIN s = 1..Len(s) /\ DOMAIN t = 1..Len(s)
    OBVIOUS
  <1>2. ASSUME NEW n \in 0..Len(s)
        PROVE  Publishing!After(k, s, n) = Publishing!After(k, t, n)
    <2>1. n \in Nat /\ \A j \in 1..n : s[j].actor = t[j].actor /\ (s[j].kind = t[j].kind)
      BY <1>1
    <2>2. QED
      BY <2>1, AfterSame
  <1>3. Publishing!After(k, t, Len(t)) = r
    BY <1>1, <1>2 DEF Follows
  <1>4. ASSUME NEW n \in DOMAIN t
        PROVE  t[n].kind = "new" <=> t[n].actor \notin Publishing!After(k, t, n - 1)
    <2>1. n \in DOMAIN s /\ n - 1 \in 0..Len(s) /\ n \in 1..Len(s)
      BY <1>1
    <2>2. QED
      BY <1>2, <2>1 DEF Follows
  <1>5. QED
    BY <1>3, <1>4 DEF Follows

\* A set of actors put in some order.
LEMMA OrderedActors ==
    ASSUME NEW S \in SUBSET Actors
    PROVE  LET f == Publishing!SetToSeq(S)
               n == Publishing!Cardinality(S) IN
           /\ n \in Nat /\ f \in [1..n -> S]
           /\ \A i, j \in 1..n : f[i] = f[j] => i = j
           /\ \A a \in S : \E i \in 1..n : f[i] = a
  <1>0. IsFiniteSet(S)
    BY DistributedAssumption, FS_Subset
  <1>1. Cardinality(S) \in Nat /\ ExistsBijection(1..Cardinality(S), S)
    BY <1>0, FS_CardinalityType
  <1>2. \E f \in [1..Cardinality(S) -> S] : Publishing!IsInjective(f)
    BY <1>1 DEF ExistsBijection, Bijection, Injection, IsInjective, Publishing!IsInjective
  <1>3. PICK f : f = Publishing!SetToSeq(S)
    OBVIOUS
  <1>c. Publishing!Cardinality(S) = Cardinality(S)
    BY Zenon DEF Publishing!Cardinality, Cardinality
  <1>4. f \in [1..Cardinality(S) -> S] /\ Publishing!IsInjective(f)
    BY <1>2, <1>3, <1>c DEF Publishing!SetToSeq
  <1>5. \A i, j \in 1..Cardinality(S) : f[i] = f[j] => i = j
    BY <1>4 DEF Publishing!IsInjective
  <1>6. PICK T \in SUBSET S : T = {f[i] : i \in 1..Cardinality(S)}
    BY <1>4
  <1>7. f \in Bijection(1..Cardinality(S), T)
    BY <1>4, <1>5, <1>6 DEF Bijection, Injection, Surjection, IsInjective
  <1>8. Cardinality(T) = Cardinality(S)
    BY <1>1, <1>7, FS_CountingElements DEF ExistsBijection
  <1>9. T = S
    BY <1>0, <1>8, FS_Subset
  <1>10. QED
    BY <1>1, <1>3, <1>4, <1>5, <1>6, <1>9, <1>c

\* Notifications of one kind, about each actor of a set.
About(S, k, w) ==
    [n \in 1..Publishing!Cardinality(S) |-> [kind |-> k, actor |-> Publishing!SetToSeq(S)[n], wait |-> w]]

Tells(S, k, t) ==
    /\ t \in Seq(News) /\ \A j \in DOMAIN t : t[j].kind = k
    /\ S = ActorsOf(t)
    /\ \A i, j \in DOMAIN t : t[i].actor = t[j].actor => i = j

LEMMA ToldOf ==
    ASSUME NEW S \in SUBSET Actors, NEW k \in {"publish", "unpublish", "new", "removed"}, NEW w \in Waits,
           NEW t, t = About(S, k, w)
    PROVE  Tells(S, k, t)
  <1>1. PICK n : n = Publishing!Cardinality(S)
    OBVIOUS
  <1>2. PICK f : f = Publishing!SetToSeq(S)
    OBVIOUS
  <1>3. /\ n \in Nat /\ f \in [1..n -> S]
        /\ \A i, j \in 1..n : f[i] = f[j] => i = j
        /\ \A a \in S : \E i \in 1..n : f[i] = a
    BY <1>1, <1>2, OrderedActors
  <1>4. t = [i \in 1..n |-> [kind |-> k, actor |-> f[i], wait |-> w]]
    BY <1>1, <1>2 DEF About
  <1>5. \A i \in 1..n : f[i] \in S /\ [kind |-> k, actor |-> f[i], wait |-> w] \in News
    BY <1>3 DEF News
  <1>6. t \in [1..n -> News] /\ \A i \in 1..n : t[i].kind = k /\ t[i].actor = f[i]
    <2>1. t \in [1..n -> News]
      BY ONLY <1>4, <1>5
    <2>2. \A i \in 1..n : t[i] = [kind |-> k, actor |-> f[i], wait |-> w]
      BY ONLY <1>4
    <2>3. QED
      BY ONLY <2>1, <2>2
  <1>7. t \in Seq(News) /\ DOMAIN t = 1..n
    BY ONLY <1>3, <1>6
  <1>8. S = ActorsOf(t)
    BY ONLY <1>3, <1>5, <1>6, <1>7 DEF ActorsOf
  <1>9. \A i, j \in DOMAIN t : t[i].actor = t[j].actor => i = j
    BY ONLY <1>3, <1>6, <1>7
  <1>10. QED
    BY ONLY <1>6, <1>7, <1>8, <1>9 DEF Tells

\* A step that tells the subscribers nothing.
LEMMA QuietPubStep ==
    ASSUME PubInv, UNCHANGED <<remoteActors, notes, known>>, subscribed' \subseteq subscribed,
           pSession' \in Nat, rSession' \in Nat, nextWait' \in Nat, published' \subseteq Actors, toR' \in Seq(News)
    PROVE  PubInv'
  BY DEF PubInv, PubTypes

\* A step that tells every subscriber the same.
LEMMA TellStep ==
    ASSUME PubInv, UNCHANGED <<subscribed, known, published, nextWait>>,
           pSession' \in Nat, rSession' \in Nat, toR' \in Seq(News),
           NEW t \in Seq(News), NEW add \in BOOLEAN, NEW told, told = ActorsOf(t),
           \A i, j \in DOMAIN t : t[i].actor = t[j].actor => i = j,
           \A j \in DOMAIN t : t[j].kind = "new" <=> add,
           add => told \cap remoteActors = {}, ~add => told \subseteq remoteActors,
           remoteActors' = IF add THEN remoteActors \cup told ELSE remoteActors \ told,
           NEW base \in [Subscribers -> Seq(News)],
           \A i \in subscribed : Follows(known[i], base[i], remoteActors),
           \A i \in subscribed : notes'[i] = base[i] \o t, notes' \in [Subscribers -> Seq(News)]
    PROVE  PubInv'
  <1>1. PubTypes
    BY DEF PubInv
  <1>2. remoteActors' \subseteq Actors
    <2>1. \A j \in DOMAIN t : t[j] \in News
      OBVIOUS
    <2>2. told \subseteq Actors
      BY <2>1 DEF News, ActorsOf
    <2>3. QED
      BY <1>1, <2>2 DEF PubTypes
  <1>3. PubTypes'
    BY <1>1, <1>2 DEF PubTypes
  <1>4. ASSUME NEW i \in subscribed
        PROVE  Follows(known[i], notes'[i], remoteActors')
    <2>1. known[i] \in SUBSET Actors /\ remoteActors \in SUBSET Actors /\ base[i] \in Seq(News)
      BY <1>1 DEF PubTypes
    <2>2. Follows(known[i], base[i], remoteActors)
      OBVIOUS
    <2>3. Follows(known[i], base[i] \o t, IF add THEN remoteActors \cup told ELSE remoteActors \ told)
      BY <2>1, <2>2, FollowsMore
    <2>4. QED
      BY <2>3
  <1>5. QED
    BY <1>3, <1>4 DEF PubInv

\* f_PublishActor and the others that send packets to the host.
LEMMA SendStep ==
    ASSUME PubInv, NEW a \in Actors, NEW kinds \in Seq({"publish", "unpublish"}), Publishing!Send(a, kinds)
    PROVE  toR' \in Seq(News) /\ nextWait' \in Nat
  <1>1. toR \in Seq(News) /\ nextWait \in Nat /\ pSession \in Nat
    BY DEF PubInv, PubTypes
  <1>2. CASE ~allowed
    BY <1>1, <1>2 DEF Publishing!Send
  <1>3. CASE allowed
    <2> DEFINE Id(w, n) == IF w THEN [id |-> nextWait + n, session |-> pSession] ELSE Publishing!NoWait
    <2>1. PICK w \in BOOLEAN :
             /\ toR' = toR \o [n \in 1..Len(kinds) |-> [kind |-> kinds[n], actor |-> a, wait |-> Id(w, n)]]
             /\ nextWait' = IF w THEN nextWait + Len(kinds) ELSE nextWait
      BY <1>3 DEF Publishing!Send
    <2>2. Len(kinds) \in Nat /\ \A n \in 1..Len(kinds) : kinds[n] \in {"publish", "unpublish"}
      OBVIOUS
    <2>3. \A n \in Nat : Id(w, n) \in Waits
      BY <1>1 DEF Publishing!NoWait, Waits
    <2> HIDE DEF Id
    <2>4. \A n \in 1..Len(kinds) : [kind |-> kinds[n], actor |-> a, wait |-> Id(w, n)] \in News
      BY <2>2, <2>3 DEF News
    <2>5. PICK t : t = [n \in 1..Len(kinds) |-> [kind |-> kinds[n], actor |-> a, wait |-> Id(w, n)]]
      OBVIOUS
    <2>6. t \in [1..Len(kinds) -> News]
      BY ONLY <2>4, <2>5
    <2>7. t \in Seq(News)
      BY ONLY <2>2, <2>6
    <2>8. toR' = toR \o t
      BY <2>1, <2>5
    <2>9. QED
      BY <1>1, <2>1, <2>2, <2>7, <2>8
  <1>4. QED
    BY <1>2, <1>3

LEMMA PublisherStep ==
    ASSUME PubInv, NEW a \in Actors,
           Publishing!PublishActor(a) \/ Publishing!RemoveActorPublication(a) \/ Publishing!RepublishActorPublication(a)
    PROVE  PubInv'
  <1>1. /\ UNCHANGED <<pSession, rSession, remoteActors, notes, known, subscribed>>
        /\ published' \subseteq published \cup {a}
    BY DEF Publishing!PublishActor, Publishing!RemoveActorPublication, Publishing!RepublishActorPublication,
           Publishing!subscriberVars
  <1>2. PICK kinds \in Seq({"publish", "unpublish"}) : Publishing!Send(a, kinds)
    <2>1. /\ <<"publish">> \in Seq({"publish", "unpublish"}) /\ <<"unpublish">> \in Seq({"publish", "unpublish"})
          /\ <<"unpublish", "publish">> \in Seq({"publish", "unpublish"})
      OBVIOUS
    <2>2. QED
      BY <2>1 DEF Publishing!PublishActor, Publishing!RemoveActorPublication, Publishing!RepublishActorPublication
  <1>3. toR' \in Seq(News) /\ nextWait' \in Nat
    BY <1>2, SendStep
  <1>4. pSession' \in Nat /\ rSession' \in Nat /\ published' \subseteq Actors
    BY <1>1 DEF PubInv, PubTypes
  <1>5. QED
    BY <1>1, <1>3, <1>4, QuietPubStep

\* What is sent of everything that is published.
LEMMA EverythingType ==
    ASSUME PubInv
    PROVE  Publishing!Everything \in Seq(News)
  <1>1. Publishing!NoWait \in Waits /\ published \in SUBSET Actors
    BY DEF Publishing!NoWait, Waits, PubInv, PubTypes
  <1>2. QED
    <2>1. Tells(published, "publish", Publishing!Everything)
      BY <1>1, ToldOf DEF Publishing!Everything, About
    <2>2. QED
      BY <2>1 DEF Tells

LEMMA IdentifiedPubStep ==
    ASSUME PubInv, Publishing!FirstIdentified \/ Publishing!Reconnected \/ Publishing!PublisherFollows
    PROVE  PubInv'
  <1>1. /\ UNCHANGED <<rSession, remoteActors, notes, known, subscribed, published, nextWait>>
        /\ pSession' \in {pSession, rSession}
        /\ toR' = toR \o Publishing!Everything \/ toR' = Publishing!Everything
    BY DEF Publishing!FirstIdentified, Publishing!Reconnected, Publishing!PublisherFollows, Publishing!Identified,
           Publishing!subscriberVars
  <1>2. /\ toR \in Seq(News) /\ pSession' \in Nat /\ rSession' \in Nat /\ nextWait' \in Nat /\ published' \subseteq Actors
    BY <1>1 DEF PubInv, PubTypes
  <1>3. PICK e \in Seq(News) : e = Publishing!Everything
    BY EverythingType
  <1>4. toR' \in Seq(News)
    <2>1. PICK q \in Seq(News) : q = toR
      BY <1>2
    <2>2. toR' = q \o e \/ toR' = e
      BY <1>1, <1>3, <2>1
    <2>3. q \o e \in Seq(News)
      OBVIOUS
    <2>4. QED
      BY <2>2, <2>3
  <1>5. QED
    BY <1>1, <1>2, <1>4, QuietPubStep

LEMMA OtherPubStep ==
    ASSUME PubInv,
           \/ Publishing!HandleFinished \/ Publishing!WaitTimesOut \/ Publishing!PublisherDrops
           \/ \E i \in Subscribers : Publishing!Unsubscribe(i)
    PROVE  PubInv'
  <1>1. /\ UNCHANGED <<rSession, remoteActors, notes, known>>
        /\ subscribed' \subseteq subscribed /\ pSession' \in {pSession, pSession + 1}
        /\ toR' \in {toR, <<>>} /\ published' \in {published, {}} /\ nextWait' \in {nextWait, 0}
    BY DEF Publishing!HandleFinished, Publishing!WaitTimesOut, Publishing!PublisherDrops, Publishing!Unsubscribe,
           Publishing!subscriberVars, Publishing!publisherVars
  <1>2. /\ toR \in Seq(News) /\ pSession \in Nat /\ rSession \in Nat /\ nextWait \in Nat /\ published \subseteq Actors
    BY DEF PubInv, PubTypes
  <1>3. toR' \in Seq(News)
    <2>1. <<>> \in Seq(News)
      OBVIOUS
    <2>2. QED
      BY ONLY <1>1, <1>2, <2>1
  <1>4. pSession' \in Nat /\ nextWait' \in Nat
    BY <1>1, <1>2
  <1>5. QED
    BY <1>1, <1>2, <1>3, <1>4, QuietPubStep

\* The packet that arrives.
LEMMA HeadPacket ==
    ASSUME PubInv, toR # <<>>
    PROVE  Head(toR) \in News /\ Tail(toR) \in Seq(News)
  BY DEF PubInv, PubTypes

\* Every subscriber is told of one actor.
LEMMA TellOneStep ==
    ASSUME PubInv, NEW a \in Actors, NEW w \in Waits, NEW k \in {"new", "removed"},
           UNCHANGED <<pSession, rSession, subscribed, known, published, nextWait>>, toR' \in Seq(News),
           Publishing!Notify(k, <<a>>, w),
           k = "new" => a \notin remoteActors /\ remoteActors' = remoteActors \cup {a},
           k = "removed" => a \in remoteActors /\ remoteActors' = remoteActors \ {a}
    PROVE  PubInv'
  <1>1. PubTypes /\ \A i \in subscribed : Follows(known[i], notes[i], remoteActors)
    BY DEF PubInv
  <1>2. PICK r : r = [kind |-> k, actor |-> a, wait |-> w]
    OBVIOUS
  <1>3. r \in News /\ r.kind = k /\ r.actor = a
    BY <1>2 DEF News
  <1>4. PICK t : t = <<r>>
    OBVIOUS
  <1>5. t \in Seq(News) /\ DOMAIN t = {1} /\ t[1] = r
    BY <1>3, <1>4
  <1>6. PICK q : q = [n \in 1..Len(<<a>>) |-> [kind |-> k, actor |-> <<a>>[n], wait |-> w]]
    OBVIOUS
  <1>7. q = t
    <2>1. Len(<<a>>) = 1 /\ <<a>>[1] = a /\ 1..1 = {1}
      OBVIOUS
    <2>2. DOMAIN q = {1} /\ q[1] = r
      BY <1>2, <1>6, <2>1
    <2>3. q = [n \in {1} |-> r]
      BY <1>2, <1>6, <2>1
    <2>4. t = [n \in {1} |-> r]
      BY <1>4
    <2>5. QED
      BY <2>3, <2>4
  <1>8. notes' = [i \in Subscribers |-> IF i \in subscribed THEN notes[i] \o q ELSE notes[i]]
    BY <1>6 DEF Publishing!Notify
  <1>9. notes' = [i \in Subscribers |-> IF i \in subscribed THEN notes[i] \o t ELSE notes[i]]
    BY <1>7, <1>8
  <1>10. \A i \in Subscribers : notes[i] \in Seq(News) /\ notes[i] \o t \in Seq(News)
    BY <1>1, <1>5 DEF PubTypes
  <1>11. /\ notes' \in [Subscribers -> Seq(News)] /\ notes \in [Subscribers -> Seq(News)]
         /\ \A i \in subscribed : notes'[i] = notes[i] \o t
    BY <1>1, <1>9, <1>10 DEF PubTypes
  <1>12. {a} = ActorsOf(t) /\ \A j \in DOMAIN t : t[j].kind = k
    BY <1>3, <1>5 DEF ActorsOf
  <1>13. \A i, j \in DOMAIN t : t[i].actor = t[j].actor => i = j
    BY <1>5
  <1>14. pSession' \in Nat /\ rSession' \in Nat
    BY <1>1 DEF PubTypes
  <1>15. PICK base : base = notes
    OBVIOUS
  <1>16. /\ base \in [Subscribers -> Seq(News)]
         /\ \A i \in subscribed : Follows(known[i], base[i], remoteActors)
         /\ \A i \in subscribed : notes'[i] = base[i] \o t
    BY <1>1, <1>11, <1>15
  <1>17. PICK add \in BOOLEAN : add <=> k = "new"
    OBVIOUS
  <1>18. /\ \A j \in DOMAIN t : t[j].kind = "new" <=> add
         /\ add => {a} \cap remoteActors = {}
         /\ ~add => {a} \subseteq remoteActors
         /\ remoteActors' = IF add THEN remoteActors \cup {a} ELSE remoteActors \ {a}
    BY <1>12, <1>17
  <1>19. QED
    BY <1>5, <1>11, <1>12, <1>13, <1>14, <1>16, <1>18, TellStep

LEMMA HandlePublishStep ==
    ASSUME PubInv, Publishing!HandlePublish \/ Publishing!HandleUnpublish
    PROVE  PubInv'
  <1>1. toR # <<>> /\ toR' = Tail(toR) /\ UNCHANGED <<pSession, rSession, subscribed, known, published, nextWait>>
    BY DEF Publishing!HandlePublish, Publishing!HandleUnpublish, Publishing!publisherVars
  <1>2. PICK a \in Actors, w \in Waits : a = Head(toR).actor /\ w = Head(toR).wait
    BY <1>1, HeadPacket DEF News
  <1>3. toR' \in Seq(News)
    BY <1>1, HeadPacket
  <1>4. /\ pSession' \in Nat /\ rSession' \in Nat /\ nextWait' \in Nat /\ published' \subseteq Actors
        /\ remoteActors \subseteq Actors
    BY <1>1 DEF PubInv, PubTypes
  <1>5. CASE Publishing!HandlePublish
    <2>1. /\ remoteActors' = remoteActors \cup {a}
          /\ IF a \in remoteActors THEN UNCHANGED notes ELSE Publishing!Notify("new", <<a>>, w)
      BY <1>2, <1>5 DEF Publishing!HandlePublish
    <2>2. CASE a \in remoteActors
      BY <1>1, <1>3, <1>4, <2>1, <2>2, QuietPubStep
    <2>3. CASE a \notin remoteActors
      BY <1>1, <1>3, <2>1, <2>3, TellOneStep
    <2>4. QED
      BY <2>2, <2>3
  <1>6. CASE Publishing!HandleUnpublish
    <2>1. /\ remoteActors' = remoteActors \ {a}
          /\ IF a \in remoteActors THEN Publishing!Notify("removed", <<a>>, w) ELSE UNCHANGED notes
      BY <1>2, <1>6 DEF Publishing!HandleUnpublish
    <2>2. CASE a \notin remoteActors
      BY <1>1, <1>3, <1>4, <2>1, <2>2, QuietPubStep
    <2>3. CASE a \in remoteActors
      BY <1>1, <1>3, <2>1, <2>3, TellOneStep
    <2>4. QED
      BY <2>2, <2>3
  <1>7. QED
    BY <1>5, <1>6

LEMMA HandleStep ==
    ASSUME PubInv, NEW i \in Subscribers, Publishing!Handle(i)
    PROVE  PubInv'
  <1>1. PubTypes /\ \A j \in subscribed : Follows(known[j], notes[j], remoteActors)
    BY DEF PubInv
  <1>2. notes[i] \in Seq(News) /\ known[i] \in SUBSET Actors
    BY <1>1 DEF PubTypes
  <1>3. /\ notes[i] # <<>>
        /\ UNCHANGED <<pSession, rSession, toR, published, nextWait, remoteActors, subscribed>>
        /\ notes' = [notes EXCEPT ![i] = Tail(notes[i])]
    BY DEF Publishing!Handle, Publishing!publisherVars
  <1>4. PICK n \in News : n = Head(notes[i])
    BY <1>2, <1>3
  <1>5. PICK h \in SUBSET Actors : h = IF n.kind = "new" THEN known[i] \cup {n.actor} ELSE known[i] \ {n.actor}
    BY <1>2, <1>4 DEF News
  <1>6. known' = [known EXCEPT ![i] = h]
    BY <1>4, <1>5 DEF Publishing!Handle
  <1>7. Tail(notes[i]) \in Seq(News)
    BY <1>2, <1>3
  <1>8. PubTypes'
    BY <1>1, <1>3, <1>6, <1>7 DEF PubTypes
  <1>9. ASSUME NEW j \in subscribed
        PROVE  Follows(known'[j], notes'[j], remoteActors)
    <2>1. CASE j = i
      <3>1. known'[j] = h /\ notes'[j] = Tail(notes[i])
        BY <1>1, <1>3, <1>6, <2>1 DEF PubTypes
      <3>2. Follows(known[i], notes[i], remoteActors)
        BY <1>1, <2>1
      <3>3. Follows(h, Tail(notes[i]), remoteActors)
        BY <1>2, <1>3, <1>4, <1>5, <3>2, FollowsHead
      <3>4. QED
        BY <3>1, <3>3
    <2>2. CASE j # i
      <3>1. known'[j] = known[j] /\ notes'[j] = notes[j]
        BY <1>1, <1>3, <1>6, <2>2 DEF PubTypes
      <3>2. QED
        BY <1>1, <3>1
    <2>3. QED
      BY <2>1, <2>2
  <1>10. QED
    BY <1>3, <1>8, <1>9 DEF PubInv

\* Nothing was said, so nothing is known.
LEMMA FollowsNothing == Follows({}, <<>>, {})
  <1>1. Len(<<>>) = 0 /\ DOMAIN <<>> = {}
    OBVIOUS
  <1>2. Publishing!After({}, <<>>, 0) = {}
    BY AfterNone
  <1>3. QED
    BY <1>1, <1>2 DEF Follows

\* A new subscriber is told of all actors.
LEMMA SubscribeStep ==
    ASSUME PubInv, NEW i \in Subscribers, Publishing!Subscribe(i)
    PROVE  PubInv'
  <1>1. PubTypes /\ \A j \in subscribed : Follows(known[j], notes[j], remoteActors)
    BY DEF PubInv
  <1>2. Publishing!NoWait \in Waits /\ remoteActors \in SUBSET Actors
    BY <1>1 DEF Publishing!NoWait, Waits, PubTypes
  <1>3. PICK t : t = [n \in 1..Publishing!Cardinality(remoteActors) |->
                        [kind |-> "new", actor |-> Publishing!SetToSeq(remoteActors)[n], wait |-> Publishing!NoWait]]
    OBVIOUS
  <1>4. /\ t \in Seq(News) /\ \A j \in DOMAIN t : t[j].kind = "new"
        /\ remoteActors = ActorsOf(t)
        /\ \A j, l \in DOMAIN t : t[j].actor = t[l].actor => j = l
    <2>1. t = About(remoteActors, "new", Publishing!NoWait)
      BY <1>3 DEF About
    <2>2. Tells(remoteActors, "new", t)
      BY <1>2, <2>1, ToldOf
    <2>3. QED
      BY <2>2 DEF Tells
  <1>5. /\ subscribed' = subscribed \cup {i} /\ known' = [known EXCEPT ![i] = {}] /\ notes' = [notes EXCEPT ![i] = t]
        /\ UNCHANGED <<pSession, rSession, toR, published, nextWait, remoteActors>>
    BY <1>3 DEF Publishing!Subscribe, Publishing!publisherVars
  <1>6. PubTypes'
    BY <1>1, <1>4, <1>5 DEF PubTypes
  <1>7. Follows({}, t, remoteActors)
    <2>1. {} \in SUBSET Actors /\ <<>> \in Seq(News) /\ TRUE \in BOOLEAN /\ <<>> \o t = t
      BY <1>4
    <2>2. Follows({}, <<>> \o t, IF TRUE THEN {} \cup remoteActors ELSE {} \ remoteActors)
      BY <1>4, <2>1, FollowsNothing, FollowsMore
    <2>3. QED
      BY <2>1, <2>2
  <1>8. ASSUME NEW j \in subscribed'
        PROVE  Follows(known'[j], notes'[j], remoteActors)
    <2>1. CASE j = i
      BY <1>1, <1>5, <1>7, <2>1 DEF PubTypes
    <2>2. CASE j # i
      <3>1. j \in subscribed /\ known'[j] = known[j] /\ notes'[j] = notes[j]
        BY <1>1, <1>5, <1>8, <2>2 DEF PubTypes
      <3>2. QED
        BY <1>1, <3>1
    <2>3. QED
      BY <2>1, <2>2
  <1>9. QED
    BY <1>5, <1>6, <1>8 DEF PubInv

\* Every subscriber is told that all actors are gone: base is what it was told before.
LEMMA GoneStep ==
    ASSUME PubInv, UNCHANGED <<subscribed, known, published, nextWait>>,
           pSession' \in Nat, rSession' \in Nat, toR' \in Seq(News), remoteActors' = {},
           NEW t, t = [n \in 1..Publishing!Cardinality(remoteActors) |->
                        [kind |-> "removed", actor |-> Publishing!SetToSeq(remoteActors)[n],
                         wait |-> Publishing!NoWait]],
           NEW base \in [Subscribers -> Seq(News)],
           \A i \in subscribed : Follows(known[i], base[i], remoteActors),
           notes' = [i \in Subscribers |-> IF i \in subscribed THEN base[i] \o t ELSE base[i]]
    PROVE  PubInv'
  <1>1. Publishing!NoWait \in Waits /\ remoteActors \in SUBSET Actors /\ subscribed \subseteq Subscribers
    BY DEF Publishing!NoWait, Waits, PubInv, PubTypes
  <1>2. /\ t \in Seq(News) /\ \A j \in DOMAIN t : t[j].kind = "removed"
        /\ remoteActors = ActorsOf(t)
        /\ \A j, l \in DOMAIN t : t[j].actor = t[l].actor => j = l
    <2>1. t = About(remoteActors, "removed", Publishing!NoWait)
      BY DEF About
    <2>2. Tells(remoteActors, "removed", t)
      BY <1>1, <2>1, ToldOf
    <2>3. QED
      BY <2>2 DEF Tells
  <1>3. \A i \in Subscribers : base[i] \in Seq(News) /\ base[i] \o t \in Seq(News)
    BY <1>2
  <1>4. notes' \in [Subscribers -> Seq(News)] /\ \A i \in subscribed : notes'[i] = base[i] \o t
    <2>1. notes' = [i \in Subscribers |-> IF i \in subscribed THEN base[i] \o t ELSE base[i]]
      OBVIOUS
    <2>2. PICK q : q = [i \in Subscribers |-> base[i] \o t]
      OBVIOUS
    <2>3. \A i \in Subscribers : q[i] = base[i] \o t /\ q[i] \in Seq(News)
      BY <1>3, <2>2
    <2>4. notes' = [i \in Subscribers |-> IF i \in subscribed THEN q[i] ELSE base[i]]
      BY <2>1, <2>3
    <2>5. \A i \in Subscribers : (IF i \in subscribed THEN q[i] ELSE base[i]) \in Seq(News)
      BY <1>3, <2>3
    <2>6. notes' \in [Subscribers -> Seq(News)]
      BY ONLY <2>4, <2>5
    <2>7. \A i \in subscribed : notes'[i] = q[i]
      BY ONLY <1>1, <2>4
    <2>8. \A i \in subscribed : notes'[i] = base[i] \o t
      <3>1. TAKE i \in subscribed
      <3>2. i \in Subscribers
        BY <1>1
      <3>3. q[i] = base[i] \o t
        BY ONLY <2>3, <3>2
      <3>4. QED
        BY <2>7, <3>3
    <2>9. QED
      BY ONLY <2>6, <2>8
  <1>5. PICK told : told = remoteActors
    OBVIOUS
  <1>a. PICK add \in BOOLEAN : add = FALSE
    OBVIOUS
  <1>6. /\ \A j \in DOMAIN t : t[j].kind = "new" <=> add
        /\ told = ActorsOf(t)
        /\ add => told \cap remoteActors = {}
        /\ ~add => told \subseteq remoteActors
        /\ remoteActors' = IF add THEN remoteActors \cup told ELSE remoteActors \ told
    BY <1>2, <1>5, <1>a
  <1>7. QED
    BY <1>2, <1>4, <1>6, TellStep

\* The host of the subscribers learns that the publisher dropped the session.
LEMMA SubscriberFollowsStep ==
    ASSUME PubInv, Publishing!SubscriberFollows
    PROVE  PubInv'
  <1>1. PubTypes /\ \A j \in subscribed : Follows(known[j], notes[j], remoteActors)
    BY DEF PubInv
  <1>2. /\ UNCHANGED <<subscribed, known, published, nextWait, pSession, toR>>
        /\ remoteActors' = {} /\ rSession' = pSession
        /\ Publishing!Notify("removed", Publishing!SetToSeq(remoteActors), Publishing!NoWait)
    BY DEF Publishing!SubscriberFollows, Publishing!ResetSubscriptions, Publishing!publisherVars
  <1>3. Len(Publishing!SetToSeq(remoteActors)) = Publishing!Cardinality(remoteActors)
    <2>1. PICK n : n = Publishing!Cardinality(remoteActors)
      OBVIOUS
    <2>2. PICK f : f = Publishing!SetToSeq(remoteActors)
      OBVIOUS
    <2>3. n \in Nat /\ f \in [1..n -> remoteActors]
      BY <1>1, <2>1, <2>2, OrderedActors DEF PubTypes
    <2>4. QED
      BY <2>1, <2>2, <2>3
  <1>4. PICK t : t = [n \in 1..Publishing!Cardinality(remoteActors) |->
                        [kind |-> "removed", actor |-> Publishing!SetToSeq(remoteActors)[n],
                         wait |-> Publishing!NoWait]]
    OBVIOUS
  <1>5. notes' = [i \in Subscribers |-> IF i \in subscribed THEN notes[i] \o t ELSE notes[i]]
    BY <1>2, <1>3, <1>4 DEF Publishing!Notify
  <1>6. PICK base : base = notes
    OBVIOUS
  <1>7. /\ base \in [Subscribers -> Seq(News)]
        /\ \A i \in subscribed : Follows(known[i], base[i], remoteActors)
        /\ notes' = [i \in Subscribers |-> IF i \in subscribed THEN base[i] \o t ELSE base[i]]
    BY <1>1, <1>5, <1>6 DEF PubTypes
  <1>8. pSession' \in Nat /\ rSession' \in Nat /\ toR' \in Seq(News)
    BY <1>1, <1>2 DEF PubTypes
  <1>9. QED
    BY <1>2, <1>4, <1>7, <1>8, GoneStep

\* The host of the subscribers drops the publisher.
LEMMA SubscriberDropsStep ==
    ASSUME PubInv, Publishing!SubscriberDropsHost
    PROVE  PubInv'
  <1>1. PubTypes /\ \A j \in subscribed : Follows(known[j], notes[j], remoteActors)
    BY DEF PubInv
  <1>2. /\ UNCHANGED <<subscribed, known, published, nextWait, pSession>>
        /\ remoteActors' = {} /\ rSession' = rSession + 1 /\ toR' = <<>>
    BY DEF Publishing!SubscriberDropsHost, Publishing!publisherVars
  <1>3. PICK t : t = [n \in 1..Publishing!Cardinality(remoteActors) |->
                        [kind |-> "removed", actor |-> Publishing!SetToSeq(remoteActors)[n],
                         wait |-> Publishing!NoWait]]
    OBVIOUS
  <1>4. PICK base : base = [i \in Subscribers |-> [n \in DOMAIN notes[i] |-> [notes[i][n] EXCEPT !.wait = Publishing!NoWait]]]
    OBVIOUS
  <1>5. notes' = [i \in Subscribers |-> base[i] \o (IF i \in subscribed THEN t ELSE <<>>)]
    BY <1>3, <1>4 DEF Publishing!SubscriberDropsHost
  <1>6. ASSUME NEW i \in Subscribers
        PROVE  /\ base[i] \in Seq(News) /\ Len(base[i]) = Len(notes[i])
               /\ \A n \in 1..Len(notes[i]) : notes[i][n].actor = base[i][n].actor /\ notes[i][n].kind = base[i][n].kind
    <2>1. PICK s \in Seq(News) : s = notes[i]
      BY <1>1 DEF PubTypes
    <2>2. PICK b : b = [n \in 1..Len(s) |-> [s[n] EXCEPT !.wait = Publishing!NoWait]]
      OBVIOUS
    <2>3. b = base[i]
      BY <1>4, <2>1, <2>2
    <2>4. ASSUME NEW n \in 1..Len(s)
          PROVE  b[n] \in News /\ s[n].actor = b[n].actor /\ s[n].kind = b[n].kind
      <3>1. s[n] \in News /\ Publishing!NoWait \in Waits
        BY DEF Publishing!NoWait, Waits
      <3>2. b[n] = [s[n] EXCEPT !.wait = Publishing!NoWait]
        BY <2>2
      <3>3. QED
        BY <3>1, <3>2 DEF News
    <2>5. Len(s) \in Nat /\ b \in [1..Len(s) -> News]
      BY <2>2, <2>4
    <2>6. b \in Seq(News) /\ Len(b) = Len(s)
      BY ONLY <2>5
    <2>7. QED
      BY <2>1, <2>3, <2>4, <2>6
  <1>7. base \in [Subscribers -> Seq(News)]
    <2>1. \A i \in Subscribers : base[i] \in Seq(News)
      BY <1>6
    <2>2. QED
      BY <1>4, <2>1
  <1>8. \A i \in subscribed : Follows(known[i], base[i], remoteActors)
    <2>1. TAKE i \in subscribed
    <2>2. i \in Subscribers /\ notes[i] \in Seq(News) /\ Follows(known[i], notes[i], remoteActors)
      BY <1>1 DEF PubTypes
    <2>3. QED
      BY <1>6, <2>2, FollowsSame
  <1>9. notes' = [i \in Subscribers |-> IF i \in subscribed THEN base[i] \o t ELSE base[i]]
    <2>1. \A i \in Subscribers : base[i] \o <<>> = base[i]
      BY <1>6
    <2>2. QED
      BY <1>5, <2>1
  <1>10. pSession' \in Nat /\ rSession' \in Nat /\ toR' \in Seq(News)
    BY <1>1, <1>2 DEF PubTypes
  <1>11. QED
    BY <1>2, <1>3, <1>7, <1>8, <1>9, <1>10, GoneStep

LEMMA SubscriberRestartsStep ==
    ASSUME PubInv, Publishing!SubscriberRestarts
    PROVE  PubInv'
  <1>1. /\ UNCHANGED <<pSession, published, nextWait>>
        /\ rSession' = rSession + 1 /\ toR' = <<>> /\ remoteActors' = {} /\ subscribed' = {}
        /\ notes' = [i \in Subscribers |-> <<>>] /\ known' = [i \in Subscribers |-> {}]
    BY DEF Publishing!SubscriberRestarts, Publishing!publisherVars
  <1>2. QED
    BY <1>1 DEF PubInv, PubTypes

\* SubscriptionInvariance: from the initial state, in every state of every behaviour,
\* what each subscriber knows and its notifications add up to m_RemoteActors.
THEOREM SubscriptionInvariance == Spec => []PubInv
  <1>1. Init => PubInv
    <2>1. SUFFICES ASSUME Init PROVE PubInv
      OBVIOUS
    <2>2. Publishing!Init
      BY <2>1 DEF Init
    <2>3. QED
      BY <2>2 DEF Publishing!Init, PubInv, PubTypes
  <1>2. PubInv /\ [Next]_vars => PubInv'
    <2>1. SUFFICES ASSUME PubInv, [Next]_vars PROVE PubInv'
      OBVIOUS
    <2>2. Publishing!Next \/ UNCHANGED publicationVars
      BY <2>1 DEF Next, Only, vars
    <2>3. CASE UNCHANGED publicationVars
      BY <2>1, <2>3 DEF publicationVars, PubInv, PubTypes
    <2>4. CASE \E a \in Actors :
                  Publishing!PublishActor(a) \/ Publishing!RemoveActorPublication(a) \/ Publishing!RepublishActorPublication(a)
      BY <2>1, <2>4, PublisherStep
    <2>5. CASE Publishing!FirstIdentified \/ Publishing!Reconnected \/ Publishing!PublisherFollows
      BY <2>1, <2>5, IdentifiedPubStep
    <2>6. CASE \/ Publishing!HandleFinished \/ Publishing!WaitTimesOut \/ Publishing!PublisherDrops
               \/ \E i \in Subscribers : Publishing!Unsubscribe(i)
      BY <2>1, <2>6, OtherPubStep
    <2>7. CASE Publishing!HandlePublish \/ Publishing!HandleUnpublish
      BY <2>1, <2>7, HandlePublishStep
    <2>8. CASE \E i \in Subscribers : Publishing!Handle(i)
      BY <2>1, <2>8, HandleStep
    <2>9. CASE \E i \in Subscribers : Publishing!Subscribe(i)
      BY <2>1, <2>9, SubscribeStep
    <2>10. CASE Publishing!SubscriberFollows
      BY <2>1, <2>10, SubscriberFollowsStep
    <2>11. CASE Publishing!SubscriberDropsHost
      BY <2>1, <2>11, SubscriberDropsStep
    <2>12. CASE Publishing!SubscriberRestarts
      BY <2>1, <2>12, SubscriberRestartsStep
    <2>13. QED
      BY <2>2, <2>3, <2>4, <2>5, <2>6, <2>7, <2>8, <2>9, <2>10, <2>11, <2>12
      DEF Publishing!Next, Publishing!Progress
  <1>3. QED
    BY <1>1, <1>2, PTL DEF Spec

\* SubscribersAreTold: a subscriber is told of an actor when it does not know it, of its
\* removal when it does, and ends up with what its host knows, for any actors, subscribers
\* and number of sessions that are dropped, restarted and followed.
THEOREM SubscribersAreTold == Spec => []SubscribersFollow
  <1>1. PubInv => SubscribersFollow
    BY DEF PubInv, Follows, SubscribersFollow, Publishing!SubscribersFollow, Publishing!Knows
  <1>2. QED
    BY <1>1, SubscriptionInvariance, PTL
===============================================================================
