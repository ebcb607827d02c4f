----------------------------- MODULE Permissions -----------------------------
(***************************************************************************)
(* The permissions of one identity (DistributedTrust_HostPermissions.cpp):  *)
(* the trust manager's entry, the database it is saved in, and the          *)
(* subscribers, which are told of changes on actors of their own.           *)
(*                                                                          *)
(* A wildcard is the set of permissions it matches. What a subscriber is    *)
(* told for several of its wildcards by one call is one message. The cache  *)
(* of authentications is left out.                                          *)
(***************************************************************************)
EXTENDS Naturals, Sequences, FiniteSets, TLC

CONSTANTS
    Names, FirstName,       \* permissions, and the one both wildcards match
    NRequirements,          \* different authentication requirements
    Readers, ReadersOfAll,  \* subscriptions, and those that ask for every permission as well
    MaxCalls                \* bound on calls that change permissions, and on restarts

VARIABLES
    perms,      \* m_Permissions[identity]: the requirements of each, 0 for none
    inDatabase, \* its m_bExistsInDatabase
    subs,       \* m_Subscriptions of each wildcard
    told,       \* its m_PermissionsPerIdentity
    stored,     \* the file of the identity, or Absent
    toDatabase, \* calls of the database, which it handles one after the other
    resumes,    \* answers to f_RemovePermissions on their way
    phase,      \* how far each subscriber is
    view, mail, \* mp_Permissions of its subscription, and changes dispatched to it
    erased,     \* an entry with permissions was removed
    calls

Wildcards == {Names, {FirstName}}
WildcardsOf(s) == IF s \in ReadersOfAll THEN Wildcards ELSE {{FirstName}}

Granted == [Names -> 0..NRequirements]
NoneGranted == [p \in Names |-> 0]
Absent == <<>>      \* no file

storeVars == <<stored, toDatabase, resumes>>
readerVars == <<phase, view>>
vars == <<perms, inDatabase, subs, told, stored, toDatabase, resumes, phase, view, mail, erased,
          calls>>

TypeOK ==
    /\ perms \in Granted /\ inDatabase \in BOOLEAN
    /\ stored = Absent \/ stored \in Granted \ {NoneGranted}
    /\ resumes \in 0..MaxCalls
    /\ \A w \in Wildcards :
          /\ subs[w] \subseteq {s \in Readers : w \in WildcardsOf(s)}
          /\ subs[w] = {} => told[w] = NoneGranted
    /\ \A n \in DOMAIN toDatabase : toDatabase[n].kind \in {"add", "set", "remove"}
    /\ phase \in [Readers -> {"idle", "in", "dropped", "gone"}] /\ view \in [Readers -> Granted]

Init ==
    /\ perms = NoneGranted /\ inDatabase = FALSE
    /\ subs = [w \in Wildcards |-> {}] /\ told = [w \in Wildcards |-> NoneGranted]
    /\ stored = Absent /\ toDatabase = <<>> /\ resumes = 0
    /\ phase = [s \in Readers |-> "idle"]
    /\ view = [s \in Readers |-> NoneGranted] /\ mail = [s \in Readers |-> <<>>]
    /\ erased = FALSE /\ calls = 0

Call == calls < MaxCalls /\ calls' = calls + 1

\* The permissions of ps set to r; 0 removes them.
With(g, ps, r) == [p \in Names |-> IF p \in ps THEN r ELSE g[p]]

\* Those that match the wildcard.
Matching(g, w) == [p \in Names |-> IF p \in w THEN g[p] ELSE 0]

----------------------------------------------------------------------------

\* Each wildcard is told what is new to it, and its subscribers with it.
New(w, ps, r) == IF subs[w] = {} THEN {} ELSE {p \in ps \cap w : told[w][p] # r}

Report(ps, r) ==
    /\ told' = [w \in Wildcards |-> With(told[w], New(w, ps, r), r)]
    /\ mail' = [s \in Readers |->
                   LET new == UNION {New(w, ps, r) : w \in {u \in Wildcards : s \in subs[u]}} IN
                   IF new = {} THEN mail[s] ELSE Append(mail[s], [names |-> new, to |-> r])]

Ask(kind, g) == toDatabase' = Append(toDatabase, [kind |-> kind, perms |-> g])

Save(g) ==
    /\ Ask(IF inDatabase THEN "set" ELSE "add", g)
    /\ inDatabase' = TRUE

\* f_AddPermissions, that adds permissions or changes what they require.
AddPermissions(ps, r) ==
    LET added == {p \in ps : perms[p] # r} IN
    /\ Call /\ added # {}
    /\ perms' = With(perms, added, r)
    /\ Report(added, r)
    /\ Save(perms')
    /\ UNCHANGED <<subs, stored, resumes, readerVars, erased>>

\* f_RemovePermissions until its first await.
RemovePermissions(ps) ==
    LET removed == {p \in ps : perms[p] # 0} IN
    /\ Call /\ removed # {}
    /\ perms' = With(perms, removed, 0)
    /\ Report(removed, 0)
    /\ IF perms' # NoneGranted THEN Save(perms')
       ELSE IF inDatabase THEN inDatabase' = FALSE /\ Ask("remove", NoneGranted)
       ELSE UNCHANGED <<inDatabase, toDatabase>>
    /\ UNCHANGED <<subs, stored, resumes, readerVars, erased>>

\* An answer to f_RemovePermissions of the database: the entry is removed, with
\* what was added to it since.
RemoveResumes ==
    /\ resumes > 0
    /\ resumes' = resumes - 1
    /\ erased' = (erased \/ perms # NoneGranted)
    /\ perms' = NoneGranted /\ inDatabase' = FALSE
    /\ UNCHANGED <<subs, told, stored, toDatabase, readerVars, mail, calls>>

\* The database refuses to add a file that is there, and to set or remove one
\* that is not: the file stays, and the call gets the error.
Refused(kind) == (kind = "add") # (stored = Absent)

DatabaseAnswers ==
    /\ toDatabase # <<>>
    /\ toDatabase' = Tail(toDatabase)
    /\ LET c == Head(toDatabase) IN
       /\ stored' = IF Refused(c.kind) THEN stored
                    ELSE IF c.kind = "remove" THEN Absent ELSE c.perms
       /\ resumes' = IF c.kind = "remove" /\ ~Refused(c.kind) THEN resumes + 1 ELSE resumes
    /\ UNCHANGED <<perms, inDatabase, subs, told, readerVars, mail, erased, calls>>

----------------------------------------------------------------------------
(* Subscribers (fp_SubscribeToPermissions).                                *)

ToldUnlessNew(w) == told[w]     \* mutant: a new wildcard is not filled
ToldTo(w) == IF subs[w] = {} THEN Matching(perms, w) ELSE told[w]

\* A wildcard that is new gets what the manager has, and the subscriber what its
\* wildcards have.
Subscribe(s) ==
    /\ phase[s] = "idle"
    /\ phase' = [phase EXCEPT ![s] = "in"]
    /\ told' = [w \in Wildcards |-> IF w \in WildcardsOf(s) THEN ToldTo(w) ELSE told[w]]
    /\ subs' = [w \in Wildcards |-> IF w \in WildcardsOf(s) THEN subs[w] \cup {s} ELSE subs[w]]
    /\ \E g \in Granted :
          /\ \A p \in Names : LET r == {told'[w][p] : w \in WildcardsOf(s)} \ {0} IN
                              g[p] \in IF r = {} THEN {0} ELSE r
          /\ view' = [view EXCEPT ![s] = g]
    /\ UNCHANGED <<perms, inDatabase, storeVars, mail, erased, calls>>

\* A change is applied to the subscription, which also finds it on its way to
\* the subscriber; one that was cleared gets no more.
Deliver(s) ==
    /\ mail[s] # <<>>
    /\ mail' = [mail EXCEPT ![s] = Tail(@)]
    /\ view' = IF phase[s] = "in"
               THEN [view EXCEPT ![s] = With(@, Head(mail[s]).names, Head(mail[s]).to)]
               ELSE view
    /\ UNCHANGED <<perms, inDatabase, subs, told, storeVars, phase, erased, calls>>

\* f_Clear, also of a subscription another one is moved to.
Clear(s) ==
    /\ phase[s] = "in"
    /\ phase' = [phase EXCEPT ![s] = "dropped"]
    /\ view' = [view EXCEPT ![s] = NoneGranted]
    /\ UNCHANGED <<perms, inDatabase, subs, told, storeVars, mail, erased, calls>>

\* A wildcard goes with its last subscriber.
Unsubscribe(s) ==
    /\ phase[s] = "dropped"
    /\ phase' = [phase EXCEPT ![s] = "gone"]
    /\ subs' = [w \in Wildcards |-> subs[w] \ {s}]
    /\ told' = [w \in Wildcards |-> IF subs'[w] = {} THEN NoneGranted ELSE told[w]]
    /\ UNCHANGED <<perms, inDatabase, storeVars, view, mail, erased, calls>>

\* The process starts again with what the database has (fp_Init).
Restart ==
    /\ Call
    /\ perms' = IF stored = Absent THEN NoneGranted ELSE stored
    /\ inDatabase' = (stored # Absent)
    /\ subs' = [w \in Wildcards |-> {}] /\ told' = [w \in Wildcards |-> NoneGranted]
    /\ toDatabase' = <<>> /\ resumes' = 0
    /\ phase' = [s \in Readers |-> "idle"]
    /\ view' = [s \in Readers |-> NoneGranted] /\ mail' = [s \in Readers |-> <<>>]
    /\ erased' = FALSE
    /\ UNCHANGED stored

----------------------------------------------------------------------------

Progress ==
    \/ RemoveResumes \/ DatabaseAnswers
    \/ \E s \in Readers : Deliver(s) \/ Unsubscribe(s)

Next ==
    \/ Progress \/ Restart
    \/ \E ps \in SUBSET Names : RemovePermissions(ps) \/ \E r \in 1..NRequirements : AddPermissions(ps, r)
    \/ \E s \in Readers : Subscribe(s) \/ Clear(s)

Spec == Init /\ [][Next]_vars /\ WF_vars(Progress)

----------------------------------------------------------------------------

\* Unless an entry was removed with permissions it had been given meanwhile: a
\* subscriber that has handled its messages has the permissions its wildcards match,
\* whoever else has or had the wildcards, the database is never asked for what it
\* refuses, and it holds what is granted when it has nothing left to do.
PermissionsFollow ==
    ~erased =>
        /\ \A s \in Readers : phase[s] = "in" /\ mail[s] = <<>> =>
              view[s] = Matching(perms, UNION WildcardsOf(s))
        /\ toDatabase # <<>> => ~Refused(Head(toDatabase).kind)
        /\ toDatabase = <<>> => /\ perms = IF stored = Absent THEN NoneGranted ELSE stored
                                /\ inDatabase = (stored # Absent)
=============================================================================
