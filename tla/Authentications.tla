--------------------------- MODULE Authentications ---------------------------
(***************************************************************************)
(* Authentications that are remembered (DistributedTrust_AuthCache.cpp,     *)
(* HostPermissions.cpp): the cache of the trust manager, the copies in the  *)
(* permission subscriptions, and the checks that fill them. There are one   *)
(* host, and one permission, which requires a factor; one pattern matches   *)
(* it, and so do the wildcards of the subscriptions.                        *)
(***************************************************************************)
EXTENDS Naturals, Sequences

CONSTANTS
    Users, Checkers,        \* users of the host, and permission subscriptions
    Grantable,              \* identities that are given the permission
    HasOther,               \* those that always have another permission as well
    MaxGrants, MaxAsks,     \* bounds on permissions changed and authentications asked for
    MaxClock                \* bound on the time

VARIABLES
    granted,    \* m_Permissions: identities that have the permission
    known,      \* mp_Permissions of each subscription
    cache,      \* when what was authenticated for each user ends, 0 for nothing
    registering,\* timers on their way, by cache
    cleaning,   \* mp_PeriodicCleanupSubscription of each cache
    mail,       \* what the manager dispatched to each subscription
    updates,    \* f_UpdateAuthenticationCache on their way from each
    phase,      \* how far each subscription is
    check,      \* a user each asks to authenticate, or Nobody
    pattern,    \* a user who is asked to authenticate the pattern, or Nobody
    hung,       \* caches whose actor does not leave a loop
    kept,       \* users whose authentication may outlive their permission
    untold,     \* users whose authentication was forgotten without telling
    clock, grants, asks

Manager == "manager"
Caches == Checkers \cup {Manager}
Nobody == ""

\* An identity is a user on the host, a user on any host, or the host alone.
HostAlone == <<TRUE, Nobody>>
Identities == {<<h, u>> : h \in BOOLEAN, u \in Users} \cup {HostAlone}
PowerSet(u) == {<<TRUE, u>>, <<FALSE, u>>, HostAlone}

\* A permission is authenticated by itself or through the pattern.
Kinds == {"permission", "pattern"}
Nothing == [k \in Kinds |-> [u \in Users |-> 0]]

managerVars == <<granted, kept, untold>>
cacheVars == <<cache, registering, cleaning, hung>>
bounds == <<clock, grants, asks>>
vars == <<granted, known, cache, registering, cleaning, mail, updates, phase, check, pattern, hung,
          kept, untold, clock, grants, asks>>

TypeOK ==
    /\ granted \subseteq Grantable /\ known \in [Checkers -> SUBSET Identities]
    /\ cache \in [Caches -> [Kinds -> [Users -> 0..MaxClock]]]
    /\ registering \in [Caches -> Nat] /\ cleaning \in [Caches -> BOOLEAN]
    /\ phase \in [Checkers -> {"new", "in", "gone"}]
    /\ \A s \in Checkers :
          /\ \A n \in DOMAIN updates[s] : updates[s][n].ends \in 1..MaxClock
          /\ phase[s] = "new" => known[s] = {} /\ cache[s] = Nothing /\ mail[s] = <<>>
    /\ pattern \in Users \cup {Nobody} /\ check \in [Checkers -> Users \cup {Nobody}]
    /\ hung \subseteq Caches /\ kept \subseteq Users /\ untold \subseteq Users
    /\ clock \in 1..MaxClock

Init ==
    /\ granted \in {Grantable, {HostAlone}} /\ known = [s \in Checkers |-> {}]
    /\ cache = [c \in Caches |-> Nothing]
    /\ registering = [c \in Caches |-> 0] /\ cleaning = [c \in Caches |-> FALSE]
    /\ mail = [s \in Checkers |-> <<>>] /\ updates = [s \in Checkers |-> <<>>]
    /\ phase = [s \in Checkers |-> "new"] /\ check = [s \in Checkers |-> Nobody]
    /\ pattern = Nobody /\ hung = {} /\ kept = {} /\ untold = {}
    /\ clock = 1 /\ grants = 0 /\ asks = 0

Grants == grants < MaxGrants /\ grants' = grants + 1 /\ UNCHANGED <<clock, asks>>
Asks(n) == asks + n <= MaxAsks /\ asks' = asks + n /\ UNCHANGED <<clock, grants>>

\* What of an entry has not ended.
Live(ends) == IF ends >= clock THEN ends ELSE 0

Tell(m) == mail' = [s \in Checkers |-> IF phase[s] = "in" THEN Append(mail[s], m) ELSE mail[s]]

----------------------------------------------------------------------------
(* The cache.                                                              *)

\* f_AddAuthenticatedPermission and f_SetAuthenticatedPermissionPattern. A timer is
\* registered unless there is one; one that is on its way does not count.
Remember(c, k, u, ends) ==
    /\ cache' = [cache EXCEPT ![c][k][u] = ends]
    /\ registering' = [registering EXCEPT ![c] = IF cleaning[c] THEN @ ELSE @ + 1]
    /\ UNCHANGED <<cleaning, hung>>

\* The loop over the users stays at the first entry of another user.
Endless(c, i) == ~i[1] /\ \E v \in Users \ {i[2]} : cache[c]["permission"][v] # 0

\* f_RemoveAuthenticatedPermission
Forget(c, i) ==
    /\ cache' = IF i[2] = Nobody THEN cache ELSE [cache EXCEPT ![c]["permission"][i[2]] = 0]
    /\ UNCHANGED <<registering, cleaning, hung>>

Hang(c) == hung' = hung \cup {c} /\ UNCHANGED <<cache, registering, cleaning>>

\* The timer is registered, in place of one that was.
Registered(c) ==
    /\ registering[c] > 0 /\ c \notin hung
    /\ registering' = [registering EXCEPT ![c] = @ - 1]
    /\ cleaning' = [cleaning EXCEPT ![c] = TRUE]
    /\ UNCHANGED <<managerVars, known, cache, hung, mail, updates, phase, check, pattern, bounds>>

StopsEarly(after) == after["permission"] = Nothing["permission"]    \* mutant: forgets the patterns
Stops(after) == after = Nothing

\* f_CleanupExpired
CleanupExpired(c) ==
    LET after == [k \in Kinds |-> [u \in Users |-> Live(cache[c][k][u])]] IN
    /\ cleaning[c] /\ c \notin hung
    /\ cache' = [cache EXCEPT ![c] = after]
    /\ cleaning' = [cleaning EXCEPT ![c] = ~Stops(after)]
    /\ UNCHANGED <<managerVars, known, registering, hung, mail, updates, phase, check, pattern, bounds>>

----------------------------------------------------------------------------
(* The trust manager.                                                      *)

AddPermissions(i) ==
    /\ Manager \notin hung /\ i \notin granted /\ Grants
    /\ granted' = granted \cup {i}
    /\ Tell([kind |-> "added", identity |-> i])
    /\ UNCHANGED <<known, cacheVars, updates, phase, check, pattern, kept, untold>>

\* What is authenticated is forgotten also of an identity that does not have the
\* permission, but has others; subscriptions are told of permissions only.
RemovePermissions(i) ==
    /\ Manager \notin hung /\ i \in granted \cup HasOther /\ Grants
    /\ granted' = granted \ {i}
    /\ IF Endless(Manager, i) THEN Hang(Manager) /\ UNCHANGED <<kept, untold, mail>>
       ELSE /\ Forget(Manager, i)
            /\ kept' = IF i[2] = Nobody THEN {u \in Users : cache[Manager]["permission"][u] # 0}
                                             \cup kept ELSE kept
            /\ IF i \in granted THEN Tell([kind |-> "removed", identity |-> i]) /\ UNCHANGED untold
               ELSE untold' = untold \cup ({i[2]} \ {Nobody}) /\ UNCHANGED mail
    /\ UNCHANGED <<known, updates, phase, check, pattern>>

\* f_UpdateAuthenticationCache, which does not look at the permissions again.
UpdateAuthenticationCache(s) ==
    /\ Manager \notin hung /\ updates[s] # <<>>
    /\ updates' = [updates EXCEPT ![s] = Tail(@)]
    /\ LET a == Head(updates[s]) IN
       /\ Remember(Manager, "permission", a.user, a.ends)
       /\ Tell([kind |-> "permission", user |-> a.user, ends |-> a.ends])
       /\ kept' = IF PowerSet(a.user) \cap granted = {} THEN kept \cup {a.user} ELSE kept
    /\ UNCHANGED <<granted, untold, known, phase, check, pattern, bounds>>

\* What the user is asked is not answered, or not verified, or is until it ends
\* (f_RequestAuthentication, f_VerifyAuthenticationResponses).
Verified == {0} \cup clock..MaxClock

\* f_AuthenticatePermissionPattern until its first await. It counts for two checks, to
\* bound the states.
AuthenticatePattern(u) ==
    /\ Manager \notin hung /\ pattern = Nobody /\ Asks(2)
    /\ pattern' = u
    /\ UNCHANGED <<managerVars, known, cacheVars, mail, updates, phase, check>>

PatternAnswered ==
    /\ Manager \notin hung /\ pattern # Nobody
    /\ pattern' = Nobody
    /\ \E ends \in Verified :
          IF ends = 0 THEN UNCHANGED <<cacheVars, mail>>
          ELSE /\ Remember(Manager, "pattern", pattern, ends)
               /\ Tell([kind |-> "pattern", user |-> pattern, ends |-> ends])
    /\ UNCHANGED <<managerVars, known, updates, phase, check, bounds>>

----------------------------------------------------------------------------
(* Subscriptions.                                                          *)

Copied == [k \in Kinds |-> [u \in Users |-> Live(cache[Manager][k][u])]]

\* f_SubscribeToPermissions. The copy of the cache does not start a timer.
Subscribe(s) ==
    /\ Manager \notin hung /\ phase[s] = "new"
    /\ phase' = [phase EXCEPT ![s] = "in"]
    /\ known' = [known EXCEPT ![s] = granted]
    /\ cache' = [cache EXCEPT ![s] = Copied]
    /\ UNCHANGED <<managerVars, registering, cleaning, hung, mail, updates, check, pattern, bounds>>

\* A change that was dispatched by the manager is applied.
Deliver(s) ==
    /\ s \notin hung /\ phase[s] = "in" /\ mail[s] # <<>>
    /\ LET m == Head(mail[s])
           Handled == mail' = [mail EXCEPT ![s] = Tail(@)] IN
       \/ /\ m.kind = "added" /\ Handled
          /\ known' = [known EXCEPT ![s] = @ \cup {m.identity}] /\ UNCHANGED cacheVars
       \/ /\ m.kind = "removed"
          /\ known' = [known EXCEPT ![s] = @ \ {m.identity}]
          /\ IF Endless(s, m.identity) THEN Hang(s) /\ UNCHANGED mail
             ELSE Handled /\ Forget(s, m.identity)
       \/ /\ m.kind \in Kinds /\ Handled
          /\ Remember(s, m.kind, m.user, m.ends) /\ UNCHANGED known
    /\ UNCHANGED <<managerVars, updates, phase, check, pattern, bounds>>

\* Some identity of the user has the permission.
Granted(s, u) == PowerSet(u) \cap known[s] # {}

\* Neither the permission is authenticated nor, by the pattern, its factor.
NeedsAuthentication(s, u) == Granted(s, u) /\ \A k \in Kinds : Live(cache[s][k][u]) = 0

\* A check that needs an authentication asks the user; the others end at once.
HasPermission(s, u) ==
    /\ s \notin hung /\ phase[s] = "in" /\ check[s] = Nobody
    /\ NeedsAuthentication(s, u) /\ Asks(1)
    /\ check' = [check EXCEPT ![s] = u]
    /\ UNCHANGED <<managerVars, known, cacheVars, mail, updates, phase, pattern>>

\* The answer is of no use to a subscription that is gone. The permissions are looked
\* at again. That a check which is not answered also ends while the manager hangs is
\* left out.
Answered(s) ==
    /\ {s, Manager} \cap hung = {} /\ check[s] # Nobody
    /\ check' = [check EXCEPT ![s] = Nobody]
    /\ \E ends \in Verified :
          updates' = IF ends # 0 /\ phase[s] = "in" /\ Granted(s, check[s])
                     THEN [updates EXCEPT ![s] = Append(@, [user |-> check[s], ends |-> ends])]
                     ELSE updates
    /\ UNCHANGED <<managerVars, known, cacheVars, mail, phase, pattern, bounds>>

\* f_Clear, by the destructor.
Clear(s) ==
    /\ s \notin hung /\ phase[s] = "in"
    /\ phase' = [phase EXCEPT ![s] = "gone"]
    /\ known' = [known EXCEPT ![s] = {}] /\ mail' = [mail EXCEPT ![s] = <<>>]
    /\ cache' = [cache EXCEPT ![s] = Nothing]
    /\ registering' = [registering EXCEPT ![s] = 0] /\ cleaning' = [cleaning EXCEPT ![s] = FALSE]
    /\ UNCHANGED <<managerVars, hung, updates, check, pattern, bounds>>

Tick == clock < MaxClock /\ clock' = clock + 1 /\ UNCHANGED <<managerVars, known, cacheVars, mail,
    updates, phase, check, pattern, grants, asks>>

----------------------------------------------------------------------------

Progress ==
    \/ PatternAnswered
    \/ \E c \in Caches : Registered(c)
    \/ \E s \in Checkers : UpdateAuthenticationCache(s) \/ Deliver(s) \/ Answered(s)

Next ==
    \/ Progress \/ Tick
    \/ \E c \in Caches : CleanupExpired(c)
    \/ \E i \in Grantable : AddPermissions(i) \/ RemovePermissions(i)
    \/ \E u \in Users : AuthenticatePattern(u) \/ \E s \in Checkers : HasPermission(s, u)
    \/ \E s \in Checkers : Subscribe(s) \/ Clear(s)

Spec ==
    /\ Init /\ [][Next]_vars /\ WF_vars(Progress)
    /\ \A c \in Caches : WF_vars(CleanupExpired(c))

----------------------------------------------------------------------------

LiveIn(c, k, u) == Live(cache[c][k][u])
Cleaned(c) == cleaning[c] \/ registering[c] > 0

\* What a subscription that has handled its messages takes as authenticated is what the
\* manager does, no authentication outlives the permissions of its user, and a timer
\* cleans the manager's cache while there is anything in it. Left out are what was
\* forgotten for an identity without the permission, and an authentication that the end
\* of a permission of the host does not end, or that arrives after the end of its user's.
AuthenticationsFollow ==
    /\ \A s \in Checkers, u \in Users \ untold, k \in Kinds :
          phase[s] = "in" /\ mail[s] = <<>> => LiveIn(s, k, u) = LiveIn(Manager, k, u)
    /\ Manager \notin hung => \A u \in Users \ kept :
          LiveIn(Manager, "permission", u) # 0 => PowerSet(u) \cap granted # {}
    /\ cache[Manager] # Nothing => Cleaned(Manager)

\* Checks end and what ended is cleaned, as far as a timer was started, unless an actor
\* hangs, over a permission of a user on any host. All at once, as the checks run out.
ChecksEnd == []<>
    /\ \A s \in Checkers : check[s] = Nobody \/ {s, Manager} \cap hung # {}
    /\ \A c \in Caches : Cleaned(c) => c \in hung \/ \A k \in Kinds, u \in Users :
          cache[c][k][u] \notin 1..(clock - 1)
=============================================================================
