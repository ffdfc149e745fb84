--------------------------------- MODULE Keys ---------------------------------
(***************************************************************************)
(* The signing keys a process holds (app/integrations/supabase_auth.py):   *)
(* one cache, one lock, and three limits on how often the key server is    *)
(* asked, while requests arrive, keys rotate and the server misbehaves.    *)
(*                                                                         *)
(* A key set is a generation: it holds the key of its own number and the   *)
(* one before, so that rotation is gradual.  0 is the empty set.           *)
(***************************************************************************)
EXTENDS Naturals, FiniteSets

CONSTANTS
    Logins,        \* requests being authenticated at one time
    Visitor,       \* the one of them that always carries a current token
    Ttl,           \* _JWKS_TTL_SECONDS
    ForcedWindow,  \* _FORCED_REFRESH_WINDOW_SECONDS
    EmptyWindow,   \* _DEGENERATE_FETCH_COOLDOWN_SECONDS
    RaisedWindow,  \* _FETCH_EXCEPTION_COOLDOWN_SECONDS
    MaxGeneration, \* bound: rotations of the keys
    MaxBadFetch    \* bound: fetches that fail or come back empty

Free == "free"   \* nobody holds the lock

ASSUME KeysAssumption ==
    /\ Visitor \in Logins /\ Free \notin Logins
    /\ Ttl \in Nat \ {0} /\ ForcedWindow \in Nat \ {0}
    /\ EmptyWindow \in Nat \ {0} /\ RaisedWindow \in Nat \ {0}
    /\ MaxGeneration \in Nat \ {0} /\ MaxBadFetch \in Nat

VARIABLES
    current,     \* the generation the server publishes
    cache,       \* _JwksState.cache and the age of its entry
    wait,        \* seconds left of each limit, 0 when it is not in force
    holder,      \* who holds _JwksState.lock
    login,       \* per request: control state, its token's key, the set it got
    badFetches,  \* failed and empty fetches so far
    quiet        \* seconds since the last forced fetch began

keyVars == <<current, cache, wait, holder, login, badFetches, quiet>>

NoLogin(label) == [pc |-> label, key |-> 0, got |-> 0]

\* A process that has just started; requests come, or none ever does.
KeysInit ==
    /\ current = 1
    /\ cache = [set |-> 0, age |-> 0]
    /\ wait = [forced |-> 0, empty |-> 0, raised |-> 0]
    /\ holder = Free
    /\ login \in {[r \in Logins |-> NoLogin(label)] : label \in {"idle", "absent"}}
    /\ badFetches = 0
    /\ quiet = ForcedWindow

Contains(set, key) == key > 0 /\ key \in {set, set - 1}
Cached == cache.set > 0
Fresh == Cached /\ cache.age < Ttl

LoginGoes(r, label) == login' = [login EXCEPT ![r].pc = label]
LoginGets(r, label, set) == login' = [login EXCEPT ![r].pc = label, ![r].got = set]
KeepsState == UNCHANGED <<current, cache, wait, badFetches, quiet>>

\* A token of the current key, or of any other: an older one, or none of ours.
Arrives(r) ==
    /\ login[r].pc \in {"idle", "accepted", "rejected"}
    /\ \E key \in (IF r = Visitor THEN {current} ELSE 0..current) :
         login' = [login EXCEPT ![r] = [pc |-> "new", key |-> key, got |-> 0]]
    /\ KeepsState /\ UNCHANGED holder

\* _get_jwks without the lock.
FastPath(r) ==
    /\ login[r].pc = "new"
    /\ IF Fresh THEN LoginGets(r, "find", cache.set) ELSE LoginGoes(r, "routine")
    /\ KeepsState /\ UNCHANGED holder

\* _get_jwks under the lock: look again, then the two limits, then fetch.
SlowPath(r) ==
    /\ login[r].pc = "routine" /\ holder = Free
    /\ \/ /\ Fresh \/ wait.empty > 0
          /\ LoginGets(r, "find", cache.set) /\ UNCHANGED <<holder, wait>>
       \/ /\ ~Fresh /\ wait.empty = 0 /\ wait.raised > 0
          /\ IF Cached THEN LoginGets(r, "find", cache.set) ELSE LoginGoes(r, "rejected")
          /\ UNCHANGED <<holder, wait>>
       \/ /\ ~Fresh /\ wait.empty = 0 /\ wait.raised = 0
          /\ LoginGoes(r, "fetch") /\ holder' = r /\ UNCHANGED wait
    /\ UNCHANGED <<current, cache, badFetches, quiet>>

\* Mutant: an answer is an answer.
StoredAny(set) == [set |-> set, age |-> 0]
\* _store_fetch_result_or_fallback: an empty set replaces nothing.
Stored(set) == IF set > 0 THEN [set |-> set, age |-> 0] ELSE cache

BadFetch == badFetches < MaxBadFetch /\ badFetches' = badFetches + 1

\* _fetch_jwks for the routine path returns, empty or not, or raises.
FetchReturns(r) ==
    /\ login[r].pc = "fetch"
    /\ \E set \in {0, current} :
         /\ IF set = 0 THEN BadFetch ELSE UNCHANGED badFetches
         /\ cache' = Stored(set)
         /\ wait' = [wait EXCEPT !.raised = 0, !.empty = IF set = 0 THEN EmptyWindow ELSE 0]
         /\ LoginGets(r, "find", Stored(set).set)
    /\ holder' = Free
    /\ UNCHANGED <<current, quiet>>
FetchRaises(r) ==
    /\ login[r].pc = "fetch" /\ BadFetch
    /\ wait' = [wait EXCEPT !.raised = RaisedWindow]
    /\ LoginGoes(r, "rejected") /\ holder' = Free
    /\ UNCHANGED <<current, cache, quiet>>

\* _find_signing_key; an unknown key is looked for once more.
FindSigningKey(r) ==
    /\ login[r].pc \in {"find", "retry"}
    /\ LoginGoes(r, IF Contains(login[r].got, login[r].key) THEN "accepted"
               ELSE IF login[r].pc = "find" THEN "miss" ELSE "rejected")
    /\ KeepsState /\ UNCHANGED holder

\* The limit is on attempts, so it starts before the fetch.
ForcedStamp == ForcedWindow

\* _refresh_jwks_on_kid_miss under the lock, up to its fetch.
RefreshOnKidMiss(r) ==
    /\ login[r].pc = "miss" /\ holder = Free
    /\ IF wait.forced > 0
       THEN LoginGets(r, "retry", cache.set) /\ UNCHANGED <<wait, holder, quiet>>
       ELSE /\ wait' = [wait EXCEPT !.forced = ForcedStamp]
            /\ holder' = r /\ quiet' = 0 /\ LoginGoes(r, "refetch")
    /\ UNCHANGED <<current, cache, badFetches>>

RefetchReturns(r) ==
    /\ login[r].pc = "refetch"
    /\ \E set \in {0, current} :
         /\ IF set = 0 THEN BadFetch ELSE UNCHANGED badFetches
         /\ cache' = Stored(set)
         /\ LoginGets(r, "retry", Stored(set).set)
    /\ holder' = Free
    /\ UNCHANGED <<current, wait, quiet>>
RefetchRaises(r) ==
    /\ login[r].pc = "refetch" /\ BadFetch
    /\ LoginGoes(r, "rejected") /\ holder' = Free
    /\ UNCHANGED <<current, cache, wait, quiet>>

\* The caller goes away at an await: what it held is released.
Cancelled(r) ==
    /\ r # Visitor
    /\ login[r].pc \in {"routine", "fetch", "miss", "refetch"}
    /\ LoginGoes(r, "rejected")
    /\ holder' = IF holder = r THEN Free ELSE holder
    /\ KeepsState

\* The provider rotates its keys.
Rotate ==
    /\ current < MaxGeneration /\ current' = current + 1
    /\ UNCHANGED <<cache, wait, holder, login, badFetches, quiet>>

Down(n) == IF n = 0 THEN 0 ELSE n - 1
Up(n, limit) == IF n = limit THEN n ELSE n + 1
SecondPasses ==
    /\ cache' = IF Cached THEN [cache EXCEPT !.age = Up(@, Ttl)] ELSE cache
    /\ wait' = [forced |-> Down(wait.forced), empty |-> Down(wait.empty), raised |-> Down(wait.raised)]
    /\ quiet' = Up(quiet, ForcedWindow)
    /\ UNCHANGED <<current, holder, login, badFetches>>

VerifyJwt(r) ==
    \/ Arrives(r) \/ FastPath(r) \/ SlowPath(r) \/ FetchReturns(r) \/ FetchRaises(r)
    \/ FindSigningKey(r) \/ RefreshOnKidMiss(r) \/ RefetchReturns(r) \/ RefetchRaises(r)

KeysNext ==
    \/ \E r \in Logins : VerifyJwt(r) \/ Cancelled(r)
    \/ Rotate
    \/ SecondPasses

KeysSpec == KeysInit /\ [][KeysNext]_keyVars

\* Requests make progress, the lock is fair (asyncio.Lock is first come, first
\* served), the visitor comes back, and time passes.
KeysFairness ==
    /\ \A r \in Logins : SF_keyVars(VerifyJwt(r))
    /\ WF_keyVars(SecondPasses)

-----------------------------------------------------------------------------
(* Properties.                                                             *)

KeysTypeOK ==
    /\ current \in 1..MaxGeneration
    /\ cache \in [set : 0..MaxGeneration, age : 0..Ttl]
    /\ wait \in [forced : 0..ForcedWindow, empty : 0..EmptyWindow, raised : 0..RaisedWindow]
    /\ holder \in Logins \cup {Free}
    /\ login \in [Logins -> [pc : {"absent", "idle", "new", "routine", "fetch", "find", "miss", "refetch",
                                   "retry", "accepted", "rejected"},
                             key : 0..MaxGeneration, got : 0..MaxGeneration]]
    /\ badFetches \in 0..MaxBadFetch
    /\ quiet \in 0..ForcedWindow

\* Keys once held are never lost to an answer without any, and never replaced
\* by older ones.
RealKeysKept == [][cache'.set >= cache.set]_keyVars

\* However many requests miss their key at once, and whatever becomes of the
\* fetches, two forced fetches are a window apart.
ForcedFetchesSpaced ==
    [][\A r \in Logins :
          login[r].pc = "miss" /\ login'[r].pc = "refetch" => quiet = ForcedWindow]_keyVars

\* One fetch runs at a time, also when callers go away at an await.
OneFetchAtATime ==
    Cardinality({r \in Logins : login[r].pc \in {"fetch", "refetch"}}) <= 1

\* A visitor who comes again and again with a current token is always let in
\* again, however the rotations, the bad answers and the other requests fall.
DoorsReopen == login[Visitor].pc # "absent" => []<>(login[Visitor].pc = "accepted")
=============================================================================
