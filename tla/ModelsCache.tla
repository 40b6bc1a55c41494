------------------------------ MODULE ModelsCache ------------------------------
(***************************************************************************)
(* GET /v1/models: handle_list_models of src/proxy/models.rs, its cache of *)
(* answers and the switches and edits of the configuration that go on      *)
(* while it waits for a backend.  The table is read under one lock, the    *)
(* cache under another, and neither is held during a fetch.                *)
(*                                                                         *)
(* Time is counted in units of no particular length.                       *)
(***************************************************************************)
EXTENDS BackendState, Integers

CONSTANTS
    Urls,           \* base URLs
    Handlers,       \* requests for the list of models, one after the other each
    CacheTtl,       \* CACHE_TTL
    FetchTimeout,   \* of one attempt at one path
    MaxTime         \* bound, for model checking only

ASSUME TimesAssumption ==
    /\ {CacheTtl, FetchTimeout} \subseteq Nat \ {0}
    /\ MaxTime \in Nat

VARIABLES
    base_url,   \* of each backend, part of the configuration
    cache,      \* from (name, base_url) to an entry
    clearing,   \* switches that have changed the table and not yet the cache
    handler,    \* what each request is at
    now,        \* the time
    cleared_at  \* history: when the cache was last cleared

cacheVars  == <<base_url, cache, clearing, handler, now, cleared_at>>
modelsVars == <<backendVars, cacheVars>>

Key(b, url) == <<b, url>>

\* An entry: whose list it is, when the backend made it, when it was stored.
Entry(k, made) == [of |-> k, made |-> made, fetched_at |-> now]

Waiting == [at |-> "idle", key |-> Key(NoName, NoName), paths |-> 0, since |-> 0]

Nothing == [of |-> Key(NoName, NoName), made |-> 0, fetched_at |-> 0]

ModelsInit ==
    /\ BackendInit
    /\ base_url \in [Backends -> Urls]
    /\ cache = [k \in {} |-> Nothing]
    /\ clearing = 0
    /\ handler = [h \in Handlers |-> Waiting]
    /\ now = 0 /\ cleared_at = 0

-----------------------------------------------------------------------------
(* The configuration. *)

\* switch_backend changes the table under its lock, and when it has let go of
\* the lock it calls
Switch(b) ==
    /\ SwitchBackend(b) /\ LogBounded
    /\ clearing' = IF switch_log' # switch_log THEN clearing + 1 ELSE clearing
    /\ UNCHANGED <<base_url, cache, handler, now, cleared_at>>

\* Mutant of InvalidateCache: only the list of the backend that is active now.
InvalidateActive ==
    /\ clearing > 0 /\ clearing' = clearing - 1
    /\ cache' = Restrict(cache, {k \in DOMAIN cache : k[1] # active_backend})
    /\ cleared_at' = now
    /\ UNCHANGED <<backendVars, base_url, handler, now>>

\* invalidate_cache.
InvalidateCache ==
    /\ clearing > 0 /\ clearing' = clearing - 1
    /\ cache' = [k \in {} |-> Nothing]
    /\ cleared_at' = now
    /\ UNCHANGED <<backendVars, base_url, handler, now>>

\* update_config, which does not touch the cache: an edit may move a backend to
\* another URL, and drop the active one.
Edit ==
    /\ \E profile \in Profiles : PutConfig(profile)
    /\ LogBounded
    /\ \/ UNCHANGED base_url
       \/ \E b \in Backends, url \in Urls : base_url' = [base_url EXCEPT ![b] = url]
    /\ UNCHANGED <<cache, clearing, handler, now, cleared_at>>

-----------------------------------------------------------------------------
(* A request. *)

\* get_active_backend_config
Start(h) ==
    /\ handler[h].at = "idle"
    /\ handler' = [handler EXCEPT ![h] =
                     [at |-> "lookup", key |-> Key(active_backend, base_url[active_backend]),
                      paths |-> 0, since |-> 0]]
    /\ UNCHANGED <<backendVars, base_url, cache, clearing, now, cleared_at>>

\* Mutant of IsFresh: one unit too many.
IsFreshEnough(k) == now - cache[k].fetched_at <= CacheTtl

IsFresh(k) == now - cache[k].fetched_at < CacheTtl

\* get_cached: a fresh entry is the answer, otherwise the first path is tried.
\* A backend has one path when it configures it, and two to be probed.
Lookup(h) ==
    LET k == handler[h].key IN
    /\ handler[h].at = "lookup"
    /\ IF k \in DOMAIN cache /\ IsFresh(k)
       THEN handler' = [handler EXCEPT ![h] = Waiting]
       ELSE \E n \in {1, 2} : handler' = [handler EXCEPT ![h] =
                                 [at |-> "fetch", key |-> k, paths |-> n, since |-> now]]
    /\ UNCHANGED <<backendVars, base_url, cache, clearing, now, cleared_at>>

\* Mutant of KeyToStore: the backend that is active when the answer arrives.
KeyOfActive(h) == Key(active_backend, base_url[active_backend])

KeyToStore(h) == handler[h].key

\* The backend answers with its list, which it made at some moment since it was
\* asked; it is stored and sent on.
FetchSucceeds(h) ==
    /\ handler[h].at = "fetch"
    /\ \E made \in handler[h].since..now :
         cache' = [k \in DOMAIN cache \cup {KeyToStore(h)} |->
                     IF k = KeyToStore(h) THEN Entry(handler[h].key, made) ELSE cache[k]]
    /\ handler' = [handler EXCEPT ![h] = Waiting]
    /\ UNCHANGED <<backendVars, base_url, clearing, now, cleared_at>>

\* No connection, a timeout or a 404: the next path, or the error when it was
\* the last.  Any other status is an error at once, and no error is stored.
FetchFails(h) ==
    /\ handler[h].at = "fetch"
    /\ \/ /\ handler[h].paths = 2
          /\ handler' = [handler EXCEPT ![h] =
                           [at |-> "fetch", key |-> handler[h].key, paths |-> 1, since |-> now]]
       \/ handler' = [handler EXCEPT ![h] = Waiting]
    /\ UNCHANGED <<backendVars, base_url, cache, clearing, now, cleared_at>>

\* An attempt does not outlast its timeout, and a switch does not wait between
\* its two steps.
TimePasses ==
    /\ now < MaxTime
    /\ clearing = 0
    /\ \A h \in Handlers : handler[h].at # "lookup"
    /\ \A h \in Handlers : handler[h].at = "fetch" => now - handler[h].since < FetchTimeout
    /\ now' = now + 1
    /\ UNCHANGED <<backendVars, base_url, cache, clearing, handler, cleared_at>>

Request(h) == Start(h) \/ Lookup(h) \/ FetchSucceeds(h) \/ FetchFails(h)

ModelsNext ==
    \/ \E b \in Backends : Switch(b)
    \/ InvalidateCache
    \/ Edit
    \/ \E h \in Handlers : Request(h)
    \/ TimePasses

ModelsSpec == ModelsInit /\ [][ModelsNext]_modelsVars

-----------------------------------------------------------------------------
(* What must hold. *)

Keys == (Backends \X Urls) \cup {Key(NoName, NoName)}

EntryType == [of : Keys, made : Nat, fetched_at : Nat]

ModelsTypeOK ==
    /\ BackendTypeOK
    /\ base_url \in [Backends -> Urls]
    /\ DOMAIN cache \subseteq Backends \X Urls
    /\ \A k \in DOMAIN cache : cache[k] \in EntryType
    /\ {clearing, now, cleared_at} \subseteq Nat
    /\ handler \in [Handlers -> [at : {"idle", "lookup", "fetch"}, key : Keys,
                                 paths : 0..2, since : Nat]]

\* src/proxy/models.rs:20: what is stored for a backend is a list of that backend at
\* that URL, although others become active while it is fetched.
CacheHoldsOwnLists ==
    /\ ModelsTypeOK
    /\ \A k \in DOMAIN cache : cache[k].of = k

\* A request is answered out of the cache.
Served(h) == handler[h].at = "lookup" /\ handler'[h].at = "idle"

MadeAt(h) == cache[handler[h].key].made

\* src/proxy/models.rs:19: a list out of the cache was made by its backend less than
\* CACHE_TTL and one attempt ago.
ServedIsRecent ==
    [][\A h \in Handlers : Served(h) =>
         now - MadeAt(h) < CacheTtl + FetchTimeout]_modelsVars

\* src/backend/state.rs:287: no list survives a switch; only one that was on its way
\* when the cache was cleared may be older, by one attempt.
ServedSinceSwitch ==
    [][\A h \in Handlers : Served(h) => MadeAt(h) + FetchTimeout >= cleared_at]_modelsVars
=============================================================================
