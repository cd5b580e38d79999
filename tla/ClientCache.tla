---------------------------- MODULE ClientCache ----------------------------
(***************************************************************************)
(* The cache of HTTP clients of KiroProvider (kiro/provider.rs), one per   *)
(* effective proxy, and the global proxy it depends on.  The proxy and the *)
(* cache have a lock each: update_global_proxy takes one after the other,  *)
(* and client_for reads the proxy before it locks the cache.  Updates and  *)
(* lookups are processes that stand between their critical sections.       *)
(*                                                                         *)
(* A client is identified with the proxy it was built for.                 *)
(***************************************************************************)
EXTENDS Naturals, Sequences, FiniteSets

CONSTANTS
    Proxies,     \* proxy configurations
    Direct,      \* no proxy (None)
    Inherit,     \* a credential without a proxy of its own
    Cap,         \* CLIENT_CACHE_CAP (64 in the code)
    Updates,     \* admin calls that set the global proxy
    Lookups      \* requests that need a client

ASSUME CapAssumption == Cap \in Nat \ {0}
ASSUME ProxyAssumption == Direct \notin Proxies /\ Inherit \notin Proxies \cup {Direct}

Keys == Proxies \cup {Direct}

VARIABLES
    global_proxy,  \* RwLock<Option<ProxyConfig>>
    protected,     \* the cache: its protected key,
    order,         \*   the other keys in the order of insertion
    map,           \*   and the keys that have a client
    update,        \* [Updates -> [pc, proxy]]
    lookup         \* [Lookups -> [pc, key]]

cacheVars == <<protected, order, map>>
vars == <<global_proxy, protected, order, map, update, lookup>>

Ordered == {order[k] : k \in DOMAIN order}
-----------------------------------------------------------------------------
\* Mutant: the keys of the old cache stay in the queue.
Rebuild_keeps_order(key) ==
    /\ protected' = key
    /\ order' = order
    /\ map' = {key}

\* ClientCache::new
Rebuild(key) ==
    /\ protected' = key
    /\ order' = << >>
    /\ map' = {key}

\* ClientCache::insert: a full queue gives up its oldest key.  It is never longer
\* than the capacity, so the loop of the code evicts at most one.
insert(key) ==
    /\ UNCHANGED protected
    /\ IF key = protected \/ key \in map
       THEN map' = map \cup {key} /\ UNCHANGED order
       ELSE IF Len(order) >= Cap
       THEN order' = Append(Tail(order), key) /\ map' = (map \ {Head(order)}) \cup {key}
       ELSE order' = Append(order, key) /\ map' = map \cup {key}

effective_proxy(own, global) == IF own = Inherit THEN global ELSE own

-----------------------------------------------------------------------------
\* update_global_proxy: first the proxy, ...
SetProxy(u) ==
    /\ update[u].pc = "idle"
    /\ \E p \in Keys : /\ global_proxy' = p
                       /\ update' = [update EXCEPT ![u] = [pc |-> "set", proxy |-> p]]
    /\ UNCHANGED <<cacheVars, lookup>>

\* Mutant: the cache is left as it is.
SetCache_forgotten(u) ==
    /\ update[u].pc = "set"
    /\ update' = [update EXCEPT ![u] = [@ EXCEPT !.pc = "idle"]]
    /\ UNCHANGED <<global_proxy, cacheVars, lookup>>

\* ... then a new cache, protecting that proxy.
SetCache(u) ==
    /\ update[u].pc = "set"
    /\ Rebuild(update[u].proxy)
    /\ update' = [update EXCEPT ![u] = [@ EXCEPT !.pc = "idle"]]
    /\ UNCHANGED <<global_proxy, lookup>>

\* client_for: the effective proxy of the credential ...
ReadProxy(l) ==
    /\ lookup[l].pc = "idle"
    /\ \E own \in Keys \cup {Inherit} :
         lookup' = [lookup EXCEPT ![l] = [pc |-> "read", key |-> effective_proxy(own, global_proxy)]]
    /\ UNCHANGED <<global_proxy, cacheVars, update>>

\* ... and its client, built if the cache has none.
GetClient(l) ==
    /\ lookup[l].pc = "read"
    /\ IF lookup[l].key \in map THEN UNCHANGED cacheVars ELSE insert(lookup[l].key)
    /\ lookup' = [lookup EXCEPT ![l] = [@ EXCEPT !.pc = "idle"]]
    /\ UNCHANGED <<global_proxy, update>>

Init ==
    /\ global_proxy \in Keys
    /\ protected = global_proxy /\ order = << >> /\ map = {global_proxy}
    /\ update = [u \in Updates |-> [pc |-> "idle", proxy |-> Direct]]
    /\ lookup = [l \in Lookups |-> [pc |-> "idle", key |-> Direct]]

Next ==
    \/ \E u \in Updates : SetProxy(u) \/ SetCache(u)
    \/ \E l \in Lookups : ReadProxy(l) \/ GetClient(l)

Spec == Init /\ [][Next]_vars
-----------------------------------------------------------------------------
\* Type invariant of the cache and of the calls in progress.
TypeOK ==
    /\ global_proxy \in Keys /\ protected \in Keys
    /\ order \in Seq(Keys) /\ map \subseteq Keys
    /\ update \in [Updates -> [pc : {"idle", "set"}, proxy : Keys]]
    /\ lookup \in [Lookups -> [pc : {"idle", "read"}, key : Keys]]

\* The queue knows every client that may be evicted, once, and never the
\* protected one, so the cache is bounded and the protected client stays.
CacheInv ==
    /\ Len(order) <= Cap
    /\ map = Ordered \cup {protected}
    /\ protected \notin Ordered
    /\ \A j, k \in DOMAIN order : order[j] = order[k] => j = k

\* At most the capacity and the protected client, whatever lookups and updates
\* interleave.
Bounded == Cardinality(map) <= Cap + 1

Quiet == \A u \in Updates : update[u].pc = "idle"

\* "The key of the global proxy is protected": once no update is in progress, the
\* protected client is the one of the proxy in use.
GlobalProxyProtected == Quiet => protected = global_proxy
=============================================================================
