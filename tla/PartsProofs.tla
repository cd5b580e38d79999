----------------------------- MODULE PartsProofs -----------------------------
(***************************************************************************)
(* Proofs about the parts that MCParts checks one at a time, for any value *)
(* of their parameters.                                                    *)
(***************************************************************************)
EXTENDS MCParts, FiniteSetTheorems, SequenceTheorems, SubsequenceProofs, TLAPS

-----------------------------------------------------------------------------
(* ClientCache: CacheInv is the inductive invariant. *)

CacheIInv == TypeOK /\ CacheInv

\* Replacing the oldest key, or adding one, keeps the queue a queue of distinct
\* keys beside the protected one (ClientCache::insert).
LEMMA InsertOK ==
    ASSUME CacheIInv, NEW key \in Keys, insert(key)
    PROVE  order' \in Seq(Keys) /\ map' \subseteq Keys /\ protected' \in Keys /\ CacheInv'
<1>0. /\ order \in Seq(Keys) /\ map \subseteq Keys /\ protected \in Keys
      /\ Len(order) <= Cap /\ map = Ordered \cup {protected}
      /\ protected \notin Ordered /\ protected' = protected
      /\ \A j, k \in DOMAIN order : order[j] = order[k] => j = k
      /\ Len(order) \in Nat /\ DOMAIN order = 1 .. Len(order) /\ Cap \in Nat \ {0}
  BY CapAssumption DEF CacheIInv, TypeOK, CacheInv, insert
<1>1. CASE key = protected \/ key \in map
  <2>1. order' = order /\ map' = map
    BY <1>0, <1>1 DEF insert
  <2> QED
    BY <2>1, <1>0 DEF CacheInv, Ordered
<1>2. CASE ~(key = protected \/ key \in map) /\ Len(order) < Cap
  <2>1. order' = Append(order, key) /\ map' = map \cup {key}
    BY <1>0, <1>2 DEF insert
  <2>2. /\ order' \in Seq(Keys) /\ Len(order') = Len(order) + 1
        /\ DOMAIN order' = 1 .. Len(order) + 1
        /\ \A k \in 1 .. Len(order) : order'[k] = order[k]
        /\ order'[Len(order) + 1] = key
    BY <2>1, <1>0
  <2>3. Ordered' = Ordered \cup {key}
    BY <2>2, <1>0 DEF Ordered
  <2>4. key \notin Ordered
    BY <1>0, <1>2
  <2>5. \A j, k \in DOMAIN order' : order'[j] = order'[k] => j = k
    BY <2>2, <2>4, <1>0 DEF Ordered
  <2>6. Len(order') <= Cap /\ map' = Ordered' \cup {protected'} /\ protected' \notin Ordered'
    BY <2>1, <2>2, <2>3, <1>0, <1>2
  <2> QED
    BY <2>1, <2>2, <2>5, <2>6, <1>0 DEF CacheInv
<1>3. CASE ~(key = protected \/ key \in map) /\ Len(order) >= Cap
  <2>1. order' = Append(Tail(order), key) /\ map' = (map \ {Head(order)}) \cup {key}
    BY <1>0, <1>3 DEF insert
  <2>2. order # << >> /\ Len(order) >= 1
    BY <1>0, <1>3
  <2>3. /\ Tail(order) \in Seq(Keys) /\ Len(Tail(order)) = Len(order) - 1
        /\ \A k \in 1 .. Len(order) - 1 : Tail(order)[k] = order[k + 1]
        /\ Head(order) = order[1]
    BY <2>2, <1>0
  <2>4. /\ order' \in Seq(Keys) /\ Len(order') = Len(order)
        /\ DOMAIN order' = 1 .. Len(order)
        /\ \A k \in 1 .. Len(order) - 1 : order'[k] = order[k + 1]
        /\ order'[Len(order)] = key
    BY <2>1, <2>2, <2>3, <1>0
  <2>5. key \notin Ordered
    BY <1>0, <1>3
  <2>6. Ordered' = (Ordered \ {Head(order)}) \cup {key}
    <3>0. \A k \in 1 .. Len(order) : k # Len(order) =>
            k \in 1 .. Len(order) - 1 /\ k + 1 \in DOMAIN order /\ 1 \in DOMAIN order /\ k + 1 # 1
      <4>1. \A n \in Nat : \A k \in 1 .. n : k # n =>
              k \in 1 .. n - 1 /\ k + 1 \in 1 .. n /\ 1 \in 1 .. n /\ k + 1 # 1
        OBVIOUS
      <4>2. Len(order) \in Nat /\ DOMAIN order = 1 .. Len(order)
        BY <1>0
      <4> QED
        BY <4>1, <4>2
    <3>1. ASSUME NEW x \in Ordered' PROVE x \in (Ordered \ {Head(order)}) \cup {key}
      <4>1. PICK k \in 1 .. Len(order) : x = order'[k]
        BY <2>4 DEF Ordered
      <4>2. CASE k = Len(order)
        BY <4>1, <4>2, <2>4
      <4>3. CASE k # Len(order)
        <5>1. k \in 1 .. Len(order) - 1 /\ k + 1 \in DOMAIN order /\ 1 \in DOMAIN order /\ k + 1 # 1
          BY <4>1, <4>3, <3>0
        <5>2. x = order[k + 1]
          BY <5>1, <4>1, <2>4
        <5>3. order[k + 1] # order[1]
          BY <5>1, <1>0
        <5> QED
          BY <5>1, <5>2, <5>3, <2>3 DEF Ordered
      <4> QED
        BY <4>2, <4>3
    <3>2. ASSUME NEW x \in Ordered, x # Head(order) PROVE x \in Ordered'
      <4>1. PICK k \in 1 .. Len(order) : x = order[k]
        BY <1>0 DEF Ordered
      <4>2. k - 1 \in 1 .. Len(order) - 1 /\ (k - 1) + 1 = k
        BY <4>1, <3>2, <2>3, <1>0
      <4>3. order'[k - 1] = order[k] /\ k - 1 \in DOMAIN order'
        BY <4>2, <2>4, <1>0
      <4> QED
        BY <4>1, <4>3 DEF Ordered
    <3>3. key \in Ordered'
      BY <2>2, <2>4, <1>0 DEF Ordered
    <3> QED
      BY <3>1, <3>2, <3>3
  <2>7. \A j, k \in DOMAIN order' : order'[j] = order'[k] => j = k
    <3>1. \A k \in 1 .. Len(order) - 1 : order'[k] # key
      BY <2>4, <2>5, <1>0 DEF Ordered
    <3>2. \A j, k \in 1 .. Len(order) - 1 : order'[j] = order'[k] => j = k
      <4>1. ASSUME NEW j \in 1 .. Len(order) - 1, NEW k \in 1 .. Len(order) - 1,
                   order'[j] = order'[k]
            PROVE  j = k
        <5>1. j + 1 \in DOMAIN order /\ k + 1 \in DOMAIN order
          BY <1>0
        <5>2. order[j + 1] = order[k + 1]
          BY <2>4, <4>1
        <5>3. j + 1 = k + 1
          BY <5>1, <5>2, <1>0
        <5> QED
          BY <5>3, <1>0
      <4> QED
        BY <4>1
    <3> QED
      BY <3>1, <3>2, <2>4, <1>0
  <2>8. Head(order) \in Ordered
    BY <2>2, <2>3, <1>0 DEF Ordered
  <2>9. map' = Ordered' \cup {protected'} /\ protected' \notin Ordered'
    BY <2>1, <2>6, <2>8, <1>0, <1>3
  <2>10. map' \subseteq Keys /\ Len(order') <= Cap
    BY <2>1, <2>4, <1>0
  <2> QED
    BY <2>4, <2>7, <2>9, <2>10, <1>0 DEF CacheInv
<1> QED
  BY <1>0, <1>1, <1>2, <1>3

\* The three facts of the induction over the steps of lookups and updates.
LEMMA InitCache == Init => CacheIInv
<1> SUFFICES ASSUME Init PROVE CacheIInv
  OBVIOUS
<1>1. TypeOK
  BY DEF Init, TypeOK, Keys
<1>2. order = << >> /\ map = {protected} /\ Cap \in Nat \ {0}
  BY CapAssumption DEF Init
<1>3. Ordered = {} /\ Len(order) = 0
  BY <1>2 DEF Ordered
<1>4. CacheInv
  BY <1>2, <1>3 DEF CacheInv
<1> QED
  BY <1>1, <1>4 DEF CacheIInv

LEMMA CacheNext == CacheIInv /\ [Next]_vars => CacheIInv'
<1> SUFFICES ASSUME CacheIInv, [Next]_vars PROVE CacheIInv'
  OBVIOUS
<1>0. TypeOK /\ CacheInv
  BY DEF CacheIInv
<1>1. ASSUME NEW u \in Updates, SetProxy(u) PROVE CacheIInv'
  <2>1. PICK p \in Keys : global_proxy' = p
                          /\ update' = [update EXCEPT ![u] = [pc |-> "set", proxy |-> p]]
    BY <1>1 DEF SetProxy
  <2>2. UNCHANGED <<protected, order, map, lookup>>
    BY <1>1 DEF SetProxy, cacheVars
  <2> QED
    BY <2>1, <2>2, <1>0 DEF CacheIInv, TypeOK, CacheInv, Ordered
<1>2. ASSUME NEW u \in Updates, SetCache(u) PROVE CacheIInv'
  <2>1. /\ update[u].proxy \in Keys /\ protected' = update[u].proxy /\ order' = << >>
        /\ map' = {update[u].proxy} /\ UNCHANGED <<global_proxy, lookup>>
    BY <1>2, <1>0 DEF SetCache, Rebuild, TypeOK
  <2>2. update' \in [Updates -> [pc : {"idle", "set"}, proxy : Keys]]
    BY <1>2, <1>0 DEF SetCache, TypeOK
  <2>3. Ordered' = {} /\ Len(order') = 0 /\ Cap \in Nat \ {0}
    BY <2>1, CapAssumption DEF Ordered
  <2>4. CacheInv'
    BY <2>1, <2>3 DEF CacheInv
  <2>5. TypeOK'
    BY <2>1, <2>2, <1>0 DEF TypeOK
  <2> QED
    BY <2>4, <2>5 DEF CacheIInv
<1>3. ASSUME NEW l \in Lookups, ReadProxy(l) PROVE CacheIInv'
  <2>1. PICK own \in Keys \cup {Inherit} :
          lookup' = [lookup EXCEPT ![l] =
                       [pc |-> "read", key |-> effective_proxy(own, global_proxy)]]
    BY <1>3 DEF ReadProxy
  <2>2. effective_proxy(own, global_proxy) \in Keys
    BY <1>0 DEF effective_proxy, TypeOK
  <2>3. UNCHANGED <<global_proxy, protected, order, map, update>>
    BY <1>3 DEF ReadProxy, cacheVars
  <2> QED
    BY <2>1, <2>2, <2>3, <1>0 DEF CacheIInv, TypeOK, CacheInv, Ordered
<1>4. ASSUME NEW l \in Lookups, GetClient(l) PROVE CacheIInv'
  <2>1. lookup[l].key \in Keys /\ UNCHANGED <<global_proxy, update>>
    BY <1>4, <1>0 DEF GetClient, TypeOK
  <2>2. lookup' \in [Lookups -> [pc : {"idle", "read"}, key : Keys]]
    BY <1>4, <1>0 DEF GetClient, TypeOK
  <2>3. CASE lookup[l].key \in map
    <3>1. UNCHANGED <<protected, order, map>>
      BY <2>3, <1>4 DEF GetClient, cacheVars
    <3> QED
      BY <3>1, <2>1, <2>2, <1>0 DEF CacheIInv, TypeOK, CacheInv, Ordered
  <2>4. CASE lookup[l].key \notin map
    <3>1. insert(lookup[l].key)
      BY <2>4, <1>4 DEF GetClient
    <3>2. order' \in Seq(Keys) /\ map' \subseteq Keys /\ protected' \in Keys /\ CacheInv'
      BY <3>1, <2>1, InsertOK
    <3> QED
      BY <3>2, <2>1, <2>2, <1>0 DEF CacheIInv, TypeOK
  <2> QED
    BY <2>3, <2>4
<1>5. CASE UNCHANGED vars
  BY <1>5, <1>0 DEF vars, CacheIInv, TypeOK, CacheInv, Ordered
<1> QED
  BY <1>1, <1>2, <1>3, <1>4, <1>5 DEF Next

\* The cache's bookkeeping is right in every reachable state: the queue lists
\* exactly the clients that may be evicted, and never the protected one.
THEOREM CacheCorrect == Spec => []CacheInv
<1>1. CacheIInv => CacheInv
  BY DEF CacheIInv
<1> QED
  BY <1>1, InitCache, CacheNext, PTL DEF Spec

\* A cache whose queue is in order holds at most Cap + 1 clients.
LEMMA BoundedOK == CacheIInv => Bounded
<1> SUFFICES ASSUME CacheIInv PROVE Bounded
  OBVIOUS
<1>1. /\ order \in Seq(Keys) /\ Len(order) <= Cap /\ map = Ordered \cup {protected}
      /\ Cap \in Nat /\ Len(order) \in Nat
  BY CapAssumption DEF CacheIInv, TypeOK, CacheInv
<1>2. IsFiniteSet(Ordered) /\ Cardinality(Ordered) <= Len(order)
  <2> DEFINE f == [k \in 1 .. Len(order) |-> order[k]]
  <2>1. f \in Surjection(1 .. Len(order), Ordered)
    BY <1>1 DEF Surjection, Ordered
  <2>2. IsFiniteSet(1 .. Len(order)) /\ Cardinality(1 .. Len(order)) = Len(order)
    <3>1. 1 \in Int /\ Len(order) \in Int
      BY <1>1
    <3>2. /\ IsFiniteSet(1 .. Len(order))
          /\ Cardinality(1 .. Len(order)) = IF 1 > Len(order) THEN 0 ELSE Len(order) - 1 + 1
      BY <3>1, FS_Interval
    <3> QED
      BY <3>2, <1>1
  <2> QED
    BY <2>1, <2>2, FS_Surjection
<1>4. Cardinality(Ordered) \in Nat
  BY <1>2, FS_CardinalityType
<1>3. Cardinality(Ordered \cup {protected}) <= Cardinality(Ordered) + 1
  <2>1. \/ Cardinality(Ordered \cup {protected}) = Cardinality(Ordered)
        \/ Cardinality(Ordered \cup {protected}) = Cardinality(Ordered) + 1
    BY <1>2, FS_AddElement
  <2> QED
    BY <2>1, <1>4
<1>5. IsFiniteSet(map) /\ Cardinality(map) \in Nat
  BY <1>1, <1>2, FS_AddElement, FS_CardinalityType
<1> QED
  BY <1>1, <1>2, <1>3, <1>4, <1>5 DEF Bounded

\* However many proxies the pool has, the cache stays bounded.
THEOREM CacheBounded == Spec => []Bounded
BY BoundedOK, InitCache, CacheNext, PTL DEF Spec
-----------------------------------------------------------------------------
\* Between its two locks an update has set the proxy that it is about to protect, as
\* long as no other update comes in between.
ProtectInv ==
    /\ \A u \in Updates : update[u].pc = "set" => update[u].proxy = global_proxy
    /\ Quiet => protected = global_proxy

\* The steps of one update that is alone, and of any number of lookups, keep it.
LEMMA ProtectStep ==
    ASSUME \A u, v \in Updates : u = v, TypeOK, ProtectInv, [Next]_vars
    PROVE  ProtectInv'
<1>1. ASSUME NEW u \in Updates, SetProxy(u) PROVE ProtectInv'
  <2>1. PICK p \in Keys : /\ global_proxy' = p
                          /\ update' = [update EXCEPT ![u] = [pc |-> "set", proxy |-> p]]
    BY <1>1 DEF SetProxy
  <2>2. update'[u].pc = "set" /\ update'[u].proxy = global_proxy'
    BY <2>1 DEF TypeOK
  <2> QED
    BY <2>2 DEF ProtectInv, Quiet
<1>2. ASSUME NEW u \in Updates, SetCache(u) PROVE ProtectInv'
  <2>1. /\ protected' = update[u].proxy /\ global_proxy' = global_proxy
        /\ update' = [update EXCEPT ![u] = [@ EXCEPT !.pc = "idle"]]
        /\ update[u].proxy = global_proxy
    BY <1>2 DEF SetCache, Rebuild, ProtectInv
  <2>2. update'[u].pc = "idle"
    BY <2>1 DEF TypeOK
  <2> QED
    BY <2>1, <2>2 DEF ProtectInv
<1>3. ASSUME NEW l \in Lookups, ReadProxy(l) \/ GetClient(l) PROVE ProtectInv'
  BY <1>3 DEF ReadProxy, GetClient, insert, cacheVars, ProtectInv, Quiet
<1>4. CASE UNCHANGED vars
  BY <1>4 DEF vars, ProtectInv, Quiet
<1> QED
  BY <1>1, <1>2, <1>3, <1>4 DEF Next

\* When the administrator changes the proxy once at a time, the client of the proxy in
\* use is the protected one after every change (update_global_proxy and
\* ClientCache::new), whatever lookups insert or evict meanwhile.
THEOREM ProtectedTheorem ==
    ASSUME \A u, v \in Updates : u = v
    PROVE  Spec => []GlobalProxyProtected
<1>1. Init => ProtectInv
  BY DEF Init, ProtectInv
<1>2. CacheIInv /\ ProtectInv /\ [Next]_vars => ProtectInv'
  BY ProtectStep DEF CacheIInv
<1>3. ProtectInv => GlobalProxyProtected
  BY DEF ProtectInv, GlobalProxyProtected
<1> QED
  BY <1>1, <1>2, <1>3, InitCache, CacheNext, PTL DEF Spec

-----------------------------------------------------------------------------
(* ClientKeys *)

KP == INSTANCE ClientKeysProofs WITH
        next_id <- key_next_id, boots <- key_boots, unsaved <- key_unsaved

LEMMA KeysSpec == K!Spec => KP!Spec
<1>1. K!Init => KP!Init
  BY DEF K!Init, KP!Init, K!Loaded, KP!Loaded, K!Fresh, KP!Fresh, K!NoKeys, KP!NoKeys,
         K!Max, KP!Max, K!Cardinality, KP!Cardinality
<1>2. K!Next => KP!Next
  BY DEF K!Next, KP!Next, K!Create, KP!Create, K!Delete, KP!Delete, K!Edit, KP!Edit,
         K!SetDisabled, KP!SetDisabled, K!ResetStats, KP!ResetStats, K!UpdateMeta, KP!UpdateMeta,
         K!Admit, KP!Admit, K!VerifyAndTouch, KP!VerifyAndTouch, K!Hits, KP!Hits,
         K!Finish, KP!Finish, K!RecordUsage, KP!RecordUsage, K!FlushToDisk, KP!FlushToDisk,
         K!Restart, KP!Restart, K!Load, KP!Load, K!Loaded, KP!Loaded, K!Save, KP!Save,
         K!KeysOf, KP!KeysOf, K!Fresh, KP!Fresh, K!Max, KP!Max
<1>3. [K!Next]_(K!vars) => [KP!Next]_(KP!vars)
  BY <1>2 DEF K!vars, KP!vars
<1> QED
  BY <1>1, <1>3, PTL DEF K!Spec, KP!Spec

\* No request is charged to a key it did not use, and what is clean and was saved is in
\* the file (record_usage, load, flush_to_disk and save_locked of ClientKeyManager).
THEOREM KeysTotals == K!Spec => []TotalsTrue
<1>1. KP!TotalsTrue => TotalsTrue
  BY DEF TotalsTrue, K!TotalsTrue, KP!TotalsTrue, K!Loaded, KP!Loaded
<1> QED
  BY <1>1, KeysSpec, KP!TotalsTheorem, PTL

\* verify_and_touch accepts no deleted and no disabled key, before and after a restart.
THEOREM KeysRevoked == K!Spec => RevokedRefused
<1>1. [KP!OnlyLiveKeysAdmitted]_(KP!vars) => [K!OnlyLiveKeysAdmitted]_keyVars
  BY DEF K!OnlyLiveKeysAdmitted, KP!OnlyLiveKeysAdmitted, KP!vars, keyVars
<1> QED
  BY <1>1, KeysSpec, KP!RevokedTheorem, PTL DEF RevokedRefused, KP!RevokedRefused

-----------------------------------------------------------------------------
(* ConfigStore *)

\* A configuration: a value of each field.
IsConfig(x) == x = [f \in C!Fields |-> x[f]]
CallOf(x) == x = [f \in {"pc", "field", "value", "previous", "cfg"} |-> x[f]]

\* What the file f keeps of the values in use r: all of them, until a write failed or
\* update_global_config was called; the load balancing mode, until that was called.
\* Field g is the one that a setter has changed and not yet written; it was v before.
Kept(f, r, g, v) ==
    /\ ~globals => /\ g # "mode" => f["mode"] = r["mode"]
                   /\ g = "mode" => f["mode"] = v
    /\ ~globals /\ ~failed => \A h \in C!Fields \ {g} : f[h] = r[h]

Whole == "none"   \* no field is left to write

ConfigShape ==
    /\ IsConfig(file) /\ IsConfig(config) /\ IsConfig(config_running)
    /\ config_call = [c \in Callers |-> config_call[c]]
    /\ \A c \in Callers :
         /\ CallOf(config_call[c])
         /\ config_call[c].pc \in {"idle", "load", "save", "global", "apply"}

\* What holds of the call x that runs, or of one that has ended.
CallInv(x) ==
    /\ x.pc \in {"idle", "global"} => Kept(file, config_running, Whole, 0)
    /\ x.pc \in {"load", "save"} =>
         /\ x.field \in C!Fields \ {"region"}
         /\ config_running[x.field] = x.value
         /\ Kept(file, config_running, x.field, x.previous)
    /\ x.pc = "save" => x.cfg = file
    /\ x.pc \in {"global", "apply"} => IsConfig(x.cfg)
    /\ x.pc = "apply" => globals /\ file = x.cfg
    /\ x.pc # "apply" => file["region"] = config_running["region"] /\ config["region"] = config_running["region"]

ConfigInv == ConfigShape /\ \A c \in Callers : CallInv(config_call[c])

LEMMA InitConfig == C!Init => ConfigInv
<1> SUFFICES ASSUME C!Init PROVE ConfigInv
  OBVIOUS
<1>1. CallOf(C!NoCall) /\ C!NoCall.pc = "idle"
  BY DEF C!NoCall, CallOf
<1>2. config_call = [c \in Callers |-> config_call[c]] /\ \A c \in Callers : config_call[c] = C!NoCall
  BY DEF C!Init
<1>3. ConfigShape
  BY <1>1, <1>2 DEF C!Init, ConfigShape, IsConfig
<1>4. Kept(file, config_running, Whole, 0) /\ file["region"] = config_running["region"] /\ config["region"] = config_running["region"]
  BY DEF C!Init, Kept, C!Fields, Whole
<1> QED
  BY <1>1, <1>2, <1>3, <1>4 DEF ConfigInv, CallInv

\* The one call there is becomes x.
LEMMA TheCall ==
    ASSUME \A a, b \in Callers : a = b, ConfigInv, NEW c \in Callers, NEW x, CallOf(x),
           x.pc \in {"idle", "load", "save", "global", "apply"},
           config_call' = [config_call EXCEPT ![c] = x],
           IsConfig(file)', IsConfig(config)', IsConfig(config_running)', CallInv(x)'
    PROVE  ConfigInv'
<1>1. /\ config_call' = [a \in Callers |-> config_call'[a]]
      /\ \A a \in Callers : config_call'[a] = x
  BY DEF ConfigInv, ConfigShape
<1>2. ConfigShape'
  BY <1>1 DEF ConfigShape
<1>3. \A a \in Callers : CallInv(config_call[a])'
  BY <1>1 DEF CallInv
<1> QED
  BY <1>2, <1>3 DEF ConfigInv

LEMMA SetStep ==
    ASSUME \A a, b \in Callers : a = b, ConfigInv, NEW c \in Callers, NEW v,
           NEW f \in C!Fields \ {"region"}, C!Set(c, f, v)
    PROVE  ConfigInv'
<1>0. PICK old : old = config_running[f]
  OBVIOUS
<1>1. PICK x : x = [config_call[c] EXCEPT !.pc = "load", !.field = f, !.value = v, !.previous = old]
  OBVIOUS
<1>2. /\ config_call[c].pc = "idle"
      /\ config_running' = [config_running EXCEPT ![f] = v]
      /\ config_call' = [config_call EXCEPT ![c] = x]
      /\ UNCHANGED <<file, config, failed, globals>>
  BY <1>0, <1>1 DEF C!Set
<1>3. CallOf(x) /\ x.pc = "load" /\ x.field = f /\ x.value = v /\ x.previous = old
  BY <1>1 DEF ConfigInv, ConfigShape, CallOf
<1>4. IsConfig(config_running') /\ IsConfig(config_running) /\ f \in C!Fields
  BY <1>2 DEF ConfigInv, ConfigShape, IsConfig
<1>5. config_running'[f] = v /\ \A g \in C!Fields \ {f} : config_running'[g] = config_running[g]
  BY <1>2, <1>4 DEF IsConfig
<1>6. /\ Kept(file, config_running, Whole, 0)
      /\ file["region"] = config_running["region"] /\ config["region"] = config_running["region"]
  BY <1>2 DEF ConfigInv, CallInv
<1>7. Kept(file, config_running, f, old)'
  BY <1>0, <1>2, <1>5, <1>6 DEF Kept, Whole, C!Fields
<1>8. file'["region"] = config_running'["region"] /\ config'["region"] = config_running'["region"]
  BY <1>2, <1>5, <1>6 DEF C!Fields
<1>9. CallInv(x)'
  BY <1>2, <1>3, <1>5, <1>7, <1>8 DEF CallInv
<1> QED
  BY <1>2, <1>3, <1>4, <1>9, TheCall DEF ConfigInv, ConfigShape

LEMMA SetProxyFailsStep ==
    ASSUME \A a, b \in Callers : a = b, ConfigInv, NEW c \in Callers, NEW v, C!SetProxyFails(c, v)
    PROVE  ConfigInv'
<1>1. /\ config_call[c].pc = "idle" /\ failed' = TRUE
      /\ config_running' = [config_running EXCEPT !["proxy"] = v]
      /\ UNCHANGED <<file, config, config_call, globals>>
  BY DEF C!SetProxyFails
<1>2. IsConfig(config_running') /\ \A g \in C!Fields \ {"proxy"} : config_running'[g] = config_running[g]
  BY <1>1 DEF ConfigInv, ConfigShape, IsConfig
<1>3. ConfigShape'
  BY <1>1, <1>2 DEF ConfigInv, ConfigShape
<1>4. \A a \in Callers : CallInv(config_call[a])'
  BY <1>1, <1>2 DEF ConfigInv, CallInv, Kept, Whole, C!Fields
<1> QED
  BY <1>3, <1>4 DEF ConfigInv

LEMMA LoadStep ==
    ASSUME \A a, b \in Callers : a = b, ConfigInv, NEW c \in Callers, C!Load(c)
    PROVE  ConfigInv'
<1>1. PICK x : x = [config_call[c] EXCEPT !.pc = "save", !.cfg = file]
  OBVIOUS
<1>2. /\ config_call[c].pc = "load" /\ config_call' = [config_call EXCEPT ![c] = x]
      /\ UNCHANGED <<file, config, config_running, failed, globals>>
  BY <1>1 DEF C!Load
<1>3. /\ CallOf(x) /\ x.pc = "save" /\ x.field = config_call[c].field
      /\ x.value = config_call[c].value /\ x.previous = config_call[c].previous /\ x.cfg = file
  BY <1>1 DEF ConfigInv, ConfigShape, CallOf
<1>4. CallInv(x)'
  BY <1>2, <1>3 DEF ConfigInv, CallInv, Kept
<1> QED
  BY <1>2, <1>3, <1>4, TheCall DEF ConfigInv, ConfigShape, IsConfig

\* What a call that ends leaves.
LEMMA SetterEnds ==
    ASSUME \A a, b \in Callers : a = b, ConfigInv, NEW c \in Callers, C!Finish(c),
           IsConfig(file'), IsConfig(config'), IsConfig(config_running'),
           Kept(file, config_running, Whole, 0)',
           file'["region"] = config_running'["region"], config'["region"] = config_running'["region"]
    PROVE  ConfigInv'
<1>1. PICK x : x = C!NoCall
  OBVIOUS
<1>2. CallOf(x) /\ x.pc = "idle" /\ config_call' = [config_call EXCEPT ![c] = x]
  BY <1>1 DEF C!NoCall, CallOf, C!Finish
<1>3. CallInv(x)'
  BY <1>2 DEF CallInv
<1> QED
  BY <1>2, <1>3, TheCall DEF IsConfig

LEMMA SaveStep ==
    ASSUME \A a, b \in Callers : a = b, ConfigInv, NEW c \in Callers, C!Save(c)
    PROVE  ConfigInv'
<1>1. PICK f : f = config_call[c].field
  OBVIOUS
<1>2. /\ config_call[c].pc = "save" /\ C!Finish(c)
      /\ file' = [config_call[c].cfg EXCEPT ![f] = config_call[c].value]
      /\ UNCHANGED <<config, config_running, failed, globals>>
  BY <1>1 DEF C!Save
<1>3. /\ f \in C!Fields \ {"region"} /\ config_running[f] = config_call[c].value
      /\ config_call[c].cfg = file /\ Kept(file, config_running, f, config_call[c].previous)
      /\ file["region"] = config_running["region"] /\ config["region"] = config_running["region"]
  BY <1>1, <1>2 DEF ConfigInv, CallInv
<1>4. IsConfig(file')
  BY <1>2, <1>3 DEF ConfigInv, ConfigShape, IsConfig
<1>5. file'[f] = config_running'[f] /\ \A g \in C!Fields \ {f} : file'[g] = file[g]
  BY <1>2, <1>3 DEF ConfigInv, ConfigShape, IsConfig
<1>6. Kept(file, config_running, Whole, 0)'
  BY <1>2, <1>3, <1>5 DEF Kept, Whole, C!Fields
<1>7. file'["region"] = file["region"]
  BY <1>3, <1>5 DEF C!Fields
<1> QED
  BY <1>2, <1>3, <1>4, <1>6, <1>7, SetterEnds DEF ConfigInv, ConfigShape, IsConfig

\* The value of a field that is rolled back is what the file kept.
LEMMA PersistFailsStep ==
    ASSUME \A a, b \in Callers : a = b, ConfigInv, NEW c \in Callers, C!PersistFails(c)
    PROVE  ConfigInv'
<1>1. PICK x : x = config_call[c]
  OBVIOUS
<1>2. /\ x.pc \in {"load", "save"} /\ C!Finish(c) /\ failed' = TRUE
      /\ config_running' = IF x.field = "mode" THEN [config_running EXCEPT !["mode"] = x.previous]
                           ELSE config_running
      /\ UNCHANGED <<file, config, globals>>
  BY <1>1 DEF C!PersistFails
<1>3. /\ x.field \in C!Fields \ {"region"} /\ Kept(file, config_running, x.field, x.previous)
      /\ file["region"] = config_running["region"] /\ config["region"] = config_running["region"]
  BY <1>1, <1>2 DEF ConfigInv, CallInv
<1>4. /\ IsConfig(config_running')
      /\ \A g \in C!Fields \ {"mode"} : config_running'[g] = config_running[g]
      /\ config_running'["mode"] = IF x.field = "mode" THEN x.previous ELSE config_running["mode"]
  BY <1>2 DEF ConfigInv, ConfigShape, IsConfig, C!Fields
<1>5. Kept(file, config_running, Whole, 0)'
  BY <1>2, <1>3, <1>4 DEF Kept, Whole
<1>6. config_running'["region"] = config_running["region"]
  BY <1>4 DEF C!Fields
<1> QED
  BY <1>2, <1>3, <1>4, <1>5, <1>6, SetterEnds DEF ConfigInv, ConfigShape, IsConfig

LEMMA GlobalStartStep ==
    ASSUME \A a, b \in Callers : a = b, ConfigInv, NEW c \in Callers, NEW f, NEW v,
           C!GlobalStart(c, f, v)
    PROVE  ConfigInv'
<1>1. PICK cfg : cfg = [config EXCEPT ![f] = v]
  OBVIOUS
<1>2. PICK x : x = [config_call[c] EXCEPT !.pc = "global", !.field = f, !.value = v, !.cfg = cfg]
  OBVIOUS
<1>3. /\ config_call[c].pc = "idle" /\ config_call' = [config_call EXCEPT ![c] = x]
      /\ UNCHANGED <<file, config, config_running, failed, globals>>
  BY <1>1, <1>2 DEF C!GlobalStart
<1>4. CallOf(x) /\ x.pc = "global" /\ x.cfg = cfg
  BY <1>2 DEF ConfigInv, ConfigShape, CallOf
<1>5. IsConfig(cfg)
  BY <1>1 DEF ConfigInv, ConfigShape, IsConfig
<1>6. CallInv(x)'
  BY <1>3, <1>4, <1>5 DEF ConfigInv, CallInv, Kept, IsConfig
<1> QED
  BY <1>3, <1>4, <1>6, TheCall DEF ConfigInv, ConfigShape, IsConfig

LEMMA GlobalSaveStep ==
    ASSUME \A a, b \in Callers : a = b, ConfigInv, NEW c \in Callers, C!GlobalSave(c)
    PROVE  ConfigInv'
<1>1. /\ config_call[c].pc = "global" /\ globals' = TRUE /\ UNCHANGED <<config, config_running>>
      /\ IsConfig(config_call[c].cfg)
  BY DEF C!GlobalSave, ConfigInv, CallInv
<1>2. CASE file' = config_call[c].cfg /\ config_call' = [config_call EXCEPT ![c].pc = "apply"]
  <2>1. PICK x : x = [config_call[c] EXCEPT !.pc = "apply"]
    OBVIOUS
  <2>2. config_call' = [config_call EXCEPT ![c] = x]
    BY <1>2, <2>1
  <2>3. CallOf(x) /\ x.pc = "apply" /\ x.cfg = config_call[c].cfg
    BY <2>1 DEF ConfigInv, ConfigShape, CallOf
  <2>4. CallInv(x)'
    BY <1>1, <1>2, <2>3 DEF CallInv, IsConfig
  <2> QED
    BY <1>1, <1>2, <2>2, <2>3, <2>4, TheCall DEF ConfigInv, ConfigShape, IsConfig
<1>3. CASE failed' = TRUE /\ C!Finish(c) /\ UNCHANGED file
  <2>1. file["region"] = config_running["region"] /\ config["region"] = config_running["region"]
    BY <1>1 DEF ConfigInv, CallInv
  <2>2. Kept(file, config_running, Whole, 0)'
    BY <1>1 DEF Kept
  <2> QED
    BY <1>1, <1>3, <2>1, <2>2, SetterEnds DEF ConfigInv, ConfigShape, IsConfig
<1> QED
  BY <1>2, <1>3 DEF C!GlobalSave

LEMMA GlobalApplyStep ==
    ASSUME \A a, b \in Callers : a = b, ConfigInv, NEW c \in Callers, C!GlobalApply(c)
    PROVE  ConfigInv'
<1>1. PICK cfg : cfg = config_call[c].cfg
  OBVIOUS
<1>2. /\ config_call[c].pc = "apply" /\ config' = cfg /\ C!Finish(c)
      /\ config_running' = [config_running EXCEPT !["proxy"] = cfg["proxy"],
                              !["trace"] = cfg["trace"], !["region"] = cfg["region"]]
      /\ UNCHANGED <<file, failed, globals>>
  BY <1>1 DEF C!GlobalApply
<1>3. globals /\ file = cfg /\ IsConfig(cfg)
  BY <1>1, <1>2 DEF ConfigInv, CallInv
<1>4. IsConfig(config_running') /\ config_running'["region"] = cfg["region"]
  BY <1>2 DEF ConfigInv, ConfigShape, IsConfig, C!Fields
<1>5. Kept(file, config_running, Whole, 0)'
  BY <1>2, <1>3 DEF Kept
<1> QED
  BY <1>2, <1>3, <1>4, <1>5, SetterEnds DEF IsConfig

LEMMA ConfigRestartStep ==
    ASSUME ConfigInv, C!Restart
    PROVE  ConfigInv'
<1>1. /\ config' = file /\ config_running' = file /\ UNCHANGED file
      /\ config_call' = [c \in Callers |-> C!NoCall]
  BY DEF C!Restart
<1>2. CallOf(C!NoCall) /\ C!NoCall.pc = "idle"
  BY DEF C!NoCall, CallOf
<1>3. config_call' = [c \in Callers |-> config_call'[c]] /\ \A c \in Callers : config_call'[c] = C!NoCall
  BY <1>1
<1>4. ConfigShape'
  BY <1>1, <1>2, <1>3 DEF ConfigInv, ConfigShape, IsConfig
<1>5. Kept(file, config_running, Whole, 0)'
  BY <1>1 DEF Kept, C!Fields, Whole
<1> QED
  BY <1>1, <1>2, <1>3, <1>4, <1>5 DEF ConfigInv, CallInv

LEMMA ConfigNext ==
    (\A a, b \in Callers : a = b) /\ ConfigInv /\ [C!Next]_(C!vars) => ConfigInv'
<1> SUFFICES ASSUME \A a, b \in Callers : a = b, ConfigInv, [C!Next]_(C!vars) PROVE ConfigInv'
  OBVIOUS
<1>1. CASE UNCHANGED C!vars
  BY <1>1 DEF C!vars, ConfigInv, ConfigShape, CallInv, Kept, IsConfig
<1>2. ASSUME NEW c \in Callers, NEW v \in Values,
             C!SetKey(c, v) \/ C!SetMode(c, v) \/ C!SetTrace(c, v) \/ C!SetProxy(c, v)
      PROVE  ConfigInv'
  <2>1. \E f \in C!Fields \ {"region"} : C!Set(c, f, v)
    BY <1>2 DEF C!SetKey, C!SetMode, C!SetTrace, C!SetProxy, C!Fields
  <2> QED
    BY <2>1, SetStep
<1> QED
  BY <1>1, <1>2, SetProxyFailsStep, LoadStep, SaveStep, PersistFailsStep, GlobalStartStep,
     GlobalSaveStep, GlobalApplyStep, ConfigRestartStep DEF C!Next

\* While the Admin API serves one call at a time, what is in use between calls is what a
\* restart finds in config.json, as far as the setters promise, also after a write that
\* failed: any values and number of restarts.  (With two calls at a time it does not hold:
\* the file is read, changed and written without a lock.)
THEOREM SettersTheorem ==
    ASSUME NEW c, Callers = {c}
    PROVE  C!Spec => []SettersPersist
<1>1. ASSUME ConfigInv PROVE SettersPersist
  <2> SUFFICES ASSUME C!Idle
               PROVE  /\ ~failed /\ ~globals => \A f \in C!Fields : file[f] = config_running[f]
                      /\ ~globals => file["mode"] = config_running["mode"]
                      /\ file["region"] = config_running["region"]
                      /\ config["region"] = config_running["region"]
    BY DEF SettersPersist, C!SettersPersist
  <2> QED
    BY <1>1 DEF C!Idle, ConfigInv, CallInv, Kept, Whole, C!Fields
<1>2. C!Init => ConfigInv
  BY InitConfig
<1>3. ConfigInv /\ [C!Next]_(C!vars) => ConfigInv'
  <2>1. \A a, b \in Callers : a = b
    OBVIOUS
  <2> QED
    BY <2>1, ConfigNext
<1> QED
  BY <1>1, <1>2, <1>3, PTL DEF C!Spec

-----------------------------------------------------------------------------
(* ProxyPool *)

\* An entry in use is wanted, unmarked and below the limit; one that is wanted and not
\* in use is marked.
ProxyOK(x) ==
    /\ x = [f \in {"url", "enabled", "fails", "auto", "wanted"} |-> x[f]]
    /\ x.fails \in Nat
    /\ x.enabled => x.wanted /\ ~x.auto /\ x.fails < MaxProbeFailures
    /\ ~x.enabled /\ x.wanted => x.auto

\* A pool whose ids were given out before n, with each URL once.
PoolOK(p, n) ==
    /\ p = [i \in DOMAIN p |-> p[i]]
    /\ \A i \in DOMAIN p : i \in Nat /\ i < n /\ ProxyOK(p[i])
    /\ \A i, j \in DOMAIN p : p[i].url = p[j].url => i = j

\* A probe is for an id that was given out, and the URL that has it as long as any has.
TargetsOK(ts, p, n) ==
    \A t \in ts : t.id \in Nat /\ t.id < n /\ (t.id \in DOMAIN p => p[t.id].url = t.url)

ProxyInv ==
    /\ next_id \in Nat /\ 0 < next_id
    /\ unsaved \in Nat
    /\ PoolOK(pool, next_id) /\ PoolOK(poolFile, next_id)
    /\ checks = [c \in Checks |-> checks[c]]
    /\ \A c \in Checks : TargetsOK(checks[c].targets, pool, next_id)
    /\ unsaved = 0 /\ ~behind => poolFile = pool

LEMMA UrlsCounted ==
    ASSUME NEW p, NEW n \in Nat, PoolOK(p, n)
    PROVE  P!Cardinality(P!UrlsIn(p)) = P!Cardinality(DOMAIN p)
<1> DEFINE f == [i \in DOMAIN p |-> p[i].url]
<1>1. IsFiniteSet(DOMAIN p)
  <2>1. DOMAIN p \subseteq 0 .. n
    BY DEF PoolOK
  <2>2. IsFiniteSet(0 .. n)
    BY FS_Interval
  <2> QED
    BY <2>1, <2>2, FS_Subset
<1>2. f \in Surjection(DOMAIN p, P!UrlsIn(p))
  BY DEF Surjection, P!UrlsIn
<1>3. f \in Injection(DOMAIN p, P!UrlsIn(p))
  BY DEF PoolOK, Injection, IsInjective, P!UrlsIn
<1> HIDE DEF f
<1>4. Cardinality(P!UrlsIn(p)) = Cardinality(DOMAIN p)
  BY <1>1, <1>2, <1>3, FS_Surjection
<1> QED
  BY <1>4 DEF P!Cardinality, Cardinality

LEMMA InitProxies == P!Init => ProxyInv
<1> SUFFICES ASSUME P!Init PROVE ProxyInv
  OBVIOUS
<1>1. P!NoPool = [i \in DOMAIN P!NoPool |-> P!NoPool[i]] /\ DOMAIN P!NoPool = {}
  BY DEF P!NoPool
<1>2. PoolOK(P!NoPool, 1)
  BY <1>1 DEF PoolOK
<1>3. checks = [c \in Checks |-> checks[c]] /\ \A c \in Checks : checks[c].targets = {}
  BY DEF P!Init, P!NoCheck
<1> QED
  BY <1>2, <1>3 DEF P!Init, ProxyInv, TargetsOK

\* The pool is replaced by p: ids stay, or the next one is given out; the URL of an
\* entry stays as long as the entry does.
LEMMA PoolChanges ==
    ASSUME ProxyInv, NEW p, P!Changed(p), next_id' \in {next_id, next_id + 1},
           PoolOK(p, next_id'),
           \A i \in DOMAIN p : i < next_id => i \in DOMAIN pool /\ p[i].url = pool[i].url,
           checks' = [c \in Checks |-> checks'[c]],
           \A c \in Checks : checks'[c].targets \subseteq checks[c].targets
    PROVE  ProxyInv'
<1>1. /\ pool' = p /\ unsaved' = unsaved + 1 /\ unsaved' \in Nat /\ unsaved' # 0
      /\ UNCHANGED <<poolFile, behind>>
  BY DEF P!Changed, ProxyInv
<1>2. next_id' \in Nat /\ 0 < next_id' /\ next_id <= next_id'
  BY DEF ProxyInv
<1>3. PoolOK(poolFile, next_id')
  BY <1>2 DEF ProxyInv, PoolOK
<1>4. \A c \in Checks : TargetsOK(checks'[c].targets, p, next_id')
  BY <1>2 DEF ProxyInv, TargetsOK
<1> QED
  BY <1>1, <1>2, <1>3, <1>4 DEF ProxyInv

LEMMA AddProxyStep ==
    ASSUME MaxProbeFailures \in Nat \ {0}, ProxyInv, NEW u \in Urls, P!Add(u)
    PROVE  ProxyInv'
<1> DEFINE x == P!Fresh(u)
           p == [i \in DOMAIN pool \cup {next_id} |-> IF i = next_id THEN x ELSE pool[i]]
<1>1. u \notin P!UrlsIn(pool) /\ next_id' = next_id + 1 /\ P!Changed(p) /\ UNCHANGED checks
  BY DEF P!Add
<1>2. ProxyOK(x) /\ x.url = u
  BY DEF P!Fresh, ProxyOK
<1> HIDE DEF x
<1>3. next_id \notin DOMAIN pool
  BY DEF ProxyInv, PoolOK
<1>4. /\ DOMAIN p = DOMAIN pool \cup {next_id} /\ p = [i \in DOMAIN p |-> p[i]]
      /\ p[next_id] = x /\ \A i \in DOMAIN pool : p[i] = pool[i]
  BY <1>3
<1> HIDE DEF p
<1>5. \A i \in DOMAIN p : i \in Nat /\ i < next_id' /\ ProxyOK(p[i])
  BY <1>1, <1>2, <1>4 DEF ProxyInv, PoolOK
<1>6. \A i \in DOMAIN pool : pool[i].url # u
  BY <1>1 DEF P!UrlsIn
<1>7. \A i, j \in DOMAIN p : p[i].url = p[j].url => i = j
  BY <1>2, <1>4, <1>6 DEF ProxyInv, PoolOK
<1>8. PoolOK(p, next_id')
  BY <1>4, <1>5, <1>7 DEF PoolOK
<1>9. \A i \in DOMAIN p : i < next_id => i \in DOMAIN pool /\ p[i].url = pool[i].url
  BY <1>4 DEF ProxyInv
<1> QED
  BY <1>1, <1>8, <1>9, PoolChanges DEF ProxyInv

\* Entries are changed one by one and keep their ids and URLs.
LEMMA EntriesChange ==
    ASSUME ProxyInv, NEW p, DOMAIN p = DOMAIN pool, p = [i \in DOMAIN p |-> p[i]],
           \A i \in DOMAIN p : ProxyOK(p[i]) /\ p[i].url = pool[i].url,
           P!Changed(p), UNCHANGED next_id,
           checks' = [c \in Checks |-> checks'[c]],
           \A c \in Checks : checks'[c].targets \subseteq checks[c].targets
    PROVE  ProxyInv'
<1>1. PoolOK(p, next_id)
  BY DEF ProxyInv, PoolOK
<1> QED
  BY <1>1, PoolChanges

LEMMA SetEnabledStep ==
    ASSUME MaxProbeFailures \in Nat \ {0}, ProxyInv, NEW i \in DOMAIN pool, NEW e \in BOOLEAN,
           P!SetEnabled(i, e)
    PROVE  ProxyInv'
<1> DEFINE x == P!Enabled(pool[i], e)
           p == [pool EXCEPT ![i] = x]
<1>1. P!Changed(p) /\ UNCHANGED <<next_id, checks>>
  BY DEF P!SetEnabled
<1>2. ProxyOK(pool[i])
  BY DEF ProxyInv, PoolOK
<1>3. ProxyOK(x) /\ x.url = pool[i].url
  <2>1. CASE e
    <3>1. x = [pool[i] EXCEPT !.enabled = TRUE, !.auto = FALSE, !.fails = 0, !.wanted = TRUE]
      BY <2>1 DEF P!Enabled
    <3>2. /\ x = [f \in {"url", "enabled", "fails", "auto", "wanted"} |-> x[f]]
          /\ x.enabled = TRUE /\ x.auto = FALSE /\ x.fails = 0 /\ x.wanted = TRUE
          /\ x.url = pool[i].url
      BY <1>2, <3>1 DEF ProxyOK
    <3> QED
      BY <3>2 DEF ProxyOK
  <2>2. CASE ~e
    BY <1>2, <2>2 DEF P!Enabled, ProxyOK
  <2> QED
    BY <2>1, <2>2
<1> HIDE DEF x
<1>4. /\ DOMAIN p = DOMAIN pool /\ p = [j \in DOMAIN p |-> p[j]]
      /\ p[i] = x /\ \A j \in DOMAIN pool \ {i} : p[j] = pool[j]
  BY DEF ProxyInv, PoolOK
<1> HIDE DEF p
<1>5. \A j \in DOMAIN p : ProxyOK(p[j]) /\ p[j].url = pool[j].url
  BY <1>3, <1>4 DEF ProxyInv, PoolOK
<1> QED
  BY <1>1, <1>4, <1>5, EntriesChange DEF ProxyInv

LEMMA ProbeResult ==
    ASSUME MaxProbeFailures \in Nat \ {0}, NEW x, ProxyOK(x), NEW ok \in BOOLEAN
    PROVE  ProxyOK(P!ApplyProbeResult(x, ok)) /\ P!ApplyProbeResult(x, ok).url = x.url
<1>1. CASE ok
  BY <1>1 DEF P!ApplyProbeResult, ProxyOK
<1>2. CASE ~ok
  <2> DEFINE n == IF x.fails < MaxProbeFailures THEN x.fails + 1 ELSE x.fails
             y == [x EXCEPT !.fails = n]
             z == [y EXCEPT !.enabled = FALSE, !.auto = TRUE]
  <2>1. n \in Nat
    BY DEF ProxyOK
  <2> HIDE DEF n
  <2>2. y = [f \in {"url", "enabled", "fails", "auto", "wanted"} |-> y[f]]
        /\ y.fails = n /\ y.url = x.url /\ y.enabled = x.enabled /\ y.auto = x.auto /\ y.wanted = x.wanted
    BY DEF ProxyOK
  <2> HIDE DEF y
  <2>3. z = [f \in {"url", "enabled", "fails", "auto", "wanted"} |-> z[f]]
        /\ z.fails = n /\ z.url = x.url /\ z.enabled = FALSE /\ z.auto = TRUE /\ z.wanted = x.wanted
    BY <2>2
  <2>4. P!ApplyProbeResult(x, ok) = IF n >= MaxProbeFailures /\ y.enabled THEN z ELSE y
    BY <1>2 DEF P!ApplyProbeResult, P!Failed, n, y
  <2> HIDE DEF z
  <2>5. CASE n >= MaxProbeFailures /\ y.enabled
    BY <2>1, <2>3, <2>4, <2>5 DEF ProxyOK
  <2>6. CASE ~(n >= MaxProbeFailures /\ y.enabled)
    BY <2>1, <2>2, <2>4, <2>6 DEF ProxyOK
  <2> QED
    BY <2>5, <2>6
<1> QED
  BY <1>1, <1>2

LEMMA CheckDoneStep ==
    ASSUME MaxProbeFailures \in Nat \ {0}, ProxyInv, NEW c \in Checks, NEW oks, P!CheckDone(c, oks)
    PROVE  ProxyInv'
<1> DEFINE ids == {t.id : t \in checks[c].targets}
           p == [i \in DOMAIN pool |->
                   IF i \in ids THEN P!ApplyProbeResult(pool[i], i \in oks) ELSE pool[i]]
<1>1. /\ checks' = [checks EXCEPT ![c] = P!NoCheck] /\ UNCHANGED next_id
      /\ UNCHANGED <<pool, unsaved, poolFile, behind>> \/ P!Changed(p)
  BY DEF P!CheckDone
<1>2. /\ checks' = [d \in Checks |-> checks'[d]]
      /\ \A d \in Checks : checks'[d].targets \subseteq checks[d].targets
  BY <1>1 DEF ProxyInv, P!NoCheck
<1>3. CASE UNCHANGED <<pool, unsaved, poolFile, behind>>
  BY <1>1, <1>2, <1>3 DEF ProxyInv, TargetsOK
<1>4. CASE P!Changed(p)
  <2> HIDE DEF ids
  <2>1. DOMAIN p = DOMAIN pool /\ p = [i \in DOMAIN p |-> p[i]]
    OBVIOUS
  <2>2. \A i \in DOMAIN pool : ProxyOK(p[i]) /\ p[i].url = pool[i].url
    <3> TAKE i \in DOMAIN pool
    <3>1. ProxyOK(pool[i]) /\ (i \in oks) \in BOOLEAN
      BY DEF ProxyInv, PoolOK
    <3>2. p[i] = IF i \in ids THEN P!ApplyProbeResult(pool[i], i \in oks) ELSE pool[i]
      OBVIOUS
    <3> HIDE DEF p
    <3>3. /\ ProxyOK(P!ApplyProbeResult(pool[i], i \in oks))
          /\ P!ApplyProbeResult(pool[i], i \in oks).url = pool[i].url
      BY <3>1, ProbeResult
    <3> QED
      BY <3>1, <3>2, <3>3
  <2> HIDE DEF p
  <2> QED
    BY <1>1, <1>2, <1>4, <2>1, <2>2, EntriesChange
<1> QED
  BY <1>1, <1>3, <1>4

LEMMA CheckStep ==
    ASSUME ProxyInv, NEW c \in Checks, NEW one, NEW ids \in SUBSET DOMAIN pool, P!Check(c, one, ids)
    PROVE  ProxyInv'
<1> DEFINE ts == {[id |-> i, url |-> pool[i].url] : i \in ids}
           x == [one |-> one, targets |-> ts]
<1>1. TargetsOK(ts, pool, next_id)
  BY DEF TargetsOK, ProxyInv, PoolOK
<1>2. checks' = [checks EXCEPT ![c] = x] /\ UNCHANGED <<pool, next_id, poolFile, unsaved, behind>>
  BY DEF P!Check
<1>3. x.targets = ts
  OBVIOUS
<1> HIDE DEF x, ts
<1>4. /\ checks' = [d \in Checks |-> checks'[d]]
      /\ \A d \in Checks : checks'[d] = IF d = c THEN x ELSE checks[d]
  BY <1>2 DEF ProxyInv
<1> QED
  BY <1>1, <1>2, <1>3, <1>4 DEF ProxyInv

LEMMA DeleteProxyStep ==
    ASSUME ProxyInv, NEW i \in DOMAIN pool, P!Delete(i)
    PROVE  ProxyInv'
<1> DEFINE p == [j \in DOMAIN pool \ {i} |-> pool[j]]
<1>1. P!Changed(p) /\ UNCHANGED <<next_id, checks>>
  BY DEF P!Delete
<1>2. /\ DOMAIN p = DOMAIN pool \ {i} /\ p = [j \in DOMAIN p |-> p[j]]
      /\ \A j \in DOMAIN p : p[j] = pool[j]
  OBVIOUS
<1> HIDE DEF p
<1>3. PoolOK(p, next_id)
  BY <1>2 DEF ProxyInv, PoolOK
<1> QED
  BY <1>1, <1>2, <1>3, PoolChanges DEF ProxyInv

LEMMA PersistStep ==
    ASSUME ProxyInv, P!Persist
    PROVE  ProxyInv'
BY DEF ProxyInv, P!Persist

LEMMA ProxyRestartStep ==
    ASSUME ProxyInv, P!Restart
    PROVE  ProxyInv'
<1> DEFINE ids == DOMAIN poolFile' \cup {0}
<1>1. /\ poolFile' \in {poolFile, P!NoPool} /\ pool' = poolFile' /\ next_id' = P!Max(ids) + 1
      /\ checks' = [c \in Checks |-> P!NoCheck] /\ unsaved' = 0
  BY DEF P!Restart
<1>2. PoolOK(P!NoPool, next_id)
  <2>1. P!NoPool = [i \in DOMAIN P!NoPool |-> P!NoPool[i]] /\ DOMAIN P!NoPool = {}
    BY DEF P!NoPool
  <2> QED
    BY <2>1 DEF PoolOK
<1>3. PoolOK(poolFile', next_id)
  BY <1>1, <1>2 DEF ProxyInv
<1>4. ids \subseteq Nat /\ ids # {} /\ \A i \in ids : i <= next_id
  BY <1>3 DEF PoolOK, ProxyInv
<1>5. P!Max(ids) \in ids /\ \A i \in ids : i <= P!Max(ids)
  <2> HIDE DEF ids
  <2>1. KP!Max(ids) \in ids /\ \A i \in ids : i <= KP!Max(ids)
    BY <1>4, KP!MaxOfBounded DEF ProxyInv
  <2> QED
    BY <2>1 DEF KP!Max, P!Max
<1>6. next_id' \in Nat /\ 0 < next_id' /\ \A i \in DOMAIN poolFile' : i < next_id'
  <2>1. P!Max(ids) \in Nat
    BY <1>4, <1>5
  <2>2. \A i \in ids : i < P!Max(ids) + 1
    BY <1>4, <1>5, <2>1
  <2> HIDE DEF ids
  <2>3. 0 < P!Max(ids) + 1 /\ P!Max(ids) + 1 \in Nat
    BY <2>1
  <2> QED
    BY <1>1, <2>2, <2>3 DEF ids
<1>7. PoolOK(poolFile', next_id')
  BY <1>3, <1>6 DEF PoolOK
<1>8. checks' = [c \in Checks |-> checks'[c]] /\ \A c \in Checks : checks'[c].targets = {}
  BY <1>1 DEF P!NoCheck
<1> QED
  BY <1>1, <1>6, <1>7, <1>8 DEF ProxyInv, TargetsOK

LEMMA ProxyNext == MaxProbeFailures \in Nat \ {0} /\ ProxyInv /\ [P!Next]_(P!vars) => ProxyInv'
<1> SUFFICES ASSUME MaxProbeFailures \in Nat \ {0}, ProxyInv, [P!Next]_(P!vars) PROVE ProxyInv'
  OBVIOUS
<1>1. CASE UNCHANGED P!vars
  BY <1>1 DEF P!vars, ProxyInv
<1>2. ASSUME NEW c \in Checks, P!CheckAll(c) \/ \E i \in DOMAIN pool : P!CheckOne(c, i)
      PROVE  ProxyInv'
  BY <1>2, CheckStep DEF P!CheckAll, P!CheckOne
<1> QED
  BY <1>1, <1>2, AddProxyStep, DeleteProxyStep, SetEnabledStep, PersistStep, CheckDoneStep,
     ProxyRestartStep DEF P!Next

\* Whatever probes run while the pool is changed by hand, an answer reaches only the
\* proxy it was sent through, no URL is in the pool twice, a proxy in use is wanted, not
\* marked and below the limit, and the file has the pool once every operation has
\* written it: any number of checks, of URLs and of restarts (proxy_pool.rs).
THEOREM ProbesTheorem ==
    ASSUME MaxProbeFailures \in Nat \ {0}
    PROVE  P!Spec => []ProbesKeepToTheirProxy
<1>1. ProxyInv => ProbesKeepToTheirProxy
  BY UrlsCounted DEF ProxyInv, PoolOK, ProxyOK, TargetsOK, ProbesKeepToTheirProxy,
     P!ProbesKeepToTheirProxy
<1>2. P!Init => ProxyInv
  BY InitProxies
<1>3. ProxyInv /\ [P!Next]_(P!vars) => ProxyInv'
  BY ProxyNext
<1> QED
  BY <1>1, <1>2, <1>3, PTL DEF P!Spec

-----------------------------------------------------------------------------
(* OnlineUpdate *)

\* A whole binary that has run before.
Known(f) == f.whole /\ f.v \in ran

Moving == {"move", "install", "restore"}
Waiting == {"idle", "resolve", "download", "verify", "copy", "clean", "remove", "record",
            "rollback", "forget"}
Ops == {"none", "pull", "apply", "rollback"}
UpdateCall(pcs) == [pc : pcs, op : Ops, v : Nat]

Replacing(c) == call[c].pc \in Moving

UpdateShape ==
    /\ call = [c \in Calls |-> call[c]]
    /\ \A c \in Calls : call[c] \in UpdateCall(Moving \cup Waiting)
    /\ latest \in Nat

\* While installations and rollbacks do not overlap: one call at a time replaces the
\* executable; until it is moved it is a known binary; a backup is a known binary; the
\* backup is there from the moment the executable was moved.
UpdateInv ==
    /\ \A c, d \in Calls : Replacing(c) /\ Replacing(d) => c = d
    /\ running # 0 /\ ~moved => Known(exe)
    /\ \A c \in Calls : call[c].pc = "move" => ~moved
    /\ \A c \in Calls : call[c].pc \in {"install", "restore"} => moved /\ backup # O!Nothing
    /\ backup # O!Nothing => Known(backup)
    /\ Known(exe) \/ backup # O!Nothing

OUpdateInv == UpdateShape /\ (~overlapped => UpdateInv)

LEMMA InitUpdate == O!Init => OUpdateInv
<1> SUFFICES ASSUME O!Init PROVE OUpdateInv
  OBVIOUS
<1>1. O!Idle \in UpdateCall(Moving \cup Waiting) /\ O!Idle.pc = "idle"
  BY DEF O!Idle, UpdateCall, Moving, Waiting, Ops
<1>2. call = [c \in Calls |-> O!Idle]
  BY DEF O!Init
<1>3. call = [c \in Calls |-> call[c]] /\ \A c \in Calls : call[c] = O!Idle
  BY <1>2
<1>4. UpdateShape
  BY <1>1, <1>3 DEF O!Init, UpdateShape
<1>5. UpdateInv
  BY <1>1, <1>3 DEF O!Init, O!Nothing, UpdateInv, Known, Replacing, Moving
<1> QED
  BY <1>4, <1>5 DEF OUpdateInv

\* A call goes on to a step that replaces nothing, and the files stay.
Onward(c) ==
    /\ \E e \in UpdateCall(Waiting) : call' = [call EXCEPT ![c] = e]
    /\ UNCHANGED <<exe, backup, running, moved, ran, overlapped, latest>>

LEMMA OnwardStep ==
    ASSUME OUpdateInv, NEW c \in Calls, Onward(c)
    PROVE  OUpdateInv'
<1>1. PICK e \in UpdateCall(Waiting) : call' = [call EXCEPT ![c] = e]
  BY DEF Onward
<1>2. e.pc \notin Moving /\ e \in UpdateCall(Moving \cup Waiting)
  BY DEF UpdateCall, Waiting, Moving
<1>3. UpdateShape'
  BY <1>1, <1>2 DEF OUpdateInv, UpdateShape, Onward
<1>4. ASSUME ~overlapped' PROVE UpdateInv'
  <2>1. UpdateInv /\ UNCHANGED <<exe, backup, running, moved, ran>>
    BY <1>4 DEF Onward, OUpdateInv
  <2>2. \A d \in Calls : call'[d].pc \in Moving => call'[d] = call[d]
    BY <1>1, <1>2 DEF OUpdateInv, UpdateShape
  <2> QED
    BY <2>1, <2>2 DEF UpdateInv, Known, Replacing, Moving
<1> QED
  BY <1>3, <1>4 DEF OUpdateInv

\* The steps of a call that neither move a file of the executable nor start to.
LEMMA OnwardKinds ==
    ASSUME UpdateShape, NEW c \in Calls,
           \/ \E op \in {"pull", "apply", "rollback"} : O!Start(c, op)
           \/ O!Resolve(c) \/ O!Download(c) \/ O!Verify(c) \/ O!Copy(c) \/ O!Clean(c)
           \/ O!Record(c) \/ O!Forget(c)
    PROVE  Onward(c)
<1>1. call[c] \in UpdateCall(Moving \cup Waiting) /\ latest \in Nat
  BY DEF UpdateShape
<1>2. O!Idle \in UpdateCall(Waiting)
  BY DEF O!Idle, UpdateCall, Waiting, Ops
<1>3. ASSUME O!Return(c) PROVE \E e \in UpdateCall(Waiting) : call' = [call EXCEPT ![c] = e]
  BY <1>2, <1>3 DEF O!Return
<1>4. ASSUME NEW p \in Waiting, O!Goto(c, p)
      PROVE  \E e \in UpdateCall(Waiting) : call' = [call EXCEPT ![c] = e]
  <2>1. [call[c] EXCEPT !.pc = p] \in UpdateCall(Waiting)
    BY <1>1 DEF UpdateCall
  <2> QED
    BY <1>4, <2>1 DEF O!Goto
<1>5. ASSUME NEW op \in {"pull", "apply", "rollback"}, O!Start(c, op) PROVE Onward(c)
  <2>1. [pc |-> IF op = "rollback" THEN "rollback" ELSE "resolve", op |-> op, v |-> 0] \in UpdateCall(Waiting)
    BY DEF UpdateCall, Waiting, Ops
  <2> QED
    BY <1>5, <2>1 DEF O!Start, Onward, O!files
<1>6. CASE O!Resolve(c)
  <2>1. CASE O!Return(c)
    BY <1>3, <1>6, <2>1 DEF O!Resolve, Onward, O!files
  <2>2. ASSUME NEW p \in {"download", "clean"},
               call' = [call EXCEPT ![c].v = latest, ![c].pc = p]
        PROVE  Onward(c)
    <3>1. [call[c] EXCEPT !.v = latest, !.pc = p] \in UpdateCall(Waiting)
      BY <1>1 DEF UpdateCall, Waiting
    <3>2. call' = [call EXCEPT ![c] = [call[c] EXCEPT !.v = latest, !.pc = p]]
      BY <2>2
    <3> QED
      BY <1>6, <3>1, <3>2 DEF O!Resolve, Onward, O!files
  <2> QED
    BY <1>6, <2>1, <2>2 DEF O!Resolve
<1>7. CASE O!Download(c) \/ O!Verify(c) \/ O!Copy(c) \/ O!Clean(c)
  <2>1. O!Return(c) \/ \E p \in {"verify", "copy", "clean", "remove"} : O!Goto(c, p)
    BY <1>7 DEF O!Download, O!Verify, O!Copy, O!Clean
  <2>2. \E e \in UpdateCall(Waiting) : call' = [call EXCEPT ![c] = e]
    BY <1>3, <1>4, <2>1 DEF Waiting
  <2> QED
    BY <1>7, <2>2 DEF O!Download, O!Verify, O!Copy, O!Clean, Onward, O!files
<1>8. CASE O!Record(c) \/ O!Forget(c)
  BY <1>3, <1>8 DEF O!Record, O!Forget, Onward, O!files
<1> QED
  BY <1>5, <1>6, <1>7, <1>8

LEMMA CallTo ==
    ASSUME UpdateShape, NEW c \in Calls, NEW p \in Moving \cup Waiting, O!Goto(c, p)
    PROVE  /\ call' = [d \in Calls |-> call'[d]]
           /\ \A d \in Calls : call'[d] \in UpdateCall(Moving \cup Waiting)
           /\ call'[c].pc = p
           /\ \A d \in Calls \ {c} : call'[d] = call[d]
BY DEF UpdateShape, UpdateCall, O!Goto

LEMMA CallEnds ==
    ASSUME UpdateShape, NEW c \in Calls, O!Return(c)
    PROVE  /\ call' = [d \in Calls |-> call'[d]]
           /\ \A d \in Calls : call'[d] \in UpdateCall(Moving \cup Waiting)
           /\ call'[c].pc = "idle"
           /\ \A d \in Calls \ {c} : call'[d] = call[d]
<1>1. O!Idle \in UpdateCall(Moving \cup Waiting) /\ O!Idle.pc = "idle"
  BY DEF O!Idle, UpdateCall, Waiting, Ops
<1> QED
  BY <1>1 DEF UpdateShape, O!Return

\* The first call to replace the executable since it was last started, while none does.
LEMMA AloneBefore ==
    ASSUME OUpdateInv, NEW c \in Calls, call[c].pc \notin Moving, ~O!Overlapping(c), running # 0
    PROVE  /\ UpdateInv /\ ~overlapped /\ ~moved /\ Known(exe)
           /\ \A d \in Calls : ~Replacing(d)
BY DEF OUpdateInv, O!Overlapping, UpdateInv, Replacing, Moving

LEMMA RemoveBackupStep ==
    ASSUME OUpdateInv, NEW c \in Calls, O!RemoveBackup(c)
    PROVE  OUpdateInv'
<1>1. /\ call[c].pc = "remove" /\ running # 0 /\ backup' \in {backup, O!Nothing} /\ O!Goto(c, "move")
      /\ overlapped' = O!Overlapping(c) /\ UNCHANGED <<exe, running, latest, moved, ran>>
  BY DEF O!RemoveBackup, O!At
<1>2. /\ call' = [d \in Calls |-> call'[d]]
      /\ \A d \in Calls : call'[d] \in UpdateCall(Moving \cup Waiting)
      /\ call'[c].pc = "move" /\ \A d \in Calls \ {c} : call'[d] = call[d]
  BY <1>1, CallTo DEF OUpdateInv, Moving
<1>3. UpdateShape'
  BY <1>1, <1>2 DEF OUpdateInv, UpdateShape
<1>4. ASSUME ~overlapped' PROVE UpdateInv'
  <2>1. UpdateInv /\ ~moved /\ Known(exe) /\ \A d \in Calls : ~Replacing(d)
    BY <1>1, <1>4, AloneBefore DEF Moving
  <2> QED
    BY <1>1, <1>2, <2>1 DEF UpdateInv, Replacing, Moving, Known
<1> QED
  BY <1>3, <1>4 DEF OUpdateInv

LEMMA SetAsideStep ==
    ASSUME OUpdateInv, NEW c \in Calls, O!SetAside(c)
    PROVE  OUpdateInv'
<1>1. call[c].pc = "rollback" /\ running # 0 /\ UNCHANGED <<backup, running, latest, ran>>
  BY DEF O!SetAside, O!At
<1>2. CASE O!Return(c) /\ UNCHANGED <<exe, moved, overlapped>>
  <2>1. Onward(c)
    BY <1>1, <1>2 DEF O!Return, O!Idle, Onward, UpdateCall, Waiting, Ops
  <2> QED
    BY <2>1, OnwardStep
<1>3. CASE /\ backup # O!Nothing /\ exe' = O!Nothing /\ moved' = TRUE
           /\ overlapped' = O!Overlapping(c) /\ O!Goto(c, "restore")
  <2>1. /\ call' = [d \in Calls |-> call'[d]]
        /\ \A d \in Calls : call'[d] \in UpdateCall(Moving \cup Waiting)
        /\ call'[c].pc = "restore" /\ \A d \in Calls \ {c} : call'[d] = call[d]
    BY <1>3, CallTo DEF OUpdateInv, Moving
  <2>2. UpdateShape'
    BY <1>1, <1>3, <2>1 DEF OUpdateInv, UpdateShape
  <2>3. ASSUME ~overlapped' PROVE UpdateInv'
    <3>1. UpdateInv /\ \A d \in Calls : ~Replacing(d)
      BY <1>1, <1>3, <2>3, AloneBefore DEF Moving
    <3> QED
      BY <1>1, <1>3, <2>1, <3>1 DEF UpdateInv, Replacing, Moving, Known
  <2> QED
    BY <2>2, <2>3 DEF OUpdateInv
<1> QED
  BY <1>2, <1>3 DEF O!SetAside

LEMMA MoveExeStep ==
    ASSUME OUpdateInv, NEW c \in Calls, O!MoveExe(c)
    PROVE  OUpdateInv'
<1>1. call[c].pc = "move" /\ running # 0 /\ UNCHANGED <<running, latest, ran, overlapped>>
  BY DEF O!MoveExe, O!At
<1>2. CASE O!Return(c) /\ UNCHANGED <<exe, backup, moved>>
  <2>1. Onward(c)
    BY <1>1, <1>2 DEF O!Return, O!Idle, Onward, UpdateCall, Waiting, Ops
  <2> QED
    BY <2>1, OnwardStep
<1>3. CASE exe # O!Nothing /\ exe' = O!Nothing /\ backup' = exe /\ moved' = TRUE /\ O!Goto(c, "install")
  <2>1. /\ call' = [d \in Calls |-> call'[d]]
        /\ \A d \in Calls : call'[d] \in UpdateCall(Moving \cup Waiting)
        /\ call'[c].pc = "install" /\ \A d \in Calls \ {c} : call'[d] = call[d]
    BY <1>3, CallTo DEF OUpdateInv, Moving
  <2>2. UpdateShape'
    BY <1>1, <1>3, <2>1 DEF OUpdateInv, UpdateShape
  <2>3. ASSUME ~overlapped' PROVE UpdateInv'
    <3>1. UpdateInv /\ ~moved /\ Known(exe) /\ \A d \in Calls \ {c} : ~Replacing(d)
      BY <1>1, <2>3 DEF OUpdateInv, UpdateInv, Replacing, Moving
    <3> QED
      BY <1>1, <1>3, <2>1, <3>1 DEF UpdateInv, Replacing, Moving, Known
  <2> QED
    BY <2>2, <2>3 DEF OUpdateInv
<1> QED
  BY <1>2, <1>3 DEF O!MoveExe

\* The call that replaces the executable ends, or goes on to what follows; the backup
\* stays, or is the executable again.
LEMMA ReplaceEnds ==
    ASSUME OUpdateInv, NEW c \in Calls, call[c].pc \in {"install", "restore"},
           \/ O!Return(c)
           \/ \E p \in {"record", "forget"} : O!Goto(c, p),
           UNCHANGED <<running, latest, ran, overlapped, moved>>,
           \/ backup' = backup
           \/ exe' = backup /\ backup' = O!Nothing
    PROVE  OUpdateInv'
<1>1. /\ call' = [d \in Calls |-> call'[d]]
      /\ \A d \in Calls : call'[d] \in UpdateCall(Moving \cup Waiting)
      /\ call'[c].pc \in {"idle", "record", "forget"} /\ \A d \in Calls \ {c} : call'[d] = call[d]
  BY CallTo, CallEnds DEF OUpdateInv, Waiting
<1>2. UpdateShape'
  BY <1>1 DEF OUpdateInv, UpdateShape
<1>3. ASSUME ~overlapped' PROVE UpdateInv'
  <2>1. UpdateInv /\ moved /\ backup # O!Nothing /\ Known(backup) /\ \A d \in Calls \ {c} : ~Replacing(d)
    BY <1>3 DEF OUpdateInv, UpdateInv, Replacing, Moving
  <2>2. \A d \in Calls : ~Replacing(d)'
    BY <1>1, <2>1 DEF Replacing, Moving
  <2>3. \A d \in Calls : call'[d].pc \notin Moving
    BY <2>2 DEF Replacing
  <2> QED
    BY <2>1, <2>2, <2>3 DEF UpdateInv, Moving, Known
<1> QED
  BY <1>2, <1>3 DEF OUpdateInv

LEMMA InstallStep ==
    ASSUME OUpdateInv, NEW c \in Calls, O!Install(c) \/ O!Restore(c)
    PROVE  OUpdateInv'
<1>1. CASE O!Install(c)
  <2>1. call[c].pc = "install" /\ UNCHANGED <<running, latest, ran, overlapped, moved>>
    BY <1>1 DEF O!Install, O!At
  <2>2. \/ O!Goto(c, "record") /\ backup' = backup
        \/ O!Return(c) /\ exe' = backup /\ backup' = O!Nothing
        \/ O!Return(c) /\ backup' = backup
    BY <1>1 DEF O!Install
  <2> QED
    BY <2>1, <2>2, ReplaceEnds
<1>2. CASE O!Restore(c)
  <2>1. call[c].pc = "restore" /\ UNCHANGED <<running, latest, ran, overlapped, moved>>
    BY <1>2 DEF O!Restore, O!At
  <2>2. \/ O!Goto(c, "forget") /\ exe' = backup /\ backup' = O!Nothing
        \/ O!Return(c) /\ backup' = backup
    BY <1>2 DEF O!Restore
  <2> QED
    BY <2>1, <2>2, ReplaceEnds
<1> QED
  BY <1>1, <1>2

LEMMA UpdateRestartStep ==
    ASSUME OUpdateInv, O!Restart
    PROVE  OUpdateInv'
<1>1. /\ running' = IF exe.whole THEN exe.v ELSE 0
      /\ ran' = IF exe.whole THEN ran \cup {exe.v} ELSE ran
      /\ call' = [c \in Calls |-> O!Idle]
      /\ moved' = FALSE /\ UNCHANGED <<exe, backup, latest, overlapped>>
  BY DEF O!Restart, O!files
<1>2. O!Idle \in UpdateCall(Moving \cup Waiting) /\ O!Idle.pc \notin Moving
  BY DEF O!Idle, UpdateCall, Moving, Waiting, Ops
<1>3. call' = [c \in Calls |-> call'[c]] /\ \A c \in Calls : call'[c] = O!Idle
  BY <1>1
<1>4. UpdateShape'
  BY <1>1, <1>2, <1>3 DEF OUpdateInv, UpdateShape
<1>5. ASSUME ~overlapped' PROVE UpdateInv'
  <2>1. \A c \in Calls : call'[c].pc \notin Moving
    BY <1>2, <1>3
  <2>2. ran \subseteq ran' /\ (running' # 0 => Known(exe)')
    BY <1>1 DEF Known
  <2> QED
    BY <1>1, <1>5, <2>1, <2>2 DEF OUpdateInv, UpdateInv, Known, Replacing, Moving
<1> QED
  BY <1>4, <1>5 DEF OUpdateInv

LEMMA UpdateOther ==
    ASSUME OUpdateInv, O!Publish \/ UNCHANGED O!vars
    PROVE  OUpdateInv'
<1>1. UNCHANGED <<exe, backup, running, moved, ran, overlapped, call>> /\ latest' \in Nat
  BY DEF O!Publish, O!vars, O!files, OUpdateInv, UpdateShape
<1> QED
  BY <1>1 DEF OUpdateInv, UpdateShape, UpdateInv, Known, Replacing

LEMMA UpdateNext == OUpdateInv /\ [O!Next]_(O!vars) => OUpdateInv'
<1> SUFFICES ASSUME OUpdateInv, [O!Next]_(O!vars) PROVE OUpdateInv'
  OBVIOUS
<1>1. ASSUME NEW c \in Calls, O!Step(c) PROVE OUpdateInv'
  BY <1>1, OnwardKinds, OnwardStep, RemoveBackupStep, SetAsideStep, MoveExeStep, InstallStep
     DEF O!Step, OUpdateInv
<1> QED
  BY <1>1, UpdateRestartStep, UpdateOther DEF O!Next

\* As long as installations and rollbacks do not overlap, a whole binary that has run is
\* in its place or beside it at every moment, also when the process dies between two
\* renames or a rename fails: any number of calls and of versions (install_binary,
\* restore_backup).
THEOREM KnownGoodTheorem == O!Spec => []KnownGoodKept
<1>1. OUpdateInv => KnownGoodKept
  BY DEF OUpdateInv, UpdateInv, Known, KnownGoodKept, O!KnownGoodKept
<1> QED
  BY <1>1, InitUpdate, UpdateNext, PTL DEF O!Spec

-----------------------------------------------------------------------------
(* Login *)

\* A session that was started and has been closed; none is opened again.
Spent(s) == session[s].kind # "none" /\ ~session[s].open

SessionRecord(x) == x = [f \in {"open", "kind", "target", "slot", "expired"} |-> x[f]]
CallRecord(x) == x = [f \in {"pc", "s", "cb", "id"} |-> x[f]]

LoginShape ==
    /\ session = [s \in Sessions |-> session[s]]
    /\ \A s \in Sessions : SessionRecord(session[s])
    /\ login_call = [c \in Calls |-> login_call[c]]
    /\ \A c \in Calls : CallRecord(login_call[c])
    /\ \A s \in Sessions : session[s].open => session[s].kind # "none"

\* A code whose state was compared is on its way to the token endpoint; the session
\* was taken out of the table before, so no other call has it.
Taking(c) == login_call[c].pc = "take"
Exchanging(c) == login_call[c].pc = "exchange"

ExchangeInv ==
    /\ \A c \in Calls : Taking(c) \/ Exchanging(c) => login_call[c].s \in Sessions /\ login_call[c].cb = "good"
    /\ \A c \in Calls : login_call[c].pc \in {"verify", "poll"} => login_call[c].s \in Sessions
    /\ \A c \in Calls : Exchanging(c) => Spent(login_call[c].s)
    /\ \A c, d \in Calls : Exchanging(c) /\ Exchanging(d) /\ login_call[c].s = login_call[d].s => c = d
    /\ \A e \in exchanged :
          /\ e.cb = "good" /\ e.s \in Sessions /\ Spent(e.s)
          /\ \A c \in Calls : Exchanging(c) => login_call[c].s # e.s
    /\ CodeUsedOnce

LoginInv == LoginShape /\ ExchangeInv

LEMMA InitLogin == L!Init => LoginInv
<1> SUFFICES ASSUME L!Init PROVE LoginInv
  OBVIOUS
<1>1. LoginShape
  BY DEF L!Init, L!NoSession, L!Idle, LoginShape, SessionRecord, CallRecord
<1>2. exchanged = {} /\ \A c \in Calls : login_call[c].pc = "idle"
  BY DEF L!Init, L!Idle
<1> QED
  BY <1>1, <1>2 DEF LoginInv, ExchangeInv, Taking, Exchanging, CodeUsedOnce, L!CodeUsedOnce

\* What the sessions do: one is started once, and closed for good.
SessionsAge ==
    /\ session' = [s \in Sessions |-> session'[s]]
    /\ \A s \in Sessions : SessionRecord(session'[s])
    /\ \A s \in Sessions : session'[s].open => session'[s].kind # "none"
    /\ \A s \in Sessions : Spent(s) => Spent(s)'

\* A step that sends no code; a call may come to the point where it takes one.
Harmless ==
    /\ login_call' = [c \in Calls |-> login_call'[c]]
    /\ \A c \in Calls : CallRecord(login_call'[c])
    /\ \A c \in Calls :
         \/ login_call'[c] = login_call[c]
         \/ /\ login_call'[c].pc \notin {"take", "exchange"}
            /\ login_call'[c].pc \in {"verify", "poll"} => login_call'[c].s \in Sessions
         \/ /\ login_call'[c].pc = "take"
            /\ login_call'[c].s \in Sessions /\ login_call'[c].cb = "good"
    /\ UNCHANGED exchanged

LEMMA HarmlessStep ==
    ASSUME LoginInv, SessionsAge, Harmless
    PROVE  LoginInv'
<1>1. LoginShape'
  BY DEF LoginInv, LoginShape, SessionsAge, Harmless
<1>2. \A d \in Calls : login_call'[d].pc = "exchange" => login_call'[d] = login_call[d]
  BY DEF Harmless
<1>3. \A d \in Calls : login_call'[d] # login_call[d] =>
          /\ login_call'[d].pc = "take" => login_call'[d].s \in Sessions /\ login_call'[d].cb = "good"
          /\ login_call'[d].pc \in {"verify", "poll"} => login_call'[d].s \in Sessions
  BY DEF Harmless
<1>4. CodeUsedOnce'
  BY DEF LoginInv, ExchangeInv, Harmless, CodeUsedOnce, L!CodeUsedOnce
<1>5. UNCHANGED exchanged /\ \A s \in Sessions : Spent(s) => Spent(s)'
  BY DEF Harmless, SessionsAge
<1>6. ExchangeInv'
  BY <1>2, <1>3, <1>4, <1>5 DEF LoginInv, ExchangeInv, Taking, Exchanging
<1> QED
  BY <1>1, <1>6 DEF LoginInv

LEMMA SessionsStay ==
    ASSUME LoginShape, UNCHANGED session
    PROVE  SessionsAge
BY DEF LoginShape, SessionsAge, Spent

LEMMA SessionCloses ==
    ASSUME LoginShape, NEW s \in Sessions, L!Close(s)
    PROVE  SessionsAge
BY DEF LoginShape, SessionsAge, Spent, L!Close, SessionRecord

LEMMA CallsStay ==
    ASSUME LoginShape, UNCHANGED <<login_call, exchanged>>
    PROVE  Harmless
BY DEF LoginShape, Harmless

LEMMA CallReturns ==
    ASSUME LoginShape, NEW c \in Calls, L!Return(c), UNCHANGED exchanged
    PROVE  Harmless
BY DEF LoginShape, L!Return, L!Idle, Harmless, CallRecord

LEMMA CallGoes ==
    ASSUME LoginShape, NEW c \in Calls, NEW p, p \notin {"take", "exchange", "verify", "poll"},
           L!Goto(c, p), UNCHANGED exchanged
    PROVE  Harmless
BY DEF LoginShape, L!Goto, Harmless, CallRecord

\* A poll or a completion of a login begins, or another call.
LEMMA CallStarts ==
    ASSUME LoginShape, NEW c \in Calls, NEW x, CallRecord(x), x.pc \notin {"take", "exchange"},
           x.pc \in {"verify", "poll"} => x.s \in Sessions,
           login_call' = [login_call EXCEPT ![c] = x],
           UNCHANGED exchanged
    PROVE  Harmless
<1>1. login_call' = [d \in Calls |-> login_call'[d]]
  BY DEF LoginShape
<1>2. \A d \in Calls : login_call'[d] = IF d = c THEN x ELSE login_call[d]
  BY DEF LoginShape
<1> QED
  BY <1>1, <1>2 DEF LoginShape, Harmless

LEMMA SessionChanges ==
    ASSUME LoginShape, NEW s \in Sessions, NEW x, SessionRecord(x), x.open => x.kind # "none",
           Spent(s) => x.kind # "none" /\ ~x.open,
           session' = [session EXCEPT ![s] = x]
    PROVE  SessionsAge
<1>1. session' = [r \in Sessions |-> session'[r]]
  BY DEF LoginShape
<1>2. \A r \in Sessions : session'[r] = IF r = s THEN x ELSE session[r]
  BY DEF LoginShape
<1> QED
  BY <1>1, <1>2 DEF LoginShape, SessionsAge, Spent

LEMMA SessionSteps ==
    ASSUME LoginInv, NEW s \in Sessions,
           \/ \E kind \in {"social", "idc"} : \E target : L!Start(s, kind, target)
           \/ L!Expire(s) \/ \E cb : L!Callback(s, cb)
    PROVE  LoginInv'
<1>1. LoginShape
  BY DEF LoginInv
<1>2. ASSUME NEW kind \in {"social", "idc"}, NEW target, L!Start(s, kind, target) PROVE SessionsAge
  <2> DEFINE new == [L!NoSession EXCEPT !.open = TRUE, !.kind = kind, !.target = target]
  <2>1. session[s] = L!NoSession /\ session' = [session EXCEPT ![s] = new]
    BY <1>2 DEF L!Start
  <2>2. SessionRecord(new) /\ new.kind # "none"
    BY DEF SessionRecord, L!NoSession
  <2>3. ~Spent(s)
    BY <2>1 DEF L!NoSession, Spent
  <2> HIDE DEF new
  <2> QED
    BY <1>1, <2>1, <2>2, <2>3, SessionChanges
<1>3. ASSUME L!Expire(s) PROVE SessionsAge
  <2> DEFINE new == [session[s] EXCEPT !.expired = TRUE]
  <2>1. session' = [session EXCEPT ![s] = new]
    BY <1>3 DEF L!Expire
  <2>2. SessionRecord(new) /\ new.kind = session[s].kind /\ new.open = session[s].open
    BY <1>1 DEF LoginShape, SessionRecord
  <2> HIDE DEF new
  <2> QED
    BY <1>1, <2>1, <2>2, SessionChanges DEF Spent, LoginShape
<1>4. ASSUME NEW cb, L!Callback(s, cb) PROVE SessionsAge
  <2> DEFINE new == [session[s] EXCEPT !.slot = cb]
  <2>1. session' = [session EXCEPT ![s] = new]
    BY <1>4 DEF L!Callback
  <2>2. SessionRecord(new) /\ new.kind = session[s].kind /\ new.open = session[s].open
    BY <1>1 DEF LoginShape, SessionRecord
  <2> HIDE DEF new
  <2> QED
    BY <1>1, <2>1, <2>2, SessionChanges DEF Spent, LoginShape
<1>5. SessionsAge
  BY <1>2, <1>3, <1>4
<1>6. UNCHANGED <<login_call, exchanged>>
  BY DEF L!Start, L!Expire, L!Callback
<1> QED
  BY <1>1, <1>5, <1>6, CallsStay, HarmlessStep

LEMMA PollSocialStep ==
    ASSUME LoginInv, NEW c \in Calls, NEW s \in Sessions, L!PollSocial(c, s)
    PROVE  LoginInv'
<1>1. LoginShape /\ UNCHANGED exchanged
  BY DEF LoginInv, L!PollSocial
<1>2. CASE L!Close(s) /\ UNCHANGED login_call
  BY <1>1, <1>2, SessionCloses, CallsStay, HarmlessStep DEF L!PollSocial
<1>3. CASE /\ session' = [session EXCEPT ![s].slot = "taken"]
           /\ login_call' = [login_call EXCEPT ![c] =
                               [L!Idle EXCEPT !.pc = "verify", !.s = s, !.cb = session[s].slot]]
  <2> DEFINE new == [session[s] EXCEPT !.slot = "taken"]
             x == [L!Idle EXCEPT !.pc = "verify", !.s = s, !.cb = session[s].slot]
  <2>1. session' = [session EXCEPT ![s] = new] /\ login_call' = [login_call EXCEPT ![c] = x]
    BY <1>3
  <2>2. SessionRecord(new) /\ new.kind = session[s].kind /\ new.open = session[s].open
    BY <1>1 DEF LoginShape, SessionRecord
  <2>3. CallRecord(x) /\ x.pc = "verify" /\ x.s = s
    BY DEF CallRecord, L!Idle
  <2> HIDE DEF new, x
  <2>4. SessionsAge
    BY <1>1, <2>1, <2>2, SessionChanges DEF Spent, LoginShape
  <2>5. Harmless
    BY <1>1, <2>1, <2>3, CallStarts
  <2> QED
    BY <2>4, <2>5, HarmlessStep
<1> QED
  BY <1>2, <1>3 DEF L!PollSocial

LEMMA BeginSteps ==
    ASSUME LoginInv, NEW c \in Calls,
           \/ \E s \in Sessions : L!PollIdc(c, s) \/ \E cb : L!CompleteSocial(c, s, cb)
           \/ L!Import(c)
    PROVE  LoginInv'
<1>1. LoginShape /\ UNCHANGED <<session, exchanged>>
  BY DEF LoginInv, L!PollIdc, L!CompleteSocial, L!Import
<1>2. ASSUME NEW s \in Sessions, L!PollIdc(c, s) PROVE Harmless
  <2> DEFINE x == [L!Idle EXCEPT !.pc = "poll", !.s = s]
  <2>1. CallRecord(x) /\ x.pc = "poll" /\ x.s = s
    BY DEF CallRecord, L!Idle
  <2>2. login_call' = [login_call EXCEPT ![c] = x]
    BY <1>2 DEF L!PollIdc
  <2> HIDE DEF x
  <2> QED
    BY <1>1, <2>1, <2>2, CallStarts
<1>3. ASSUME NEW s \in Sessions, NEW cb, L!CompleteSocial(c, s, cb) PROVE Harmless
  <2> DEFINE x == [L!Idle EXCEPT !.pc = "verify", !.s = s, !.cb = cb]
  <2>1. CallRecord(x) /\ x.pc = "verify" /\ x.s = s
    BY DEF CallRecord, L!Idle
  <2>2. login_call' = [login_call EXCEPT ![c] = x]
    BY <1>3 DEF L!CompleteSocial
  <2> HIDE DEF x
  <2> QED
    BY <1>1, <2>1, <2>2, CallStarts
<1>4. ASSUME L!Import(c) PROVE Harmless
  <2> DEFINE x == [L!Idle EXCEPT !.pc = "add", !.s = Imported]
  <2>1. CallRecord(x) /\ x.pc = "add"
    BY DEF CallRecord, L!Idle
  <2>2. login_call' = [login_call EXCEPT ![c] = x]
    BY <1>4 DEF L!Import
  <2> HIDE DEF x
  <2> QED
    BY <1>1, <2>1, <2>2, CallStarts
<1>5. Harmless
  BY <1>2, <1>3, <1>4
<1> QED
  BY <1>1, <1>5, SessionsStay, HarmlessStep

LEMMA VerifyStep ==
    ASSUME LoginInv, NEW c \in Calls, L!Verify(c)
    PROVE  LoginInv'
<1>1. LoginShape /\ UNCHANGED <<session, exchanged>>
  BY DEF LoginInv, L!Verify
<1>2. ASSUME login_call[c].cb = "good", L!Goto(c, "take") PROVE Harmless
  <2> DEFINE x == [login_call[c] EXCEPT !.pc = "take"]
  <2>1. login_call[c].s \in Sessions
    BY DEF L!Verify, L!At, LoginInv, ExchangeInv
  <2>2. CallRecord(x) /\ x.pc = "take" /\ x.s = login_call[c].s /\ x.cb = "good"
    BY <1>1, <1>2 DEF LoginShape, CallRecord
  <2>3. login_call' = [login_call EXCEPT ![c] = x]
    BY <1>2 DEF L!Goto
  <2> HIDE DEF x
  <2>4. /\ login_call' = [d \in Calls |-> login_call'[d]]
        /\ \A d \in Calls : login_call'[d] = IF d = c THEN x ELSE login_call[d]
    BY <1>1, <2>3 DEF LoginShape
  <2> QED
    BY <1>1, <2>1, <2>2, <2>4 DEF LoginShape, Harmless
<1>3. Harmless
  BY <1>1, <1>2, CallReturns DEF L!Verify
<1> QED
  BY <1>1, <1>3, SessionsStay, HarmlessStep

\* The session is closed before the code is sent, so no other call takes it.
LEMMA TakeStep ==
    ASSUME LoginInv, NEW c \in Calls, L!Take(c)
    PROVE  LoginInv'
<1>1. LoginShape /\ ExchangeInv /\ UNCHANGED exchanged /\ login_call[c].pc = "take"
  BY DEF LoginInv, L!Take, L!At
<1>0. PICK s : s = login_call[c].s
  OBVIOUS
<1>2. s \in Sessions /\ login_call[c].cb = "good"
  BY <1>0, <1>1 DEF ExchangeInv, Taking
<1>3. CASE L!Return(c) /\ UNCHANGED session
  BY <1>1, <1>3, CallReturns, SessionsStay, HarmlessStep
<1>4. CASE session[s].open /\ L!Close(s) /\ L!Goto(c, "exchange")
  <2>1. SessionsAge
    BY <1>0, <1>1, <1>2, <1>4, SessionCloses
  <2>2. ~Spent(s) /\ Spent(s)'
    BY <1>0, <1>1, <1>2, <1>4 DEF LoginShape, L!Close, Spent
  <2> DEFINE x == [login_call[c] EXCEPT !.pc = "exchange"]
  <2>3. CallRecord(x) /\ x.pc = "exchange" /\ x.s = s /\ x.cb = "good"
    BY <1>0, <1>1, <1>2 DEF LoginShape, CallRecord
  <2>4. login_call' = [login_call EXCEPT ![c] = x]
    BY <1>4 DEF L!Goto
  <2> HIDE DEF x
  <2>5. /\ login_call' = [d \in Calls |-> login_call'[d]]
        /\ \A d \in Calls : login_call'[d] = IF d = c THEN x ELSE login_call[d]
    BY <1>1, <2>4 DEF LoginShape
  <2>6. LoginShape'
    BY <1>1, <2>1, <2>3, <2>5 DEF LoginShape, SessionsAge
  <2>7. /\ \A d \in Calls : login_call[d].pc = "exchange" => login_call[d].s # s
        /\ \A e \in exchanged : e.s # s
    BY <1>1, <2>2 DEF ExchangeInv, Exchanging
  <2>8. \A d \in Calls : login_call[d].pc = "exchange" => Spent(login_call[d].s) /\ login_call[d].s \in Sessions
    BY <1>1 DEF ExchangeInv, Exchanging
  <2>9. \A r \in Sessions : Spent(r) => Spent(r)'
    BY <2>1 DEF SessionsAge
  <2>10. CodeUsedOnce'
    BY <1>1 DEF ExchangeInv, CodeUsedOnce, L!CodeUsedOnce
  <2>11. ExchangeInv'
    <3>1. \A d \in Calls : login_call'[d].pc \in {"take", "exchange"} =>
             login_call'[d].s \in Sessions /\ login_call'[d].cb = "good"
      BY <1>1, <1>2, <2>3, <2>5 DEF ExchangeInv, Taking, Exchanging
    <3>2. \A d \in Calls : login_call'[d].pc \in {"verify", "poll"} => login_call'[d].s \in Sessions
      BY <1>1, <2>3, <2>5 DEF ExchangeInv
    <3>3. \A d \in Calls, r \in Sessions : login_call'[d].pc = "exchange" /\ login_call'[d].s = r => Spent(r)'
      <4>1. \A d \in Calls : login_call'[d].pc = "exchange" =>
                 login_call'[d].s = s \/ Spent(login_call'[d].s)
        BY <2>3, <2>5, <2>8
      <4> QED
        BY <2>2, <2>9, <4>1
    <3>4. \A d, f \in Calls : login_call'[d].pc = "exchange" /\ login_call'[f].pc = "exchange"
                              /\ login_call'[d].s = login_call'[f].s => d = f
      BY <1>1, <2>3, <2>5, <2>7 DEF ExchangeInv, Exchanging
    <3>5. \A e \in exchanged :
            /\ e.cb = "good" /\ e.s \in Sessions /\ Spent(e.s)'
            /\ \A d \in Calls : login_call'[d].pc = "exchange" => login_call'[d].s # e.s
      BY <1>1, <2>3, <2>5, <2>7, <2>9 DEF ExchangeInv, Exchanging, Spent
    <3> QED
      BY <1>1, <2>10, <3>1, <3>2, <3>3, <3>4, <3>5 DEF ExchangeInv, Taking, Exchanging, Spent
  <2> QED
    BY <2>6, <2>11 DEF LoginInv
<1> QED
  BY <1>0, <1>3, <1>4 DEF L!Take, L!S

\* A call goes on, or returns, and sends nothing.
LEMMA QuietStep ==
    ASSUME LoginInv, NEW c \in Calls, SessionsAge, UNCHANGED exchanged,
           \/ L!Return(c)
           \/ \E p \in {"add", "refresh", "number", "push", "disable", "token", "meta", "enable"} :
                 L!Goto(c, p)
    PROVE  LoginInv'
<1>1. Harmless
  BY CallReturns, CallGoes DEF LoginInv
<1> QED
  BY <1>1, HarmlessStep

LEMMA ExchangeStep ==
    ASSUME LoginInv, NEW c \in Calls, L!Exchange(c)
    PROVE  LoginInv'
<1> DEFINE e == [s |-> login_call[c].s, cb |-> login_call[c].cb, by |-> c]
<1>1. LoginShape /\ ExchangeInv /\ login_call[c].pc = "exchange" /\ UNCHANGED session
      /\ exchanged' = exchanged \cup {e}
  BY DEF LoginInv, L!Exchange, L!At
<1>2. \/ L!Return(c)
      \/ \E p \in {"add", "disable"} : L!Goto(c, p)
  BY DEF L!Exchange, L!UseToken
<1>3. /\ login_call' = [d \in Calls |-> login_call'[d]]
      /\ CallRecord(login_call'[c]) /\ login_call'[c].pc \notin {"take", "exchange", "verify", "poll"}
      /\ \A d \in Calls \ {c} : login_call'[d] = login_call[d]
  BY <1>1, <1>2 DEF LoginShape, CallRecord, L!Return, L!Goto, L!Idle
<1>4. LoginShape'
  BY <1>1, <1>3 DEF LoginShape
<1>5. /\ e.s \in Sessions /\ e.cb = "good" /\ Spent(e.s)
      /\ \A f \in exchanged : f.s # e.s
      /\ \A d \in Calls \ {c} : login_call[d].pc = "exchange" => login_call[d].s # e.s
  BY <1>1 DEF ExchangeInv, Exchanging
<1> HIDE DEF e
<1>6. CodeUsedOnce'
  BY <1>1, <1>5 DEF ExchangeInv, CodeUsedOnce, L!CodeUsedOnce
<1>7. \A r : Spent(r)' <=> Spent(r)
  BY <1>1 DEF Spent
<1>8. \A d \in Calls : login_call'[d].pc \in {"take", "exchange", "verify", "poll"} =>
         d # c /\ login_call'[d] = login_call[d]
  BY <1>3
<1>9. ExchangeInv'
  BY <1>1, <1>5, <1>6, <1>7, <1>8 DEF ExchangeInv, Taking, Exchanging
<1> QED
  BY <1>4, <1>9 DEF LoginInv

LEMMA PollTokenStep ==
    ASSUME LoginInv, NEW c \in Calls, L!PollToken(c)
    PROVE  LoginInv'
<1>1. LoginShape /\ UNCHANGED exchanged /\ login_call[c].s \in Sessions
  BY DEF LoginInv, ExchangeInv, L!PollToken, L!At
<1>2. L!Return(c) \/ \E p \in {"add", "disable"} : L!Goto(c, p)
  BY DEF L!PollToken, L!UseToken
<1>3. UNCHANGED session \/ L!Close(login_call[c].s)
  BY DEF L!PollToken
<1>4. SessionsAge
  BY <1>1, <1>3, SessionsStay, SessionCloses
<1> QED
  BY <1>1, <1>2, <1>4, QuietStep

LEMMA EntrySteps ==
    ASSUME LoginInv, NEW c \in Calls,
           \/ L!Add(c) \/ L!Refresh(c) \/ L!Number(c) \/ L!Push(c)
           \/ L!SetDisabledFirst(c) \/ L!UpdateRefreshToken(c) \/ L!UpdateAuthMetadata(c)
           \/ L!ResetAndEnable(c)
    PROVE  LoginInv'
<1>1. UNCHANGED <<session, exchanged>>
  BY DEF L!Add, L!Refresh, L!Number, L!Push, L!Relogin, L!SetDisabledFirst,
         L!UpdateRefreshToken, L!UpdateAuthMetadata, L!ResetAndEnable
<1>2. LoginShape /\ SessionsAge
  BY <1>1, SessionsStay DEF LoginInv
<1>3. CASE L!Number(c)
  <2> DEFINE x == [login_call[c] EXCEPT !.pc = "push", !.id = L!Max(L!Ids \cup {0}) + 1]
  <2>1. CallRecord(x) /\ x.pc = "push"
    BY <1>2 DEF LoginShape, CallRecord
  <2>2. login_call' = [login_call EXCEPT ![c] = x]
    BY <1>3 DEF L!Number
  <2> HIDE DEF x
  <2>3. Harmless
    BY <1>1, <1>2, <2>1, <2>2, CallStarts
  <2> QED
    BY <1>2, <2>3, HarmlessStep
<1>4. CASE ~L!Number(c)
  <2>1. \/ L!Return(c)
        \/ \E p \in {"add", "refresh", "number", "push", "disable", "token", "meta", "enable"} :
              L!Goto(c, p)
    BY <1>4 DEF L!Add, L!Refresh, L!Push, L!Relogin, L!SetDisabledFirst,
           L!UpdateRefreshToken, L!UpdateAuthMetadata, L!ResetAndEnable
  <2> QED
    BY <1>1, <1>2, <2>1, QuietStep
<1> QED
  BY <1>3, <1>4

LEMMA LoginNext == LoginInv /\ [L!Next]_(L!vars) => LoginInv'
<1> SUFFICES ASSUME LoginInv, [L!Next]_(L!vars) PROVE LoginInv'
  OBVIOUS
<1>1. CASE UNCHANGED <<session, login_call, exchanged>>
  BY <1>1, SessionsStay, CallsStay, HarmlessStep DEF LoginInv
<1>2. CASE \E s \in Sessions :
             \/ L!StartSocialLogin(s) \/ L!StartIdcLogin(s)
             \/ \E id \in L!Ids : L!StartSocialRelogin(s, id) \/ L!StartIdcRelogin(s, id)
             \/ L!Expire(s)
             \/ \E cb \in {"good", "forged", "closed"} : L!Callback(s, cb)
  BY <1>2, SessionSteps
     DEF L!StartSocialLogin, L!StartIdcLogin, L!StartSocialRelogin, L!StartIdcRelogin
<1>3. ASSUME NEW c \in Calls, L!Step(c) PROVE LoginInv'
  BY <1>3, PollSocialStep, BeginSteps, VerifyStep, TakeStep, ExchangeStep, PollTokenStep,
     EntrySteps DEF L!Step
<1>4. ASSUME NEW k, L!Delete(k) \/ \E d \in BOOLEAN : L!SetDisabled(k, d)
      PROVE  UNCHANGED <<session, login_call, exchanged>>
  BY <1>4 DEF L!Delete, L!SetDisabled
<1>5. UNCHANGED L!vars => UNCHANGED <<session, login_call, exchanged>>
  BY DEF L!vars
<1> QED
  BY <1>1, <1>2, <1>3, <1>4, <1>5 DEF L!Next

\* The code of a social login reaches the token endpoint once at most, and only with the
\* state of its own login, whatever number of polls and pasted addresses run at the same
\* time (do_complete_social_login takes the session out of the table before it sends).
THEOREM CodeOnceTheorem == L!Spec => []CodeUsedOnce
<1>1. LoginInv => CodeUsedOnce
  BY DEF LoginInv, ExchangeInv
<1> QED
  BY <1>1, InitLogin, LoginNext, PTL DEF L!Spec

-----------------------------------------------------------------------------
(* Login: the credentials *)

Asking == {"verify", "take", "exchange", "poll"}
Adds == {"add", "refresh", "number", "push"}
Changes == {"disable", "token", "meta", "enable"}

Holds(c) == login_call[c].pc \in Adds \cup Changes
Begun(c) == login_call[c].pc \in {"token", "meta", "enable"}
TargetOf(c) == session[login_call[c].s].target
Started(s) == s \in Sessions /\ session[s].kind # "none"

KnownTokens == Sessions \cup {0, Imported}
CredEntry ==
    [id : Nat \ {0}, token : KnownTokens, meta : SUBSET KnownTokens, enabled : BOOLEAN, odd : BOOLEAN]

CredsOK ==
    /\ creds \in Seq(CredEntry)
    /\ \A k \in DOMAIN creds : creds[k].token \in Sessions => creds[k].token \in issued

\* The token of a login is with one call from the time it is issued.
CallsOK ==
    /\ \A s \in issued : Started(s)
    /\ \A c \in Calls :
          /\ login_call[c].pc \in Asking => Started(login_call[c].s)
          /\ login_call[c].pc \in Adds => login_call[c].s \in issued \cup {Imported}
          /\ login_call[c].pc \in Changes => login_call[c].s \in issued
          /\ login_call[c].pc = "push" => login_call[c].id \in Nat \ {0}
    /\ \A c, d \in Calls :
          Holds(c) /\ Holds(d) /\ login_call[c].s = login_call[d].s /\ login_call[c].s \in issued => c = d

Distinct ==
    \A j, k \in DOMAIN creds : j # k => creds[j].id # creds[k].id /\ creds[j].token # creds[k].token

EntryOK(e) == e.enabled /\ ~e.odd => e.meta = L!MetaOf(e.token)
EntriesOK == \A k \in DOMAIN creds : EntryOK(creds[k])

\* At most one call adds; its token is new, and so is the id it has taken.
NewTo(c, e) ==
    /\ L!Adding(c) => e.token # login_call[c].s
    /\ login_call[c].pc = "push" => e.id # login_call[c].id
AddsApart ==
    /\ \A c, d \in Calls : L!Adding(c) /\ L!Adding(d) => c = d
    /\ \A c \in Calls : \A k \in DOMAIN creds : NewTo(c, creds[k])

\* At most one relogin changes an entry, which is there and has what it has stored so far.
HasStored(c, e) ==
    /\ login_call[c].pc = "meta" => e.token = login_call[c].s
    /\ login_call[c].pc = "enable" /\ ~e.odd => e.meta = L!MetaOf(e.token)
ChangesApart ==
    /\ \A c, d \in Calls : Begun(c) /\ Begun(d) /\ TargetOf(c) = TargetOf(d) => c = d
    /\ \A c \in Calls : Begun(c) => \E k \in DOMAIN creds : creds[k].id = TargetOf(c)
    /\ \A c \in Calls : \A k \in DOMAIN creds :
          Begun(c) /\ creds[k].id = TargetOf(c) => HasStored(c, creds[k])

Coherent == Distinct /\ EntriesOK /\ AddsApart /\ ChangesApart
CredsInv == CredsOK /\ CallsOK /\ (~login_overlapped => Coherent)

\* Pos finds an entry with the id when there is one.
LEMMA PosEffect ==
    ASSUME creds \in Seq(CredEntry), NEW id
    PROVE  \/ L!Pos(id) = 0 /\ \A k \in DOMAIN creds : creds[k].id # id
           \/ L!Pos(id) \in DOMAIN creds /\ L!Pos(id) # 0 /\ creds[L!Pos(id)].id = id
<1> DEFINE at == {k \in 1 .. Len(creds) : creds[k].id = id}
<1>1. DOMAIN creds = 1 .. Len(creds) /\ Len(creds) \in Nat
  OBVIOUS
<1>2. L!Pos(id) = IF at = {} THEN 0 ELSE L!Min(at)
  BY DEF L!Pos
<1>3. CASE at = {}
  BY <1>1, <1>2, <1>3
<1>4. CASE at # {}
  <2>1. \E x \in at : \A y \in at : x <= y
    <3> at \subseteq Nat
      BY <1>1
    <3> HIDE DEF at
    <3> QED
      BY <1>4, SmallestExists
  <2>2. L!Min(at) \in at
    <3> HIDE DEF at
    <3> QED
      BY <2>1 DEF L!Min
  <2> QED
    BY <1>1, <1>2, <1>4, <2>2
<1> QED
  BY <1>3, <1>4

\* The id that a call takes is a new one.
LEMMA NextIdIsNew ==
    ASSUME creds \in Seq(CredEntry)
    PROVE  /\ L!Max(L!Ids \cup {0}) + 1 \in Nat \ {0}
           /\ \A k \in DOMAIN creds : creds[k].id # L!Max(L!Ids \cup {0}) + 1
<1> DEFINE A == {n \in Nat : n <= Len(creds) => \E b \in Nat : \A k \in 1 .. n : creds[k].id <= b}
           T == L!Ids \cup {0}
<1>1. Len(creds) \in Nat /\ DOMAIN creds = 1 .. Len(creds)
      /\ \A k \in 1 .. Len(creds) : creds[k].id \in Nat
  <2>1. \A k \in 1 .. Len(creds) : creds[k] \in CredEntry
    OBVIOUS
  <2> QED
    BY <2>1 DEF CredEntry
<1>2. 0 \in A
  OBVIOUS
<1>3. ASSUME NEW n \in Nat, n \in A PROVE n + 1 \in A
  <2> SUFFICES ASSUME n + 1 <= Len(creds) PROVE \E b \in Nat : \A k \in 1 .. n + 1 : creds[k].id <= b
    OBVIOUS
  <2>1. PICK b \in Nat : \A k \in 1 .. n : creds[k].id <= b
    BY <1>1, <1>3
  <2>2. creds[n + 1].id \in Nat /\ \A k \in 1 .. n + 1 : k \in 1 .. n \/ k = n + 1
    BY <1>1
  <2>3. \A k \in 1 .. n : creds[k].id \in Nat
    BY <1>1
  <2> DEFINE last == creds[n + 1].id
  <2> HIDE DEF A, T
  <2>4. \A k \in 1 .. n : creds[k].id <= b + last
    BY <2>1, <2>2, <2>3
  <2>5. last <= b + last /\ b + last \in Nat
    BY <2>2
  <2> QED
    BY <2>2, <2>4, <2>5
<1>4. Nat \subseteq A
  <2> HIDE DEF A
  <2> QED
    BY <1>2, <1>3, NatSet
<1>5. PICK b \in Nat : \A k \in 1 .. Len(creds) : creds[k].id <= b
  <2>1. Len(creds) \in Nat
    BY <1>1
  <2>2. Len(creds) \in A
    <3> HIDE DEF A
    <3> QED
      BY <2>1, <1>4
  <2>3. PICK n \in A : n = Len(creds)
    <3> HIDE DEF A
    <3> QED
      BY <2>2
  <2>4. n <= Len(creds)
    BY <2>1, <2>3
  <2>5. \E b \in Nat : \A k \in 1 .. n : creds[k].id <= b
    BY <2>4
  <2> HIDE DEF A
  <2> QED
    BY <2>3, <2>5
<1>6. T \subseteq Nat /\ T # {} /\ \A y \in T : y <= b
  <2> HIDE DEF A
  <2>1. \A y \in L!Ids : y \in Nat /\ y <= b
    BY <1>1, <1>5 DEF L!Ids
  <2> QED
    BY <2>1
<1>7. L!Max(T) \in T /\ \A y \in T : L!Max(T) >= y
  <2> HIDE DEF T
  <2>1. \E x \in T : \A y \in T : x >= y
    BY <1>6, LargestExists
  <2> QED
    BY <2>1 DEF L!Max
<1>8. \A k \in DOMAIN creds : creds[k].id \in T
  BY <1>1 DEF L!Ids
<1>9. L!Max(T) \in Nat /\ \A y \in T : y \in Nat /\ y # L!Max(T) + 1
  <2> HIDE DEF T, A
  <2>1. L!Max(T) \in Nat
    BY <1>6, <1>7
  <2>2. ASSUME NEW y \in T PROVE y \in Nat /\ y # L!Max(T) + 1
    <3>1. y \in Nat /\ y <= L!Max(T)
      BY <1>6, <1>7, <2>1
    <3> QED
      BY <2>1, <3>1
  <2> QED
    BY <2>1, <2>2
<1>10. L!Max(T) + 1 \in Nat \ {0}
  <2> HIDE DEF T
  <2> QED
    BY <1>9
<1>11. \A k \in DOMAIN creds : creds[k].id # L!Max(T) + 1
  <2> HIDE DEF T
  <2> QED
    BY <1>8, <1>9
<1> HIDE DEF A
<1> QED
  BY <1>10, <1>11

\* Once a session is started, what it is for does not change.
Settled ==
    \A s \in Sessions :
        /\ Started(s) => session'[s].kind = session[s].kind /\ session'[s].target = session[s].target
        /\ session'[s].kind \in {session[s].kind, "social", "idc"}

KindsOK == \A s \in Sessions : session[s].kind \in {"none", "social", "idc"}

LEMMA SettledStays == ASSUME UNCHANGED session PROVE Settled
BY DEF Settled

LEMMA SettledNext ==
    ASSUME LoginShape, [L!Next]_(L!vars)
    PROVE  Settled
<1>1. ASSUME NEW s \in Sessions, NEW kind \in {"social", "idc"}, NEW target, L!Start(s, kind, target)
      PROVE  Settled
  <2>1. /\ ~Started(s) /\ session'[s].kind = kind
        /\ \A r \in Sessions \ {s} : session'[r] = session[r]
    <3> DEFINE x == [L!NoSession EXCEPT !.open = TRUE, !.kind = kind, !.target = target]
    <3>1. session[s].kind = "none" /\ session' = [session EXCEPT ![s] = x]
      BY <1>1 DEF L!Start, L!NoSession
    <3>2. x.kind = kind
      BY DEF L!NoSession
    <3> HIDE DEF x
    <3> QED
      BY <3>1, <3>2 DEF Started, LoginShape
  <2> QED
    BY <2>1 DEF Settled
<1>2. ASSUME NEW s \in Sessions, NEW x, x.kind = session[s].kind, x.target = session[s].target,
             session' = [session EXCEPT ![s] = x]
      PROVE  Settled
  BY <1>2 DEF Settled, LoginShape
<1>3. ASSUME NEW s, L!Close(s) PROVE Settled
  BY <1>3 DEF L!Close, Settled, LoginShape, SessionRecord
<1>4. ASSUME NEW s \in Sessions, L!Expire(s) PROVE Settled
  BY <1>4 DEF L!Expire, Settled, LoginShape, SessionRecord
<1>5. ASSUME NEW s \in Sessions, NEW cb, L!Callback(s, cb) PROVE Settled
  BY <1>5 DEF L!Callback, Settled, LoginShape, SessionRecord
<1>6. ASSUME NEW s \in Sessions, NEW c, L!PollSocial(c, s) PROVE Settled
  BY <1>3, <1>6 DEF L!PollSocial, Settled, LoginShape, SessionRecord
<1>7. ASSUME NEW c, L!Step(c) PROVE Settled
  <2>1. CASE UNCHANGED session
    BY <2>1, SettledStays
  <2>2. CASE L!Take(c) \/ L!PollToken(c)
    BY <1>3, <2>2, SettledStays DEF L!Take, L!PollToken
  <2> QED
    BY <1>6, <1>7, <2>1, <2>2
       DEF L!Step, L!PollIdc, L!CompleteSocial, L!Verify, L!Exchange, L!Import, L!Add, L!Refresh,
           L!Number, L!Push, L!SetDisabledFirst, L!UpdateRefreshToken, L!UpdateAuthMetadata,
           L!ResetAndEnable, L!Relogin
<1>8. UNCHANGED L!vars => UNCHANGED session
  BY DEF L!vars
<1> QED
  BY <1>1, <1>4, <1>5, <1>7, <1>8, SettledStays
     DEF L!Next, L!Delete, L!SetDisabled, L!StartSocialLogin, L!StartIdcLogin,
         L!StartSocialRelogin, L!StartIdcRelogin

LEMMA MetaStays ==
    ASSUME Settled, NEW t, t \in Sessions => Started(t)
    PROVE  L!MetaOf(t)' = L!MetaOf(t)
BY DEF Settled, L!MetaOf, Started

\* A call that takes no new token: it stays, ends, asks the service or goes on with its own.
CallKeeps(d) ==
    \/ login_call'[d] = login_call[d]
    \/ login_call'[d].pc = "idle"
    \/ login_call'[d].pc \in Asking /\ Started(login_call'[d].s)
    \/ /\ login_call'[d].s = login_call[d].s
       /\ \/ login_call[d].pc \in Adds /\ login_call'[d].pc \in Adds
          \/ login_call[d].pc \in Changes /\ login_call'[d].pc \in Changes
       /\ login_call'[d].pc = "push" => login_call'[d].id \in Nat \ {0}

LEMMA CallsKeep ==
    ASSUME CallsOK, Settled, issued \subseteq issued', \A s \in issued' : Started(s),
           \A s \in issued' \ issued : \A c \in Calls : Holds(c) => login_call[c].s # s,
           \A d \in Calls : CallKeeps(d)
    PROVE  CallsOK'
<1>1. \A s \in Sessions : Started(s) => Started(s)'
  BY DEF Settled, Started
<1>2. \A s \in issued' : Started(s)'
  BY <1>1 DEF Started
<1>3. \A c \in Calls :
         login_call'[c].pc \in Adds \cup Changes =>
            /\ login_call[c].pc \in Adds \cup Changes /\ login_call'[c].s = login_call[c].s
            /\ login_call'[c].pc \in Adds => login_call[c].pc \in Adds
            /\ login_call'[c].pc \in Changes => login_call[c].pc \in Changes
  BY DEF CallKeeps, Adds, Changes, Asking
<1>4. ASSUME NEW c \in Calls
      PROVE  /\ login_call'[c].pc \in Asking => Started(login_call[c].s)'
             /\ login_call'[c].pc \in Adds => login_call'[c].s \in issued' \cup {Imported}
             /\ login_call'[c].pc \in Changes => login_call'[c].s \in issued'
             /\ login_call'[c].pc = "push" => login_call'[c].id \in Nat \ {0}
  <2>1. login_call'[c].pc \in Asking => Started(login_call'[c].s)
    <3>1. CallKeeps(c) /\ (login_call[c].pc \in Asking => Started(login_call[c].s))
      BY DEF CallsOK
    <3> QED
      BY <3>1 DEF CallKeeps, Adds, Changes, Asking, Started
  <2>2. login_call'[c].pc = "push" => login_call'[c].id \in Nat \ {0}
    BY DEF CallKeeps, CallsOK, Adds, Changes, Asking
  <2>3. login_call'[c].pc \in Asking => Started(login_call[c].s)'
    BY <1>1, <2>1 DEF Started
  <2> QED
    BY <1>3, <2>2, <2>3 DEF CallsOK
<1>5. \A c, d \in Calls : Holds(c)' /\ Holds(d)' /\ login_call'[c].s = login_call'[d].s
                          /\ login_call'[c].s \in issued' => c = d
  <2> SUFFICES ASSUME NEW c \in Calls, NEW d \in Calls, Holds(c)', Holds(d)',
                      login_call'[c].s = login_call'[d].s, login_call'[c].s \in issued'
               PROVE  c = d
    OBVIOUS
  <2>1. /\ Holds(c) /\ Holds(d) /\ login_call[c].s = login_call[d].s
        /\ login_call'[c].s = login_call[c].s
    BY <1>3 DEF Holds
  <2>2. login_call[c].s \in issued
    BY <2>1
  <2>3. \A e, f \in Calls : /\ Holds(e) /\ Holds(f) /\ login_call[e].s = login_call[f].s
                             /\ login_call[e].s \in issued
                             => e = f
    BY DEF CallsOK
  <2> QED
    BY <2>1, <2>2, <2>3
<1> QED
  BY <1>2, <1>4, <1>5 DEF CallsOK

LEMMA TargetStays ==
    ASSUME CallsOK, Settled, NEW d \in Calls, Begun(d), login_call'[d].s = login_call[d].s
    PROVE  TargetOf(d)' = TargetOf(d)
BY DEF CallsOK, Settled, Begun, TargetOf, Started, Changes

\* What the entries are does not depend on calls that neither add nor change one.
LEMMA CoherentQuiet ==
    ASSUME CredsOK, CallsOK, Coherent, Settled, UNCHANGED creds,
           \A d \in Calls : \/ login_call'[d] = login_call[d]
                            \/ login_call'[d].pc \in Asking \cup {"idle", "add", "disable"}
    PROVE  Coherent'
<1>1. \A k \in DOMAIN creds : L!MetaOf(creds[k].token)' = L!MetaOf(creds[k].token)
  BY MetaStays DEF CredsOK, CallsOK
<1>2. ASSUME NEW d \in Calls
      PROVE  /\ L!Adding(d)' => L!Adding(d) /\ login_call'[d] = login_call[d]
             /\ login_call'[d].pc = "push" => login_call[d].pc = "push" /\ login_call'[d] = login_call[d]
             /\ Begun(d)' => Begun(d) /\ login_call'[d] = login_call[d]
  BY DEF L!Adding, Begun, Asking
<1>3. \A d \in Calls : Begun(d)' => TargetOf(d)' = TargetOf(d)
  BY <1>2, TargetStays
<1>4. Distinct'
  BY DEF Coherent, Distinct
<1>5. EntriesOK'
  BY <1>1 DEF Coherent, EntriesOK, EntryOK
<1>6. AddsApart'
  BY <1>2 DEF Coherent, AddsApart, NewTo
<1>7. ChangesApart'
  BY <1>1, <1>2, <1>3 DEF Coherent, ChangesApart, HasStored, Begun
<1> QED
  BY <1>4, <1>5, <1>6, <1>7 DEF Coherent

\* The call that adds goes on, alone, with a token and an id that no entry has.
LEMMA CoherentAdding ==
    ASSUME CredsOK, CallsOK, Coherent, UNCHANGED <<session, creds>>,
           NEW c \in Calls, login_call'[c].pc \in {"refresh", "number", "push"},
           \A d \in Calls \ {c} : login_call'[d] = login_call[d] /\ ~L!Adding(d),
           \A k \in DOMAIN creds : creds[k].token # login_call'[c].s,
           login_call'[c].pc = "push" => \A k \in DOMAIN creds : creds[k].id # login_call'[c].id
    PROVE  Coherent'
<1>1. \A t : L!MetaOf(t)' = L!MetaOf(t)
  BY DEF L!MetaOf
<1>2. \A d \in Calls : Begun(d)' => d # c /\ Begun(d) /\ login_call'[d] = login_call[d] /\ TargetOf(d)' = TargetOf(d)
  BY DEF Begun, TargetOf
<1>3. \A d \in Calls : L!Adding(d)' \/ login_call'[d].pc = "push" => d = c
  BY DEF L!Adding
<1>4. Distinct'
  BY DEF Coherent, Distinct
<1>5. EntriesOK'
  BY <1>1 DEF Coherent, EntriesOK, EntryOK
<1>6. AddsApart'
  BY <1>3 DEF AddsApart, NewTo
<1>7. ChangesApart'
  BY <1>1, <1>2 DEF Coherent, ChangesApart, HasStored, Begun
<1> QED
  BY <1>4, <1>5, <1>6, <1>7 DEF Coherent

\* An entry is changed: its token stays or is new, and it has what it must have.  The
\* other calls stay, or ended; the one that changed it may go on.
LEMMA CoherentReplaced ==
    ASSUME CredsOK, CallsOK, Coherent, UNCHANGED session,
           NEW k \in DOMAIN creds, NEW e, creds' = [creds EXCEPT ![k] = e],
           e.id = creds[k].id, EntryOK(e),
           \/ e.token = creds[k].token
           \/ /\ \A j \in DOMAIN creds \ {k} : creds[j].token # e.token
              /\ \A d \in Calls : L!Adding(d) => login_call[d].s # e.token,
           \A d \in Calls :
              /\ \/ login_call'[d] = login_call[d] \/ login_call'[d].pc = "idle"
                 \/ /\ login_call'[d].pc \in {"token", "meta", "enable"}
                    /\ login_call'[d].s = login_call[d].s /\ TargetOf(d) = e.id
                    /\ \A f \in Calls \ {d} : Begun(f) => TargetOf(f) # e.id
                    /\ \A f \in Calls \ {d} : login_call'[f] = login_call[f]
              /\ TargetOf(d) = e.id =>
                    /\ login_call'[d].pc = "meta" => e.token = login_call'[d].s
                    /\ login_call'[d].pc = "enable" /\ ~e.odd => e.meta = L!MetaOf(e.token)
    PROVE  Coherent'
<1>1. \A t : L!MetaOf(t)' = L!MetaOf(t)
  BY DEF L!MetaOf
<1>2. DOMAIN creds' = DOMAIN creds /\ \A j \in DOMAIN creds : creds'[j] = IF j = k THEN e ELSE creds[j]
  OBVIOUS
<1>3. \A d \in Calls : L!Adding(d)' => L!Adding(d) /\ login_call'[d] = login_call[d]
  BY DEF L!Adding
<1>4. \A d \in Calls : Begun(d)' => login_call'[d].s = login_call[d].s /\ TargetOf(d)' = TargetOf(d)
  BY DEF Begun, TargetOf
<1>5. \A d \in Calls : Begun(d)' => \/ Begun(d) /\ login_call'[d] = login_call[d]
                                  \/ /\ TargetOf(d) = e.id
                                     /\ \A f \in Calls \ {d} : Begun(f) => TargetOf(f) # e.id
                                     /\ \A f \in Calls \ {d} : login_call'[f] = login_call[f]
  BY DEF Begun
<1>6. \A j \in DOMAIN creds : creds'[j].id = creds[j].id
  BY <1>2
<1>7. Distinct'
  BY <1>2 DEF Coherent, Distinct
<1>8. EntriesOK'
  BY <1>1, <1>2 DEF Coherent, EntriesOK, EntryOK
<1>9. AddsApart'
  <2>1. \A c, d \in Calls : L!Adding(c)' /\ L!Adding(d)' => c = d
    BY <1>3 DEF Coherent, AddsApart
  <2>2. ASSUME NEW c \in Calls, NEW j \in DOMAIN creds, L!Adding(c)'
        PROVE  creds'[j].token # login_call'[c].s
    BY <1>2, <1>3, <2>2 DEF Coherent, AddsApart, NewTo
  <2>3. ASSUME NEW c \in Calls, NEW j \in DOMAIN creds, login_call'[c].pc = "push"
        PROVE  creds'[j].id # login_call'[c].id
    BY <1>6, <2>3 DEF Coherent, AddsApart, NewTo
  <2> QED
    BY <1>2, <2>1, <2>2, <2>3 DEF AddsApart, NewTo
<1>10. ChangesApart'
  <2>1. \A c, d \in Calls : Begun(c)' /\ Begun(d)' /\ TargetOf(c)' = TargetOf(d)' => c = d
    <3> SUFFICES ASSUME NEW c \in Calls, NEW d \in Calls, Begun(c)', Begun(d)',
                        TargetOf(c)' = TargetOf(d)', c # d
                 PROVE  FALSE
      OBVIOUS
    <3>1. TargetOf(c) = TargetOf(d)
      BY <1>4
    <3>2. ~(Begun(c) /\ Begun(d))
      BY <3>1 DEF Coherent, ChangesApart
    <3> QED
      BY <1>5, <3>1, <3>2 DEF Begun
  <2>2. \A c \in Calls : Begun(c)' => \E j \in DOMAIN creds : creds'[j].id = TargetOf(c)
    BY <1>5, <1>6 DEF Coherent, ChangesApart
  <2>3. ASSUME NEW c \in Calls, NEW j \in DOMAIN creds, Begun(c)', creds'[j].id = TargetOf(c)
        PROVE  HasStored(c, creds[j])'
    <3>1. CASE j = k
      BY <1>1, <1>2, <1>4, <2>3, <3>1 DEF HasStored
    <3>2. CASE j # k
      <4>1. creds'[j] = creds[j] /\ creds[j].id # e.id
        BY <1>2, <3>2 DEF Coherent, Distinct
      <4>2. Begun(c) /\ login_call'[c] = login_call[c]
        BY <1>5, <2>3, <4>1
      <4>3. HasStored(c, creds[j])
        BY <2>3, <4>1, <4>2 DEF Coherent, ChangesApart
      <4> QED
        BY <1>1, <4>1, <4>2, <4>3 DEF HasStored
    <3> QED
      BY <3>1, <3>2
  <2> QED
    BY <1>2, <1>4, <2>1, <2>2, <2>3 DEF ChangesApart
<1> QED
  BY <1>7, <1>8, <1>9, <1>10 DEF Coherent

\* The call that adds ends with a new entry.
LEMMA CoherentPushed ==
    ASSUME CredsOK, CallsOK, Coherent, UNCHANGED session,
           NEW c \in Calls, login_call[c].pc = "push", NEW e, creds' = Append(creds, e),
           e.id = login_call[c].id, e.token = login_call[c].s, EntryOK(e),
           login_call'[c].pc = "idle", \A d \in Calls \ {c} : login_call'[d] = login_call[d]
    PROVE  Coherent'
<1> DEFINE n == Len(creds) + 1
<1>1. \A t : L!MetaOf(t)' = L!MetaOf(t)
  BY DEF L!MetaOf
<1>2. /\ DOMAIN creds' = DOMAIN creds \cup {n} /\ n \notin DOMAIN creds
      /\ creds'[n] = e /\ \A j \in DOMAIN creds : creds'[j] = creds[j]
  BY DEF CredsOK
<1> HIDE DEF n
<1>3. L!Adding(c) /\ \A j \in DOMAIN creds : creds[j].id # e.id /\ creds[j].token # e.token
  BY DEF Coherent, AddsApart, NewTo, L!Adding
<1>4. \A d \in Calls : ~L!Adding(d)' /\ login_call'[d].pc # "push"
  BY <1>3 DEF Coherent, AddsApart, L!Adding
<1>5. \A d \in Calls : Begun(d)' => Begun(d) /\ login_call'[d] = login_call[d] /\ TargetOf(d)' = TargetOf(d)
  BY DEF Begun, TargetOf
<1>6. \A d \in Calls : Begun(d) => TargetOf(d) # e.id
  BY <1>3 DEF Coherent, ChangesApart
<1>7. Distinct'
  BY <1>2, <1>3 DEF Coherent, Distinct
<1>8. EntriesOK'
  BY <1>1, <1>2 DEF Coherent, EntriesOK, EntryOK
<1>9. AddsApart'
  BY <1>4 DEF AddsApart, NewTo
<1>10. ChangesApart'
  <2>1. \A d, f \in Calls : Begun(d)' /\ Begun(f)' /\ TargetOf(d)' = TargetOf(f)' => d = f
    BY <1>5 DEF Coherent, ChangesApart
  <2>2. \A d \in Calls : Begun(d)' => \E j \in DOMAIN creds : creds'[j].id = TargetOf(d)
    BY <1>2, <1>5 DEF Coherent, ChangesApart
  <2>3. ASSUME NEW d \in Calls, NEW j \in DOMAIN creds', Begun(d)', creds'[j].id = TargetOf(d)
        PROVE  HasStored(d, creds[j])'
    <3>1. j \in DOMAIN creds /\ creds'[j] = creds[j] /\ Begun(d) /\ login_call'[d] = login_call[d]
      BY <1>2, <1>5, <1>6, <2>3
    <3>2. HasStored(d, creds[j])
      BY <2>3, <3>1 DEF Coherent, ChangesApart
    <3> QED
      BY <1>1, <3>1, <3>2 DEF HasStored
  <2> QED
    BY <1>2, <1>5, <2>1, <2>2, <2>3 DEF ChangesApart
<1> QED
  BY <1>7, <1>8, <1>9, <1>10 DEF Coherent

\* An entry that no relogin has begun to change is deleted.
LEMMA CoherentDeleted ==
    ASSUME CredsOK, CallsOK, Coherent, UNCHANGED <<session, login_call>>,
           NEW id, creds' = Pick(creds, {j \in 1 .. Len(creds) : creds[j].id # id}),
           \A d \in Calls : Begun(d) => TargetOf(d) # id
    PROVE  Coherent'
<1> DEFINE I == {j \in 1 .. Len(creds) : creds[j].id # id}
<1>1. \A t : L!MetaOf(t)' = L!MetaOf(t)
  BY DEF L!MetaOf
<1>2. creds' \in Seq(CredEntry) /\ ComesFrom(creds', creds, I, Len(creds))
  BY PickEffect DEF CredsOK
<1>3. DOMAIN creds = 1 .. Len(creds) /\ DOMAIN creds' = 1 .. Len(creds')
      /\ Len(creds) \in Nat /\ Len(creds') \in Nat
  BY <1>2 DEF CredsOK
<1>4. I \subseteq DOMAIN creds /\ (1 .. Len(creds)) \cap I = I
  BY <1>3
<1> HIDE DEF I
<1>5. \A j \in DOMAIN creds' : \E a \in I : creds'[j] = creds[a]
  <2>1. \A j \in 1 .. Len(creds') : \E a \in (1 .. Len(creds)) \cap I : creds'[j] = creds[a]
    BY <1>2 DEF ComesFrom
  <2> QED
    BY <1>3, <1>4, <2>1
<1>6. \A a \in I : \E j \in DOMAIN creds' : creds'[j] = creds[a]
  <2>1. \A a \in (1 .. Len(creds)) \cap I : \E j \in 1 .. Len(creds') : creds'[j] = creds[a]
    BY <1>2 DEF ComesFrom
  <2> QED
    BY <1>3, <1>4, <2>1
<1>7. \A i, j \in DOMAIN creds' : i # j => \E a, b \in I : a # b /\ creds'[i] = creds[a] /\ creds'[j] = creds[b]
  <2>1. \A i, j \in 1 .. Len(creds') : i < j =>
           \E a, b \in (1 .. Len(creds)) \cap I : a < b /\ creds'[i] = creds[a] /\ creds'[j] = creds[b]
    BY <1>2 DEF ComesFrom
  <2>2. \A i, j \in DOMAIN creds' : i < j =>
           \E a, b \in I : a # b /\ creds'[i] = creds[a] /\ creds'[j] = creds[b]
    <3> SUFFICES ASSUME NEW i \in DOMAIN creds', NEW j \in DOMAIN creds', i < j
                 PROVE  \E a, b \in I : a # b /\ creds'[i] = creds[a] /\ creds'[j] = creds[b]
      OBVIOUS
    <3>1. PICK x, y \in (1 .. Len(creds)) \cap I : x < y /\ creds'[i] = creds[x] /\ creds'[j] = creds[y]
      <4>1. i \in 1 .. Len(creds') /\ j \in 1 .. Len(creds')
        BY <1>3
      <4> QED
        BY <2>1, <4>1
    <3>2. x \in Nat /\ y \in Nat /\ x # y
      BY <1>3, <1>4, <3>1
    <3> QED
      BY <3>1, <3>2
  <2>3. \A i, j \in DOMAIN creds' : i # j => i < j \/ j < i
    BY <1>3
  <2> QED
    BY <2>2, <2>3
<1>8. Distinct'
  BY <1>4, <1>7 DEF Coherent, Distinct
<1>9. EntriesOK'
  BY <1>1, <1>4, <1>5 DEF Coherent, EntriesOK, EntryOK
<1>10. AddsApart'
  BY <1>4, <1>5 DEF Coherent, AddsApart, NewTo, L!Adding
<1>11. ChangesApart'
  <2>1. \A d \in Calls : Begun(d) => \E j \in DOMAIN creds' : creds'[j].id = TargetOf(d)
    <3> SUFFICES ASSUME NEW d \in Calls, Begun(d)
                 PROVE  \E j \in DOMAIN creds' : creds'[j].id = TargetOf(d)
      OBVIOUS
    <3>1. PICK a \in DOMAIN creds : creds[a].id = TargetOf(d)
      BY DEF Coherent, ChangesApart
    <3>2. a \in I
      BY <1>3, <3>1 DEF I
    <3> QED
      BY <1>6, <3>1, <3>2
  <2>2. \A d \in Calls : \A j \in DOMAIN creds' :
           Begun(d) /\ creds'[j].id = TargetOf(d) => HasStored(d, creds'[j])
    BY <1>4, <1>5 DEF Coherent, ChangesApart
  <2>3. \A d, f \in Calls : Begun(d) /\ Begun(f) /\ TargetOf(d) = TargetOf(f) => d = f
    BY DEF Coherent, ChangesApart
  <2> QED
    BY <1>1, <2>1, <2>2, <2>3 DEF ChangesApart, HasStored, Begun, TargetOf
<1> QED
  BY <1>8, <1>9, <1>10, <1>11 DEF Coherent

LEMMA CredsStay ==
    ASSUME CredsOK, UNCHANGED creds, issued \subseteq issued'
    PROVE  CredsOK'
BY DEF CredsOK

LEMMA CredsReplaced ==
    ASSUME CredsOK, UNCHANGED issued, NEW k \in DOMAIN creds, NEW e \in CredEntry,
           e.token \in Sessions => e.token \in issued, creds' = [creds EXCEPT ![k] = e]
    PROVE  CredsOK'
<1>1. creds' \in Seq(CredEntry) /\ DOMAIN creds' = DOMAIN creds
  BY DEF CredsOK
<1>2. \A j \in DOMAIN creds : creds'[j] = IF j = k THEN e ELSE creds[j]
  OBVIOUS
<1> QED
  BY <1>1, <1>2 DEF CredsOK

\* Steps of logins before they have a token.
LEMMA AskingSteps ==
    ASSUME LoginInv, CredsInv, Settled, UNCHANGED <<creds, issued, login_overlapped>>,
           \A d \in Calls : \/ login_call'[d] = login_call[d]
                            \/ login_call'[d].pc = "idle"
                            \/ login_call'[d].pc \in Asking /\ Started(login_call'[d].s)
    PROVE  CredsInv'
<1>1. CallsOK'
  BY CallsKeep DEF CredsInv, CallKeeps, CallsOK
<1>2. ~login_overlapped => Coherent'
  BY CoherentQuiet DEF CredsInv
<1>3. CredsOK'
  BY CredsStay DEF CredsInv
<1> QED
  BY <1>1, <1>2, <1>3 DEF CredsInv

LEMMA SessionsAsk ==
    ASSUME LoginInv, CredsInv, Settled,
           \/ \E s \in Sessions : \E kind, target : L!Start(s, kind, target)
           \/ \E s \in Sessions : L!Expire(s) \/ \E cb : L!Callback(s, cb)
    PROVE  CredsInv'
BY AskingSteps DEF L!Start, L!Expire, L!Callback

LEMMA CallsAsk ==
    ASSUME LoginInv, CredsInv, Settled, NEW c \in Calls,
           \/ \E s \in Sessions : L!PollSocial(c, s) \/ L!PollIdc(c, s) \/ \E cb : L!CompleteSocial(c, s, cb)
           \/ L!Verify(c) \/ L!Take(c)
    PROVE  CredsInv'
<1>1. UNCHANGED <<creds, issued, login_overlapped>>
  BY DEF L!PollSocial, L!PollIdc, L!CompleteSocial, L!Verify, L!Take
<1>2. LoginShape /\ ExchangeInv /\ CallsOK
  BY DEF LoginInv, CredsInv
<1>3. \A d \in Calls \ {c} : login_call'[d] = login_call[d]
  BY <1>2 DEF L!PollSocial, L!PollIdc, L!CompleteSocial, L!Verify, L!Take, L!Return, L!Goto, LoginShape
<1>4. \/ login_call'[c] = login_call[c]
      \/ login_call'[c].pc = "idle"
      \/ login_call'[c].pc \in Asking /\ Started(login_call'[c].s)
  <2>1. ASSUME NEW s \in Sessions, session[s].open, NEW p \in {"verify", "poll"}, NEW cb,
               login_call' = [login_call EXCEPT ![c] = [L!Idle EXCEPT !.pc = p, !.s = s, !.cb = cb]]
        PROVE  login_call'[c].pc \in Asking /\ Started(login_call'[c].s)
    <3>1. login_call'[c] = [L!Idle EXCEPT !.pc = p, !.s = s, !.cb = cb]
      BY <1>2, <2>1 DEF LoginShape
    <3>2. login_call'[c].pc = p /\ login_call'[c].s = s
      BY <3>1 DEF L!Idle
    <3> QED
      BY <1>2, <2>1, <3>2 DEF Started, Asking, LoginShape
  <2>2. ASSUME NEW s \in Sessions, L!PollSocial(c, s)
        PROVE  login_call' = login_call \/ (login_call'[c].pc \in Asking /\ Started(login_call'[c].s))
    <3>1. CASE UNCHANGED login_call
      BY <3>1
    <3>2. CASE ~UNCHANGED login_call
      <4>1. /\ session[s].open
            /\ login_call' = [login_call EXCEPT ![c] =
                                [L!Idle EXCEPT !.pc = "verify", !.s = s, !.cb = session[s].slot]]
        BY <2>2, <3>2 DEF L!PollSocial
      <4>2. "verify" \in {"verify", "poll"}
        OBVIOUS
      <4> QED
        BY <2>1, <4>1, <4>2
    <3> QED
      BY <3>1, <3>2
  <2>3. ASSUME NEW s \in Sessions, NEW cb, L!CompleteSocial(c, s, cb)
        PROVE  login_call'[c].pc \in Asking /\ Started(login_call'[c].s)
    BY <2>1, <2>3 DEF L!CompleteSocial
  <2>4. ASSUME NEW s \in Sessions, L!PollIdc(c, s)
        PROVE  login_call'[c].pc \in Asking /\ Started(login_call'[c].s)
    <3>1. login_call' = [login_call EXCEPT ![c] = [L!Idle EXCEPT !.pc = "poll", !.s = s]]
      BY <2>4 DEF L!PollIdc
    <3>2. login_call'[c].pc = "poll" /\ login_call'[c].s = s
      BY <1>2, <3>1 DEF LoginShape, L!Idle
    <3> QED
      BY <1>2, <2>4, <3>2 DEF Started, Asking, LoginShape, L!PollIdc
  <2>5. ASSUME NEW p \in Asking, login_call[c].pc \in Asking, L!Goto(c, p)
        PROVE  login_call'[c].pc \in Asking /\ Started(login_call'[c].s)
    <3>1. login_call'[c].pc = p /\ login_call'[c].s = login_call[c].s
      BY <1>2, <2>5 DEF L!Goto, LoginShape, CallRecord
    <3> QED
      BY <1>2, <2>5, <3>1 DEF CallsOK
  <2>6. ASSUME L!Return(c) PROVE login_call'[c].pc = "idle"
    BY <1>2, <2>6 DEF L!Return, L!Idle, LoginShape
  <2>7. CASE L!Verify(c) \/ L!Take(c)
    BY <2>5, <2>6, <2>7 DEF L!Verify, L!Take, L!At, Asking
  <2> QED
    BY <2>2, <2>3, <2>4, <2>7
<1> QED
  BY <1>1, <1>3, <1>4, AskingSteps

\* A call gets a token that no other has.
LEMMA CallTakesToken ==
    ASSUME CallsOK, Settled, Imported \notin Sessions,
           NEW c \in Calls, \A d \in Calls \ {c} : login_call'[d] = login_call[d],
           login_call'[c].pc \in {"add", "disable"}, login_call'[c].s \notin issued,
           \/ issued' = issued \cup {login_call'[c].s} /\ Started(login_call'[c].s)
           \/ issued' = issued /\ login_call'[c].s = Imported /\ login_call'[c].pc = "add"
    PROVE  CallsOK'
<1>1. \A s \in Sessions : Started(s) => session'[s].kind # "none"
  BY DEF Settled, Started
<1>2. \A s \in issued' : Started(s)'
  BY <1>1 DEF Started, CallsOK
<1>3. ASSUME NEW d \in Calls
      PROVE  /\ login_call'[d].pc \in Asking => Started(login_call[d].s)'
             /\ login_call'[d].pc \in Adds => login_call'[d].s \in issued' \cup {Imported}
             /\ login_call'[d].pc \in Changes => login_call'[d].s \in issued'
             /\ login_call'[d].pc = "push" => login_call'[d].id \in Nat \ {0}
  <2>1. CASE d = c
    BY <2>1 DEF Asking, Adds, Changes
  <2>2. CASE d # c
    BY <1>1, <2>2 DEF CallsOK, Started
  <2> QED
    BY <2>1, <2>2
<1>4. \A d \in Calls : Holds(d) => login_call[d].s \in issued \cup {Imported}
  BY DEF CallsOK, Holds
<1>5. \A s \in issued' : s # Imported
  BY DEF CallsOK, Started
<1>6. \A d \in Calls \ {c} : Holds(d)' /\ login_call'[d].s = login_call'[c].s
                            => login_call'[c].s \notin issued'
  BY <1>4, <1>5 DEF Holds
<1>7. \A d, f \in Calls \ {c} : Holds(d)' /\ Holds(f)' /\ login_call'[d].s = login_call'[f].s
                                /\ login_call'[d].s \in issued' => d = f
  <2> SUFFICES ASSUME NEW d \in Calls \ {c}, NEW f \in Calls \ {c}, Holds(d)', Holds(f)',
                      login_call'[d].s = login_call'[f].s, login_call'[d].s \in issued'
               PROVE  d = f
    OBVIOUS
  <2>1. Holds(d) /\ Holds(f) /\ login_call[d].s = login_call[f].s /\ login_call[d].s \in issued'
    BY DEF Holds
  <2>2. login_call[d].s \in issued
    BY <1>4, <1>5, <2>1
  <2> QED
    BY <2>1, <2>2 DEF CallsOK
<1>8. \A d, f \in Calls : Holds(d)' /\ Holds(f)' /\ login_call'[d].s = login_call'[f].s
                        /\ login_call'[d].s \in issued' => d = f
  BY <1>6, <1>7
<1> QED
  BY <1>2, <1>3, <1>8 DEF CallsOK

LEMMA ImportStep ==
    ASSUME LoginInv, CredsInv, Settled, Imported \notin Sessions, NEW c \in Calls, L!Import(c)
    PROVE  CredsInv'
<1>1. UNCHANGED <<creds, issued, login_overlapped>> /\ LoginShape
  BY DEF L!Import, LoginInv
<1>2. /\ login_call'[c].pc = "add" /\ login_call'[c].s = Imported
      /\ \A d \in Calls \ {c} : login_call'[d] = login_call[d]
  BY <1>1 DEF L!Import, L!Idle, LoginShape
<1>3. Imported \notin issued
  BY DEF CredsInv, CallsOK, Started
<1>4. CallsOK'
  BY <1>1, <1>2, <1>3, CallTakesToken DEF CredsInv
<1>5. ~login_overlapped => Coherent'
  BY <1>1, <1>2, CoherentQuiet DEF CredsInv
<1>6. CredsOK'
  BY <1>1, CredsStay DEF CredsInv
<1> QED
  BY <1>1, <1>4, <1>5, <1>6 DEF CredsInv

LEMMA IssueSteps ==
    ASSUME LoginInv, CredsInv, Settled, Imported \notin Sessions, NEW c \in Calls,
           L!Exchange(c) \/ L!PollToken(c)
    PROVE  CredsInv'
<1> DEFINE s == login_call[c].s
<1>1. UNCHANGED <<creds, login_overlapped>> /\ LoginShape /\ CallsOK /\ Started(s)
  BY DEF L!Exchange, L!PollToken, LoginInv, CredsInv, L!At, CallsOK, Asking
<1>2. \/ L!Return(c) /\ issued' = issued
      \/ s \notin issued /\ issued' = issued \cup {s} /\ (L!Return(c) \/ L!Goto(c, "add") \/ L!Goto(c, "disable"))
  BY DEF L!Exchange, L!PollToken, L!UseToken
<1>3. \A d \in Calls \ {c} : login_call'[d] = login_call[d]
  BY <1>1, <1>2 DEF L!Return, L!Goto, LoginShape
<1>4. L!Return(c) => login_call'[c].pc = "idle"
  BY <1>1 DEF L!Return, L!Idle, LoginShape
<1>5. \A p : L!Goto(c, p) => login_call'[c].pc = p /\ login_call'[c].s = s
  BY <1>1 DEF L!Goto, LoginShape, CallRecord
<1> HIDE DEF s
<1>6. CallsOK'
  <2>1. CASE L!Return(c)
    <3>1. issued \subseteq issued' /\ \A r \in issued' : Started(r)
      BY <1>1, <1>2 DEF CallsOK
    <3>2. \A d \in Calls : CallKeeps(d)
      BY <1>3, <1>4, <2>1 DEF CallKeeps
    <3>3. \A r \in issued' \ issued : \A d \in Calls : Holds(d) => login_call[d].s # r
      <4>1. \A d \in Calls : Holds(d) => login_call[d].s \in issued \cup {Imported}
        BY <1>1 DEF CallsOK, Holds
      <4>2. \A r \in issued' : r # Imported
        BY <3>1 DEF Started
      <4> QED
        BY <4>1, <4>2
    <3> QED
      BY <1>1, <3>1, <3>2, <3>3, CallsKeep
  <2>2. CASE ~L!Return(c)
    BY <1>1, <1>2, <1>3, <1>5, <2>2, CallTakesToken
  <2> QED
    BY <2>1, <2>2
<1>7. ~login_overlapped => Coherent'
  <2>1. login_call'[c].pc \in {"idle", "add", "disable"}
    BY <1>2, <1>4, <1>5
  <2> QED
    BY <1>1, <1>3, <2>1, CoherentQuiet DEF CredsInv
<1>8. CredsOK'
  BY <1>1, <1>2, CredsStay DEF CredsInv
<1> QED
  BY <1>1, <1>6, <1>7, <1>8 DEF CredsInv

LEMMA AddSteps ==
    ASSUME LoginInv, CredsInv, Settled, NEW c \in Calls,
           L!Add(c) \/ L!Refresh(c) \/ L!Number(c)
    PROVE  CredsInv'
<1> DEFINE s == login_call[c].s
<1>1. UNCHANGED <<creds, issued, session>> /\ LoginShape /\ CallsOK /\ CredsOK
  BY DEF L!Add, L!Refresh, L!Number, LoginInv, CredsInv
<1>2. \A d \in Calls \ {c} : login_call'[d] = login_call[d]
  BY <1>1 DEF L!Add, L!Refresh, L!Number, L!Return, L!Goto, LoginShape
<1>3. login_call[c].pc \in Adds
  BY DEF L!Add, L!Refresh, L!Number, L!At, Adds
<1>4. \/ login_call'[c].pc = "idle"
      \/ /\ login_call'[c].s = s /\ login_call'[c].pc \in {"refresh", "number"}
      \/ /\ login_call'[c].s = s /\ login_call'[c].pc = "push"
         /\ login_call'[c].id = L!Max(L!Ids \cup {0}) + 1
  <2>1. L!Return(c) => login_call'[c].pc = "idle"
    BY <1>1 DEF L!Return, L!Idle, LoginShape
  <2>2. \A p : L!Goto(c, p) => login_call'[c].pc = p /\ login_call'[c].s = s
    BY <1>1 DEF L!Goto, LoginShape, CallRecord
  <2>3. CASE L!Add(c)
    BY <2>1, <2>2, <2>3 DEF L!Add
  <2>4. CASE L!Refresh(c)
    BY <2>1, <2>2, <2>4 DEF L!Refresh
  <2>5. CASE L!Number(c)
    <3> DEFINE x == [login_call[c] EXCEPT !.pc = "push", !.id = L!Max(L!Ids \cup {0}) + 1]
    <3>1. login_call' = [login_call EXCEPT ![c] = x]
      BY <2>5 DEF L!Number
    <3>2. x.pc = "push" /\ x.s = s /\ x.id = L!Max(L!Ids \cup {0}) + 1
      BY <1>1 DEF LoginShape, CallRecord
    <3> HIDE DEF x
    <3>3. login_call'[c] = x
      BY <1>1, <3>1 DEF LoginShape
    <3> QED
      BY <3>2, <3>3
  <2> QED
    BY <2>3, <2>4, <2>5
<1>5. /\ login_call'[c].pc = "push" => login_call'[c].id \in Nat \ {0}
      /\ login_call'[c].pc = "push" => \A k \in DOMAIN creds : creds[k].id # login_call'[c].id
  BY <1>1, <1>4, NextIdIsNew DEF CredsOK
<1>6. CallsOK'
  <2>1. \A d \in Calls : CallKeeps(d)
    <3>1. CallKeeps(c)
      BY <1>3, <1>4, <1>5 DEF CallKeeps, Adds
    <3> QED
      BY <1>2, <3>1 DEF CallKeeps
  <2>2. /\ issued \subseteq issued' /\ \A r \in issued' : Started(r)
        /\ \A r \in issued' \ issued : \A d \in Calls : Holds(d) => login_call[d].s # r
    BY <1>1 DEF CallsOK
  <2> HIDE DEF s
  <2> QED
    BY <1>1, <2>1, <2>2, CallsKeep
<1>7. ASSUME ~login_overlapped' PROVE Coherent'
  <2>1. Coherent /\ ~login_overlapped
    <3>1. CASE L!Add(c)
      BY <1>7, <3>1 DEF L!Add, CredsInv
    <3>2. CASE L!Refresh(c) \/ L!Number(c)
      <4>1. UNCHANGED login_overlapped
        BY <3>2 DEF L!Refresh, L!Number
      <4> QED
        BY <1>7, <4>1 DEF CredsInv
    <3> QED
      BY <3>1, <3>2
  <2>2. CASE login_call'[c].pc = "idle"
    BY <1>1, <1>2, <2>1, <2>2, CoherentQuiet
  <2>3. CASE login_call'[c].pc # "idle"
    <3>1. \A d \in Calls \ {c} : ~L!Adding(d)
      <4>1. CASE L!Add(c)
        BY <1>7, <4>1 DEF L!Add
      <4>2. CASE L!Refresh(c) \/ L!Number(c)
        BY <2>1, <4>2 DEF L!Refresh, L!Number, L!At, L!Adding, Coherent, AddsApart
      <4> QED
        BY <4>1, <4>2
    <3>2. \A k \in DOMAIN creds : creds[k].token # s
      <4>1. CASE L!Add(c)
        <5>1. ~L!Return(c)
          BY <1>1, <2>3 DEF L!Return, L!Idle, LoginShape
        <5>2. DOMAIN creds = 1 .. Len(creds)
          BY <1>1 DEF CredsOK
        <5> QED
          BY <4>1, <5>1, <5>2 DEF L!Add, L!Token, L!Tokens
      <4>2. CASE L!Refresh(c) \/ L!Number(c)
        BY <2>1, <4>2 DEF L!Refresh, L!Number, L!At, L!Adding, Coherent, AddsApart, NewTo
      <4> QED
        BY <4>1, <4>2
    <3>3. login_call'[c].pc \in {"refresh", "number", "push"} /\ login_call'[c].s = s
      BY <1>4, <2>3
    <3> HIDE DEF s
    <3> QED
      BY <1>1, <1>2, <1>5, <2>1, <3>1, <3>2, <3>3, CoherentAdding
  <2> QED
    BY <2>2, <2>3
<1>8. CredsOK'
  BY <1>1, CredsStay
<1> QED
  BY <1>6, <1>7, <1>8 DEF CredsInv

LEMMA PushStep ==
    ASSUME LoginInv, CredsInv, Settled, Imported \notin Sessions, NEW c \in Calls, L!Push(c)
    PROVE  CredsInv'
<1> DEFINE e == [id |-> login_call[c].id, token |-> login_call[c].s, meta |-> L!MetaOf(login_call[c].s),
                 enabled |-> TRUE, odd |-> FALSE]
<1>1. /\ UNCHANGED <<session, issued, login_overlapped>> /\ LoginShape /\ CallsOK /\ CredsOK
      /\ login_call[c].pc = "push" /\ L!Return(c) /\ creds' = Append(creds, e)
  BY DEF L!Push, LoginInv, CredsInv, L!At, L!Token
<1>2. login_call'[c].pc = "idle" /\ \A d \in Calls \ {c} : login_call'[d] = login_call[d]
  BY <1>1 DEF L!Return, L!Idle, LoginShape
<1>3. login_call[c].id \in Nat \ {0} /\ login_call[c].s \in issued \cup {Imported}
  BY <1>1 DEF CallsOK, Adds
<1>4. login_call[c].s \in KnownTokens
  BY <1>1, <1>3 DEF CallsOK, Started, KnownTokens
<1>5. L!MetaOf(login_call[c].s) \in SUBSET KnownTokens
  BY <1>4 DEF L!MetaOf
<1>6. e \in CredEntry
  BY <1>3, <1>4, <1>5 DEF CredEntry
<1>7. e.id = login_call[c].id /\ e.token = login_call[c].s /\ EntryOK(e)
  BY DEF EntryOK
<1> HIDE DEF e
<1>8. CredsOK'
  <2>1. creds' \in Seq(CredEntry)
    BY <1>1, <1>6 DEF CredsOK
  <2>2. DOMAIN creds' = DOMAIN creds \cup {Len(creds) + 1} /\ Len(creds) + 1 \notin DOMAIN creds
        /\ creds'[Len(creds) + 1] = e /\ \A k \in DOMAIN creds : creds'[k] = creds[k]
    BY <1>1, <1>6 DEF CredsOK
  <2>3. e.token \in Sessions => e.token \in issued \/ e.token = Imported
    BY <1>3, <1>7
  <2>4. \A k \in DOMAIN creds' : creds'[k].token \in Sessions => creds'[k].token \in issued \/ creds'[k].token = Imported
    BY <1>1, <2>2, <2>3 DEF CredsOK
  <2> QED
    BY <1>1, <2>1, <2>4 DEF CredsOK
<1>9. CallsOK'
  <2>1. \A d \in Calls : CallKeeps(d)
    BY <1>2 DEF CallKeeps
  <2>2. /\ issued \subseteq issued' /\ \A r \in issued' : Started(r)
        /\ \A r \in issued' \ issued : \A d \in Calls : Holds(d) => login_call[d].s # r
    BY <1>1 DEF CallsOK
  <2> QED
    BY <1>1, <2>1, <2>2, CallsKeep
<1>10. ~login_overlapped => Coherent'
  BY <1>1, <1>2, <1>7, CoherentPushed DEF CredsInv
<1> QED
  BY <1>1, <1>8, <1>9, <1>10 DEF CredsInv

\* What one operation of a relogin does: to no entry, or to the one it is for.
LEMMA ReloginEffect ==
    ASSUME LoginShape, CredsOK, NEW c \in Calls, NEW p, NEW next, NEW e, L!Relogin(c, p, next, e)
    PROVE  /\ login_call[c].pc = p /\ UNCHANGED <<session, issued>>
           /\ \A d \in Calls \ {c} : login_call'[d] = login_call[d]
           /\ \/ UNCHANGED creds /\ login_call'[c].pc = "idle"
              \/ \E k \in DOMAIN creds :
                    /\ k = L!Pos(TargetOf(c)) /\ creds[k].id = TargetOf(c) /\ k # 0
                    /\ creds' = [creds EXCEPT ![k] = e]
                    /\ \/ login_call'[c].pc = "idle"
                       \/ next # "idle" /\ login_call'[c].pc = next /\ login_call'[c].s = login_call[c].s
<1>1. L!Return(c) => login_call'[c].pc = "idle" /\ \A d \in Calls \ {c} : login_call'[d] = login_call[d]
  BY DEF L!Return, L!Idle, LoginShape
<1>2. L!Goto(c, next) => /\ login_call'[c].pc = next /\ login_call'[c].s = login_call[c].s
                         /\ \A d \in Calls \ {c} : login_call'[d] = login_call[d]
  BY DEF L!Goto, LoginShape, CallRecord
<1>3. PICK k : k = L!Pos(TargetOf(c))
  OBVIOUS
<1>4. k = L!Pos(L!S(c).target)
  BY <1>3 DEF L!S, TargetOf
<1>5. k = 0 \/ (k \in DOMAIN creds /\ creds[k].id = TargetOf(c))
  BY <1>3, PosEffect DEF CredsOK
<1>6. login_call[c].pc = p /\ UNCHANGED <<session, issued>>
  BY DEF L!Relogin, L!At
<1>7. CASE k = 0
  BY <1>1, <1>4, <1>6, <1>7 DEF L!Relogin
<1>8. CASE k # 0
  <2>1. creds' = [creds EXCEPT ![k] = e] /\ (L!Return(c) \/ (next # "idle" /\ L!Goto(c, next)))
    BY <1>4, <1>8 DEF L!Relogin
  <2> QED
    BY <1>1, <1>2, <1>3, <1>5, <1>6, <1>8, <2>1
<1> QED
  BY <1>7, <1>8

\* The parts of the invariant that the operations of a relogin keep in the same way.
LEMMA ReloginKeeps ==
    ASSUME CredsOK, CallsOK, UNCHANGED <<session, issued>>, NEW c \in Calls,
           login_call[c].pc \in Changes,
           \A d \in Calls \ {c} : login_call'[d] = login_call[d],
           \/ login_call'[c].pc = "idle"
           \/ login_call'[c].pc \in Changes /\ login_call'[c].s = login_call[c].s
    PROVE  CallsOK'
<1>1. \A d \in Calls : CallKeeps(d)
  BY DEF CallKeeps, Changes
<1>2. /\ issued \subseteq issued' /\ \A r \in issued' : Started(r)
      /\ \A r \in issued' \ issued : \A d \in Calls : Holds(d) => login_call[d].s # r
  BY DEF CallsOK
<1> QED
  BY <1>1, <1>2, CallsKeep, SettledStays

LEMMA SetDisabledFirstStep ==
    ASSUME LoginInv, CredsInv, NEW c \in Calls, L!SetDisabledFirst(c)
    PROVE  CredsInv'
<1> DEFINE e == [creds[L!Pos(TargetOf(c))] EXCEPT !.enabled = FALSE]
<1>1. LoginShape /\ CredsOK /\ CallsOK
  BY DEF LoginInv, CredsInv
<1>2. L!Relogin(c, "disable", "token", e)
  BY DEF L!SetDisabledFirst, L!Target, L!S, TargetOf
<1>3. /\ login_call[c].pc = "disable" /\ UNCHANGED <<session, issued>>
      /\ \A d \in Calls \ {c} : login_call'[d] = login_call[d]
      /\ \/ UNCHANGED creds /\ login_call'[c].pc = "idle"
         \/ \E k \in DOMAIN creds :
               /\ k = L!Pos(TargetOf(c)) /\ creds[k].id = TargetOf(c) /\ k # 0
               /\ creds' = [creds EXCEPT ![k] = e]
               /\ \/ login_call'[c].pc = "idle"
                  \/ "token" # "idle" /\ login_call'[c].pc = "token" /\ login_call'[c].s = login_call[c].s
  <2> HIDE DEF e
  <2> QED
    BY <1>1, <1>2, ReloginEffect
<1>4. CallsOK'
  <2>1. \/ login_call'[c].pc = "idle"
        \/ login_call'[c].pc \in Changes /\ login_call'[c].s = login_call[c].s
    BY <1>3 DEF Changes
  <2> QED
    BY <1>1, <1>3, <2>1, ReloginKeeps DEF Changes
<1>5. CASE UNCHANGED creds /\ login_call'[c].pc = "idle"
  <2>1. CredsOK'
    BY <1>1, <1>3, <1>5, CredsStay
  <2>2. ASSUME ~login_overlapped' PROVE Coherent'
    <3>1. Coherent
      BY <2>2 DEF L!SetDisabledFirst, CredsInv
    <3> QED
      BY <1>1, <1>3, <1>5, <3>1, CoherentQuiet, SettledStays
  <2> QED
    BY <1>4, <2>1, <2>2 DEF CredsInv
<1>6. ASSUME NEW k \in DOMAIN creds, k = L!Pos(TargetOf(c)), creds[k].id = TargetOf(c),
             creds' = [creds EXCEPT ![k] = e],
             login_call'[c].pc = "idle" \/ (login_call'[c].pc = "token" /\ login_call'[c].s = login_call[c].s)
      PROVE  CredsInv'
  <2>1. creds[k] \in CredEntry /\ e = [creds[k] EXCEPT !.enabled = FALSE]
    BY <1>1, <1>6 DEF CredsOK
  <2>2. e \in CredEntry /\ e.id = creds[k].id /\ e.token = creds[k].token /\ e.enabled = FALSE
    BY <2>1 DEF CredEntry
  <2> HIDE DEF e
  <2>3. CredsOK'
    BY <1>1, <1>3, <1>6, <2>2, CredsReplaced DEF CredsOK
  <2>4. ASSUME ~login_overlapped' PROVE Coherent'
    <3>1. Coherent
      BY <2>4 DEF L!SetDisabledFirst, CredsInv
    <3>2. \A d \in Calls \ {c} : Begun(d) => TargetOf(d) # e.id
      <4>1. \A d \in Calls \ {c} : L!Relogging(d) => session[login_call[d].s].target # L!S(c).target
        BY <2>4 DEF L!SetDisabledFirst
      <4> QED
        BY <1>6, <2>2, <4>1 DEF L!Relogging, Begun, TargetOf, L!S
    <3>3. EntryOK(e)
      BY <2>2 DEF EntryOK
    <3>4. ASSUME NEW d \in Calls
          PROVE  /\ \/ login_call'[d] = login_call[d] \/ login_call'[d].pc = "idle"
                    \/ /\ login_call'[d].pc \in {"token", "meta", "enable"}
                       /\ login_call'[d].s = login_call[d].s /\ TargetOf(d) = e.id
                       /\ \A f \in Calls \ {d} : Begun(f) => TargetOf(f) # e.id
                       /\ \A f \in Calls \ {d} : login_call'[f] = login_call[f]
                 /\ TargetOf(d) = e.id =>
                       /\ login_call'[d].pc = "meta" => e.token = login_call'[d].s
                       /\ login_call'[d].pc = "enable" /\ ~e.odd => e.meta = L!MetaOf(e.token)
      <4>1. CASE d = c
        BY <1>3, <1>6, <2>2, <3>2, <4>1
      <4>2. CASE d # c
        <5>1. ~(Begun(d) /\ TargetOf(d) = e.id)
          BY <3>2, <4>2
        <5> QED
          BY <1>3, <4>2, <5>1 DEF Begun
      <4> QED
        BY <4>1, <4>2
    <3> QED
      BY <1>1, <1>3, <1>6, <2>2, <3>1, <3>3, <3>4, CoherentReplaced
  <2> QED
    BY <1>4, <2>3, <2>4 DEF CredsInv
<1> QED
  BY <1>3, <1>5, <1>6

\* The later operations of a relogin: no other call is changing the same entry.
LEMMA ReloginStep ==
    ASSUME LoginInv, CredsInv, UNCHANGED login_overlapped, NEW c \in Calls,
           NEW p \in {"token", "meta", "enable"}, NEW next \in {"meta", "enable", "idle"}, NEW e,
           L!Relogin(c, p, next, e),
           \A k \in DOMAIN creds :
              creds[k].id = TargetOf(c) /\ k = L!Pos(TargetOf(c)) =>
                /\ e \in CredEntry /\ e.id = creds[k].id /\ (e.token \in Sessions => e.token \in issued)
                /\ Coherent =>
                     /\ EntryOK(e)
                     /\ \/ e.token = creds[k].token
                        \/ /\ \A j \in DOMAIN creds \ {k} : creds[j].token # e.token
                           /\ \A d \in Calls : L!Adding(d) => login_call[d].s # e.token
                     /\ next = "meta" => e.token = login_call[c].s
                     /\ next = "enable" /\ ~e.odd => e.meta = L!MetaOf(e.token)
    PROVE  CredsInv'
<1>1. LoginShape /\ CredsOK /\ CallsOK
  BY DEF LoginInv, CredsInv
<1>2. /\ login_call[c].pc = p /\ UNCHANGED <<session, issued>>
      /\ \A d \in Calls \ {c} : login_call'[d] = login_call[d]
      /\ \/ UNCHANGED creds /\ login_call'[c].pc = "idle"
         \/ \E k \in DOMAIN creds :
               /\ k = L!Pos(TargetOf(c)) /\ creds[k].id = TargetOf(c) /\ k # 0
               /\ creds' = [creds EXCEPT ![k] = e]
               /\ \/ login_call'[c].pc = "idle"
                  \/ next # "idle" /\ login_call'[c].pc = next /\ login_call'[c].s = login_call[c].s
  BY <1>1, ReloginEffect
<1>3. Begun(c) /\ login_call[c].pc \in Changes
  BY <1>2 DEF Begun, Changes
<1>4. CallsOK'
  <2>1. \/ login_call'[c].pc = "idle"
        \/ login_call'[c].pc \in Changes /\ login_call'[c].s = login_call[c].s
    BY <1>2 DEF Changes
  <2> QED
    BY <1>1, <1>2, <1>3, <2>1, ReloginKeeps
<1>5. CASE UNCHANGED creds /\ login_call'[c].pc = "idle"
  <2>1. CredsOK'
    BY <1>1, <1>2, <1>5, CredsStay
  <2>2. ASSUME ~login_overlapped PROVE Coherent'
    <3>1. Coherent
      BY <2>2 DEF CredsInv
    <3> QED
      BY <1>1, <1>2, <1>5, <3>1, CoherentQuiet, SettledStays
  <2> QED
    BY <1>4, <2>1, <2>2 DEF CredsInv
<1>6. ASSUME NEW k \in DOMAIN creds, k = L!Pos(TargetOf(c)), creds[k].id = TargetOf(c),
             creds' = [creds EXCEPT ![k] = e],
             \/ login_call'[c].pc = "idle"
             \/ next # "idle" /\ login_call'[c].pc = next /\ login_call'[c].s = login_call[c].s
      PROVE  CredsInv'
  <2>1. e \in CredEntry /\ e.id = creds[k].id /\ (e.token \in Sessions => e.token \in issued)
    BY <1>6
  <2>2. CredsOK'
    BY <1>1, <1>2, <1>6, <2>1, CredsReplaced
  <2>3. ASSUME ~login_overlapped PROVE Coherent'
    <3>1. Coherent
      BY <2>3 DEF CredsInv
    <3>2. /\ EntryOK(e)
          /\ \/ e.token = creds[k].token
             \/ /\ \A j \in DOMAIN creds \ {k} : creds[j].token # e.token
                /\ \A d \in Calls : L!Adding(d) => login_call[d].s # e.token
          /\ next = "meta" => e.token = login_call[c].s
          /\ next = "enable" /\ ~e.odd => e.meta = L!MetaOf(e.token)
      BY <1>6, <3>1
    <3>3. \A d \in Calls \ {c} : Begun(d) => TargetOf(d) # e.id
      <4>1. \A d \in Calls : Begun(d) /\ TargetOf(d) = TargetOf(c) => d = c
        BY <1>3, <3>1 DEF Coherent, ChangesApart
      <4> QED
        BY <1>6, <2>1, <4>1
    <3>4. ASSUME NEW d \in Calls
          PROVE  /\ \/ login_call'[d] = login_call[d] \/ login_call'[d].pc = "idle"
                    \/ /\ login_call'[d].pc \in {"token", "meta", "enable"}
                       /\ login_call'[d].s = login_call[d].s /\ TargetOf(d) = e.id
                       /\ \A f \in Calls \ {d} : Begun(f) => TargetOf(f) # e.id
                       /\ \A f \in Calls \ {d} : login_call'[f] = login_call[f]
                 /\ TargetOf(d) = e.id =>
                       /\ login_call'[d].pc = "meta" => e.token = login_call'[d].s
                       /\ login_call'[d].pc = "enable" /\ ~e.odd => e.meta = L!MetaOf(e.token)
      <4>1. CASE d = c
        BY <1>2, <1>6, <2>1, <3>2, <3>3, <4>1
      <4>2. CASE d # c
        <5>1. ~(Begun(d) /\ TargetOf(d) = e.id)
          BY <3>3, <4>2
        <5> QED
          BY <1>2, <4>2, <5>1 DEF Begun
      <4> QED
        BY <4>1, <4>2
    <3> QED
      BY <1>1, <1>2, <1>6, <2>1, <3>1, <3>2, <3>4, CoherentReplaced
  <2> QED
    BY <1>4, <2>2, <2>3 DEF CredsInv
<1> QED
  BY <1>2, <1>5, <1>6

LEMMA UpdateRefreshTokenStep ==
    ASSUME LoginInv, CredsInv, NEW c \in Calls, L!UpdateRefreshToken(c)
    PROVE  CredsInv'
<1> DEFINE e == [creds[L!Pos(TargetOf(c))] EXCEPT !.token = login_call[c].s]
<1>1. /\ LoginShape /\ CredsOK /\ CallsOK /\ UNCHANGED login_overlapped
      /\ login_call[c].pc = "token"
  BY DEF LoginInv, CredsInv, L!UpdateRefreshToken, L!At
<1>2. CASE L!Return(c) /\ UNCHANGED <<session, creds, issued>>
  <2>1. login_call'[c].pc = "idle" /\ \A d \in Calls \ {c} : login_call'[d] = login_call[d]
    BY <1>1, <1>2 DEF L!Return, L!Idle, LoginShape
  <2> QED
    BY <1>1, <1>2, <2>1, AskingSteps, SettledStays
<1>3. CASE /\ ~L!Target(c).enabled /\ ~L!TokenOfAnother(c)
           /\ L!Relogin(c, "token", "meta", [L!Target(c) EXCEPT !.token = L!Token(c)])
  <2>1. L!Relogin(c, "token", "meta", e)
    BY <1>3 DEF L!Target, L!S, TargetOf, L!Token
  <2>2. ASSUME NEW k \in DOMAIN creds, creds[k].id = TargetOf(c), k = L!Pos(TargetOf(c))
        PROVE  /\ e \in CredEntry /\ e.id = creds[k].id /\ (e.token \in Sessions => e.token \in issued)
               /\ Coherent =>
                    /\ EntryOK(e)
                    /\ \/ e.token = creds[k].token
                       \/ /\ \A j \in DOMAIN creds \ {k} : creds[j].token # e.token
                          /\ \A d \in Calls : L!Adding(d) => login_call[d].s # e.token
                    /\ "meta" = "meta" => e.token = login_call[c].s
                    /\ "meta" = "enable" /\ ~e.odd => e.meta = L!MetaOf(e.token)
    <3>1. login_call[c].s \in issued /\ login_call[c].s \in Sessions
      BY <1>1 DEF CallsOK, Changes, Started
    <3>2. creds[k] \in CredEntry /\ e = [creds[k] EXCEPT !.token = login_call[c].s]
      BY <1>1, <2>2 DEF CredsOK
    <3>3. /\ e \in CredEntry /\ e.id = creds[k].id /\ e.token = login_call[c].s
          /\ e.enabled = creds[k].enabled
      BY <3>1, <3>2 DEF CredEntry, KnownTokens
    <3>4. ~creds[k].enabled
      BY <1>3, <2>2 DEF L!Target, L!S, TargetOf
    <3>5. \A j \in DOMAIN creds \ {k} : creds[j].token # login_call[c].s
      <4>1. DOMAIN creds = 1 .. Len(creds) /\ k = L!Pos(L!S(c).target)
        BY <1>1, <2>2 DEF CredsOK, L!S, TargetOf
      <4> QED
        BY <1>3, <4>1 DEF L!TokenOfAnother, L!Token
    <3>6. \A d \in Calls : L!Adding(d) => login_call[d].s # login_call[c].s
      <4>1. \A d \in Calls : L!Adding(d) => Holds(d) /\ d # c
        BY <1>1 DEF L!Adding, Holds, Adds
      <4>2. Holds(c)
        BY <1>1 DEF Holds, Changes
      <4> QED
        BY <1>1, <3>1, <4>1, <4>2 DEF CallsOK
    <3> HIDE DEF e
    <3> QED
      BY <3>1, <3>3, <3>4, <3>5, <3>6 DEF EntryOK
  <2> HIDE DEF e
  <2>3. "token" \in {"token", "meta", "enable"} /\ "meta" \in {"meta", "enable", "idle"}
    OBVIOUS
  <2> QED
    BY <1>1, <2>1, <2>2, <2>3, ReloginStep
<1> QED
  BY <1>2, <1>3 DEF L!UpdateRefreshToken

LEMMA UpdateAuthMetadataStep ==
    ASSUME LoginInv, CredsInv, KindsOK, NEW c \in Calls, L!UpdateAuthMetadata(c)
    PROVE  CredsInv'
<1> DEFINE t == login_call[c].s
           old == creds[L!Pos(TargetOf(c))]
           e == IF session[t].kind = "idc" THEN [old EXCEPT !.meta = L!MetaOf(t)]
                ELSE [old EXCEPT !.odd = old.odd \/ old.meta # {}]
<1>1. /\ LoginShape /\ CredsOK /\ CallsOK /\ UNCHANGED login_overlapped
      /\ L!Relogin(c, "meta", "enable", e)
  BY DEF LoginInv, CredsInv, L!UpdateAuthMetadata, L!Target, L!S, L!Token, TargetOf
<1>2. login_call[c].pc = "meta"
  BY DEF L!UpdateAuthMetadata, L!Relogin, L!At
<1>3. t \in issued /\ Started(t) /\ t \in KnownTokens
  BY <1>1, <1>2 DEF CallsOK, Changes, Started, KnownTokens
<1>4. ASSUME NEW k \in DOMAIN creds, creds[k].id = TargetOf(c), k = L!Pos(TargetOf(c))
      PROVE  /\ e \in CredEntry /\ e.id = creds[k].id /\ (e.token \in Sessions => e.token \in issued)
             /\ Coherent =>
                  /\ EntryOK(e)
                  /\ \/ e.token = creds[k].token
                     \/ /\ \A j \in DOMAIN creds \ {k} : creds[j].token # e.token
                        /\ \A d \in Calls : L!Adding(d) => login_call[d].s # e.token
                  /\ "enable" = "meta" => e.token = login_call[c].s
                  /\ "enable" = "enable" /\ ~e.odd => e.meta = L!MetaOf(e.token)
  <2>1. creds[k] \in CredEntry /\ old = creds[k] /\ (creds[k].token \in Sessions => creds[k].token \in issued)
    BY <1>1, <1>4 DEF CredsOK
  <2>2. Coherent => creds[k].token = t
    BY <1>2, <1>4 DEF Coherent, ChangesApart, Begun, HasStored
  <2>3. L!MetaOf(t) \in SUBSET KnownTokens /\ (session[t].kind = "social" => L!MetaOf(t) = {})
    BY <1>3 DEF L!MetaOf, Started
  <2>4. CASE session[t].kind = "idc"
    <3>1. e = [creds[k] EXCEPT !.meta = L!MetaOf(t)]
      BY <2>1, <2>4
    <3>2. /\ e \in CredEntry /\ e.id = creds[k].id /\ e.token = creds[k].token
          /\ e.meta = L!MetaOf(t)
      BY <2>1, <2>3, <3>1 DEF CredEntry
    <3> HIDE DEF e, old, t
    <3> QED
      BY <2>1, <2>2, <3>2 DEF EntryOK
  <2>5. CASE session[t].kind # "idc"
    <3>1. e = [creds[k] EXCEPT !.odd = creds[k].odd \/ creds[k].meta # {}]
      BY <2>1, <2>5
    <3>2. /\ e \in CredEntry /\ e.id = creds[k].id /\ e.token = creds[k].token
          /\ e.meta = creds[k].meta /\ (~e.odd => e.meta = {})
      BY <2>1, <3>1 DEF CredEntry
    <3>3. session[t].kind = "social"
      BY <1>3, <2>5 DEF KindsOK, Started
    <3> HIDE DEF e, old
    <3> QED
      BY <2>1, <2>2, <2>3, <3>2, <3>3 DEF EntryOK
  <2> QED
    BY <2>4, <2>5
<1> HIDE DEF e
<1>5. "meta" \in {"token", "meta", "enable"} /\ "enable" \in {"meta", "enable", "idle"}
  OBVIOUS
<1> QED
  BY <1>1, <1>4, <1>5, ReloginStep

LEMMA ResetAndEnableStep ==
    ASSUME LoginInv, CredsInv, NEW c \in Calls, L!ResetAndEnable(c)
    PROVE  CredsInv'
<1> DEFINE old == creds[L!Pos(TargetOf(c))]
           e == [old EXCEPT !.enabled = TRUE, !.odd = old.odd /\ old.meta # L!MetaOf(old.token)]
<1>1. /\ LoginShape /\ CredsOK /\ CallsOK /\ UNCHANGED login_overlapped
      /\ L!Relogin(c, "enable", "idle", e)
  BY DEF LoginInv, CredsInv, L!ResetAndEnable, L!Target, L!S, TargetOf
<1>2. login_call[c].pc = "enable"
  BY DEF L!ResetAndEnable, L!Relogin, L!At
<1>4. ASSUME NEW k \in DOMAIN creds, creds[k].id = TargetOf(c), k = L!Pos(TargetOf(c))
      PROVE  /\ e \in CredEntry /\ e.id = creds[k].id /\ (e.token \in Sessions => e.token \in issued)
             /\ Coherent =>
                  /\ EntryOK(e)
                  /\ \/ e.token = creds[k].token
                     \/ /\ \A j \in DOMAIN creds \ {k} : creds[j].token # e.token
                        /\ \A d \in Calls : L!Adding(d) => login_call[d].s # e.token
                  /\ "idle" = "meta" => e.token = login_call[c].s
                  /\ "idle" = "enable" /\ ~e.odd => e.meta = L!MetaOf(e.token)
  <2>1. creds[k] \in CredEntry /\ old = creds[k] /\ (creds[k].token \in Sessions => creds[k].token \in issued)
    BY <1>1, <1>4 DEF CredsOK
  <2>2. Coherent /\ ~creds[k].odd => creds[k].meta = L!MetaOf(creds[k].token)
    BY <1>2, <1>4 DEF Coherent, ChangesApart, Begun, HasStored
  <2>3. e = [creds[k] EXCEPT !.enabled = TRUE, !.odd = creds[k].odd /\ creds[k].meta # L!MetaOf(creds[k].token)]
    BY <2>1
  <2>4. /\ e \in CredEntry /\ e.id = creds[k].id /\ e.token = creds[k].token /\ e.meta = creds[k].meta
        /\ (~e.odd => ~creds[k].odd \/ creds[k].meta = L!MetaOf(creds[k].token))
    BY <2>1, <2>3 DEF CredEntry
  <2> HIDE DEF e, old
  <2> QED
    BY <2>1, <2>2, <2>4 DEF EntryOK
<1> HIDE DEF e
<1>5. "enable" \in {"token", "meta", "enable"} /\ "idle" \in {"meta", "enable", "idle"}
  OBVIOUS
<1> QED
  BY <1>1, <1>4, <1>5, ReloginStep

\* By hand: an entry is enabled whatever it has, which makes it odd, or disabled.
LEMMA SetDisabledStep ==
    ASSUME LoginInv, CredsInv, NEW k \in DOMAIN creds, NEW d \in BOOLEAN, L!SetDisabled(k, d)
    PROVE  CredsInv'
<1> DEFINE e == [creds[k] EXCEPT !.enabled = ~d, !.odd = creds[k].odd \/ ~d]
<1>1. /\ LoginShape /\ CredsOK /\ CallsOK /\ UNCHANGED <<session, issued, login_call, login_overlapped>>
      /\ creds' = [creds EXCEPT ![k] = e]
  BY DEF LoginInv, CredsInv, L!SetDisabled
<1>2. creds[k] \in CredEntry /\ (creds[k].token \in Sessions => creds[k].token \in issued)
  BY <1>1 DEF CredsOK
<1>3. /\ e \in CredEntry /\ e.id = creds[k].id /\ e.token = creds[k].token /\ e.meta = creds[k].meta
      /\ EntryOK(e) /\ (~e.odd => ~creds[k].odd)
  BY <1>2 DEF CredEntry, EntryOK
<1> HIDE DEF e
<1>4. CredsOK'
  BY <1>1, <1>2, <1>3, CredsReplaced
<1>5. CallsOK'
  BY <1>1 DEF CallsOK, Holds, Started
<1>6. ASSUME ~login_overlapped PROVE Coherent'
  <2>1. Coherent
    BY <1>6 DEF CredsInv
  <2>2. \A c \in Calls : TargetOf(c) = e.id =>
           /\ login_call[c].pc = "meta" => e.token = login_call[c].s
           /\ login_call[c].pc = "enable" /\ ~e.odd => e.meta = L!MetaOf(e.token)
    BY <1>3, <2>1 DEF Coherent, ChangesApart, HasStored, Begun
  <2> QED
    BY <1>1, <1>3, <2>1, <2>2, CoherentReplaced
<1> QED
  BY <1>1, <1>4, <1>5, <1>6 DEF CredsInv

LEMMA DeleteCredentialStep ==
    ASSUME LoginInv, CredsInv, NEW k \in DOMAIN creds, L!Delete(k)
    PROVE  CredsInv'
<1> DEFINE I == {j \in 1 .. Len(creds) : creds[j].id # creds[k].id}
<1>1. /\ LoginShape /\ CredsOK /\ CallsOK /\ UNCHANGED <<session, issued, login_call>>
      /\ creds' = Pick(creds, I)
  BY DEF LoginInv, CredsInv, L!Delete, L!Pick, Pick
<1>2. CredsOK'
  <2>1. creds' \in Seq(CredEntry) /\ ComesFrom(creds', creds, I, Len(creds))
    BY <1>1, PickEffect DEF CredsOK
  <2>2. DOMAIN creds' = 1 .. Len(creds') /\ DOMAIN creds = 1 .. Len(creds)
    BY <1>1, <2>1 DEF CredsOK
  <2> HIDE DEF I
  <2>3. \A j \in 1 .. Len(creds') : \E a \in (1 .. Len(creds)) \cap I : creds'[j] = creds[a]
    BY <2>1 DEF ComesFrom
  <2>4. \A j \in DOMAIN creds' : \E a \in DOMAIN creds : creds'[j] = creds[a]
    BY <2>2, <2>3
  <2> QED
    BY <1>1, <2>1, <2>4 DEF CredsOK
<1>3. CallsOK'
  BY <1>1 DEF CallsOK, Holds, Started
<1>4. ASSUME ~login_overlapped' PROVE Coherent'
  <2>1. Coherent
    BY <1>4 DEF L!Delete, CredsInv
  <2>2. \A c \in Calls : Begun(c) => TargetOf(c) # creds[k].id
    <3>1. \A c \in Calls : ~(L!Relogging(c) /\ L!S(c).target = creds[k].id)
      BY <1>4 DEF L!Delete
    <3> QED
      BY <3>1 DEF Begun, TargetOf, L!Relogging, L!S
  <2> QED
    BY <1>1, <2>1, <2>2, CoherentDeleted
<1> QED
  BY <1>2, <1>3, <1>4 DEF CredsInv

LEMMA InitCreds == L!Init /\ 0 \notin Sessions => CredsInv
<1> SUFFICES ASSUME L!Init, 0 \notin Sessions PROVE CredsInv
  OBVIOUS
<1>1. \A c \in Calls : login_call[c].pc = "idle"
  BY DEF L!Init, L!Idle
<1>2. issued = {}
  BY DEF L!Init
<1>3. CallsOK
  BY <1>1, <1>2 DEF CallsOK, Holds, Asking, Adds, Changes
<1> DEFINE e == [id |-> 1, token |-> 0, meta |-> {0}, enabled |-> TRUE, odd |-> FALSE]
<1>4. creds = <<e>> /\ e \in CredEntry /\ e.token = 0 /\ EntryOK(e)
  BY DEF L!Init, CredEntry, KnownTokens, EntryOK, L!MetaOf
<1> HIDE DEF e
<1>5. creds \in Seq(CredEntry) /\ DOMAIN creds = {1} /\ creds[1] = e
  BY <1>4
<1>6. CredsOK
  BY <1>4, <1>5 DEF CredsOK
<1>7. Distinct /\ EntriesOK
  BY <1>4, <1>5 DEF Distinct, EntriesOK
<1>8. AddsApart /\ ChangesApart
  BY <1>1 DEF AddsApart, NewTo, L!Adding, ChangesApart, Begun
<1> QED
  BY <1>3, <1>6, <1>7, <1>8 DEF CredsInv, Coherent

LEMMA CredsNext ==
    Imported \notin Sessions /\ LoginInv /\ KindsOK /\ CredsInv /\ [L!Next]_(L!vars) => CredsInv'
<1> SUFFICES ASSUME Imported \notin Sessions, LoginInv, KindsOK, CredsInv, [L!Next]_(L!vars) PROVE CredsInv'
  OBVIOUS
<1>1. Settled
  BY SettledNext DEF LoginInv
<1>2. CASE UNCHANGED L!vars
  BY <1>1, <1>2, AskingSteps DEF L!vars
<1>3. CASE \E s \in Sessions :
             \/ L!StartSocialLogin(s) \/ L!StartIdcLogin(s)
             \/ \E id \in L!Ids : L!StartSocialRelogin(s, id) \/ L!StartIdcRelogin(s, id)
             \/ L!Expire(s)
             \/ \E cb \in {"good", "forged", "closed"} : L!Callback(s, cb)
  BY <1>1, <1>3, SessionsAsk
     DEF L!StartSocialLogin, L!StartIdcLogin, L!StartSocialRelogin, L!StartIdcRelogin
<1>4. ASSUME NEW c \in Calls, L!Step(c) PROVE CredsInv'
  BY <1>1, <1>4, CallsAsk, ImportStep, IssueSteps, AddSteps, PushStep, SetDisabledFirstStep,
     UpdateRefreshTokenStep, UpdateAuthMetadataStep, ResetAndEnableStep DEF L!Step
<1>5. ASSUME NEW k \in 1 .. Len(creds), L!Delete(k) \/ \E d \in BOOLEAN : L!SetDisabled(k, d)
      PROVE  CredsInv'
  <2>1. k \in DOMAIN creds
    BY DEF CredsInv, CredsOK
  <2> QED
    BY <1>5, <2>1, DeleteCredentialStep, SetDisabledStep
<1> QED
  BY <1>2, <1>3, <1>4, <1>5 DEF L!Next

\* As long as additions do not overlap, nor two changes of one credential, the ids and the
\* tokens of the list are unique, and a credential that no hand enabled has the metadata of
\* its token, whatever login or write failed half way (add_credential, do_relogin_update).
THEOREM CoherentTheorem ==
    ASSUME 0 \notin Sessions, Imported \notin Sessions
    PROVE  L!Spec => []CredentialsCoherent
<1>1. CredsInv => CredentialsCoherent
  <2> SUFFICES ASSUME CredsInv, ~login_overlapped
               PROVE  \A k \in 1 .. Len(creds) :
                        /\ creds[k].enabled /\ ~creds[k].odd => creds[k].meta = L!MetaOf(creds[k].token)
                        /\ \A j \in 1 .. Len(creds) \ {k} :
                              creds[j].id # creds[k].id /\ creds[j].token # creds[k].token
    BY DEF CredentialsCoherent, L!CredentialsCoherent
  <2>1. DOMAIN creds = 1 .. Len(creds) /\ Distinct /\ EntriesOK
    BY DEF CredsInv, CredsOK, Coherent
  <2> QED
    BY <2>1 DEF Distinct, EntriesOK, EntryOK
<1>2. L!Init => LoginInv /\ KindsOK /\ CredsInv
  BY InitLogin, InitCreds DEF KindsOK, L!Init, L!NoSession
<1>3. LoginInv /\ KindsOK /\ CredsInv /\ [L!Next]_(L!vars) => LoginInv' /\ KindsOK' /\ CredsInv'
  <2>1. LoginInv /\ KindsOK /\ [L!Next]_(L!vars) => KindsOK'
    BY SettledNext DEF LoginInv, KindsOK, Settled
  <2> QED
    BY <2>1, LoginNext, CredsNext
<1> QED
  BY <1>1, <1>2, <1>3, PTL DEF L!Spec
=============================================================================
