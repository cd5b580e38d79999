------------------------------ MODULE ProxyPool ------------------------------
(***************************************************************************)
(* The pool of proxies an administrator keeps (src/admin/proxy_pool.rs):   *)
(* changes by hand, probes that run for seconds without the lock, and the  *)
(* file that every operation writes after it released the lock.            *)
(***************************************************************************)
EXTENDS Naturals, FiniteSets, FiniteSetsExt

CONSTANTS
    Urls,              \* proxy URLs that pass validate_proxy_url
    MaxProbeFailures,  \* MAX_PROXY_PROBE_FAILURES
    MaxAdds,           \* bound of the model: proxies ever added
    Checks,            \* running calls of check_all and check_one
    MaxUnsaved,        \* bound of the model: operations between change and persist
    MaxBoots           \* bound of the model: restarts of the process

VARIABLES
    pool,      \* entries: id -> [url, enabled, fails, auto, wanted]
    next_id,
    poolFile,  \* the file: a pool, or NoPool when it is absent or unreadable
    checks,    \* what each check probes: [one, targets], targets a set of [id, url]
    unsaved,   \* operations that changed the pool and have yet to call persist
    behind,    \* history: the last write of the file failed
    boots

vars == <<pool, next_id, poolFile, checks, unsaved, behind, boots>>

\* wanted is a history field: FALSE when the last change by hand disabled it.
Fresh(u) ==
    [url |-> u, enabled |-> TRUE, fails |-> 0, auto |-> FALSE, wanted |-> TRUE]

NoPool == [i \in {} |-> Fresh("")]
UrlsIn(p) == {p[i].url : i \in DOMAIN p}

\* The lock is released here; persist takes it again and writes what is there.
Changed(p) ==
    /\ unsaved < MaxUnsaved
    /\ pool' = p
    /\ unsaved' = unsaved + 1
    /\ UNCHANGED <<poolFile, behind, boots>>

-----------------------------------------------------------------------------
\* Mutant: the id is the largest one in use plus one.
AddWithMaxId(u) ==
    /\ u \notin UrlsIn(pool)
    /\ next_id <= MaxAdds
    /\ next_id' = next_id + 1
    /\ Changed([i \in DOMAIN pool \cup {Max(DOMAIN pool \cup {0}) + 1} |->
                  IF i \in DOMAIN pool THEN pool[i] ELSE Fresh(u)])
    /\ UNCHANGED checks

\* add, and one URL of batch_add, which takes several and persists once.
Add(u) ==
    /\ u \notin UrlsIn(pool)
    /\ next_id <= MaxAdds
    /\ next_id' = next_id + 1
    /\ Changed([i \in DOMAIN pool \cup {next_id} |-> IF i = next_id THEN Fresh(u) ELSE pool[i]])
    /\ UNCHANGED checks

Delete(i) ==
    /\ Changed([j \in DOMAIN pool \ {i} |-> pool[j]])
    /\ UNCHANGED <<next_id, checks>>

\* set_enabled: enabling forgets what the probes said.
Enabled(entry, enabled) ==
    IF enabled THEN [entry EXCEPT !.enabled = TRUE, !.auto = FALSE, !.fails = 0, !.wanted = TRUE]
    ELSE [entry EXCEPT !.enabled = FALSE, !.wanted = FALSE]

SetEnabled(i, enabled) ==
    /\ Changed([pool EXCEPT ![i] = Enabled(@, enabled)])
    /\ UNCHANGED <<next_id, checks>>

\* persist: fs::write, which may fail and then leaves the file as it was; bound of
\* the model: no two writes in a row fail.
Persist ==
    /\ unsaved > 0
    /\ unsaved' = unsaved - 1
    /\ \/ poolFile' = pool /\ behind' = FALSE
       \/ ~behind /\ behind' = TRUE /\ UNCHANGED poolFile
    /\ UNCHANGED <<pool, next_id, checks, boots>>

-----------------------------------------------------------------------------
(* Health checks *)

NoCheck == [one |-> FALSE, targets |-> {}]

\* The targets are copied; the probes then run without the lock.
Check(c, one, ids) ==
    /\ checks[c] = NoCheck /\ ids # {}
    /\ checks' = [checks EXCEPT ![c] =
                    [one |-> one, targets |-> {[id |-> i, url |-> pool[i].url] : i \in ids}]]
    /\ UNCHANGED <<pool, next_id, poolFile, unsaved, behind, boots>>

\* check_all: every proxy that is enabled now; check_one: any.
CheckAll(c) == Check(c, FALSE, {i \in DOMAIN pool : pool[i].enabled})
CheckOne(c, i) == Check(c, TRUE, {i})

\* The count stops at the limit in the model; the code counts on.
Failed(entry) ==
    LET n == IF entry.fails < MaxProbeFailures THEN entry.fails + 1 ELSE entry.fails
        e == [entry EXCEPT !.fails = n]
    IN  IF n >= MaxProbeFailures /\ e.enabled
        THEN [e EXCEPT !.enabled = FALSE, !.auto = TRUE] ELSE e

\* apply_probe_result; health and latency, which only the lists show, are left out.
ApplyProbeResult(entry, ok) ==
    IF ok THEN [entry EXCEPT !.fails = 0] ELSE Failed(entry)

\* The answers of one check are stored together, by id.  check_one ends with an
\* error, and without persist, when its proxy was deleted meanwhile.
CheckDone(c, oks) ==
    LET ids == {t.id : t \in checks[c].targets}
    IN  /\ ids # {}
        /\ checks' = [checks EXCEPT ![c] = NoCheck]
        /\ IF checks[c].one /\ ids \cap DOMAIN pool = {}
           THEN UNCHANGED <<pool, unsaved, poolFile, behind, boots>>
           ELSE Changed([i \in DOMAIN pool |->
                           IF i \in ids THEN ApplyProbeResult(pool[i], i \in oks) ELSE pool[i]])
        /\ UNCHANGED next_id

-----------------------------------------------------------------------------
\* ProxyPoolManager::new; the process may have died inside a write.
Restart ==
    /\ boots < MaxBoots
    /\ boots' = boots + 1
    /\ poolFile' \in {poolFile} \cup (IF unsaved > 0 THEN {NoPool} ELSE {})
    /\ pool' = poolFile'
    /\ next_id' = Max(DOMAIN poolFile' \cup {0}) + 1
    /\ checks' = [c \in Checks |-> NoCheck] /\ unsaved' = 0 /\ behind' = FALSE

Init ==
    /\ pool = NoPool /\ next_id = 1 /\ poolFile = NoPool
    /\ checks = [c \in Checks |-> NoCheck] /\ unsaved = 0 /\ behind = FALSE /\ boots = 0

Next ==
    \/ \E u \in Urls : Add(u)
    \/ \E i \in DOMAIN pool : Delete(i) \/ \E e \in BOOLEAN : SetEnabled(i, e)
    \/ Persist
    \/ \E c \in Checks :
         \/ CheckAll(c)
         \/ \E i \in DOMAIN pool : CheckOne(c, i)
         \/ \E oks \in SUBSET {t.id : t \in checks[c].targets} : CheckDone(c, oks)
    \/ Restart

Spec == Init /\ [][Next]_vars
-----------------------------------------------------------------------------
\* Probes that run while the pool is changed by hand do no harm.  An answer reaches
\* only the proxy it was sent through: an id is not given to another URL under it,
\* and no URL is in the pool twice.  A proxy disabled by hand is never in use,
\* whatever answers come late; one in use is below the limit of failures and not
\* marked; one that is wanted and not in use is marked auto_disabled.  And once
\* every operation has called persist, the file has the pool.
\* (check_all, check_one, apply_probe_result, set_enabled, add, batch_add, persist.)
ProbesKeepToTheirProxy ==
    /\ \A c \in Checks : \A t \in checks[c].targets : t.id \in DOMAIN pool => pool[t.id].url = t.url
    /\ Cardinality(UrlsIn(pool)) = Cardinality(DOMAIN pool)
    /\ \A i \in DOMAIN pool :
         /\ pool[i].enabled => pool[i].wanted /\ ~pool[i].auto /\ pool[i].fails < MaxProbeFailures
         /\ ~pool[i].enabled /\ pool[i].wanted => pool[i].auto
    /\ unsaved = 0 /\ ~behind => poolFile = pool
=============================================================================
