----------------------------- MODULE ClientKeys -----------------------------
(***************************************************************************)
(* The keys handed out to clients (src/admin/client_keys.rs), the check    *)
(* every request passes (auth_middleware) and the totals a finished        *)
(* request adds to its key (UsageRecordHook::record).                      *)
(*                                                                         *)
(* Every operation of the manager is one critical section of its RwLock,   *)
(* the save included: a temporary file renamed over client_api_keys.json.  *)
(* A key's plaintext is a number; its hash is taken to be injective.  What *)
(* entries hold of it is "hmac", "sha256" of an older version, or, in a    *)
(* file of the first version, "plain".                                     *)
(***************************************************************************)
EXTENDS Naturals, FiniteSets, FiniteSetsExt

CONSTANTS
    MaxKeys,      \* bound of the model: keys ever created
    MaxAdmitted,  \* bound of the model: requests ever admitted
    MaxBoots      \* bound of the model: restarts of the process

VARIABLES
    keys,         \* Inner.entries: id -> [key, form, disabled, tokens]
    next_id,
    dirty_usage,
    keyFile,      \* client_api_keys.json, the same shape
    admitted,     \* requests being served: [n, key, id]
    made,         \* keys that exist or existed; key 0 is the master apiKey
    count,        \* requests admitted so far
    boots,
    revoked,      \* history: keys whose deletion reached the file
    unsaved       \* history: a write failed and none succeeded since

vars == <<keys, next_id, dirty_usage, keyFile, admitted, made, count, boots, revoked, unsaved>>

Fresh(k, form) == [key |-> k, form |-> form, disabled |-> FALSE, tokens |-> 0]

KeysOf(table) == {table[i].key : i \in DOMAIN table}

\* save_locked: dirty_usage is cleared whether the file was written or not.
Save(table) ==
    /\ \/ /\ keyFile' = table
          /\ unsaved' = FALSE
          /\ revoked' = revoked \cup ((1 .. made') \ KeysOf(table))
       \/ UNCHANGED <<keyFile, revoked>> /\ unsaved' = TRUE
    /\ dirty_usage' = FALSE

-----------------------------------------------------------------------------
(* The Admin API *)

\* Mutant: the id is computed from the keys that are left, as add_credential does.
CreateWithMaxId ==
    /\ made < MaxKeys
    /\ made' = made + 1
    /\ keys' = [i \in DOMAIN keys \cup {Max(DOMAIN keys \cup {0}) + 1} |->
                  IF i \in DOMAIN keys THEN keys[i] ELSE Fresh(made', "hmac")]
    /\ Save(keys')
    /\ UNCHANGED <<next_id, admitted, count, boots>>

Create ==
    /\ made < MaxKeys
    /\ made' = made + 1
    /\ keys' = [i \in DOMAIN keys \cup {next_id} |->
                  IF i = next_id THEN Fresh(made', "hmac") ELSE keys[i]]
    /\ next_id' = next_id + 1
    /\ Save(keys')
    /\ UNCHANGED <<admitted, count, boots>>

Delete(i) ==
    /\ keys' = [j \in DOMAIN keys \ {i} |-> keys[j]]
    /\ made' = made
    /\ Save(keys')
    /\ UNCHANGED <<next_id, admitted, count, boots>>

\* set_disabled, reset_stats, and update_meta, which changes only names.
Edit(i, entry) ==
    /\ keys' = [keys EXCEPT ![i] = entry]
    /\ made' = made
    /\ Save(keys')
    /\ UNCHANGED <<next_id, admitted, count, boots>>

SetDisabled(i, d) == Edit(i, [keys[i] EXCEPT !.disabled = d])
ResetStats(i) == Edit(i, [keys[i] EXCEPT !.tokens = 0])
UpdateMeta(i) == Edit(i, keys[i])

-----------------------------------------------------------------------------
(* Requests *)

Hits(k) == {i \in DOMAIN keys : ~keys[i].disabled /\ keys[i].key = k}

\* Mutant: disabled keys are not skipped.
VerifyIgnoringDisabled(k) ==
    \E i \in DOMAIN keys :
        /\ keys[i].key = k
        /\ admitted' = admitted \cup {[n |-> count, key |-> k, id |-> i]}
        /\ UNCHANGED <<keys, dirty_usage, keyFile, made, revoked, unsaved>>

\* verify_and_touch: every enabled entry is compared; a hash of the older form
\* is replaced and saved at once.  total_calls and last_used_at, which change
\* without marking anything dirty, are left out.
VerifyAndTouch(k) ==
    \E i \in Hits(k) :
        /\ admitted' = admitted \cup {[n |-> count, key |-> k, id |-> i]}
        /\ IF keys[i].form = "sha256"
           THEN keys' = [keys EXCEPT ![i].form = "hmac"] /\ made' = made /\ Save(keys')
           ELSE UNCHANGED <<keys, dirty_usage, keyFile, made, revoked, unsaved>>

\* auth_middleware: the master key first, then the client keys.
Admit(k) ==
    /\ count < MaxAdmitted
    /\ count' = count + 1
    /\ \/ /\ k = 0
          /\ admitted' = admitted \cup {[n |-> count, key |-> 0, id |-> 0]}
          /\ UNCHANGED <<keys, dirty_usage, keyFile, made, revoked, unsaved>>
       \/ k # 0 /\ VerifyAndTouch(k)
    /\ UNCHANGED <<next_id, boots>>

\* record_usage: a key deleted meanwhile gets nothing.
RecordUsage(i) ==
    /\ keys' = IF i \in DOMAIN keys THEN [keys EXCEPT ![i].tokens = @ + 1] ELSE keys
    /\ dirty_usage' = TRUE

\* UsageRecordHook::record; only successes with a client key are charged.
Finish(r, success) ==
    /\ admitted' = admitted \ {r}
    /\ IF success /\ r.id # 0 THEN RecordUsage(r.id) /\ UNCHANGED keyFile
       ELSE UNCHANGED <<keys, dirty_usage, keyFile>>
    /\ UNCHANGED <<next_id, made, count, boots, revoked, unsaved>>

\* The background task.
FlushToDisk ==
    /\ dirty_usage
    /\ made' = made
    /\ Save(keys)
    /\ UNCHANGED <<keys, next_id, admitted, count, boots>>

-----------------------------------------------------------------------------
\* Plaintext is hashed when the file is loaded, and the file is rewritten.
Loaded(file) ==
    [i \in DOMAIN file |-> IF file[i].form = "plain" THEN [file[i] EXCEPT !.form = "hmac"]
                           ELSE file[i]]

\* ClientKeyManager::load: ids go on from the largest one in the file.
Load(file) ==
    /\ keys' = Loaded(file)
    /\ next_id' = Max(DOMAIN file \cup {0}) + 1
    /\ made' = made
    /\ IF keys' # file THEN Save(keys') ELSE UNCHANGED <<keyFile, revoked, unsaved>> /\ dirty_usage' = FALSE

Restart ==
    /\ boots < MaxBoots
    /\ boots' = boots + 1
    /\ Load(keyFile)
    /\ admitted' = {}
    /\ UNCHANGED count

NoKeys == [i \in {} |-> Fresh(0, "hmac")]

\* A first start, or one with a file of an older version.
Init ==
    \E file \in {NoKeys} \cup {[i \in {1} |-> Fresh(1, form)] : form \in {"plain", "sha256", "hmac"}} :
        /\ keyFile = file
        /\ keys = Loaded(file)
        /\ next_id = Max(DOMAIN file \cup {0}) + 1
        /\ made = Cardinality(DOMAIN file)
        /\ dirty_usage = FALSE /\ admitted = {} /\ count = 0 /\ boots = 0
        /\ revoked = {} /\ unsaved = FALSE

Next ==
    \/ Create
    \/ \E i \in DOMAIN keys :
         \/ Delete(i) \/ ResetStats(i) \/ UpdateMeta(i)
         \/ \E d \in BOOLEAN : SetDisabled(i, d)
    \/ \E k \in 0 .. made : Admit(k)
    \/ \E r \in admitted, success \in BOOLEAN : Finish(r, success)
    \/ FlushToDisk
    \/ Restart

Spec == Init /\ [][Next]_vars
-----------------------------------------------------------------------------
\* A key that was deleted, and whose deletion was written, is never accepted
\* again, also not by a process started later; a key that is disabled is not
\* accepted while it is.  (verify_and_touch, delete, save_locked, load.)
OnlyLiveKeysAdmitted ==
    \A r \in admitted' \ admitted :
        /\ r.key \notin revoked
        /\ r.id # 0 => r.id \in DOMAIN keys /\ ~keys[r.id].disabled

\* A request that outlives its key is never charged to another one: an id stays
\* with its key as long as requests hold it.  And the totals survive: once
\* nothing is dirty and the last write succeeded, the file has them all.
TotalsTrue ==
    /\ \A r \in admitted : r.id \in DOMAIN keys => keys[r.id].key = r.key
    /\ ~dirty_usage /\ ~unsaved => Loaded(keyFile) = keys
=============================================================================
