-------------------------- MODULE ClientKeysProofs --------------------------
(***************************************************************************)
(* Proofs about ClientKeys, for any number of keys, requests and restarts: *)
(* no request is charged to a key it did not use, what is clean is on the  *)
(* disk, and a key whose deletion was written is never accepted again.     *)
(***************************************************************************)
EXTENDS ClientKeys, FiniteSetTheorems, WellFoundedInduction, TLAPS

\* What verify_and_touch promises of every step.
RevokedRefused == [][OnlyLiveKeysAdmitted]_vars

Forms == {"hmac", "sha256"}

Entry(forms) == [key : Nat, form : forms, disabled : BOOLEAN, tokens : Nat]

\* A table of keys: ids are numbers below the next one to be given.
IsTable(t, forms, n) ==
    /\ t = [i \in DOMAIN t |-> t[i]]
    /\ \A i \in DOMAIN t : i \in Nat /\ 0 < i /\ i < n
    /\ \A i \in DOMAIN t : t[i] \in Entry(forms)

\* Requests belong to ids that have been given, and to no other key.
Owns(r) ==
    /\ r.id \in Nat
    /\ r.id < next_id
    /\ r.id \in DOMAIN keys => keys[r.id].key = r.key

KeysInv ==
    /\ next_id \in Nat /\ 0 < next_id
    /\ made \in Nat
    /\ IsTable(keys, Forms, next_id)
    /\ IsTable(keyFile, Forms \cup {"plain"}, next_id)
    /\ \A r \in admitted : Owns(r)
    /\ revoked \subseteq 1 .. made
    /\ KeysOf(keys) \cap revoked = {}
    /\ KeysOf(keyFile) \cap revoked = {}
    /\ ~dirty_usage /\ ~unsaved => Loaded(keyFile) = keys

-----------------------------------------------------------------------------
(* Tables *)

LEMMA MaxOfBounded ==
    ASSUME NEW S, S \subseteq Nat, S # {}, NEW n \in Nat, \A x \in S : x <= n
    PROVE  Max(S) \in S /\ \A y \in S : y <= Max(S)
<1> DEFINE T == {n - x : x \in S}
           R == {ss \in Nat \X Nat : ss[1] < ss[2]}
<1>1. T \subseteq Nat
  OBVIOUS
<1>2. T # {}
  OBVIOUS
<1>3. IsWellFoundedOn(R, Nat)
  BY NatLessThanWellFounded DEF OpToRel
<1>4. PICK t \in T : \A y \in T : <<y, t>> \notin R
  <2> HIDE DEF T, R
  <2> QED
    BY <1>1, <1>2, <1>3, WFMin
<1>5. ASSUME NEW y \in T PROVE t <= y
  <2>1. <<y, t>> \notin R /\ y \in Nat /\ t \in Nat
    BY <1>1, <1>4
  <2>2. ~(y < t)
    BY <2>1
  <2> QED
    BY <2>1, <2>2
<1>6. PICK m \in S : t = n - m
  OBVIOUS
<1>7. \A y \in S : m >= y
  BY <1>5, <1>6
<1> QED
  BY <1>7 DEF Max

\* Loading changes nothing of a table without plaintext.
LEMMA LoadedTable ==
    ASSUME NEW t, NEW n, IsTable(t, Forms, n)
    PROVE  Loaded(t) = t
BY DEF IsTable, Loaded, Entry, Forms

LEMMA LoadedOfFile ==
    ASSUME NEW t, NEW n, IsTable(t, Forms \cup {"plain"}, n)
    PROVE  IsTable(Loaded(t), Forms, n) /\ KeysOf(Loaded(t)) = KeysOf(t) /\ DOMAIN Loaded(t) = DOMAIN t
<1>1. DOMAIN Loaded(t) = DOMAIN t
  BY DEF Loaded
<1>2. ASSUME NEW i \in DOMAIN t PROVE Loaded(t)[i] \in Entry(Forms) /\ Loaded(t)[i].key = t[i].key
  BY DEF IsTable, Loaded, Entry, Forms
<1>3. IsTable(Loaded(t), Forms, n)
  BY <1>1, <1>2 DEF IsTable, Loaded
<1>4. KeysOf(Loaded(t)) = KeysOf(t)
  BY <1>1, <1>2 DEF KeysOf
<1> QED
  BY <1>1, <1>3, <1>4

LEMMA TableWiden ==
    ASSUME NEW t, NEW n \in Nat, NEW m \in Nat, n <= m, IsTable(t, Forms, n)
    PROVE  IsTable(t, Forms, m) /\ IsTable(t, Forms \cup {"plain"}, m)
<1>1. \A i \in DOMAIN t : i \in Nat /\ 0 < i /\ i < m
  BY DEF IsTable
<1>2. \A i \in DOMAIN t : t[i] \in Entry(Forms) /\ t[i] \in Entry(Forms \cup {"plain"})
  BY DEF IsTable, Entry, Forms
<1> QED
  BY <1>1, <1>2 DEF IsTable

LEMMA TableGrows ==
    ASSUME NEW t, NEW forms, NEW n \in Nat, NEW m \in Nat, n <= m, IsTable(t, forms, n)
    PROVE  IsTable(t, forms, m)
BY DEF IsTable

\* What a save that may fail preserves, when the table it writes is sound.
LEMMA SaveInv ==
    ASSUME KeysInv, made' \in Nat, next_id' \in Nat, next_id <= next_id', made <= made',
           IsTable(keys', Forms, next_id'), KeysOf(keys') \cap revoked = {},
           Save(keys')
    PROVE  /\ IsTable(keyFile', Forms \cup {"plain"}, next_id')
           /\ revoked' \subseteq 1 .. made'
           /\ KeysOf(keys') \cap revoked' = {}
           /\ KeysOf(keyFile') \cap revoked' = {}
           /\ ~dirty_usage' /\ ~unsaved' => Loaded(keyFile') = keys'
<1>0. revoked \subseteq 1 .. made'
  <2>1. 1 .. made \subseteq 1 .. made'
    BY DEF KeysInv
  <2> QED
    BY <2>1 DEF KeysInv
<1>1. CASE keyFile' = keys' /\ revoked' = revoked \cup ((1 .. made') \ KeysOf(keys'))
  <2>1. IsTable(keyFile', Forms \cup {"plain"}, next_id') /\ Loaded(keyFile') = keys'
    <3>1. next_id' <= next_id'
      OBVIOUS
    <3>2. IsTable(keys', Forms \cup {"plain"}, next_id')
      BY <3>1, TableWiden
    <3>3. Loaded(keys') = keys'
      BY LoadedTable
    <3> QED
      BY <1>1, <3>2, <3>3
  <2>2. revoked' \subseteq 1 .. made'
    BY <1>0, <1>1
  <2> QED
    BY <1>1, <2>1, <2>2
<1>2. CASE UNCHANGED <<keyFile, revoked>> /\ unsaved' = TRUE
  <2>1. IsTable(keyFile', Forms \cup {"plain"}, next_id')
    BY <1>2, TableGrows DEF KeysInv
  <2>2. revoked' \subseteq 1 .. made'
    BY <1>0, <1>2
  <2> QED
    BY <1>2, <2>1, <2>2 DEF KeysInv
<1> QED
  BY <1>1, <1>2 DEF Save

-----------------------------------------------------------------------------
(* The steps *)

\* What every step but Load and Finish has to show of the new table.
LEMMA SavingStep ==
    ASSUME KeysInv, made' \in Nat, made <= made', next_id' \in Nat, next_id <= next_id',
           IsTable(keys', Forms, next_id'), KeysOf(keys') \cap revoked = {}, Save(keys'),
           \A r \in admitted' : Owns(r)'
    PROVE  KeysInv'
<1>1. 0 < next_id'
  BY DEF KeysInv
<1> QED
  BY <1>1, SaveInv DEF KeysInv

LEMMA CreateStep ==
    ASSUME KeysInv, Create
    PROVE  KeysInv'
<1>1. made' = made + 1 /\ next_id' = next_id + 1 /\ admitted' = admitted /\ Save(keys')
  BY DEF Create
<1>2. next_id \notin DOMAIN keys
  BY DEF KeysInv, IsTable
<1>3. keys' = [i \in DOMAIN keys \cup {next_id} |-> IF i = next_id THEN Fresh(made', "hmac") ELSE keys[i]]
  BY DEF Create
<1>4. Fresh(made', "hmac") \in Entry(Forms) /\ Fresh(made', "hmac").key = made'
  BY <1>1 DEF KeysInv, Fresh, Entry, Forms
<1>5. IsTable(keys', Forms, next_id')
  BY <1>1, <1>3, <1>4 DEF KeysInv, IsTable
<1>6. KeysOf(keys') \subseteq KeysOf(keys) \cup {made'}
  BY <1>3, <1>4 DEF KeysOf
<1>7. made' \notin revoked
  BY <1>1 DEF KeysInv
<1>8. KeysOf(keys') \cap revoked = {}
  BY <1>6, <1>7 DEF KeysInv
<1>9. \A r \in admitted' : Owns(r)'
  BY <1>1, <1>3 DEF KeysInv, Owns
<1>10. made' \in Nat /\ made <= made' /\ next_id' \in Nat /\ next_id <= next_id'
  BY <1>1 DEF KeysInv
<1> QED
  BY <1>1, <1>5, <1>8, <1>9, <1>10, SavingStep

LEMMA DeleteStep ==
    ASSUME KeysInv, NEW i \in DOMAIN keys, Delete(i)
    PROVE  KeysInv'
<1>1. made' = made /\ next_id' = next_id /\ admitted' = admitted /\ Save(keys')
  BY DEF Delete
<1>2. keys' = [j \in DOMAIN keys \ {i} |-> keys[j]]
  BY DEF Delete
<1>3. IsTable(keys', Forms, next_id')
  BY <1>1, <1>2 DEF KeysInv, IsTable
<1>4. KeysOf(keys') \cap revoked = {}
  BY <1>2 DEF KeysInv, KeysOf
<1>5. \A r \in admitted' : Owns(r)'
  BY <1>1, <1>2 DEF KeysInv, Owns
<1>6. made' \in Nat /\ made <= made' /\ next_id' \in Nat /\ next_id <= next_id'
  BY <1>1 DEF KeysInv
<1> QED
  BY <1>1, <1>3, <1>4, <1>5, <1>6, SavingStep

\* One entry is changed, and keeps its key.
LEMMA EntryChange ==
    ASSUME KeysInv, NEW i \in DOMAIN keys, NEW e \in Entry(Forms), e.key = keys[i].key,
           keys' = [keys EXCEPT ![i] = e], next_id' = next_id
    PROVE  /\ IsTable(keys', Forms, next_id')
           /\ KeysOf(keys') = KeysOf(keys)
           /\ \A r : Owns(r) => Owns(r)'
<1>1. DOMAIN keys' = DOMAIN keys /\ \A j \in DOMAIN keys : keys'[j] = IF j = i THEN e ELSE keys[j]
  BY DEF KeysInv, IsTable
<1>2. \A j \in DOMAIN keys : keys'[j].key = keys[j].key
  BY <1>1
<1>3. IsTable(keys', Forms, next_id')
  BY <1>1 DEF KeysInv, IsTable
<1>4. KeysOf(keys') = KeysOf(keys)
  BY <1>1, <1>2 DEF KeysOf
<1>5. \A r : Owns(r) => Owns(r)'
  BY <1>1, <1>2 DEF Owns
<1> QED
  BY <1>3, <1>4, <1>5

LEMMA EditStep ==
    ASSUME KeysInv, NEW i \in DOMAIN keys, NEW e \in Entry(Forms), e.key = keys[i].key, Edit(i, e)
    PROVE  KeysInv'
<1>1. /\ made' = made /\ next_id' = next_id /\ admitted' = admitted /\ Save(keys')
      /\ keys' = [keys EXCEPT ![i] = e]
  BY DEF Edit
<1>2. /\ IsTable(keys', Forms, next_id')
      /\ KeysOf(keys') = KeysOf(keys)
      /\ \A r : Owns(r) => Owns(r)'
  BY <1>1, EntryChange
<1>3. KeysOf(keys') \cap revoked = {} /\ \A r \in admitted' : Owns(r)'
  BY <1>1, <1>2 DEF KeysInv
<1>4. made' \in Nat /\ made <= made' /\ next_id' \in Nat /\ next_id <= next_id'
  BY <1>1 DEF KeysInv
<1> QED
  BY <1>1, <1>2, <1>3, <1>4, SavingStep

LEMMA AdminStep ==
    ASSUME KeysInv, NEW i \in DOMAIN keys,
           \/ ResetStats(i) \/ UpdateMeta(i)
           \/ \E d \in BOOLEAN : SetDisabled(i, d)
    PROVE  KeysInv'
<1>1. keys[i] \in Entry(Forms)
  BY DEF KeysInv, IsTable
<1>2. CASE ResetStats(i)
  <2>1. [keys[i] EXCEPT !.tokens = 0] \in Entry(Forms) /\ [keys[i] EXCEPT !.tokens = 0].key = keys[i].key
    BY <1>1 DEF Entry
  <2> QED
    BY <1>2, <2>1, EditStep DEF ResetStats
<1>3. CASE UpdateMeta(i)
  BY <1>1, <1>3, EditStep DEF UpdateMeta
<1>4. ASSUME NEW d \in BOOLEAN, SetDisabled(i, d) PROVE KeysInv'
  <2>1. [keys[i] EXCEPT !.disabled = d] \in Entry(Forms) /\ [keys[i] EXCEPT !.disabled = d].key = keys[i].key
    BY <1>1 DEF Entry
  <2> QED
    BY <1>4, <2>1, EditStep DEF SetDisabled
<1> QED
  BY <1>2, <1>3, <1>4

LEMMA AdmitStep ==
    ASSUME KeysInv, NEW k \in 0 .. made, Admit(k)
    PROVE  KeysInv'
<1>1. next_id' = next_id
  BY DEF Admit
<1>2. CASE k = 0 /\ admitted' = admitted \cup {[n |-> count, key |-> 0, id |-> 0]}
           /\ UNCHANGED <<keys, dirty_usage, keyFile, made, revoked, unsaved>>
  <2>1. \A r \in admitted' : Owns(r)'
    BY <1>1, <1>2 DEF KeysInv, Owns, IsTable
  <2> QED
    BY <1>1, <1>2, <2>1 DEF KeysInv
<1>3. ASSUME NEW i \in Hits(k), admitted' = admitted \cup {[n |-> count, key |-> k, id |-> i]},
             IF keys[i].form = "sha256"
             THEN keys' = [keys EXCEPT ![i].form = "hmac"] /\ made' = made /\ Save(keys')
             ELSE UNCHANGED <<keys, dirty_usage, keyFile, made, revoked, unsaved>>
      PROVE  KeysInv'
  <2> DEFINE new == [n |-> count, key |-> k, id |-> i]
  <2>1. i \in DOMAIN keys /\ keys[i].key = k
    BY DEF Hits
  <2>2. Owns(new)
    BY <2>1 DEF KeysInv, IsTable, Owns
  <2>3. CASE keys[i].form = "sha256"
    <3> DEFINE e == [keys[i] EXCEPT !.form = "hmac"]
    <3>1. keys[i] \in Entry(Forms)
      BY <2>1 DEF KeysInv, IsTable
    <3>2. e \in Entry(Forms) /\ e.key = keys[i].key
      BY <3>1 DEF Entry, Forms
    <3>3. keys' = [keys EXCEPT ![i] = e] /\ made' = made /\ Save(keys')
      BY <1>3, <2>3
    <3> HIDE DEF e
    <3>4. /\ IsTable(keys', Forms, next_id')
          /\ KeysOf(keys') = KeysOf(keys)
          /\ \A r : Owns(r) => Owns(r)'
      BY <1>1, <2>1, <3>2, <3>3, EntryChange
    <3>5. \A r \in admitted' : Owns(r)'
      BY <1>3, <2>2, <3>4 DEF KeysInv
    <3>6. KeysOf(keys') \cap revoked = {}
      BY <3>4 DEF KeysInv
    <3>7. made' \in Nat /\ made <= made' /\ next_id' \in Nat /\ next_id <= next_id'
      BY <1>1, <3>3 DEF KeysInv
    <3> QED
      BY <3>3, <3>4, <3>5, <3>6, <3>7, SavingStep
  <2>4. CASE keys[i].form # "sha256"
    <3>1. UNCHANGED <<keys, dirty_usage, keyFile, made, revoked, unsaved>>
      BY <1>3, <2>4
    <3>2. \A r \in admitted' : Owns(r)'
      BY <1>1, <1>3, <2>2, <3>1 DEF KeysInv, Owns
    <3> QED
      BY <1>1, <3>1, <3>2 DEF KeysInv
  <2> QED
    BY <2>3, <2>4
<1> QED
  BY <1>2, <1>3 DEF Admit, VerifyAndTouch

LEMMA FinishStep ==
    ASSUME KeysInv, NEW r \in admitted, NEW success \in BOOLEAN, Finish(r, success)
    PROVE  KeysInv'
<1>1. /\ UNCHANGED <<next_id, made, revoked, unsaved, keyFile>>
      /\ admitted' \subseteq admitted
  BY DEF Finish
<1>2. CASE UNCHANGED <<keys, dirty_usage>>
  BY <1>1, <1>2 DEF KeysInv, Owns
<1>3. CASE RecordUsage(r.id)
  <2>1. CASE r.id \notin DOMAIN keys
    BY <1>1, <1>3, <2>1 DEF RecordUsage, KeysInv, Owns
  <2>2. CASE r.id \in DOMAIN keys
    <3> DEFINE i == r.id
               e == [keys[i] EXCEPT !.tokens = keys[i].tokens + 1]
    <3>1. keys[i] \in Entry(Forms)
      BY <2>2 DEF KeysInv, IsTable
    <3>2. e \in Entry(Forms) /\ e.key = keys[i].key
      BY <3>1 DEF Entry
    <3>3. keys' = [keys EXCEPT ![i] = e] /\ dirty_usage' = TRUE
      BY <1>3, <2>2 DEF RecordUsage
    <3> HIDE DEF e
    <3>4. /\ IsTable(keys', Forms, next_id')
          /\ KeysOf(keys') = KeysOf(keys)
          /\ \A q : Owns(q) => Owns(q)'
      BY <1>1, <2>2, <3>2, <3>3, EntryChange
    <3>5. \A q \in admitted' : Owns(q)'
      BY <1>1, <3>4 DEF KeysInv
    <3> QED
      BY <1>1, <3>3, <3>4, <3>5 DEF KeysInv
  <2> QED
    BY <2>1, <2>2
<1> QED
  BY <1>2, <1>3 DEF Finish

LEMMA FlushStep ==
    ASSUME KeysInv, FlushToDisk
    PROVE  KeysInv'
<1>1. /\ keys' = keys /\ next_id' = next_id /\ admitted' = admitted /\ made' = made
      /\ Save(keys')
  BY DEF FlushToDisk, Save
<1>2. made' \in Nat /\ made <= made' /\ next_id' \in Nat /\ next_id <= next_id'
  BY <1>1 DEF KeysInv
<1>3. IsTable(keys', Forms, next_id') /\ KeysOf(keys') \cap revoked = {}
  BY <1>1 DEF KeysInv
<1>4. \A r \in admitted' : Owns(r)'
  BY <1>1 DEF KeysInv, Owns
<1> QED
  BY <1>1, <1>2, <1>3, <1>4, SavingStep

\* load: ids go on behind the largest one of the file, which may be below the
\* ids given before; no request of the old process is left to hold one of them.
LEMMA NextIdOfFile ==
    ASSUME NEW file, NEW forms, NEW n \in Nat, IsTable(file, forms, n)
    PROVE  LET m == Max(DOMAIN file \cup {0}) + 1
           IN  m \in Nat /\ 0 < m /\ IsTable(file, forms, m)
<1> DEFINE S == DOMAIN file \cup {0}
<1>1. S \subseteq Nat /\ S # {} /\ \A x \in S : x <= n
  BY DEF IsTable
<1>2. Max(S) \in S /\ \A y \in S : y <= Max(S)
  BY <1>1, MaxOfBounded
<1>3. Max(S) \in Nat
  BY <1>1, <1>2
<1>4. \A i \in DOMAIN file : i < Max(S) + 1
  BY <1>1, <1>2, <1>3
<1> HIDE DEF S
<1>5. IsTable(file, forms, Max(S) + 1)
  BY <1>4 DEF IsTable
<1> QED
  BY <1>3, <1>5 DEF S

LEMMA RestartStep ==
    ASSUME KeysInv, Restart
    PROVE  KeysInv'
<1>1. /\ keys' = Loaded(keyFile) /\ made' = made /\ admitted' = {}
      /\ next_id' = Max(DOMAIN keyFile \cup {0}) + 1
  BY DEF Restart, Load
<1>2. next_id' \in Nat /\ 0 < next_id' /\ IsTable(keyFile, Forms \cup {"plain"}, next_id')
  BY <1>1, NextIdOfFile DEF KeysInv
<1>3. IsTable(keys', Forms, next_id') /\ KeysOf(keys') = KeysOf(keyFile)
  BY <1>1, <1>2, LoadedOfFile
<1>4. KeysOf(keys') \cap revoked = {}
  BY <1>3 DEF KeysInv
<1>5. CASE Save(keys')
  <2>1. CASE UNCHANGED <<keyFile, revoked>> /\ unsaved' = TRUE
    BY <1>1, <1>2, <1>3, <1>4, <2>1 DEF KeysInv
  <2>2. CASE keyFile' = keys' /\ revoked' = revoked \cup ((1 .. made') \ KeysOf(keys'))
    <3>1. next_id' <= next_id'
      BY <1>2
    <3>2. IsTable(keyFile', Forms \cup {"plain"}, next_id') /\ Loaded(keyFile') = keys'
      BY <1>2, <1>3, <2>2, <3>1, TableWiden, LoadedTable
    <3>3. revoked' \subseteq 1 .. made' /\ KeysOf(keys') \cap revoked' = {}
      BY <1>1, <1>4, <2>2 DEF KeysInv
    <3> QED
      BY <1>1, <1>2, <1>3, <2>2, <3>2, <3>3 DEF KeysInv
  <2> QED
    BY <1>5, <2>1, <2>2 DEF Save
<1>6. CASE UNCHANGED <<keyFile, revoked, unsaved>>
  BY <1>1, <1>2, <1>3, <1>4, <1>6 DEF KeysInv
<1> QED
  BY <1>5, <1>6 DEF Restart, Load

LEMMA InitKeys == Init => KeysInv
<1> SUFFICES ASSUME Init PROVE KeysInv
  OBVIOUS
<1>1. PICK file \in {NoKeys} \cup {[i \in {1} |-> Fresh(1, form)] : form \in {"plain", "sha256", "hmac"}} :
        /\ keyFile = file
        /\ keys = Loaded(file)
        /\ next_id = Max(DOMAIN file \cup {0}) + 1
        /\ made = Cardinality(DOMAIN file)
        /\ dirty_usage = FALSE /\ admitted = {} /\ count = 0 /\ boots = 0
        /\ revoked = {} /\ unsaved = FALSE
  BY DEF Init
<1>2. IsTable(file, Forms \cup {"plain"}, 2)
  <2>1. CASE file = NoKeys
    BY <2>1 DEF NoKeys, IsTable
  <2>2. ASSUME NEW form \in {"plain", "sha256", "hmac"}, file = [i \in {1} |-> Fresh(1, form)]
        PROVE  IsTable(file, Forms \cup {"plain"}, 2)
    <3>1. Fresh(1, form) \in Entry(Forms \cup {"plain"})
      BY DEF Fresh, Entry, Forms
    <3> QED
      BY <2>2, <3>1 DEF IsTable
  <2> QED
    BY <2>1, <2>2
<1>3. made \in Nat
  <2>1. IsFiniteSet(DOMAIN file)
    <3>1. DOMAIN file = {} \/ DOMAIN file = {1}
      BY DEF NoKeys
    <3> QED
      BY <3>1, FS_EmptySet, FS_Singleton
  <2> QED
    BY <1>1, <2>1, FS_CardinalityType
<1>4. next_id \in Nat /\ 0 < next_id /\ IsTable(keyFile, Forms \cup {"plain"}, next_id)
  BY <1>1, <1>2, NextIdOfFile
<1>5. IsTable(keys, Forms, next_id)
  BY <1>1, <1>4, LoadedOfFile
<1> QED
  BY <1>1, <1>3, <1>4, <1>5 DEF KeysInv

LEMMA NextKeys == KeysInv /\ [Next]_vars => KeysInv'
<1> SUFFICES ASSUME KeysInv, [Next]_vars PROVE KeysInv'
  OBVIOUS
<1>1. CASE UNCHANGED vars
  BY <1>1 DEF vars, KeysInv, Owns
<1> QED
  BY <1>1, CreateStep, DeleteStep, AdminStep, AdmitStep, FinishStep, FlushStep, RestartStep DEF Next

LEMMA KeysInvariant == Spec => []KeysInv
BY InitKeys, NextKeys, PTL DEF Spec

\* No request is charged to a key it did not use, although ids are reused after a
\* restart, and what is clean and was saved is in the file (record_usage, load,
\* flush_to_disk and save_locked of ClientKeyManager).
THEOREM TotalsTheorem == Spec => []TotalsTrue
<1>1. KeysInv => TotalsTrue
  BY DEF KeysInv, Owns, TotalsTrue
<1> QED
  BY <1>1, KeysInvariant, PTL

\* A key that was deleted, and whose deletion was written, is never accepted again, also
\* not after a restart; a disabled one is not accepted while it is (verify_and_touch).
THEOREM RevokedTheorem == Spec => RevokedRefused
<1>1. KeysInv /\ [Next]_vars => [OnlyLiveKeysAdmitted]_vars
  <2> SUFFICES ASSUME KeysInv, Next, NEW r \in admitted' \ admitted
               PROVE  /\ r.key \notin revoked
                      /\ r.id # 0 => r.id \in DOMAIN keys /\ ~keys[r.id].disabled
    BY DEF OnlyLiveKeysAdmitted
  <2>1. PICK k \in 0 .. made : Admit(k)
    BY DEF Next, Create, Delete, ResetStats, UpdateMeta, SetDisabled, Edit, Finish, FlushToDisk, Restart
  <2>2. CASE k = 0 /\ r.key = 0 /\ r.id = 0
    BY <2>2 DEF KeysInv
  <2>3. ASSUME NEW i \in Hits(k), r = [n |-> count, key |-> k, id |-> i]
        PROVE  /\ r.key \notin revoked
               /\ r.id # 0 => r.id \in DOMAIN keys /\ ~keys[r.id].disabled
    <3>1. i \in DOMAIN keys /\ ~keys[i].disabled /\ keys[i].key = k
      BY DEF Hits
    <3>2. k \in KeysOf(keys)
      BY <3>1 DEF KeysOf
    <3> QED
      BY <2>3, <3>1, <3>2 DEF KeysInv
  <2> QED
    BY <2>1, <2>2, <2>3 DEF Admit, VerifyAndTouch
<1> QED
  BY <1>1, KeysInvariant, PTL DEF Spec, RevokedRefused
=============================================================================
