------------------------- MODULE RequestRetryProofs -------------------------
(***************************************************************************)
(* The invariants of CredentialPool, for every set of ids, every failure   *)
(* limit and every cooldown length.  The retry loops only take steps of    *)
(* the pool, so what is proved of the pool holds under them; and what      *)
(* their answers may do to a credential, for any number of requests,       *)
(* credentials and attempts.                                               *)
(***************************************************************************)
EXTENDS RequestRetry, FiniteSetTheorems, TLAPS

-----------------------------------------------------------------------------
(* CredentialPool *)

\* What PoolInv says of one credential: the invariant is proved entry by entry.
EntryOK(e) ==
    /\ e \in Entry
    /\ e.disabled <=> e.disabled_reason # "None"
    /\ ~e.disabled => e.failure_count < MaxFailures /\ e.refresh_failure_count < MaxFailures
    /\ e.disabled_reason = "TooManyFailures" => e.refresh_failure_count < MaxFailures

\* The form of the invariant the step proofs use.
TableOK ==
    /\ live \subseteq Ids
    /\ DOMAIN entries = Ids
    /\ entries = [i \in Ids |-> entries[i]]
    /\ \A i \in Ids : EntryOK(entries[i])
    /\ current \in Ids \cup {0}
    /\ mode \in Modes

\* Every entry the table starts with, or that add_credential pushes, is fine.
LEMMA LoadedOK ==
    ASSUME NEW d \in BOOLEAN, NEW ok \in BOOLEAN, NEW p \in Nat, NEW o \in BOOLEAN
    PROVE  EntryOK(LoadedEntry(d, ok, p, o))
<1> DEFINE e == LoadedEntry(d, ok, p, o)
<1>1. /\ e.disabled \in BOOLEAN
      /\ e.disabled <=> e.disabled_reason # "None"
      /\ e.disabled_reason \in {"None", "Manual", "InvalidConfig"}
  BY DEF LoadedEntry
<1>2. /\ e = [disabled |-> e.disabled, disabled_reason |-> e.disabled_reason,
              failure_count |-> 0, refresh_failure_count |-> 0, success_count |-> 0,
              priority |-> p, supports_opus |-> o, config_ok |-> ok,
              throttled |-> 0, rate_limited |-> 0]
  BY DEF LoadedEntry
<1> HIDE DEF e
<1>3. e \in Entry
  BY <1>1, <1>2, MaxFailuresAssumption DEF Entry, DisabledReason
<1>4. e.failure_count < MaxFailures /\ e.refresh_failure_count < MaxFailures
  BY <1>2, MaxFailuresAssumption
<1>5. EntryOK(e)
  BY <1>1, <1>3, <1>4 DEF EntryOK
<1> QED
  BY <1>5 DEF e

LEMMA FreshOK ==
    ASSUME NEW p \in Nat
    PROVE  EntryOK(FreshEntry(p))
BY LoadedOK DEF FreshEntry

LEMMA InitOK == Init => TableOK
<1> SUFFICES ASSUME Init PROVE TableOK
  OBVIOUS
<1>1. live \subseteq Ids /\ mode \in Modes
  BY DEF Init
<1>2. current \in Ids \cup {0}
  BY <1>1 DEF Init, HighestPriority, Enabled
<1>3. PICK f \in [live -> LoadedEntries] :
         entries = [i \in Ids |-> IF i \in live THEN f[i] ELSE Blank]
  BY DEF Init
<1>4. \A e \in LoadedEntries : EntryOK(e)
  BY LoadedOK, PrioritiesAssumption DEF LoadedEntries
<1>5. EntryOK(Blank)
  BY FreshOK DEF Blank
<1> QED
  BY <1>1, <1>2, <1>3, <1>4, <1>5 DEF TableOK

\* One entry is replaced by a sound one, the others are left alone.
LEMMA ReplaceOK ==
    ASSUME TableOK, NEW i \in Ids, NEW e, EntryOK(e),
           entries' = [entries EXCEPT ![i] = e],
           live' \subseteq Ids, current' \in Ids \cup {0}, mode' \in Modes
    PROVE  TableOK'
<1>1. DOMAIN entries' = Ids /\ entries' = [j \in Ids |-> entries'[j]]
  BY DEF TableOK
<1>2. \A j \in Ids : entries'[j] = IF j = i THEN e ELSE entries[j]
  BY DEF TableOK
<1> QED
  BY <1>1, <1>2 DEF TableOK, EntryOK

\* Moving current_id to another credential keeps it an id.
LEMMA SwitchOK ==
    ASSUME NEW S \in SUBSET Ids, NEW es, NEW c \in Ids \cup {0},
           NEW n \in IF S = {} THEN {c} ELSE HighestPriority(S, es)
    PROVE  n \in Ids \cup {0}
BY DEF HighestPriority

\* A disabled entry keeps its counters, and only report_failure gives the
\* reason that self-healing looks for.
LEMMA DisableOK ==
    ASSUME NEW e \in Entry, NEW r \in DisabledReason,
           r = "TooManyFailures" => e.refresh_failure_count < MaxFailures
    PROVE  EntryOK(Disable(e, r))
<1> DEFINE f == Disable(e, r)
<1>1. f \in Entry /\ f.disabled = TRUE /\ f.disabled_reason = r
  BY DEF Disable, Entry
<1>2. f.refresh_failure_count = e.refresh_failure_count
  BY DEF Disable, Entry
<1>3. r # "None"
  BY DEF DisabledReason
<1> HIDE DEF f
<1>4. EntryOK(f)
  BY <1>1, <1>2, <1>3 DEF EntryOK
<1> QED
  BY <1>4 DEF f

\* Enabling needs both counters below the limit.
LEMMA EnableOK ==
    ASSUME NEW e \in Entry,
           e.failure_count < MaxFailures, e.refresh_failure_count < MaxFailures
    PROVE  EntryOK(Enable(e))
<1> DEFINE f == Enable(e)
<1>1. f \in Entry /\ f.disabled = FALSE /\ f.disabled_reason = "None"
  BY DEF Enable, Entry
<1>2. /\ f.failure_count = e.failure_count
      /\ f.refresh_failure_count = e.refresh_failure_count
  BY DEF Enable, Entry
<1> HIDE DEF f
<1>3. EntryOK(f)
  BY <1>1, <1>2 DEF EntryOK
<1> QED
  BY <1>3 DEF f

\* Clearing the counters keeps an entry sound and brings it below the limits.
LEMMA ClearFailuresOK ==
    ASSUME NEW e, EntryOK(e)
    PROVE  /\ EntryOK(ClearFailures(e))
           /\ ClearFailures(e).failure_count < MaxFailures
           /\ ClearFailures(e).refresh_failure_count < MaxFailures
<1> DEFINE f == ClearFailures(e)
<1>0. e \in Entry /\ 0 \in 0 .. MaxFailures
  BY MaxFailuresAssumption DEF EntryOK
<1>1. f \in Entry
  BY <1>0 DEF ClearFailures, Entry
<1>4. f.failure_count = 0 /\ f.refresh_failure_count = 0
  BY <1>0 DEF ClearFailures, Entry
<1>2. f.disabled = e.disabled /\ f.disabled_reason = e.disabled_reason
  BY DEF EntryOK, ClearFailures, Entry
<1> HIDE DEF f
<1>3. EntryOK(f) /\ f.failure_count < MaxFailures /\ f.refresh_failure_count < MaxFailures
  BY <1>1, <1>2, <1>4, MaxFailuresAssumption DEF EntryOK
<1> QED
  BY <1>3 DEF f

LEMMA ClearCooldownsOK ==
    ASSUME NEW e, EntryOK(e)
    PROVE  EntryOK(ClearCooldowns(e))
BY MaxFailuresAssumption DEF EntryOK, ClearCooldowns, Entry

\* The fields that no limit depends on.
LEMMA OtherFieldsOK ==
    ASSUME NEW e, EntryOK(e), NEW n \in Nat, NEW b \in BOOLEAN
    PROVE  /\ EntryOK([e EXCEPT !.success_count = n])
           /\ EntryOK([e EXCEPT !.priority = n])
           /\ EntryOK([e EXCEPT !.supports_opus = b])
           /\ EntryOK([e EXCEPT !.throttled = n])
           /\ EntryOK([e EXCEPT !.rate_limited = n])
           /\ EntryOK([e EXCEPT !.refresh_failure_count = 0])
           /\ EntryOK([e EXCEPT !.failure_count = 0])
BY MaxFailuresAssumption DEF EntryOK, Entry

-----------------------------------------------------------------------------
LEMMA ReportOK ==
    ASSUME TableOK, NEW i \in Ids, Report(i)
    PROVE  TableOK'
<1> DEFINE e == entries[i]
<1>e. EntryOK(e) /\ e \in Entry
  BY DEF TableOK, EntryOK
<1>t. live \subseteq Ids /\ current \in Ids \cup {0} /\ mode \in Modes
  BY DEF TableOK
<1>0. ASSUME UNCHANGED poolVars PROVE TableOK'
  BY <1>0 DEF TableOK, poolVars, EntryOK
<1>s. ASSUME SwitchCurrent(live, entries') PROVE current' \in Ids \cup {0}
  BY <1>s, <1>t DEF SwitchCurrent, HighestPriority, Enabled
<1>1. CASE report_success(i)
  <2>1. CASE i \notin live
    BY <1>1, <2>1, <1>0 DEF report_success, poolVars
  <2>2. CASE i \in live
    <3> DEFINE g == ClearFailures(ClearCooldowns(e))
               f == CountSuccess(g)
    <3>1. EntryOK(g)
      BY <1>e, ClearCooldownsOK, ClearFailuresOK
    <3>2. EntryOK(f)
      <4>1. g.success_count + 1 \in Nat
        BY <3>1 DEF EntryOK, Entry
      <4> HIDE DEF g
      <4> QED
        BY <3>1, <4>1, OtherFieldsOK DEF CountSuccess
    <3>3. entries' = [entries EXCEPT ![i] = f]
      BY <1>1, <2>2 DEF report_success
    <3> HIDE DEF f
    <3> QED
      BY <3>2, <3>3, <1>1, <1>t, ReplaceOK DEF report_success
  <2> QED
    BY <2>1, <2>2
<1>2. CASE report_failure(i)
  <2>1. CASE i \notin live \/ e.disabled
    BY <1>2, <2>1, <1>0 DEF report_failure, poolVars
  <2>2. CASE i \in live /\ ~e.disabled
    <3> DEFINE n == e.failure_count + 1
               f == [e EXCEPT !.failure_count = n]
    <3>1. n \in 0 .. MaxFailures /\ e.refresh_failure_count < MaxFailures
      BY <1>e, <2>2, MaxFailuresAssumption DEF EntryOK, Entry
    <3>2. CASE n >= MaxFailures
      <4>1. EntryOK(Disable(f, "TooManyFailures"))
        <5>1. f \in Entry /\ f.refresh_failure_count = e.refresh_failure_count
          BY <1>e, <3>1 DEF Entry
        <5> HIDE DEF f
        <5> QED
          BY <5>1, <3>1, DisableOK DEF DisabledReason
      <4>2. entries' = [entries EXCEPT ![i] = Disable(f, "TooManyFailures")]
        BY <1>2, <2>2, <3>2 DEF report_failure
      <4>3. current' \in Ids \cup {0} /\ live' \subseteq Ids /\ mode' \in Modes
        BY <1>2, <2>2, <3>2, <1>s, <1>t DEF report_failure
      <4> QED
        BY <4>1, <4>2, <4>3, ReplaceOK
    <3>3. CASE ~(n >= MaxFailures)
      <4>1. EntryOK(f)
        BY <1>e, <3>1, <3>3, MaxFailuresAssumption DEF EntryOK, Entry
      <4>2. entries' = [entries EXCEPT ![i] = f]
        BY <1>2, <2>2, <3>3 DEF report_failure
      <4>3. current' \in Ids \cup {0} /\ live' \subseteq Ids /\ mode' \in Modes
        BY <1>2, <2>2, <3>3, <1>t DEF report_failure
      <4> QED
        BY <4>1, <4>2, <4>3, ReplaceOK
    <3> QED
      BY <3>2, <3>3
  <2> QED
    BY <2>1, <2>2
<1>3. CASE report_quota_exhausted(i)
  <2>1. CASE i \notin live \/ e.disabled
    BY <1>3, <2>1, <1>0 DEF report_quota_exhausted, poolVars
  <2>2. CASE i \in live /\ ~e.disabled
    <3> DEFINE f == [e EXCEPT !.failure_count = MaxFailures]
    <3>1. EntryOK(Disable(f, "QuotaExceeded"))
      <4>1. f \in Entry
        BY <1>e, MaxFailuresAssumption DEF Entry
      <4> HIDE DEF f
      <4> QED
        BY <4>1, DisableOK DEF DisabledReason
    <3>2. entries' = [entries EXCEPT ![i] = Disable(f, "QuotaExceeded")]
      BY <1>3, <2>2 DEF report_quota_exhausted
    <3>3. current' \in Ids \cup {0} /\ live' \subseteq Ids /\ mode' \in Modes
      BY <1>3, <2>2, <1>s, <1>t DEF report_quota_exhausted
    <3> QED
      BY <3>1, <3>2, <3>3, ReplaceOK
  <2> QED
    BY <2>1, <2>2
<1>4. CASE report_refresh_failure(i)
  <2>1. CASE i \notin live \/ e.disabled
    BY <1>4, <2>1, <1>0 DEF report_refresh_failure, poolVars
  <2>2. CASE i \in live /\ ~e.disabled
    <3> DEFINE n == e.refresh_failure_count + 1
               f == [e EXCEPT !.refresh_failure_count = n]
    <3>1. n \in 0 .. MaxFailures
      BY <1>e, <2>2, MaxFailuresAssumption DEF EntryOK, Entry
    <3>2. CASE n < MaxFailures
      <4>1. EntryOK(f)
        BY <1>e, <3>1, <3>2, MaxFailuresAssumption DEF EntryOK, Entry
      <4>2. entries' = [entries EXCEPT ![i] = f]
        BY <1>4, <2>2, <3>2 DEF report_refresh_failure
      <4>3. current' \in Ids \cup {0} /\ live' \subseteq Ids /\ mode' \in Modes
        BY <1>4, <2>2, <3>2, <1>t DEF report_refresh_failure
      <4> QED
        BY <4>1, <4>2, <4>3, ReplaceOK
    <3>3. CASE ~(n < MaxFailures)
      <4>1. EntryOK(Disable(f, "TooManyRefreshFailures"))
        <5>1. f \in Entry
          BY <1>e, <3>1 DEF Entry
        <5> HIDE DEF f
        <5> QED
          BY <5>1, DisableOK DEF DisabledReason
      <4>2. entries' = [entries EXCEPT ![i] = Disable(f, "TooManyRefreshFailures")]
        BY <1>4, <2>2, <3>3 DEF report_refresh_failure
      <4>3. current' \in Ids \cup {0} /\ live' \subseteq Ids /\ mode' \in Modes
        BY <1>4, <2>2, <3>3, <1>s, <1>t DEF report_refresh_failure
      <4> QED
        BY <4>1, <4>2, <4>3, ReplaceOK
    <3> QED
      BY <3>2, <3>3
  <2> QED
    BY <2>1, <2>2
<1>5. CASE report_refresh_token_invalid(i)
  <2>1. CASE i \notin live \/ e.disabled
    BY <1>5, <2>1, <1>0 DEF report_refresh_token_invalid, poolVars
  <2>2. CASE i \in live /\ ~e.disabled
    <3>1. EntryOK(Disable(e, "InvalidRefreshToken"))
      BY <1>e, DisableOK DEF DisabledReason
    <3>2. entries' = [entries EXCEPT ![i] = Disable(e, "InvalidRefreshToken")]
      BY <1>5, <2>2 DEF report_refresh_token_invalid
    <3>3. current' \in Ids \cup {0} /\ live' \subseteq Ids /\ mode' \in Modes
      BY <1>5, <2>2, <1>s, <1>t DEF report_refresh_token_invalid
    <3> QED
      BY <3>1, <3>2, <3>3, ReplaceOK
  <2> QED
    BY <2>1, <2>2
<1>6. CASE report_account_throttled(i)
  <2>1. Max2(e.throttled, ThrottleTicks) \in Nat
    BY <1>e, TicksAssumption DEF Entry, Max2
  <2>2. EntryOK([e EXCEPT !.throttled = Max2(e.throttled, ThrottleTicks)])
    BY <1>e, <2>1, OtherFieldsOK
  <2>3. CASE i \in live
    BY <1>6, <2>2, <2>3, <1>t, ReplaceOK DEF report_account_throttled
  <2>4. CASE i \notin live
    BY <1>6, <2>4, <1>0 DEF report_account_throttled, poolVars
  <2> QED
    BY <2>3, <2>4
<1>7. CASE report_rate_limited(i)
  <2>1. Max2(e.rate_limited, RateTicks) \in Nat
    BY <1>e, TicksAssumption DEF Entry, Max2
  <2>2. EntryOK([e EXCEPT !.rate_limited = Max2(e.rate_limited, RateTicks)])
    BY <1>e, <2>1, OtherFieldsOK
  <2>3. current' \in Ids \cup {0} /\ live' \subseteq Ids /\ mode' \in Modes
    BY <1>7, <1>t DEF report_rate_limited, HighestPriority, OtherUsable
  <2>4. CASE i \in live
    BY <1>7, <2>2, <2>3, <2>4, ReplaceOK DEF report_rate_limited
  <2>5. CASE i \notin live
    BY <1>7, <2>3, <2>5 DEF report_rate_limited, TableOK, EntryOK
  <2> QED
    BY <2>4, <2>5
<1> QED
  BY <1>1, <1>2, <1>3, <1>4, <1>5, <1>6, <1>7 DEF Report

\* Every entry is rewritten, each to a sound one.
LEMMA RewriteOK ==
    ASSUME TableOK, NEW g,
           entries' = [j \in Ids |-> g[j]],
           \A j \in Ids : EntryOK(g[j]),
           live' \subseteq Ids, current' \in Ids \cup {0}, mode' \in Modes
    PROVE  TableOK'
BY DEF TableOK, EntryOK

LEMMA AcquireOK ==
    ASSUME TableOK, Acquire
    PROVE  TableOK'
<1>t. live \subseteq Ids /\ current \in Ids \cup {0} /\ mode \in Modes
  BY DEF TableOK
<1>e. \A i \in Ids : EntryOK(entries[i]) /\ entries[i] \in Entry
  BY DEF TableOK, EntryOK
<1>0. ASSUME UNCHANGED poolVars PROVE TableOK'
  BY <1>0 DEF TableOK, poolVars, EntryOK
<1>1. ASSUME NEW i \in Ids, token_ensured(i) PROVE TableOK'
  <2>1. EntryOK([entries[i] EXCEPT !.refresh_failure_count = 0])
    BY <1>e, OtherFieldsOK
  <2>2. CASE i \in live
    BY <1>1, <2>1, <2>2, <1>t, ReplaceOK DEF token_ensured
  <2>3. CASE i \notin live
    BY <1>1, <2>3, <1>0 DEF token_ensured, poolVars
  <2> QED
    BY <2>2, <2>3
<1>2. ASSUME NEW i \in Ids, try_reload_credential_from_file(i) PROVE TableOK'
  <2>1. EntryOK(Enable(ClearFailures(entries[i])))
    BY <1>e, ClearFailuresOK, EnableOK DEF EntryOK
  <2>2. CASE i \in live
    BY <1>2, <2>1, <2>2, <1>t, ReplaceOK DEF try_reload_credential_from_file
  <2>3. CASE i \notin live
    BY <1>2, <2>3, <1>0 DEF try_reload_credential_from_file, poolVars
  <2> QED
    BY <2>2, <2>3
<1>3. ASSUME NEW i \in Ids, set_current(i) PROVE TableOK'
  BY <1>3, <1>t DEF set_current, TableOK, EntryOK
<1>4. CASE self_heal
  <2> DEFINE h(i) == Enable([entries[i] EXCEPT !.failure_count = 0])
             g == [i \in Ids |-> IF i \in live /\ entries[i].disabled_reason = "TooManyFailures"
                                 THEN h(i) ELSE entries[i]]
  <2>1. ASSUME NEW i \in Ids, entries[i].disabled_reason = "TooManyFailures"
        PROVE  EntryOK(h(i))
    <3> DEFINE f == [entries[i] EXCEPT !.failure_count = 0]
    <3>1. f \in Entry /\ f.failure_count = 0
      BY <1>e, MaxFailuresAssumption DEF Entry
    <3>2. f.refresh_failure_count < MaxFailures
      BY <1>e, <2>1 DEF EntryOK, Entry
    <3> HIDE DEF f
    <3>3. EntryOK(Enable(f))
      BY <3>1, <3>2, MaxFailuresAssumption, EnableOK
    <3> QED
      BY <3>3 DEF f
  <2>2. \A i \in Ids : EntryOK(g[i])
    <3> HIDE DEF h
    <3> QED
      BY <2>1, <1>e
  <2>3. entries' = [i \in Ids |-> g[i]] /\ live' \subseteq Ids /\ current' \in Ids \cup {0}
        /\ mode' \in Modes
    BY <1>4, <1>t DEF self_heal
  <2> HIDE DEF g
  <2> QED
    BY <2>2, <2>3, RewriteOK
<1> QED
  BY <1>1, <1>2, <1>3, <1>4 DEF Acquire

LEMMA AdminOK ==
    ASSUME TableOK, Admin
    PROVE  TableOK'
<1>t. live \subseteq Ids /\ current \in Ids \cup {0} /\ mode \in Modes
  BY DEF TableOK
<1>e. \A i \in Ids : EntryOK(entries[i]) /\ entries[i] \in Entry
  BY DEF TableOK, EntryOK
<1>1. ASSUME NEW i \in Ids, NEW d \in BOOLEAN, set_disabled(i, d) PROVE TableOK'
  <2> DEFINE f == IF d THEN Disable(entries[i], "Manual")
                  ELSE Enable(ClearFailures(ClearCooldowns(entries[i])))
  <2>1. EntryOK(Disable(entries[i], "Manual"))
    BY <1>e, DisableOK DEF DisabledReason
  <2>2. EntryOK(Enable(ClearFailures(ClearCooldowns(entries[i]))))
    BY <1>e, ClearCooldownsOK, ClearFailuresOK, EnableOK DEF EntryOK
  <2>3. EntryOK(f)
    BY <2>1, <2>2
  <2>4. entries' = [entries EXCEPT ![i] = f]
    BY <1>1 DEF set_disabled
  <2>5. current' \in Ids \cup {0} /\ live' \subseteq Ids /\ mode' \in Modes
    BY <1>1, <1>t DEF set_disabled, switch_to_next, HighestPriority, Enabled
  <2> HIDE DEF f
  <2> QED
    BY <2>3, <2>4, <2>5, ReplaceOK
<1>2. ASSUME NEW i \in Ids, clear_throttle(i) PROVE TableOK'
  BY <1>2, <1>t, <1>e, ClearCooldownsOK, ReplaceOK DEF clear_throttle
<1>3. ASSUME NEW i \in Ids, NEW p \in Priorities, set_priority(i, p) PROVE TableOK'
  <2>1. EntryOK([entries[i] EXCEPT !.priority = p])
    BY <1>e, OtherFieldsOK, PrioritiesAssumption
  <2>2. current' \in Ids \cup {0} /\ live' \subseteq Ids /\ mode' \in Modes
    BY <1>3, <1>t
       DEF set_priority, select_highest_priority, SwitchCurrent, HighestPriority, Enabled
  <2> QED
    BY <1>3, <2>1, <2>2, ReplaceOK DEF set_priority
<1>4. ASSUME NEW i \in Ids, reset_and_enable(i) PROVE TableOK'
  <2> DEFINE f == [entries[i] EXCEPT !.throttled = 0]
  <2>1. EntryOK(f)
    BY <1>e, OtherFieldsOK
  <2> HIDE DEF f
  <2>2. EntryOK(Enable(ClearFailures(f)))
    BY <2>1, ClearFailuresOK, EnableOK DEF EntryOK
  <2>3. entries' = [entries EXCEPT ![i] = Enable(ClearFailures(f))]
    BY <1>4 DEF reset_and_enable, f
  <2> QED
    BY <1>4, <1>t, <2>2, <2>3, ReplaceOK DEF reset_and_enable
<1>5. ASSUME NEW i \in Ids, update_refresh_token(i) PROVE TableOK'
  <2>1. EntryOK([entries[i] EXCEPT !.refresh_failure_count = 0])
    BY <1>e, OtherFieldsOK
  <2> QED
    BY <1>5, <1>t, <2>1, ReplaceOK DEF update_refresh_token
<1>6. ASSUME NEW i \in Ids, NEW o \in BOOLEAN, set_subscription(i, o) PROVE TableOK'
  <2>1. EntryOK([entries[i] EXCEPT !.supports_opus = o])
    BY <1>e, OtherFieldsOK
  <2> QED
    BY <1>6, <1>t, <2>1, ReplaceOK DEF set_subscription
<1>7. ASSUME NEW i \in Ids, delete_credential(i) PROVE TableOK'
  <2>1. EntryOK(Blank)
    BY FreshOK DEF Blank
  <2>2. current' \in Ids \cup {0} /\ live' \subseteq Ids /\ mode' \in Modes
    BY <1>7, <1>t
       DEF delete_credential, select_highest_priority, SwitchCurrent, HighestPriority, Enabled
  <2> QED
    BY <1>7, <2>1, <2>2, ReplaceOK DEF delete_credential
<1>8. ASSUME NEW x \in SUBSET Ids, disable_quota_exceeded(x) PROVE TableOK'
  <2> DEFINE hit == {i \in x \cap live : entries[i].disabled_reason # "InvalidConfig"}
             g == [i \in Ids |-> IF i \in hit THEN Disable(entries[i], "QuotaExceeded")
                                 ELSE entries[i]]
  <2>1. \A i \in Ids : EntryOK(Disable(entries[i], "QuotaExceeded"))
    BY <1>e, DisableOK DEF DisabledReason
  <2>2. \A i \in Ids : EntryOK(g[i])
    BY <2>1, <1>e
  <2>3. entries' = [i \in Ids |-> g[i]]
    BY <1>8 DEF disable_quota_exceeded
  <2>4. current' \in Ids \cup {0} /\ live' \subseteq Ids /\ mode' \in Modes
    BY <1>8, <1>t DEF disable_quota_exceeded, switch_to_next, HighestPriority, Enabled
  <2> HIDE DEF g
  <2> QED
    BY <2>2, <2>3, <2>4, RewriteOK
<1>9. ASSUME NEW x, reset_success_count(x) PROVE TableOK'
  <2> DEFINE g == [i \in Ids |-> IF i \in x \cap live
                                 THEN [entries[i] EXCEPT !.success_count = 0]
                                 ELSE entries[i]]
  <2>1. \A i \in Ids : EntryOK([entries[i] EXCEPT !.success_count = 0])
    BY <1>e, OtherFieldsOK
  <2>2. \A i \in Ids : EntryOK(g[i])
    BY <2>1, <1>e
  <2>3. entries' = [i \in Ids |-> g[i]]
    BY <1>9 DEF reset_success_count
  <2> HIDE DEF g
  <2> QED
    BY <1>9, <1>t, <2>2, <2>3, RewriteOK DEF reset_success_count
<1>10. ASSUME NEW p \in Priorities, add_credential(p) PROVE TableOK'
  <2>1. EntryOK(FreshEntry(p))
    BY FreshOK, PrioritiesAssumption
  <2> QED
    BY <1>10, <1>t, <2>1, ReplaceOK DEF add_credential
<1>11. ASSUME NEW m \in Modes, set_load_balancing_mode(m) PROVE TableOK'
  BY <1>11 DEF set_load_balancing_mode, TableOK, EntryOK
<1> QED
  BY <1>1, <1>2, <1>3, <1>4, <1>5, <1>6, <1>7, <1>8, <1>9, <1>10, <1>11 DEF Admin

LEMMA TickOK ==
    ASSUME TableOK, Tick
    PROVE  TableOK'
<1> DEFINE t(i) == [entries[i] EXCEPT !.throttled = Down(@), !.rate_limited = Down(@)]
           g == [i \in Ids |-> t(i)]
<1>1. ASSUME NEW i \in Ids PROVE EntryOK(t(i))
  <2> DEFINE e == entries[i]
             f == [e EXCEPT !.throttled = Down(e.throttled)]
  <2>1. EntryOK(e) /\ e.throttled \in Nat /\ e.rate_limited \in Nat
    BY DEF TableOK, EntryOK, Entry
  <2>2. Down(e.throttled) \in Nat /\ Down(e.rate_limited) \in Nat
    BY <2>1 DEF Down
  <2>3. EntryOK(f) /\ f.rate_limited = e.rate_limited
    BY <2>1, <2>2, OtherFieldsOK DEF EntryOK, Entry
  <2>4. EntryOK([f EXCEPT !.rate_limited = Down(e.rate_limited)])
    <3> HIDE DEF f
    <3> QED
      BY <2>2, <2>3, OtherFieldsOK
  <2>5. t(i) = [f EXCEPT !.rate_limited = Down(e.rate_limited)]
    BY <2>3
  <2> QED
    BY <2>4, <2>5
<1>2. entries' = [i \in Ids |-> g[i]] /\ live' \subseteq Ids /\ current' \in Ids \cup {0}
      /\ mode' \in Modes
  BY DEF Tick, TableOK
<1>3. \A i \in Ids : EntryOK(g[i])
  BY <1>1
<1> HIDE DEF g
<1> QED
  BY <1>2, <1>3, RewriteOK

-----------------------------------------------------------------------------
LEMMA TableImpliesPool == TableOK => PoolInv
<1> SUFFICES ASSUME TableOK PROVE PoolInv
  OBVIOUS
<1>1. entries \in [Ids -> Entry]
  BY DEF TableOK, EntryOK
<1>2. ASSUME NEW i \in live PROVE EntryOK(entries[i])
  BY <1>2 DEF TableOK
<1> QED
  BY <1>1, <1>2
     DEF TableOK, EntryOK, PoolInv, TypeOK, ReasonIffDisabled, EnabledBelowLimits,
         HealableBelowRefreshLimit

LEMMA NextTableOK == TableOK /\ [Next]_poolVars => TableOK'
<1> SUFFICES ASSUME TableOK, [Next]_poolVars PROVE TableOK'
  OBVIOUS
<1>1. ASSUME NEW i \in Ids, Report(i) PROVE TableOK'
  BY <1>1, ReportOK
<1>2. CASE Acquire
  BY <1>2, AcquireOK
<1>3. CASE Admin
  BY <1>3, AdminOK
<1>4. CASE Tick
  BY <1>4, TickOK
<1>5. CASE UNCHANGED poolVars
  BY <1>5 DEF TableOK, poolVars, EntryOK
<1> QED
  BY <1>1, <1>2, <1>3, <1>4, <1>5 DEF Next

LEMMA TableInvariant == Spec => []TableOK
BY InitOK, NextTableOK, PTL DEF Spec

\* The table is well typed in every reachable state.
THEOREM TypeCorrect == Spec => []TypeOK
BY TableInvariant, TableImpliesPool, PTL DEF PoolInv

\* A credential has a disabled_reason exactly while it is disabled, for any
\* number of credentials and any interleaving of reports and admin actions.
THEOREM ReasonTheorem == Spec => []ReasonIffDisabled
BY TableInvariant, TableImpliesPool, PTL DEF PoolInv

\* No scheduled credential has reached a failure limit, for any limit.
THEOREM LimitsTheorem == Spec => []EnabledBelowLimits
BY TableInvariant, TableImpliesPool, PTL DEF PoolInv

\* Self-healing, which resets API failures only, brings back no credential whose
\* token refreshes are used up.
THEOREM HealingTheorem == Spec => []HealableBelowRefreshLimit
BY TableInvariant, TableImpliesPool, PTL DEF PoolInv

-----------------------------------------------------------------------------
(* RequestRetry *)

\* Where a request works with the credential it has picked.
Holding == {"store", "ensure", "send", "force"}

RequestOK(q) == q \in Request /\ (q.pc \in Holding => q.picked \in Ids)

ReqOK == req \in [Requests -> Request] /\ \A r \in Requests : RequestOK(req[r])

LEMMA SetRequest ==
    ASSUME ReqOK, NEW r \in Requests, NEW q, RequestOK(q), req' = [req EXCEPT ![r] = q]
    PROVE  ReqOK'
BY DEF ReqOK, RequestOK

\* Where the loop goes on.
LEMMA GotoOK ==
    ASSUME ReqOK, NEW r \in Requests, Goto(r, "failed") \/ Goto(r, "served")
             \/ Goto(r, "acquire") \/ Goto(r, "heal") \/ Goto(r, "reselect")
             \/ (req[r].pc \in Holding /\ (Goto(r, "ensure") \/ Goto(r, "send")))
    PROVE  ReqOK'
<1>1. PICK pc \in {"failed", "served", "acquire", "heal", "reselect", "ensure", "send"} :
         Goto(r, pc) /\ (pc \in Holding => req[r].pc \in Holding)
  BY DEF Holding
<1> DEFINE q == [req[r] EXCEPT !.pc = pc]
<1>2. req' = [req EXCEPT ![r] = q]
  BY <1>1 DEF Goto
<1>3. q \in Request /\ q.pc = pc /\ q.picked = req[r].picked
  BY DEF ReqOK, Request
<1> HIDE DEF q
<1>4. RequestOK(q)
  BY <1>1, <1>3 DEF ReqOK, RequestOK
<1> QED
  BY <1>2, <1>4, SetRequest

LEMMA RetryFromOK ==
    ASSUME ReqOK, NEW r \in Requests, Retry(r) \/ SleepAndRetry(r)
    PROVE  ReqOK'
<1>1. PICK pc \in {"acquire", "backoff"} : RetryFrom(r, pc)
  BY DEF Retry, SleepAndRetry
<1> DEFINE n == req[r].attempt + 1
           end == IF n < req[r].max THEN pc ELSE "failed"
           q == [req[r] EXCEPT !.attempt = n, !.pc = end, !.tries = 0, !.most = 0]
<1>2. req' = [req EXCEPT ![r] = q]
  BY <1>1 DEF RetryFrom
<1>3. n \in Nat /\ end \in {"acquire", "backoff", "failed"}
  BY DEF ReqOK, Request
<1> HIDE DEF n, end
<1>4. q \in Request /\ q.pc = end
  BY <1>3 DEF ReqOK, Request
<1> HIDE DEF q
<1>5. RequestOK(q)
  BY <1>3, <1>4 DEF RequestOK, Holding
<1> QED
  BY <1>2, <1>5, SetRequest

LEMMA RetryIfOK ==
    ASSUME ReqOK, NEW r \in Requests, NEW b \in BOOLEAN, RetryIf(r, b)
    PROVE  ReqOK'
BY RetryFromOK, GotoOK DEF RetryIf, Fail

LEMMA AcquireFailedOK ==
    ASSUME ReqOK, NEW r \in Requests, NEW es, AcquireFailed(r, es)
    PROVE  ReqOK'
BY RetryFromOK DEF AcquireFailed

LEMMA TryAgainOK ==
    ASSUME ReqOK, NEW r \in Requests, TryAgain(r)
    PROVE  ReqOK'
<1>1. CASE AcquireFailed(r, entries')
  BY <1>1, RetryFromOK DEF AcquireFailed
<1> DEFINE n == req[r].tries + 1
           q == [req[r] EXCEPT !.pc = "acquire", !.tries = n]
<1>2. CASE req' = [req EXCEPT ![r] = q]
  <2>1. n \in Nat
    BY DEF ReqOK, Request
  <2> HIDE DEF n
  <2>2. q \in Request /\ q.pc = "acquire"
    BY <2>1 DEF ReqOK, Request
  <2> HIDE DEF q
  <2>3. RequestOK(q)
    BY <2>2 DEF RequestOK, Holding
  <2> QED
    BY <1>2, <2>3, SetRequest
<1> QED
  BY <1>1, <1>2 DEF TryAgain

\* A request only picks credentials that exist.
LEMMA PickOK ==
    ASSUME ReqOK, live \subseteq Ids, NEW r \in Requests,
           NEW i \in live, NEW pc \in {"store", "ensure"}, NEW n \in Nat,
           \/ req' = [req EXCEPT ![r] = [@ EXCEPT !.pc = pc, !.picked = i]]
           \/ req' = [req EXCEPT ![r] = [@ EXCEPT !.most = n, !.pc = pc, !.picked = i]]
    PROVE  ReqOK'
<1>1. CASE req' = [req EXCEPT ![r] = [@ EXCEPT !.pc = pc, !.picked = i]]
  <2> DEFINE q == [req[r] EXCEPT !.pc = pc, !.picked = i]
  <2>1. q \in Request /\ q.picked = i
    BY DEF ReqOK, Request
  <2>2. req' = [req EXCEPT ![r] = q]
    BY <1>1
  <2> HIDE DEF q
  <2> QED
    BY <2>1, <2>2, SetRequest DEF RequestOK
<1>2. CASE req' = [req EXCEPT ![r] = [@ EXCEPT !.most = n, !.pc = pc, !.picked = i]]
  <2> DEFINE q == [req[r] EXCEPT !.most = n, !.pc = pc, !.picked = i]
  <2>1. q \in Request /\ q.picked = i
    BY DEF ReqOK, Request
  <2>2. req' = [req EXCEPT ![r] = q]
    BY <1>2
  <2> HIDE DEF q
  <2> QED
    BY <2>1, <2>2, SetRequest DEF RequestOK
<1> QED
  BY <1>1, <1>2

\* The budgets are numbers (RetryPolicy and acquire_context).
LEMMA BudgetType ==
    ASSUME live \subseteq Ids
    PROVE  /\ Cardinality(live) \in Nat
           /\ max_retries(Cardinality(live)) \in Nat
           /\ Max2(Cardinality(live) * MaxFailures, 1) \in Nat
<1>1. Cardinality(live) \in Nat
  BY IdsAssumption, FS_Subset, FS_CardinalityType
<1>2. \A m, n \in Nat : m * n \in Nat
  OBVIOUS
<1>3. Max2(Cardinality(live), 1) \in Nat
  BY <1>1 DEF Max2
<1>4. RetriesPerCredential \in Nat /\ MaxTotalRetries \in Nat /\ MaxFailures \in Nat
  BY RequestAssumption, MaxFailuresAssumption
<1> DEFINE n == Max2(Cardinality(live), 1) * RetriesPerCredential
<1>5. n \in Nat /\ Cardinality(live) * MaxFailures \in Nat
  BY <1>1, <1>2, <1>3, <1>4
<1>6. max_retries(Cardinality(live)) \in Nat
  BY <1>4, <1>5 DEF max_retries
<1> QED
  BY <1>1, <1>5, <1>6 DEF Max2
-----------------------------------------------------------------------------
\* Selecting a credential, or finding none, takes no step of the pool, except for
\* self-healing and current_id.
LEMMA AcquireStep ==
    ASSUME ReqOK, live \subseteq Ids, NEW r \in Requests,
           Start(r) \/ Wake(r) \/ Acquire1(r) \/ Select(r) \/ Heal(r) \/ Reselect(r) \/ Store(r)
    PROVE  ReqOK' /\ (UNCHANGED poolVars \/ self_heal \/ \E i \in Ids : set_current(i))
<1>1. CASE Start(r)
  <2>1. PICK k \in Kinds :
           req' = [req EXCEPT ![r] = [@ EXCEPT !.pc = "acquire", !.kind = k,
                                               !.max = max_retries(Cardinality(live))]]
    BY <1>1 DEF Start
  <2> DEFINE m == max_retries(Cardinality(live))
             q == [req[r] EXCEPT !.pc = "acquire", !.kind = k, !.max = m]
  <2>2. req' = [req EXCEPT ![r] = q]
    BY <2>1
  <2>3. m \in Nat /\ k \in {"chat", "opus", "mcp"}
    BY BudgetType, RequestAssumption
  <2> HIDE DEF m
  <2>4. q \in Request /\ q.pc = "acquire"
    BY <2>3 DEF ReqOK, Request
  <2> HIDE DEF q
  <2>5. RequestOK(q)
    BY <2>4 DEF RequestOK, Holding
  <2> QED
    BY <1>1, <2>2, <2>5, SetRequest DEF Start
<1>2. CASE Wake(r)
  BY <1>2, GotoOK DEF Wake
<1>3. CASE Acquire1(r)
  <2> DEFINE most == IF req[r].most = 0 THEN Max2(Cardinality(live) * MaxFailures, 1)
                     ELSE req[r].most
             pc == IF CurrentHit THEN "ensure" ELSE "select"
             i == IF CurrentHit THEN current ELSE 0
             q == [req[r] EXCEPT !.most = most, !.pc = pc, !.picked = i]
  <2>1. AcquireFailed(r, entries) \/ req' = [req EXCEPT ![r] = q]
    BY <1>3 DEF Acquire1
  <2>2. most \in Nat
    BY BudgetType DEF ReqOK, Request
  <2>3. /\ pc \in {"ensure", "select"} /\ i \in Ids \cup {0}
        /\ pc = "ensure" => i \in Ids
    BY DEF CurrentHit
  <2> HIDE DEF most, pc, i
  <2>4. q \in Request /\ q.pc = pc /\ q.picked = i
    BY <2>2, <2>3 DEF ReqOK, Request
  <2> HIDE DEF q
  <2>5. RequestOK(q)
    BY <2>3, <2>4 DEF RequestOK, Holding
  <2> QED
    BY <1>3, <2>1, <2>5, SetRequest, AcquireFailedOK DEF Acquire1
<1>4. CASE Select(r) \/ Reselect(r)
  <2>1. \/ Goto(r, "heal") \/ AcquireFailed(r, entries)
        \/ \E i \in live : req' = [req EXCEPT ![r] = [@ EXCEPT !.pc = "store", !.picked = i]]
    BY <1>4 DEF Select, Reselect, Pick, select_next_credential, LeastUsed, HighestPriority,
                Candidates
  <2>2. ReqOK'
    BY <2>1, GotoOK, AcquireFailedOK, PickOK
  <2> QED
    BY <1>4, <2>2 DEF Select, Reselect, Pick
<1>5. CASE Heal(r)
  BY <1>5, GotoOK, AcquireFailedOK DEF Heal
<1>6. CASE Store(r)
  <2>1. req[r].picked \in Ids /\ set_current(req[r].picked) /\ Goto(r, "ensure")
        /\ req[r].pc \in Holding
    BY <1>6 DEF Store, At, ReqOK, RequestOK, Holding
  <2> QED
    BY <2>1, GotoOK
<1> QED
  BY <1>1, <1>2, <1>3, <1>4, <1>5, <1>6

\* try_ensure_token and its reports.
LEMMA EnsureStep ==
    ASSUME ReqOK, NEW r \in Requests, Ensure(r)
    PROVE  /\ ReqOK' /\ req[r].picked \in Ids /\ blame' = blame
           /\ \/ token_ensured(req[r].picked)
              \/ report_refresh_failure(req[r].picked)
              \/ report_refresh_token_invalid(req[r].picked)
              \/ EnsureReload(r) /\ try_reload_credential_from_file(req[r].picked)
<1>1. At(r, "ensure")
  BY DEF Ensure, EnsureOk, EnsureError, EnsureReload, EnsureInvalid
<1>2. req[r].picked \in Ids /\ req[r].pc \in Holding
  BY <1>1 DEF At, ReqOK, RequestOK, Holding
<1>3. ReqOK'
  BY <1>2, GotoOK, TryAgainOK
     DEF Ensure, EnsureOk, EnsureError, EnsureReload, EnsureInvalid
<1> QED
  BY <1>2, <1>3 DEF Ensure, EnsureOk, EnsureError, EnsureReload, EnsureInvalid

\* The end of a call: what the answer says of the credential.
LEMMA AnswerStep ==
    ASSUME ReqOK, NEW r \in Requests, Answer(r)
    PROVE  /\ ReqOK' /\ req[r].picked \in Ids
           /\ \/ UNCHANGED poolVars /\ blame' = blame
              \/ report_failure(req[r].picked) /\ Blame(req[r].picked)
              \/ Success(r) /\ report_success(req[r].picked)
              \/ /\ blame' = blame
                 /\ \/ report_quota_exhausted(req[r].picked)
                    \/ report_account_throttled(req[r].picked)
                    \/ report_rate_limited(req[r].picked)
                    \/ token_ensured(req[r].picked)
<1>1. At(r, "send") \/ At(r, "force")
  BY DEF Answer, UnknownEndpoint, Transient, Success, Quota, Rejected, Unauthorized, ForceOk,
         ForceFailed, Suspicious, RateLimited, Answered
<1>2. req[r].picked \in Ids /\ req[r].pc \in Holding
  BY <1>1 DEF At, ReqOK, RequestOK, Holding
<1>3. ReqOK'
  <2>1. CASE Unauthorized(r)
    <3> DEFINE f == req[r].forced \cup {req[r].picked}
               q == [req[r] EXCEPT !.pc = "force", !.forced = f]
    <3>1. AuthFailed(r) \/ req' = [req EXCEPT ![r] = q]
      BY <2>1 DEF Unauthorized
    <3>2. f \in SUBSET Ids
      BY <1>2 DEF ReqOK, Request
    <3> HIDE DEF f
    <3>3. q \in Request /\ q.picked = req[r].picked
      BY <3>2 DEF ReqOK, Request
    <3> HIDE DEF q
    <3>4. RequestOK(q)
      BY <1>2, <3>3 DEF RequestOK
    <3>5. CASE AuthFailed(r)
      BY <3>5, RetryIfOK DEF AuthFailed, AnyEnabled
    <3> QED
      BY <3>1, <3>4, <3>5, SetRequest
  <2>2. CASE ForceFailed(r)
    BY <2>2, RetryIfOK DEF ForceFailed, AuthFailed, AnyEnabled
  <2>3. CASE Quota(r) \/ Suspicious(r)
    BY <2>3, RetryIfOK DEF Quota, Suspicious, AnyEnabled
  <2>4. CASE UnknownEndpoint(r) \/ Transient(r) \/ ForceOk(r) \/ RateLimited(r)
    BY <2>4, RetryFromOK DEF UnknownEndpoint, Transient, ForceOk, RateLimited
  <2>5. CASE Success(r) \/ Rejected(r)
    BY <2>5, GotoOK DEF Success, Rejected, Fail
  <2> QED
    BY <2>1, <2>2, <2>3, <2>4, <2>5 DEF Answer
<1> QED
  BY <1>2, <1>3 DEF Answer, UnknownEndpoint, Transient, Success, Quota, Rejected, Unauthorized,
                    ForceOk, ForceFailed, AuthFailed, Suspicious, RateLimited

\* Every step of a request is a step of the pool or leaves the pool alone.
LEMMA StepRefines ==
    ASSUME TableOK, ReqOK, [RequestNext \/ Done]_vars
    PROVE  ReqOK' /\ [Next]_poolVars
<1>0. live \subseteq Ids
  BY DEF TableOK
<1>1. ASSUME NEW r \in Requests, Step(r) PROVE ReqOK' /\ [Next]_poolVars
  <2>1. CASE Ensure(r)
    BY <2>1, EnsureStep DEF Next, Report, Acquire
  <2>2. CASE Answer(r)
    <3>1. Success(r) => entries[req[r].picked].success_count < MaxSuccess
      BY DEF Success
    <3> QED
      BY <2>2, <3>1, AnswerStep DEF Next, Report, Acquire
  <2>3. CASE ~Ensure(r) /\ ~Answer(r)
    BY <1>0, <1>1, <2>3, AcquireStep DEF Step, Next, Acquire
  <2> QED
    BY <2>1, <2>2, <2>3
<1>2. CASE Clock \/ AdminStep
  BY <1>2 DEF Clock, AdminStep, Next, ReqOK
<1>3. CASE Done \/ UNCHANGED vars
  BY <1>3 DEF Done, vars, poolVars, ReqOK
<1> QED
  BY <1>1, <1>2, <1>3 DEF RequestNext

LEMMA InitRefines == RequestInit => Init /\ TableOK /\ ReqOK
<1> SUFFICES ASSUME RequestInit PROVE Init /\ TableOK /\ ReqOK
  OBVIOUS
<1>1. Init /\ TableOK
  BY InitOK DEF RequestInit
<1> DEFINE q == [pc |-> "idle", kind |-> "chat", attempt |-> 0, max |-> 0, tries |-> 0,
                 most |-> 0, picked |-> 0, forced |-> {}]
<1>2. req = [r \in Requests |-> q]
  BY DEF RequestInit
<1>3. q \in Request /\ q.pc = "idle"
  BY DEF Request
<1> HIDE DEF q
<1> QED
  BY <1>1, <1>2, <1>3 DEF ReqOK, RequestOK, Holding

LEMMA ReqInvariant == RequestSpec => [](TableOK /\ ReqOK)
<1>1. TableOK /\ ReqOK /\ [RequestNext \/ Done]_vars => (TableOK /\ ReqOK)'
  BY StepRefines, NextTableOK
<1> QED
  BY <1>1, InitRefines, PTL DEF RequestSpec

\* The real callers of the pool (call_api_with_retry, call_mcp_with_retry and
\* acquire_context) implement the pool under arbitrary callers.
THEOREM RetryImplementsPool == RequestSpec => ImplementsPool
<1>1. TableOK /\ ReqOK /\ [RequestNext \/ Done]_vars => [Next]_poolVars
  BY StepRefines
<1> QED
  BY <1>1, InitRefines, ReqInvariant, PTL DEF RequestSpec, ImplementsPool, Spec
-----------------------------------------------------------------------------
(***************************************************************************)
(* What a step does to one credential.  The invariant behind               *)
(* OnlyAuthFailuresDisable bounds the failures counted in an enabled entry *)
(* by the failures to authenticate since it last served.                   *)
(***************************************************************************)
Blamed(e, n) ==
    /\ ~e.disabled => e.failure_count <= n
    /\ e.disabled_reason = "TooManyFailures" => n >= MaxFailures

BlameInv ==
    /\ blame \in [Ids -> 0 .. MaxFailures]
    /\ \A i \in live : Blamed(entries[i], blame[i])

\* A credential that is out for another reason than its failures.
Out(e) == e.disabled /\ e.disabled_reason # "TooManyFailures"

\* Entry e becomes f: nobody is blamed, and nothing that is out comes back.
Harmless(e, f) ==
    /\ \/ f.failure_count = 0 /\ f.disabled = e.disabled
                              /\ f.disabled_reason = e.disabled_reason
       \/ f.failure_count = e.failure_count /\ f.disabled = e.disabled
                              /\ f.disabled_reason = e.disabled_reason
       \/ f.failure_count = 0 /\ f.disabled_reason # "TooManyFailures"
       \/ Out(f)
    /\ Out(e) => Out(f)

LEMMA HarmlessBlame ==
    ASSUME NEW e \in Entry, NEW f \in Entry, NEW n \in 0 .. MaxFailures,
           Harmless(e, f), Blamed(e, n)
    PROVE  Blamed(f, n)
BY MaxFailuresAssumption DEF Harmless, Blamed, Out, Entry

\* The changes of one entry.
LEMMA EntryChanges ==
    ASSUME NEW e \in Entry
    PROVE  /\ Harmless(e, e)
           /\ \A r \in DisabledReason \ {"TooManyFailures"} : Harmless(e, Disable(e, r))
           /\ \A r \in DisabledReason \ {"TooManyFailures"} : \A n \in 0 .. MaxFailures :
                 Harmless(e, Disable([e EXCEPT !.failure_count = n], r))
           /\ \A r \in DisabledReason \ {"TooManyFailures"} : \A n \in 0 .. MaxFailures :
                 Harmless(e, Disable([e EXCEPT !.refresh_failure_count = n], r))
           /\ \A n \in 0 .. MaxFailures : Harmless(e, [e EXCEPT !.refresh_failure_count = n])
           /\ \A n \in Nat : Harmless(e, [e EXCEPT !.throttled = n])
           /\ \A n \in Nat : Harmless(e, [e EXCEPT !.rate_limited = n])
           /\ \A n, m \in Nat : Harmless(e, [e EXCEPT !.throttled = n, !.rate_limited = m])
           /\ \A n \in Nat : Harmless(e, [e EXCEPT !.priority = n])
           /\ \A n \in Nat : Harmless(e, [e EXCEPT !.success_count = n])
           /\ \A o \in BOOLEAN : Harmless(e, [e EXCEPT !.supports_opus = o])
BY DEF Harmless, Out, Disable, Entry, DisabledReason

LEMMA SetHarmless ==
    ASSUME TableOK, NEW i \in Ids, NEW f, Harmless(entries[i], f),
           entries' = [entries EXCEPT ![i] = f]
    PROVE  \A j \in Ids : Harmless(entries[j], entries'[j])
<1>1. \A j \in Ids : entries'[j] = IF j = i THEN f ELSE entries[j]
  BY DEF TableOK
<1>2. \A j \in Ids : Harmless(entries[j], entries[j])
  BY EntryChanges DEF TableOK, EntryOK
<1> QED
  BY <1>1, <1>2

\* The reports that blame nobody, and the refresh of a token.
LEMMA QuietReport ==
    ASSUME TableOK, NEW i \in Ids,
           \/ report_quota_exhausted(i) \/ report_refresh_failure(i)
           \/ report_refresh_token_invalid(i) \/ report_account_throttled(i)
           \/ report_rate_limited(i) \/ token_ensured(i)
    PROVE  live' = live /\ \A j \in Ids : Harmless(entries[j], entries'[j])
<1>0. /\ entries[i] \in Entry
      /\ \A j \in Ids : Harmless(entries[j], entries[j])
  BY EntryChanges DEF TableOK, EntryOK
<1>1. /\ live' = live
      /\ entries' = entries \/ \E f : Harmless(entries[i], f) /\ entries' = [entries EXCEPT ![i] = f]
  <2> DEFINE e == entries[i]
  <2>1. CASE report_quota_exhausted(i)
    <3>1. MaxFailures \in 0 .. MaxFailures /\ "QuotaExceeded" \in DisabledReason \ {"TooManyFailures"}
      BY MaxFailuresAssumption DEF DisabledReason
    <3>2. Harmless(e, Disable([e EXCEPT !.failure_count = MaxFailures], "QuotaExceeded"))
      BY <1>0, <3>1, EntryChanges
    <3> QED
      BY <2>1, <3>2 DEF report_quota_exhausted
  <2>2. CASE report_refresh_failure(i) /\ i \in live /\ ~e.disabled
    <3> DEFINE n == e.refresh_failure_count + 1
    <3>1. n \in 0 .. MaxFailures /\ "TooManyRefreshFailures" \in DisabledReason \ {"TooManyFailures"}
      BY <2>2, MaxFailuresAssumption DEF DisabledReason, TableOK, EntryOK, Entry
    <3>2. /\ Harmless(e, [e EXCEPT !.refresh_failure_count = n])
          /\ Harmless(e, Disable([e EXCEPT !.refresh_failure_count = n], "TooManyRefreshFailures"))
      <4> HIDE DEF n
      <4> QED
        BY <1>0, <3>1, EntryChanges
    <3> QED
      BY <2>2, <3>2 DEF report_refresh_failure
  <2>3. CASE report_refresh_failure(i) /\ ~(i \in live /\ ~e.disabled)
    BY <2>3 DEF report_refresh_failure
  <2>4. CASE report_refresh_token_invalid(i)
    <3>1. Harmless(e, Disable(e, "InvalidRefreshToken"))
      BY <1>0, EntryChanges DEF DisabledReason
    <3> QED
      BY <2>4, <3>1 DEF report_refresh_token_invalid
  <2>5. CASE report_account_throttled(i)
    <3> DEFINE n == Max2(e.throttled, ThrottleTicks)
    <3>1. n \in Nat
      BY <1>0, TicksAssumption DEF Max2, Entry
    <3>2. entries' = entries \/ entries' = [entries EXCEPT ![i] = [e EXCEPT !.throttled = n]]
      BY <2>5 DEF report_account_throttled
    <3> HIDE DEF n
    <3>3. Harmless(e, [e EXCEPT !.throttled = n])
      BY <1>0, <3>1, EntryChanges
    <3> QED
      BY <2>5, <3>2, <3>3 DEF report_account_throttled
  <2>6. CASE report_rate_limited(i)
    <3> DEFINE n == Max2(e.rate_limited, RateTicks)
    <3>1. n \in Nat
      BY <1>0, TicksAssumption DEF Max2, Entry
    <3>2. entries' = entries \/ entries' = [entries EXCEPT ![i] = [e EXCEPT !.rate_limited = n]]
      BY <2>6 DEF report_rate_limited
    <3> HIDE DEF n
    <3>3. Harmless(e, [e EXCEPT !.rate_limited = n])
      BY <1>0, <3>1, EntryChanges
    <3> QED
      BY <2>6, <3>2, <3>3 DEF report_rate_limited
  <2>7. CASE token_ensured(i)
    <3>1. 0 \in 0 .. MaxFailures
      BY MaxFailuresAssumption
    <3>2. entries' = entries \/ entries' = [entries EXCEPT ![i] = [e EXCEPT !.refresh_failure_count = 0]]
      BY <2>7 DEF token_ensured
    <3>3. Harmless(e, [e EXCEPT !.refresh_failure_count = 0])
      BY <1>0, <3>1, EntryChanges
    <3> QED
      BY <2>7, <3>2, <3>3 DEF token_ensured
  <2> QED
    BY <2>1, <2>2, <2>3, <2>4, <2>5, <2>6, <2>7
<1>2. CASE entries' = entries
  BY <1>0, <1>1, <1>2
<1>3. CASE \E f : Harmless(entries[i], f) /\ entries' = [entries EXCEPT ![i] = f]
  BY <1>1, <1>3, SetHarmless
<1> QED
  BY <1>1, <1>2, <1>3

\* Self-healing and the clock.
LEMMA QuietRewrite ==
    ASSUME TableOK, self_heal \/ Tick
    PROVE  live' = live /\ \A j \in Ids : Harmless(entries[j], entries'[j])
<1>0. \A j \in Ids : entries[j] \in Entry /\ Harmless(entries[j], entries[j])
  BY EntryChanges DEF TableOK, EntryOK
<1>1. CASE self_heal
  <2>1. ASSUME NEW j \in Ids, entries[j].disabled_reason = "TooManyFailures"
        PROVE  Harmless(entries[j], Enable([entries[j] EXCEPT !.failure_count = 0]))
    BY <1>0, <2>1 DEF Harmless, Out, Enable, Entry
  <2> QED
    BY <1>0, <1>1, <2>1 DEF self_heal
<1>2. CASE Tick
  <2>1. ASSUME NEW j \in Ids
        PROVE  Harmless(entries[j],
                 [entries[j] EXCEPT !.throttled = Down(@), !.rate_limited = Down(@)])
    <3> DEFINE e == entries[j]
               t == Down(e.throttled)
               n == Down(e.rate_limited)
    <3>1. t \in Nat /\ n \in Nat /\ e \in Entry
      BY <1>0 DEF Down, Entry
    <3>2. [e EXCEPT !.throttled = Down(@), !.rate_limited = Down(@)]
             = [e EXCEPT !.throttled = t, !.rate_limited = n]
      <4> DEFINE f == [e EXCEPT !.throttled = t]
      <4>1. f.rate_limited = e.rate_limited
        BY <3>1 DEF Entry
      <4> QED
        BY <4>1
    <3>3. Harmless(e, [e EXCEPT !.throttled = t, !.rate_limited = n])
      <4> HIDE DEF t, n
      <4> QED
        BY <3>1, EntryChanges
    <3> QED
      BY <3>2, <3>3
  <2> QED
    BY <1>2, <2>1 DEF Tick
<1> QED
  BY <1>1, <1>2
-----------------------------------------------------------------------------
\* An entry that is not held to its failures any more.
Forgiven(f) == (f.failure_count = 0 /\ f.disabled_reason # "TooManyFailures") \/ Out(f)

LEMMA ForgivenBlame ==
    ASSUME NEW f, NEW n \in 0 .. MaxFailures, Forgiven(f)
    PROVE  Blamed(f, n)
BY MaxFailuresAssumption DEF Forgiven, Blamed, Out

LEMMA EnabledAfresh ==
    ASSUME NEW e \in Entry
    PROVE  Forgiven(Enable(ClearFailures(e)))
<1> DEFINE b == ClearFailures(e)
<1>0. 0 \in 0 .. MaxFailures
  BY MaxFailuresAssumption
<1>1. b \in Entry
  BY <1>0 DEF ClearFailures, Entry
<1>2. b.failure_count = 0
  BY <1>0 DEF ClearFailures, Entry
<1> HIDE DEF b
<1>3. Enable(b).failure_count = 0 /\ Enable(b).disabled_reason = "None"
  BY <1>1, <1>2 DEF Enable, Entry
<1>4. Forgiven(Enable(b))
  BY <1>3 DEF Forgiven
<1> QED
  BY <1>4 DEF b

\* The administrator enables a credential with its counters cleared, disables it for
\* another reason, or changes what no failure depends on.
LEMMA AdminForgives ==
    ASSUME TableOK, Admin
    PROVE  \A j \in live' : \/ j \in live /\ Harmless(entries[j], entries'[j])
                            \/ Forgiven(entries'[j])
<1>0. /\ \A j \in Ids : entries[j] \in Entry /\ Harmless(entries[j], entries[j])
      /\ live \subseteq Ids /\ DOMAIN entries = Ids
  BY EntryChanges DEF TableOK, EntryOK
<1>s. ASSUME NEW i \in live, NEW f, Harmless(entries[i], f) \/ Forgiven(f), live' = live,
             entries' = [entries EXCEPT ![i] = f]
      PROVE  \A j \in live' : j \in live /\ (Harmless(entries[j], entries'[j]) \/ Forgiven(entries'[j]))
  <2>1. \A j \in Ids : entries'[j] = IF j = i THEN f ELSE entries[j]
    BY <1>s, <1>0
  <2> QED
    BY <1>0, <1>s, <2>1
<1>1. ASSUME NEW i \in Ids, NEW d \in BOOLEAN, set_disabled(i, d)
      PROVE  \A j \in live' : j \in live /\ (Harmless(entries[j], entries'[j]) \/ Forgiven(entries'[j]))
  <2> DEFINE f == IF d THEN Disable(entries[i], "Manual")
                  ELSE Enable(ClearFailures(ClearCooldowns(entries[i])))
  <2>1. Forgiven(Disable(entries[i], "Manual"))
    BY <1>0 DEF Forgiven, Out, Disable, Entry
  <2>2. Forgiven(Enable(ClearFailures(ClearCooldowns(entries[i]))))
    <3>1. ClearCooldowns(entries[i]) \in Entry
      BY <1>0 DEF ClearCooldowns, Entry
    <3> QED
      BY <3>1, EnabledAfresh
  <2>3. live' = live /\ entries' = [entries EXCEPT ![i] = f] /\ i \in live
    BY <1>1 DEF set_disabled
  <2>4. Forgiven(f)
    BY <2>1, <2>2
  <2> HIDE DEF f
  <2> QED
    BY <2>3, <2>4, <1>s
<1>2. ASSUME NEW i \in Ids, clear_throttle(i)
      PROVE  \A j \in live' : j \in live /\ (Harmless(entries[j], entries'[j]) \/ Forgiven(entries'[j]))
  <2>1. Harmless(entries[i], ClearCooldowns(entries[i]))
    BY <1>0, EntryChanges DEF ClearCooldowns
  <2> QED
    BY <1>2, <2>1, <1>s DEF clear_throttle
<1>3. ASSUME NEW i \in Ids, NEW p \in Priorities, set_priority(i, p)
      PROVE  \A j \in live' : j \in live /\ (Harmless(entries[j], entries'[j]) \/ Forgiven(entries'[j]))
  <2>1. Harmless(entries[i], [entries[i] EXCEPT !.priority = p])
    BY <1>0, EntryChanges, PrioritiesAssumption
  <2> QED
    BY <1>3, <2>1, <1>s DEF set_priority
<1>4. ASSUME NEW i \in Ids, reset_and_enable(i)
      PROVE  \A j \in live' : j \in live /\ (Harmless(entries[j], entries'[j]) \/ Forgiven(entries'[j]))
  <2> DEFINE c == [entries[i] EXCEPT !.throttled = 0]
  <2>1. c \in Entry
    BY <1>0 DEF Entry
  <2>2. entries' = [entries EXCEPT ![i] = Enable(ClearFailures(c))] /\ i \in live /\ live' = live
    BY <1>4 DEF reset_and_enable
  <2> HIDE DEF c
  <2>3. Forgiven(Enable(ClearFailures(c)))
    BY <2>1, EnabledAfresh
  <2> QED
    BY <2>2, <2>3, <1>s
<1>5. ASSUME NEW i \in Ids, update_refresh_token(i)
      PROVE  \A j \in live' : j \in live /\ (Harmless(entries[j], entries'[j]) \/ Forgiven(entries'[j]))
  <2>1. Harmless(entries[i], [entries[i] EXCEPT !.refresh_failure_count = 0])
    <3>1. 0 \in 0 .. MaxFailures
      BY MaxFailuresAssumption
    <3> QED
      BY <1>0, <3>1, EntryChanges
  <2> QED
    BY <1>5, <2>1, <1>s DEF update_refresh_token
<1>6. ASSUME NEW i \in Ids, NEW o \in BOOLEAN, set_subscription(i, o)
      PROVE  \A j \in live' : j \in live /\ (Harmless(entries[j], entries'[j]) \/ Forgiven(entries'[j]))
  <2>1. Harmless(entries[i], [entries[i] EXCEPT !.supports_opus = o])
    BY <1>0, EntryChanges
  <2> QED
    BY <1>6, <2>1, <1>s DEF set_subscription
<1>7. ASSUME NEW i \in Ids, delete_credential(i)
      PROVE  \A j \in live' : j \in live /\ Harmless(entries[j], entries'[j])
  BY <1>7, <1>0 DEF delete_credential
<1>8. ASSUME NEW S \in SUBSET Ids, disable_quota_exceeded(S)
      PROVE  \A j \in live' : j \in live /\ (Harmless(entries[j], entries'[j]) \/ Forgiven(entries'[j]))
  <2>1. \A j \in Ids : Harmless(entries[j], Disable(entries[j], "QuotaExceeded"))
    BY <1>0, EntryChanges DEF DisabledReason
  <2> QED
    BY <1>8, <1>0, <2>1 DEF disable_quota_exceeded
<1>9. ASSUME NEW S, reset_success_count(S)
      PROVE  \A j \in live' : j \in live /\ (Harmless(entries[j], entries'[j]) \/ Forgiven(entries'[j]))
  <2>1. \A j \in Ids : Harmless(entries[j], [entries[j] EXCEPT !.success_count = 0])
    BY <1>0, EntryChanges
  <2> QED
    BY <1>9, <1>0, <2>1 DEF reset_success_count
<1>10. ASSUME NEW p \in Priorities, add_credential(p)
       PROVE  \A j \in live' : \/ j \in live /\ Harmless(entries[j], entries'[j])
                               \/ Forgiven(entries'[j])
  <2> DEFINE f == FreshEntry(p)
             n == NextId
  <2>1. Forgiven(f)
    BY DEF Forgiven, FreshEntry, LoadedEntry
  <2>2. n \in Ids /\ live' = live \cup {n} /\ entries' = [entries EXCEPT ![n] = f]
    BY <1>10 DEF add_credential
  <2> HIDE DEF f, n
  <2>3. \A j \in Ids : entries'[j] = IF j = n THEN f ELSE entries[j]
    BY <2>2, <1>0
  <2> QED
    BY <2>1, <2>2, <2>3, <1>0
<1>11. ASSUME NEW m \in Modes, set_load_balancing_mode(m)
       PROVE  \A j \in live' : j \in live /\ Harmless(entries[j], entries'[j])
  BY <1>11, <1>0 DEF set_load_balancing_mode
<1> QED
  BY <1>1, <1>2, <1>3, <1>4, <1>5, <1>6, <1>7, <1>8, <1>9, <1>10, <1>11 DEF Admin
-----------------------------------------------------------------------------
\* A failure to authenticate is counted on both sides, up to the limit.
LEMMA FailureBlames ==
    ASSUME TableOK, BlameInv, NEW i \in Ids, report_failure(i), Blame(i)
    PROVE  /\ BlameInv'
           /\ live' = live /\ \A j \in Ids : Out(entries[j]) => Out(entries'[j])
<1>0. /\ MaxFailures \in Nat \ {0} /\ live' = live /\ live \subseteq Ids
      /\ \A j \in Ids : blame[j] \in 0 .. MaxFailures /\ EntryOK(entries[j])
  BY MaxFailuresAssumption DEF TableOK, BlameInv, report_failure
<1>1. /\ blame' \in [Ids -> 0 .. MaxFailures]
      /\ \A j \in Ids : blame[j] <= blame'[j] /\ (j # i => blame'[j] = blame[j])
      /\ blame'[i] = MaxFailures \/ blame'[i] = blame[i] + 1
  BY <1>0 DEF Blame, BlameInv
<1>2. ASSUME NEW j \in live, entries'[j] = entries[j] PROVE Blamed(entries'[j], blame'[j])
  <2>1. entries[j].failure_count \in Nat /\ blame[j] \in Nat /\ blame'[j] \in Nat
    BY <1>0, <1>1 DEF EntryOK, Entry
  <2> QED
    BY <1>0, <1>1, <1>2, <2>1 DEF BlameInv, Blamed
<1>3. CASE entries' = entries
  BY <1>0, <1>1, <1>2, <1>3 DEF BlameInv
<1>4. CASE i \in live /\ ~entries[i].disabled
  <2> DEFINE n == entries[i].failure_count + 1
             e == [entries[i] EXCEPT !.failure_count = n]
             f == IF n >= MaxFailures THEN Disable(e, "TooManyFailures") ELSE e
  <2>1. entries' = [entries EXCEPT ![i] = f]
    BY <1>4 DEF report_failure
  <2>2. n \in 1 .. MaxFailures /\ n <= blame'[i]
    BY <1>0, <1>1, <1>4 DEF EntryOK, Entry, BlameInv, Blamed
  <2>3. Blamed(f, blame'[i])
    <3>1. entries[i] \in Entry /\ entries[i].disabled_reason = "None" /\ blame'[i] \in Nat
      BY <1>0, <1>1, <1>4 DEF EntryOK
    <3> HIDE DEF n
    <3>2. e \in Entry /\ e.failure_count = n /\ e.disabled_reason = "None"
      BY <1>0, <2>2, <3>1 DEF Entry
    <3>3. /\ Disable(e, "TooManyFailures").disabled = TRUE
          /\ Disable(e, "TooManyFailures").disabled_reason = "TooManyFailures"
      BY <3>2 DEF Disable, Entry
    <3> HIDE DEF e
    <3>4. CASE n >= MaxFailures
      BY <1>0, <2>2, <3>1, <3>3, <3>4 DEF Blamed
    <3>5. CASE ~(n >= MaxFailures)
      BY <2>2, <3>2, <3>5 DEF Blamed
    <3> QED
      BY <3>4, <3>5
  <2> HIDE DEF f
  <2>4. \A j \in Ids : entries'[j] = IF j = i THEN f ELSE entries[j]
    BY <2>1 DEF TableOK
  <2>5. \A j \in live : Blamed(entries'[j], blame'[j])
    BY <1>0, <1>2, <2>3, <2>4
  <2> QED
    BY <1>0, <1>1, <1>4, <2>4, <2>5 DEF BlameInv, Out
<1> QED
  BY <1>3, <1>4 DEF report_failure

\* An answer clears the failures of a credential that is in use.
LEMMA SuccessClears ==
    ASSUME TableOK, BlameInv, NEW r \in Requests, req[r].picked \in Ids, Success(r)
    PROVE  /\ BlameInv'
           /\ live' = live /\ \A j \in Ids : Out(entries[j]) => Out(entries'[j])
<1> DEFINE i == req[r].picked
           e == entries[i]
           c == ClearFailures(ClearCooldowns(e))
           f == CountSuccess(c)
           n == IF e.disabled THEN blame[i] ELSE 0
<1>0. /\ MaxFailures \in Nat \ {0} /\ live' = live /\ live \subseteq Ids /\ DOMAIN entries = Ids
      /\ \A j \in Ids : blame[j] \in 0 .. MaxFailures /\ EntryOK(entries[j])
  BY MaxFailuresAssumption DEF TableOK, BlameInv, Success, report_success
<1>1. /\ entries' = entries \/ (i \in live /\ entries' = [entries EXCEPT ![i] = f])
      /\ i \in live => entries' = [entries EXCEPT ![i] = f]
      /\ blame' = [blame EXCEPT ![i] = n]
  BY DEF Success, report_success
<1>2. n \in 0 .. MaxFailures /\ i \in Ids
  BY <1>0
<1>3. f.failure_count = 0 /\ f.disabled = e.disabled /\ f.disabled_reason = e.disabled_reason
  <2> DEFINE d == ClearCooldowns(e)
  <2>0. e \in Entry
    BY <1>0, <1>2 DEF EntryOK
  <2>1. d \in Entry /\ d.disabled = e.disabled /\ d.disabled_reason = e.disabled_reason
    BY <2>0 DEF ClearCooldowns, Entry
  <2> HIDE DEF d
  <2>2. ClearFailures(d) \in Entry /\ ClearFailures(d).failure_count = 0
        /\ ClearFailures(d).disabled = e.disabled
        /\ ClearFailures(d).disabled_reason = e.disabled_reason
    <3>1. 0 \in 0 .. MaxFailures
      BY <1>0
    <3> QED
      BY <2>1, <3>1 DEF ClearFailures, Entry
  <2> DEFINE g == ClearFailures(d)
  <2> HIDE DEF g
  <2>3. c = g /\ g \in Entry /\ g.failure_count = 0 /\ g.disabled = e.disabled
        /\ g.disabled_reason = e.disabled_reason
    BY <2>2 DEF g, d
  <2>4. /\ CountSuccess(g).failure_count = 0 /\ CountSuccess(g).disabled = e.disabled
        /\ CountSuccess(g).disabled_reason = e.disabled_reason
    <3> HIDE DEF e, c
    <3> QED
      BY <2>3 DEF CountSuccess, Entry
  <2> QED
    BY <2>3, <2>4
<1>4. i \in live => Blamed(f, n)
  <2>1. i \in live => Blamed(e, blame[i])
    BY DEF BlameInv
  <2>2. e.disabled \/ e.disabled_reason = "None"
    BY <1>0, <1>2 DEF EntryOK
  <2> HIDE DEF f
  <2> QED
    BY <1>0, <1>2, <1>3, <2>1, <2>2 DEF Blamed
<1> HIDE DEF f, n
<1>5. /\ \A j \in Ids : entries'[j] = IF j = i /\ i \in live THEN f ELSE entries[j]
      /\ \A j \in Ids : blame'[j] = IF j = i THEN n ELSE blame[j]
      /\ blame' \in [Ids -> 0 .. MaxFailures]
  BY <1>0, <1>1, <1>2 DEF BlameInv
<1> QED
  BY <1>0, <1>3, <1>4, <1>5 DEF BlameInv, Out

\* A step that changes each credential harmlessly, or forgives it.
LEMMA HarmlessStep ==
    ASSUME TableOK, TableOK', BlameInv, blame' = blame,
           \A j \in live' : \/ j \in live /\ Harmless(entries[j], entries'[j])
                            \/ Forgiven(entries'[j])
    PROVE  BlameInv'
<1>1. ASSUME NEW j \in live' PROVE Blamed(entries'[j], blame[j])
  <2>1. j \in Ids /\ entries[j] \in Entry /\ entries'[j] \in Entry /\ blame[j] \in 0 .. MaxFailures
    BY DEF TableOK, EntryOK, BlameInv
  <2> QED
    BY <2>1, HarmlessBlame, ForgivenBlame DEF BlameInv
<1> QED
  BY <1>1 DEF BlameInv

\* The file is only reloaded by EnsureReload, which enables the credential afresh.
LEMMA ReloadForgives ==
    ASSUME TableOK, NEW i \in Ids, i \in live, try_reload_credential_from_file(i)
    PROVE  /\ live' = live /\ Forgiven(entries'[i])
           /\ \A j \in Ids : j # i => entries'[j] = entries[j]
<1>1. entries[i] \in Entry /\ DOMAIN entries = Ids
  BY DEF TableOK, EntryOK
<1> DEFINE f == Enable(ClearFailures(entries[i]))
<1>2. entries' = [entries EXCEPT ![i] = f] /\ live' = live
  BY DEF try_reload_credential_from_file
<1>3. Forgiven(f)
  BY <1>1, EnabledAfresh
<1> HIDE DEF f
<1> QED
  BY <1>1, <1>2, <1>3

\* The administrator, or a reload of the credentials file on behalf of credential i.
Revived(i) == AdminStep \/ \E r \in Requests : EnsureReload(r) /\ req[r].picked = i

\* What a step of the system does to the blame and to the credentials that are out.
LEMMA BlameStep ==
    ASSUME TableOK, TableOK', ReqOK, BlameInv, [RequestNext \/ Done]_vars
    PROVE  /\ BlameInv'
           /\ \A i \in live : Out(entries[i]) => Out(entries'[i]) \/ Revived(i)
<1>0. /\ live \subseteq Ids /\ live' \subseteq Ids
      /\ \A j \in Ids : Harmless(entries[j], entries[j])
  BY EntryChanges DEF TableOK, EntryOK
<1>h. ASSUME live' = live, blame' = blame, \A j \in Ids : Harmless(entries[j], entries'[j])
      PROVE  /\ BlameInv'
             /\ \A i \in live : Out(entries[i]) => Out(entries'[i])
  BY <1>0, <1>h, HarmlessStep DEF Harmless
<1>1. ASSUME NEW r \in Requests, Step(r)
      PROVE  /\ BlameInv'
             /\ \A i \in live : Out(entries[i]) => Out(entries'[i]) \/ Revived(i)
  <2> DEFINE i == req[r].picked
  <2>1. CASE EnsureReload(r)
    <3>1. i \in Ids /\ i \in live /\ blame' = blame /\ try_reload_credential_from_file(i)
      BY <2>1, <1>0 DEF EnsureReload
    <3>2. /\ live' = live /\ Forgiven(entries'[i])
          /\ \A j \in Ids : j # i => entries'[j] = entries[j]
      BY <3>1, ReloadForgives
    <3>3. BlameInv'
      BY <1>0, <3>1, <3>2, HarmlessStep
    <3> QED
      BY <1>0, <2>1, <3>2, <3>3 DEF Revived
  <2>2. CASE Ensure(r) /\ ~EnsureReload(r)
    <3>1. /\ i \in Ids /\ blame' = blame
          /\ token_ensured(i) \/ report_refresh_failure(i) \/ report_refresh_token_invalid(i)
      BY <2>2, EnsureStep
    <3> QED
      BY <1>h, <3>1, QuietReport
  <2>3. CASE Answer(r)
    <3>1. i \in Ids
      BY <2>3, AnswerStep
    <3>2. CASE UNCHANGED poolVars /\ blame' = blame
      BY <1>0, <1>h, <3>2 DEF poolVars
    <3>3. CASE report_failure(i) /\ Blame(i)
      BY <1>0, <3>1, <3>3, FailureBlames
    <3>4. CASE Success(r)
      BY <1>0, <3>1, <3>4, SuccessClears
    <3>5. CASE /\ blame' = blame
               /\ \/ report_quota_exhausted(i) \/ report_account_throttled(i)
                  \/ report_rate_limited(i) \/ token_ensured(i)
      BY <1>h, <3>1, <3>5, QuietReport
    <3> QED
      BY <2>3, <3>2, <3>3, <3>4, <3>5, AnswerStep
  <2>4. CASE Start(r) \/ Wake(r) \/ Acquire1(r) \/ Select(r) \/ Heal(r) \/ Reselect(r) \/ Store(r)
    <3>1. blame' = blame
      BY <2>4 DEF Start, Wake, Acquire1, Select, Heal, Reselect, Store, Pick
    <3>2. UNCHANGED poolVars \/ self_heal \/ \E j \in Ids : set_current(j)
      BY <1>0, <2>4, AcquireStep
    <3>3. CASE self_heal
      BY <1>h, <3>1, <3>3, QuietRewrite
    <3>4. CASE UNCHANGED poolVars \/ \E j \in Ids : set_current(j)
      BY <1>0, <1>h, <3>1, <3>4 DEF poolVars, set_current
    <3> QED
      BY <3>2, <3>3, <3>4
  <2> QED
    BY <1>1, <2>1, <2>2, <2>3, <2>4 DEF Step
<1>2. CASE Clock
  BY <1>h, <1>2, QuietRewrite DEF Clock
<1>3. CASE AdminStep
  <2>1. BlameInv'
    BY <1>3, AdminForgives, HarmlessStep DEF AdminStep
  <2> QED
    BY <1>3, <2>1 DEF Revived
<1>4. CASE Done \/ UNCHANGED vars
  BY <1>0, <1>h, <1>4 DEF Done, vars
<1> QED
  BY <1>1, <1>2, <1>3, <1>4 DEF RequestNext

LEMMA BlameInvariant == RequestSpec => []BlameInv
<1>1. RequestInit => BlameInv
  <2> SUFFICES ASSUME RequestInit PROVE BlameInv
    OBVIOUS
  <2>1. PICK f \in [live -> LoadedEntries] :
           entries = [i \in Ids |-> IF i \in live THEN f[i] ELSE Blank]
    BY DEF RequestInit, Init
  <2>2. live \subseteq Ids /\ blame = [i \in Ids |-> 0] /\ 0 \in 0 .. MaxFailures
    BY MaxFailuresAssumption DEF RequestInit, Init
  <2>3. \A e \in LoadedEntries : e.failure_count = 0 /\ e.disabled_reason # "TooManyFailures"
    BY DEF LoadedEntries, LoadedEntry
  <2>4. \A e \in LoadedEntries : Blamed(e, 0)
    BY <2>3 DEF Blamed
  <2> QED
    BY <2>1, <2>2, <2>4 DEF BlameInv
<1>2. TableOK /\ TableOK' /\ ReqOK /\ BlameInv /\ [RequestNext \/ Done]_vars => BlameInv'
  BY BlameStep
<1> QED
  BY <1>1, <1>2, ReqInvariant, PTL DEF RequestSpec

\* However many requests meet rate limits, gateway errors or network trouble, only a
\* credential that failed to authenticate MaxFailures times since it last served is
\* disabled for too many failures (the arms of call_api_with_retry around
\* report_failure).
THEOREM BlameTheorem == RequestSpec => []OnlyAuthFailuresDisable
<1>1. BlameInv => OnlyAuthFailuresDisable
  BY DEF BlameInv, Blamed, OnlyAuthFailuresDisable
<1> QED
  BY <1>1, BlameInvariant, PTL

\* A credential that is out for its quota, its refresh token, its configuration or the
\* administrator only comes back through the administrator, or when the credentials
\* file holds a new token for it (try_reload_credential_from_file): neither
\* self-healing nor a late answer brings it back.
OnlyRevivedReturn ==
    [][\A i \in live : Out(entries[i]) => Out(entries'[i]) \/ Revived(i)]_vars

THEOREM RevivalTheorem == RequestSpec => OnlyRevivedReturn
<1>1. TableOK /\ TableOK' /\ ReqOK /\ BlameInv /\ [RequestNext \/ Done]_vars
        => [\A i \in live : Out(entries[i]) => Out(entries'[i]) \/ Revived(i)]_vars
  BY BlameStep
<1> QED
  BY <1>1, ReqInvariant, BlameInvariant, PTL DEF RequestSpec, OnlyRevivedReturn

ReloadsOK == reloads \in Nat

LEMMA ReloadsStep ==
    ASSUME ReloadsOK, [RequestNext \/ Done]_vars
    PROVE  ReloadsOK'
<1>1. ASSUME NEW r \in Requests, Step(r) PROVE reloads' = reloads \/ reloads' = reloads + 1
  <2>1. CASE Ensure(r)
    BY <2>1 DEF Ensure, EnsureOk, EnsureError, EnsureReload, EnsureInvalid
  <2>2. CASE Answer(r)
    BY <2>2 DEF Answer, UnknownEndpoint, Transient, Success, Quota, Rejected, Unauthorized,
                ForceOk, ForceFailed, Suspicious, RateLimited
  <2>3. CASE Start(r) \/ Wake(r) \/ Acquire1(r) \/ Select(r) \/ Heal(r) \/ Reselect(r) \/ Store(r)
    BY <2>3 DEF Start, Wake, Acquire1, Select, Heal, Reselect, Store, Pick
  <2> QED
    BY <1>1, <2>1, <2>2, <2>3 DEF Step
<1>2. CASE Clock \/ AdminStep \/ Done \/ UNCHANGED vars
  BY <1>2 DEF Clock, AdminStep, Done, vars, ReloadsOK
<1> QED
  BY <1>1, <1>2 DEF RequestNext, ReloadsOK

\* Self-healing alone brings back only what failed too often (acquire_context), when
\* neither the administrator acts nor the credentials file changes.
THEOREM HealTheorem ==
    ASSUME ~AdminActs, MaxReloads = 0
    PROVE  RequestSpec => OnlyFailuresHeal
<1>1. RequestInit => ReloadsOK
  BY DEF RequestInit, ReloadsOK
<1>2. ReloadsOK /\ [RequestNext \/ Done]_vars => ReloadsOK'
  BY ReloadsStep
<1>3. ReloadsOK => \A i \in Ids : ~Revived(i)
  BY DEF ReloadsOK, Revived, AdminStep, EnsureReload
<1>4. TableOK => \A i \in live : i \in Ids /\
         (entries[i].disabled_reason \in DisabledReason \ {"TooManyFailures"} => Out(entries[i]))
  BY DEF TableOK, EntryOK, Out, DisabledReason
<1>5. TableOK /\ TableOK' /\ ReqOK /\ BlameInv /\ ReloadsOK /\ [RequestNext \/ Done]_vars
        => [\A i \in live : entries[i].disabled_reason \in DisabledReason \ {"TooManyFailures"}
              => entries'[i].disabled]_vars
  <2> SUFFICES ASSUME TableOK, TableOK', ReqOK, BlameInv, ReloadsOK, [RequestNext \/ Done]_vars
               PROVE  \A i \in live :
                        entries[i].disabled_reason \in DisabledReason \ {"TooManyFailures"}
                          => entries'[i].disabled
    OBVIOUS
  <2> QED
    BY <1>3, <1>4, BlameStep DEF Out
<1> QED
  BY <1>1, <1>2, <1>5, ReqInvariant, BlameInvariant, PTL DEF RequestSpec, OnlyFailuresHeal
=============================================================================
