--------------------------- MODULE CredentialPool ---------------------------
(***************************************************************************)
(* The credential table of MultiTokenManager (kiro/token_manager.rs): what *)
(* each credential's entry records about failures, cooldowns and the       *)
(* reason it is disabled, and current_id, the credential that priority     *)
(* mode sticks to.  Every action is one critical section of the `entries`  *)
(* mutex (with the `current_id` mutex nested in it), or one Admin API      *)
(* handler.  The callers are arbitrary here: any report may arrive at any  *)
(* time about any credential, as concurrent requests can be as late as     *)
(* they like.  RequestRetry runs the real callers on top of this module.   *)
(*                                                                         *)
(* A cooldown deadline (throttled_until, rate_limited_until) is kept as    *)
(* the number of ticks left: 0 stands for None or a deadline in the past.  *)
(* Entries are keyed by id; ties between equal keys are broken by the      *)
(* order of the credentials file, which is left open (any minimum).        *)
(***************************************************************************)
EXTENDS Naturals, FiniteSets

CONSTANTS
    Ids,            \* the ids credentials may get (bounds add_credential)
    MaxFailures,    \* MAX_FAILURES_PER_CREDENTIAL (3 in the code)
    Priorities,     \* priorities an administrator uses; smaller is better
    ThrottleTicks,  \* cooldown of an account-level 429
    RateTicks,      \* cooldown of an ordinary 429
    MaxSuccess      \* bound on success_count

ASSUME IdsAssumption == IsFiniteSet(Ids) /\ Ids \subseteq Nat \ {0}
ASSUME MaxFailuresAssumption == MaxFailures \in Nat \ {0}
ASSUME PrioritiesAssumption == Priorities \subseteq Nat /\ Priorities # {}
ASSUME TicksAssumption == ThrottleTicks \in Nat \ {0} /\ RateTicks \in Nat \ {0}
ASSUME MaxSuccessAssumption == MaxSuccess \in Nat

VARIABLES
    live,     \* ids of the entries that exist
    entries,  \* [Ids -> Entry]; Blank outside live
    current,  \* current_id, 0 when there never was a usable credential
    mode      \* load_balancing_mode

poolVars == <<live, entries, current, mode>>

-----------------------------------------------------------------------------
DisabledReason ==
    {"Manual", "TooManyFailures", "TooManyRefreshFailures", "QuotaExceeded",
     "InvalidRefreshToken", "InvalidConfig"}

Modes == {"priority", "balanced"}

Entry ==
    [disabled              : BOOLEAN,
     disabled_reason       : DisabledReason \cup {"None"},
     failure_count         : 0 .. MaxFailures,
     refresh_failure_count : 0 .. MaxFailures,
     success_count         : Nat,
     priority              : Nat,
     supports_opus         : BOOLEAN,   \* from the subscription title
     config_ok             : BOOLEAN,   \* not an API-key credential without a key
     throttled             : Nat,
     rate_limited          : Nat]

\* An entry built from the credentials file: the file only knows `disabled`,
\* and an API-key credential without its key is disabled on the spot.
LoadedEntry(disabled, ok, p, opus) ==
    [disabled |-> disabled \/ ~ok,
     disabled_reason |-> IF ~ok THEN "InvalidConfig"
                         ELSE IF disabled THEN "Manual" ELSE "None",
     failure_count |-> 0, refresh_failure_count |-> 0, success_count |-> 0,
     priority |-> p, supports_opus |-> opus, config_ok |-> ok,
     throttled |-> 0, rate_limited |-> 0]

\* A new entry, as add_credential pushes it; its subscription is not known yet.
FreshEntry(p) == LoadedEntry(FALSE, TRUE, p, TRUE)

\* What the slot of an id that is not in use holds.
Blank == FreshEntry(0)

LoadedEntries ==
    {LoadedEntry(d, ok, p, o) :
        d \in BOOLEAN, ok \in BOOLEAN, p \in Priorities, o \in BOOLEAN}

-----------------------------------------------------------------------------
(***************************************************************************)
(* Selection.                                                              *)
(***************************************************************************)
Enabled(lv, es) == {i \in lv : ~es[i].disabled}

CoolingDown(e) == e.throttled > 0 \/ e.rate_limited > 0

Usable(e) == ~e.disabled /\ ~CoolingDown(e)

\* The ids min_by_key(priority) may return.
HighestPriority(ids, es) ==
    {i \in ids : \A j \in ids : es[i].priority <= es[j].priority}

\* The ids min_by_key((success_count, priority)) may return.
LeastUsed(ids, es) ==
    {i \in ids : \A j \in ids :
        \/ es[i].success_count < es[j].success_count
        \/ /\ es[i].success_count = es[j].success_count
           /\ es[i].priority <= es[j].priority}

\* Mutant: the account cooldown is not looked at.
Candidates_ignores_throttle(opus) ==
    {i \in live : /\ ~entries[i].disabled /\ entries[i].rate_limited = 0
                  /\ opus => entries[i].supports_opus}

\* The credentials select_next_credential considers for a request.
Candidates(opus) ==
    {i \in live : Usable(entries[i]) /\ (opus => entries[i].supports_opus)}

\* What select_next_credential may return; empty stands for None.
select_next_credential(opus) ==
    IF mode = "balanced" THEN LeastUsed(Candidates(opus), entries)
                         ELSE HighestPriority(Candidates(opus), entries)

\* acquire_context in priority mode sticks to current_id while it is usable.
CurrentHit == mode # "balanced" /\ current \in live /\ Usable(entries[current])

\* The common end of the reports that disable a credential: current_id moves
\* to the best enabled credential, or stays where it is when there is none.
SwitchCurrent(lv, es) ==
    current' \in IF Enabled(lv, es) = {} THEN {current}
                 ELSE HighestPriority(Enabled(lv, es), es)

\* "Is there a credential left": what the reports return to their caller.
AnyEnabled(lv, es) == Enabled(lv, es) # {}

Disable(e, reason) == [e EXCEPT !.disabled = TRUE, !.disabled_reason = reason]

CountSuccess(e) == [e EXCEPT !.success_count = @ + 1]

Enable(e) == [e EXCEPT !.disabled = FALSE, !.disabled_reason = "None"]

ClearFailures(e) == [e EXCEPT !.failure_count = 0, !.refresh_failure_count = 0]

ClearCooldowns(e) == [e EXCEPT !.throttled = 0, !.rate_limited = 0]

Max2(a, b) == IF a > b THEN a ELSE b
-----------------------------------------------------------------------------
(***************************************************************************)
(* Reports of the request path.  A report about an unknown credential is   *)
(* ignored, and so is a failure of a credential that is already disabled.  *)
(***************************************************************************)
report_success(i) ==
    /\ entries' = IF i \notin live THEN entries ELSE
         [entries EXCEPT ![i] =
            CountSuccess(ClearFailures(ClearCooldowns(@)))]
    /\ UNCHANGED <<live, current, mode>>

\* Mutant: failures of a credential that is already disabled go on counting.
report_failure_when_disabled(i) ==
    /\ IF i \notin live
       THEN UNCHANGED <<entries, current>>
       ELSE LET n == entries[i].failure_count + 1
                e == [entries[i] EXCEPT !.failure_count = n]
            IN /\ entries' = [entries EXCEPT ![i] =
                     IF n >= MaxFailures THEN Disable(e, "TooManyFailures") ELSE e]
               /\ UNCHANGED current
    /\ UNCHANGED <<live, mode>>

report_failure(i) ==
    /\ IF i \notin live \/ entries[i].disabled
       THEN UNCHANGED <<entries, current>>
       ELSE LET n == entries[i].failure_count + 1
                e == [entries[i] EXCEPT !.failure_count = n]
            IN IF n >= MaxFailures
               THEN /\ entries' = [entries EXCEPT ![i] = Disable(e, "TooManyFailures")]
                    /\ SwitchCurrent(live, entries')
               ELSE /\ entries' = [entries EXCEPT ![i] = e]
                    /\ UNCHANGED current
    /\ UNCHANGED <<live, mode>>

report_quota_exhausted(i) ==
    /\ IF i \notin live \/ entries[i].disabled
       THEN UNCHANGED <<entries, current>>
       ELSE /\ entries' = [entries EXCEPT ![i] =
                  Disable([@ EXCEPT !.failure_count = MaxFailures], "QuotaExceeded")]
            /\ SwitchCurrent(live, entries')
    /\ UNCHANGED <<live, mode>>

\* Mutant: too many refresh failures recorded under the wrong reason.
report_refresh_failure_wrong_reason(i) ==
    /\ IF i \notin live \/ entries[i].disabled
       THEN UNCHANGED <<entries, current>>
       ELSE LET n == entries[i].refresh_failure_count + 1
                e == [entries[i] EXCEPT !.refresh_failure_count = n]
            IN IF n < MaxFailures
               THEN /\ entries' = [entries EXCEPT ![i] = e]
                    /\ UNCHANGED current
               ELSE /\ entries' = [entries EXCEPT ![i] = Disable(e, "TooManyFailures")]
                    /\ SwitchCurrent(live, entries')
    /\ UNCHANGED <<live, mode>>

report_refresh_failure(i) ==
    /\ IF i \notin live \/ entries[i].disabled
       THEN UNCHANGED <<entries, current>>
       ELSE LET n == entries[i].refresh_failure_count + 1
                e == [entries[i] EXCEPT !.refresh_failure_count = n]
            IN IF n < MaxFailures
               THEN /\ entries' = [entries EXCEPT ![i] = e]
                    /\ UNCHANGED current
               ELSE /\ entries' = [entries EXCEPT ![i] =
                                      Disable(e, "TooManyRefreshFailures")]
                    /\ SwitchCurrent(live, entries')
    /\ UNCHANGED <<live, mode>>

report_refresh_token_invalid(i) ==
    /\ IF i \notin live \/ entries[i].disabled
       THEN UNCHANGED <<entries, current>>
       ELSE /\ entries' = [entries EXCEPT ![i] = Disable(@, "InvalidRefreshToken")]
            /\ SwitchCurrent(live, entries')
    /\ UNCHANGED <<live, mode>>

\* Extends a running account cooldown, never shortens it.
report_account_throttled(i) ==
    /\ entries' = IF i \notin live THEN entries ELSE
         [entries EXCEPT ![i].throttled = Max2(@, ThrottleTicks)]
    /\ UNCHANGED <<live, current, mode>>

\* Other credentials a request can be moved to at once.
OtherUsable(i, es) == {j \in live \ {i} : Usable(es[j])}

report_rate_limited(i) ==
    /\ entries' = IF i \notin live THEN entries ELSE
         [entries EXCEPT ![i].rate_limited = Max2(@, RateTicks)]
    /\ current' \in IF current = i /\ OtherUsable(i, entries') # {}
                    THEN HighestPriority(OtherUsable(i, entries'), entries')
                    ELSE {current}
    /\ UNCHANGED <<live, mode>>

\* The last section of try_ensure_token and of force_refresh_token_for.
token_ensured(i) ==
    /\ entries' = IF i \notin live THEN entries ELSE
         [entries EXCEPT ![i].refresh_failure_count = 0]
    /\ UNCHANGED <<live, current, mode>>

\* Mutant: the reloaded credential keeps its counters.
reload_keeps_counters(i) ==
    /\ entries' = IF i \notin live THEN entries ELSE
         [entries EXCEPT ![i] = Enable(@)]
    /\ UNCHANGED <<live, current, mode>>

\* The refresh token was rejected, the file holds another one: the entry takes
\* it over and is enabled, whatever it was disabled for.
try_reload_credential_from_file(i) ==
    /\ entries' = IF i \notin live THEN entries ELSE
         [entries EXCEPT ![i] = Enable(ClearFailures(@))]
    /\ UNCHANGED <<live, current, mode>>

\* Mutant: self-healing enables without clearing the reason.
self_heal_keeps_reason ==
    /\ \E i \in live : entries[i].disabled /\ entries[i].disabled_reason = "TooManyFailures"
    /\ entries' = [i \in Ids |->
         IF i \in live /\ entries[i].disabled_reason = "TooManyFailures"
         THEN [entries[i] EXCEPT !.disabled = FALSE, !.failure_count = 0]
         ELSE entries[i]]
    /\ UNCHANGED <<live, current, mode>>

\* Mutant: self-healing enables every credential, whatever it was disabled for.
self_heal_everything ==
    /\ \E i \in live : entries[i].disabled
    /\ entries' = [i \in Ids |-> IF i \in live THEN Enable(ClearFailures(entries[i]))
                                 ELSE entries[i]]
    /\ UNCHANGED <<live, current, mode>>

\* acquire_context found no candidate: every credential that was disabled for
\* too many failures gets another chance.
self_heal ==
    /\ \E i \in live : entries[i].disabled /\ entries[i].disabled_reason = "TooManyFailures"
    /\ entries' = [i \in Ids |->
         IF i \in live /\ entries[i].disabled_reason = "TooManyFailures"
         THEN Enable([entries[i] EXCEPT !.failure_count = 0])
         ELSE entries[i]]
    /\ UNCHANGED <<live, current, mode>>

\* acquire_context stores the id it selected in an earlier section; the entry
\* may have been disabled or deleted in between.
set_current(i) == current' = i /\ UNCHANGED <<live, entries, mode>>
-----------------------------------------------------------------------------
(***************************************************************************)
(* Admin API handlers.                                                     *)
(***************************************************************************)
\* switch_to_next: the best enabled credential other than current_id.
switch_to_next(lv, es) ==
    current' \in IF Enabled(lv, es) \ {current} = {} THEN {current}
                 ELSE HighestPriority(Enabled(lv, es) \ {current}, es)

\* AdminService::set_disabled: an enabled credential starts afresh; disabling
\* the current one moves current_id on.
set_disabled(i, disabled) ==
    /\ i \in live
    /\ entries' = [entries EXCEPT ![i] =
         IF disabled THEN Disable(@, "Manual")
         ELSE Enable(ClearFailures(ClearCooldowns(@)))]
    /\ IF disabled /\ i = current THEN switch_to_next(live, entries')
                                  ELSE UNCHANGED current
    /\ UNCHANGED <<live, mode>>

clear_throttle(i) ==
    /\ i \in live
    /\ entries' = [entries EXCEPT ![i] = ClearCooldowns(@)]
    /\ UNCHANGED <<live, current, mode>>

\* AdminService::disable_quota_exceeded on the credentials whose cached
\* balance is used up.  They were enabled in a snapshot taken earlier, so they
\* may be disabled for another reason by now, but never for InvalidConfig,
\* which only start-up gives.
disable_quota_exceeded(exceeded) ==
    LET hit == {i \in exceeded \cap live : entries[i].disabled_reason # "InvalidConfig"} IN
    /\ entries' = [i \in Ids |-> IF i \in hit THEN Disable(entries[i], "QuotaExceeded")
                                 ELSE entries[i]]
    /\ IF current \in hit THEN switch_to_next(live, entries') ELSE UNCHANGED current
    /\ UNCHANGED <<live, mode>>

select_highest_priority(lv, es) == SwitchCurrent(lv, es)

set_priority(i, p) ==
    /\ i \in live
    /\ entries' = [entries EXCEPT ![i].priority = p]
    /\ select_highest_priority(live, entries')
    /\ UNCHANGED <<live, mode>>

\* Refused for a credential whose configuration was found invalid at start-up.
\* An ordinary 429 cooldown is left running.
reset_and_enable(i) ==
    /\ i \in live /\ entries[i].disabled_reason # "InvalidConfig"
    /\ entries' = [entries EXCEPT ![i] =
         Enable(ClearFailures([@ EXCEPT !.throttled = 0]))]
    /\ UNCHANGED <<live, current, mode>>

reset_success_count(ids) ==
    /\ entries' = [i \in Ids |-> IF i \in ids \cap live
                                 THEN [entries[i] EXCEPT !.success_count = 0]
                                 ELSE entries[i]]
    /\ UNCHANGED <<live, current, mode>>

\* Only for a disabled credential, which stays disabled.
update_refresh_token(i) ==
    /\ i \in live /\ entries[i].disabled
    /\ entries' = [entries EXCEPT ![i].refresh_failure_count = 0]
    /\ UNCHANGED <<live, current, mode>>

\* get_usage_limits_for stores the subscription title it fetched.
set_subscription(i, opus) ==
    /\ i \in live
    /\ entries' = [entries EXCEPT ![i].supports_opus = opus]
    /\ UNCHANGED <<live, current, mode>>

NextId == IF live = {} THEN 1 ELSE (CHOOSE m \in live : \A j \in live : j <= m) + 1

add_credential(p) ==
    /\ NextId \in Ids
    /\ live' = live \cup {NextId}
    /\ entries' = [entries EXCEPT ![NextId] = FreshEntry(p)]
    /\ UNCHANGED <<current, mode>>

delete_credential(i) ==
    /\ i \in live /\ entries[i].disabled
    /\ live' = live \ {i}
    /\ entries' = [entries EXCEPT ![i] = Blank]
    /\ IF live' = {} THEN current' = 0
       ELSE IF current = i THEN select_highest_priority(live', entries')
       ELSE UNCHANGED current
    /\ UNCHANGED mode

set_load_balancing_mode(m) == mode' = m /\ UNCHANGED <<live, entries, current>>

-----------------------------------------------------------------------------
\* Time: every running cooldown comes one tick closer to its end.
Down(n) == IF n = 0 THEN 0 ELSE n - 1

Tick ==
    /\ \E i \in live : CoolingDown(entries[i])
    /\ entries' = [i \in Ids |->
         [entries[i] EXCEPT !.throttled = Down(@), !.rate_limited = Down(@)]]
    /\ UNCHANGED <<live, current, mode>>

\* MultiTokenManager::new.
Init ==
    /\ live \in SUBSET Ids
    /\ \E f \in [live -> LoadedEntries] :
          entries = [i \in Ids |-> IF i \in live THEN f[i] ELSE Blank]
    /\ current \in IF Enabled(live, entries) = {} THEN {0}
                   ELSE HighestPriority(Enabled(live, entries), entries)
    /\ mode \in Modes

Report(i) ==
    \/ entries[i].success_count < MaxSuccess /\ report_success(i)
    \/ report_failure(i)
    \/ report_quota_exhausted(i)
    \/ report_refresh_failure(i)
    \/ report_refresh_token_invalid(i)
    \/ report_account_throttled(i)
    \/ report_rate_limited(i)

Acquire ==
    \/ \E i \in Ids : token_ensured(i) \/ try_reload_credential_from_file(i) \/ set_current(i)
    \/ self_heal

Admin ==
    \/ \E i \in Ids :
         \/ \E d \in BOOLEAN : set_disabled(i, d)
         \/ clear_throttle(i)
         \/ \E p \in Priorities : set_priority(i, p)
         \/ reset_and_enable(i)
         \/ update_refresh_token(i)
         \/ \E o \in BOOLEAN : set_subscription(i, o)
         \/ delete_credential(i)
    \/ \E s \in SUBSET Ids : disable_quota_exceeded(s)
    \/ \E s \in {{i} : i \in Ids} \cup {Ids} : reset_success_count(s)
    \/ \E p \in Priorities : add_credential(p)
    \/ \E m \in Modes : set_load_balancing_mode(m)

Next == (\E i \in Ids : Report(i)) \/ Acquire \/ Admin \/ Tick

Spec == Init /\ [][Next]_poolVars

-----------------------------------------------------------------------------
(***************************************************************************)
(* Properties.                                                             *)
(***************************************************************************)
\* Type invariant of the credential table.
TypeOK ==
    /\ live \subseteq Ids
    /\ entries \in [Ids -> Entry]
    /\ current \in Ids \cup {0}
    /\ mode \in Modes

\* A credential carries a disabled_reason exactly while it is disabled: the
\* self-healing of acquire_context decides on the reason alone, and
\* reset_and_enable and the admin panel read one without the other.
ReasonIffDisabled ==
    \A i \in live : entries[i].disabled <=> entries[i].disabled_reason # "None"

\* A credential that takes part in scheduling is below both failure limits,
\* whatever sequence of reports, self-healing, reloads and admin actions led
\* there: otherwise it would be served although its next disabling is overdue.
EnabledBelowLimits ==
    \A i \in live : ~entries[i].disabled =>
        /\ entries[i].failure_count < MaxFailures
        /\ entries[i].refresh_failure_count < MaxFailures

\* Self-healing resets failure_count only.  This is why it may: a credential
\* disabled for too many API failures never has exhausted its refresh failures.
HealableBelowRefreshLimit ==
    \A i \in live : entries[i].disabled_reason = "TooManyFailures" =>
        entries[i].refresh_failure_count < MaxFailures

\* The inductive invariant behind EnabledBelowLimits.
PoolInv == TypeOK /\ ReasonIffDisabled /\ EnabledBelowLimits /\ HealableBelowRefreshLimit
=============================================================================
