---------------------------- MODULE RequestRetry ----------------------------
(***************************************************************************)
(* Concurrent requests against the credential pool: the retry loops of     *)
(* KiroProvider (call_api_with_retry, call_mcp_with_retry in               *)
(* kiro/provider.rs) around MultiTokenManager::acquire_context             *)
(* (kiro/token_manager.rs).                                                *)
(*                                                                         *)
(* A request is a process.  Its program counter stands at an await or      *)
(* between two critical sections of the pool, so the steps of other        *)
(* requests, the clock and the administrator come in between; every change *)
(* of the pool is an action of CredentialPool.                             *)
(*                                                                         *)
(*   backoff  sleeping before the next attempt                             *)
(*   acquire  top of the loop in acquire_context                           *)
(*   select   current_id could not be used, about to select                *)
(*   heal     nothing to select, about to look for healable credentials    *)
(*   reselect self-healing done                                            *)
(*   store    selected, about to store current_id                          *)
(*   ensure   try_ensure_token is running for the picked credential        *)
(*   send     the HTTP request is on its way with the picked credential    *)
(*   force    force_refresh_token_for is running after a 401/403           *)
(***************************************************************************)
EXTENDS CredentialPool

CONSTANTS
    Requests,        \* the requests (each runs once)
    Kinds,           \* kinds of requests: "chat", "opus", "mcp"
    Answers,         \* [Ids -> set of answers the upstream may give]
    TokenResults,    \* [Ids -> set of outcomes of a token refresh]
    RetriesPerCredential, \* RetryPolicy::max_request_retries
    MaxTotalRetries, \* MAX_TOTAL_RETRIES (30 in the code)
    SwitchOn429,     \* RetryPolicy::credential_switch_on_429
    ThrottleFailover, \* account_throttle_failover
    MaxReloads,      \* bound: times the credentials file is found changed
    SlowThreads,     \* whether a cooldown may expire within straight-line code
    AdminActs        \* whether the administrator acts during the run

AnswerKind ==
    {"unknown_endpoint", "network", "success", "quota", "bad_request",
     "auth", "auth_bearer", "suspicious", "rate_limit", "validation",
     "gateway_timeout", "transient"}

ASSUME RequestAssumption ==
    /\ Kinds \subseteq {"chat", "opus", "mcp"}
    /\ Answers \in [Ids -> SUBSET AnswerKind]
    /\ TokenResults \in [Ids -> SUBSET {"ok", "error", "invalid"}]
    /\ RetriesPerCredential \in Nat \ {0} /\ MaxTotalRetries \in Nat \ {0}
    /\ SwitchOn429 \in BOOLEAN /\ ThrottleFailover \in BOOLEAN /\ AdminActs \in BOOLEAN
    /\ SlowThreads \in BOOLEAN /\ MaxReloads \in Nat

VARIABLES
    req,      \* [Requests -> Request]
    reloads,  \* times try_reload_credential_from_file found a new token
    blame     \* history: auth failures of each credential since it last served,
              \* late answers to a credential already disabled left out

vars == <<live, entries, current, mode, req, reloads, blame>>

Request ==
    [pc      : {"idle", "backoff", "acquire", "select", "heal", "reselect", "store",
                "ensure", "send", "force", "served", "failed"},
     kind    : {"chat", "opus", "mcp"},
     attempt : Nat,        \* index of the retry loop
     max     : Nat,        \* max_retries
     tries   : Nat,        \* attempt_count of acquire_context
     most    : Nat,        \* max_attempts of acquire_context, 0 outside it
     picked  : Ids \cup {0},
     forced  : SUBSET Ids] \* force_refreshed

Finished(r) == req[r].pc \in {"served", "failed"}

\* min(max(total, 1) * max_request_retries, MAX_TOTAL_RETRIES)
max_retries(total) ==
    LET n == Max2(total, 1) * RetriesPerCredential
    IN IF n > MaxTotalRetries THEN MaxTotalRetries ELSE n

-----------------------------------------------------------------------------
At(r, pc) == req[r].pc = pc

Goto(r, pc) == req' = [req EXCEPT ![r].pc = pc]

Opus(r) == req[r].kind = "opus"

\* Mutant: the attempt is not counted.
RetryFrom_uncounted(r, pc) ==
    req' = [req EXCEPT ![r] = [@ EXCEPT !.pc = pc, !.tries = 0, !.most = 0]]

\* `continue` of the retry loop: the next attempt, from `pc` on, or the end
\* with the last error.
RetryFrom(r, pc) ==
    req' = [req EXCEPT ![r] =
              [@ EXCEPT !.attempt = req[r].attempt + 1,
                        !.pc = IF req[r].attempt + 1 < req[r].max THEN pc ELSE "failed",
                        !.tries = 0, !.most = 0]]

Retry(r) == RetryFrom(r, "acquire")

SleepAndRetry(r) == RetryFrom(r, "backoff")

\* acquire_context failed: the loop sleeps if a 429 cooldown is about to end.
AcquireFailed(r, es) ==
    IF \E i \in live : ~es[i].disabled /\ es[i].rate_limited > 0
    THEN SleepAndRetry(r) ELSE Retry(r)

Fail(r) == Goto(r, "failed")

RetryIf(r, available) == IF available THEN Retry(r) ELSE Fail(r)

Blame(i) == blame' = [blame EXCEPT ![i] = IF @ < MaxFailures THEN @ + 1 ELSE @]
-----------------------------------------------------------------------------
Start(r) ==
    /\ At(r, "idle")
    /\ \E k \in Kinds :
         req' = [req EXCEPT ![r] = [@ EXCEPT !.pc = "acquire", !.kind = k,
                                             !.max = max_retries(Cardinality(live))]]
    /\ UNCHANGED <<poolVars, reloads, blame>>

Wake(r) == At(r, "backoff") /\ Goto(r, "acquire") /\ UNCHANGED <<poolVars, reloads, blame>>

\* One turn of the loop in acquire_context: its budget is fixed on entry, and
\* priority mode sticks to current_id.
Acquire1(r) ==
    /\ At(r, "acquire")
    /\ LET most == IF req[r].most = 0 THEN Max2(Cardinality(live) * MaxFailures, 1)
                   ELSE req[r].most
       IN IF req[r].tries >= most THEN AcquireFailed(r, entries)
          ELSE req' = [req EXCEPT ![r] =
                 [@ EXCEPT !.most = most,
                           !.pc = IF CurrentHit THEN "ensure" ELSE "select",
                           !.picked = IF CurrentHit THEN current ELSE 0]]
    /\ UNCHANGED <<poolVars, reloads, blame>>

Pick(r, none) ==
    /\ IF select_next_credential(Opus(r)) = {} THEN none
       ELSE \E i \in select_next_credential(Opus(r)) :
              req' = [req EXCEPT ![r] = [@ EXCEPT !.pc = "store", !.picked = i]]
    /\ UNCHANGED <<poolVars, reloads, blame>>

Select(r) == At(r, "select") /\ Pick(r, Goto(r, "heal"))

Heal(r) ==
    /\ At(r, "heal")
    /\ \/ self_heal /\ Goto(r, "reselect")
       \/ /\ ~\E i \in live : /\ entries[i].disabled
                              /\ entries[i].disabled_reason = "TooManyFailures"
          /\ AcquireFailed(r, entries)
          /\ UNCHANGED poolVars
    /\ UNCHANGED <<reloads, blame>>

Reselect(r) == At(r, "reselect") /\ Pick(r, AcquireFailed(r, entries))

Store(r) ==
    /\ At(r, "store")
    /\ set_current(req[r].picked)
    /\ Goto(r, "ensure")
    /\ UNCHANGED <<reloads, blame>>

-----------------------------------------------------------------------------
(***************************************************************************)
(* try_ensure_token.  An API-key credential without a key, and a           *)
(* credential deleted meanwhile, end like a failed refresh.                *)
(***************************************************************************)
\* A failed attempt of acquire_context: it gives up when nothing is enabled.
TryAgain(r) ==
    IF AnyEnabled(live, entries')
    THEN req' = [req EXCEPT ![r] = [@ EXCEPT !.pc = "acquire", !.tries = req[r].tries + 1]]
    ELSE AcquireFailed(r, entries')

EnsureOk(r) ==
    LET i == req[r].picked IN
    /\ At(r, "ensure") /\ entries[i].config_ok /\ "ok" \in TokenResults[i]
    /\ token_ensured(i)
    /\ Goto(r, "send")
    /\ UNCHANGED <<reloads, blame>>

EnsureError(r) ==
    LET i == req[r].picked IN
    /\ At(r, "ensure")
    /\ "error" \in TokenResults[i] \/ ~entries[i].config_ok \/ i \notin live
    /\ report_refresh_failure(i)
    /\ TryAgain(r)
    /\ UNCHANGED <<reloads, blame>>

\* invalid_grant, and the credentials file holds another refresh token: tried
\* again at once, without counting the attempt.
EnsureReload(r) ==
    LET i == req[r].picked IN
    /\ At(r, "ensure") /\ i \in live /\ entries[i].config_ok
    /\ "invalid" \in TokenResults[i] /\ reloads < MaxReloads
    /\ try_reload_credential_from_file(i)
    /\ reloads' = reloads + 1
    /\ Goto(r, "acquire")
    /\ UNCHANGED blame

EnsureInvalid(r) ==
    LET i == req[r].picked IN
    /\ At(r, "ensure") /\ entries[i].config_ok /\ "invalid" \in TokenResults[i]
    /\ report_refresh_token_invalid(i)
    /\ TryAgain(r)
    /\ UNCHANGED <<reloads, blame>>

Ensure(r) == EnsureOk(r) \/ EnsureError(r) \/ EnsureReload(r) \/ EnsureInvalid(r)
-----------------------------------------------------------------------------
(***************************************************************************)
(* The answers of the upstream, in the order the loop tests for them.      *)
(***************************************************************************)
Answered(r, a) == At(r, "send") /\ a \in Answers[req[r].picked]

\* endpoint_for knows no endpoint of that name: blamed on the credential.
UnknownEndpoint(r) ==
    /\ Answered(r, "unknown_endpoint")
    /\ report_failure(req[r].picked)
    /\ Blame(req[r].picked)
    /\ Retry(r)
    /\ UNCHANGED reloads

\* No answer, 408, 5xx or an unknown status: try again, blame nobody.  The MCP
\* loop does not tell a validation error or a gateway timeout from other 5xx.
Transient(r) ==
    /\ \/ Answered(r, "network")
       \/ Answered(r, "transient")
       \/ /\ Answered(r, "validation") \/ Answered(r, "gateway_timeout")
          /\ req[r].kind = "mcp"
    /\ SleepAndRetry(r)
    /\ UNCHANGED <<poolVars, reloads, blame>>

Success(r) ==
    /\ Answered(r, "success") /\ entries[req[r].picked].success_count < MaxSuccess
    /\ report_success(req[r].picked)
    /\ blame' = [blame EXCEPT ![req[r].picked] =
                    IF entries[req[r].picked].disabled THEN @ ELSE 0]
    /\ Goto(r, "served")
    /\ UNCHANGED reloads

\* Mutant: the credential is disabled by hand, without a reason.
Quota_without_reason(r) ==
    /\ Answered(r, "quota")
    /\ entries' = [entries EXCEPT ![req[r].picked].disabled = TRUE]
    /\ RetryIf(r, AnyEnabled(live, entries'))
    /\ UNCHANGED <<live, current, mode, reloads, blame>>

Quota(r) ==
    /\ Answered(r, "quota")
    /\ report_quota_exhausted(req[r].picked)
    /\ RetryIf(r, AnyEnabled(live, entries'))
    /\ UNCHANGED <<reloads, blame>>

\* 400, 4xx, a client that cannot be built, and what the API loop does not
\* retry: the request ends at once and the credential is not blamed.
Rejected(r) ==
    /\ \/ Answered(r, "bad_request")
       \/ /\ Answered(r, "validation") \/ Answered(r, "gateway_timeout")
          /\ req[r].kind # "mcp"
    /\ Fail(r)
    /\ UNCHANGED <<poolVars, reloads, blame>>

AuthFailed(r) ==
    /\ report_failure(req[r].picked)
    /\ Blame(req[r].picked)
    /\ RetryIf(r, AnyEnabled(live, entries'))

\* 401/403.  The first time the upstream calls the token invalid, it is
\* refreshed before the failure counts.
Unauthorized(r) ==
    /\ \/ /\ Answered(r, "auth_bearer") /\ req[r].picked \notin req[r].forced
          /\ req' = [req EXCEPT ![r] = [@ EXCEPT !.pc = "force",
                                                 !.forced = req[r].forced \cup {req[r].picked}]]
          /\ UNCHANGED <<poolVars, blame>>
       \/ /\ \/ Answered(r, "auth")
             \/ Answered(r, "auth_bearer") /\ req[r].picked \in req[r].forced
          /\ AuthFailed(r)
    /\ UNCHANGED reloads

ForceOk(r) ==
    /\ At(r, "force") /\ req[r].picked \in live /\ "ok" \in TokenResults[req[r].picked]
    /\ token_ensured(req[r].picked)
    /\ Retry(r)
    /\ UNCHANGED <<reloads, blame>>

ForceFailed(r) ==
    /\ At(r, "force")
    /\ req[r].picked \notin live \/ TokenResults[req[r].picked] # {"ok"}
    /\ AuthFailed(r)
    /\ UNCHANGED reloads

\* 429 with "suspicious activity" (API loop): the account cools down.  What is
\* left is counted without regard to ordinary 429 cooldowns.
Suspicious(r) ==
    /\ Answered(r, "suspicious") /\ req[r].kind # "mcp" /\ ThrottleFailover
    /\ report_account_throttled(req[r].picked)
    /\ RetryIf(r, \E i \in live : ~entries'[i].disabled /\ entries'[i].throttled = 0)
    /\ UNCHANGED <<reloads, blame>>

\* Mutant: an ordinary 429 is blamed on the credential.
RateLimited_blames(r) ==
    /\ Answered(r, "rate_limit") \/ Answered(r, "suspicious")
    /\ report_failure(req[r].picked)
    /\ Retry(r)
    /\ UNCHANGED <<reloads, blame>>

\* Any other 429.  On the last attempt the loop falls through to the branch of
\* the other 4xx, which ends the request as well.
RateLimited(r) ==
    /\ \/ Answered(r, "rate_limit")
       \/ Answered(r, "suspicious") /\ (req[r].kind = "mcp" \/ ~ThrottleFailover)
    /\ IF SwitchOn429
       THEN /\ report_rate_limited(req[r].picked)
            /\ IF OtherUsable(req[r].picked, entries') # {} THEN Retry(r) ELSE SleepAndRetry(r)
       ELSE SleepAndRetry(r) /\ UNCHANGED poolVars
    /\ UNCHANGED <<reloads, blame>>

Answer(r) ==
    \/ UnknownEndpoint(r) \/ Transient(r) \/ Success(r) \/ Quota(r) \/ Rejected(r)
    \/ Unauthorized(r) \/ ForceOk(r) \/ ForceFailed(r) \/ Suspicious(r) \/ RateLimited(r)

Step(r) ==
    \/ Start(r) \/ Wake(r) \/ Acquire1(r) \/ Select(r) \/ Heal(r) \/ Reselect(r) \/ Store(r)
    \/ Ensure(r) \/ Answer(r)
-----------------------------------------------------------------------------
RequestInit ==
    /\ Init
    /\ req = [r \in Requests |->
         [pc |-> "idle", kind |-> "chat", attempt |-> 0, max |-> 0, tries |-> 0,
          most |-> 0, picked |-> 0, forced |-> {}]]
    /\ reloads = 0
    /\ blame = [i \in Ids |-> 0]

\* Between these points the code does not wait for anything.
Running(r) == req[r].pc \in {"acquire", "select", "heal", "reselect", "store"}

\* Time passes while requests wait; if SlowThreads, also while they run.
Clock ==
    /\ SlowThreads \/ \A r \in Requests : ~Running(r)
    /\ Tick
    /\ UNCHANGED <<req, reloads, blame>>

AdminStep == AdminActs /\ Admin /\ UNCHANGED <<req, reloads, blame>>

RequestNext == (\E r \in Requests : Step(r)) \/ Clock \/ AdminStep

Done == (\A r \in Requests : Finished(r)) /\ UNCHANGED vars

RequestSpec == RequestInit /\ [][RequestNext \/ Done]_vars

\* A request in progress takes its next step: tokio runs every task, and each
\* await ends because the HTTP client has a timeout.
FairRequestSpec == RequestSpec /\ \A r \in Requests : WF_vars(Step(r))

-----------------------------------------------------------------------------
(***************************************************************************)
(* Properties.                                                             *)
(***************************************************************************)
\* Every step of the retry loops is a step of the credential pool, so what is
\* proved of the pool under arbitrary callers holds under the real ones.
ImplementsPool == Spec

\* Rate limits, gateway errors, network trouble and bad requests never disable a
\* credential, however many requests meet them: a credential disabled for too
\* many failures has failed to authenticate that often since it last served.
OnlyAuthFailuresDisable ==
    \A i \in live : entries[i].disabled_reason = "TooManyFailures" => blame[i] >= MaxFailures

\* A credential whose upstream and whose token refresh work.
Healthy(i) ==
    /\ i \in live /\ ~entries[i].disabled /\ entries[i].config_ok
    /\ Answers[i] = {"success"} /\ TokenResults[i] = {"ok"}

\* Failover: as long as one credential works, no request fails on account of
\* the others, whatever is wrong with them and however requests interleave.
\* This is for a pool whose bad credentials the attempts of a request outlast:
\* each costs up to MaxFailures attempts and one for the forced refresh.
FailoverServes ==
    \A r \in Requests : req[r].pc = "failed" => ~\E i \in Ids : Healthy(i)

\* Without the administrator, a credential whose quota is used up, whose refresh
\* token was rejected or that was disabled by hand stays out: self-healing
\* brings back none of them.
OnlyFailuresHeal ==
    [][\A i \in live :
         entries[i].disabled_reason \in DisabledReason \ {"TooManyFailures"}
           => entries'[i].disabled]_vars

\* Every request that was started ends, served or failed.
RequestsEnd == \A r \in Requests : At(r, "acquire") ~> Finished(r)
=============================================================================
