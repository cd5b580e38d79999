----------------------------- MODULE TokenStore -----------------------------
(***************************************************************************)
(* The tokens of one credential of MultiTokenManager                       *)
(* (kiro/token_manager.rs): the copy in memory, the one in the credentials *)
(* file and what the authentication service still accepts.  A refresh      *)
(* token is used up by a refresh that returns another one, so a copy that  *)
(* is stale when it is used, or overwrites a newer one, locks the account  *)
(* out.                                                                    *)
(*                                                                         *)
(* A process is one call into the token manager: a request                 *)
(* (acquire_context), a query (get_usage_limits_for,                       *)
(* prepare_request_token), a forced refresh or an edit by the              *)
(* administrator.  A step is a critical section of `entries`, an answer of *)
(* the service, or an access to the file.  refresh_lock is held across     *)
(* steps, from Locked to the end of the Write.                             *)
(*                                                                         *)
(* Credentials are [rt, at, meta]: the number of the refresh token, the    *)
(* number that stands for expires_at, and the version of everything else   *)
(* (e-mail, proxy, subscription, profileArn).  `disabled` and              *)
(* `disabled_reason` are one variable, as they agree (ReasonIffDisabled of *)
(* CredentialPool).  The file has the array format, which is the one       *)
(* persist_credentials writes.                                             *)
(***************************************************************************)
EXTENDS Naturals, FiniteSets

CONSTANTS
    Calls,        \* the calls that are made
    None,         \* nobody holds the lock
    MaxIssued,    \* bound on the tokens the service issues
    MaxVersions,  \* bound on the changes of the other fields
    MaxFailures,  \* MAX_FAILURES_PER_CREDENTIAL (3 in the code)
    Mishaps       \* what goes wrong outside of the program

AllMishaps == {"ide", "answer", "write", "restart"}

ASSUME CallsAssumption == IsFiniteSet(Calls) /\ None \notin Calls
ASSUME BoundsAssumption ==
    MaxIssued \in Nat /\ MaxVersions \in Nat /\ MaxFailures \in Nat \ {0}
ASSUME MishapsAssumption == Mishaps \subseteq AllMishaps

VARIABLES
    cred,      \* entry.credentials
    reason,    \* entry.disabled_reason; the entry is enabled iff "None"
    failures,  \* entry.refresh_failure_count
    file,      \* the credentials file: [cred, disabled]
    lock,      \* the holder of refresh_lock
    call,      \* [Calls -> Call]
    valid,     \* the refresh tokens the service accepts
    issued,    \* how many tokens it has issued
    now,       \* access tokens with at <= now have expired
    versions,  \* how many changes of the other fields there were
    harm       \* history: "lost" when a refresh token was issued that is not in
               \*   memory, "behind" when a write failed or crossed another one

vars == <<cred, reason, failures, file, lock, call, valid, issued, now, versions, harm>>
entryVars == <<cred, reason, failures>>
serviceVars == <<valid, issued, now>>
-----------------------------------------------------------------------------
Credentials == [rt : 0 .. MaxIssued, at : 0 .. MaxIssued, meta : 0 .. MaxVersions]

Reasons == {"None", "Manual", "TooManyRefreshFailures", "InvalidRefreshToken"}

Kinds == {"request", "query", "force", "admin"}

Steps == {"idle", "done", "select", "waiting", "sent", "answered", "changed", "write",
          "extra", "ending", "failed", "invalid", "compare", "reload", "report"}

Call == [pc : Steps, kind : Kinds, cred : Credentials, disabled : BOOLEAN,
         attempts : 0 .. MaxFailures]

NoCredentials == [rt |-> 0, at |-> 0, meta |-> 0]

\* A call at pc with the credentials cr in its local variables.
At(pc, kind, cr, attempts) ==
    [pc |-> pc, kind |-> kind, cred |-> cr, disabled |-> FALSE, attempts |-> attempts]

Idle == At("idle", "request", NoCredentials, 0)

Done == At("done", "request", NoCredentials, 0)

WithMeta(cr, meta) == [rt |-> cr.rt, at |-> cr.at, meta |-> meta]

\* is_token_expired or is_token_expiring_soon
Expired(cr) == cr.at <= now

Enabled == reason = "None"

\* Call c goes on at pc with the credentials cr.
Goto(c, pc, cr) ==
    call' = [call EXCEPT ![c] = At(pc, call[c].kind, cr, call[c].attempts)]

\* Call c goes on at pc and needs none of the credentials it has read.
Proceed(c, pc) == Goto(c, pc, NoCredentials)

\* The call returns to its caller; what it held in its local variables is gone.
Return(c) == call' = [call EXCEPT ![c] = Done]

Start(c, kind, pc, cr) ==
    /\ call[c].pc = "idle"
    /\ call' = [call EXCEPT ![c] = At(pc, kind, cr, 0)]
-----------------------------------------------------------------------------
(***************************************************************************)
(* Calls start.  A token that is still good is used without a lock.        *)
(***************************************************************************)
\* acquire_context is called.
Request(c) ==
    /\ Start(c, "request", "select", NoCredentials)
    /\ UNCHANGED <<entryVars, file, lock, serviceVars, versions, harm>>

\* One round of acquire_context: it gives up when its attempts are used up or
\* nothing is enabled.
Select(c) ==
    /\ call[c].pc = "select"
    /\ IF call[c].attempts >= MaxFailures \/ ~Enabled THEN Return(c)
       ELSE Proceed(c, IF Expired(cred) THEN "waiting" ELSE "extra")
    /\ UNCHANGED <<entryVars, file, lock, serviceVars, versions, harm>>

\* get_usage_limits_for and prepare_request_token also serve a disabled credential.
Query(c) ==
    /\ Start(c, "query", IF Expired(cred) THEN "waiting" ELSE "extra", NoCredentials)
    /\ UNCHANGED <<entryVars, file, lock, serviceVars, versions, harm>>

\* force_refresh_token_for reads the credentials before it waits for the lock.
ForceRefresh(c) ==
    /\ Start(c, "force", "waiting", cred)
    /\ UNCHANGED <<entryVars, file, lock, serviceVars, versions, harm>>
-----------------------------------------------------------------------------
(***************************************************************************)
(* The refresh.                                                            *)
(***************************************************************************)
\* Mutant: calls do not wait for one another.
Locked_no_lock(c) ==
    /\ call[c].pc = "waiting"
    /\ lock' = c
    /\ Goto(c, "sent", IF call[c].kind = "force" THEN call[c].cred ELSE cred)
    /\ UNCHANGED <<entryVars, file, serviceVars, versions, harm>>

\* The lock is taken and the credentials are read again; when another call has
\* refreshed them meanwhile the lock is given back at once.
Locked(c) ==
    /\ call[c].pc = "waiting" /\ lock = None
    /\ IF call[c].kind = "force" THEN lock' = c /\ Goto(c, "sent", call[c].cred)
       ELSE IF Expired(cred) THEN lock' = c /\ Goto(c, "sent", cred)
       ELSE UNCHANGED lock /\ Proceed(c, "extra")
    /\ UNCHANGED <<entryVars, file, serviceVars, versions, harm>>

\* The service accepts the token of call c: it issues an access token, and, if
\* it rotates, another refresh token in place of the old one.
Refresh(c, rotate) ==
    /\ call[c].pc = "sent" /\ call[c].cred.rt \in valid /\ issued < MaxIssued
    /\ issued' = issued + 1
    /\ valid' = IF rotate THEN (valid \ {call[c].cred.rt}) \cup {issued'} ELSE valid
    /\ UNCHANGED now

\* refresh_token returns the credentials it was given with the new tokens.  An
\* answer without expires_in leaves expires_at as it was.
Accept(c) ==
    /\ \E rotate, expiry \in BOOLEAN :
         /\ Refresh(c, rotate)
         /\ Goto(c, "answered",
                 [rt |-> IF rotate THEN issued' ELSE call[c].cred.rt,
                  at |-> IF expiry THEN issued' ELSE call[c].cred.at,
                  meta |-> call[c].cred.meta])
    /\ UNCHANGED <<entryVars, file, lock, versions, harm>>

\* An error of refresh_token, which gives the lock back.
RefreshError(c, pc) ==
    /\ lock' = None
    /\ IF call[c].kind = "request" THEN Proceed(c, pc) ELSE Return(c)

\* 400 invalid_grant.
Reject(c) ==
    /\ call[c].pc = "sent" /\ call[c].cred.rt \notin valid
    /\ RefreshError(c, "invalid")
    /\ UNCHANGED <<entryVars, file, serviceVars, versions, harm>>

\* Any other error, a time-out of 60 s included.
RefreshFails(c) ==
    /\ call[c].pc = "sent"
    /\ RefreshError(c, "failed")
    /\ UNCHANGED <<entryVars, file, serviceVars, versions, harm>>

\* The service has refreshed the token but the answer does not arrive.
LoseAnswer(c) ==
    /\ "answer" \in Mishaps
    /\ \E rotate \in BOOLEAN :
         Refresh(c, rotate) /\ harm' = IF rotate THEN harm \cup {"lost"} ELSE harm
    /\ RefreshError(c, "failed")
    /\ UNCHANGED <<entryVars, file, versions>>

\* try_ensure_token drops an answer that is still expired, and with it a token
\* that replaces the one in memory.
DropAnswer(c) ==
    /\ call[c].pc = "answered" /\ call[c].kind = "request" /\ Expired(call[c].cred)
    /\ RefreshError(c, "failed")
    /\ harm' = IF call[c].cred.rt # cred.rt THEN harm \cup {"lost"} ELSE harm
    /\ UNCHANGED <<entryVars, file, serviceVars, versions>>

\* The answer replaces the whole of the credentials in memory.
Store(c) ==
    /\ call[c].pc = "answered" /\ (call[c].kind = "request" => ~Expired(call[c].cred))
    /\ cred' = call[c].cred
    /\ failures' = IF call[c].kind = "force" THEN 0 ELSE failures
    /\ Proceed(c, "changed")
    /\ UNCHANGED <<reason, file, lock, serviceVars, versions, harm>>
-----------------------------------------------------------------------------
(***************************************************************************)
(* persist_credentials: a snapshot under the lock of `entries`, and the    *)
(* file written after that lock is released.                               *)
(***************************************************************************)
Snapshot(c) ==
    /\ call[c].pc = "changed"
    /\ call' = [call EXCEPT ![c] =
         [pc |-> "write", kind |-> call[c].kind, cred |-> cred, disabled |-> ~Enabled,
          attempts |-> call[c].attempts]]
    /\ UNCHANGED <<entryVars, file, lock, serviceVars, versions, harm>>

\* What follows a write: after the refresh the calls that asked for a token go
\* on with it, after a later write they end.
AfterWrite(c) ==
    /\ lock' = IF lock = c THEN None ELSE lock
    /\ CASE call[c].kind \in {"request", "query"} /\ lock = c -> Proceed(c, "extra")
         [] call[c].kind = "request" /\ lock # c -> Proceed(c, "ending")
         [] OTHER -> Return(c)

\* Mutant: the file gets the credentials but not the tokens.
Write_without_tokens(c) ==
    /\ call[c].pc = "write"
    /\ file' = [cred |-> [file.cred EXCEPT !.meta = call[c].cred.meta],
                disabled |-> call[c].disabled]
    /\ AfterWrite(c)
    /\ harm' = IF \E d \in Calls \ {c} : call[d].pc = "write"
               THEN harm \cup {"behind"} ELSE harm
    /\ UNCHANGED <<entryVars, serviceVars, versions>>

Write(c) ==
    /\ call[c].pc = "write"
    /\ file' = [cred |-> call[c].cred, disabled |-> call[c].disabled]
    /\ AfterWrite(c)
    /\ harm' = IF \E d \in Calls \ {c} : call[d].pc = "write"
               THEN harm \cup {"behind"} ELSE harm
    /\ UNCHANGED <<entryVars, serviceVars, versions>>

\* A failed write is logged, or reported to the administrator.
WriteFails(c) ==
    /\ "write" \in Mishaps /\ call[c].pc = "write"
    /\ AfterWrite(c)
    /\ harm' = harm \cup {"behind"}
    /\ UNCHANGED <<entryVars, file, serviceVars, versions>>
-----------------------------------------------------------------------------
(***************************************************************************)
(* What a call does with its token.                                        *)
(***************************************************************************)
\* The credentials get another version of the fields that are not tokens.
ChangeMeta ==
    /\ versions < MaxVersions
    /\ versions' = versions + 1
    /\ cred' = WithMeta(cred, versions')
    /\ UNCHANGED <<reason, failures>>

\* A request stores the profileArn it has fetched, a query the subscription and
\* the e-mail, if they are new.
LearnMeta(c) ==
    /\ call[c].pc = "extra"
    /\ ChangeMeta
    /\ Proceed(c, "changed")
    /\ UNCHANGED <<file, lock, serviceVars, harm>>

\* A query ends.
QueryDone(c) ==
    /\ call[c].pc = "extra" /\ call[c].kind = "query"
    /\ Return(c)
    /\ UNCHANGED <<entryVars, file, lock, serviceVars, versions, harm>>

\* try_ensure_token returns a token to a request.
Ensured(c) ==
    /\ call[c].pc \in {"extra", "ending"} /\ call[c].kind = "request"
    /\ failures' = 0
    /\ Return(c)
    /\ UNCHANGED <<cred, reason, file, lock, serviceVars, versions, harm>>

\* The end of a round that counts: another one, unless nothing is enabled.
CountAttempt(c) ==
    IF reason' = "None"
    THEN call' = [call EXCEPT ![c] =
                    At("select", call[c].kind, NoCredentials, call[c].attempts + 1)]
    ELSE Return(c)

\* report_refresh_failure
RefreshFailed(c) ==
    /\ call[c].pc = "failed"
    /\ IF ~Enabled THEN UNCHANGED <<reason, failures>>
       ELSE /\ failures' = failures + 1
            /\ reason' = IF failures' >= MaxFailures THEN "TooManyRefreshFailures" ELSE reason
    /\ CountAttempt(c)
    /\ UNCHANGED <<cred, file, lock, serviceVars, versions, harm>>

\* try_reload_credential_from_file: another client may have put a new token into
\* the file.  The file is read, compared with the entry, and the entry changed, one
\* after the other.
ReadFile(c) ==
    /\ call[c].pc = "invalid"
    /\ Goto(c, "compare", file.cred)
    /\ UNCHANGED <<entryVars, file, lock, serviceVars, versions, harm>>

\* Mutant: the token of the file is taken over even if it is the rejected one.
Compare_always_reloads(c) ==
    /\ call[c].pc = "compare"
    /\ Goto(c, "reload", call[c].cred)
    /\ UNCHANGED <<entryVars, file, lock, serviceVars, versions, harm>>

Compare(c) ==
    /\ call[c].pc = "compare"
    /\ IF call[c].cred.rt # cred.rt THEN Goto(c, "reload", call[c].cred)
                                    ELSE Proceed(c, "report")
    /\ UNCHANGED <<entryVars, file, lock, serviceVars, versions, harm>>

\* The tokens of the file are taken over and the attempt is not counted.
Reload(c) ==
    /\ call[c].pc = "reload"
    /\ cred' = WithMeta(call[c].cred, cred.meta)
    /\ reason' = "None" /\ failures' = 0
    /\ Proceed(c, "select")
    /\ UNCHANGED <<file, lock, serviceVars, versions, harm>>

\* report_refresh_token_invalid: the file had nothing new.
TokenInvalid(c) ==
    /\ call[c].pc = "report"
    /\ reason' = IF Enabled THEN "InvalidRefreshToken" ELSE reason
    /\ CountAttempt(c)
    /\ UNCHANGED <<cred, failures, file, lock, serviceVars, versions, harm>>
-----------------------------------------------------------------------------
(***************************************************************************)
(* The administrator; every change is followed by persist_credentials.     *)
(***************************************************************************)
\* update_credential
Edit(c) ==
    /\ Start(c, "admin", "changed", NoCredentials)
    /\ ChangeMeta
    /\ UNCHANGED <<file, lock, serviceVars, harm>>

\* update_refresh_token with the tokens of a new login, for a disabled credential;
\* the access token may be missing.
Relogin(c) ==
    /\ ~Enabled
    /\ Start(c, "admin", "changed", NoCredentials)
    /\ issued < MaxIssued
    /\ issued' = issued + 1 /\ valid' = valid \cup {issued'}
    /\ \E at \in {0, issued'} : cred' = [rt |-> issued', at |-> at, meta |-> cred.meta]
    /\ failures' = 0
    /\ UNCHANGED <<reason, file, lock, now, versions, harm>>

SetDisabled(c) ==
    /\ Start(c, "admin", "changed", NoCredentials)
    /\ \/ reason' = "Manual" /\ UNCHANGED failures
       \/ reason' = "None" /\ failures' = 0
    /\ UNCHANGED <<cred, file, lock, serviceVars, versions, harm>>
-----------------------------------------------------------------------------
(***************************************************************************)
(* The environment.                                                        *)
(***************************************************************************)
Expire ==
    /\ now < issued /\ now' = issued
    /\ UNCHANGED <<entryVars, file, lock, call, valid, issued, versions, harm>>

\* Another client (the IDE) refreshes the token it finds in the file.
IdeRefresh ==
    /\ "ide" \in Mishaps /\ file.cred.rt \in valid /\ issued < MaxIssued
    /\ issued' = issued + 1
    /\ valid' = (valid \ {file.cred.rt}) \cup {issued'}
    /\ file' = [cred |-> [rt |-> issued', at |-> issued', meta |-> file.cred.meta],
                disabled |-> file.disabled]
    /\ harm' = harm \cup {"lost"}
    /\ UNCHANGED <<entryVars, lock, call, now, versions>>

\* What a restart loses: a change of the tokens that is not in the file.
Unsaved ==
    \/ cred.rt # file.cred.rt
    \/ \E c \in Calls : call[c].pc = "answered" /\ call[c].cred.rt # file.cred.rt

\* The process stops at any point, with the calls it is working on, and starts again
\* with what the file holds.
Restart ==
    /\ "restart" \in Mishaps
    /\ cred' = file.cred
    /\ reason' = IF file.disabled THEN "Manual" ELSE "None"
    /\ failures' = 0
    /\ lock' = None /\ call' = [c \in Calls |-> IF call[c].pc = "idle" THEN Idle ELSE Done]
    /\ harm' = IF Unsaved THEN harm \cup {"lost"} ELSE harm
    /\ UNCHANGED <<file, serviceVars, versions>>

Init ==
    /\ cred = NoCredentials /\ reason \in {"None", "Manual"} /\ failures = 0
    /\ file = [cred |-> NoCredentials, disabled |-> reason = "Manual"]
    /\ lock = None /\ call = [c \in Calls |-> Idle]
    /\ valid = {0} /\ issued = 0 /\ now = 0
    /\ versions = 0 /\ harm = {}

\* A step of the program itself or an answer it waits for.
Progress(c) ==
    \/ Select(c)
    \/ Accept(c) \/ Reject(c) \/ RefreshFails(c) \/ LoseAnswer(c) \/ DropAnswer(c) \/ Store(c)
    \/ Snapshot(c) \/ Write(c) \/ WriteFails(c)
    \/ LearnMeta(c) \/ QueryDone(c) \/ Ensured(c)
    \/ RefreshFailed(c) \/ ReadFile(c) \/ Compare(c) \/ Reload(c) \/ TokenInvalid(c)

Arrive(c) == Request(c) \/ Query(c) \/ ForceRefresh(c) \/ Edit(c) \/ Relogin(c) \/ SetDisabled(c)

Next ==
    \/ \E c \in Calls : Arrive(c) \/ Locked(c) \/ Progress(c)
    \/ Expire \/ IdeRefresh \/ Restart

Spec == Init /\ [][Next]_vars

\* Calls are scheduled, HTTP calls end in an answer or a time-out, and
\* refresh_lock is a tokio mutex, which serves its waiters in order: a waiter is
\* not overtaken for ever.
FairSpec == Spec /\ \A c \in Calls : WF_vars(Progress(c)) /\ SF_vars(Locked(c))
-----------------------------------------------------------------------------
\* Type invariant.
TypeOK ==
    /\ cred \in Credentials /\ reason \in Reasons /\ failures \in 0 .. MaxFailures
    /\ file \in [cred : Credentials, disabled : BOOLEAN]
    /\ lock \in Calls \cup {None} /\ call \in [Calls -> Call]
    /\ valid \subseteq 0 .. issued /\ issued \in 0 .. MaxIssued /\ now \in 0 .. issued
    /\ versions \in 0 .. MaxVersions /\ harm \subseteq {"lost", "behind"}

\* The refresh token a request or a query sends is one the service accepts,
\* however many calls refresh, force and log in again at the same time: it is
\* read again under refresh_lock (try_ensure_token).  Only a token that another
\* client rotated, an answer that was lost and a restart between a refresh and
\* its write make a call send a dead token.
RefreshSendsLiveToken ==
    "lost" \notin harm =>
        \A c \in Calls :
            call[c].pc = "sent" /\ call[c].kind \in {"request", "query"} =>
                call[c].cred.rt \in valid

\* Why RefreshSendsLiveToken holds.  Only the holder of refresh_lock refreshes; the
\* token in memory is good unless the holder has an answer that replaces it, and that
\* answer is good; so nothing a request sends is ever rejected.
LockInv == \A c \in Calls : call[c].pc \in {"sent", "answered"} => lock = c

LiveInv ==
    "lost" \notin harm =>
        /\ (\A c \in Calls : call[c].pc # "answered") => cred.rt \in valid
        /\ \A c \in Calls :
             /\ call[c].pc = "answered" => call[c].cred.rt \in valid
             /\ call[c].pc = "sent" /\ call[c].kind # "force" => call[c].cred.rt \in valid
             /\ call[c].pc \notin {"invalid", "compare", "reload"}

\* Why the counters stay within their bounds.
LimitsInv ==
    /\ reason = "None" => failures < MaxFailures
    /\ \A c \in Calls :
         call[c].pc \notin {"idle", "done", "select"} => call[c].attempts < MaxFailures

RefreshInv == TypeOK /\ LimitsInv /\ LockInv /\ LiveInv

\* The file and the memory agree whenever no call is between its change and its
\* write: no operation forgets persist_credentials or saves less than it changed.
\* Two writes that cross (the file is written outside of every lock) are the one
\* exception that is not a fault of the environment.
FileAgrees ==
    harm = {} /\ (\A c \in Calls : call[c].pc \notin {"changed", "write"}) =>
        file.cred = cred

\* Every call ends: refresh_lock is always given back, and the rounds of
\* acquire_context that a reload does not count are finite.
CallsEnd == \A c \in Calls : call[c].pc # "idle" ~> call[c].pc \in {"idle", "done"}

\* A credential is disabled for "refreshToken 永久失效" only when the token it
\* holds is one the service has rejected for good.
OnlyDeadTokenDisables ==
    [][reason # "InvalidRefreshToken" /\ reason' = "InvalidRefreshToken"
         => cred.rt \notin valid]_vars
=============================================================================
