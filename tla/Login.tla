-------------------------------- MODULE Login --------------------------------
(***************************************************************************)
(* Logging in from the admin pages: sessions of a social login (a callback *)
(* with a code, received by a local server or pasted by hand) and of a     *)
(* device login (polled), which end in a new credential (add_credential)   *)
(* or in a new token for an existing one (do_relogin_update).              *)
(*                                                                         *)
(* A token is the number of the session it was issued to; token 0 is the   *)
(* one of the credential that is there at the start, Imported one that an  *)
(* administrator pastes. The refresh that proves a token when it is added  *)
(* may replace it; the one replaced is then as unusable as a duplicate, so *)
(* the model keeps the number. meta stands for client_id, client_secret    *)
(* and the other fields a refresh of the token needs: {t}, the             *)
(* registration that token t was issued to, or {} for a social login,      *)
(* which has none.                                                         *)
(***************************************************************************)
EXTENDS FiniteSets, FiniteSetsExt, Subsequences

CONSTANTS
    Sessions,  \* logins that are started: numbers from 1
    Calls,     \* admin requests that poll, complete or add
    Imported,  \* a token that can be added by hand: a number of its own
    MaxId      \* bound of the model: no additions by hand beyond this id

VARIABLES
    session,   \* [open, kind, target, slot, expired] by session
    call,      \* [pc, s, cb, id] of every call
    creds,     \* entries: [id, token, meta, enabled, odd]
    issued,    \* sessions the service has issued a token to
    exchanged, \* history: codes sent to the token endpoint, [s, cb, n]
    overlapped \* history: two additions overlapped, or two changes of one credential

vars == <<session, call, creds, issued, exchanged, overlapped>>

NoSession == [open |-> FALSE, kind |-> "none", target |-> 0, slot |-> "empty", expired |-> FALSE]
Idle == [pc |-> "idle", s |-> 0, cb |-> "none", id |-> 0]

At(c, pc) == call[c].pc = pc
Goto(c, pc) == call' = [call EXCEPT ![c].pc = pc]
Return(c) == call' = [call EXCEPT ![c] = Idle]
S(c) == session[call[c].s]
Close(s) == session' = [session EXCEPT ![s].open = FALSE]

\* Position of the first entry with an id, 0 when there is none.
Pos(id) ==
    LET at == {k \in 1 .. Len(creds) : creds[k].id = id}
    IN  IF at = {} THEN 0 ELSE Min(at)
Ids == {creds[k].id : k \in 1 .. Len(creds)}

-----------------------------------------------------------------------------
\* A session is stored once its callback server runs, or once the device is
\* registered and authorized; when that fails there is none.
Start(s, kind, target) ==
    /\ session[s] = NoSession
    /\ session' = [session EXCEPT ![s] = [NoSession EXCEPT !.open = TRUE, !.kind = kind, !.target = target]]
    /\ UNCHANGED <<call, creds, issued, exchanged, overlapped>>

StartSocialLogin(s) == Start(s, "social", 0)
StartIdcLogin(s) == Start(s, "idc", 0)
StartSocialRelogin(s, id) == Start(s, "social", id)
StartIdcRelogin(s, id) == Start(s, "idc", id)

Expire(s) ==
    /\ session[s].open /\ ~session[s].expired
    /\ session' = [session EXCEPT ![s].expired = TRUE]
    /\ UNCHANGED <<call, creds, issued, exchanged, overlapped>>

\* run_callback_server: the first callback ends it, also one with an error.
Callback(s, cb) ==
    /\ session[s].open /\ session[s].kind = "social" /\ session[s].slot = "empty"
    /\ session' = [session EXCEPT ![s].slot = cb]
    /\ UNCHANGED <<call, creds, issued, exchanged, overlapped>>

-----------------------------------------------------------------------------
(* Social login *)

\* poll_social_login: expiry and receipt of the callback under one lock.
PollSocial(c, s) ==
    /\ At(c, "idle") /\ session[s].open /\ session[s].kind = "social"
    /\ \/ /\ session[s].expired \/ session[s].slot \in {"closed", "taken"}
          /\ Close(s) /\ UNCHANGED call
       \/ /\ ~session[s].expired /\ session[s].slot \in {"good", "forged"}
          /\ session' = [session EXCEPT ![s].slot = "taken"]
          /\ call' = [call EXCEPT ![c] = [Idle EXCEPT !.pc = "verify", !.s = s, !.cb = session[s].slot]]
    /\ UNCHANGED <<creds, issued, exchanged, overlapped>>

\* complete_social_login: a callback address pasted by hand.
CompleteSocial(c, s, cb) ==
    /\ At(c, "idle") /\ session[s].open /\ session[s].kind = "social" /\ ~session[s].expired
    /\ call' = [call EXCEPT ![c] = [Idle EXCEPT !.pc = "verify", !.s = s, !.cb = cb]]
    /\ UNCHANGED <<session, creds, issued, exchanged, overlapped>>

\* do_complete_social_login: the state of the callback is that of the session.
Verify(c) ==
    /\ At(c, "verify")
    /\ IF S(c).open /\ call[c].cb = "good" THEN Goto(c, "take") ELSE Return(c)
    /\ UNCHANGED <<session, creds, issued, exchanged, overlapped>>

\* Mutant: the session is read, and removed when the exchange has worked.
TakeWithoutRemoving(c) ==
    /\ At(c, "take")
    /\ IF S(c).open THEN Goto(c, "exchange") ELSE Return(c)
    /\ UNCHANGED <<session, creds, issued, exchanged, overlapped>>

\* The session is removed before anything is sent.
Take(c) ==
    /\ At(c, "take")
    /\ IF S(c).open THEN Close(call[c].s) /\ Goto(c, "exchange")
       ELSE Return(c) /\ UNCHANGED session
    /\ UNCHANGED <<creds, issued, exchanged, overlapped>>

\* Where a token leads: to the target of the session, or to a new credential.
UseToken(c) == Goto(c, IF S(c).target = 0 THEN "add" ELSE "disable")

\* exchange_code_for_token; the service takes a code once.
Exchange(c) ==
    /\ At(c, "exchange")
    /\ exchanged' = exchanged \cup {[s |-> call[c].s, cb |-> call[c].cb, by |-> c]}
    /\ \/ Return(c) /\ UNCHANGED issued
       \/ call[c].s \notin issued /\ issued' = issued \cup {call[c].s} /\ UseToken(c)
    /\ UNCHANGED <<session, creds, overlapped>>

-----------------------------------------------------------------------------
(* Device login *)

PollIdc(c, s) ==
    /\ At(c, "idle") /\ session[s].open /\ session[s].kind = "idc" /\ ~session[s].expired
    /\ call' = [call EXCEPT ![c] = [Idle EXCEPT !.pc = "poll", !.s = s]]
    /\ UNCHANGED <<session, creds, issued, exchanged, overlapped>>

\* poll_token: pending or an error; expired; a token, which the service issues
\* once.  Without a refresh token a relogin reports success and changes nothing.
PollToken(c) ==
    /\ At(c, "poll")
    /\ \/ Return(c) /\ UNCHANGED <<session, issued>>
       \/ Return(c) /\ Close(call[c].s) /\ UNCHANGED issued
       \/ /\ call[c].s \notin issued
          /\ issued' = issued \cup {call[c].s}
          /\ Close(call[c].s)
          /\ UseToken(c) \/ Return(c)
    /\ UNCHANGED <<creds, exchanged, overlapped>>

-----------------------------------------------------------------------------
(* add_credential *)

Token(c) == call[c].s
Tokens == {creds[k].token : k \in 1 .. Len(creds)}
Adding(d) == call[d].pc \in {"refresh", "number", "push"}

\* The same call by hand, with a token pasted into a form.
Import(c) ==
    /\ At(c, "idle") /\ Max(Ids \cup {0}) < MaxId
    /\ call' = [call EXCEPT ![c] = [Idle EXCEPT !.pc = "add", !.s = Imported]]
    /\ UNCHANGED <<session, creds, issued, exchanged, overlapped>>

\* The search for a duplicate, then the refresh that proves the token.
Add(c) ==
    /\ At(c, "add")
    /\ IF Token(c) \in Tokens THEN Return(c) ELSE Goto(c, "refresh")
    /\ overlapped' = (overlapped \/ \E d \in Calls \ {c} : Adding(d))
    /\ UNCHANGED <<session, creds, issued, exchanged>>

Refresh(c) ==
    /\ At(c, "refresh")
    /\ Goto(c, "number") \/ Return(c)
    /\ UNCHANGED <<session, creds, issued, exchanged, overlapped>>

Number(c) ==
    /\ At(c, "number")
    /\ call' = [call EXCEPT ![c].pc = "push", ![c].id = Max(Ids \cup {0}) + 1]
    /\ UNCHANGED <<session, creds, issued, exchanged, overlapped>>

MetaOf(t) == IF t \in Sessions /\ session[t].kind = "social" THEN {} ELSE {t}

\* The entry stays also when persist_credentials fails.
Push(c) ==
    /\ At(c, "push")
    /\ creds' = Append(creds, [id |-> call[c].id, token |-> Token(c), meta |-> MetaOf(Token(c)),
                               enabled |-> TRUE, odd |-> FALSE])
    /\ Return(c)
    /\ UNCHANGED <<session, issued, exchanged, overlapped>>

-----------------------------------------------------------------------------
(* do_relogin_update: four operations; each changes the entry and persists,  *)
(* and the call ends with the first one that finds no entry or cannot write. *)

Relogging(d) == call[d].pc \in {"disable", "token", "meta", "enable"}

Relogin(c, pc, next, entry) ==
    LET k == Pos(S(c).target)
    IN  /\ At(c, pc)
        /\ IF k = 0 THEN Return(c) /\ UNCHANGED creds
           ELSE /\ creds' = [creds EXCEPT ![k] = entry]
                /\ IF next = "idle" THEN Return(c) ELSE Goto(c, next) \/ Return(c)
        /\ UNCHANGED <<session, issued, exchanged>>

Target(c) == creds[Pos(S(c).target)]

SetDisabledFirst(c) ==
    /\ Relogin(c, "disable", "token", [Target(c) EXCEPT !.enabled = FALSE])
    /\ overlapped' = (overlapped \/ \E d \in Calls \ {c} :
                                       Relogging(d) /\ session[call[d].s].target = S(c).target)

TokenOfAnother(c) ==
    \E k \in 1 .. Len(creds) : k # Pos(S(c).target) /\ creds[k].token = Token(c)

\* Mutant: the metadata of the login is not stored.
UpdateRefreshTokenOnly(c) ==
    /\ At(c, "token")
    /\ IF Pos(S(c).target) = 0 \/ Target(c).enabled \/ TokenOfAnother(c)
       THEN Return(c) /\ UNCHANGED <<session, creds, issued, exchanged>>
       ELSE Relogin(c, "token", "enable", [Target(c) EXCEPT !.token = Token(c)])
    /\ UNCHANGED overlapped

\* update_refresh_token: not for a credential enabled meanwhile, and not a
\* token that another one has.
UpdateRefreshToken(c) ==
    /\ At(c, "token")
    /\ IF Pos(S(c).target) = 0 \/ Target(c).enabled \/ TokenOfAnother(c)
       THEN Return(c) /\ UNCHANGED <<session, creds, issued, exchanged>>
       ELSE Relogin(c, "token", "meta", [Target(c) EXCEPT !.token = Token(c)])
    /\ UNCHANGED overlapped

\* update_auth_metadata: the template of a social login has none to set.
UpdateAuthMetadata(c) ==
    /\ Relogin(c, "meta", "enable",
               IF S(c).kind = "idc" THEN [Target(c) EXCEPT !.meta = MetaOf(Token(c))]
               ELSE [Target(c) EXCEPT !.odd = @ \/ Target(c).meta # {}])
    /\ UNCHANGED overlapped

ResetAndEnable(c) ==
    /\ Relogin(c, "enable", "idle", [Target(c) EXCEPT !.enabled = TRUE, !.odd = @ /\ Target(c).meta # MetaOf(Target(c).token)])
    /\ UNCHANGED overlapped

-----------------------------------------------------------------------------
(* The list of credentials, by hand *)

SetDisabled(k, d) ==
    /\ creds' = [creds EXCEPT ![k].enabled = ~d, ![k].odd = @ \/ ~d]
    /\ UNCHANGED <<session, call, issued, exchanged, overlapped>>

Delete(k) ==
    /\ ~creds[k].enabled
    /\ creds' = Pick(creds, {j \in 1 .. Len(creds) : creds[j].id # creds[k].id})
    /\ overlapped' = (overlapped \/ \E c \in Calls : Relogging(c) /\ S(c).target = creds[k].id)
    /\ UNCHANGED <<session, call, issued, exchanged>>

Init ==
    /\ session = [s \in Sessions |-> NoSession]
    /\ call = [c \in Calls |-> Idle]
    /\ creds = <<[id |-> 1, token |-> 0, meta |-> {0}, enabled |-> TRUE, odd |-> FALSE]>>
    /\ issued = {} /\ exchanged = {} /\ overlapped = FALSE

Step(c) ==
    \/ \E s \in Sessions : PollSocial(c, s) \/ PollIdc(c, s)
                           \/ \E cb \in {"good", "forged"} : CompleteSocial(c, s, cb)
    \/ Verify(c) \/ Take(c) \/ Exchange(c) \/ PollToken(c)
    \/ Import(c) \/ Add(c) \/ Refresh(c) \/ Number(c) \/ Push(c)
    \/ SetDisabledFirst(c) \/ UpdateRefreshToken(c) \/ UpdateAuthMetadata(c) \/ ResetAndEnable(c)

Next ==
    \/ \E s \in Sessions :
         \/ StartSocialLogin(s) \/ StartIdcLogin(s)
         \/ \E id \in Ids : StartSocialRelogin(s, id) \/ StartIdcRelogin(s, id)
         \/ Expire(s)
         \/ \E cb \in {"good", "forged", "closed"} : Callback(s, cb)
    \/ \E c \in Calls : Step(c)
    \/ \E k \in 1 .. Len(creds) : Delete(k) \/ \E d \in BOOLEAN : SetDisabled(k, d)

Spec == Init /\ [][Next]_vars
-----------------------------------------------------------------------------
\* The code of a social login is sent once at most, whichever of the polls and
\* pasted addresses that run at the same time is first, and never one that came
\* with the state of another login.  (do_complete_social_login.)
CodeUsedOnce ==
    \A e \in exchanged : e.cb = "good" /\ \A f \in exchanged : e.s = f.s => e = f

\* Ids and tokens are unique, and a credential that no hand enabled has the
\* metadata its token needs, whatever login failed half way, provided that no
\* two additions overlapped, and no two logins or a login and a deletion of one
\* credential.
\* (add_credential, do_relogin_update.)
CredentialsCoherent ==
    ~overlapped =>
        \A k \in 1 .. Len(creds) :
            /\ creds[k].enabled /\ ~creds[k].odd => creds[k].meta = MetaOf(creds[k].token)
            /\ \A j \in 1 .. Len(creds) \ {k} :
                  creds[j].id # creds[k].id /\ creds[j].token # creds[k].token
=============================================================================
