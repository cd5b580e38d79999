------------------------------ MODULE MCParts ------------------------------
(***************************************************************************)
(* The parts of the program that do not share state with each other, one   *)
(* at a time: the initial state says which part runs, and the others rest  *)
(* in their initial states.  Every state of a part is reached by the steps *)
(* of that part alone, as in a run of its own.                             *)
(*                                                                         *)
(* ClientCache is extended; the other modules are instantiated, with names *)
(* of their own for the variables that two of them have.                   *)
(***************************************************************************)
EXTENDS ClientCache, TLC

CONSTANTS
    p1, p2, p3,   \* proxies
    admin,        \* a process that is alone
    c1, c2        \* processes that run at the same time: lookups, checks, calls

\* The parameters of FrameDecoder, ConfigStore, ClientKeys, UsageLog, ProxyPool,
\* OnlineUpdate and Login.
CONSTANTS
    FrameSets, Garbage, ChunkSizes, PreludeSize, MinMessage, MaxMessage, MaxErrors, MaxBuffer,
    Callers, Values, MaxRestarts,
    MaxKeys, MaxAdmitted, MaxBoots,
    RetentionDays, DayBuckets, FlushEvery, Retentions, MaxDay, MaxRecords,
    Urls, MaxProbeFailures, Checks, MaxAdds, MaxUnsaved,
    Calls, MaxVersion,
    Sessions, Imported, MaxId

OneCall == {admin}
TwoCalls == {c1, c2}
ThreeProxies == {p1, p2, p3}
Symmetric == Permutations(TwoCalls)

VARIABLE part   \* the part that runs

-----------------------------------------------------------------------------
VARIABLES frames, garbage, fed, buffer, state, errors, decoded, pc, dropped
decoderVars == <<frames, garbage, fed, buffer, state, errors, decoded, pc, dropped>>

Frame(kind, size) == [kind |-> kind, size |-> size]
SomeFrames == {Frame("ok", 3), Frame("ok", 4), Frame("bad_crc", 5), Frame("bad_header", 3),
               Frame("bad_prelude", 3), Frame("bad_prelude", 4)}
ThreeFrames == [1 .. 3 -> SomeFrames]

D == INSTANCE FrameDecoder

\* A message has at least a prelude; what the upstream sends has at least the
\* size of a message, and what it sends undamaged is not too large.
ASSUME DecoderAssumption ==
    /\ PreludeSize \in Nat \ {0} /\ MinMessage \in Nat /\ MaxMessage \in Nat
    /\ PreludeSize <= MinMessage
    /\ MaxErrors \in Nat /\ MaxBuffer \in Nat /\ ChunkSizes \subseteq Nat /\ Garbage \subseteq Nat
    /\ \A s \in FrameSets :
         /\ s \in Seq([kind : D!Kinds, size : Nat])
         /\ \A k \in DOMAIN s :
              s[k].size >= MinMessage /\ (s[k].kind = "ok" => s[k].size <= MaxMessage)

VARIABLES file, config, config_running, provider, config_call, failed, globals, restarts
configVars == <<file, config, config_running, provider, config_call, failed, globals,
                restarts>>

C == INSTANCE ConfigStore WITH running <- config_running, call <- config_call

VARIABLES keys, key_next_id, dirty_usage, keyFile, admitted, made, count, key_boots, revoked,
          key_unsaved
keyVars == <<keys, key_next_id, dirty_usage, keyFile, admitted, made, count, key_boots,
             revoked, key_unsaved>>

K == INSTANCE ClientKeys WITH
       next_id <- key_next_id, boots <- key_boots, unsaved <- key_unsaved

VARIABLES day, log, writer, retention, buckets, traces, attempts, recorded, unlogged, erased
usageVars == <<day, log, writer, retention, buckets, traces, attempts, recorded, unlogged,
               erased>>

U == INSTANCE UsageLog

\* A start reads the files of all days that have a bucket.
ASSUME UsageAssumption ==
    /\ RetentionDays \in Nat /\ DayBuckets \in Nat /\ DayBuckets <= RetentionDays + 1
    /\ Retentions \subseteq Nat /\ MaxDay \in Nat \ {0}

VARIABLES pool, next_id, poolFile, checks, unsaved, behind, boots
proxyVars == <<pool, next_id, poolFile, checks, unsaved, behind, boots>>

P == INSTANCE ProxyPool

VARIABLES exe, backup, aside, staged, running, prev, prevFile, latest, call, exiting, moved,
          ran, overlapped
updateVars == <<exe, backup, aside, staged, running, prev, prevFile, latest, call, exiting,
                moved, ran, overlapped>>

O == INSTANCE OnlineUpdate

VARIABLES session, login_call, creds, issued, exchanged, login_overlapped
loginVars == <<session, login_call, creds, issued, exchanged, login_overlapped>>

L == INSTANCE Login WITH call <- login_call, overlapped <- login_overlapped

-----------------------------------------------------------------------------
\* What a part's Init leaves open is fixed where the part rests.
PartsInit ==
    /\ part \in {"cache", "decoder", "config", "keys", "usage", "proxies", "update", "login"}
    /\ Init /\ (part # "cache" => global_proxy = Direct)
    /\ frames \in (IF part = "decoder" THEN ThreeFrames ELSE {[k \in 1 .. 3 |-> Frame("ok", 3)]})
    /\ D!Init /\ (part # "decoder" => garbage = 0)
    /\ C!Init
    /\ K!Init /\ (part # "keys" => keys = K!NoKeys)
    /\ U!Init /\ (part # "usage" => retention = 1)
    /\ P!Init /\ O!Init /\ L!Init

CacheStep ==
    /\ part = "cache" /\ Next
    /\ UNCHANGED <<part, decoderVars, configVars, keyVars, usageVars, proxyVars, updateVars, loginVars>>

DecoderStep ==
    /\ part = "decoder" /\ D!Next
    /\ UNCHANGED <<part, vars, configVars, keyVars, usageVars, proxyVars, updateVars, loginVars>>

ConfigStep ==
    /\ part = "config" /\ C!Next
    /\ UNCHANGED <<part, vars, decoderVars, keyVars, usageVars, proxyVars, updateVars, loginVars>>

KeysStep ==
    /\ part = "keys" /\ K!Next
    /\ UNCHANGED <<part, vars, decoderVars, configVars, usageVars, proxyVars, updateVars, loginVars>>

UsageStep ==
    /\ part = "usage" /\ U!Next
    /\ UNCHANGED <<part, vars, decoderVars, configVars, keyVars, proxyVars, updateVars, loginVars>>

ProxiesStep ==
    /\ part = "proxies" /\ P!Next
    /\ UNCHANGED <<part, vars, decoderVars, configVars, keyVars, usageVars, updateVars, loginVars>>

UpdateStep ==
    /\ part = "update" /\ O!Next
    /\ UNCHANGED <<part, vars, decoderVars, configVars, keyVars, usageVars, proxyVars, loginVars>>

\* Bound: the property of the logins says nothing once changes have overlapped.
LoginStep ==
    /\ part = "login" /\ ~login_overlapped /\ L!Next
    /\ UNCHANGED <<part, vars, decoderVars, configVars, keyVars, usageVars, proxyVars, updateVars>>

PartsNext ==
    \/ CacheStep \/ DecoderStep \/ ConfigStep \/ KeysStep
    \/ UsageStep \/ ProxiesStep \/ UpdateStep \/ LoginStep

PartsSpec ==
    /\ PartsInit
    /\ [][PartsNext]_<<part, vars, decoderVars, configVars, keyVars, usageVars, proxyVars, updateVars, loginVars>>
-----------------------------------------------------------------------------
\* FrameDecoder: damaged, cut and dropped pieces of the stream never lead
\* EventStreamDecoder to return a frame twice, out of order or damaged, nor to
\* throw an intact one away, and a clean stream is decoded as it arrives.
IntactFramesKept == D!IntactFramesKept

\* ConfigStore: between calls of the Admin API, what is in use is what a restart
\* finds in config.json, as far as the setters promise.
SettersPersist == C!SettersPersist

\* ClientKeys: verify_and_touch accepts no deleted and no disabled key, before and
\* after a restart.
RevokedRefused == [][K!OnlyLiveKeysAdmitted]_keyVars

\* ClientKeys: record_usage charges the key that was used and the totals reach
\* the file.
TotalsTrue == K!TotalsTrue

\* UsageLog: the chart of UsageAggregator counts every line of the log once.
ChartMatchesLog == U!ChartMatchesLog

\* ProxyPool: what check_all and check_one store late reaches only the proxy that
\* was probed and does not undo a change by hand.
ProbesKeepToTheirProxy == P!ProbesKeepToTheirProxy

\* OnlineUpdate: a binary that has run survives every crash and failed rename of
\* install_binary and restore_backup.
KnownGoodKept == O!KnownGoodKept

\* Login: a code of a social login is sent to the token endpoint once.
CodeUsedOnce == L!CodeUsedOnce

\* Login: ids, tokens and metadata of the credentials stay coherent through logins
\* that fail half way.
CredentialsCoherent == L!CredentialsCoherent
=============================================================================
