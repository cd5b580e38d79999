---------------------------- MODULE ConfigStore ----------------------------
(***************************************************************************)
(* Settings that are changed at run time: config.json, the Config that     *)
(* MultiTokenManager read from it at the start, and the copies in use.     *)
(* (admin/service.rs, kiro/token_manager.rs, model/config.rs.)             *)
(*                                                                         *)
(* Most setters change the value in use, then load the file, change their  *)
(* field and save the file, without a lock.  update_global_config starts   *)
(* from the Config in memory instead.  A call is a process; it stands      *)
(* between loading and saving, and either may fail.  One field stands for  *)
(* each kind of setter:                                                    *)
(*   key     admin_api_key, api_key, the settings of the online update     *)
(*   mode    load_balancing_mode, the retry policy, the account throttle:  *)
(*           the value in use is rolled back when the file is not written  *)
(*   trace   the settings of traces and usage logs                         *)
(*   proxy   the global proxy, of which KiroProvider has a copy            *)
(*   region  what only update_global_config sets                           *)
(***************************************************************************)
EXTENDS Naturals

CONSTANTS
    Callers,        \* concurrent calls of the Admin API
    Values,         \* values of a field
    MaxRestarts     \* bound on restarts of the process

Fields == {"key", "mode", "trace", "proxy", "region"}
Config == [Fields -> Values]

VARIABLES
    file,      \* config.json
    config,    \* MultiTokenManager::config
    running,   \* the values in use; proxy: the one of the token manager
    provider,  \* KiroProvider::global_proxy
    call,      \* [Callers -> Call]
    failed,    \* history: the file could not be read or written since the start
    globals,   \* history: update_global_config was called since the start
    restarts

vars == <<file, config, running, provider, call, failed, globals, restarts>>

Call == [pc : {"idle", "load", "save", "global", "apply"}, field : Fields, value : Values,
         previous : Values, cfg : Config]

NoCall == [pc |-> "idle", field |-> "key", value |-> 0, previous |-> 0,
           cfg |-> [f \in Fields |-> 0]]

Finish(c) == call' = [call EXCEPT ![c] = NoCall]
-----------------------------------------------------------------------------
(***************************************************************************)
(* The setters of one field.                                               *)
(***************************************************************************)
Set(c, f, v) ==
    /\ call[c].pc = "idle"
    /\ f = "mode" => running[f] # v
    /\ running' = [running EXCEPT ![f] = v]
    /\ provider' = IF f = "proxy" THEN v ELSE provider
    /\ call' = [call EXCEPT ![c] = [@ EXCEPT !.pc = "load", !.field = f, !.value = v,
                                             !.previous = running[f]]]
    /\ UNCHANGED <<file, config, failed, globals, restarts>>

SetKey(c, v) == Set(c, "key", v)
SetMode(c, v) == Set(c, "mode", v)
SetTrace(c, v) == Set(c, "trace", v)
SetProxy(c, v) == Set(c, "proxy", v)

\* set_global_proxy: the provider cannot build a client for the new proxy, after
\* the token manager has taken it over.
SetProxyFails(c, v) ==
    /\ call[c].pc = "idle"
    /\ running' = [running EXCEPT !["proxy"] = v]
    /\ failed' = TRUE
    /\ UNCHANGED <<file, config, provider, call, globals, restarts>>

\* Mutant: the field is set in the Config in memory.
Load_from_memory(c) ==
    /\ call[c].pc = "load"
    /\ call' = [call EXCEPT ![c] = [@ EXCEPT !.pc = "save", !.cfg = config]]
    /\ UNCHANGED <<file, config, running, provider, failed, globals, restarts>>

Load(c) ==
    /\ call[c].pc = "load"
    /\ call' = [call EXCEPT ![c] = [@ EXCEPT !.pc = "save", !.cfg = file]]
    /\ UNCHANGED <<file, config, running, provider, failed, globals, restarts>>

Save(c) ==
    /\ call[c].pc = "save"
    /\ file' = [call[c].cfg EXCEPT ![call[c].field] = call[c].value]
    /\ Finish(c)
    /\ UNCHANGED <<config, running, provider, failed, globals, restarts>>

\* The file cannot be loaded or saved.
PersistFails(c) ==
    /\ call[c].pc \in {"load", "save"}
    /\ running' = IF call[c].field = "mode"
                  THEN [running EXCEPT !["mode"] = call[c].previous] ELSE running
    /\ failed' = TRUE
    /\ Finish(c)
    /\ UNCHANGED <<file, config, provider, globals, restarts>>

-----------------------------------------------------------------------------
(***************************************************************************)
(* update_global_config.                                                   *)
(***************************************************************************)
GlobalStart(c, f, v) ==
    /\ call[c].pc = "idle"
    /\ call' = [call EXCEPT ![c] = [@ EXCEPT !.pc = "global", !.field = f, !.value = v,
                                             !.cfg = [config EXCEPT ![f] = v]]]
    /\ UNCHANGED <<file, config, running, provider, failed, globals, restarts>>

GlobalSave(c) ==
    /\ call[c].pc = "global"
    /\ \/ file' = call[c].cfg /\ call' = [call EXCEPT ![c].pc = "apply"] /\ UNCHANGED failed
       \/ failed' = TRUE /\ Finish(c) /\ UNCHANGED file
    /\ globals' = TRUE
    /\ UNCHANGED <<config, running, provider, restarts>>

\* Everything this call owns is taken over, changed or not; only the provider's
\* copy of the proxy is left alone unless the proxy was asked to change.
GlobalApply(c) ==
    /\ call[c].pc = "apply"
    /\ config' = call[c].cfg
    /\ running' = [running EXCEPT !["proxy"] = call[c].cfg["proxy"],
                                  !["trace"] = call[c].cfg["trace"],
                                  !["region"] = call[c].cfg["region"]]
    /\ provider' = IF call[c].field = "proxy" THEN call[c].cfg["proxy"] ELSE provider
    /\ Finish(c)
    /\ UNCHANGED <<file, failed, globals, restarts>>

-----------------------------------------------------------------------------
\* The process ends at any time and starts again from the file.
Restart ==
    /\ restarts < MaxRestarts
    /\ restarts' = restarts + 1
    /\ config' = file /\ running' = file /\ provider' = file["proxy"]
    /\ call' = [c \in Callers |-> NoCall]
    /\ failed' = FALSE /\ globals' = FALSE
    /\ UNCHANGED file

Init ==
    /\ file = [f \in Fields |-> 0]
    /\ config = file /\ running = file /\ provider = 0
    /\ call = [c \in Callers |-> NoCall]
    /\ failed = FALSE /\ globals = FALSE /\ restarts = 0

Next ==
    \/ \E c \in Callers :
         \/ \E v \in Values : \/ SetKey(c, v) \/ SetMode(c, v) \/ SetTrace(c, v)
                              \/ SetProxy(c, v) \/ SetProxyFails(c, v)
         \/ Load(c) \/ Save(c) \/ PersistFails(c)
         \/ \E f \in {"region", "proxy", "trace"}, v \in Values : GlobalStart(c, f, v)
         \/ GlobalSave(c) \/ GlobalApply(c)
    \/ Restart

Spec == Init /\ [][Next]_vars
-----------------------------------------------------------------------------
Idle == \A c \in Callers : call[c].pc = "idle"

\* Between calls, what is in use is what a restart will find: for every field as
\* long as the file could be written and update_global_config was not called, so
\* the other setters do not undo each other; for the settings that are rolled
\* back also after failures of the file system; and what only
\* update_global_config sets always, in the Config in memory too.
\* (update_config_file, set_load_balancing_mode, update_global_config.)
SettersPersist ==
    Idle => /\ ~failed /\ ~globals => \A f \in Fields : file[f] = running[f]
            /\ ~globals => file["mode"] = running["mode"]
            /\ file["region"] = running["region"] /\ config["region"] = running["region"]

\* "Each call reads the latest file before it writes, so that calls do not
\* overwrite each other's fields": the same whichever calls were made.
SettingsPersist == Idle /\ ~failed => \A f \in Fields : file[f] = running[f]
=============================================================================
