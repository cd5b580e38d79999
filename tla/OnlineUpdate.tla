---------------------------- MODULE OnlineUpdate ----------------------------
(***************************************************************************)
(* The online update (src/admin/binary_update.rs and pull_update_image,    *)
(* apply_image_update, rollback_image_update of the admin service): files  *)
(* beside the executable that are copied, renamed and removed one by one,  *)
(* by calls that may overlap, in a process that may die at any point and   *)
(* is started again from whatever is then at the path of the executable.   *)
(*                                                                         *)
(* A binary is [v, whole]: its version, and whether all of it is there.    *)
(* Every rename may fail.  On Linux the path a process finds for itself    *)
(* follows its file, so a call that begins after the executable was moved  *)
(* works beside another name; such calls, possible for the two seconds     *)
(* until the process exits, are not modelled.                              *)
(***************************************************************************)
EXTENDS Naturals

CONSTANTS
    Calls,       \* admin requests and the scheduler
    MaxVersion   \* bound of the model: the newest release

VARIABLES
    exe, backup, aside,   \* <exe>, <exe>.backup, <exe>.rollback-current
    staged,               \* <exe>.staged-<version>: "none", "part", "whole"
    running,              \* version of the process; 0: it does not start
    prev, prevFile,       \* previous_version, in use and in config.json
    latest,               \* the newest release
    call,                 \* [pc, op, v] of every call
    exiting, moved,       \* schedule_self_exit was called; exe was moved
    ran,                  \* history: versions that have run
    overlapped            \* history: two installations or rollbacks overlapped

files == <<exe, backup, aside>>
conf == <<prev, prevFile>>
vars == <<files, staged, running, conf, latest, call, exiting, moved, ran, overlapped>>

Nothing == [v |-> 0, whole |-> FALSE]
Idle == [pc |-> "idle", op |-> "none", v |-> 0]
Versions == 1 .. MaxVersion

At(c, pc) == running # 0 /\ call[c].pc = pc
Goto(c, pc) == call' = [call EXCEPT ![c].pc = pc]
Return(c) == call' = [call EXCEPT ![c] = Idle]

-----------------------------------------------------------------------------
\* The scheduler starts the same call as the button does, at its time of day.
Start(c, op) ==
    /\ At(c, "idle") /\ ~moved
    /\ call' = [call EXCEPT ![c] = [pc |-> IF op = "rollback" THEN "rollback" ELSE "resolve",
                                    op |-> op, v |-> 0]]
    /\ op = "rollback" => prev # 0
    /\ UNCHANGED <<files, staged, running, conf, latest, exiting, moved, ran, overlapped>>

\* resolve_target_version; a file of that version is taken as it is.
Resolve(c) ==
    /\ At(c, "resolve")
    /\ \/ Return(c)
       \/ /\ call[c].op = "apply" => latest > running
          /\ call' = [call EXCEPT ![c].v = latest,
                                  ![c].pc = IF staged[latest] = "none" THEN "download" ELSE "clean"]
    /\ UNCHANGED <<files, staged, running, conf, latest, exiting, moved, ran, overlapped>>

\* download_to_file, into a directory of its own.
Download(c) ==
    /\ At(c, "download")
    /\ Return(c) \/ Goto(c, "verify")
    /\ UNCHANGED <<files, staged, running, conf, latest, exiting, moved, ran, overlapped>>

\* verify_checksum, extract_archive, locate_binary; only a verified binary is
\* copied.  fs::copy truncates the file and then fills it.
Verify(c) ==
    /\ At(c, "verify")
    /\ \/ Return(c) /\ UNCHANGED staged
       \/ Goto(c, "copy") /\ staged' = [staged EXCEPT ![call[c].v] = "part"]
    /\ UNCHANGED <<files, running, conf, latest, exiting, moved, ran, overlapped>>

\* Two copies into one file leave it whole when the last one ends.
Copy(c) ==
    /\ At(c, "copy")
    /\ \/ Return(c) /\ UNCHANGED staged
       \/ /\ Goto(c, "clean")
          /\ staged' = IF \E d \in Calls \ {c} : call[d].pc = "copy" /\ call[d].v = call[c].v
                       THEN staged ELSE [staged EXCEPT ![call[c].v] = "whole"]
    /\ UNCHANGED <<files, running, conf, latest, exiting, moved, ran, overlapped>>

\* cleanup_other_staged; this is all of a pull.
Clean(c) ==
    /\ At(c, "clean")
    /\ staged' = [v \in Versions |-> IF v = call[c].v THEN staged[v] ELSE "none"]
    /\ IF call[c].op = "apply" THEN Goto(c, "remove") ELSE Return(c)
    /\ UNCHANGED <<files, running, conf, latest, exiting, moved, ran, overlapped>>

-----------------------------------------------------------------------------
(* install_binary *)

Overlapping(c) ==
    overlapped \/ moved \/ \E d \in Calls \ {c} : call[d].pc \in {"move", "install", "restore"}

RemoveBackup(c) ==
    /\ At(c, "remove")
    /\ backup' \in {backup, Nothing}
    /\ overlapped' = Overlapping(c)
    /\ Goto(c, "move")
    /\ UNCHANGED <<exe, aside, staged, running, conf, latest, exiting, moved, ran>>

\* Mutant: the backup is removed when the new one is already there.
MoveExeThenRemove(c) ==
    /\ At(c, "move")
    /\ exe # Nothing /\ exe' = Nothing /\ backup' = Nothing /\ moved' = TRUE /\ Goto(c, "install")
    /\ UNCHANGED <<aside, staged, running, conf, latest, exiting, ran, overlapped>>

MoveExe(c) ==
    /\ At(c, "move")
    /\ \/ Return(c) /\ UNCHANGED <<exe, backup, moved>>
       \/ exe # Nothing /\ exe' = Nothing /\ backup' = exe /\ moved' = TRUE /\ Goto(c, "install")
    /\ UNCHANGED <<aside, staged, running, conf, latest, exiting, ran, overlapped>>

\* When the new file cannot be moved the old one is put back, if that works.
Install(c) ==
    /\ At(c, "install")
    /\ \/ /\ staged[call[c].v] # "none"
          /\ exe' = [v |-> call[c].v, whole |-> staged[call[c].v] = "whole"]
          /\ staged' = [staged EXCEPT ![call[c].v] = "none"]
          /\ Goto(c, "record")
          /\ UNCHANGED backup
       \/ /\ \/ backup # Nothing /\ exe' = backup /\ backup' = Nothing
             \/ UNCHANGED <<exe, backup>>
          /\ UNCHANGED staged
          /\ Return(c)
    /\ UNCHANGED <<aside, running, conf, latest, exiting, moved, ran, overlapped>>

\* previous_version, and its copy in config.json unless the write fails.
Record(c) ==
    /\ At(c, "record")
    /\ prev' = running
    /\ prevFile' \in {prevFile, running}
    /\ exiting' = TRUE
    /\ Return(c)
    /\ UNCHANGED <<files, staged, running, latest, moved, ran, overlapped>>

-----------------------------------------------------------------------------
(* restore_backup, and what rollback_image_update does after it *)

SetAside(c) ==
    /\ At(c, "rollback")
    /\ \/ Return(c) /\ aside' \in {aside, Nothing} /\ UNCHANGED <<exe, moved, overlapped>>
       \/ /\ backup # Nothing /\ exe # Nothing
          /\ exe' = Nothing /\ aside' = exe /\ moved' = TRUE
          /\ overlapped' = Overlapping(c)
          /\ Goto(c, "restore")
    /\ UNCHANGED <<backup, staged, running, conf, latest, exiting, ran>>

Restore(c) ==
    /\ At(c, "restore")
    /\ \/ backup # Nothing /\ exe' = backup /\ backup' = Nothing /\ Goto(c, "forget") /\ UNCHANGED aside
       \/ /\ \/ aside # Nothing /\ exe' = aside /\ aside' = Nothing
             \/ UNCHANGED <<exe, aside>>
          /\ UNCHANGED backup
          /\ Return(c)
    /\ UNCHANGED <<staged, running, conf, latest, exiting, moved, ran, overlapped>>

Forget(c) ==
    /\ At(c, "forget")
    /\ aside' \in {aside, Nothing}
    /\ staged' = [v \in Versions |-> "none"]
    /\ prev' = 0
    /\ prevFile' \in {prevFile, 0}
    /\ exiting' = TRUE
    /\ Return(c)
    /\ UNCHANGED <<exe, backup, running, latest, moved, ran, overlapped>>

-----------------------------------------------------------------------------
Publish ==
    /\ latest < MaxVersion
    /\ latest' = latest + 1
    /\ UNCHANGED <<files, staged, running, conf, call, exiting, moved, ran, overlapped>>

\* The process exits as scheduled or dies, and is started again.  What is only
\* part of a binary, or nothing, does not start.
Restart ==
    /\ running # 0
    /\ running' = IF exe.whole THEN exe.v ELSE 0
    /\ ran' = IF exe.whole THEN ran \cup {exe.v} ELSE ran
    /\ prev' = prevFile
    /\ call' = [c \in Calls |-> Idle]
    /\ exiting' = FALSE /\ moved' = FALSE
    /\ UNCHANGED <<files, staged, prevFile, latest, overlapped>>

Init ==
    /\ exe = [v |-> 1, whole |-> TRUE] /\ backup = Nothing /\ aside = Nothing
    /\ staged = [v \in Versions |-> "none"]
    /\ running = 1 /\ prev = 0 /\ prevFile = 0 /\ latest = 1
    /\ call = [c \in Calls |-> Idle]
    /\ exiting = FALSE /\ moved = FALSE /\ ran = {1} /\ overlapped = FALSE

Step(c) ==
    \/ \E op \in {"pull", "apply", "rollback"} : Start(c, op)
    \/ Resolve(c) \/ Download(c) \/ Verify(c) \/ Copy(c) \/ Clean(c)
    \/ RemoveBackup(c) \/ MoveExe(c) \/ Install(c) \/ Record(c)
    \/ SetAside(c) \/ Restore(c) \/ Forget(c)

Next == (\E c \in Calls : Step(c)) \/ Publish \/ Restart

Spec == Init /\ [][Next]_vars
-----------------------------------------------------------------------------
\* As long as installations and rollbacks do not overlap, a whole binary that has
\* run before is beside the executable or in its place at every moment, so also
\* when the process dies between two renames or a rename fails.
\* (install_binary, restore_backup.)
KnownGoodKept ==
    ~overlapped => \E f \in {exe, backup, aside} : f.whole /\ f.v \in ran
=============================================================================
