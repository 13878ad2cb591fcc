------------------------------- MODULE Settings -------------------------------
(***************************************************************************)
(* The configuration file and its writers.                                 *)
(*                                                                         *)
(* The settings service of the running process and the command that resets *)
(* the administrator's password both read the whole TOML file, change some *)
(* fields and replace the file.  Environment variables lie over the file   *)
(* when the process starts; fields the browser cannot edit are written     *)
(* back only if the file had them.  A field stands for its group: two      *)
(* editable limits checked against each other, a secret that may come from *)
(* the environment, and the password of the administrator.                 *)
(***************************************************************************)
EXTENDS Integers, FiniteSets

CONSTANTS
    Updates,     \* concurrent requests to change settings
    Envs,        \* environments a process is started in: the fields they set
    MaxResets,   \* password resets
    MaxFaults    \* failed writes and crashes

VARIABLES
    file,        \* field -> value, or NoFile
    env,         \* fields the environment sets
    up, running, \* the process and the configuration it started with
    effective, restart,   \* what the settings service reports
    lock,        \* holder of the service's write lock, or 0
    upd,         \* update -> its progress
    cli,         \* progress of reset-password
    initialPassword,      \* the file with the generated password
    resets, faults,
    saved,       \* history: field -> what the last update of it wrote
    unread,      \* history: an update replaced the file and could not read it back
    torn         \* history: a writer replaced a file it had not read, or reset-password died half-way

vars == <<file, env, up, running, effective, restart, lock, upd, cli, initialPassword, resets, faults, saved, unread, torn>>

Editable == {"max_connections", "max_requests"}
Manual == {"private_key", "password_hash"}
Fields == Editable \cup Manual

Absent == -1
Empty == 0
EnvValue == 4        \* what the environment sets, different from every value of the file
Limits == 0..2       \* requested limits; 0 is refused by validation
NoFile == [f \in Fields |-> -2]

DefaultConfig == [f \in Fields |-> IF f = "max_connections" THEN 2 ELSE IF f = "max_requests" THEN 1 ELSE Empty]

\* What `synaps3 init` leaves: defaults commented out, manual fields enabled.
InitAppDataDir == [f \in Fields |-> IF f \in Editable THEN Absent ELSE IF f = "private_key" THEN Empty ELSE 1]

(***************************************************************************)
(* Reading and writing the file.                                           *)
(***************************************************************************)
FileConfig(F) == [f \in Fields |-> IF F = NoFile \/ F[f] = Absent THEN DefaultConfig[f] ELSE F[f]]

\* Load: the environment over the file over the defaults.
Load(F) == [f \in Fields |-> IF f \in env THEN EnvValue ELSE FileConfig(F)[f]]

\* LoadFileForSettings: the file alone, with the manual fields it has.
LoadFileForSettings(F) ==
    [cfg |-> FileConfig(F), has |-> IF F = NoFile THEN Manual ELSE {f \in Manual : F[f] # Absent}]

\* save: every editable field is written, a manual one only if it was there.
Rendered(d) == [f \in Fields |-> IF f \in Editable \cup d.has THEN d.cfg[f] ELSE Absent]

\* FieldValidationErrors, as far as the editable fields go.
EditableValid(cfg) ==
    /\ cfg["max_connections"] >= 1 /\ cfg["max_requests"] >= 1
    /\ cfg["max_requests"] <= cfg["max_connections"]

EnvManaged == env

TypeOK ==
    /\ file \in [Fields -> -2..4] /\ env \subseteq Fields
    /\ {up, restart, unread, torn} \subseteq BOOLEAN
    /\ running \in [Fields -> -1..4] /\ effective \in [Fields -> -1..4]
    /\ lock \in Updates \cup {0}
    /\ \A u \in Updates : upd[u].pc \in {"idle", "draft", "saved", "reloaded", "over"}
    /\ cli.pc \in {"idle", "loaded", "written"}
    /\ initialPassword \in 0..4 /\ resets \in 0..MaxResets /\ faults \in 0..MaxFaults

NoDraft == [cfg |-> DefaultConfig, has |-> {}]
Idle == [pc |-> "idle", draft |-> NoDraft, req |-> {}, eff |-> DefaultConfig]
CliIdle == [pc |-> "idle", draft |-> NoDraft, backup |-> 0]

Init ==
    /\ file \in {NoFile, InitAppDataDir}
    /\ env \in Envs
    /\ up = TRUE /\ running = Load(file) /\ effective = Load(file) /\ restart = FALSE
    /\ lock = 0 /\ upd = [u \in Updates |-> Idle]
    /\ cli = CliIdle /\ initialPassword = FileConfig(file)["password_hash"] /\ resets = 0 /\ faults = 0
    /\ saved = [f \in Editable |-> Absent] /\ unread = FALSE /\ torn = FALSE

\* A draft whose fields F are no longer what the file has.
Undoes(d, F) == \E f \in F : d.cfg[f] # FileConfig(file)[f]

Fault == faults < MaxFaults /\ faults' = faults + 1

(***************************************************************************)
(* The settings service.                                                   *)
(***************************************************************************)
\* Mutant of WriteLockFree: updates are not serialised.
WriteLockIgnored == TRUE

WriteLockFree == lock = 0

\* settingsDraft: the file as it is now, with the requested fields; a field
\* of the environment or an invalid result ends the request.
SettingsDraft(u) ==
    /\ up /\ upd[u].pc = "idle" /\ WriteLockFree
    /\ \E S \in (SUBSET Editable) \ {{}} : \E v \in [S -> Limits] :
        LET now == LoadFileForSettings(file)
            next == [now EXCEPT !.cfg = [f \in Fields |-> IF f \in S THEN v[f] ELSE @[f]]]
        IN  IF S \cap EnvManaged = {} /\ EditableValid(next.cfg)
            THEN /\ lock' = u
                 /\ upd' = [upd EXCEPT ![u] = [Idle EXCEPT !.pc = "draft", !.draft = next, !.req = S]]
            ELSE /\ upd' = [upd EXCEPT ![u].pc = "over"]
                 /\ UNCHANGED lock
    /\ UNCHANGED <<file, env, up, running, effective, restart, cli, initialPassword, resets, faults, saved, unread, torn>>

\* A temporary file is written and renamed over the file.
SaveForSettings(u) ==
    /\ upd[u].pc = "draft"
    /\ file' = Rendered(upd[u].draft)
    /\ upd' = [upd EXCEPT ![u].pc = "saved"]
    /\ saved' = [f \in Editable |-> IF f \in upd[u].req THEN upd[u].draft.cfg[f] ELSE saved[f]]
    /\ torn' = (torn \/ Undoes(upd[u].draft, {"password_hash"}))
    /\ UNCHANGED <<env, up, running, effective, restart, lock, cli, initialPassword, resets, faults, unread>>

SaveFails(u) ==
    /\ upd[u].pc = "draft" /\ Fault
    /\ upd' = [upd EXCEPT ![u] = [Idle EXCEPT !.pc = "over"]]
    /\ lock' = 0
    /\ UNCHANGED <<file, env, up, running, effective, restart, cli, initialPassword, resets, saved, unread, torn>>

Reload(u) ==
    /\ upd[u].pc = "saved"
    /\ upd' = [upd EXCEPT ![u].pc = "reloaded", ![u].eff = Load(file)]
    /\ UNCHANGED <<file, env, up, running, effective, restart, lock, cli, initialPassword, resets, faults, saved, unread, torn>>

Acknowledge(u) ==
    /\ upd[u].pc = "reloaded"
    /\ effective' = upd[u].eff /\ restart' = TRUE /\ unread' = FALSE
    /\ lock' = 0
    /\ upd' = [upd EXCEPT ![u] = [Idle EXCEPT !.pc = "over"]]
    /\ UNCHANGED <<file, env, up, running, cli, initialPassword, resets, faults, saved, torn>>

\* LoadSource or LoadFileForSettings fails: the file is replaced, and the service
\* reports what it did before.
ReloadFails(u) ==
    /\ upd[u].pc \in {"saved", "reloaded"} /\ Fault
    /\ upd' = [upd EXCEPT ![u] = [Idle EXCEPT !.pc = "over"]]
    /\ lock' = 0 /\ unread' = TRUE
    /\ UNCHANGED <<file, env, up, running, effective, restart, cli, initialPassword, resets, saved, torn>>

(***************************************************************************)
(* The process stops, or dies, and starts again in some environment.       *)
(***************************************************************************)
Stop ==
    /\ up /\ Fault
    /\ up' = FALSE /\ lock' = 0
    /\ upd' = [u \in Updates |-> IF upd[u].pc \in {"idle", "over"} THEN upd[u] ELSE [Idle EXCEPT !.pc = "over"]]
    /\ UNCHANGED <<file, env, running, effective, restart, cli, initialPassword, resets, saved, unread, torn>>

Start ==
    /\ ~up /\ up' = TRUE
    /\ env' \in Envs
    /\ running' = [f \in Fields |-> IF f \in env' THEN EnvValue ELSE FileConfig(file)[f]]
    /\ effective' = running' /\ restart' = FALSE /\ unread' = FALSE
    /\ UNCHANGED <<file, lock, upd, cli, initialPassword, resets, faults, saved, torn>>

(***************************************************************************)
(* synaps3 admin-auth reset-password, a process of its own.                *)
(***************************************************************************)
ResetLoads ==
    /\ cli.pc = "idle" /\ resets < MaxResets
    /\ resets' = resets + 1
    /\ LET now == LoadFileForSettings(file)
       IN  cli' = [pc |-> "loaded", backup |-> 0,
                   draft |-> [cfg |-> [now.cfg EXCEPT !["password_hash"] = resets' + 1],
                              has |-> now.has \cup {"password_hash"}]]
    /\ UNCHANGED <<file, env, up, running, effective, restart, lock, upd, initialPassword, faults, saved, unread, torn>>

\* The new password is written beside the file, the old one kept in memory.
ResetWritesPassword ==
    /\ cli.pc = "loaded"
    /\ cli' = [cli EXCEPT !.pc = "written", !.backup = initialPassword]
    /\ initialPassword' = cli.draft.cfg["password_hash"]
    /\ UNCHANGED <<file, env, up, running, effective, restart, lock, upd, resets, faults, saved, unread, torn>>

ResetSaves ==
    /\ cli.pc = "written"
    /\ file' = Rendered(cli.draft)
    /\ cli' = CliIdle
    /\ torn' = (torn \/ Undoes(cli.draft, Editable))
    /\ UNCHANGED <<env, up, running, effective, restart, lock, upd, initialPassword, resets, faults, saved, unread>>

RestoredPassword == cli.backup

ResetSaveFails ==
    /\ cli.pc = "written" /\ Fault
    /\ initialPassword' = RestoredPassword
    /\ cli' = CliIdle
    /\ UNCHANGED <<file, env, up, running, effective, restart, lock, upd, resets, saved, unread, torn>>

ResetDies ==
    /\ cli.pc = "written" /\ Fault
    /\ cli' = CliIdle /\ torn' = TRUE
    /\ UNCHANGED <<file, env, up, running, effective, restart, lock, upd, initialPassword, resets, saved, unread>>

Next ==
    \/ \E u \in Updates : SettingsDraft(u) \/ SaveForSettings(u) \/ SaveFails(u)
                         \/ Reload(u) \/ ReloadFails(u) \/ Acknowledge(u)
    \/ Stop \/ Start
    \/ ResetLoads \/ ResetWritesPassword \/ ResetSaves \/ ResetSaveFails \/ ResetDies

Spec == Init /\ [][Next]_vars

(***************************************************************************)
(* Properties.                                                             *)
(***************************************************************************)
\* Writers of the one file do not undo each other: a setting stays in the
\* file until a later update of the same field, the file stays valid, a
\* value of the environment is never written into it ("without environment
\* overlays", persistence.go), the service reports the limits a restart will
\* load and asks for that restart while they differ from what runs, and the
\* generated password fits the hash.  The exceptions are a settings write
\* and a reset of the password that overlapped, since the command takes no
\* lock of the process, and a reset that died between its two files.  An
\* update that replaced the file and could not read it back is answered
\* with an error although it is saved; until the next update or start the
\* service neither reports its limits nor asks for the restart.
SettingsInv ==
    /\ TypeOK
    /\ \A f \in Fields : file[f] # EnvValue
    /\ EditableValid(FileConfig(file))
    /\ ~torn =>
        /\ \A f \in Editable : saved[f] # Absent => file[f] = saved[f]
        /\ up /\ lock = 0 /\ ~unread => \A f \in Editable : effective[f] = Load(file)[f]
        /\ cli.pc # "written" => initialPassword = FileConfig(file)["password_hash"]
    /\ up /\ ~restart => effective = running
===============================================================================
