------------------------------ MODULE MCCache -------------------------------
(***************************************************************************)
(* CacheContent, CacheFiles and Settings for TLC: a content of the cache   *)
(* with its files as states, the files themselves with the accounting of   *)
(* the cache's bytes, and the other file the process replaces in one       *)
(* piece, its configuration.  Every behaviour is one of a single part,     *)
(* and part says of which.                                                 *)
(***************************************************************************)
EXTENDS CacheContent, TLC

CONSTANTS
  Keys, Parts, Writers, PartSizes, MaxBytes, Bounds,  \* of CacheFiles
  Updates, Envs, MaxResets, SettingsFaults            \* of Settings

VARIABLES
  live, stored, wr, used, reserved, gate, up, boot, left,           \* of CacheFiles
  file, env, serving, running, effective, restart, lock, upd, cli,  \* of Settings
  initialPassword, resets, failed, saved, unread, torn,
  part

Files == INSTANCE CacheFiles WITH disk <- stored
Config == INSTANCE Settings WITH MaxFaults <- SettingsFaults, up <- serving, faults <- failed

filesVars == <<live, stored, wr, used, reserved, gate, up, boot, left>>
settingsVars == <<file, env, serving, running, effective, restart, lock, upd, cli,
                  initialPassword, resets, failed, saved, unread, torn>>
all == <<vars, filesVars, settingsVars, part>>

Symmetric == Permutations(Clients)

\* Writes that meet failing calls, a crash, or only each other.
Bound(w, f, c) == [writes |-> w, faults |-> f, crashes |-> c]
MCBounds == {Bound(3, 2, 0), Bound(3, 1, 1), Bound(4, 0, 0)}

OfContent(A) == part = "content" /\ A /\ UNCHANGED <<filesVars, settingsVars, part>>
OfFiles(A) == part = "files" /\ A /\ UNCHANGED <<vars, settingsVars, part>>
OfSettings(A) == part = "settings" /\ A /\ UNCHANGED <<vars, filesVars, part>>

\* The variables of a part at rest.
Off == 0
FilesOff ==
  /\ live = Off /\ stored = Off /\ wr = Off /\ used = Off /\ reserved = Off /\ gate = Off
  /\ up = Off /\ boot = Off /\ left = Off
SettingsOff ==
  /\ file = Off /\ env = Off /\ serving = Off /\ running = Off /\ effective = Off
  /\ restart = Off /\ lock = Off /\ upd = Off /\ cli = Off /\ initialPassword = Off
  /\ resets = Off /\ failed = Off /\ saved = Off /\ unread = Off
  /\ torn = Off

MCInit ==
  /\ part \in {"content", "files", "settings"}
  /\ Init
  /\ IF part = "files" THEN Files!Init ELSE FilesOff
  /\ IF part = "settings" THEN Config!Init ELSE SettingsOff

MCNext == OfContent(Next) \/ OfFiles(Files!Next) \/ OfSettings(Config!Next)

MCSpec == MCInit /\ [][MCNext]_all

\* The bytes counted against the cache's limit are those of the files and of the
\* writes under way, whatever fails or is replaced on the way.
FilesInv == part = "files" => Files!FilesInv

\* A commit that reports success is there after a crash, and one that reports a
\* failure has left the file it would have replaced.
CommitOutcome == [][part = "files" => Files!CommitTold]_all

\* Settings that were saved stay saved, and the password file fits the stored
\* hash, whatever fails and whoever else writes the configuration file.
SettingsInv == part = "settings" => Config!SettingsInv
=============================================================================
