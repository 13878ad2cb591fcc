------------------------------ MODULE CacheFiles ------------------------------
(***************************************************************************)
(* The files of the local cache: staged writes that are published by a     *)
(* rename, the directory syncs that make them durable, the capacity every  *)
(* write reserves first, and the parts of a multipart upload.              *)
(*                                                                         *)
(* The content files are named by their bytes, so content k has k bytes in *)
(* every write of it.  A part can be written again with other bytes: the   *)
(* old file is kept under a second link until the new one is durable.      *)
(* Every name has the file a process sees and the file a crash may bring   *)
(* back; a sync of the directory makes them equal.                         *)
(***************************************************************************)
EXTENDS Integers, FiniteSets, FiniteSetsExt, Functions

CONSTANTS
    Keys,      \* contents, numbered by their size
    Parts,     \* part numbers of the upload
    Writers,   \* concurrent writes
    PartSizes, \* sizes of a part
    MaxBytes,  \* the configured capacity
    Bounds     \* budgets of writes, faults and crashes of an instance

VARIABLES
    live,     \* name -> file that processes see
    disk,     \* name -> file that a crash may bring back
    wr,       \* writer -> its staged write
    used, reserved,   \* usedBytes, reservedBytes
    gate,     \* who holds the upload: 0, a writer, or the deletion
    up,       \* "open" while the upload takes parts, else "closed"
    boot,     \* bytes found when the process started (history)
    left      \* writes, faults and crashes left

vars == <<live, disk, wr, used, reserved, gate, up, boot, left>>

(***************************************************************************)
(* Names and files.                                                        *)
(***************************************************************************)
Content(k) == <<"content", k>>
Aside(k)   == <<"quarantine", k>>
Part(p)    == <<"part", p>>
Previous(w) == <<"previous", w>>   \* tmpPath + ".previous"

Names == {Content(k) : k \in Keys} \cup {Aside(k) : k \in Keys}
         \cup {Part(p) : p \in Parts} \cup {Previous(w) : w \in Writers}

IsPart(n) == n[1] = "part"
UploadNames == {n \in Names : n[1] \in {"part", "previous"}}

\* The names whose directory is synced with n.
Dir(n) == IF n \in UploadNames THEN UploadNames ELSE {m \in Names : m[1] = n[1]}

Gone == [sz |-> 0, by |-> 0]

Deletion == -1

Free == [pc |-> "free", name |-> <<"none", 0>>, held |-> 0, n |-> 0, tmp |-> FALSE,
         was |-> Gone, out |-> "none", parts |-> FALSE]

\* Bytes of a content are the same whoever writes them.
Staged(w) == [sz |-> wr[w].n, by |-> IF IsPart(wr[w].name) THEN w ELSE 0]

Pcs == {"free", "writing", "staged", "rename", "sync", "unlink", "restore", "settle", "over"}

TypeOK ==
    /\ live \in [Names -> [sz : Nat, by : {0} \cup Writers]]
    /\ disk \in [Names -> [sz : Nat, by : {0} \cup Writers]]
    /\ wr \in [Writers -> [pc : Pcs, name : Names \cup {Free.name}, held : Nat, n : Nat, tmp : BOOLEAN,
                           was : [sz : Nat, by : {0} \cup Writers],
                           out : {"none", "ok", "kept", "failed"}, parts : BOOLEAN]]
    /\ used \in Int /\ reserved \in Nat
    /\ gate \in {0, Deletion} \cup Writers /\ up \in {"open", "closed"}

Init ==
    /\ live = [n \in Names |-> Gone] /\ disk = live
    /\ wr = [w \in Writers |-> Free]
    /\ used = 0 /\ reserved = 0
    /\ gate = 0 /\ up = "open"
    /\ boot = 0 /\ left \in Bounds

(***************************************************************************)
(* Small steps.                                                            *)
(***************************************************************************)
\* Calls of the file system that fail.
Faults(n) == left.faults >= n /\ left' = [left EXCEPT !.faults = @ - n]
Fault == Faults(1)
NoFault == UNCHANGED left

\* The shard of the name is held from the look at the destination to the end.
Holding(w) == wr[w].pc \in {"rename", "sync", "unlink", "restore", "settle"}
Locked(n) == \E w \in Writers : Holding(w) /\ wr[w].name = n

Goes(w, pc) == wr' = [wr EXCEPT ![w].pc = pc]

\* The commit returns; the upload's hold ends with publishPart.
Returns(w, out) ==
    /\ wr' = [wr EXCEPT ![w].pc = "over", ![w].out = out]
    /\ gate' = IF gate = w /\ ~wr[w].parts THEN 0 ELSE gate
    /\ UNCHANGED up

\* settle: usage and reservation change in one step.
Settled(w, delta, out) ==
    /\ used' = used + delta
    /\ reserved' = reserved - wr[w].held
    /\ wr' = [wr EXCEPT ![w].pc = "over", ![w].out = out, ![w].held = 0]
    /\ gate' = IF gate = w /\ ~wr[w].parts THEN 0 ELSE gate
    /\ UNCHANGED <<live, disk, up>>

Sum(S) == MapThenSumSet(LAMBDA n : live[n].sz, S)

(***************************************************************************)
(* Staging.                                                                *)
(***************************************************************************)
\* Compared as the room that is left.
Fits(size) == size <= MaxBytes - used - reserved

Reserve(w, name, size, parts) ==
    /\ wr[w].pc = "free" /\ live[Previous(w)] = Gone /\ Fits(size)
    /\ left.writes > 0 /\ left' = [left EXCEPT !.writes = @ - 1]
    /\ reserved' = reserved + size
    /\ wr' = [wr EXCEPT ![w] = [Free EXCEPT !.pc = "writing", !.name = name, !.held = size,
                                            !.tmp = TRUE, !.parts = parts]]
    /\ UNCHANGED <<live, disk, used, up>>

PutStaged(w, k) == Reserve(w, Content(k), k, FALSE) /\ UNCHANGED gate

\* A part reserves what the client declared; the upload was active when it began.
PutPartStaged(w, p) ==
    /\ up = "open"
    /\ \E size \in PartSizes : Reserve(w, Part(p), size, FALSE)
    /\ UNCHANGED gate

\* The completion holds the upload while it copies the parts into one content.
AssemblePartsStaged(w) ==
    /\ up = "open" /\ gate = 0
    /\ \E S \in SUBSET Parts :
        /\ \A p \in S : live[Part(p)] # Gone
        /\ LET size == Sum({Part(p) : p \in S})
           IN  size \in Keys /\ Reserve(w, Content(size), size, TRUE)
    /\ gate' = w

\* At most the reserved bytes are written; a part may end short of them.
WriteBody(w) ==
    /\ wr[w].pc = "writing"
    /\ \E n \in 1..wr[w].held :
        /\ IsPart(wr[w].name) \/ n = wr[w].held
        /\ wr' = [wr EXCEPT ![w].n = n, ![w].pc = "staged"]
    /\ UNCHANGED <<live, disk, used, reserved, gate, up, left>>

WriteFails(w) ==
    /\ wr[w].pc = "writing" /\ Fault
    /\ wr' = [wr EXCEPT ![w].pc = "over", ![w].out = "failed"]
    /\ UNCHANGED <<live, disk, used, reserved, gate, up>>

(***************************************************************************)
(* Commit, under the shard of the destination; a part's commit also holds  *)
(* the upload, which must still be active.                                 *)
(***************************************************************************)
MayPublish(w) == IsPart(wr[w].name) => gate = 0 /\ up = "open"

Commit(w) ==
    LET n == wr[w].name
        replaces == IsPart(n) /\ live[n] # Gone
    IN  /\ wr[w].pc = "staged" /\ ~Locked(n) /\ MayPublish(w)
        /\ gate' = IF IsPart(n) THEN w ELSE gate
        /\ wr' = [wr EXCEPT ![w].pc = "rename", ![w].was = live[n]]
        /\ live' = IF replaces THEN [live EXCEPT ![Previous(w)] = live[n]] ELSE live
        /\ UNCHANGED <<disk, used, reserved, up, left>>

\* The upload ended, or the old part could not be linked.
CommitRefused(w) ==
    /\ wr[w].pc = "staged" /\ IsPart(wr[w].name) /\ gate = 0
    /\ \/ up = "closed" /\ NoFault
       \/ up = "open" /\ live[wr[w].name] # Gone /\ ~Locked(wr[w].name) /\ Fault
    /\ wr' = [wr EXCEPT ![w].pc = "over", ![w].out = "failed"]
    /\ UNCHANGED <<live, disk, used, reserved, gate, up>>

HasBackup(w) == live[Previous(w)] # Gone

Rename(w) ==
    /\ wr[w].pc = "rename"
    /\ live' = [live EXCEPT ![wr[w].name] = Staged(w)]
    /\ wr' = [wr EXCEPT ![w].pc = "sync", ![w].tmp = FALSE]
    /\ UNCHANGED <<disk, used, reserved, gate, up, left>>

\* A second link that cannot be removed stays charged.
RenameFails(w) ==
    /\ wr[w].pc = "rename"
    /\ \/ /\ Faults(1) /\ live' = [live EXCEPT ![Previous(w)] = Gone] /\ UNCHANGED used
       \/ /\ HasBackup(w) /\ Faults(2) /\ used' = used + wr[w].was.sz /\ UNCHANGED live
    /\ Returns(w, "failed")
    /\ UNCHANGED <<disk, reserved>>

\* A sync of the directories, before which live is as it becomes.
Synced(D) == disk' = [m \in Names |-> IF m \in D THEN live'[m] ELSE disk[m]]

\* A sync whose failure undoes nothing.
MaySync(D) == (NoFault /\ Synced(D)) \/ (Fault /\ UNCHANGED disk)

\* Mutant of Delta: a replaced file keeps its charge.
DeltaOfNew(w) == wr[w].n

Delta(w) == wr[w].n - wr[w].was.sz

\* Mutant of SyncCommittedEntry: the rename counts as durable by itself.
RenameIsDurable(w) ==
    /\ wr[w].pc = "sync"
    /\ Goes(w, IF HasBackup(w) THEN "unlink" ELSE "settle")
    /\ UNCHANGED <<live, disk, used, reserved, gate, up, left>>

SyncCommittedEntry(w) ==
    /\ wr[w].pc = "sync"
    /\ UNCHANGED live /\ Synced(Dir(wr[w].name))
    /\ Goes(w, IF HasBackup(w) THEN "unlink" ELSE "settle")
    /\ UNCHANGED <<used, reserved, gate, up, left>>

\* A new entry is removed again, or stays when that fails too; a replaced
\* content stays; a part is restored.
SyncFails(w) ==
    /\ wr[w].pc = "sync"
    /\ \/ /\ wr[w].was = Gone /\ Faults(1)
          /\ live' = [live EXCEPT ![wr[w].name] = Gone]
          /\ Returns(w, "failed") /\ UNCHANGED <<disk, used, reserved>>
       \/ /\ wr[w].was = Gone /\ Faults(2) /\ Settled(w, Delta(w), "kept")
       \/ /\ wr[w].was # Gone /\ ~HasBackup(w) /\ Faults(1) /\ Settled(w, Delta(w), "kept")
       \/ /\ HasBackup(w) /\ Faults(1) /\ Goes(w, "restore")
          /\ UNCHANGED <<live, disk, used, reserved, gate, up>>

\* The old part goes when the new one is durable.
RemoveBackup(w) ==
    /\ wr[w].pc = "unlink"
    /\ \/ /\ NoFault /\ live' = [live EXCEPT ![Previous(w)] = Gone] /\ Goes(w, "settle")
       \/ /\ Fault /\ UNCHANGED live /\ Goes(w, "restore")
    /\ UNCHANGED <<disk, used, reserved, gate, up>>

RestorePart(w) ==
    /\ wr[w].pc = "restore"
    /\ \/ /\ live' = [live EXCEPT ![wr[w].name] = live[Previous(w)], ![Previous(w)] = Gone]
          /\ MaySync(UploadNames)
          /\ Returns(w, "failed") /\ UNCHANGED <<used, reserved>>
       \/ Fault /\ Settled(w, wr[w].n, "kept")

Settle(w) == wr[w].pc = "settle" /\ Settled(w, Delta(w), "ok") /\ NoFault

\* Rollback, deferred by every caller: it frees what did not commit.  A
\* completion that committed ends the upload.
Rollback(w) ==
    /\ wr[w].pc = "over"
    /\ reserved' = reserved - wr[w].held
    /\ wr' = [wr EXCEPT ![w] = Free]
    /\ up' = IF wr[w].parts /\ wr[w].out = "ok" THEN "closed" ELSE up
    /\ gate' = IF gate = w THEN 0 ELSE gate
    /\ UNCHANGED <<live, disk, used, left>>

\* A caller that does not commit at all.
Abandon(w) ==
    /\ wr[w].pc = "staged"
    /\ wr' = [wr EXCEPT ![w].pc = "over", ![w].out = "failed"]
    /\ UNCHANGED <<live, disk, used, reserved, gate, up, left>>

(***************************************************************************)
(* Deletion, quarantine and the end of an upload.                          *)
(***************************************************************************)
Remove(n) ==
    /\ live[n] # Gone /\ ~Locked(n)
    /\ live' = [live EXCEPT ![n] = Gone]
    /\ used' = used - live[n].sz
    /\ MaySync(Dir(n))
    /\ UNCHANGED <<wr, reserved, gate, up>>

Delete(k) == Remove(Content(k))

DeleteQuarantined(k) == Remove(Aside(k))

\* The file keeps its charge; one it replaces there loses its own.
Quarantine(k) ==
    /\ live[Content(k)] # Gone /\ ~Locked(Content(k))
    /\ live' = [live EXCEPT ![Aside(k)] = live[Content(k)], ![Content(k)] = Gone]
    /\ MaySync(Dir(Aside(k)) \cup Dir(Content(k)))
    /\ used' = used - live[Aside(k)].sz
    /\ UNCHANGED <<wr, reserved, gate, up>>

\* Abort, or the clean-up after a completion: the upload is held.
DeleteUpload ==
    /\ gate = 0 /\ gate' = Deletion /\ up' = "closed"
    /\ UNCHANGED <<live, disk, wr, used, reserved, left>>

\* One file of the upload's directory: temporary files were never charged.
RemoveUploadFile ==
    /\ gate = Deletion
    /\ \/ \E n \in UploadNames :
            /\ live[n] # Gone
            /\ live' = [live EXCEPT ![n] = Gone]
            /\ used' = used - live[n].sz
            /\ UNCHANGED wr
       \/ \E w \in Writers :
            /\ IsPart(wr[w].name) /\ wr[w].tmp
            /\ wr' = [wr EXCEPT ![w].tmp = FALSE]
            /\ UNCHANGED <<live, used>>
    /\ UNCHANGED <<disk, reserved, gate, up, left>>

DeleteUploadEnds ==
    /\ gate = Deletion /\ gate' = 0
    /\ UNCHANGED <<live, disk, wr, used, reserved, up, left>>

(***************************************************************************)
(* A crash, and NewFilesystem: temporary files go, the rest is counted.    *)
(***************************************************************************)
Crash ==
    /\ left.crashes > 0 /\ left' = [left EXCEPT !.crashes = @ - 1]
    /\ \E lost \in SUBSET {n \in Names : live[n] # disk[n]} :
        live' = [n \in Names |-> IF n \in lost THEN disk[n] ELSE live[n]]
    /\ disk' = live'
    /\ wr' = [w \in Writers |-> Free]
    /\ used' = MapThenSumSet(LAMBDA n : live'[n].sz, Names)
    /\ boot' = used' /\ reserved' = 0 /\ gate' = 0 /\ UNCHANGED up

WriterStep(w) ==
    \/ \E k \in Keys : PutStaged(w, k)
    \/ \E p \in Parts : PutPartStaged(w, p)
    \/ AssemblePartsStaged(w) \/ WriteBody(w) \/ WriteFails(w) \/ Commit(w) \/ CommitRefused(w)
    \/ Rename(w) \/ RenameFails(w) \/ SyncCommittedEntry(w) \/ SyncFails(w) \/ RemoveBackup(w)
    \/ RestorePart(w) \/ Settle(w) \/ Rollback(w) \/ Abandon(w)

Next ==
    \/ /\ \/ \E w \in Writers : WriterStep(w)
          \/ \E k \in Keys : Delete(k) \/ DeleteQuarantined(k) \/ Quarantine(k)
          \/ DeleteUpload \/ RemoveUploadFile \/ DeleteUploadEnds
       /\ UNCHANGED boot
    \/ Crash

Spec == Init /\ [][Next]_vars

(***************************************************************************)
(* Properties.                                                             *)
(***************************************************************************)
\* What a commit under way has put into the directory and not yet charged.
Uncharged(w) ==
    CASE wr[w].pc \in {"rename", "unlink", "restore", "sync"} ->
            (IF wr[w].pc = "rename" THEN 0 ELSE Delta(w)) + live[Previous(w)].sz
      [] wr[w].pc = "settle" -> Delta(w)
      [] OTHER -> 0

\* Usage follows the files through replacements, restores, deletions and
\* restarts, and the reservations are those of the open writes (settle, release).
Accounts ==
    /\ Sum(Names) = used + MapThenSumSet(Uncharged, Writers)
    /\ reserved = MapThenSumSet(LAMBDA w : wr[w].held, Writers)

\* "committed and in-progress bytes together never exceed maxBytes"
\* (capacityMu): counted on disk, a file with two links once, temporary files
\* included.  A start that finds more (a removal whose sync failed came back)
\* admits nothing new.
Inodes == {live[n] : n \in UploadNames} \ {Gone}
OnDisk ==
    MapThenSumSet(LAMBDA f : f.sz, Inodes) + Sum(Names \ UploadNames)
        + MapThenSumSet(LAMBDA w : IF wr[w].tmp THEN wr[w].n ELSE 0, Writers)

FilesInv == TypeOK /\ Accounts /\ OnDisk <= Max({MaxBytes, boot})

\* A commit that returned without an error is durable, and one that failed
\* without committing left the destination as it was (syncCommittedEntry, and
\* the backup of a part: "keep the old inode until publication is durable").
CommitTold ==
    \A w \in Writers : wr[w].pc # "over" /\ wr'[w].pc = "over" /\ Holding(w) =>
       CASE wr'[w].out = "ok" -> disk'[wr[w].name] = Staged(w) /\ live'[wr[w].name] = Staged(w)
         [] wr'[w].out = "failed" -> live'[wr[w].name] = wr[w].was
         [] OTHER -> TRUE
CommitOutcome == [][CommitTold]_vars
===============================================================================
