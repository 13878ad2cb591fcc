--------------------------- MODULE CacheContent ---------------------------
(* The life of one payload's bytes in one bucket: the content row that names *)
(* them, the versions that name the row, the file in the local cache, the    *)
(* object_cache row that says whether the file is there, and everybody who   *)
(* creates, reads, verifies, evicts or removes them.                         *)
(*                                                                           *)
(* A content id is one incarnation of the row: once cleanup has deleted the  *)
(* row, the next write of the same bytes gets the next id.  Every access to  *)
(* the file goes through the access gate, used here by its specification     *)
(* CacheLock, which CacheGate implements.  A database transaction is one     *)
(* step; a file is deleted inside its transaction, so a failure may leave    *)
(* the file gone and the rows as they were.                                  *)
EXTENDS Naturals, FiniteSets

CONSTANTS
  Clients,      \* goroutines of S3 requests
  Runners,      \* goroutines of the task engine
  MaxContents,  \* incarnations of the content row
  MaxVersions,  \* versions that name the bytes at a time
  MaxEvictions, \* generations of cache eviction per content
  MaxPresence,  \* the presence generation stops counting here
  MaxFaults,    \* failing calls, and damaged files
  MaxCrashes,
  LRU           \* the eviction policy: TRUE lru, FALSE after_upload

ASSUME ContentAssumption ==
  /\ MaxContents \in Nat \ {0} /\ MaxVersions \in Nat \ {0}
  /\ {MaxEvictions, MaxPresence, MaxFaults, MaxCrashes} \subseteq Nat
  /\ LRU \in BOOLEAN
  /\ Clients \cap Runners = {}

Ids == 1 .. MaxContents
Gens == 1 .. MaxEvictions
Workers == Clients \cup Runners

VARIABLES
  content,  \* content[i]: the storage_contents row, and how many versions name it
  disk,     \* disk[i]: the cached file and its quarantined predecessor
  entry,    \* entry[i]: the object_cache row
  remote,   \* remote[i]: the committed copies, and work that still needs the file
  evict,    \* evict[i][g]: the cache.evict task of generation g
  owed,     \* owed[i]: the tracker still has to record that the file is present
  scanned,  \* contents the startup scan of this process may still discard
  job,      \* job[w]: what goroutine w is doing
  access,   \* the permits of the access gate
  faults, crashes

vars == <<content, disk, entry, remote, evict, owed, scanned, job, access,
          faults, crashes>>

Lock == INSTANCE CacheLock WITH Users <- Workers, Keys <- Ids

Content == [row : {"none", "live", "gone"}, versions : 0 .. MaxVersions,
            cleaning : BOOLEAN]
Disk == [file : {"absent", "good", "bad"}, aside : BOOLEAN]
Entry == [known : BOOLEAN, present : BOOLEAN, op : 0 .. MaxEvictions,
          pres : 0 .. MaxPresence, owner : 0 .. MaxEvictions]
Remote == [durable : BOOLEAN, needed : BOOLEAN]
Pcs == {"idle", "ensure", "commit", "name", "discard", "release", "open", "reading",
        "miss", "fetch", "rehydrate", "fill", "record", "evict", "settle", "check",
        "restore", "recheck", "clean", "drop", "finalize"}
Job == [pc : Pcs,
        id : 0 .. MaxContents, gen : 0 .. MaxEvictions, pres : 0 .. MaxPresence,
        flag : BOOLEAN, copy : BOOLEAN,
        res : {"none", "complete", "cancel", "execute", "recover"}]

NoRow == [known |-> FALSE, present |-> FALSE, op |-> 0, pres |-> 0, owner |-> 0]
Idle == [pc |-> "idle", id |-> 0, gen |-> 0, pres |-> 0, flag |-> FALSE,
         copy |-> FALSE, res |-> "none"]

TypeOK ==
  /\ content \in [Ids -> Content] /\ disk \in [Ids -> Disk]
  /\ entry \in [Ids -> Entry] /\ remote \in [Ids -> Remote]
  /\ evict \in [Ids -> [Gens -> {"none", "execute", "recover", "running", "done"}]]
  /\ owed \in [Ids -> BOOLEAN] /\ scanned \subseteq Ids
  /\ job \in [Workers -> Job] /\ Lock!AccessTypeOK
  /\ faults \in 0 .. MaxFaults /\ crashes \in 0 .. MaxCrashes

Init ==
  /\ content = [i \in Ids |-> [row |-> "none", versions |-> 0, cleaning |-> FALSE]]
  /\ disk = [i \in Ids |-> [file |-> "absent", aside |-> FALSE]]
  /\ entry = [i \in Ids |-> NoRow]
  /\ remote = [i \in Ids |-> [durable |-> FALSE, needed |-> FALSE]]
  /\ evict = [i \in Ids |-> [g \in Gens |-> "none"]]
  /\ owed = [i \in Ids |-> FALSE] /\ scanned = {}
  /\ job = [w \in Workers |-> Idle] /\ Lock!AccessInit
  /\ faults = 0 /\ crashes = 0

-----------------------------------------------------------------------------
(* Helpers *)

At(w, pc) == job[w].pc = pc
Goto(w, pc) == job' = [job EXCEPT ![w].pc = pc]
Done(w) == job' = [job EXCEPT ![w] = Idle]
Begin(w, pc, i) == job' = [job EXCEPT ![w] = [Idle EXCEPT !.pc = pc, !.id = i]]

Permit(i, mode) == [key |-> i, mode |-> mode]
HoldRead(w, i) == Lock!AccessEnter(w, Permit(i, "read"))
Release(w) == Lock!AccessExit(w)
\* GuardDeletion runs its function under the deletion permit and gives it back:
\* nobody else can use the file in between, so it is one step.
Guarded(w, i) == Lock!AccessFree(w, Permit(i, "delete")) /\ UNCHANGED access

Works == UNCHANGED faults
Fails == faults < MaxFaults /\ faults' = faults + 1

Live(i) == content[i].row = "live"
Referenced(i) == content[i].versions > 0
SetFile(i, f) == disk' = [disk EXCEPT ![i].file = f]
Counted(n) == IF n < MaxPresence THEN n + 1 ELSE n

\* upsertContentCachePresence.
Present(e) == [e EXCEPT !.known = TRUE, !.present = TRUE]
\* The presence updates touch no row when the content has none.
Absent(e) == IF e.known THEN [e EXCEPT !.present = FALSE, !.pres = Counted(e.pres)]
                        ELSE e

TaskLive(i, g) == g \in Gens /\ evict[i][g] \in {"execute", "recover", "running"}

\* enqueueEviction, inside its caller's transaction, on the row e the caller
\* leaves behind: a live eviction is reused, otherwise the next generation is
\* bound to a new task.
CanEnqueue(e) == e.known /\ e.owner = 0 /\ e.op < MaxEvictions
Enqueue(i, e) ==
  IF CanEnqueue(e)
    THEN /\ entry' = [entry EXCEPT ![i] = [e EXCEPT !.op = e.op + 1, !.owner = e.op + 1]]
         /\ evict' = [evict EXCEPT ![i][e.op + 1] = "execute"]
    ELSE entry' = [entry EXCEPT ![i] = e] /\ UNCHANGED evict
EnqueueIf(due, i, e) ==
  IF due THEN Enqueue(i, e)
         ELSE entry' = [entry EXCEPT ![i] = e] /\ UNCHANGED evict

-----------------------------------------------------------------------------
(* Writes: PutObject, CopyObject, and the restore of a version *)

\* ensureContentForBytes: the row of these bytes, created on first sight.
EnsureContent(w, i) ==
  /\ w \in Clients /\ job[w].pc \in {"idle", "ensure"}
  /\ \/ Live(i) /\ UNCHANGED content
     \/ /\ ~\E k \in Ids : Live(k)
        /\ content[i].row = "none" /\ \A k \in 1 .. i - 1 : content[k].row = "gone"
        /\ content' = [content EXCEPT ![i].row = "live"]
  /\ Begin(w, "commit", i)
  /\ UNCHANGED <<disk, entry, remote, evict, owed, scanned, access, faults, crashes>>

\* CommitAs renames the staged file into place under the gate, which stays held
\* through the transaction.
CommitFile(w) ==
  LET i == job[w].id IN
  /\ At(w, "commit")
  /\ \/ /\ HoldRead(w, i) /\ Works
        /\ SetFile(i, "good")
        /\ job' = [job EXCEPT ![w].pc = "name", ![w].flag = TRUE]
     \/ Fails /\ Goto(w, "discard") /\ UNCHANGED <<disk, access>>
  /\ UNCHANGED <<content, entry, remote, evict, owed, scanned, crashes>>

\* prepareNewObjectVersionStorageReference refuses content that is being, or has
\* been, cleaned up.
CanName(i) == Live(i) /\ ~content[i].cleaning

\* The version transaction.  It may also fail on a condition of the request, or
\* commit while its answer is lost.
NameContent(w) ==
  LET i == job[w].id IN
  /\ At(w, "name") /\ Release(w)
  /\ \/ /\ CanName(i) /\ content[i].versions < MaxVersions
        /\ content' = [content EXCEPT ![i].versions = @ + 1]
        /\ EnqueueIf(remote[i].durable /\ ~LRU, i, Present(entry[i]))
        /\ \/ Works /\ Done(w)
           \/ Fails /\ Goto(w, "discard")
     \/ /\ \/ Works /\ ~CanName(i)
           \/ Fails /\ CanName(i)
        /\ Goto(w, "discard")
        /\ UNCHANGED <<content, entry, evict>>
  /\ UNCHANGED <<disk, remote, owed, scanned, crashes>>

\* orphanedContentSQL: no version has ever named the content.
Orphaned(i) ==
  /\ Live(i) /\ ~content[i].cleaning /\ ~Referenced(i)
  /\ ~entry[i].known

\* abandonFailedWriteContent and the startup scan: DiscardOrphanedContent deletes
\* the file, then the row.  A failed write goes on to release the file when the
\* row stays and it had committed one.
Discard(w) ==
  LET i == job[w].id
      next == IF job[w].flag THEN Goto(w, "release") ELSE Done(w) IN
  /\ At(w, "discard")
  /\ \/ /\ Guarded(w, i)
        /\ \/ /\ ~Orphaned(i) /\ Works /\ next
              /\ UNCHANGED <<content, disk, owed>>
           \/ /\ Orphaned(i) /\ Works /\ Done(w)
              /\ SetFile(i, "absent") /\ content' = [content EXCEPT ![i].row = "gone"]
              /\ owed' = [owed EXCEPT ![i] = FALSE]
           \/ /\ Orphaned(i) /\ Fails /\ next
              /\ SetFile(i, "absent") /\ UNCHANGED <<content, owed>>
     \/ /\ ~Lock!AccessFree(w, Permit(i, "delete"))
        /\ next /\ UNCHANGED <<content, disk, owed, access, faults>>
  /\ UNCHANGED <<entry, remote, evict, scanned, crashes>>

\* ReleaseContentCacheIfUnreferenced deletes the file unless a version names the
\* content; of a content whose row is gone it deletes whatever is left.
Unreferenced(i) == ~Live(i) \/ ~Referenced(i)

Released(i) ==
  /\ SetFile(i, "absent")
  /\ entry' = [entry EXCEPT ![i] = Absent(entry[i])]
  /\ owed' = [owed EXCEPT ![i] = FALSE]

ReleaseFile(w) ==
  LET i == job[w].id IN
  /\ At(w, "release")
  /\ \/ /\ Guarded(w, i)
        /\ \/ ~Unreferenced(i) /\ Works /\ UNCHANGED <<disk, entry, owed>>
           \/ Unreferenced(i) /\ Works /\ Released(i)
           \/ Unreferenced(i) /\ Fails /\ SetFile(i, "absent") /\ UNCHANGED <<entry, owed>>
     \/ /\ ~Lock!AccessFree(w, Permit(i, "delete"))
        /\ UNCHANGED <<disk, entry, owed, access, faults>>
  /\ Done(w)
  /\ UNCHANGED <<content, remote, evict, scanned, crashes>>

\* DeleteObjectVersionPermanently, refused while a task works on the content.
\* Removing the last version cancels the unfinished copies and starts cleanup; when
\* one of them is signed into a request or being pulled, it is refused as a whole.
DeleteVersion(w, i) ==
  /\ w \in Clients /\ At(w, "idle")
  /\ Live(i) /\ Referenced(i) /\ \A g \in Gens : ~TaskLive(i, g)
  /\ LET last == content[i].versions = 1 IN
       /\ content' = [content EXCEPT ![i].versions = @ - 1,
                                     ![i].cleaning = @ \/ last]
       /\ remote' = [remote EXCEPT ![i].needed = @ /\ ~last]
  /\ \/ Works /\ Begin(w, "release", i)
     \/ Fails /\ UNCHANGED job
  /\ UNCHANGED <<disk, entry, evict, owed, scanned, access, crashes>>

-----------------------------------------------------------------------------
(* Reads, and the copy of a version through a read *)

\* The version, and whether its content was cached, as the reader first saw it.
OpenVersion(w, i, copy) ==
  /\ w \in Clients /\ At(w, "idle")
  /\ Live(i) /\ Referenced(i)
  /\ job' = [job EXCEPT ![w] = [Idle EXCEPT !.pc = "open", !.id = i, !.copy = copy,
                                            !.flag = entry[i].present]]
  /\ UNCHANGED <<content, disk, entry, remote, evict, owed, scanned, access,
                 faults, crashes>>

\* RecordCommit: the presence is recorded, or stays owed by the tracker.  A row
\* that is gone refuses it.
RecordCommit(i) ==
  \/ /\ Live(i) /\ Works
     /\ entry' = [entry EXCEPT ![i] = Present(entry[i])]
     /\ owed' = [owed EXCEPT ![i] = FALSE]
  \/ /\ Live(i) => Fails
     /\ ~Live(i) => Works
     /\ owed' = [owed EXCEPT ![i] = TRUE] /\ UNCHANGED entry

\* openCached: the file is opened under a permit the body keeps until Close.
OpenCached(w) ==
  LET i == job[w].id IN
  /\ At(w, "open")
  /\ \/ /\ disk[i].file # "absent" /\ HoldRead(w, i) /\ Goto(w, "reading")
        /\ \/ job[w].flag /\ Works /\ UNCHANGED <<entry, owed>>
           \/ ~job[w].flag /\ RecordCommit(i)
     \/ /\ disk[i].file = "absent" /\ Goto(w, "miss") /\ Works
        /\ Lock!AccessFree(w, Permit(i, "read"))
        /\ UNCHANGED <<entry, owed, access>>
  /\ UNCHANGED <<content, disk, remote, evict, scanned, crashes>>

\* A copy stages the bytes, closes its source and goes on as a write.  What it
\* stages from a damaged file is another payload, not followed here.
CloseBody(w) ==
  /\ At(w, "reading") /\ Release(w)
  /\ IF job[w].copy /\ disk[job[w].id].file = "good" THEN Goto(w, "ensure") ELSE Done(w)
  /\ UNCHANGED <<content, disk, entry, remote, evict, owed, scanned, faults, crashes>>

\* reconcileCacheMiss: a row that promised a missing file is corrected, as long
\* as the version still exists.
ReconcileMiss(w) ==
  LET i == job[w].id IN
  /\ At(w, "miss") /\ Goto(w, "fetch")
  /\ \/ /\ job[w].flag /\ Guarded(w, i)
        /\ disk[i].file = "absent" /\ Live(i) /\ Referenced(i)
        /\ entry' = [entry EXCEPT ![i].present = FALSE] /\ Works
     \/ /\ \/ ~job[w].flag /\ Works
           \/ job[w].flag /\ (disk[i].file # "absent" \/ ~Live(i) \/ ~Referenced(i)) /\ Works
           \/ job[w].flag /\ ~Lock!AccessFree(w, Permit(i, "delete")) /\ Works
           \/ job[w].flag /\ Fails
        /\ UNCHANGED <<entry, access>>
  /\ UNCHANGED <<content, disk, remote, evict, owed, scanned, crashes>>

\* downloadVersionFromProvider; a copy does not fill its source's cache.
Download(w) ==
  LET i == job[w].id IN
  /\ At(w, "fetch")
  /\ \/ /\ remote[i].durable
        /\ Goto(w, IF job[w].copy THEN "ensure" ELSE "rehydrate")
     \/ Done(w)
  /\ UNCHANGED <<content, disk, entry, remote, evict, owed, scanned, access,
                 faults, crashes>>

\* streamAndRehydrate takes the gate, then looks whether its version still
\* exists: another version of the same content may have survived it.
Rehydrate(w) ==
  LET i == job[w].id IN
  /\ At(w, "rehydrate")
  /\ \/ Live(i) /\ Referenced(i) /\ HoldRead(w, i) /\ Goto(w, "fill")
     \/ Lock!AccessFree(w, Permit(i, "read")) /\ Done(w) /\ UNCHANGED access
  /\ UNCHANGED <<content, disk, entry, remote, evict, owed, scanned, faults, crashes>>

\* The file is in place when the client has read the body to its end.
Fill(w) ==
  /\ At(w, "fill")
  /\ \/ Works /\ SetFile(job[w].id, "good") /\ Goto(w, "record") /\ UNCHANGED access
     \/ Works /\ Release(w) /\ Done(w) /\ UNCHANGED disk
  /\ UNCHANGED <<content, entry, remote, evict, owed, scanned, crashes>>

RecordFill(w) ==
  /\ At(w, "record") /\ RecordCommit(job[w].id) /\ Release(w) /\ Done(w)
  /\ UNCHANGED <<content, disk, remote, evict, scanned, crashes>>

\* The tracker's sweep pays what is owed under a read permit of its own.
SweepAccess(i) ==
  /\ owed[i] /\ Live(i)
  /\ \A w \in Workers : Permit(i, "delete") \notin access[w]
  /\ entry' = [entry EXCEPT ![i] = Present(entry[i])]
  /\ owed' = [owed EXCEPT ![i] = FALSE]
  /\ UNCHANGED <<content, disk, remote, evict, scanned, job, access, faults, crashes>>

-----------------------------------------------------------------------------
(* The cache.evict task *)

ClaimEviction(w, i, g) ==
  /\ w \in Runners /\ At(w, "idle")
  /\ evict[i][g] \in {"execute", "recover"}
  /\ job' = [job EXCEPT ![w] = [Idle EXCEPT !.pc = "evict", !.id = i, !.gen = g,
                                            !.flag = evict[i][g] = "execute"]]
  /\ evict' = [evict EXCEPT ![i][g] = "running"]
  /\ UNCHANGED <<content, disk, entry, remote, owed, scanned, access, faults, crashes>>

Result(w, r) == job' = [job EXCEPT ![w].pc = "settle", ![w].res = r]

Owns(i, g) == entry[i].known /\ entry[i].op = g /\ entry[i].owner = g
DeletionRecorded(i, g) ==
  entry[i].known /\ entry[i].op = g /\ entry[i].owner = 0 /\ ~entry[i].present

\* AuthorizeDeletion, up to the durability of the content, which comes last.
Eligible(i, g) == Owns(i, g) /\ entry[i].present /\ Live(i) /\ ~remote[i].needed

\* Mutant: deletion is authorized without looking at the committed copies.
AuthorizedEarly(i, g) == Eligible(i, g)

Authorized(i, g) == Eligible(i, g) /\ remote[i].durable

RecordDeletion(i) ==
  entry' = [entry EXCEPT ![i] = [Absent(entry[i]) EXCEPT !.owner = 0]]
Forget(i) == owed' = [owed EXCEPT ![i] = FALSE]

\* A lost answer is made good by looking whether the deletion was recorded; a
\* failed transaction leaves the file deleted or not.
Delete(w, i) ==
  \/ /\ SetFile(i, "absent") /\ RecordDeletion(i)
     /\ \/ (Works \/ Fails) /\ Forget(i) /\ Result(w, "complete")
        \/ Fails /\ Result(w, "recover") /\ UNCHANGED owed
  \/ /\ Fails /\ Result(w, "recover")
     /\ SetFile(i, "absent") \/ UNCHANGED disk
     /\ UNCHANGED <<entry, owed>>

EvictExecute(w, i, g) ==
  \/ Authorized(i, g) /\ Delete(w, i)
  \/ /\ ~Authorized(i, g) /\ Works
     /\ IF DeletionRecorded(i, g)
          THEN Forget(i) /\ Result(w, "complete")
          ELSE /\ Result(w, IF Eligible(i, g) /\ ~LRU THEN "execute" ELSE "cancel")
               /\ UNCHANGED owed
     /\ UNCHANGED <<disk, entry>>

\* Mutant: recovery gives the eviction up when its file is gone.
EvictRecoverCancels(w, i, g) ==
  /\ Result(w, IF disk[i].file = "absent" THEN "cancel" ELSE "execute")
  /\ Works /\ UNCHANGED <<disk, entry, owed>>

\* Recovery never deletes: it records a deletion whose file is gone, or sends
\* the task back to execute.
EvictRecover(w, i, g) ==
  /\ UNCHANGED disk
  /\ \/ /\ ~Live(i) \/ ~entry[i].known
        /\ Result(w, "cancel") /\ Works /\ UNCHANGED <<entry, owed>>
     \/ /\ Live(i) /\ entry[i].known /\ disk[i].file # "absent"
        /\ Result(w, "execute") /\ Works /\ UNCHANGED <<entry, owed>>
     \/ /\ Live(i) /\ entry[i].known /\ disk[i].file = "absent"
        /\ \/ /\ Owns(i, g) /\ Works
              /\ RecordDeletion(i) /\ Forget(i) /\ Result(w, "complete")
           \/ /\ ~Owns(i, g) /\ Works /\ UNCHANGED entry
              /\ IF DeletionRecorded(i, g) THEN Forget(i) /\ Result(w, "complete")
                                           ELSE Result(w, "cancel") /\ UNCHANGED owed
           \/ Fails /\ Result(w, "recover") /\ UNCHANGED <<entry, owed>>

\* The wait for the deletion permit ends without it when a client reads a body,
\* or a download it drives fills the cache, for longer than the limit.  The
\* other holders keep their permit for one local transaction, and only a fault
\* makes them exceed it.
BusyTooLong(w, i) ==
  /\ ~Lock!AccessFree(w, Permit(i, "delete"))
  /\ \/ Works /\ \E c \in Clients : job[c].pc \in {"reading", "fill"} /\ job[c].id = i
     \/ Fails

\* runCacheEviction under GuardDeletion.  An LRU task is also cancelled, in
\* either mode, when the cache is back under its target, and in execute mode
\* when the entry was used since it was planned.
RunEviction(w) ==
  LET i == job[w].id
      g == job[w].gen IN
  /\ At(w, "evict")
  /\ \/ /\ Guarded(w, i)
        /\ \/ job[w].flag /\ EvictExecute(w, i, g)
           \/ ~job[w].flag /\ EvictRecover(w, i, g)
           \/ LRU /\ Result(w, "cancel") /\ Works /\ UNCHANGED <<disk, entry, owed>>
     \/ /\ BusyTooLong(w, i) /\ Result(w, IF job[w].flag THEN "execute" ELSE "recover")
        /\ UNCHANGED <<disk, entry, owed, access>>
  /\ UNCHANGED <<content, remote, evict, scanned, crashes>>

\* The engine settles the result; a cancelled eviction gives up the row.
SettleEviction(w) ==
  LET i == job[w].id
      g == job[w].gen
      r == job[w].res IN
  /\ At(w, "settle") /\ Done(w)
  /\ evict' = [evict EXCEPT ![i][g] = IF r \in {"complete", "cancel"} THEN "done" ELSE r]
  /\ entry' = IF r = "cancel" /\ Owns(i, g) THEN [entry EXCEPT ![i].owner = 0] ELSE entry
  /\ UNCHANGED <<content, disk, remote, owed, scanned, access, faults, crashes>>

\* planLRUEvictions, the durability reconciliation of a bucket, and the handover
\* of a content that reached its durability: any content that is safe to evict.
PlanEviction(i) ==
  /\ Live(i) /\ entry[i].present /\ remote[i].durable /\ ~remote[i].needed
  /\ CanEnqueue(entry[i]) /\ Enqueue(i, entry[i])
  /\ UNCHANGED <<content, disk, remote, owed, scanned, job, access, faults, crashes>>

-----------------------------------------------------------------------------
(* cache.local_reconcile compares the files with the rows *)

\* The state listed for a batch of files, then used one file at a time.
ListFile(w, i) ==
  /\ w \in Runners /\ At(w, "idle")
  /\ \A v \in Runners : job[v].pc \notin {"check", "restore", "recheck"}
  /\ disk[i].file # "absent"
  /\ Live(i) => ~entry[i].present /\ Referenced(i)
  /\ job' = [job EXCEPT ![w] = [Idle EXCEPT !.pc = "check", !.id = i, !.flag = Live(i),
                                  !.gen = entry[i].op, !.pres = entry[i].pres]]
  /\ UNCHANGED <<content, disk, entry, remote, evict, owed, scanned, access,
                 faults, crashes>>

\* releaseOrphan under the deletion permit.
ReleaseOrphan(i) ==
  IF Unreferenced(i) THEN Released(i) ELSE UNCHANGED <<disk, entry, owed>>

CheckFile(w) ==
  LET i == job[w].id IN
  /\ At(w, "check")
  /\ \/ /\ ~job[w].flag /\ Guarded(w, i) /\ ReleaseOrphan(i) /\ Done(w)
     \/ /\ job[w].flag /\ disk[i].file = "good" /\ HoldRead(w, i) /\ Goto(w, "restore")
        /\ UNCHANGED <<disk, entry, owed>>
     \/ /\ job[w].flag /\ disk[i].file = "bad" /\ Lock!AccessFree(w, Permit(i, "read"))
        /\ Goto(w, "recheck") /\ UNCHANGED <<disk, entry, owed, access>>
     \/ /\ \/ disk[i].file = "absent"
           \/ ~Lock!AccessFree(w, Permit(i, IF job[w].flag THEN "read" ELSE "delete"))
        /\ Done(w) /\ UNCHANGED <<disk, entry, owed, access>>
  /\ UNCHANGED <<content, remote, evict, scanned, faults, crashes>>

\* RestorePresence, only onto the row that was observed.
Restorable(w, i) ==
  /\ ~entry[i].present /\ entry[i].owner = 0
  /\ entry[i].op = job[w].gen /\ entry[i].pres = job[w].pres
  /\ Live(i) /\ Referenced(i)

RestorePresence(w) ==
  LET i == job[w].id IN
  /\ At(w, "restore") /\ Release(w) /\ Done(w)
  /\ \/ Restorable(w, i) /\ Works /\ EnqueueIf(~LRU, i, [entry[i] EXCEPT !.present = TRUE])
     \/ (Fails \/ (Works /\ ~Restorable(w, i))) /\ UNCHANGED <<entry, evict>>
  /\ UNCHANGED <<content, disk, remote, owed, scanned, crashes>>

\* The second look, with the file to itself: what still does not match is
\* quarantined, and then the row says so.
SetAside(w) ==
  LET i == job[w].id IN
  /\ At(w, "recheck") /\ Done(w)
  /\ \/ /\ Guarded(w, i)
        /\ \/ ~Live(i) /\ Works /\ ReleaseOrphan(i)
           \/ /\ Live(i) /\ disk[i].file = "bad"
              /\ disk' = [disk EXCEPT ![i] = [file |-> "absent", aside |-> TRUE]]
              /\ \/ /\ Works /\ Forget(i)
                    /\ entry' = [entry EXCEPT ![i] = Absent(entry[i])]
                 \/ Fails /\ UNCHANGED <<entry, owed>>
           \/ /\ Live(i) /\ disk[i].file # "bad" /\ Works
              /\ UNCHANGED <<disk, entry, owed>>
     \/ /\ ~Lock!AccessFree(w, Permit(i, "delete"))
        /\ UNCHANGED <<disk, entry, owed, access, faults>>
  /\ UNCHANGED <<content, remote, evict, scanned, crashes>>

\* reconcileQuarantined: the row is corrected first, then the quarantined file goes, in
\* a transaction of its own, once the content is durable without it.  A later scan comes
\* back for a file the second transaction has left.
ReconcileAside(w, i) ==
  /\ w \in Runners /\ At(w, "idle") /\ disk[i].aside /\ Guarded(w, i)
  /\ IF disk[i].file = "absent"
       THEN entry' = [entry EXCEPT ![i] = Absent(entry[i])] /\ Forget(i)
       ELSE UNCHANGED <<entry, owed>>
  /\ disk' \in {disk, [disk EXCEPT ![i].aside = Live(i) /\ ~(remote[i].durable /\ ~remote[i].needed)]}
  /\ disk' # disk \/ entry' # entry
  /\ UNCHANGED <<content, remote, evict, scanned, job, faults, crashes>>

-----------------------------------------------------------------------------
(* The storage.cleanup task, once the last version is gone *)

ClaimCleanup(w, i) ==
  /\ w \in Runners /\ At(w, "idle")
  /\ Live(i) /\ content[i].cleaning
  /\ \A v \in Runners : job[v].pc \in {"clean", "drop", "finalize"} => job[v].id # i
  /\ Begin(w, "clean", i)
  /\ UNCHANGED <<content, disk, entry, remote, evict, owed, scanned, access,
                 faults, crashes>>

\* runStorageCleanup waits while a version names the content, else has the
\* committed copies removed.
RemoveCopies(w) ==
  LET i == job[w].id IN
  /\ At(w, "clean")
  /\ IF Referenced(i)
       THEN Done(w) /\ UNCHANGED remote
       ELSE Goto(w, "drop") /\ remote' = [remote EXCEPT ![i].durable = FALSE]
  /\ UNCHANGED <<content, disk, entry, evict, owed, scanned, access, faults, crashes>>

\* finishStorageCleanup releases the cached file, then deletes the rows.
DropFile(w) ==
  LET i == job[w].id IN
  /\ At(w, "drop")
  /\ \/ /\ Guarded(w, i)
        /\ \/ Unreferenced(i) /\ Works /\ Released(i) /\ Goto(w, "finalize")
           \/ ~Unreferenced(i) /\ Works /\ Goto(w, "finalize") /\ UNCHANGED <<disk, entry, owed>>
           \/ /\ Unreferenced(i) /\ Fails /\ SetFile(i, "absent") /\ Done(w)
              /\ UNCHANGED <<entry, owed>>
     \/ /\ BusyTooLong(w, i) /\ Done(w) /\ UNCHANGED <<disk, entry, owed, access>>
  /\ UNCHANGED <<content, remote, evict, scanned, crashes>>

\* contentCleanupReady.
CleanupReady(i) ==
  /\ content[i].cleaning /\ ~Referenced(i)
  /\ ~entry[i].present /\ ~TaskLive(i, entry[i].owner)
  /\ ~remote[i].needed

FinalizeContent(w) ==
  LET i == job[w].id IN
  /\ At(w, "finalize") /\ Done(w)
  /\ \/ /\ CleanupReady(i) /\ (Works \/ Fails)
        /\ content' = [content EXCEPT ![i].row = "gone"]
        /\ entry' = [entry EXCEPT ![i] = NoRow]
     \/ /\ Fails \/ (Works /\ ~CleanupReady(i))
        /\ UNCHANGED <<content, entry>>
  /\ UNCHANGED <<disk, remote, evict, owed, scanned, access, crashes>>

-----------------------------------------------------------------------------
(* The storage pipeline as the cache sees it, and the world *)

\* An upload, a retransfer or a replacement begins to depend on the file.
StoreBegins(i) ==
  /\ Live(i) /\ Referenced(i) /\ disk[i].file = "good" /\ ~remote[i].needed
  /\ remote' = [remote EXCEPT ![i].needed = TRUE]
  /\ UNCHANGED <<content, disk, entry, evict, owed, scanned, job, access, faults, crashes>>

\* It ends, and the content may have reached its minimum of committed copies:
\* after_upload then hands the content over to eviction in the same transaction.
StoreEnds(i) ==
  /\ remote[i].needed
  /\ \E d \in {TRUE, remote[i].durable} :
       /\ remote' = [remote EXCEPT ![i] = [durable |-> d, needed |-> FALSE]]
       /\ EnqueueIf(d /\ ~remote[i].durable /\ ~LRU, i, entry[i])
  /\ UNCHANGED <<content, disk, owed, scanned, job, access, faults, crashes>>

\* A copy is lost, or the minimum is raised, while the bytes are still here.
LoseDurability(i) ==
  /\ remote[i].durable /\ Referenced(i) /\ disk[i].file = "good"
  /\ remote' = [remote EXCEPT ![i].durable = FALSE]
  /\ UNCHANGED <<content, disk, entry, evict, owed, scanned, job, access, faults, crashes>>

\* The file is damaged underneath the cache.
Damage(i) ==
  /\ disk[i].file = "good" /\ ~remote[i].needed /\ Fails /\ SetFile(i, "bad")
  /\ UNCHANGED <<content, entry, remote, evict, owed, scanned, job, access, crashes>>

\* The process stops at any point and starts again: files and rows are what is
\* left, interrupted evictions are recovered, and the contents written before
\* the start are scanned for writes that never named them.
Crash ==
  /\ crashes < MaxCrashes /\ crashes' = crashes + 1
  /\ job' = [w \in Workers |-> Idle]
  /\ access' = [w \in Workers |-> {}]
  /\ owed' = [i \in Ids |-> FALSE]
  /\ evict' = [i \in Ids |-> [g \in Gens |->
                 IF evict[i][g] = "running" THEN "recover" ELSE evict[i][g]]]
  /\ scanned' = {i \in Ids : Live(i)}
  /\ UNCHANGED <<content, disk, entry, remote, faults>>

\* DiscardOrphanedContents, beside live writes.
ScanOrphan(w, i) ==
  /\ w \in Clients /\ At(w, "idle") /\ i \in scanned
  /\ scanned' = scanned \ {i}
  /\ IF Orphaned(i) THEN Begin(w, "discard", i) ELSE UNCHANGED job
  /\ UNCHANGED <<content, disk, entry, remote, evict, owed, access, faults, crashes>>

-----------------------------------------------------------------------------
ClientStep(w) ==
  \/ \E i \in Ids : EnsureContent(w, i) \/ DeleteVersion(w, i) \/ ScanOrphan(w, i)
  \/ \E i \in Ids, copy \in BOOLEAN : OpenVersion(w, i, copy)
  \/ CommitFile(w) \/ NameContent(w) \/ Discard(w) \/ ReleaseFile(w)
  \/ OpenCached(w) \/ CloseBody(w) \/ ReconcileMiss(w) \/ Download(w)
  \/ Rehydrate(w) \/ Fill(w) \/ RecordFill(w)

TaskStep(w) ==
  RunEviction(w) \/ SettleEviction(w) \/ CheckFile(w) \/ RestorePresence(w)
    \/ SetAside(w) \/ RemoveCopies(w) \/ DropFile(w) \/ FinalizeContent(w)

RunnerStep(w) ==
  \/ TaskStep(w)
  \/ \E i \in Ids : ListFile(w, i) \/ ReconcileAside(w, i) \/ ClaimCleanup(w, i)
  \/ \E i \in Ids, g \in Gens : ClaimEviction(w, i, g)

World(i) ==
  SweepAccess(i) \/ PlanEviction(i) \/ StoreBegins(i) \/ StoreEnds(i)
    \/ LoseDurability(i) \/ Damage(i)

Next ==
  \/ \E w \in Clients : ClientStep(w)
  \/ \E w \in Runners : RunnerStep(w)
  \/ \E i \in Ids : World(i)
  \/ Crash

Spec == Init /\ [][Next]_vars

\* A request or a handler that began goes on to its end, and the dispatcher,
\* which claims in order of availability, reaches every waiting task.  The
\* gate serves a waiting deletion (WaitersServed of CacheGate).
Continues(w) == ~At(w, "idle") /\ (IF w \in Clients THEN ClientStep(w) ELSE TaskStep(w))
Fairness ==
  /\ \A w \in Workers : WF_vars(Continues(w))
  /\ \A w \in Runners : SF_vars(DropFile(w)) /\ SF_vars(RunEviction(w))
  /\ \A i \in Ids :
       /\ SF_vars(\E w \in Runners : ClaimCleanup(w, i))
       /\ SF_vars(\E w \in Runners : ListFile(w, i))
       /\ \A g \in Gens : SF_vars(\E w \in Runners : ClaimEviction(w, i, g))
FairSpec == Spec /\ Fairness

-----------------------------------------------------------------------------
(* Properties *)

\* Bytes that a version names exist somewhere: the file is in the cache, set
\* aside as damaged, or enough copies are committed.  Every deletion of the
\* file, by whichever of eviction, release, discard and cleanup, keeps this.
NamedHasBytes ==
  \A i \in Ids : Referenced(i) =>
    disk[i].file # "absent" \/ disk[i].aside \/ remote[i].durable

\* An upload, retransfer or replacement that still reads the file finds it:
\* AuthorizeDeletion and DeleteQuarantinedIfSafe leave the file to it.
StoreKeepsBytes ==
  \A i \in Ids : remote[i].needed => disk[i].file # "absent" \/ disk[i].aside

\* No bytes are lost, to readers or to the work that still has to store them.
BytesKept == NamedHasBytes /\ StoreKeepsBytes

\* No version names content that is being cleaned up or is gone, although
\* writes of the same bytes start and finish at any time around the cleanup.
CleanupUnnamed ==
  \A i \in Ids : content[i].cleaning \/ ~Live(i) => ~Referenced(i)

\* Under after_upload, and unless a second call fails, a row that promises a file
\* that is not there belongs to an eviction that will record the deletion it
\* began, or to a quarantined file, as long as a version needs the answer to be
\* right.  (Two failures may leave such a row to the next read, which corrects it:
\* the presence of a served file cannot be recorded and stays owed, then the
\* answer of the deletion that would forget the debt is lost, and the sweep pays.)
PresenceAccountedFor ==
  ~LRU /\ faults < 2 =>
    \A i \in Ids :
      Referenced(i) /\ entry[i].present /\ disk[i].file = "absent" =>
        disk[i].aside \/ TaskLive(i, entry[i].owner)

\* The rows agree with each other and with the files.
CacheInv == TypeOK /\ CleanupUnnamed /\ PresenceAccountedFor

\* Nothing is left behind: content without a version loses its rows, whatever
\* readers, evictions and failures meet the cleanup on the way, and a file left
\* under the key of content that is gone is deleted by the local reconciliation.
\* (Cleaning is never taken back and a row that is gone never returns.)
NoGarbage ==
  \A i \in Ids : /\ ~(content[i].cleaning /\ Live(i))
                 /\ content[i].row = "gone" => disk[i].file = "absent"
GarbageGoes == []<>NoGarbage
=============================================================================
