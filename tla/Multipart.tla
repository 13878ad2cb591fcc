----------------------------- MODULE Multipart ------------------------------
(***************************************************************************)
(* One multipart upload: its row, the rows of its parts, the part files of *)
(* the cache and the objects made of them (backend/multipart.go,           *)
(* multipart_repo.go), with the local cache reconciliation that removes    *)
(* leftover files and the release of interrupted completions at startup.   *)
(*                                                                         *)
(* Requests run side by side; publication, completion, abort and           *)
(* reconciliation hold the upload's gate.  The process may stop between    *)
(* any two steps: files and rows stay, requests and the gate do not.  The  *)
(* bytes of a part stand for its ETag, size and checksum.                  *)
(***************************************************************************)
EXTENDS Integers, FiniteSets

CONSTANTS
  Clients,      \* concurrent requests
  Parts,        \* part numbers
  Bytes,        \* contents of a part, as positive numbers
  UploadFaults, \* failing database or file operations
  MaxStops,     \* stops of the process
  MaxUploads    \* parts uploaded

Nothing == 0

VARIABLES
  status,       \* multipart_uploads.status
  rows,         \* multipart_parts: the recorded bytes of every part
  files,        \* the part files of the upload
  made,         \* object versions created from the upload: part -> bytes
  gate,         \* holder of HoldUpload
  run,          \* the requests
  stranded,     \* the upload was left completing: a rollback or a release has failed, or
                \* the answer of the transition was lost
  remaining     \* what is left of the bounds

uploadVars == <<status, rows, files, made, gate, run, stranded, remaining>>

NoRequest == [pc |-> "idle", part |-> Nothing, bytes |-> Nothing, list |-> <<>>, staged |-> <<>>]
Reconciler == -1     \* the local reconciliation task
NoBytes == [p \in Parts |-> Nothing]
\* The gate tells requests, the reconciliation and nobody apart.
ASSUME UploadAssumption == Nothing \notin Clients /\ Reconciler \notin Clients

Restricted(f, S) == [p \in S |-> f[p]]

UploadInit ==
  /\ status = "absent"
  /\ rows = NoBytes /\ files = NoBytes
  /\ made = {}
  /\ gate = Nothing
  /\ run = [c \in Clients |-> NoRequest]
  /\ stranded = FALSE
  /\ remaining = [faults |-> UploadFaults, stops |-> MaxStops, uploads |-> MaxUploads]

-----------------------------------------------------------------------------
SpendUpload(b) == remaining[b] > 0 /\ remaining' = [remaining EXCEPT ![b] = @ - 1]
RequestAt(c, pc) == run[c].pc = pc
RequestGoes(c, pc) == run' = [run EXCEPT ![c].pc = pc]

\* getActiveUpload.
Active == status = "initiated"

\* HoldUpload waits; every exit of a holder releases.
Hold(c) == gate = Nothing /\ gate' = c
EndRequest(c) == run' = [run EXCEPT ![c] = NoRequest] /\ gate' = IF gate = c THEN Nothing ELSE gate

\* CreateMultipartUpload.
CreateMultipartUpload ==
  /\ status = "absent" /\ status' = "initiated"
  /\ UNCHANGED <<rows, files, made, gate, run, stranded, remaining>>

\* UploadPart and UploadPartCopy: the bytes are staged without the gate.
UploadPart(c) ==
  /\ RequestAt(c, "idle") /\ Active
  /\ \E p \in Parts, b \in Bytes :
       run' = [run EXCEPT ![c] = [NoRequest EXCEPT !.pc = "publish", !.part = p, !.bytes = b]]
  /\ SpendUpload("uploads")
  /\ UNCHANGED <<status, rows, files, made, gate, stranded>>

\* publishPart: under the gate the upload is looked up again, then the file is put in
\* place and then the row.
MayPublish == Active
PublishFile(c) ==
  /\ RequestAt(c, "publish") /\ gate = Nothing
  /\ \/ ~MayPublish /\ EndRequest(c) /\ UNCHANGED <<files, remaining>>
     \/ MayPublish /\ SpendUpload("faults") /\ EndRequest(c) /\ UNCHANGED files
     \/ /\ MayPublish /\ Hold(c) /\ RequestGoes(c, "record")
        /\ files' = [files EXCEPT ![run[c].part] = run[c].bytes]
        /\ UNCHANGED remaining
  /\ UNCHANGED <<status, rows, made, stranded>>

\* CreatePart replaces the bytes an earlier upload of the part has recorded.
CreatePart(c) ==
  /\ RequestAt(c, "record")
  /\ \/ rows' = [rows EXCEPT ![run[c].part] = run[c].bytes] /\ UNCHANGED remaining
     \/ UNCHANGED rows /\ SpendUpload("faults")
  /\ EndRequest(c)
  /\ UNCHANGED <<status, files, made, stranded>>

-----------------------------------------------------------------------------
(***************************************************************************)
(* CompleteMultipartUpload.                                                *)
(***************************************************************************)

\* What a client may list: some parts, each with the ETag an upload has answered.
Lists == UNION {[S -> Bytes] : S \in SUBSET Parts \ {{}}}

\* SetStatus.
Transition(from, to) == status = from /\ status' = to

\* The gate, getActiveUpload and the transition initiated -> completing.  When its
\* answer is lost the request ends, the rollback not yet deferred.
CompleteMultipartUpload(c) ==
  /\ RequestAt(c, "idle") /\ Active /\ gate = Nothing
  /\ Transition("initiated", "completing")
  /\ \/ /\ \E l \in Lists :
             run' = [run EXCEPT ![c] = [NoRequest EXCEPT !.pc = "validate", !.list = l]]
        /\ Hold(c)
        /\ UNCHANGED <<stranded, remaining>>
     \/ SpendUpload("faults") /\ stranded' = TRUE /\ UNCHANGED <<gate, run>>
  /\ UNCHANGED <<rows, files, made>>

ListedParts(c) == DOMAIN run[c].list

\* GetPartsByNumbers, and the ETags the client has listed.
ValidateParts(c) ==
  /\ RequestAt(c, "validate")
  /\ \/ Restricted(rows, ListedParts(c)) = run[c].list /\ RequestGoes(c, "assemble") /\ UNCHANGED remaining
     \/ Restricted(rows, ListedParts(c)) # run[c].list /\ RequestGoes(c, "rollback") /\ UNCHANGED remaining
     \/ SpendUpload("faults") /\ RequestGoes(c, "rollback")
  /\ UNCHANGED <<status, rows, files, made, gate, stranded>>

\* AssemblePartsStaged reads the files; their ETags and sizes must be the recorded ones.
AllFilesThere(c) == \A p \in ListedParts(c) : files[p] # Nothing  \* a mutant
SameETags(c) == Restricted(files, ListedParts(c)) = run[c].list
AssembleParts(c) ==
  /\ RequestAt(c, "assemble")
  /\ \/ /\ SameETags(c)
        /\ run' = [run EXCEPT ![c].pc = "commit", ![c].staged = Restricted(files, ListedParts(c))]
     \/ ~SameETags(c) /\ RequestGoes(c, "rollback")
  /\ UNCHANGED <<status, rows, files, made, gate, stranded, remaining>>

\* The transaction: the version, the status and the rows of the parts left out.
Finalize(c) ==
  /\ Transition("completing", "completed")
  /\ made' = made \cup {run[c].staged}
  /\ rows' = [p \in Parts |-> IF p \in ListedParts(c) THEN rows[p] ELSE Nothing]

\* It may fail (a precondition, the database), and its answer may be lost.
CommitObject(c) ==
  /\ RequestAt(c, "commit")
  /\ \/ Finalize(c) /\ RequestGoes(c, "clean") /\ UNCHANGED remaining
     \/ Finalize(c) /\ RequestGoes(c, "rollback") /\ SpendUpload("faults")
     \/ RequestGoes(c, "rollback") /\ UNCHANGED <<status, made, rows, remaining>>
  /\ UNCHANGED <<files, gate, stranded>>

\* The deferred rollback: it touches a completing upload only.
RollBack(c) ==
  /\ RequestAt(c, "rollback")
  /\ \/ /\ status' = IF status = "completing" THEN "initiated" ELSE status
        /\ UNCHANGED <<stranded, remaining>>
     \/ /\ status = "completing" /\ SpendUpload("faults")
        /\ stranded' = TRUE /\ UNCHANGED status
  /\ EndRequest(c)
  /\ UNCHANGED <<rows, files, made>>

-----------------------------------------------------------------------------
\* AbortMultipartUpload: the transition, then the files and the rows.  When the answer
\* of the transition is lost both stay, the files until the next reconciliation.
AbortMultipartUpload(c) ==
  /\ RequestAt(c, "idle") /\ Active /\ gate = Nothing
  /\ Transition("initiated", "aborted")
  /\ \/ /\ run' = [run EXCEPT ![c] = [NoRequest EXCEPT !.pc = "abort"]]
        /\ Hold(c)
        /\ UNCHANGED remaining
     \/ SpendUpload("faults") /\ UNCHANGED <<gate, run>>
  /\ UNCHANGED <<rows, files, made, stranded>>

\* cache.DeleteUpload, best effort, at the end of a completion and in an abort.
CleanUp(c) ==
  /\ \/ RequestAt(c, "clean") /\ EndRequest(c)
     \/ RequestAt(c, "abort") /\ RequestGoes(c, "forget") /\ UNCHANGED gate
  /\ \/ files' = NoBytes /\ UNCHANGED remaining
     \/ UNCHANGED files /\ SpendUpload("faults")
  /\ UNCHANGED <<status, rows, made, stranded>>

\* DeleteParts, best effort.
DeleteParts(c) ==
  /\ RequestAt(c, "forget")
  /\ \/ rows' = NoBytes /\ UNCHANGED remaining
     \/ UNCHANGED rows /\ SpendUpload("faults")
  /\ EndRequest(c)
  /\ UNCHANGED <<status, files, made, stranded>>

\* reconcileUploads skips an upload whose gate is held; it looks up, then deletes.
Unused == status \in {"completed", "aborted"}
ReconcileUploads ==
  /\ gate = Nothing /\ files # NoBytes /\ Unused
  /\ gate' = Reconciler
  /\ UNCHANGED <<status, rows, files, made, run, stranded, remaining>>

DeleteUpload ==
  /\ gate = Reconciler /\ gate' = Nothing
  /\ \/ files' = NoBytes /\ UNCHANGED remaining
     \/ UNCHANGED files /\ SpendUpload("faults")
  /\ UNCHANGED <<status, rows, made, run, stranded>>

\* The process stops and starts: ReleaseInterruptedMultipartCompletions runs before
\* the S3 server; when it fails those uploads wait for the next start.
Restart ==
  /\ remaining.stops > 0
  /\ gate' = Nothing
  /\ run' = [c \in Clients |-> NoRequest]
  /\ \/ /\ status' = IF status = "completing" THEN "initiated" ELSE status
        /\ stranded' = FALSE
        /\ remaining' = [remaining EXCEPT !.stops = @ - 1]
     \/ /\ remaining.faults > 0 /\ status = "completing"
        /\ stranded' = TRUE
        /\ remaining' = [remaining EXCEPT !.stops = @ - 1, !.faults = @ - 1]
        /\ UNCHANGED status
  /\ UNCHANGED <<rows, files, made>>

-----------------------------------------------------------------------------
UploadContinues(c) ==
  \/ PublishFile(c) \/ CreatePart(c)
  \/ ValidateParts(c) \/ AssembleParts(c) \/ CommitObject(c) \/ RollBack(c)
  \/ CleanUp(c) \/ DeleteParts(c)
UploadRequest(c) == UploadPart(c) \/ CompleteMultipartUpload(c) \/ AbortMultipartUpload(c)
Reconcile == ReconcileUploads \/ DeleteUpload
UploadNext ==
  \/ CreateMultipartUpload \/ Reconcile \/ Restart
  \/ \E c \in Clients : UploadRequest(c) \/ UploadContinues(c)

UploadSpec == UploadInit /\ [][UploadNext]_uploadVars
\* Requests go on, and the reconciliation task comes round again.
UploadFairSpec ==
  /\ UploadSpec
  /\ \A c \in Clients : WF_uploadVars(UploadContinues(c))
  /\ WF_uploadVars(Reconcile)

-----------------------------------------------------------------------------
(***************************************************************************)
(* Properties.                                                             *)
(***************************************************************************)

UploadTypeOK ==
  /\ status \in {"absent", "initiated", "completing", "completed", "aborted"}
  /\ {rows, files} \subseteq [Parts -> Bytes \cup {Nothing}]
  /\ made \subseteq Lists
  /\ gate \in Clients \cup {Nothing, Reconciler}
  /\ stranded \in BOOLEAN

\* An upload makes one object exactly when it is completed; the object holds, part by
\* part, the bytes recorded for the parts the client listed, whatever was overwritten
\* or half-published meanwhile, and those are the parts still recorded
\* (GetObjectAttributes lists them); and it is completing only while a completion is
\* in flight, unless a rollback or the release at startup has failed, or the answer of
\* the transition to completing was lost.
UploadInv ==
  /\ UploadTypeOK
  /\ Cardinality(made) = IF status = "completed" THEN 1 ELSE 0
  /\ \A o \in made : rows = [p \in Parts |-> IF p \in DOMAIN o THEN o[p] ELSE Nothing]
  /\ status = "completing" /\ ~stranded =>
       \E c \in Clients : gate = c /\ run[c].pc \in {"validate", "assemble", "commit", "rollback"}

\* Part files are lasting garbage of no upload: those of a completed or aborted upload
\* go, and a completion leaves "completing" again unless it was left so: by a failed
\* rollback or release, or by a transition whose answer was lost.
UploadQuiet == (Unused => files = NoBytes) /\ (status = "completing" => stranded)
UploadsSettle == []<>UploadQuiet

=============================================================================
