---------------------------- MODULE DataSetCreate ----------------------------
(***************************************************************************)
(* The ensure task of one data set binding: it has a storage provider      *)
(* create the data set on chain exactly once, although requests, answers   *)
(* and the process itself may be lost (internal/task/dataset/ensure.go and *)
(* the data set rows of internal/db/repository).                           *)
(*                                                                         *)
(* A client data set ID is chosen once and recorded with the admission of  *)
(* the first request.  The chain accepts a client ID at most once, so      *)
(* every later request repeats it, and only the data set found on chain    *)
(* under that ID completes the task.  An operator may replace a binding    *)
(* whose setup task has failed, which ends its creation for good.          *)
(***************************************************************************)
EXTENDS Naturals, Sequences, FiniteSets

CONSTANTS
    ClientIDs,    \* client data set IDs the task may draw
    Unset,        \* no client ID, no checkpoint
    EnsureAttempts,  \* ExecutionPolicy.MaxAttempts of the ensure task
    MaxRounds,    \* bound: retries by an operator
    CreateFaults, \* bound: failing calls and lost answers
    MaxCrashes    \* bound: crashes of the process

VARIABLES
    row,       \* the binding's latest ensure task
    inv,       \* the invocation that runs it
    ds,        \* the storage_data_sets row
    requests,  \* the create requests the provider was sent, in order
    budget     \* what remains of the bounds

createVars == <<row, inv, ds, requests, budget>>

\* Every request takes an admission of its own.
SendLimit == EnsureAttempts * (MaxRounds + 1)

\* dataSetCreationCheckpoint.  tx is the request whose submission is known (its
\* transaction hash).
Checkpoint ==
    [client : ClientIDs, tx : 0..SendLimit, url : BOOLEAN, rejected : BOOLEAN]

\* due says that the checkpoint's NextResendAt has passed, lost that the task
\* failed for want of the evidence of its own request.
EnsureTask ==
    [status : {"none", "pending", "running", "failed", "done", "cancelled"},
     mode : {"execute", "recover"}, retry : 0..(EnsureAttempts - 1), admitted : 0..EnsureAttempts,
     cp : Checkpoint \union {Unset}, due : BOOLEAN, lost : BOOLEAN]

EnsureInvocation ==
    [pc : {"idle", "run", "lookup", "admit", "send", "record", "sent", "observe", "complete"},
     mode : {"execute", "recover"}, cp : Checkpoint \union {Unset}]

\* id is the request whose data set is recorded; owned is ensure_task_id;
\* replaced says that a replacement names the row as its source.
DataSet ==
    [status : {"pending", "creating", "ready", "retired"}, client : ClientIDs \union {Unset},
     tx : 0..SendLimit, id : 0..SendLimit, owned : BOOLEAN, replaced : BOOLEAN]

\* A request is held by the provider, in the transaction pool, settled on
\* chain, or it never became a transaction.
CreateRequest == [client : ClientIDs, st : {"held", "pooled", "landed", "reverted", "dropped"}]

CreateTypeOK ==
    /\ row \in EnsureTask /\ inv \in EnsureInvocation /\ ds \in DataSet
    /\ requests \in Seq(CreateRequest) /\ Len(requests) <= SendLimit
    /\ budget \in [rounds : 0..MaxRounds, faults : 0..CreateFaults, crashes : 0..MaxCrashes]

FreshRow ==
    [status |-> "pending", mode |-> "execute", retry |-> 0, admitted |-> 0, cp |-> Unset,
     due |-> FALSE, lost |-> FALSE]

NoEnsure == [pc |-> "idle", mode |-> "execute", cp |-> Unset]

CreateInit ==
    /\ row = [FreshRow EXCEPT !.status = "none"] /\ inv = NoEnsure /\ requests = <<>>
    /\ ds = [status |-> "pending", client |-> Unset, tx |-> 0, id |-> 0,
             owned |-> FALSE, replaced |-> FALSE]
    /\ budget = [rounds |-> MaxRounds, faults |-> CreateFaults, crashes |-> MaxCrashes]

-----------------------------------------------------------------------------
(* Settlements and the engine, as in TaskEngine *)

SpendBudget(b) == budget[b] > 0 /\ budget' = [budget EXCEPT ![b] = @ - 1]

EnsureGoes(pc, cp) == inv' = [inv EXCEPT !.pc = pc, !.cp = cp] /\ UNCHANGED row

EndEnsure(r) == row' = r /\ inv' = NoEnsure

\* taskengine.Wait, WaitUntil and WaitForObservation
Waits(m, cp) == EndEnsure([row EXCEPT !.status = "pending", !.mode = m, !.cp = cp])

\* taskengine.Retry and RetryInMode(recover): transitionFor counts the attempt.
Retries(cp) ==
    IF row.retry < EnsureAttempts - 1
    THEN EndEnsure([row EXCEPT !.status = "pending", !.mode = "recover", !.retry = @ + 1, !.cp = cp])
    ELSE EndEnsure([row EXCEPT !.status = "failed", !.cp = cp])

Cancels == EndEnsure([row EXCEPT !.status = "cancelled"])

\* A claim of the pending task, or in recover mode of one whose process died.
ClaimEnsure ==
    /\ inv.pc = "idle"
    /\ \/ row.status = "pending" /\ inv' = [NoEnsure EXCEPT !.pc = "run", !.mode = row.mode]
       \/ row.status = "running" /\ inv' = [NoEnsure EXCEPT !.pc = "run", !.mode = "recover"]
    /\ row' = [row EXCEPT !.status = "running", !.mode = inv'.mode]
    /\ UNCHANGED <<ds, requests, budget>>

\* The process dies, or loses its lease and drops what it was doing.
CreateCrash ==
    /\ inv.pc # "idle" /\ SpendBudget("crashes")
    /\ inv' = NoEnsure
    /\ UNCHANGED <<row, ds, requests>>

-----------------------------------------------------------------------------
(* The data set row *)

\* dataSetCreationStoppedSQL: a replaced row without a data set never has one.
CreationStopped == ds.status = "retired" \/ (ds.id = 0 /\ ds.replaced)

\* AuthorizeDataSetEnsureTask
Authorized == ds.owned /\ ~CreationStopped

\* RecordDataSetClientID
ClientRecordable(c) ==
    /\ Authorized /\ ds.status \in {"pending", "creating"}
    /\ ds.client \in {Unset, c}

\* Mutant: the row keeps the hash of the first submission it was told of.
MarkCreatingKeepsHash(cp) ==
    ds' = [ds EXCEPT !.status = "creating", !.client = cp.client, !.tx = IF @ = 0 THEN cp.tx ELSE @]

\* MarkDataSetCreating with withDataSetCreationEvidence
MarkCreating(cp) ==
    ds' = [ds EXCEPT !.status = "creating", !.client = cp.client,
                     !.tx = IF cp.tx = 0 THEN @ ELSE cp.tx]

\* The data set the chain has under a client ID (FindDataSetByClientDataSetID).
Created(c) == {i \in DOMAIN requests : requests[i].client = c /\ requests[i].st = "landed"}

-----------------------------------------------------------------------------
(* EnsureDataSet: an upload plan, a bucket or a replacement asks for the     *)
(* data set; the task is bound to a row that has none and may be created.    *)

EnsureDataSet ==
    /\ ds.status # "ready" /\ ~ds.owned /\ ~CreationStopped /\ inv.pc = "idle"
    /\ row' = FreshRow /\ ds' = [ds EXCEPT !.owned = TRUE]
    /\ UNCHANGED <<inv, requests, budget>>

-----------------------------------------------------------------------------
(* runDataSetEnsure *)

\* A binding whose request was sent has its checkpoint; without either, a
\* client ID is drawn (newClientDataSetID never repeats one).
StartCreation ==
    \/ /\ ds.client # Unset \/ ds.tx # 0          \* dataSetCreationSent
       /\ EndEnsure([row EXCEPT !.status = "failed", !.lost = TRUE])
    \/ /\ ds.client = Unset /\ ds.tx = 0 /\ inv.mode = "recover"
       /\ Waits("execute", Unset)
    \/ /\ ds.client = Unset /\ ds.tx = 0 /\ inv.mode = "execute"
       /\ \E c \in ClientIDs :
            EnsureGoes("admit", [client |-> c, tx |-> 0, url |-> FALSE, rejected |-> FALSE])

\* A checkpoint that names another client ID than the row fails the task.
RunDataSetEnsure ==
    /\ inv.pc = "run"
    /\ \/ ~Authorized /\ Cancels /\ UNCHANGED budget
       \/ /\ Authorized /\ row.cp = Unset
          /\ StartCreation /\ UNCHANGED budget
       \/ /\ Authorized /\ row.cp # Unset
          /\ IF ds.client \in {Unset, row.cp.client} THEN EnsureGoes("lookup", row.cp)
             ELSE EndEnsure([row EXCEPT !.status = "failed", !.lost = TRUE])
          /\ UNCHANGED budget
       \/ Authorized /\ SpendBudget("faults") /\ Retries(row.cp)     \* OpenProviderTarget
    /\ UNCHANGED <<ds, requests>>

-----------------------------------------------------------------------------
(* recoverDataSetCreation: the chain first, then what is known of the request *)

\* The chain has no such data set, or (failed) could not be asked.
RecoverUnfound(failed) ==
    LET cp == inv.cp
        known == ~cp.rejected /\ cp.tx # 0
    IN \/ known /\ cp.url /\ EnsureGoes("observe", cp)
       \/ /\ known /\ ~cp.url
          /\ Waits("recover", cp) \/ Retries(cp)               \* ObservationWindow
       \/ ~known /\ failed /\ Retries(cp)
       \/ ~known /\ ~failed /\ ~row.due /\ Waits("recover", cp) \* WaitUntil(NextResendAt)
       \/ ~known /\ ~failed /\ row.due /\ inv.mode = "recover" /\ Waits("execute", cp)
       \/ ~known /\ ~failed /\ row.due /\ inv.mode = "execute" /\ EnsureGoes("admit", cp)

RecoverDataSetCreation ==
    /\ inv.pc = "lookup"
    /\ \/ Created(inv.cp.client) # {} /\ EnsureGoes("complete", inv.cp) /\ UNCHANGED budget
       \/ Created(inv.cp.client) = {} /\ RecoverUnfound(FALSE) /\ UNCHANGED budget
       \/ SpendBudget("faults") /\ RecoverUnfound(TRUE)
    /\ UNCHANGED <<ds, requests>>

\* observeDataSetCreation: the provider's word can reject a request, never
\* complete one.
ObserveDataSetCreation ==
    /\ inv.pc = "observe"
    /\ LET cp == inv.cp
           rejected == [cp EXCEPT !.rejected = TRUE]
       IN \/ /\ requests[cp.tx].st = "reverted"
             /\ Authorized /\ Retries(rejected) /\ MarkCreating(rejected)
             /\ UNCHANGED budget
          \/ /\ requests[cp.tx].st # "reverted"
             /\ Waits("recover", cp) \/ Retries(cp)             \* ObservationWindow
             /\ UNCHANGED <<ds, budget>>
          \/ /\ SpendBudget("faults")
             /\ Waits("recover", cp) \/ Retries(cp)
             /\ UNCHANGED ds
    /\ UNCHANGED requests

-----------------------------------------------------------------------------
(* sendDataSetCreation *)

\* WithCheckpointedEffect("ensure:<id>"): the checkpoint, the client ID on the
\* row and the admission are one transaction.
Admit ==
    /\ inv.pc = "admit"
    /\ LET cp == inv.cp
       IN \/ /\ ClientRecordable(cp.client) /\ row.admitted < row.retry + 1
             /\ row' = [row EXCEPT !.admitted = row.retry + 1, !.mode = "recover", !.cp = cp,
                                   !.due = FALSE]
             /\ inv' = [inv EXCEPT !.pc = "send"]
             /\ ds' = [ds EXCEPT !.client = cp.client]
             /\ UNCHANGED budget
          \/ /\ ClientRecordable(cp.client) /\ row.admitted = row.retry + 1
             /\ Retries(row.cp) /\ UNCHANGED <<ds, budget>>
          \/ SpendBudget("faults") /\ Retries(row.cp) /\ UNCHANGED ds
    /\ UNCHANGED requests

\* recordSubmission: another hash starts its evidence afresh.
Submission(cp, n) == [cp EXCEPT !.tx = n, !.url = TRUE, !.rejected = FALSE]

\* CreateDataSet: the provider answers with the submission, or the request or
\* its answer is lost.  A call that goes on to return the created data set
\* settles like the lookup that follows a recorded submission.
CreateDataSet ==
    /\ inv.pc = "send" /\ Len(requests) < SendLimit
    /\ LET ask(st) == requests' = Append(requests, [client |-> inv.cp.client, st |-> st])
       IN \/ /\ ask("pooled") /\ UNCHANGED budget
             /\ EnsureGoes("record", Submission(inv.cp, Len(requests) + 1))
          \/ /\ SpendBudget("faults")
             /\ \E st \in {"held", "pooled", "dropped"} : ask(st)
             /\ EnsureGoes("sent", inv.cp)
    /\ UNCHANGED ds

\* OnSubmitted: RecordEffectEvidence writes the submission to the task and to
\* the row.  When that fails, the settlement writes the same evidence.
RecordSubmission ==
    /\ inv.pc = "record" /\ Authorized /\ MarkCreating(inv.cp)
    /\ \/ /\ row' = [row EXCEPT !.cp = inv.cp]
          /\ inv' = [inv EXCEPT !.pc = "lookup", !.mode = "recover"]
          /\ UNCHANGED budget
       \/ SpendBudget("faults") /\ Retries(inv.cp)
    /\ UNCHANGED requests

\* The request ended without a submission: RecordDataSetCreationError.
CreateFailed ==
    /\ inv.pc = "sent" /\ Retries(inv.cp)
    /\ UNCHANGED <<ds, requests, budget>>

\* completeDataSetEnsure: markDataSetReady, then CompleteDataSetEnsureTask, which
\* refuses a row the task no longer owns.
CompleteDataSetEnsure ==
    /\ inv.pc = "complete" /\ ds.owned /\ ds.status # "retired"
    /\ ds.client \in {Unset, inv.cp.client}
    /\ EndEnsure([row EXCEPT !.status = "done"])
    /\ \E i \in Created(inv.cp.client) :
         ds' = [ds EXCEPT !.status = "ready", !.id = i, !.client = inv.cp.client, !.owned = FALSE,
                          !.tx = IF inv.cp.tx = 0 THEN @ ELSE inv.cp.tx]
    /\ UNCHANGED <<requests, budget>>

-----------------------------------------------------------------------------
(* The operator *)

\* Retry of a failed task that still owns its row: the next round recovers
\* from the same checkpoint.
RetryRound ==
    /\ row.status = "failed" /\ ds.owned /\ SpendBudget("rounds")
    /\ row' = [FreshRow EXCEPT !.mode = "recover", !.cp = row.cp, !.due = row.due]
    /\ UNCHANGED <<inv, ds, requests>>

\* failedInitializationOwner: the row's own setup task has failed.
FailedInitialization ==
    ds.status \in {"pending", "creating"} /\ ds.owned /\ row.status = "failed"

\* Authorize of a replacement whose source was never created: the row gives up
\* its task, and with it the permission to create.
ReplaceTarget ==
    /\ ~ds.replaced /\ FailedInitialization
    /\ ds' = [ds EXCEPT !.replaced = TRUE, !.owned = FALSE]
    /\ UNCHANGED <<row, inv, requests, budget>>

\* abandonUnsentReplacementTargets: the row was the target of a replacement
\* that another one takes over.
Abandon ==
    /\ ~ds.replaced /\ FailedInitialization
    /\ ds' = [ds EXCEPT !.status = "retired", !.owned = FALSE]
    /\ UNCHANGED <<row, inv, requests, budget>>

\* Activate of the replacement's target retires a source that has no data set.
Activate ==
    /\ ds.replaced /\ ds.id = 0 /\ ds.status # "retired" /\ ~ds.owned
    /\ ds' = [ds EXCEPT !.status = "retired"]
    /\ UNCHANGED <<row, inv, requests, budget>>

-----------------------------------------------------------------------------
(* The provider, the chain and the clock *)

Submit(i) ==
    /\ requests[i].st = "held"
    /\ \E st \in {"pooled", "dropped"} : requests' = [requests EXCEPT ![i].st = st]
    /\ UNCHANGED <<row, inv, ds, budget>>

\* The chain executes a transaction: a client ID that is taken reverts it, and
\* any transaction may revert.
Land(i) ==
    /\ requests[i].st = "pooled"
    /\ \E st \in {"reverted"} \union (IF Created(requests[i].client) = {} THEN {"landed"} ELSE {}) :
         requests' = [requests EXCEPT ![i].st = st]
    /\ UNCHANGED <<row, inv, ds, budget>>

\* NextResendAt passes.
ResendDue ==
    /\ row.cp # Unset /\ ~row.due
    /\ row' = [row EXCEPT !.due = TRUE]
    /\ UNCHANGED <<inv, ds, requests, budget>>

-----------------------------------------------------------------------------

Steps ==
    ClaimEnsure \/ RunDataSetEnsure \/ RecoverDataSetCreation \/ ObserveDataSetCreation \/ Admit
    \/ CreateDataSet \/ RecordSubmission \/ CreateFailed \/ CompleteDataSetEnsure

Chain == \E i \in DOMAIN requests : Submit(i) \/ Land(i)

CreateNext ==
    Steps \/ EnsureDataSet \/ RetryRound \/ ReplaceTarget \/ Abandon \/ Activate \/ Chain \/ ResendDue
    \/ CreateCrash

CreateSpec == CreateInit /\ [][CreateNext]_createVars

\* The engine runs what is due, the provider and the chain settle every request
\* and time passes.  Nothing promises that an operator acts.
CreateFairSpec == CreateSpec /\ WF_createVars(Steps) /\ WF_createVars(Chain \/ ResendDue)

-----------------------------------------------------------------------------
(* Properties *)

\* The chain never holds two data sets that one binding asked for.
LandedOnce == Cardinality({i \in DOMAIN requests : requests[i].st = "landed"}) <= 1

\* A ready row names a data set the chain has under the row's own client ID:
\* no readiness comes from a submission, a provider's status or a stale task.
ReadyIsReal == ds.status = "ready" => ds.id \in Created(ds.client)

\* The task and the row never disagree on the request that is outstanding, so
\* no task is stopped by a missing checkpoint or a changed identity while its
\* row still waits for the data set.
EvidenceAgrees ==
    /\ ~row.lost
    /\ (ds.owned /\ row.cp # Unset) => row.cp.client = ds.client /\ row.cp.tx = ds.tx

\* The task, the row and the chain agree.
SetupInv == CreateTypeOK /\ ReadyIsReal /\ EvidenceAgrees

\* Whatever is lost, repeated or retried, one binding gets one data set, so no service
\* is paid for twice; a ready row names a data set the chain has under its client ID,
\* and no task loses the evidence of its request.
OneDataSet == LandedOnce /\ SetupInv

\* A row that a replacement has ended never has another request sent for it,
\* not even by a task that was about to send one.
SendAllowed == (ds.replaced \/ ds.status = "retired") => Len(requests') = Len(requests)
StoppedNeverSends == [][SendAllowed]_createVars

\* A setup that was asked for ends: the data set is recorded, or the task
\* stops where an operator sees it.
EnsureEnded == row.status \in {"none", "done", "failed", "cancelled"}
EnsureEnds == []<>EnsureEnded
=============================================================================
