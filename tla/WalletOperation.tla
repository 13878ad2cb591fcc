--------------------------- MODULE WalletOperation ---------------------------
(***************************************************************************)
(* One wallet operation (fund, withdraw or approve) and the task that      *)
(* carries it out: internal/task/wallet/handler.go, the replay of a signed *)
(* transaction in internal/synapse/wallet_replay.go, and the row of        *)
(* internal/db/repository/wallet_operation_repo.go.                        *)
(*                                                                         *)
(* Signing and sending is one call of the SDK, admitted at most once: the  *)
(* admission records that a broadcast may have gone out.  From there on    *)
(* the task only looks for the transaction it knows, and repeats the very  *)
(* same signed bytes while the wallet's nonce and the permit inside them   *)
(* still allow them to be included.                                        *)
(*                                                                         *)
(* Branches for evidence that contradicts itself (wallet_evidence_conflict,*)
(* wallet_task_superseded) are left out: EvidenceAgrees shows that no      *)
(* execution reaches them.                                                 *)
(***************************************************************************)
EXTENDS Naturals, Sequences, FiniteSets

CONSTANTS
    None,         \* no checkpoint
    WalletAttempts,  \* ExecutionPolicy.MaxAttempts of the wallet task
    MaxTxs,       \* bound: transactions the wallet signs for the operation
    MaxFaults,    \* bound: failing calls and lost answers
    MaxCrashes    \* bound: crashes of the process

VARIABLES
    kind,   \* WalletOperationType
    op,     \* the wallet_operations row
    row,    \* the operation's latest task
    inv,    \* the invocation that runs it
    txs,    \* the transactions signed for the operation, in order
    left    \* what remains of the bounds

walletVars == <<kind, op, row, inv, txs, left>>

\* owned is task_id, attempted is broadcast_attempted_at, tx the transaction
\* hash (0 for NULL) and signed says that signed_transaction is kept.
Operation ==
    [status : {"none", "pending", "submitted", "confirmed", "failed", "unknown"},
     owned : BOOLEAN, attempted : BOOLEAN, tx : 0..MaxTxs, signed : BOOLEAN]

\* walletoperation.Checkpoint; BroadcastAttempted holds in every one written.
Checkpoint == [tx : 0..MaxTxs, notSent : BOOLEAN]

\* watch is the observation window; final says that the failure reason is one
\* CanManualRetry refuses.
WalletTask ==
    [status : {"none", "pending", "running", "failed", "done"},
     mode : {"execute", "recover"}, retry : 0..(WalletAttempts - 1), admitted : 0..WalletAttempts,
     cp : Checkpoint \union {None}, watch : {"off", "on", "over"}, final : BOOLEAN]

\* tx and signed are the submission the broadcast returned; dead says that the
\* permit's deadline had passed in the finalized block the replay read.
WalletInvocation ==
    [pc : {"idle", "run", "admit", "send", "record", "observe", "receipt",
           "readmit", "visible", "final", "latest", "resend"},
     mode : {"execute", "recover"}, tx : 0..MaxTxs, signed : BOOLEAN, dead : BOOLEAN]

\* nonce is what became of the transaction's nonce, used in a block or used in a
\* finalized one.  permit is the deadline in a fund transaction against the wall
\* clock ("late") and the finalized block ("dead").
Transaction ==
    [st : {"away", "pooled", "landed", "reverted"},
     nonce : {"free", "used", "final"}, permit : {"valid", "late", "dead"}]

WalletTypeOK ==
    /\ kind \in {"fund", "withdraw", "approve"}
    /\ op \in Operation
    /\ row \in WalletTask
    /\ inv \in WalletInvocation
    /\ Len(txs) <= MaxTxs
    /\ \A i \in DOMAIN txs : txs[i] \in Transaction
    /\ left \in [faults : 0..MaxFaults, crashes : 0..MaxCrashes]

Idle == [pc |-> "idle", mode |-> "execute", tx |-> 0, signed |-> FALSE, dead |-> FALSE]

FreshRow ==
    [status |-> "pending", mode |-> "execute", retry |-> 0, admitted |-> 0,
     cp |-> None, watch |-> "off", final |-> FALSE]

WalletInit ==
    /\ kind \in {"fund", "withdraw", "approve"}
    /\ op = [status |-> "none", owned |-> FALSE, attempted |-> FALSE, tx |-> 0, signed |-> FALSE]
    /\ row = [FreshRow EXCEPT !.status = "none"]
    /\ inv = Idle
    /\ txs = <<>>
    /\ left = [faults |-> MaxFaults, crashes |-> MaxCrashes]

\* handleAPIWalletOperation: the operation is created, its task enqueued and
\* bound in one transaction.  The same client request later finds the row and
\* changes nothing.
Request ==
    /\ op.status = "none"
    /\ op' = [op EXCEPT !.status = "pending", !.owned = TRUE]
    /\ row' = FreshRow
    /\ UNCHANGED <<kind, inv, txs, left>>

-----------------------------------------------------------------------------
(* The engine's part: claims, results and crashes.                         *)

Spend(b) == left[b] > 0 /\ left' = [left EXCEPT ![b] = @ - 1]

At(pc) == row.status = "running" /\ inv.pc = pc

Goes(pc) == inv' = [inv EXCEPT !.pc = pc]

ClaimOperation ==
    /\ row.status = "pending"
    /\ row' = [row EXCEPT !.status = "running"]
    /\ inv' = [Idle EXCEPT !.pc = "run", !.mode = row.mode]
    /\ UNCHANGED <<kind, op, txs, left>>

\* A result is settled: the invocation ends with the row it leaves.
End(r) == row' = r /\ inv' = Idle

Waits(m) == [row EXCEPT !.status = "pending", !.mode = m]

\* transitionFor: another attempt, or attempts_exhausted.
Retries(m) ==
    IF row.retry + 1 < WalletAttempts
    THEN [row EXCEPT !.status = "pending", !.mode = m, !.retry = @ + 1, !.watch = "off"]
    ELSE [row EXCEPT !.status = "failed", !.watch = "off"]

\* taskengine.Retry and walletRetry resume in recover mode.
FaultRetries == Spend("faults") /\ End(Retries("recover")) /\ UNCHANGED <<kind, op, txs>>

\* A failed result; final reasons bar a manual retry.
Fails(final) == [row EXCEPT !.status = "failed", !.watch = "off", !.final = final]

\* The process dies; the claim is taken over in recover mode.
WalletCrash ==
    /\ row.status = "running"
    /\ Spend("crashes")
    /\ End(Waits("recover"))
    /\ UNCHANGED <<kind, op, txs>>

-----------------------------------------------------------------------------
(* The row's transitions (WalletOperationRepo), each fenced by the task.   *)

MarkBroadcastAttempted(o) == [o EXCEPT !.attempted = TRUE]
RecordSubmission(o, i, s) == [o EXCEPT !.status = "submitted", !.tx = i, !.signed = s]
MarkConfirmed(o) == [o EXCEPT !.status = "confirmed", !.owned = FALSE]
MarkFailed(o) == [o EXCEPT !.status = "failed", !.owned = FALSE]
MarkUnknown(o) == [o EXCEPT !.status = "unknown", !.owned = FALSE]

-----------------------------------------------------------------------------
(* processWalletOperation                                                  *)

\* The operation cannot be loaded.
LoadFails == At("run") /\ FaultRetries

\* No broadcast was ever admitted.
NeverAttempted == row.cp = None

\* Nothing was ever attempted: recover mode hands over to execute mode.
RunFresh ==
    /\ At("run")
    /\ NeverAttempted
    /\ \/ inv.mode = "recover" /\ End(Waits("execute"))
       \/ inv.mode = "execute" /\ Goes("admit") /\ UNCHANGED row
    /\ UNCHANGED <<kind, op, txs, left>>

\* unknownWalletOperation: a broadcast may have gone out and left no hash.
RunUnknown ==
    /\ At("run")
    /\ row.cp # None /\ op.tx = 0
    /\ End(Fails(TRUE))
    /\ op' = MarkUnknown(op)
    /\ UNCHANGED <<kind, txs, left>>

RunKnown ==
    /\ At("run")
    /\ op.tx # 0
    /\ Goes("receipt")
    /\ UNCHANGED <<kind, op, row, txs, left>>

\* walletObservation: wait in recover mode; once the window is over the wait
\* becomes a retry, in execute mode if the signed bytes are there to repeat.
Observed(r, signed) ==
    IF r.watch = "over"
    THEN LET m == IF signed THEN "execute" ELSE "recover"
         IN  [Retries(m) EXCEPT !.cp = r.cp]
    ELSE [r EXCEPT !.status = "pending", !.mode = "recover", !.watch = "on"]

Observe == End(Observed(row, op.signed)) /\ UNCHANGED <<kind, op>>

ReceiptFails == At("receipt") /\ FaultRetries

\* The receipt decides; without one, recover mode and a transaction without
\* signed bytes can only be observed.
Receipt ==
    /\ At("receipt")
    /\ LET st == txs[op.tx].st
       IN  \/ /\ st = "landed"
              /\ End([row EXCEPT !.status = "done"])
              /\ op' = MarkConfirmed(op)
           \/ /\ st = "reverted"
              /\ End(Fails(TRUE))
              /\ op' = MarkFailed(op)
           \/ /\ st \notin {"landed", "reverted"}
              /\ inv.mode = "recover" \/ ~op.signed
              /\ Observe
           \/ /\ st \notin {"landed", "reverted"}
              /\ inv.mode = "execute" /\ op.signed
              /\ Goes("readmit")
              /\ UNCHANGED <<op, row>>
    /\ UNCHANGED <<kind, txs, left>>

-----------------------------------------------------------------------------
(* broadcastWalletOperation                                                *)

\* WithCheckpointedEffect admits one effect per attempt and leaves the task in
\* recover mode.
Admitted(cp) == [row EXCEPT !.admitted = row.retry + 1, !.mode = "recover", !.cp = cp]

CanAdmit == row.admitted <= row.retry

\* The admission commits the checkpoint and MarkBroadcastAttempted together.
Admit ==
    /\ At("admit") /\ CanAdmit
    /\ row' = Admitted([tx |-> 0, notSent |-> FALSE])
    /\ op' = MarkBroadcastAttempted(op)
    /\ Goes("send")
    /\ UNCHANGED <<kind, txs, left>>

\* The admission fails, or commits and its answer is lost: either way the
\* effect is not called.
AdmitFails ==
    /\ At("admit") /\ CanAdmit
    /\ Spend("faults")
    /\ \/ End(Retries("recover")) /\ UNCHANGED op
       \/ /\ End([Retries("recover") EXCEPT !.admitted = row.retry + 1,
                                            !.cp = [tx |-> 0, notSent |-> FALSE]])
          /\ op' = MarkBroadcastAttempted(op)
    /\ UNCHANGED <<kind, txs>>

\* A transaction is signed, and reaches the node or not.
Signs(st) ==
    /\ Len(txs) < MaxTxs
    /\ txs' = Append(txs, [st |-> st, nonce |-> "free", permit |-> "valid"])

\* ApproveFWSS finds nothing left to approve.
AlreadyApproved ==
    /\ At("send") /\ kind = "approve"
    /\ End([row EXCEPT !.status = "done"])
    /\ op' = MarkConfirmed(op)
    /\ UNCHANGED <<kind, txs, left>>

\* The SDK fails before it sends anything: the settlement writes that down in
\* the checkpoint and fails the operation.
NotSent ==
    /\ At("send")
    /\ Spend("faults")
    /\ End([Fails(FALSE) EXCEPT !.cp.notSent = TRUE])
    /\ op' = MarkFailed(op)
    /\ UNCHANGED <<kind, txs>>

\* WalletSubmissionFromWriteResult: a sent transaction returns its hash alone.
Sent ==
    /\ At("send")
    /\ Signs("pooled")
    /\ inv' = [inv EXCEPT !.pc = "record", !.tx = Len(txs) + 1]
    /\ UNCHANGED <<kind, op, row, left>>

\* A BroadcastError: whether the node has the transaction is not known.  The
\* error names hash and signed bytes, or neither, which ends as unknown.
SendFails ==
    /\ At("send")
    /\ Spend("faults")
    /\ \E st \in {"away", "pooled"} : Signs(st)
    /\ \/ /\ inv' = [inv EXCEPT !.pc = "record", !.tx = Len(txs) + 1, !.signed = TRUE]
          /\ UNCHANGED <<op, row>>
       \/ End(Fails(TRUE)) /\ op' = MarkUnknown(op)
    /\ UNCHANGED kind

\* RecordEffectEvidence: checkpoint and row get the hash in one transaction.
Record ==
    /\ At("record")
    /\ row' = [row EXCEPT !.cp.tx = inv.tx]
    /\ op' = RecordSubmission(op, inv.tx, inv.signed)
    /\ Goes("observe")
    /\ UNCHANGED <<kind, txs, left>>

\* When it fails, the settlement of the observation writes the same.
RecordFails ==
    /\ At("record")
    /\ Spend("faults")
    /\ End(Observed([row EXCEPT !.cp.tx = inv.tx], inv.signed))
    /\ op' = RecordSubmission(op, inv.tx, inv.signed)
    /\ UNCHANGED <<kind, txs>>

ObserveSent == At("observe") /\ Observe /\ UNCHANGED <<txs, left>>

-----------------------------------------------------------------------------
(* RebroadcastSignedTransaction, under an admission of its own.  Every read *)
(* is a step, and so is the send.                                          *)

Readmit ==
    /\ At("readmit") /\ CanAdmit
    /\ row' = Admitted(row.cp)
    /\ Goes("visible")
    /\ UNCHANGED <<kind, op, txs, left>>

ReadmitFails ==
    /\ At("readmit") /\ CanAdmit
    /\ Spend("faults")
    /\ \E a \in {row.admitted, row.retry + 1} : End([Retries("recover") EXCEPT !.admitted = a])
    /\ UNCHANGED <<kind, op, txs>>

\* A read of the replay fails: walletRetry.
ReadFails == (At("visible") \/ At("final") \/ At("latest")) /\ FaultRetries

\* Receipt and transaction: one that is visible needs no help.
Visible ==
    /\ At("visible")
    /\ \/ txs[op.tx].st # "away" /\ Observe
       \/ txs[op.tx].st = "away" /\ Goes("final") /\ UNCHANGED <<kind, op, row>>
    /\ UNCHANGED <<txs, left>>

\* The permit's deadline is not after the finalized block.
PermitExpired(t) == t.permit = "dead"

\* The finalized block and the wallet's nonce in it: a nonce used there by
\* another transaction displaces this one for good.
Final ==
    /\ At("final")
    /\ LET t == txs[op.tx]
       IN  \/ /\ t.nonce = "final"
              /\ End(Fails(TRUE))
              /\ op' = MarkUnknown(op)
           \/ /\ t.nonce # "final"
              /\ inv' = [inv EXCEPT !.pc = "latest", !.dead = PermitExpired(t)]
              /\ UNCHANGED <<op, row>>
    /\ UNCHANGED <<kind, txs, left>>

\* The latest and pending nonce, then the permit against the finalized block
\* read before and against the wall clock.
Latest ==
    /\ At("latest")
    /\ LET t == txs[op.tx]
           advanced == t.nonce # "free" \/ t.st # "away"
       IN  \/ /\ advanced \/ (~inv.dead /\ t.permit # "valid")
              /\ Observe
           \/ /\ ~advanced /\ inv.dead
              /\ End(Fails(TRUE))
              /\ op' = MarkFailed(op)
           \/ /\ ~advanced /\ ~inv.dead /\ t.permit = "valid"
              /\ Goes("resend")
              /\ UNCHANGED <<op, row>>
    /\ UNCHANGED <<kind, txs, left>>

\* Mutant: the payment is signed again, with the nonce of the day.
SignedAgain == Append(txs, [st |-> "pooled", nonce |-> "free", permit |-> "valid"])

\* SendTransaction: the node pools the stored bytes unless their nonce is used.
Repeated ==
    IF txs[op.tx].st = "away" /\ txs[op.tx].nonce = "free"
    THEN [txs EXCEPT ![op.tx].st = "pooled"]
    ELSE txs

Resend ==
    /\ At("resend")
    /\ Observe
    /\ txs' = Repeated
    /\ UNCHANGED left

\* The request is lost, which RecordConfirmationError notes.
ResendFails ==
    /\ At("resend")
    /\ Spend("faults")
    /\ Observe
    /\ UNCHANGED txs

Handler ==
    \/ LoadFails \/ RunFresh \/ RunUnknown \/ RunKnown \/ ReceiptFails \/ Receipt
    \/ Admit \/ AdmitFails \/ AlreadyApproved \/ NotSent \/ Sent \/ SendFails
    \/ Record \/ RecordFails \/ ObserveSent
    \/ Readmit \/ ReadmitFails \/ ReadFails \/ Visible \/ Final \/ Latest \/ Resend \/ ResendFails

-----------------------------------------------------------------------------
(* The operator's Retry of a failed task: InspectRetry, PrepareRetry and   *)
(* BindSuccessor in one transaction.                                       *)

KnownUnsent == IF row.cp = None THEN FALSE ELSE row.cp.notSent

\* PrepareRetry drops the checkpoint of an unsent broadcast.
RetryCheckpoint == IF KnownUnsent THEN None ELSE row.cp

\* A broadcast known not to have been sent starts over.
ReopenUnsent ==
    /\ KnownUnsent
    /\ op.status = "failed" /\ ~op.owned /\ op.attempted /\ op.tx = 0 /\ ~op.signed
    /\ op' = [op EXCEPT !.status = "pending", !.owned = TRUE, !.attempted = FALSE]

\* An attempted broadcast must have left its hash.
HashIfAttempted == op.attempted => op.tx # 0

\* Otherwise the successor continues from the same evidence.
TransferOwner ==
    /\ ~KnownUnsent
    /\ op.owned /\ op.status \notin {"unknown", "confirmed"}
    /\ HashIfAttempted
    /\ UNCHANGED op

Retry ==
    /\ row.status = "failed" /\ ~row.final
    /\ ReopenUnsent \/ TransferOwner
    /\ row' = [FreshRow EXCEPT !.mode = "recover", !.cp = RetryCheckpoint]
    /\ UNCHANGED <<kind, inv, txs, left>>

-----------------------------------------------------------------------------
(* Time and the chain.  The handler trusts a receipt as soon as it is      *)
(* there, so blocks with the operation's own transaction stay; a block      *)
(* that displaces it may be reorganized until it is finalized.             *)

\* The observation window of a waiting task runs out.
WindowElapses ==
    /\ row.watch = "on" /\ row.status = "pending"
    /\ row' = [row EXCEPT !.watch = "over"]
    /\ UNCHANGED <<kind, op, inv, txs, left>>

\* A transaction is included; with a permit, before its deadline or in vain.
Included(i) ==
    /\ txs[i].st = "pooled" /\ txs[i].nonce = "free"
    /\ \E st \in {"landed", "reverted"} :
          /\ st = "landed" => txs[i].permit # "dead"
          /\ txs' = [txs EXCEPT ![i].st = st, ![i].nonce = "used"]

\* The wallet's owner uses the nonce for another transaction.
Displaced(i) ==
    /\ txs[i].nonce = "free"
    /\ txs' = [txs EXCEPT ![i].st = "away", ![i].nonce = "used"]

\* The block with that other transaction is reorganized away.
Reorganized(i) ==
    /\ txs[i].st = "away" /\ txs[i].nonce = "used"
    /\ txs' = [txs EXCEPT ![i].nonce = "free"]

\* A transaction on the way arrives at the node, or the node drops it.
Arrives(i) ==
    /\ txs[i].st = "away" /\ txs[i].nonce = "free"
    /\ txs' = [txs EXCEPT ![i].st = "pooled"]

Dropped(i) ==
    /\ txs[i].st = "pooled"
    /\ txs' = [txs EXCEPT ![i].st = "away"]

Finalized(i) ==
    /\ txs[i].nonce = "used"
    /\ txs' = [txs EXCEPT ![i].nonce = "final"]

\* Only FundUSDFC signs a permit.
PermitPasses(i) ==
    /\ kind = "fund" /\ txs[i].permit = "valid"
    /\ txs' = [txs EXCEPT ![i].permit = "late"]

\* A finalized block at or past the deadline finalizes the transaction that
\* landed before it.
PermitDies(i) ==
    /\ txs[i].permit = "late"
    /\ txs' = [txs EXCEPT ![i].permit = "dead",
                          ![i].nonce = IF txs[i].st = "landed" THEN "final" ELSE @]

Chain ==
    /\ \E i \in DOMAIN txs :
          \/ Included(i) \/ Displaced(i) \/ Reorganized(i) \/ Arrives(i) \/ Dropped(i)
          \/ Finalized(i) \/ PermitPasses(i) \/ PermitDies(i)
    /\ UNCHANGED <<kind, op, row, inv, left>>

WalletNext == Request \/ ClaimOperation \/ Handler \/ WalletCrash \/ Retry \/ WindowElapses \/ Chain

WalletSpec == WalletInit /\ [][WalletNext]_walletVars

\* The engine claims due tasks and its invocations finish; time passes; an
\* operator retries what the task page offers.  The chain owes nothing.
WalletFairSpec ==
    /\ WalletSpec
    /\ WF_walletVars(ClaimOperation) /\ WF_walletVars(Handler) /\ WF_walletVars(Retry)

-----------------------------------------------------------------------------
(* Properties                                                              *)

\* At most one transaction of the operation is included successfully.
LandedOnce == Cardinality({i \in DOMAIN txs : txs[i].st = "landed"}) <= 1

\* What the row tells the user is what happened.  A failed operation moved
\* nothing, and nothing signed for it can land any more, in particular after
\* wallet_permit_expired ("no funds moved", handler.go:305); a confirmed one has
\* its transaction on chain or was approved already; and one that gave a known
\* transaction up as displaced did so on a finalized nonce, so that nothing can
\* land behind its back (wallet_replay.go:213).
OutcomeTrue ==
    /\ op.status = "failed" => \A i \in DOMAIN txs : txs[i].st # "landed"
    /\ op.status = "confirmed" =>
          IF op.tx = 0 THEN kind = "approve" /\ txs = <<>> ELSE txs[op.tx].st = "landed"
    /\ op.status = "unknown" /\ op.tx # 0 => txs[op.tx].nonce = "final"

\* The evidence of the task and of the row never disagree when a claim or a
\* Retry reads them: the row is attempted exactly when the checkpoint exists,
\* both name the same transaction, an unsent broadcast left neither hash nor
\* transaction, and an unfinished task owns its operation.  The branches of the
\* handler that fail with wallet_evidence_conflict or wallet_task_superseded
\* are therefore unreachable.
EvidenceAgrees ==
    /\ (row.cp # None) = op.attempted
    /\ row.cp # None => row.cp.tx = op.tx /\ (row.cp.notSent => txs = <<>>)
    /\ row.status \in {"pending", "running"} => op.owned
    /\ op.status = "submitted" => op.tx # 0
    /\ op.status = "pending" => op.tx = 0

\* However often the task is interrupted, retried by the engine, continued by an
\* operator or reopened after an unsent broadcast, at most one transaction of
\* the operation is included successfully (resending "without creating another
\* payment", docs/en/operations/troubleshooting.md:108), the row tells what
\* happened, and the evidence of its task and of its row never disagree.
PaidOnce == LandedOnce /\ OutcomeTrue /\ EvidenceAgrees

\* The task gave up before it could mark a broadcast without a hash unknown:
\* attempts_exhausted, and InspectRetry refuses the evidence.
Stranded == row.status = "failed" /\ op.status = "pending" /\ op.attempted /\ op.tx = 0

\* A payment that landed is recorded: the operation ends confirmed, or unknown
\* when its hash was never learnt or its nonce was seen finalized first.  Only a
\* task whose every attempt since the broadcast failed to load the operation
\* leaves it stranded, with no hash recorded.
LandedAndRecorded ==
    (\E i \in DOMAIN txs : txs[i].st = "landed")
        => (op.status \in {"confirmed", "unknown"} \/ Stranded)
LandedIsRecorded == []<>LandedAndRecorded
=============================================================================
