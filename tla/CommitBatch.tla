----------------------------- MODULE CommitBatch -----------------------------
(***************************************************************************)
(* Registration of transferred copies on chain in signed batches: the      *)
(* commit requests of one data set (storage_commit_repo.go), the task that *)
(* drives each of them (task/commit/handler.go), what it concludes from    *)
(* the chain (storagecommit/advancer.go), and the copies that join, leave  *)
(* and are transferred again meanwhile.                                    *)
(*                                                                         *)
(* A request is signed once, under one nonce, for a fixed set of pieces.   *)
(* It may be sent several times; the chain accepts its nonce once.  What   *)
(* a handler reads before it acts is kept in inv, so that every step of    *)
(* the provider, of the chain and of other tasks may come in between, and  *)
(* a crash may lose it.                                                    *)
(***************************************************************************)
EXTENDS Naturals, FiniteSets

CONSTANTS Copies,        \* storage copies of the data set
          MaxRequests,   \* bound: requests ever created
          MaxSends,      \* bound: sends of one request in one period
          MaxPieces,     \* pieces one request may carry
          MaxSubmitted   \* MaxSubmittedRequestsPerDataSet

ASSUME CommitBoundsAssumption ==
    /\ MaxRequests \in Nat \ {0} /\ MaxSends \in Nat \ {0}
    /\ MaxPieces \in Nat \ {0} /\ MaxSubmitted \in Nat \ {0}

Reqs == 1 .. MaxRequests
Settled == {"confirmed", "abandoned"}
Sealed == {"ready", "submitted"}

\* transfer: the copy's own transfer task is running, stopped as failed, or absent.
CopyRow == [status : {"pending", "piece_ready", "committing", "committed", "failed"},
            req : 0 .. MaxRequests, positioned : BOOLEAN,
            transfer : {"none", "running", "stopped"}]

\* order: sealed_at, as the number of requests sealed before.
\* task: the request's task can run, has stopped as failed, or is gone.
RequestRow == [status : {"absent", "collecting"} \cup Sealed \cup Settled,
               pieces : SUBSET Copies, sends : 0 .. MaxSends, tx : BOOLEAN,
               backoff : BOOLEAN, order : 0 .. MaxRequests,
               task : {"none", "live", "stopped"}]

\* What the running invocation of a request's task has established so far.
Invocation == [step : {"none", "signed", "proved", "writable", "abandon",
                       "sending", "accepted", "refused"},
               why : {"none", "prepare", "observe", "giveup"},
               saw : {"unused", "landed", "foreign"},
               members : SUBSET Copies]

VARIABLES copies,    \* Copies -> CopyRow
          reqs,      \* Reqs -> RequestRow
          inv,       \* Reqs -> Invocation
          chain,     \* Reqs -> the request's nonce: unused, landed or foreign
          pool,      \* the requests of which a transaction may be in flight
          writable   \* the chain accepts pieces for the data set

vars == <<copies, reqs, inv, chain, pool, writable>>

Idle == [step |-> "none", why |-> "none", saw |-> "unused", members |-> {}]
NewRequest == [status |-> "collecting", pieces |-> {}, sends |-> 0, tx |-> FALSE,
               backoff |-> FALSE, order |-> 0, task |-> "live"]

Init == /\ copies = [c \in Copies |-> [status |-> "pending", req |-> 0,
                                       positioned |-> FALSE, transfer |-> "running"]]
        /\ reqs = [r \in Reqs |-> [NewRequest EXCEPT !.status = "absent", !.task = "none"]]
        /\ inv = [r \in Reqs |-> Idle]
        /\ chain = [r \in Reqs |-> "unused"]
        /\ pool = {} /\ writable = TRUE

Members(r) == {c \in Copies : copies[c].req = r}
Submitted == {r \in Reqs : reqs[r].status = "submitted"}
Smallest(S) == CHOOSE x \in S : \A y \in S : x <= y

-----------------------------------------------------------------------------
(* Joining and leaving a collecting request. *)

\* queueCommit for the copies C, after the changes cs and rs of the caller's
\* transaction: they join the oldest collecting request with a live task
\* (JoinCollectingCommitRequest) or start one (CreateCollectingCommitRequest).
Queue(C, cs, rs) ==
    LET open == {r \in Reqs : rs[r].status = "collecting" /\ rs[r].task = "live"}
        absent == {r \in Reqs : rs[r].status = "absent"}
        r == Smallest(IF open # {} THEN open ELSE absent)
    IN IF C = {} THEN copies' = cs /\ reqs' = rs
       ELSE /\ open \cup absent # {}
            /\ copies' = [c \in Copies |->
                            IF c \in C THEN [cs[c] EXCEPT !.req = r] ELSE cs[c]]
            /\ reqs' = IF open # {} THEN rs ELSE [rs EXCEPT ![r] = NewRequest]

\* finishPieceTransfer: MarkUploadCopyPieceReady, CompleteCopyTask and JoinCommit
\* in one settlement.  A signed member returns to its request.
FinishTransfer(c) ==
    /\ copies[c].transfer = "running"
    /\ LET done(status) == [copies EXCEPT ![c].status = status, ![c].transfer = "none"]
       IN IF copies[c].status # "pending" THEN Queue({}, done(copies[c].status), reqs)
          ELSE IF copies[c].positioned THEN Queue({}, done("committing"), reqs)
          ELSE Queue({c}, done("piece_ready"), reqs)
    /\ UNCHANGED <<inv, chain, pool, writable>>

\* The transfer gives up: settleCopyFailure fails a copy outside any signed
\* request; ReleaseMemberTransfer leaves a signed member to its request.
FailTransfer(c) ==
    /\ copies[c].transfer = "running"
    /\ copies' = [copies EXCEPT
         ![c].transfer = "none",
         ![c].status = IF @ = "pending" /\ ~copies[c].positioned THEN "failed" ELSE @]
    /\ UNCHANGED <<reqs, inv, chain, pool, writable>>

\* The transfer task stops as failed without settling its copy; an operator may
\* retry it.
StopTransfer(c) ==
    /\ copies[c].transfer = "running"
    /\ copies' = [copies EXCEPT ![c].transfer = "stopped"]
    /\ UNCHANGED <<reqs, inv, chain, pool, writable>>

RetryTransfer(c) ==
    /\ copies[c].transfer = "stopped"
    /\ copies' = [copies EXCEPT ![c].transfer = "running"]
    /\ UNCHANGED <<reqs, inv, chain, pool, writable>>

\* releaseCollectingCommitMembership: the request a copy leaves is given up when
\* no copy is left in it.
Release(c) ==
    [r \in Reqs |-> IF copies[c].req = r /\ ~copies[c].positioned /\ Members(r) = {c}
                    THEN [reqs[r] EXCEPT !.status = "abandoned", !.task = "none"]
                    ELSE reqs[r]]

\* A copy outside any signed request is cancelled by the permanent delete of its
\* last version, or taken out of its request by a replacement.
CancelCopy(c, status) ==
    /\ ~copies[c].positioned /\ copies[c].transfer # "running"
    /\ \/ copies[c].status \in {"pending", "piece_ready"} /\ status = "failed"
       \/ copies[c].status = "piece_ready" /\ copies[c].req # 0 /\ status = "piece_ready"
    /\ reqs' = Release(c)
    /\ copies' = [copies EXCEPT ![c] = [status |-> status, req |-> 0,
                                        positioned |-> FALSE, transfer |-> "none"]]
    /\ UNCHANGED <<inv, chain, pool, writable>>

\* A transferred copy outside any request joins one when its replacement asks.
JoinCommit(c) ==
    /\ copies[c].status = "piece_ready" /\ copies[c].req = 0
    /\ Queue({c}, copies, reqs)
    /\ UNCHANGED <<inv, chain, pool, writable>>

\* reopenFailedUploadCopy, and the transfer that starts with it.
ReopenFailedUploadCopy(c) ==
    /\ copies[c].status = "failed" /\ copies[c].transfer = "none"
    /\ ~copies[c].positioned
    /\ copies' = [copies EXCEPT ![c] = [status |-> "pending", req |-> 0,
                                        positioned |-> FALSE, transfer |-> "running"]]
    /\ UNCHANGED <<reqs, inv, chain, pool, writable>>

-----------------------------------------------------------------------------
(* Sealing. *)

\* The oldest sealed request that may be sent now (eligibleReadyCommitRequest).
Eligible(r) ==
    /\ reqs[r].status = "ready" /\ ~reqs[r].backoff /\ reqs[r].task = "live"
    /\ Cardinality({c \in Members(r) : copies[c].status = "committing"})
         = Cardinality(reqs[r].pieces)
IsHead(r) == /\ Eligible(r)
             /\ \A q \in Reqs : Eligible(q) => reqs[r].order <= reqs[q].order
HasRoom == Cardinality(Submitted) < MaxSubmitted

May(r, step) == reqs[r].task = "live" /\ inv[r].step = step
Begins(r, step, why, saw, members) ==
    inv' = [inv EXCEPT ![r] = [step |-> step, why |-> why, saw |-> saw,
                               members |-> members]]
Ends(r) == inv' = [inv EXCEPT ![r] = Idle]

\* runCollectingCommit: the members are read and signed, as many as fit; a
\* request without members is given up.
SignMembers(r, S) ==
    /\ May(r, "none") /\ reqs[r].status = "collecting"
    /\ S \subseteq Members(r) /\ Cardinality(S) <= MaxPieces
    /\ S = {} => Members(r) = {}
    /\ HasRoom /\ ~\E q \in Reqs : Eligible(q)
    /\ Begins(r, IF S = {} THEN "abandon" ELSE "signed", "none", "unused", S)
    /\ UNCHANGED <<copies, reqs, chain, pool, writable>>

\* Every signed copy must still wait in the request.
StillMembers(r, S) == S \subseteq Members(r)

\* SealCommitRequest: signed members take their positions, copies that joined
\* after they were read move to a request of their own.
SealCommitRequest(r) ==
    LET S == inv[r].members
        spilled == Members(r) \ S
        absent == {q \in Reqs : reqs[q].status = "absent"}
        next == Smallest(absent)
        sealed == [reqs EXCEPT ![r].status = "ready", ![r].pieces = S,
                     ![r].order = Cardinality({q \in Reqs : reqs[q].order > 0}) + 1]
    IN /\ May(r, "signed")
       /\ IF reqs[r].status = "collecting" /\ StillMembers(r, S)
          THEN /\ spilled = {} \/ absent # {}
               /\ reqs' = IF spilled = {} THEN sealed
                          ELSE [sealed EXCEPT ![next] = NewRequest]
               /\ copies' = [c \in Copies |->
                    IF c \in S THEN [copies[c] EXCEPT !.status = "committing",
                                     !.positioned = TRUE, !.req = r]
                    ELSE IF c \in spilled THEN [copies[c] EXCEPT !.req = next]
                    ELSE copies[c]]
          ELSE UNCHANGED <<copies, reqs>>
       /\ Ends(r)
       /\ UNCHANGED <<chain, pool, writable>>

-----------------------------------------------------------------------------
(* Deciding what a signed request needs next. *)

AllCommitting(r) == \A c \in Members(r) : copies[c].status = "committing"
Stalled(r) == {c \in Members(r) : copies[c].status = "pending"
                                   /\ copies[c].transfer # "running"}

\* Prove: the nonce is read, before a first send (Prepare), while a send may be
\* landing (Observe), or before a request the provider never accepted is given
\* up because its members cannot be transferred (giveUpUnacceptedCommit).
Prove(r, why) ==
    /\ May(r, "none")
    /\ \/ why = "prepare" /\ IsHead(r) /\ HasRoom
       \/ why = "observe" /\ reqs[r].status = "submitted"
       \/ why = "giveup" /\ reqs[r].status = "ready" /\ reqs[r].sends = 0
                         /\ Stalled(r) # {}
    /\ Begins(r, "proved", why, chain[r], {})
    /\ UNCHANGED <<copies, reqs, chain, pool, writable>>

\* CheckWritable, read after the nonce was found unused (Prepare, unobserved); a
\* later send is made all the same when the read fails.
CheckWritable(r) ==
    /\ May(r, "proved") /\ inv[r].saw = "unused" /\ inv[r].why # "giveup"
    /\ \E step \in {"writable", "abandon"} :
         /\ step = "abandon" => ~writable
         /\ step = "writable" => writable \/ inv[r].why = "observe"
         /\ inv' = [inv EXCEPT ![r].step = step]
    /\ UNCHANGED <<copies, reqs, chain, pool, writable>>

\* Only the nonce record confirms a request.
Proven(r) == inv[r].saw = "landed"

\* Mutant: only members that are not being transferred again are committed.
ConfirmableCommitting(r) == {c \in Members(r) : copies[c].status = "committing"}

Confirmable(r) == {c \in Members(r) : copies[c].status \in {"committing", "pending"}}

\* ConfirmCommitRequest commits every member, or nothing when one is missing.
ConfirmCommitRequest(r) ==
    /\ May(r, "proved") /\ Proven(r) /\ reqs[r].status \in Sealed
    /\ IF Confirmable(r) = reqs[r].pieces
       THEN /\ reqs' = [reqs EXCEPT ![r].status = "confirmed", ![r].task = "none"]
            /\ copies' = [c \in Copies |-> IF c \in reqs[r].pieces
                            THEN [copies[c] EXCEPT !.status = "committed"] ELSE copies[c]]
       ELSE UNCHANGED <<copies, reqs>>
    /\ Ends(r)
    /\ UNCHANGED <<chain, pool, writable>>

\* AbandonCommitRequest: the members leave; transferred ones are piece_ready.
Released(r) ==
    [c \in Copies |-> IF copies[c].req # r THEN copies[c]
       ELSE [copies[c] EXCEPT !.req = 0, !.positioned = FALSE,
               !.status = IF @ = "committing" THEN "piece_ready" ELSE @]]
AbandonedRow(r) == [reqs EXCEPT ![r].status = "abandoned", ![r].task = "none"]
FailCopies(cs, C) == [c \in Copies |-> IF c \in C THEN [cs[c] EXCEPT !.status = "failed"]
                                       ELSE cs[c]]

\* Mutant: a request that was sent is signed again as soon as its nonce reads unused.
MustResignUnused(r) == IF inv[r].why = "prepare" THEN inv[r].saw = "foreign"
                       ELSE inv[r].saw = "unused"

\* PrepareConflict, and giveUpUnacceptedCommit on an unused nonce.
MustResign(r) == \/ inv[r].why = "prepare" /\ inv[r].saw = "foreign"
                 \/ inv[r].why = "giveup" /\ inv[r].saw = "unused"

\* resignCommit: transferred members are queued again, members whose transfer
\* gave up fail, members with a transfer task are left to it.
ResignCommit(r) ==
    LET lost == {c \in Members(r) : copies[c].status = "pending"
                                     /\ copies[c].transfer = "none"}
        again == {c \in Members(r) : copies[c].status \in {"committing", "piece_ready"}}
    IN /\ May(r, "proved") /\ MustResign(r)
       /\ Queue(again, FailCopies(Released(r), lost), AbandonedRow(r))
       /\ Ends(r)
       /\ UNCHANGED <<chain, pool, writable>>

\* abandonCommit: the data set takes no more pieces; members without a running
\* transfer fail with the request.
AbandonCommit(r) ==
    /\ May(r, "abandon")
    /\ reqs' = AbandonedRow(r)
    /\ copies' = FailCopies(Released(r), {c \in Members(r) : copies[c].transfer = "none"})
    /\ Ends(r)
    /\ UNCHANGED <<chain, pool, writable>>

\* ObserveStop, and a request given up on a foreign nonce: the task fails and
\* waits for an operator.
StopCommit(r) ==
    /\ May(r, "proved") /\ inv[r].saw = "foreign" /\ inv[r].why # "prepare"
    /\ reqs' = [reqs EXCEPT ![r].task = "stopped"]
    /\ Ends(r)
    /\ UNCHANGED <<copies, chain, pool, writable>>

\* DropCommitEvidence: the receipt did not describe this request, which waits; a
\* request that is sent again drops it with the resend.
DropCommitEvidence(r) ==
    /\ \E step \in {"proved", "writable"} : May(r, step)
    /\ inv[r].why = "observe" /\ inv[r].saw = "unused" /\ reqs[r].tx
    /\ reqs' = [reqs EXCEPT ![r].tx = FALSE]
    /\ Ends(r)
    /\ UNCHANGED <<copies, chain, pool, writable>>

\* retransferStalledMembers.
RetransferStalled(r) ==
    /\ May(r, "none") /\ reqs[r].status \in Sealed /\ Stalled(r) # {}
    /\ copies' = [c \in Copies |-> IF c \in Stalled(r)
                    THEN [copies[c] EXCEPT !.transfer = "running"] ELSE copies[c]]
    /\ UNCHANGED <<reqs, inv, chain, pool, writable>>

-----------------------------------------------------------------------------
(* Sending. *)

StillEligible(r) == IsHead(r) /\ HasRoom

\* BeginCommitSubmission, recorded with the checkpoint before the first send.  That
\* the data set's row refuses it (retired meanwhile) is an EndInvocation.
BeginCommitSubmission(r) ==
    /\ May(r, "writable") /\ inv[r].why = "prepare"
    /\ IF StillEligible(r)
       THEN /\ reqs' = [reqs EXCEPT ![r].status = "submitted", ![r].sends = 1,
                          ![r].tx = FALSE, ![r].backoff = FALSE]
            /\ Begins(r, "sending", "prepare", "unused", {})
       ELSE reqs' = reqs /\ Ends(r)
    /\ UNCHANGED <<copies, chain, pool, writable>>

\* RecordCommitResend, recorded with the checkpoint before a later send, together with
\* what the observation settled: a receipt of another request is dropped.
RecordCommitResend(r) ==
    /\ May(r, "writable") /\ inv[r].why = "observe"
    /\ AllCommitting(r) /\ reqs[r].sends < MaxSends
    /\ \E tx \in {reqs[r].tx, FALSE} :
         reqs' = [reqs EXCEPT ![r].sends = @ + 1, ![r].tx = tx]
    /\ Begins(r, "sending", "observe", "unused", {})
    /\ UNCHANGED <<copies, chain, pool, writable>>

\* Send: the provider accepts and a transaction may exist, or it refuses before
\* making one, or the answer is lost either way.
Send(r) ==
    /\ May(r, "sending")
    /\ \/ inv' = [inv EXCEPT ![r].step = "accepted"] /\ pool' = pool \cup {r}
       \/ inv' = [inv EXCEPT ![r].step = "refused"] /\ pool' = pool
       \/ Ends(r) /\ pool' \in {pool, pool \cup {r}}
    /\ UNCHANGED <<copies, reqs, chain, writable>>

\* RecordCommitSubmission keeps the receipt.
RecordCommitSubmission(r) ==
    /\ May(r, "accepted")
    /\ reqs' = [reqs EXCEPT ![r].tx = TRUE]
    /\ Ends(r)
    /\ UNCHANGED <<copies, chain, pool, writable>>

\* ReturnCommitRequestToReady: only while the period's first send is the only one.
ReturnsToReady(r) == inv[r].why = "prepare" /\ reqs[r].sends = 1 /\ ~reqs[r].tx

\* A refusal: the members D that the provider no longer holds are transferred
\* again in their positions; the last attempt stops the task instead.
SettleRefusal(r, D) ==
    LET back == IF ReturnsToReady(r)
                THEN [reqs[r] EXCEPT !.status = "ready", !.sends = 0, !.tx = FALSE]
                ELSE reqs[r]
    IN /\ May(r, "refused")
       /\ D \subseteq {c \in Members(r) : copies[c].status = "committing"}
       /\ \/ /\ reqs' = [reqs EXCEPT ![r] = [back EXCEPT !.backoff = back.status = "ready"]]
             /\ copies' = [c \in Copies |-> IF c \in D
                   THEN [copies[c] EXCEPT !.status = "pending", !.transfer = "running"]
                   ELSE copies[c]]
          \/ /\ D = {} /\ copies' = copies
             /\ reqs' = [reqs EXCEPT ![r] = [back EXCEPT !.task = "stopped"]]
       /\ Ends(r)
       /\ UNCHANGED <<chain, pool, writable>>

\* retry_at passes.
BackoffEnds(r) ==
    /\ reqs[r].backoff /\ reqs' = [reqs EXCEPT ![r].backoff = FALSE]
    /\ UNCHANGED <<copies, inv, chain, pool, writable>>

-----------------------------------------------------------------------------
(* The engine and the chain. *)

\* A wait, a retry, a lost claim or a crash: what was read or answered is lost.
EndInvocation(r) ==
    /\ inv[r].step # "none" /\ Ends(r)
    /\ UNCHANGED <<copies, reqs, chain, pool, writable>>

\* The task's attempts are used up.
StopTask(r) ==
    /\ reqs[r].task = "live" /\ reqs' = [reqs EXCEPT ![r].task = "stopped"] /\ Ends(r)
    /\ UNCHANGED <<copies, chain, pool, writable>>

\* An operator's retry: TransferCommitTaskOwner hands the request to a new task.
RetryTask(r) ==
    /\ reqs[r].task = "stopped" /\ reqs' = [reqs EXCEPT ![r].task = "live"]
    /\ UNCHANGED <<copies, inv, chain, pool, writable>>

\* A transaction of the request is included, which uses the nonce up.
Mine(r) ==
    /\ r \in pool /\ chain[r] = "unused" /\ writable
    /\ chain' = [chain EXCEPT ![r] = "landed"]
    /\ UNCHANGED <<copies, reqs, inv, pool, writable>>

\* Something else uses the nonce.
ForeignNonce(r) ==
    /\ chain[r] = "unused" /\ reqs[r].status \in Sealed
    /\ chain' = [chain EXCEPT ![r] = "foreign"]
    /\ UNCHANGED <<copies, reqs, inv, pool, writable>>

\* The transactions of a request leave the pool without being included.
DropTransactions(r) ==
    /\ r \in pool /\ pool' = pool \ {r}
    /\ UNCHANGED <<copies, reqs, inv, chain, writable>>

\* The data set's service or payment ends, for good.
ServiceEnds ==
    /\ writable /\ writable' = FALSE
    /\ UNCHANGED <<copies, reqs, inv, chain, pool>>

CopyNext(c) == \/ FinishTransfer(c) \/ FailTransfer(c) \/ StopTransfer(c)
               \/ RetryTransfer(c) \/ JoinCommit(c) \/ ReopenFailedUploadCopy(c)
               \/ \E status \in {"failed", "piece_ready"} : CancelCopy(c, status)
RequestNext(r) ==
    \/ \E S \in SUBSET Copies : SignMembers(r, S) \/ SettleRefusal(r, S)
    \/ SealCommitRequest(r) \/ \E why \in {"prepare", "observe", "giveup"} : Prove(r, why)
    \/ CheckWritable(r) \/ ConfirmCommitRequest(r) \/ ResignCommit(r) \/ AbandonCommit(r)
    \/ StopCommit(r) \/ DropCommitEvidence(r) \/ RetransferStalled(r)
    \/ BeginCommitSubmission(r) \/ RecordCommitResend(r) \/ Send(r)
    \/ RecordCommitSubmission(r) \/ BackoffEnds(r)
    \/ EndInvocation(r) \/ StopTask(r) \/ RetryTask(r)
ChainNext == ServiceEnds \/ \E r \in Reqs : Mine(r) \/ ForeignNonce(r) \/ DropTransactions(r)

Next == \/ \E c \in Copies : CopyNext(c)
        \/ \E r \in Reqs : RequestNext(r)
        \/ ChainNext

Spec == Init /\ [][Next]_vars

\* The engine claims a due task again and again, so a request's task that can run
\* reads the nonce again, and an invocation does not fail for ever at the same
\* place (its lease is renewed while it runs).
Fairness == \A r \in Reqs : /\ WF_vars(Prove(r, "observe"))
                           /\ SF_vars(ConfirmCommitRequest(r))
                           /\ WF_vars(EndInvocation(r))
FairSpec == Spec /\ Fairness

-----------------------------------------------------------------------------
(* Properties. *)

TypeOK == /\ copies \in [Copies -> CopyRow]
          /\ reqs \in [Reqs -> RequestRow]
          /\ inv \in [Reqs -> Invocation]
          /\ chain \in [Reqs -> {"unused", "landed", "foreign"}]
          /\ pool \subseteq Reqs /\ writable \in BOOLEAN

\* No piece is registered twice: of all the requests a copy was ever signed in,
\* at most one lands (handler.go resignCommit, retransfers and lone failures).
RegisteredOnce ==
    \A c \in Copies : \A q, r \in Reqs :
        c \in reqs[q].pieces /\ c \in reqs[r].pieces
        /\ chain[q] = "landed" /\ chain[r] = "landed" => q = r

\* request.go: a ready request "is signed. No send of it can be pending."
ReadyHasNoSend ==
    \A r \in Reqs : reqs[r].status = "ready" => r \notin pool /\ chain[r] # "landed"

\* While a request is signed and unsettled its members are exactly its pieces, in
\* a status that confirmation accepts, so a landed request can always be confirmed.
SealedMembersPinned ==
    \A r \in Reqs : reqs[r].status \in Sealed =>
        /\ Members(r) = reqs[r].pieces
        /\ \A c \in Members(r) : copies[c].status \in {"committing", "pending"}

\* A collecting request has members: its task always finds something to seal.
CollectingHasMembers ==
    \A r \in Reqs : reqs[r].status = "collecting" => Members(r) # {}

\* A data set has at most MaxSubmittedRequestsPerDataSet requests in flight.
SubmittedBounded == Cardinality(Submitted) <= MaxSubmitted

\* A copy is committed only in a confirmed request that carries it and has landed.
CommittedIsOnChain ==
    \A c \in Copies : copies[c].status = "committed" =>
        \E r \in Reqs : /\ copies[c].req = r /\ c \in reqs[r].pieces
                        /\ reqs[r].status = "confirmed" /\ chain[r] = "landed"

\* No piece is registered twice, and the rows agree with each other and with the
\* chain in every reachable state.
RequestInv ==
    /\ TypeOK /\ RegisteredOnce /\ ReadyHasNoSend /\ SealedMembersPinned
    /\ CollectingHasMembers /\ SubmittedBounded /\ CommittedIsOnChain

\* request.go: an abandoned request "can never land."
AbandonedNeverLands == \A r \in Reqs : reqs[r].status = "abandoned" => chain[r] # "landed"

\* A request that landed while it was submitted is settled, or waits for an
\* operator because its task stopped.
LandedIsSettled ==
    \A r \in Reqs : (chain[r] = "landed" /\ reqs[r].status = "submitted")
        ~> (reqs[r].status \in Settled \/ reqs[r].task = "stopped")

=============================================================================
