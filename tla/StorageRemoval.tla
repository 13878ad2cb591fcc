--------------------------- MODULE StorageRemoval ---------------------------
(***************************************************************************)
(* Removal of stored pieces: the cleanup task of every content whose last  *)
(* version was deleted (internal/task/cleanup), and the removal requests   *)
(* that schedule their pieces' deletion in batches (internal/task/removal, *)
(* storage_removal_repo.go), on one data set.                              *)
(*                                                                         *)
(* A request is collected, sealed, sent to the provider as a signed list   *)
(* of pieces, and watched until the chain has removed them.  The provider  *)
(* may use a signature it was given at any time, whatever it answered; a   *)
(* deletion transaction takes all of its pieces or none.                   *)
(*                                                                         *)
(* A content has one copy here: its copies on other data sets are removed  *)
(* by other batches, and the cleanup waits for each of them alike.         *)
(* Attention codes are left out: those that stop a request are set as its  *)
(* task fails and cleared as it is retried, and the others stop nothing.   *)
(***************************************************************************)
EXTENDS Naturals, Sequences, FiniteSets, FiniteSetsExt

CONSTANTS
    Contents,         \* the deleted contents; also their cleanup copies and pieces
    Requests,         \* bound: removal requests
    Starts,           \* the initial situations, see Start
    RemovalAttempts   \* ExecutionPolicy.MaxAttempts of the removal task

ASSUME RemovalAssumption ==
    /\ Contents \subseteq Nat \ {0} /\ IsFiniteSet(Contents)
    /\ Requests \subseteq Nat \ {0}
    /\ \A s \in Starts :
          /\ {s.pieces, s.queue} \subseteq Nat \ {0}
          /\ s.contents \union s.known \subseteq Contents /\ s.old \union s.shared \subseteq s.contents
          /\ s.left \in [faults : Nat, crashes : Nat, retries : Nat]
    /\ RemovalAttempts \in Nat \ {0}

VARIABLES
    cleanup,  \* the cleanup task of each content
    copy,     \* the storage_cleanup_copies rows
    shared,   \* contents whose piece a live version still needs
    req,      \* the storage_removal_requests rows
    sends,    \* the storage_removal_sends of each request, in order
    task,     \* the task of each request
    invocation,      \* the invocation of that task
    chain,    \* the data set on chain
    start,    \* the initial situation: limits, and the pieces the provider knows
    left      \* what remains of the bounds

vars == <<cleanup, copy, shared, req, sends, task, invocation, chain, start, left>>

\* old: the deletion was sent before requests existed (DeleteTxHash).
Copy == [status : {"pending", "removed", "failed"}, req : Requests \union {0}, old : BOOLEAN]

Request == {"none", "collecting", "ready", "submitted", "queued", "settled", "abandoned"}

\* st is what the rows say of a send; fate, which no row holds, is what became
\* of its signature.
Send ==
    [pieces : SUBSET Contents, st : {"sent", "refused", "unsent"}, hash : BOOLEAN,
     reverted : BOOLEAN, fate : {"none", "held", "ok", "failed"}]

Task ==
    [status : {"none", "pending", "running", "failed", "done"}, mode : {"execute", "recover"},
     retry : 0..(RemovalAttempts - 1), admitted : 0..RemovalAttempts, lookup : BOOLEAN]

\* seen is the chain as this invocation read it before it sends, later the
\* requests that were queued at a later block (queued_block).
RemovalInvocation ==
    [pc : {"idle", "send", "call", "answered", "lookup"},
     seen : [Contents -> {"present", "scheduled", "removed"}], later : SUBSET Requests,
     answer : {"none", "hash", "lost", "refused", "notfound", "unsent"}]

TypeOK ==
    /\ cleanup \in [Contents -> {"pending", "failed", "finalized", "done"}]
    /\ copy \in [Contents -> Copy]
    /\ shared \subseteq Contents
    /\ req \in [Requests -> Request]
    /\ sends \in [Requests -> Seq(Send)]
    /\ task \in [Requests -> Task]
    /\ invocation \in [Requests -> RemovalInvocation]
    /\ chain \in [piece : [Contents -> {"present", "scheduled", "removed"}], ended : BOOLEAN]
    /\ start \in Starts
    /\ left \in [faults : Nat, crashes : Nat, retries : Nat]

Idle ==
    [pc |-> "idle", seen |-> [c \in Contents |-> "present"], later |-> {}, answer |-> "none"]

Fresh == [status |-> "pending", mode |-> "execute", retry |-> 0, admitted |-> 0, lookup |-> FALSE]

\* The deletion of the last version has bound a cleanup task to every content.
\* A start has the limits pieces (MaxPieces) and queue (MaxEnqueuedRemovals), the
\* contents to be cleaned up, those of them whose deletion an earlier release sent
\* (old) or whose piece is shared with a live version at first, the pieces known
\* to the provider, and what is left of faults, crashes and operator retries.
Init ==
    /\ start \in Starts
    /\ cleanup = [c \in Contents |-> IF c \in start.contents THEN "pending" ELSE "done"]
    /\ copy = [c \in Contents |-> [status |-> IF c \in start.contents THEN "pending" ELSE "removed",
                                   req |-> 0, old |-> c \in start.old]]
    /\ shared = start.shared
    /\ req = [r \in Requests |-> "none"]
    /\ sends = [r \in Requests |-> <<>>]
    /\ task = [r \in Requests |-> [Fresh EXCEPT !.status = "none"]]
    /\ invocation = [r \in Requests |-> Idle]
    /\ \E done \in SUBSET start.old :
          chain = [piece |-> [c \in Contents |-> IF c \in done THEN "scheduled"
                                                ELSE IF c \in start.contents THEN "present" ELSE "removed"],
                   ended |-> FALSE]
    /\ left = start.left

world == <<chain, shared, start>>

Spend(b) == left[b] > 0 /\ left' = [left EXCEPT ![b] = @ - 1]

-----------------------------------------------------------------------------
(* Rows and what the repository derives from them.                         *)

Terminal(r) == req[r] \in {"settled", "abandoned"}

Members(r) == {c \in Contents : copy[c].req = r}

\* Mutant: a version that shares the piece is not looked for.
NoReferences(cs) == {}

\* removalReferences
References(cs) == cs \intersect shared

\* Send.Exposed: the provider may hold the signature.
MayBeHeld(s) == s.st # "unsent"

\* Mutant: a send whose answer was lost does not count.
HasHash(s) == s.st = "sent" /\ s.hash

\* Send.PossiblyAccepted: nothing says that the provider will not use it.
MayBeAccepted(s) == s.st = "sent"

\* The latest send of request r the provider may hold, or may accept; 0 if there
\* is none.
Exposed(r) == Max({0} \union {k \in DOMAIN sends[r] : MayBeHeld(sends[r][k])})

Accepted(r) == Max({0} \union {k \in DOMAIN sends[r] : MayBeAccepted(sends[r][k])})

\* The pieces request r may have on their way to the queue (Send.InFlight).
InFlight(r) ==
    UNION {sends[r][k].pieces : k \in {i \in DOMAIN sends[r] :
        sends[r][i].st = "sent" /\ ~sends[r][i].reverted}}

-----------------------------------------------------------------------------
(* The cleanup task (runStorageCleanup).  What it reads before its         *)
(* settlement nobody else changes to its disadvantage: only this task puts *)
(* its copies into a request, and content under cleanup gets no new        *)
(* version, so a reference that is gone stays gone.                        *)

\* JoinOrCreateCollecting, with the request's task if it is new.
Collecting == {r \in Requests : req[r] = "collecting"}

Unused == {r \in Requests : req[r] = "none"}

Joins(c, r) ==
    /\ copy' = [copy EXCEPT ![c].req = r]
    /\ IF r \in Collecting THEN UNCHANGED <<req, task>>
       ELSE /\ req' = [req EXCEPT ![r] = "collecting"]
            /\ task' = [task EXCEPT ![r] = Fresh]

Unattached(c) ==
    cleanup[c] = "pending" /\ References({c}) = {} /\ copy[c].status = "pending" /\ copy[c].req = 0

CleanupJoins(c) ==
    /\ Unattached(c) /\ ~copy[c].old
    /\ \/ \E r \in Collecting : Joins(c, r)
       \/ Collecting = {} /\ Unused # {} /\ Joins(c, Min(Unused))
    /\ UNCHANGED <<cleanup, sends, invocation, world, left>>

\* AdoptLegacyCleanupCopy: the transaction already sent becomes the first send
\* of a request of its own.
CleanupAdopts(c) ==
    /\ Unattached(c) /\ copy[c].old /\ Unused # {}
    /\ LET r == Min(Unused)
       IN  /\ copy' = [copy EXCEPT ![c].req = r]
           /\ req' = [req EXCEPT ![r] = "submitted"]
           /\ task' = [task EXCEPT ![r] = Fresh]
           /\ \E fate \in (IF chain.piece[c] = "present" THEN {"held", "failed"} ELSE {"ok"}) :
                 sends' = [sends EXCEPT ![r] = <<[pieces |-> {c}, st |-> "sent", hash |-> TRUE,
                                                  reverted |-> FALSE, fate |-> fate]>>]
    /\ UNCHANGED <<cleanup, invocation, world, left>>

\* cleanup_copy_failed: an operator has to retry.
CleanupFails(c) ==
    /\ cleanup[c] = "pending" /\ References({c}) = {} /\ copy[c].status = "failed"
    /\ cleanup' = [cleanup EXCEPT ![c] = "failed"]
    /\ UNCHANGED <<copy, req, sends, task, invocation, world, left>>

\* finishStorageCleanup: FinalizeContent deletes the content's rows with the
\* checkpoint that says so; the task completes in a later transaction.
CleanupFinalizes(c) ==
    /\ cleanup[c] = "pending" /\ References({c}) = {} /\ copy[c].status = "removed"
    /\ cleanup' = [cleanup EXCEPT ![c] = "finalized"]
    /\ UNCHANGED <<copy, req, sends, task, invocation, world, left>>

CleanupCompletes(c) ==
    /\ cleanup[c] = "finalized"
    /\ cleanup' = [cleanup EXCEPT ![c] = "done"]
    /\ UNCHANGED <<copy, req, sends, task, invocation, world, left>>

\* The operator's Retry: ReauthorizeFailedCopies.
RetryCleanup(c) ==
    /\ cleanup[c] = "failed"
    /\ Spend("retries")
    /\ cleanup' = [cleanup EXCEPT ![c] = "pending"]
    /\ copy' = IF copy[c].status = "failed" /\ copy[c].req = 0
               THEN [copy EXCEPT ![c].status = "pending"] ELSE copy
    /\ UNCHANGED <<req, sends, task, invocation, world>>

-----------------------------------------------------------------------------
(* The removal task (removal.Handler.execute) and the engine's part in it. *)

At(r, pc) == task[r].status = "running" /\ invocation[r].pc = pc

Goes(r, pc) == invocation' = [invocation EXCEPT ![r].pc = pc]

End(r, t) == task' = [task EXCEPT ![r] = t] /\ invocation' = [invocation EXCEPT ![r] = Idle]

RemovalWaits(r, m) == [task[r] EXCEPT !.status = "pending", !.mode = m]

\* observe: look again later, without sending anything.
Observes(r) == End(r, RemovalWaits(r, "recover"))

\* retrySend: another attempt in execute mode, or the task fails.
RetrySend(r, t) ==
    IF t.retry + 1 < RemovalAttempts
    THEN [t EXCEPT !.status = "pending", !.mode = "execute", !.retry = @ + 1]
    ELSE [t EXCEPT !.status = "failed"]

RemovalCrash ==
    /\ Spend("crashes")
    /\ \E r \in Requests : task[r].status = "running"
    /\ task' = [r \in Requests |-> IF task[r].status = "running" THEN RemovalWaits(r, "recover") ELSE task[r]]
    /\ invocation' = [r \in Requests |-> Idle]
    /\ UNCHANGED <<cleanup, copy, req, sends, world>>

\* The request is over: its task has nothing left to do.
Ends(r) ==
    /\ task[r].status = "pending" /\ Terminal(r)
    /\ task' = [task EXCEPT ![r].status = "done"]
    /\ UNCHANGED <<cleanup, copy, req, sends, invocation, world, left>>

\* The members a sealed request keeps: those nobody references, MaxPieces at most.
Kept(r) ==
    LET free == Members(r) \ References(Members(r))
    IN  {c \in free : Cardinality({d \in free : d < c}) < start.pieces}

\* SealRemovalRequest, when the batch is full or old enough.
Seal(r) ==
    /\ task[r].status = "pending" /\ req[r] = "collecting"
    /\ copy' = [c \in Contents |-> IF c \in Members(r) \ Kept(r) THEN [copy[c] EXCEPT !.req = 0] ELSE copy[c]]
    /\ req' = [req EXCEPT ![r] = IF Kept(r) = {} THEN "abandoned" ELSE "ready"]
    /\ task' = [task EXCEPT ![r].mode = "recover"]
    /\ UNCHANGED <<cleanup, sends, invocation, world, left>>

(* A claim reads the chain (DeletionStates) and settles on what it saw.    *)
(* Until it sends, one step stands for both: the chain only moves on, and  *)
(* nobody else changes the rows of a sealed request.                       *)

\* Mutant: a request that is queued is not looked at again.
GoneUnqueued(r) ==
    {c \in Members(r) : copy[c].status # "removed" /\ chain.piece[c] = "removed" /\ req[r] # "queued"}

\* The members whose removal is news.
Gone(r) == {c \in Members(r) : copy[c].status # "removed" /\ chain.piece[c] = "removed"}

\* The members still in the data set, by a view of the chain.
Present(r, seen) == {c \in Members(r) : copy[c].status # "removed" /\ seen[c] = "present"}

Claims(r) == task[r].status = "pending" /\ req[r] \in {"ready", "submitted", "queued"}

\* changeMembers: with detach the members leave the request, which ends with
\* its last one; where a send may have been accepted they must stay.
ChangeMembers(r, cs, status, detach) ==
    /\ copy' = [c \in Contents |-> IF c \in cs
                                   THEN [copy[c] EXCEPT !.status = IF status = "" THEN @ ELSE status,
                                                        !.req = IF detach THEN 0 ELSE @]
                                   ELSE copy[c]]
    /\ req' = IF detach /\ cs = Members(r) THEN [req EXCEPT ![r] = "abandoned"] ELSE req

MarkRemoved(r) ==
    /\ Claims(r) /\ Gone(r) # {}
    /\ ChangeMembers(r, Gone(r), "removed", Accepted(r) = 0 /\ req[r] = "ready")
    /\ Observes(r)
    /\ UNCHANGED <<cleanup, sends, world, left>>

\* queued: settled once everything is removed, else only watched.
Queued(r) ==
    /\ Claims(r) /\ Gone(r) = {} /\ req[r] = "queued"
    /\ \/ /\ \A c \in Members(r) : copy[c].status = "removed"
          /\ req' = [req EXCEPT ![r] = "settled"]
          /\ End(r, [task[r] EXCEPT !.status = "done"])
       \/ /\ \E c \in Members(r) : copy[c].status # "removed"
          /\ Observes(r)
          /\ UNCHANGED req
    /\ UNCHANGED <<cleanup, copy, sends, world, left>>

Sealed(r) == Claims(r) /\ Gone(r) = {} /\ req[r] \in {"ready", "submitted"}

\* markQueued: MarkRemovalQueued, or MarkQueuedWithoutSend of a ready request.
MarksQueued(r) ==
    /\ req' = [req EXCEPT ![r] = "queued"]
    /\ task' = [task EXCEPT ![r] = RemovalWaits(r, "recover")]
    /\ invocation' = [q \in Requests |-> IF At(q, "send") /\ invocation[q].seen # chain.piece
                                         THEN [invocation[q] EXCEPT !.later = @ \union {r}] ELSE invocation[q]]
    /\ UNCHANGED <<copy, sends>>

AllQueued(r) ==
    /\ Sealed(r) /\ Present(r, chain.piece) = {}
    /\ MarksQueued(r)
    /\ UNCHANGED <<cleanup, world, left>>

\* The provider did not find a piece, and nobody has asked it which one yet.
LookupDue(r) == req[r] = "ready" /\ Accepted(r) = 0 /\ task[r].lookup

ResumeLookup(r) ==
    /\ Sealed(r) /\ Present(r, chain.piece) # {} /\ LookupDue(r)
    /\ task' = [task EXCEPT ![r].status = "running"]
    /\ invocation' = [invocation EXCEPT ![r] = [Idle EXCEPT !.pc = "lookup", !.seen = chain.piece]]
    /\ UNCHANGED <<cleanup, copy, req, sends, world, left>>

\* The transaction of the latest send that may be accepted has failed; one that
\* succeeded shows in the pieces, which were read at the same block or later.
ReceiptDue(r) ==
    /\ req[r] = "submitted" /\ Accepted(r) # 0
    /\ LET s == sends[r][Accepted(r)] IN s.hash /\ ~s.reverted /\ s.fate = "failed"

\* checkReceipt: one that lost against an earlier transaction on a piece of its
\* own is no failure (ClassifyFailedReceipt), any other is for an operator.
CheckReceipt(r) ==
    /\ Sealed(r) /\ Present(r, chain.piece) # {} /\ ~LookupDue(r) /\ ReceiptDue(r)
    /\ LET k == Accepted(r)
           collided == \E c \in sends[r][k].pieces : chain.piece[c] # "present"
       IN  /\ sends' = [sends EXCEPT ![r][k].reverted = TRUE]
           /\ End(r, IF collided THEN RemovalWaits(r, "recover") ELSE [task[r] EXCEPT !.status = "failed"])
    /\ UNCHANGED <<cleanup, copy, req, world, left>>

Undecided(r) == Sealed(r) /\ Present(r, chain.piece) # {} /\ ~LookupDue(r) /\ ~ReceiptDue(r)

\* Another identity, at any sealed request; a payer without funds, an unknown verifier,
\* where nothing has decided it yet: an operator's.
Stops(r) ==
    /\ Claims(r)
    /\ Spend("faults")
    /\ End(r, [task[r] EXCEPT !.status = "failed"])
    /\ UNCHANGED <<cleanup, copy, req, sends, world>>

CanAdmit(r) == task[r].admitted <= task[r].retry

\* Preflight and what follows it: a data set whose service ended needs no
\* deletion; each attempt sends once, and only in execute mode.  While an open
\* send has time left (ResendAt) the task takes no step.
Preflight(r) ==
    /\ Undecided(r)
    /\ \/ chain.ended /\ MarksQueued(r)
       \/ /\ ~chain.ended
          /\ \/ ~CanAdmit(r) /\ End(r, RetrySend(r, task[r]))
             \/ CanAdmit(r) /\ task[r].mode = "recover" /\ End(r, RemovalWaits(r, "execute"))
             \/ /\ CanAdmit(r) /\ task[r].mode = "execute"
                /\ task' = [task EXCEPT ![r].status = "running"]
                /\ invocation' = [invocation EXCEPT ![r] = [Idle EXCEPT !.pc = "send", !.seen = chain.piece]]
          /\ UNCHANGED <<copy, req, sends>>
    /\ UNCHANGED <<cleanup, world, left>>

\* The pieces to be deleted, as this invocation saw them.
Selected(r) == Present(r, invocation[r].seen)

Scheduled(pieces) == {c \in Contents : pieces[c] = "scheduled"}

\* AdmitRemovalSend: the queue as this invocation saw it, and what other
\* requests may have added since.
Room(r) ==
    LET others == {q \in Requests \ {r} :
                      \/ req[q] = "submitted"
                      \/ req[q] = "queued" /\ q \in invocation[r].later}
    IN  Cardinality(Scheduled(invocation[r].seen)) + Cardinality(UNION {InFlight(q) : q \in others})
            + Cardinality(Selected(r)) <= start.queue

\* The first send of a request authorizes it; later ones may only ask for less.
SendAuthorized(r) ==
    /\ Exposed(r) # 0 => Selected(r) \subseteq sends[r][Exposed(r)].pieces
    /\ Accepted(r) = 0 => References(Members(r)) = {}

AdmitRemovalSend(r) ==
    /\ At(r, "send") /\ SendAuthorized(r) /\ Room(r)
    /\ sends' = [sends EXCEPT ![r] = Append(@, [pieces |-> Selected(r), st |-> "sent", hash |-> FALSE,
                                                reverted |-> FALSE, fate |-> "none"])]
    /\ req' = [req EXCEPT ![r] = "submitted"]
    /\ task' = [task EXCEPT ![r].admitted = task[r].retry + 1, ![r].mode = "recover", ![r].lookup = FALSE]
    /\ Goes(r, "call")
    /\ UNCHANGED <<cleanup, copy, world, left>>

\* ErrNoRemovalRoom
NoRoom(r) ==
    /\ At(r, "send") /\ SendAuthorized(r) /\ ~Room(r)
    /\ End(r, RemovalWaits(r, "execute"))
    /\ UNCHANGED <<cleanup, copy, req, sends, world, left>>

\* DeletePiecesByID: the answer, and whether the signature reached the provider.
Answers(r, answer, fate) ==
    /\ At(r, "call")
    /\ invocation' = [invocation EXCEPT ![r].pc = "answered", ![r].answer = answer]
    /\ sends' = [sends EXCEPT ![r][Len(sends[r])].fate = fate]
    /\ UNCHANGED <<cleanup, copy, req, task, world>>

Call(r) ==
    /\ At(r, "call")
    /\ Answers(r, IF sends[r][Len(sends[r])].pieces \subseteq start.known THEN "hash" ELSE "notfound", "held")
    /\ UNCHANGED left

\* The call or its answer is lost, it is refused, or it never leaves.
CallFails(r) ==
    /\ Spend("faults")
    /\ \/ \E fate \in {"none", "held"} : Answers(r, "lost", fate)
       \/ Answers(r, "refused", "held")
       \/ Answers(r, "unsent", "none")

\* sendEvidence of a refused or unsent send: with no send left that may be
\* accepted the request is ready again.
Retracts(r, st) ==
    LET k == Len(sends[r])
        ss == [sends EXCEPT ![r][k].st = st]
    IN  /\ sends' = ss
        /\ req' = IF \E i \in DOMAIN ss[r] : MayBeAccepted(ss[r][i]) THEN req
                  ELSE [req EXCEPT ![r] = "ready"]

\* The accepted send execute read before it sent this one.
EarlierAccepted(r) == \E i \in 1..(Len(sends[r]) - 1) : MayBeAccepted(sends[r][i])

Record(r) ==
    /\ At(r, "answered")
    /\ LET a == invocation[r].answer
       IN  \/ /\ a = "hash"
              /\ sends' = [sends EXCEPT ![r][Len(sends[r])].hash = TRUE]
              /\ Observes(r)
              /\ UNCHANGED req
           \/ a = "lost" /\ Observes(r) /\ UNCHANGED <<sends, req>>
           \/ /\ a = "notfound" /\ ~EarlierAccepted(r)
              /\ Retracts(r, "refused")
              /\ task' = [task EXCEPT ![r].lookup = TRUE]
              /\ Goes(r, "lookup")
           \/ /\ a = "refused" \/ (a = "notfound" /\ EarlierAccepted(r))
              /\ Retracts(r, "refused")
              /\ End(r, RetrySend(r, task[r]))
           \/ /\ a = "unsent"
              /\ Retracts(r, "unsent")
              /\ End(r, RetrySend(r, task[r]))
    /\ UNCHANGED <<cleanup, copy, world, left>>

\* ids[len(ids)/2:]
SecondHalf(cs) == {c \in cs : Cardinality({d \in cs : d < c}) >= Cardinality(cs) \div 2}

\* refusedMembers: the pieces the provider does not know fail; if it knows none
\* the batch is halved, to find out in smaller ones.
Lookup(r) ==
    /\ At(r, "lookup")
    /\ LET unknown == Selected(r) \ start.known
           t == RetrySend(r, [task[r] EXCEPT !.lookup = FALSE])
       IN  \/ /\ Accepted(r) = 0 /\ unknown # {} /\ unknown # Selected(r)
              /\ ChangeMembers(r, unknown, "failed", TRUE) /\ End(r, t)
           \/ /\ Accepted(r) = 0 /\ unknown = Selected(r) /\ Cardinality(Selected(r)) > 1
              /\ ChangeMembers(r, SecondHalf(Selected(r)), "", TRUE) /\ End(r, t)
           \/ /\ unknown = {} \/ (unknown = Selected(r) /\ Cardinality(Selected(r)) = 1)
              /\ End(r, t) /\ UNCHANGED <<copy, req>>
    /\ UNCHANGED <<cleanup, sends, world, left>>

\* A read of rows, chain or provider fails.
ReadFails(r) ==
    /\ At(r, "send") \/ At(r, "lookup")
    /\ Spend("faults")
    /\ Observes(r)
    /\ UNCHANGED <<cleanup, copy, req, sends, world>>

\* The operator's Retry: TransferRemovalTaskOwner.
RetryRemoval(r) ==
    /\ task[r].status = "failed" /\ ~Terminal(r)
    /\ Spend("retries")
    /\ task' = [task EXCEPT ![r] = [Fresh EXCEPT !.mode = "recover", !.lookup = task[r].lookup]]
    /\ UNCHANGED <<cleanup, copy, req, sends, invocation, world>>

Handler(r) ==
    \/ MarkRemoved(r) \/ Queued(r) \/ AllQueued(r) \/ ResumeLookup(r) \/ CheckReceipt(r) \/ Stops(r)
    \/ Preflight(r) \/ AdmitRemovalSend(r) \/ NoRoom(r) \/ Call(r) \/ CallFails(r) \/ Record(r)
    \/ Lookup(r) \/ ReadFails(r)

-----------------------------------------------------------------------------
(* The chain, the provider, time and the other versions.                   *)

\* Somebody may still ask for the receipt of a transaction.
Readable(r, s) == s.hash /\ ~Terminal(r)

\* schedulePieceDeletions: every piece is there and the queue has room, or the
\* transaction fails.
Lands(r, k) ==
    LET s == sends[r][k]
        ok == /\ \A c \in s.pieces : chain.piece[c] = "present"
              /\ Cardinality(Scheduled(chain.piece)) + Cardinality(s.pieces) <= start.queue
    IN  /\ s.fate = "held" /\ (ok \/ Readable(r, s))
        /\ sends' = [sends EXCEPT ![r][k].fate = IF ok THEN "ok" ELSE "failed"]
        /\ chain' = IF ~ok THEN chain
                    ELSE [chain EXCEPT !.piece = [c \in Contents |-> IF c \in s.pieces THEN "scheduled" ELSE @[c]]]
        /\ UNCHANGED <<cleanup, copy, req, task, invocation, shared, start, left>>

\* A transaction fails for a reason of its own.
TransactionFails(r, k) ==
    /\ sends[r][k].fate = "held" /\ Readable(r, sends[r][k])
    /\ Spend("faults")
    /\ sends' = [sends EXCEPT ![r][k].fate = "failed"]
    /\ UNCHANGED <<cleanup, copy, req, task, invocation, world>>

\* The next proving period removes what is scheduled.
ProvingPeriod ==
    /\ Scheduled(chain.piece) # {}
    /\ chain' = [chain EXCEPT !.piece = [c \in Contents |-> IF @[c] = "scheduled" THEN "removed" ELSE @[c]]]
    /\ UNCHANGED <<cleanup, copy, req, sends, task, invocation, shared, start, left>>

\* The data set's service ends, and later its pieces are gone.
ServiceEnds ==
    /\ ~chain.ended /\ Spend("faults")
    /\ chain' = [chain EXCEPT !.ended = TRUE]
    /\ UNCHANGED <<cleanup, copy, req, sends, task, invocation, shared, start>>

DataSetGone ==
    /\ chain.ended /\ \E c \in Contents : chain.piece[c] # "removed"
    /\ chain' = [chain EXCEPT !.piece = [c \in Contents |-> "removed"]]
    /\ UNCHANGED <<cleanup, copy, req, sends, task, invocation, shared, start, left>>

\* The last version that needs the piece of content c is deleted.
ReferenceEnds(c) ==
    /\ c \in shared
    /\ shared' = shared \ {c}
    /\ UNCHANGED <<cleanup, copy, req, sends, task, invocation, chain, start, left>>

Cleanup(c) ==
    CleanupJoins(c) \/ CleanupAdopts(c) \/ CleanupFails(c) \/ CleanupFinalizes(c) \/ CleanupCompletes(c)

Removal(r) == Ends(r) \/ Seal(r) \/ Handler(r)

Next ==
    \/ \E c \in Contents : Cleanup(c) \/ RetryCleanup(c) \/ ReferenceEnds(c)
    \/ \E r \in Requests :
          \/ Removal(r) \/ RetryRemoval(r)
          \/ \E k \in DOMAIN sends[r] : Lands(r, k) \/ TransactionFails(r, k)
    \/ RemovalCrash \/ ProvingPeriod \/ ServiceEnds \/ DataSetGone

Spec == Init /\ [][Next]_vars

\* The engine runs what is due, time passes and the chain proves; whether a
\* provider uses a signature is up to it.
FairSpec ==
    /\ Spec
    /\ \A c \in Contents : WF_vars(Cleanup(c))
    /\ \A r \in Requests : WF_vars(Removal(r))
    /\ WF_vars(ProvingPeriod) /\ WF_vars(DataSetGone)

-----------------------------------------------------------------------------
(* Properties                                                              *)

\* Data a version needs is never given up, and data nobody needs is given up
\* only when it is: a piece leaves the data set on this system's signature only
\* while no version refers to it, and the rows of a content are deleted only
\* after the chain has removed its piece.
OnlyUnneeded ==
    /\ TypeOK
    /\ \A r \in Requests : \A k \in DOMAIN sends[r] : sends[r][k].pieces \intersect shared = {}
    /\ \A c \in Contents :
          cleanup[c] \in {"finalized", "done"} => chain.piece[c] = "removed" /\ c \notin shared

\* Every signature that may still be used is watched over by its own request: the
\* pieces of a send that may be accepted stay members until they are removed, and
\* no piece is in two such sends of different requests; a later send of a request
\* never asks for more than an earlier one the provider may hold, so whichever is
\* used first, the others only fail.
SignaturesWatched ==
    /\ \A r \in Requests : \A k \in DOMAIN sends[r] :
          /\ sends[r][k].st = "sent" => sends[r][k].pieces \subseteq Members(r)
          /\ \A j \in 1..(k - 1) : sends[r][j].st # "unsent" => sends[r][k].pieces \subseteq sends[r][j].pieces
    /\ \A r \in Requests : At(r, "send") /\ Exposed(r) # 0 => Selected(r) \subseteq sends[r][Exposed(r)].pieces

\* Pieces whose place in the queue nobody reserved: their send was refused and may
\* be used nevertheless, or an earlier release sent it and nobody knew of it before
\* it was adopted.
Uncounted ==
    {c \in Contents :
        \/ copy[c].old
        \/ \E r \in Requests : \E k \in DOMAIN sends[r] : sends[r][k].st = "refused" /\ c \in sends[r][k].pieces}

\* Pieces in a send that may be accepted and has not been mined.
Coming ==
    {c \in Contents : \E r \in Requests : \E k \in DOMAIN sends[r] :
        sends[r][k].st = "sent" /\ sends[r][k].fate \in {"none", "held"} /\ c \in sends[r][k].pieces}

\* What is scheduled and what is on its way.
Committed ==
    {c \in Contents \ Uncounted :
        chain.piece[c] = "scheduled" \/ (chain.piece[c] = "present" /\ c \in Coming)}

\* The queue of a data set is never overcommitted: with the deletions that are on
\* their way, scheduled pieces never exceed what the contract takes.
QueueBound == ~chain.ended => Cardinality(Committed) <= start.queue

\* What is signed is watched over and fits the contract's queue.
SignaturesKept == SignaturesWatched /\ QueueBound

\* Somebody other than the tasks has to act.
NeedsHelp(c) ==
    c \in shared \/ cleanup[c] = "failed" \/ \E r \in Requests : task[r].status = "failed"

\* Every cleanup ends with the content gone, whatever was lost, refused or
\* crashed, unless a version needs the piece or an operator has to retry.
CleanupEnds == \A c \in Contents : cleanup[c] = "pending" ~> (cleanup[c] = "done" \/ NeedsHelp(c))
=============================================================================
