---------------------------- MODULE StoreSession ----------------------------
(***************************************************************************)
(* The store task of one storage copy: the bytes of a cached object are    *)
(* sent to a storage provider through an upload session                    *)
(* (internal/task/transfer/store.go, store_session.go, retry.go and        *)
(* internal/synapse/store_session.go).                                     *)
(*                                                                         *)
(* A session is created, one PUT claims it and sends the body, a finalize  *)
(* publishes the piece.  The task checkpoints its stage before every       *)
(* request, so that a later invocation, a later round or a later task of   *)
(* the same copy continues the session instead of sending the body again.  *)
(* The provider, the network, the cached file and crashes are the          *)
(* environment.  The engine's claims and attempts are the ones TaskEngine  *)
(* describes, reduced to what a single task sees of them.                  *)
(***************************************************************************)
EXTENDS Naturals, FiniteSets

CONSTANTS
    Sids,          \* upload sessions the provider may hand out
    Urls,          \* service URLs the provider may answer at
    None,          \* no checkpoint, no session
    MaxAttempts,   \* ExecutionPolicy.MaxAttempts of the store task
    MaxRounds,     \* bound: retries by an operator
    MaxTransfers,  \* bound: transfers of the copy, the first included
    MaxFaults,     \* bound: failing calls
    MaxCrashes,    \* bound: crashes of the process
    MaxMoves,      \* bound: changes of the provider's service URL
    MaxDrops       \* bound: changes of the cache and the provider by others

VARIABLES
    row,       \* the copy's current store task
    past,      \* the checkpoints of the copy's failed store tasks
    inv,       \* the invocation that runs the task
    copy,      \* the copy row
    body,      \* the cached file of the content
    sessions,  \* the provider's upload sessions
    piece,     \* the state of the piece at each service URL
    url,       \* the provider's current service URL
    wasReady,  \* URLs at which the provider has had the piece ready
    left       \* what remains of the bounds

vars == <<row, past, inv, copy, body, sessions, piece, url, wasReady, left>>

\* Every PUT takes an admission of its own.
MaxUploads == MaxAttempts * (MaxRounds + MaxTransfers)

Stages == {"create", "upload", "finalize", "observe", "expired"}

\* storeCheckpoint; "incomplete" is UploadsIncomplete, "observing" says that
\* ObservationStartedAt is set.
Checkpoint ==
    [stage : Stages, sid : Sids \union {None}, at : Urls, attempt : 0..MaxUploads,
     incomplete : BOOLEAN, observing : BOOLEAN]

Row ==
    [status : {"pending", "running", "failed", "done"}, mode : {"execute", "recover"},
     retry : 0..(MaxAttempts - 1), admitted : 0..MaxAttempts,
     cp : Checkpoint \union {None}]

\* pc names the next request of the invocation; cp is the checkpoint it holds
\* in memory and claimable the value UploadsIncomplete had before the PUT.
Invocation ==
    [pc : {"idle", "run", "admit", "create", "created", "finish", "open", "begin",
           "put", "finalize", "missing", "observe"},
     mode : {"execute", "recover"}, cp : Checkpoint \union {None},
     claimable : BOOLEAN, target : Urls]

Copy == [status : {"pending", "ready"}, attempt : 0..MaxUploads, at : Urls \union {None}]

\* A session's whole flag records that some PUT to it has read its complete
\* body; a claimed session with whole set may still complete.
Session ==
    [st : {"none", "open", "claimed", "received", "published", "gone"},
     at : Urls, whole : BOOLEAN]

TypeOK ==
    /\ row \in Row /\ past \subseteq Checkpoint /\ inv \in Invocation /\ copy \in Copy
    /\ body \in {"ok", "missing", "damaged"}
    /\ sessions \in [Sids -> Session] /\ piece \in [Urls -> {"missing", "processing", "ready"}]
    /\ url \in Urls /\ wasReady \subseteq Urls
    /\ left \in [rounds : 0..MaxRounds, transfers : 0..(MaxTransfers - 1), faults : 0..MaxFaults,
                 crashes : 0..MaxCrashes, moves : 0..MaxMoves, drops : 0..MaxDrops]

FreshRow == [status |-> "pending", mode |-> "execute", retry |-> 0, admitted |-> 0, cp |-> None]

Idle(u) ==
    [pc |-> "idle", mode |-> "execute", cp |-> None, claimable |-> FALSE, target |-> u]

Init ==
    /\ row = FreshRow /\ past = {} /\ body = "ok"
    /\ url \in Urls /\ inv = Idle(url)
    /\ copy = [status |-> "pending", attempt |-> 0, at |-> None]
    /\ sessions = [s \in Sids |-> [st |-> "none", at |-> url, whole |-> FALSE]]
    /\ piece = [u \in Urls |-> "missing"] /\ wasReady = {}
    /\ left = [rounds |-> MaxRounds, transfers |-> MaxTransfers - 1, faults |-> MaxFaults,
               crashes |-> MaxCrashes, moves |-> MaxMoves, drops |-> MaxDrops]

-----------------------------------------------------------------------------
(* Settlements: the invocation ends and its result is written to the row.  *)

Spend(b) == left[b] > 0 /\ left' = [left EXCEPT ![b] = @ - 1]

End(r) == row' = r /\ inv' = Idle(url)

\* taskengine.Wait, WaitForObservation
Waits(m, cp) == End([row EXCEPT !.status = "pending", !.mode = m, !.cp = cp])

\* taskengine.Fail; the task keeps the copy.
Fails(cp) == End([row EXCEPT !.status = "failed", !.cp = cp])

\* taskengine.Retry and RetryInMode(recover): transitionFor counts the attempt.
Retries(cp) ==
    \/ /\ row.retry = MaxAttempts - 1
       /\ Fails(cp)
    \/ /\ row.retry < MaxAttempts - 1
       /\ End([row EXCEPT !.status = "pending", !.mode = "recover", !.retry = @ + 1, !.cp = cp])

\* finishPieceTransfer: the copy is piece-ready at the URL of the target.
Finishes(cp) ==
    /\ End([row EXCEPT !.status = "done", !.cp = cp])
    /\ copy' = [copy EXCEPT !.status = "ready", !.at = inv.target]

\* Mutant: an old service URL that still serves the piece is believed.
StateAtOldBelieved(at, target) ==
    IF piece[target] = "ready" \/ piece[at] = "ready" THEN "ready"
    ELSE IF piece[at] = "processing" \/ piece[target] = "processing" THEN "processing"
    ELSE "missing"

\* storePieceState: what the checkpoint's URL and the target's URL say together.
StoreState(at, target) ==
    IF at = target \/ piece[target] = "ready" THEN piece[target]
    ELSE IF piece[target] = "missing" /\ piece[at] # "processing" THEN "missing"
    ELSE "processing"

\* waitForStoreStatus: the observation starts, goes on, or has lasted too long.
WaitsForStatus(cp) ==
    \/ Waits("recover", [cp EXCEPT !.observing = TRUE])
    \/ cp.observing /\ Fails(cp)

\* recoverStore, given the state of the piece
Recovers(cp, state) ==
    \/ /\ state = "ready"
       /\ Finishes(cp)
    \/ /\ state = "missing"
       /\ \/ Waits("execute", cp)
          \/ cp.observing /\ cp.stage # "expired" /\ Fails(cp)
       /\ UNCHANGED copy
    \/ /\ state = "processing"
       /\ WaitsForStatus(cp)
       /\ UNCHANGED copy

-----------------------------------------------------------------------------
(* The engine *)

\* A claim of the pending task, or of a running task whose lease has expired
\* with its process: the latter runs in recover mode.
Claim ==
    /\ inv.pc = "idle"
    /\ \/ row.status = "pending" /\ inv' = [Idle(url) EXCEPT !.pc = "run", !.mode = row.mode]
       \/ row.status = "running" /\ inv' = [Idle(url) EXCEPT !.pc = "run", !.mode = "recover"]
    /\ row' = [row EXCEPT !.status = "running", !.mode = inv'.mode]
    /\ UNCHANGED <<past, copy, body, sessions, piece, url, wasReady, left>>

\* The process dies, or loses its lease and drops what it was doing.  A PUT
\* that was being sent leaves its session claimed, the body read or not.
Crash ==
    /\ inv.pc # "idle" /\ Spend("crashes")
    /\ inv' = Idle(url)
    /\ \/ UNCHANGED sessions
       \/ /\ inv.pc = "put" /\ sessions[inv.cp.sid].st = "open"
          /\ \E w \in BOOLEAN :
               sessions' = [sessions EXCEPT ![inv.cp.sid] =
                              [@ EXCEPT !.st = "claimed", !.whole = @ \/ w]]
    /\ UNCHANGED <<row, past, copy, body, piece, url, wasReady>>

-----------------------------------------------------------------------------
(* runStore: an invocation up to its first request *)

\* The checkpoints of earlier failed tasks that belong to the copy's last PUT.
Adoptable == {[c EXCEPT !.observing = FALSE] : c \in {p \in past : p.attempt = copy.attempt}}

\* A task without a checkpoint.  If the copy has been stored before, the
\* checkpoints of that store are adopted and only then recovered; if they
\* disagree, or there is none and the task may not execute, it goes no further.
RunWithoutCheckpoint ==
    /\ row.cp = None /\ UNCHANGED <<copy>>
    /\ \/ /\ copy.attempt > 0 /\ Cardinality(Adoptable) > 1
          /\ Fails(None)
       \/ /\ copy.attempt > 0 /\ Cardinality(Adoptable) = 1
          /\ \E c \in Adoptable : Waits("recover", c)
       \/ /\ copy.attempt = 0 \/ Adoptable = {}
          /\ \/ inv.mode = "recover" /\ Waits("execute", None)
             \/ inv.mode = "execute" /\ inv' = [inv EXCEPT !.pc = "open", !.cp = None] /\ UNCHANGED row

\* A task with a checkpoint looks at the piece first; only a missing piece may
\* be stored again, and only in execute mode.
RunWithCheckpoint ==
    /\ row.cp # None
    /\ \/ /\ inv.mode = "recover"
          /\ Recovers(row.cp, StoreState(row.cp.at, inv.target))
       \/ /\ inv.mode = "execute" /\ StoreState(row.cp.at, inv.target) = "ready"
          /\ Finishes(row.cp)
       \/ /\ inv.mode = "execute" /\ StoreState(row.cp.at, inv.target) = "processing"
          /\ WaitsForStatus(row.cp) /\ UNCHANGED copy
       \/ /\ inv.mode = "execute" /\ StoreState(row.cp.at, inv.target) = "missing"
          /\ inv' = [inv EXCEPT !.pc = "admit", !.cp = row.cp]
          /\ UNCHANGED <<row, copy>>

RunStore ==
    /\ inv.pc = "run"
    /\ \/ /\ copy.status = "ready"
          /\ End([row EXCEPT !.status = "done"]) /\ UNCHANGED <<copy, left>>
       \/ /\ copy.status = "pending"
          /\ RunWithoutCheckpoint \/ RunWithCheckpoint
          /\ UNCHANGED left
       \/ /\ copy.status = "pending" /\ Spend("faults")
          /\ Retries(row.cp) \/ Waits("recover", row.cp)
          /\ UNCHANGED copy
    /\ UNCHANGED <<past, body, sessions, piece, url, wasReady>>

\* openStoreBody for a store that has no checkpoint, and storePiece up to the
\* admission: a copy stored before is looked for at the provider.
OpenBody ==
    /\ inv.pc = "open"
    /\ LET fresh == [stage |-> "create", sid |-> None, at |-> inv.target, attempt |-> 0,
                     incomplete |-> FALSE, observing |-> FALSE]
           seen  == [fresh EXCEPT !.attempt = copy.attempt]
       IN \/ /\ body = "missing" /\ copy.attempt = 0
             /\ Waits("execute", None) /\ UNCHANGED <<copy, left>>
          \/ /\ body = "missing" /\ copy.attempt > 0
             /\ Fails(None) /\ UNCHANGED <<copy, left>>
          \/ /\ body = "damaged"
             /\ Fails(None) /\ UNCHANGED <<copy, left>>
          \/ /\ body = "ok" /\ (copy.attempt = 0 \/ piece[inv.target] = "missing")
             /\ inv' = [inv EXCEPT !.pc = "admit", !.cp = fresh]
             /\ UNCHANGED <<row, copy, left>>
          \/ /\ body = "ok" /\ copy.attempt > 0 /\ piece[inv.target] = "ready"
             /\ Finishes(seen) /\ UNCHANGED left
          \/ /\ body = "ok" /\ copy.attempt > 0 /\ piece[inv.target] = "processing"
             /\ Retries(None) /\ UNCHANGED <<copy, left>>
          \/ /\ Spend("faults") /\ UNCHANGED copy
             /\ Retries(None) \/ Waits("execute", None)   \* waitForCommitBacklog
    /\ UNCHANGED <<past, body, sessions, piece, url, wasReady>>

-----------------------------------------------------------------------------
(* executeStoreSession: one admitted effect, a checkpoint before every request *)

Goes(pc, cp) == inv' = [inv EXCEPT !.pc = pc, !.cp = cp]

\* execution.WriteCheckpoint
Writes(cp) == row' = [row EXCEPT !.cp = cp]

\* retryStoreCheckpoint settles a failed request or checkpoint write with the
\* checkpoint the invocation holds; a request the provider rejects fails the task.
Errs(cp) == Retries(cp) \/ Fails(cp)
RequestFails(cp) == Spend("faults") /\ Errs(cp) /\ UNCHANGED sessions

\* Mutant: an effect that was admitted before waits for its outcome.
AdmitWaits ==
    /\ inv.pc = "admit" /\ UNCHANGED left
    /\ LET candidate == [inv.cp EXCEPT !.observing = FALSE]
       IN \/ /\ row.admitted < row.retry + 1
             /\ row' = [row EXCEPT !.admitted = row.retry + 1, !.mode = "recover", !.cp = candidate]
             /\ Goes(IF candidate.sid = None THEN "create" ELSE "finish", candidate)
          \/ row.admitted = row.retry + 1 /\ Waits("recover", row.cp)
    /\ UNCHANGED <<past, copy, body, sessions, piece, url, wasReady>>

\* WithCheckpointedEffect("store:" + CID): one admission for each attempt.
Admit ==
    /\ inv.pc = "admit"
    /\ LET candidate == [inv.cp EXCEPT !.observing = FALSE]
           begins == IF candidate.stage = "expired"
                     THEN [candidate EXCEPT !.sid = None, !.stage = "create", !.at = inv.target]
                     ELSE candidate
       IN \/ /\ row.admitted < row.retry + 1
             /\ row' = [row EXCEPT !.admitted = row.retry + 1, !.mode = "recover", !.cp = candidate]
             /\ Goes(IF begins.sid = None THEN "create" ELSE "finish", begins)
             /\ UNCHANGED left
          \/ /\ row.admitted = row.retry + 1
             /\ Retries(row.cp) /\ UNCHANGED left
          \/ /\ Spend("faults") /\ row.cp = None /\ copy.attempt > 0
             /\ Fails(None)
          \/ /\ Spend("faults") /\ (row.cp # None \/ copy.attempt = 0)
             /\ Retries(row.cp)
    /\ UNCHANGED <<past, copy, body, sessions, piece, url, wasReady>>

\* CreateStoreSession.  An answer that is lost leaves a session nobody knows.
Create ==
    /\ inv.pc = "create"
    /\ \/ /\ Writes(inv.cp) /\ UNCHANGED left
          /\ \E s \in Sids :
               /\ sessions[s].st = "none"
               /\ sessions' = [sessions EXCEPT ![s] = [@ EXCEPT !.st = "open", !.at = inv.cp.at]]
               /\ Goes("created", [inv.cp EXCEPT !.sid = s, !.stage = "upload", !.incomplete = TRUE])
       \/ RequestFails(inv.cp)
       \/ /\ \A s \in Sids : sessions[s].st # "none"
          /\ Retries(inv.cp) /\ UNCHANGED <<sessions, left>>
       \/ /\ Spend("faults") /\ Retries(inv.cp)
          /\ \E s \in Sids :
               /\ sessions[s].st = "none"
               /\ sessions' = [sessions EXCEPT ![s] = [@ EXCEPT !.st = "open", !.at = inv.cp.at]]
    /\ UNCHANGED <<past, copy, body, piece, url, wasReady>>

\* The new session is recorded.  A write that fails settles with it all the same.
RecordSession ==
    /\ inv.pc = "created"
    /\ \/ Writes(inv.cp) /\ Goes("begin", inv.cp) /\ UNCHANGED <<left, sessions>>
       \/ RequestFails(inv.cp)
    /\ UNCHANGED <<past, copy, body, piece, url, wasReady>>

\* FinalizeStoreSession at the provider
Finalized(s) ==
    /\ sessions[s].st \in {"received", "published"}
    /\ sessions' = [sessions EXCEPT ![s].st = "published"]
    /\ piece' = [piece EXCEPT ![sessions[s].at] = IF @ = "missing" THEN "processing" ELSE @]

\* storePublished, then recoverStore
Published(s) == Finalized(s) /\ Goes("observe", [inv.cp EXCEPT !.stage = "observe"])

IsGone(s) == sessions[s].st \in {"none", "gone", "published"}

\* A known session is finalized before anything is sent to it.
FinalizeFirst ==
    /\ inv.pc = "finish"
    /\ LET cp == [inv.cp EXCEPT !.stage = "finalize"]
           s  == inv.cp.sid
       IN \/ /\ Published(s) /\ Writes(cp) /\ UNCHANGED left
          \/ /\ IsGone(s) /\ Writes(cp)
             /\ inv' = [inv EXCEPT !.pc = "missing", !.cp = cp]
             /\ UNCHANGED <<sessions, piece, left>>
          \/ /\ sessions[s].st \in {"open", "claimed"} /\ Writes(cp) /\ Goes("begin", cp)
             /\ UNCHANGED <<sessions, piece, left>>
          \/ /\ RequestFails(cp) /\ UNCHANGED piece
          \/ Spend("faults") /\ Finalized(s) /\ Retries(cp)
    /\ UNCHANGED <<past, copy, body, url, wasReady>>

\* The body is opened and verified, and the upload is recorded in one
\* transaction with the copy's attempt number, before the PUT.
BeginUpload ==
    /\ inv.pc = "begin"
    /\ \/ /\ body = "ok" /\ UNCHANGED left
          /\ LET cp == [inv.cp EXCEPT !.stage = "upload", !.incomplete = FALSE,
                                      !.attempt = copy.attempt + 1]
             IN /\ Writes(cp) /\ copy' = [copy EXCEPT !.attempt = @ + 1]
                /\ inv' = [inv EXCEPT !.pc = "put", !.cp = cp, !.claimable = inv.cp.incomplete]
       \/ body # "ok" /\ Fails(inv.cp) /\ UNCHANGED <<copy, left>>
       \/ Spend("faults") /\ Retries(inv.cp) /\ UNCHANGED copy
    /\ UNCHANGED <<past, body, sessions, piece, url, wasReady>>

\* Mutant: a session another PUT has claimed is given up whatever that PUT sent.
GivesUpClaimed(s) == sessions[s].st \in {"claimed", "received"}

\* A claimed session is given up if every PUT that may hold its claim ended
\* before it had read the whole body.
GivesUp(s) == sessions[s].st \in {"claimed", "received"} /\ inv.claimable

\* UploadStoreSession.  The PUT is refused, takes the claim and delivers the
\* body, or ends in an error that says whether the whole body was read.
Upload ==
    /\ inv.pc = "put"
    /\ LET s == inv.cp.sid
           cp == inv.cp
           restored == [cp EXCEPT !.incomplete = inv.claimable]
       IN \/ /\ IsGone(s)
             /\ inv' = [inv EXCEPT !.pc = "missing"]
             /\ UNCHANGED <<row, sessions, left>>
          \/ /\ GivesUp(s)
             /\ inv' = [inv EXCEPT !.pc = "missing", !.cp = restored]
             /\ UNCHANGED <<row, sessions, left>>
          \/ /\ sessions[s].st \in {"claimed", "received"} /\ ~GivesUp(s)
             /\ Retries(cp) /\ UNCHANGED <<sessions, left>>
          \/ /\ sessions[s].st = "open"
             /\ sessions' = [sessions EXCEPT ![s] = [@ EXCEPT !.st = "received", !.whole = TRUE]]
             /\ Goes("finalize", [cp EXCEPT !.stage = "finalize"]) /\ UNCHANGED <<row, left>>
          \/ /\ Spend("faults") /\ sessions[s].st = "open"       \* the body was read
             /\ \E st \in {"open", "claimed", "received"} :
                  sessions' = [sessions EXCEPT ![s] = [@ EXCEPT !.st = st, !.whole = TRUE]]
             /\ Errs(cp)
          \/ /\ Spend("faults") /\ sessions[s].st = "open"       \* ErrStoreUploadTruncated
             /\ \E st \in {"open", "claimed"} : sessions' = [sessions EXCEPT ![s].st = st]
             /\ Errs(restored)
    /\ UNCHANGED <<past, copy, body, piece, url, wasReady>>

\* The finalize after the upload; the session still says it is incomplete when
\* the provider has not caught up with the body it acknowledged.
Finalize ==
    /\ inv.pc = "finalize"
    /\ LET s == inv.cp.sid
       IN \/ Published(s) /\ Writes(inv.cp) /\ UNCHANGED <<copy, left>>
          \/ /\ IsGone(s) /\ Writes(inv.cp)
             /\ inv' = [inv EXCEPT !.pc = "missing"]
             /\ UNCHANGED <<copy, sessions, piece, left>>
          \/ /\ sessions[s].st = "received"
             /\ WaitsForStatus(inv.cp) /\ UNCHANGED <<copy, sessions, piece, left>>
          \/ /\ RequestFails(inv.cp) /\ UNCHANGED <<copy, piece>>
          \/ Spend("faults") /\ Finalized(s) /\ Retries(inv.cp) /\ UNCHANGED copy
    /\ UNCHANGED <<past, body, url, wasReady>>

\* storeSessionMissing: a session that is gone, or that only a PUT without a
\* complete body can hold, is given up when the piece is missing too.
SessionMissing ==
    /\ inv.pc = "missing"
    /\ LET state == StoreState(inv.cp.at, inv.target)
           expired == [inv.cp EXCEPT !.stage = "expired"]
       IN \/ state = "ready" /\ Finishes(row.cp) /\ UNCHANGED left
          \/ state = "processing" /\ WaitsForStatus(inv.cp) /\ UNCHANGED <<copy, left>>
          \/ state = "missing" /\ Retries(expired) /\ UNCHANGED <<copy, left>>
          \/ Spend("faults") /\ Retries(inv.cp) /\ UNCHANGED copy
    /\ UNCHANGED <<past, body, sessions, piece, url, wasReady>>

\* recoverStore at the end of the effect
Observe ==
    /\ inv.pc = "observe"
    /\ \/ Recovers(inv.cp, StoreState(inv.cp.at, inv.target)) /\ UNCHANGED left
       \/ Spend("faults") /\ Retries(inv.cp) /\ UNCHANGED copy
    /\ UNCHANGED <<past, body, sessions, piece, url, wasReady>>

-----------------------------------------------------------------------------
(* Retries and later transfers *)

\* prepareCopyRetry of a failed task that still owns its copy: the next round
\* recovers from the same checkpoint, without its observation.
RetryRound ==
    /\ row.status = "failed" /\ Spend("rounds")
    /\ row.cp # None => row.cp.attempt \in {0, copy.attempt}
    /\ past' = past \union ({row.cp} \ {None})
    /\ row' = [FreshRow EXCEPT !.mode = "recover",
                 !.cp = IF row.cp = None THEN None ELSE [row.cp EXCEPT !.observing = FALSE]]
    /\ UNCHANGED <<inv, copy, body, sessions, piece, url, wasReady>>

\* The provider has lost the piece of a copy whose commit request is signed:
\* the copy is transferred again by a new store task.
TransferAgain ==
    /\ row.status = "done" /\ copy.status = "ready" /\ inv.pc = "idle"
    /\ piece[copy.at] = "missing" /\ Spend("transfers")
    /\ row' = FreshRow /\ copy' = [copy EXCEPT !.status = "pending"]
    /\ UNCHANGED <<past, inv, body, sessions, piece, url, wasReady>>

\* An earlier send of the signed request lands while the copy is transferred again.
Committed ==
    /\ left.transfers < MaxTransfers - 1 /\ copy.status = "pending"
    /\ copy' = [copy EXCEPT !.status = "ready"]
    /\ UNCHANGED <<row, past, inv, body, sessions, piece, url, wasReady, left>>

-----------------------------------------------------------------------------
(* The environment *)

\* The cached file is kept while an invocation reads it (the cache gate).
CacheChanges ==
    /\ body = "ok" /\ inv.pc = "idle" /\ Spend("drops")
    /\ body' \in {"missing", "damaged"}
    /\ UNCHANGED <<row, past, inv, copy, sessions, piece, url, wasReady>>

\* A claim ends: with the body it has received, or without one.
ClaimEnds(s) ==
    /\ sessions[s].st = "claimed"
    /\ sessions' = [sessions EXCEPT ![s].st = IF sessions[s].whole THEN "received" ELSE "open"]
    /\ UNCHANGED <<row, past, inv, copy, body, piece, url, wasReady, left>>

SessionExpires(s) ==
    /\ sessions[s].st \in {"open", "claimed", "received", "published"} /\ Spend("drops")
    /\ sessions' = [sessions EXCEPT ![s].st = "gone"]
    /\ UNCHANGED <<row, past, inv, copy, body, piece, url, wasReady>>

PieceReady(u) ==
    /\ piece[u] = "processing"
    /\ piece' = [piece EXCEPT ![u] = "ready"] /\ wasReady' = wasReady \union {u}
    /\ UNCHANGED <<row, past, inv, copy, body, sessions, url, left>>

PieceLost(u) ==
    /\ piece[u] # "missing" /\ Spend("drops")
    /\ piece' = [piece EXCEPT ![u] = "missing"]
    /\ UNCHANGED <<row, past, inv, copy, body, sessions, url, wasReady>>

\* Another content with the same bytes is stored at the same provider.
PieceArrives(u) ==
    /\ piece[u] = "missing" /\ Spend("drops")
    /\ piece' = [piece EXCEPT ![u] = "processing"]
    /\ UNCHANGED <<row, past, inv, copy, body, sessions, url, wasReady>>

ServiceMoves(u) ==
    /\ u # url /\ Spend("moves") /\ url' = u
    /\ UNCHANGED <<row, past, inv, copy, body, sessions, piece, wasReady>>

-----------------------------------------------------------------------------

Steps ==
    Claim \/ RunStore \/ OpenBody \/ Admit \/ Create \/ RecordSession \/ FinalizeFirst
    \/ BeginUpload \/ Upload \/ Finalize \/ SessionMissing \/ Observe

Environment ==
    \/ Crash \/ CacheChanges \/ Committed
    \/ \E s \in Sids : ClaimEnds(s) \/ SessionExpires(s)
    \/ \E u \in Urls : PieceReady(u) \/ PieceLost(u) \/ PieceArrives(u) \/ ServiceMoves(u)

Next == Steps \/ RetryRound \/ TransferAgain \/ Environment

Spec == Init /\ [][Next]_vars

\* The engine claims and runs a task that is due, and the provider settles what
\* it holds; nothing promises that an operator retries or that a crash ends.
Fairness ==
    /\ WF_vars(Steps)
    /\ \A s \in Sids : WF_vars(ClaimEnds(s))
    /\ \A u \in Urls : WF_vars(PieceReady(u))

FairSpec == Spec /\ Fairness

-----------------------------------------------------------------------------
(* Properties *)

Live(s) == sessions[s].st \in {"claimed", "received"}

\* The checkpoint the task continues from: its own, or the ones it would adopt.
Current == IF row.cp # None THEN {row.cp} ELSE IF copy.attempt > 0 THEN Adoptable ELSE {}

\* The checkpoint's UploadsIncomplete "proves every PUT that may hold this
\* session's claim ended before reading the complete body" (handlers.go): no
\* checkpoint the task continues from, its own or an earlier task's that still
\* matches the copy's attempt, claims it of a session that has a whole body.
IncompleteProof ==
    \A cp \in Current : (cp.incomplete /\ cp.sid # None) => ~sessions[cp.sid].whole

\* Until the copy is piece-ready, a session that holds the body is not
\* forgotten: the checkpoint of the task that must finish the copy names it,
\* through crashes, failures and rounds, so the bytes can be published and are
\* never sent through a second session while the first may still deliver them.
BodyNotForgotten ==
    \A s \in Sids :
      (Live(s) /\ sessions[s].whole /\ copy.at = None)
         => \E cp \in Current : cp.sid = s

\* Every checkpoint on the task passes validateStoreCheckpoint and the attempt
\* check of copyRetryCheckpoint, so a failed task can always be resumed: only a
\* session that was never created has no identity, and a checkpoint that counts
\* an upload counts the copy's last one, for both are written in one transaction.
Resumable ==
    row.cp # None => /\ row.cp.stage = "create" <=> row.cp.sid = None
                     /\ row.cp.attempt \in {0, copy.attempt}

\* A copy becomes piece-ready only at a service URL where the provider has
\* really had the piece, also when the service has moved since the upload.
RecordedWhereReady ==
    copy.at # None => copy.at \in wasReady

\* The task's checkpoint, the copy and the provider's sessions agree.
StoreInv == TypeOK /\ IncompleteProof /\ Resumable /\ RecordedWhereReady

\* A task that is due ends: the piece is stored or the task fails for an
\* operator to see.  It does not alternate for ever between waiting to observe
\* and waiting to execute; only a first upload whose cached file is gone waits.
Ended == row.status \in {"done", "failed"} \/ body = "missing"
StoreEnds == []<>Ended
=============================================================================
