---------------------------- MODULE CopyTransfer ----------------------------
(***************************************************************************)
(* The copies of one stored content and the tasks that transfer them:      *)
(* internal/task/transfer (plan.go, pull.go, store.go, coordinator.go,     *)
(* retry.go) over the rows of storage_copies and storage_pull_attempts.    *)
(*                                                                         *)
(* One copy, the ingress, is stored from the local cache; the others are   *)
(* pulled by their providers from a copy that is committed.  An ingress    *)
(* that fails hands its role to a copy that has not pulled yet, and a copy *)
(* whose pull fails may be stored from the cache after all.                *)
(*                                                                         *)
(* A store is abstracted to what StoreSession shows of it, registration    *)
(* on chain to what CommitBatch shows.  Migrations between providers and   *)
(* members that a sealed commit request sends back are left out, and with  *)
(* them the only ways in which a readable copy is lost.                    *)
(***************************************************************************)
EXTENDS Naturals, Sequences, FiniteSets

CONSTANTS
    Copies,       \* the copy slots of the content
    Ingress,      \* the slot the upload plan ranked first
    MaxAttempts,  \* ExecutionPolicy.MaxAttempts of the copy tasks
    MaxPulls,     \* bound: pull attempts of a copy
    MaxFaults,    \* bound: failing calls, lost answers and lost pieces
    MaxCrashes,   \* bound: crashes of the process
    MaxRetries    \* bound: operator retries

ASSUME CopyAssumption ==
    /\ Copies \subseteq Nat \ {0} /\ Ingress \in Copies
    /\ {MaxAttempts, MaxPulls} \subseteq Nat \ {0}
    /\ {MaxFaults, MaxCrashes, MaxRetries} \subseteq Nat

VARIABLES
    copy,     \* the storage_copies rows
    task,     \* the latest task of each copy
    inv,      \* the invocation of that task
    pulls,    \* the storage_pull_attempts of each copy, in order
    prov,     \* what each copy's provider holds and does
    service,  \* the data set of each copy
    cached,   \* the content is in the local cache
    live,     \* some object version names the content
    left      \* what remains of the bounds

vars == <<copy, task, inv, pulls, prov, service, cached, live, left>>

Methods == {"ingress", "peer_pull", "cache_restore"}

\* owned is active_task_id; ready is piece_ready, signed a position in a request.
Copy ==
    [status : {"pending", "ready", "signed", "committed", "failed"},
     method : Methods, owned : BOOLEAN]

\* cp is the pull attempt of the checkpoint, or 1 for a store that has begun;
\* recovery is retry_of_task_id.
Task ==
    [type : {"none", "plan", "store", "pull"}, status : {"none", "pending", "running", "failed", "done"},
     mode : {"execute", "recover"}, retry : 0..(MaxAttempts - 1), admitted : 0..MaxAttempts,
     cp : 0..MaxPulls, accepted : BOOLEAN, recovery : BOOLEAN]

\* method is the copy as the claim read it, src the chosen source, answer the
\* status the provider answered with.
Invocation ==
    [pc : {"idle", "plan", "restore", "giveup", "store", "storing",
           "pull", "admit", "submit", "answered", "observe", "failed"},
     mode : {"execute", "recover"}, method : Methods, src : Copies \union {0},
     answer : {"none", "pulling", "failed", "complete"}]

Attempt == [src : Copies, st : {"open", "done", "abandoned"}]

TypeOK ==
    /\ copy \in [Copies -> Copy]
    /\ task \in [Copies -> Task]
    /\ inv \in [Copies -> Invocation]
    /\ \A c \in Copies : pulls[c] \in Seq(Attempt) /\ Len(pulls[c]) <= MaxPulls
    /\ prov \in [Copies -> [piece : {"missing", "processing", "ready"},
                            job : {"none", "pulling", "failed", "complete"}]]
    /\ service \in [Copies -> {"new", "up", "ended"}]
    /\ {cached, live} \subseteq BOOLEAN
    /\ left \in [faults : 0..MaxFaults, crashes : 0..MaxCrashes, retries : 0..MaxRetries]

Idle == [pc |-> "idle", mode |-> "execute", method |-> "peer_pull", src |-> 0, answer |-> "none"]

NoTask ==
    [type |-> "none", status |-> "none", mode |-> "execute", retry |-> 0, admitted |-> 0,
     cp |-> 0, accepted |-> FALSE, recovery |-> FALSE]

Fresh(type) == [NoTask EXCEPT !.type = type, !.status = "pending"]

\* The settlement of the upload plan: all copies at once, one of them the
\* ingress; where the data set is ready the transfer is started.
Init ==
    /\ service \in [Copies -> {"new", "up"}]
    /\ copy = [c \in Copies |-> [status |-> "pending", owned |-> service[c] = "up",
                                 method |-> IF c = Ingress THEN "ingress" ELSE "peer_pull"]]
    /\ task = [c \in Copies |-> IF service[c] = "up" THEN Fresh("plan") ELSE NoTask]
    /\ inv = [c \in Copies |-> Idle]
    /\ pulls = [c \in Copies |-> <<>>]
    /\ prov = [c \in Copies |-> [piece |-> "missing", job |-> "none"]]
    /\ cached = TRUE /\ live = TRUE
    /\ left = [faults |-> MaxFaults, crashes |-> MaxCrashes, retries |-> MaxRetries]

\* ListReadableCommittedCopies
Sources == {c \in Copies : copy[c].status = "committed"}

-----------------------------------------------------------------------------
(* The engine's part.                                                      *)

Spend(b) == left[b] > 0 /\ left' = [left EXCEPT ![b] = @ - 1]

world == <<prov, service, cached, live>>

At(c, pc) == task[c].status = "running" /\ inv[c].pc = pc

Goes(c, pc) == inv' = [inv EXCEPT ![c].pc = pc]

\* AuthorizeCopyTask reads the copy as soon as the task is claimed.
Claim(c) ==
    /\ task[c].status = "pending"
    /\ task' = [task EXCEPT ![c].status = "running"]
    /\ inv' = [inv EXCEPT ![c] = [Idle EXCEPT !.pc = task[c].type, !.mode = task[c].mode,
                                              !.method = copy[c].method]]
    /\ UNCHANGED <<copy, pulls, world, left>>

\* A result is settled: the invocation ends with the row it leaves.
End(c, t) == task' = [task EXCEPT ![c] = t] /\ inv' = [inv EXCEPT ![c] = Idle]

Waits(c, m) == [task[c] EXCEPT !.status = "pending", !.mode = m]

\* transitionFor: another attempt in recover mode, or attempts_exhausted.
Retries(c) ==
    IF task[c].retry + 1 < MaxAttempts
    THEN [task[c] EXCEPT !.status = "pending", !.mode = "recover", !.retry = @ + 1]
    ELSE [task[c] EXCEPT !.status = "failed"]

\* taskengine.Fail without a settlement: the copy stays with its task.
Fails(c) == [task[c] EXCEPT !.status = "failed"]

FaultRetries(c) == Spend("faults") /\ End(c, Retries(c)) /\ UNCHANGED <<copy, pulls, world>>

\* A settlement that finds a conflict leaves the claim to expire; so does a
\* crash, of which every invocation is a victim.
Abandoned(c) == Waits(c, "recover")

Crash ==
    /\ Spend("crashes")
    /\ \E c \in Copies : task[c].status = "running"
    /\ task' = [c \in Copies |-> IF task[c].status = "running" THEN Abandoned(c) ELSE task[c]]
    /\ inv' = [c \in Copies |-> Idle]
    /\ UNCHANGED <<copy, pulls, world>>

\* Any load of rows, identity or provider context fails.
LoadFails(c) == task[c].status = "running" /\ inv[c].pc \in {"plan", "store", "pull"} /\ FaultRetries(c)

-----------------------------------------------------------------------------
(* The coordinator's settlements.                                          *)

\* enqueueSuccessorCopyTask with ReplaceCopyTask
Advance(c, type) == End(c, Fresh(type)) /\ UNCHANGED <<copy, pulls>>

Resolve(ps, st) == [i \in DOMAIN ps |-> IF ps[i].st = "open" THEN [ps[i] EXCEPT !.st = st] ELSE ps[i]]

\* finishPieceTransfer: MarkUploadCopyPieceReady, CompleteCopyTask, JoinCommit.
Finish(c) ==
    /\ copy' = [copy EXCEPT ![c].status = "ready", ![c].owned = FALSE]
    /\ End(c, [task[c] EXCEPT !.status = "done"])
    /\ pulls' = [pulls EXCEPT ![c] = Resolve(@, "done")]

\* ReopenFailedIngressForPull with a new plan for every copy it reopens.
FailedIngress(cs) == {d \in Copies : cs[d].status = "failed" /\ cs[d].method = "ingress" /\ ~cs[d].owned}

ReopenForPull(cs, ts) ==
    LET ds == FailedIngress(cs)
    IN  /\ copy' = [d \in Copies |-> IF d \in ds
                                     THEN [status |-> "pending", method |-> "peer_pull", owned |-> TRUE]
                                     ELSE cs[d]]
        /\ task' = [d \in Copies |-> IF d \in ds THEN Fresh("plan") ELSE ts[d]]

\* Mutant: only a copy that has a task is promoted.
PromotableOwned(cs) ==
    {d \in Copies : cs[d].status = "pending" /\ cs[d].method = "peer_pull" /\ pulls[d] = <<>> /\ cs[d].owned}

\* The candidates of PromotePendingIngress: pending, and never asked to pull.
Promotable(cs) ==
    {d \in Copies : cs[d].status = "pending" /\ cs[d].method = "peer_pull" /\ pulls[d] = <<>>}

\* The best ranked candidate becomes the ingress; its plan is woken or started.
PromotePendingIngress(cs, ts) ==
    \/ /\ Promotable(cs) = {}
       /\ copy' = cs /\ task' = ts
    \/ \E d \in Promotable(cs) :
          /\ copy' = [cs EXCEPT ![d].method = "ingress", ![d].owned = TRUE]
          /\ task' = IF cs[d].owned THEN ts ELSE [ts EXCEPT ![d] = Fresh("plan")]

\* recoverIngressAfterFailure, of a copy whose row had method m when it was read.
RecoverIngress(m, cs, ts) ==
    \/ m # "ingress" /\ copy' = cs /\ task' = ts
    \/ m = "ingress" /\ Sources # {} /\ ReopenForPull(cs, ts)
    \/ m = "ingress" /\ Sources = {} /\ PromotePendingIngress(cs, ts)

\* settleCopyFailure: MarkUploadCopyFailed, CompleteCopyTask, the ingress role.
FailsCopy(c) ==
    /\ RecoverIngress(inv[c].method, [copy EXCEPT ![c].status = "failed", ![c].owned = FALSE],
                      [task EXCEPT ![c] = Fails(c)])
    /\ inv' = [inv EXCEPT ![c] = Idle]
    /\ UNCHANGED pulls

\* The same of a copy that is not the ingress: the role stays, and the pull the
\* settlement was told of is abandoned.
FailsReplica(c, ps) ==
    /\ copy' = [copy EXCEPT ![c].status = "failed", ![c].owned = FALSE]
    /\ End(c, Fails(c))
    /\ pulls' = [pulls EXCEPT ![c] = ps]

-----------------------------------------------------------------------------
(* The plan task (transferPlanHandler).                                    *)

PlanWaits(c) == End(c, Waits(c, "execute")) /\ UNCHANGED <<copy, pulls>>

\* copyRetryAllowsCache: only a retry may store a copy that should be pulled.
MayRestore(c) == task[c].recovery /\ cached

PlanPull(c) ==
    \/ Sources # {} /\ Advance(c, "pull")
    \/ Sources = {} /\ ~MayRestore(c) /\ PlanWaits(c)
    \/ Sources = {} /\ MayRestore(c) /\ Goes(c, "restore") /\ UNCHANGED <<copy, task, pulls>>

PlanStore(c) ==
    \/ cached /\ Advance(c, "store")
    \/ ~cached /\ inv[c].method = "ingress" /\ PlanWaits(c)
    \/ ~cached /\ inv[c].method = "cache_restore" /\ Goes(c, "giveup") /\ UNCHANGED <<copy, task, pulls>>

Plan(c) ==
    /\ At(c, "plan")
    /\ \/ service[c] = "new" /\ PlanWaits(c)
       \/ service[c] # "new" /\ inv[c].method = "peer_pull" /\ PlanPull(c)
       \/ service[c] # "new" /\ inv[c].method # "peer_pull" /\ PlanStore(c)
    /\ UNCHANGED <<world, left>>

\* failCopyTask of a restore that finds no cache.
PlanGivesUp(c) == At(c, "giveup") /\ FailsReplica(c, pulls[c]) /\ UNCHANGED <<world, left>>

\* advanceToCacheRestore: SetCopyCacheRestore checks cache and method again, and
\* abandons the pull it is told of.
Restore(c) ==
    /\ At(c, "restore")
    /\ \/ /\ cached /\ copy[c].method = "peer_pull"
          /\ copy' = [copy EXCEPT ![c].method = "cache_restore"]
          /\ pulls' = [pulls EXCEPT ![c] = Resolve(@, "abandoned")]
          /\ End(c, Fresh("store"))
       \/ /\ ~cached \/ copy[c].method # "peer_pull"
          /\ End(c, Abandoned(c))
          /\ UNCHANGED <<copy, pulls>>
    /\ UNCHANGED <<world, left>>

-----------------------------------------------------------------------------
(* The store task (runStore), without the steps inside a session.          *)

CanAdmit(c) == task[c].admitted <= task[c].retry

\* WithCheckpointedEffect: one admission per attempt, then recover mode.
Admitted(c, cp) ==
    [task EXCEPT ![c].admitted = task[c].retry + 1, ![c].mode = "recover", ![c].cp = cp]

\* Nothing has been sent yet: storeMissingCache, and the provider's context.
StoreFresh(c) ==
    \/ inv[c].mode = "recover" /\ End(c, Waits(c, "execute")) /\ UNCHANGED <<copy, pulls>>
    \/ /\ inv[c].mode = "execute" /\ ~cached /\ inv[c].method = "cache_restore"
       /\ FailsReplica(c, pulls[c])
    \/ /\ inv[c].mode = "execute" /\ ~cached /\ inv[c].method = "ingress"
       /\ End(c, Waits(c, "execute")) /\ UNCHANGED <<copy, pulls>>
    \/ /\ inv[c].mode = "execute" /\ cached /\ service[c] = "ended"
       /\ End(c, Waits(c, "recover")) /\ UNCHANGED <<copy, pulls>>
    \/ /\ inv[c].mode = "execute" /\ cached /\ service[c] = "up" /\ CanAdmit(c)
       /\ task' = Admitted(c, 1) /\ Goes(c, "storing") /\ UNCHANGED <<copy, pulls>>

\* A store that has begun: the provider is asked first, and recover mode
\* hands over to execute mode before the body is sent again.
StoreAgain(c) ==
    \/ prov[c].piece = "ready" /\ Finish(c)
    \/ /\ prov[c].piece # "ready" /\ inv[c].mode = "recover"
       /\ End(c, Waits(c, "execute")) /\ UNCHANGED <<copy, pulls>>
    \/ /\ prov[c].piece # "ready" /\ inv[c].mode = "execute"
       /\ \/ ~cached /\ End(c, Fails(c))
          \/ cached /\ ~CanAdmit(c) /\ End(c, Retries(c))
          \/ cached /\ CanAdmit(c) /\ task' = Admitted(c, 1) /\ Goes(c, "storing")
       /\ UNCHANGED <<copy, pulls>>

Store(c) ==
    /\ At(c, "store")
    /\ \/ task[c].cp = 0 /\ StoreFresh(c)
       \/ task[c].cp # 0 /\ service[c] = "ended" /\ End(c, Waits(c, "recover")) /\ UNCHANGED <<copy, pulls>>
       \/ task[c].cp # 0 /\ service[c] = "up" /\ StoreAgain(c)
    /\ UNCHANGED <<world, left>>

\* storeBodyFailure: the cached bytes are not the content's.
StoreBadBody(c) ==
    /\ At(c, "store") /\ task[c].cp = 0 /\ inv[c].mode = "execute" /\ cached
    /\ Spend("faults")
    /\ FailsCopy(c)
    /\ UNCHANGED world

\* commitBacklogFull: too many earlier transfers to the data set wait to be
\* registered for a store or a pull to begin.
Backlogged(c) ==
    /\ \/ At(c, "store")
       \/ At(c, "pull") /\ inv[c].method = "peer_pull" /\ service[c] = "up"
    /\ task[c].cp = 0 /\ inv[c].mode = "execute"
    /\ Spend("faults")
    /\ End(c, Waits(c, "execute"))
    /\ UNCHANGED <<copy, pulls, world>>

\* The body is at the provider; the next claim finds the piece there.
Stored(c) ==
    /\ At(c, "storing")
    /\ prov' = [prov EXCEPT ![c].piece = "ready"]
    /\ End(c, Waits(c, "recover"))
    /\ UNCHANGED <<copy, pulls, service, cached, live, left>>

\* Or not: another attempt, or a failure that leaves the session for an operator.
StoreFails(c) ==
    /\ At(c, "storing")
    /\ Spend("faults")
    /\ \/ End(c, Retries(c))
       \/ End(c, Fails(c))
    /\ UNCHANGED <<copy, pulls, world>>

-----------------------------------------------------------------------------
(* The pull task (runPull).                                                *)

Last(ps) == ps[Len(ps)]

\* choosePullSource: not the source of the last abandoned pull, if there is another.
PullSources(c) ==
    LET failed == IF pulls[c] = <<>> THEN {} ELSE {Last(pulls[c]).src}
    IN  IF Sources \ failed = {} THEN Sources ELSE Sources \ failed

\* The copy became the ingress while its plan decided to pull.
BecameIngress(c) == inv[c].method = "ingress"

\* No attempt is known yet.
PullFresh(c) ==
    \/ /\ BecameIngress(c)
       /\ End(c, Fresh("store"))
    \/ /\ ~BecameIngress(c) /\ inv[c].mode = "recover"
       /\ End(c, Waits(c, "execute"))
    \/ /\ ~BecameIngress(c) /\ inv[c].mode = "execute" /\ service[c] = "ended"
       /\ End(c, Waits(c, "recover"))
    \/ /\ ~BecameIngress(c) /\ inv[c].mode = "execute" /\ service[c] = "up" /\ Len(pulls[c]) < MaxPulls
       /\ \E s \in PullSources(c) : inv' = [inv EXCEPT ![c].pc = "admit", ![c].src = s]
       /\ UNCHANGED task

\* An attempt is out, or may be: recover mode only observes, unless the provider
\* accepted it, in which case asking again is how its status is read.
PullKnown(c) ==
    \/ service[c] = "ended" /\ End(c, Retries(c))
    \/ /\ service[c] = "up"
       /\ Goes(c, IF task[c].accepted THEN "submit"
                  ELSE IF inv[c].mode = "recover" THEN "observe" ELSE "admit")
       /\ UNCHANGED task

Pull(c) ==
    /\ At(c, "pull")
    /\ \/ task[c].cp = 0 /\ PullFresh(c)
       \/ task[c].cp # 0 /\ PullKnown(c)
    /\ UNCHANGED <<copy, pulls, world, left>>

\* ReservePullRequest, in the transaction of the admission.
Reserved(c) ==
    IF task[c].cp = 0 THEN Append(pulls[c], [src |-> inv[c].src, st |-> "open"]) ELSE pulls[c]

\* A new attempt is a new job at the provider.
NewJob(c) == IF task[c].cp = 0 THEN [prov EXCEPT ![c].job = "none"] ELSE prov

PullAdmits(c) ==
    /\ At(c, "admit") /\ CanAdmit(c)
    /\ pulls' = [pulls EXCEPT ![c] = Reserved(c)]
    /\ task' = Admitted(c, Len(Reserved(c)))
    /\ prov' = NewJob(c)
    /\ Goes(c, "submit")
    /\ UNCHANGED <<copy, service, cached, live, left>>

\* This attempt was admitted before a crash: retryUnsubmittedPull.
PullRefused(c) ==
    /\ At(c, "admit") /\ ~CanAdmit(c)
    /\ End(c, Retries(c))
    /\ UNCHANGED <<copy, pulls, world, left>>

\* The admission fails, or commits and its answer is lost.
PullAdmitFails(c) ==
    /\ At(c, "admit") /\ CanAdmit(c)
    /\ Spend("faults")
    /\ \/ End(c, Retries(c)) /\ UNCHANGED <<pulls, prov>>
       \/ /\ pulls' = [pulls EXCEPT ![c] = Reserved(c)]
          /\ End(c, [Retries(c) EXCEPT !.admitted = task[c].retry + 1, !.cp = Len(Reserved(c))])
          /\ prov' = NewJob(c)
    /\ UNCHANGED <<copy, service, cached, live>>

\* SubmitPull: the provider starts the job, or tells how it stands.
Started(p) == IF p.job = "none" THEN [p EXCEPT !.job = "pulling"] ELSE p

Submit(c) ==
    /\ At(c, "submit")
    /\ prov' = [prov EXCEPT ![c] = Started(@)]
    /\ inv' = [inv EXCEPT ![c].pc = "answered", ![c].answer = Started(prov[c]).job]
    /\ UNCHANGED <<copy, task, pulls, service, cached, live, left>>

\* The request or its answer is lost.
SubmitFails(c) ==
    /\ At(c, "submit")
    /\ Spend("faults")
    /\ End(c, Retries(c))
    /\ \E p \in {prov[c], Started(prov[c])} : prov' = [prov EXCEPT ![c] = p]
    /\ UNCHANGED <<copy, pulls, service, cached, live>>

\* ErrPullQueueFull rolls the request back; ResolveOperation frees the admission.
QueueFull(c) ==
    /\ At(c, "submit") /\ prov[c].job = "none"
    /\ Spend("faults")
    /\ End(c, [Waits(c, "recover") EXCEPT !.admitted = 0])
    /\ UNCHANGED <<copy, pulls, world>>

\* PullErrorTerminal: failPullOutcome leaves attempt and copy to an operator.
SubmitRejected(c) ==
    /\ At(c, "submit") /\ prov[c].job = "none"
    /\ Spend("faults")
    /\ End(c, Fails(c))
    /\ UNCHANGED <<copy, pulls, world>>

\* The acceptance is recorded before the answer is acted upon.
Answered(c) ==
    /\ At(c, "answered")
    /\ LET t == [task EXCEPT ![c].accepted = TRUE]
       IN  \/ /\ inv[c].answer = "pulling"
              /\ End(c, [Waits(c, "recover") EXCEPT !.accepted = TRUE])
           \/ /\ inv[c].answer = "failed"
              /\ task' = t /\ Goes(c, "failed")
           \/ /\ inv[c].answer = "complete"
              /\ task' = t /\ Goes(c, "observe")
    /\ UNCHANGED <<copy, pulls, world, left>>

AnsweredFails(c) == At(c, "answered") /\ ~task[c].accepted /\ FaultRetries(c)

\* Mutant: a piece that is missing is looked for again, in the same mode.
LooksAgain == "recover"

\* A missing piece may have to be asked for again.
AsksAgain == "execute"

\* observePullPiece
Observe(c) ==
    /\ At(c, "observe")
    /\ LET piece == prov[c].piece
           reported == inv[c].answer = "complete"
       IN  \/ piece = "ready" /\ Finish(c)
           \/ piece = "processing" /\ End(c, Waits(c, "recover")) /\ UNCHANGED <<copy, pulls>>
           \/ piece = "missing" /\ reported /\ Goes(c, "failed") /\ UNCHANGED <<copy, task, pulls>>
           \/ piece = "missing" /\ ~reported /\ End(c, Waits(c, AsksAgain)) /\ UNCHANGED <<copy, pulls>>
    /\ UNCHANGED <<world, left>>

ObserveFails(c) == At(c, "observe") /\ FaultRetries(c)

\* failConfirmedPull: from the cache if it is there, else the copy fails.
PullFailed(c) ==
    /\ At(c, "failed")
    /\ \/ cached /\ Goes(c, "restore") /\ UNCHANGED <<copy, task, pulls>>
       \/ ~cached /\ FailsReplica(c, Resolve(pulls[c], "abandoned"))
    /\ UNCHANGED <<world, left>>

Handler(c) ==
    \/ LoadFails(c) \/ Plan(c) \/ PlanGivesUp(c) \/ Restore(c)
    \/ Store(c) \/ Backlogged(c) \/ StoreBadBody(c) \/ Stored(c) \/ StoreFails(c)
    \/ Pull(c) \/ PullAdmits(c) \/ PullRefused(c) \/ PullAdmitFails(c)
    \/ Submit(c) \/ SubmitFails(c) \/ QueueFull(c) \/ SubmitRejected(c)
    \/ Answered(c) \/ AnsweredFails(c) \/ Observe(c) \/ ObserveFails(c) \/ PullFailed(c)

-----------------------------------------------------------------------------
(* Registration, the data sets, the providers and the cache.               *)

\* A ready copy is signed into a commit request.
Sign(c) ==
    /\ copy[c].status = "ready"
    /\ copy' = [copy EXCEPT ![c].status = "signed"]
    /\ UNCHANGED <<task, inv, pulls, world, left>>

\* finishCommittedContent: an ingress that is committed gives the failed ones
\* before it a source.
Commit(c) ==
    /\ copy[c].status = "signed" /\ service[c] = "up"
    /\ LET cs == [copy EXCEPT ![c].status = "committed"]
       IN  \/ copy[c].method = "ingress" /\ ReopenForPull(cs, task)
           \/ copy[c].method # "ingress" /\ copy' = cs /\ UNCHANGED task
    /\ UNCHANGED <<inv, pulls, world, left>>

\* The service of the data set ends on chain; its row stays ready.
ServiceEnds(c) ==
    /\ service[c] = "up"
    /\ Spend("faults")
    /\ service' = [service EXCEPT ![c] = "ended"]
    /\ UNCHANGED <<copy, task, inv, pulls, prov, cached, live>>

\* abandonCommitSettlement: the data set can never take the request; FailCopy
\* reads the copy afresh.
CommitAbandoned(c) ==
    /\ copy[c].status = "signed" /\ service[c] = "ended"
    /\ RecoverIngress(copy[c].method, [copy EXCEPT ![c].status = "failed"], task)
    /\ UNCHANGED <<inv, pulls, world, left>>

\* NewDataSetReadySubscriber starts the copies that waited without a task.
DataSetReady(c) ==
    /\ service[c] = "new"
    /\ service' = [service EXCEPT ![c] = "up"]
    /\ LET starts == copy[c].status = "pending" /\ ~copy[c].owned /\ live
       IN  /\ copy' = IF starts THEN [copy EXCEPT ![c].owned = TRUE] ELSE copy
           /\ task' = IF starts THEN [task EXCEPT ![c] = Fresh("plan")] ELSE task
    /\ UNCHANGED <<inv, pulls, prov, cached, live, left>>

\* The provider works on a pull, and ends it either way.
Pulling(c) ==
    /\ prov[c].job = "pulling"
    /\ \/ prov[c].piece = "missing" /\ prov' = [prov EXCEPT ![c].piece = "processing"]
       \/ prov[c].piece # "missing" /\ prov' = [prov EXCEPT ![c] = [piece |-> "ready", job |-> "complete"]]
       \/ prov[c].piece # "missing" /\ prov' = [prov EXCEPT ![c] = [piece |-> "missing", job |-> "failed"]]
    /\ UNCHANGED <<copy, task, inv, pulls, service, cached, live, left>>

\* A piece that joins no data set is dropped after a while.
PieceDropped(c) ==
    /\ prov[c].piece = "ready" /\ copy[c].status = "pending"
    /\ Spend("faults")
    /\ prov' = [prov EXCEPT ![c].piece = "missing"]
    /\ UNCHANGED <<copy, task, inv, pulls, service, cached, live>>

\* The cached file is lost; a client that writes or reads the bytes restores it.
CacheLost ==
    /\ cached /\ Spend("faults")
    /\ cached' = FALSE
    /\ UNCHANGED <<copy, task, inv, pulls, prov, service, live>>

CacheBack ==
    /\ ~cached /\ live
    /\ cached' = TRUE
    /\ UNCHANGED <<copy, task, inv, pulls, prov, service, live, left>>

-----------------------------------------------------------------------------
(* The operator's Retry and the permanent deletion of the last version.    *)

OpenPulls(c) == {i \in DOMAIN pulls[c] : pulls[c][i].st = "open"}

\* prepareCopyRetry of a task that still owns its copy: transferCopyOwner.
RetryOwned(c) ==
    /\ copy[c].owned
    /\ task' = [task EXCEPT ![c] = [task[c] EXCEPT !.status = "pending", !.mode = "recover", !.retry = 0,
                                                   !.admitted = 0, !.recovery = TRUE]]
    /\ UNCHANGED copy

OtherIngress(c) == \E d \in Copies \ {c} : copy[d].method = "ingress" /\ copy[d].status # "failed"

\* DecideCopyRetry
RetryMethod(c) ==
    IF Sources # {} \/ ~cached THEN "peer_pull"
    ELSE IF copy[c].method = "ingress" /\ ~OtherIngress(c) THEN "ingress" ELSE "cache_restore"

\* prepareCopyRecovery: RetryFailedCopy reopens the copy under a recovery plan.
RetryCopy(c) ==
    /\ ~copy[c].owned /\ copy[c].status = "failed"
    /\ live /\ OpenPulls(c) = {} /\ service[c] # "new"
    /\ copy' = [copy EXCEPT ![c] = [status |-> "pending", method |-> RetryMethod(c), owned |-> TRUE]]
    /\ task' = [task EXCEPT ![c] = [Fresh("plan") EXCEPT !.recovery = TRUE]]

Retry(c) ==
    /\ task[c].status = "failed"
    /\ Spend("retries")
    /\ RetryOwned(c) \/ RetryCopy(c)
    /\ UNCHANGED <<inv, pulls, world>>

\* Copies the deletion cancels; it is refused while work on them is under way.
Cancelled == {c \in Copies : copy[c].status \in {"pending", "ready"}}

DeleteLast ==
    /\ live
    /\ \A c \in Copies : OpenPulls(c) = {} /\ copy[c].status # "signed"
    /\ \A c \in Cancelled : copy[c].owned => task[c].status = "failed"
    /\ copy' = [c \in Copies |-> IF c \in Cancelled
                                 THEN [copy[c] EXCEPT !.status = "failed", !.owned = FALSE] ELSE copy[c]]
    /\ live' = FALSE
    /\ UNCHANGED <<task, inv, pulls, prov, service, cached, left>>

Next ==
    \/ \E c \in Copies :
          \/ Claim(c) \/ Handler(c) \/ Sign(c) \/ Commit(c) \/ CommitAbandoned(c)
          \/ DataSetReady(c) \/ ServiceEnds(c) \/ Pulling(c) \/ PieceDropped(c) \/ Retry(c)
    \/ Crash \/ CacheLost \/ CacheBack \/ DeleteLast

Spec == Init /\ [][Next]_vars

\* The engine claims what is due and its invocations finish; data sets become
\* ready, providers work, and CommitBatch registers what is signed.
FairSpec ==
    /\ Spec
    /\ \A c \in Copies :
          /\ WF_vars(Claim(c)) /\ WF_vars(Handler(c)) /\ WF_vars(Pulling(c)) /\ WF_vars(DataSetReady(c))
          /\ WF_vars(Sign(c)) /\ WF_vars(Commit(c))

-----------------------------------------------------------------------------
(* Properties                                                              *)

\* There is never more than one live ingress, so the unique index on the role
\* refuses no settlement; and a pending copy that may only pull is never left
\* waiting for a source nobody will provide: while nothing is readable, the
\* content has a live ingress.  A plan that an operator's Retry started may wait
\* for the cache instead.
IngressRole ==
    LET role == {c \in Copies : copy[c].method = "ingress" /\ copy[c].status # "failed"}
    IN  /\ Cardinality(role) <= 1
        /\ \A c \in Copies :
              copy[c].status = "pending" /\ copy[c].method = "peer_pull" /\ Sources = {}
                  => role # {} \/ task[c].recovery

\* The ledger of pulls agrees with the tasks.  A copy has at most one unresolved
\* pull, and it is the one its own pull task has in its checkpoint; a checkpoint
\* never names a pull that is over.  So the reservation's unique index refuses
\* nothing, an unresolved pull is never adopted by a task that did not send it,
\* and "pull attempt is already finished" (pull.go:167) is never reached.  Only a
\* copy that may fall back to the cache is pulled, although it may be given the
\* ingress role while its plan runs.  An owned copy is pending, and a deleted
\* content has no work left.
PullLedger ==
    /\ TypeOK
    /\ \A c \in Copies :
        LET owns == copy[c].owned /\ task[c].type = "pull"
        IN  /\ OpenPulls(c) = IF owns /\ task[c].cp # 0 THEN {task[c].cp} ELSE {}
            /\ owns => Sources # {}
            /\ OpenPulls(c) # {} => copy[c].method = "peer_pull"
            /\ copy[c].owned => copy[c].status = "pending"
            /\ task[c].status \in {"pending", "running"} => copy[c].owned
            /\ ~live => copy[c].status \in {"committed", "failed"}

\* Somebody other than the tasks has to act on copy c.  An ingress waits for the
\* cache even where a copy restored by an operator's Retry is readable.
NeedsHelp(c) ==
    \/ \E d \in Copies : task[d].status = "failed" \/ service[d] = "ended"
    \/ ~cached /\ (Sources = {} \/ copy[c].method = "ingress")

\* Every copy gets somewhere.  A pending copy is transferred, whatever crashed
\* or got lost, unless a task failed for an operator to retry, a data set
\* ended, or the bytes are not where the copy is to be made from.
CopiesSettled == \A c \in Copies : copy[c].status # "pending" \/ NeedsHelp(c)
CopiesEnd == []<>CopiesSettled
=============================================================================
