----------------------------- MODULE TaskEngine -----------------------------
(***************************************************************************)
(* The universal task engine of SynapS3 (internal/worker) over the tasks   *)
(* table (internal/db/repository/task_*.go): enqueueing, claims under a    *)
(* lease, the claim-generation fence, checkpointed external effects,       *)
(* settlement, the automatic retry budget, retry rounds, crash and         *)
(* restart.  One gateway process runs the engine (docs: "Run exactly one   *)
(* SynapS3 instance per database"); it may crash and restart at any step.  *)
(*                                                                         *)
(* A database transaction is one step.  Time is abstracted: a lease is     *)
(* live or it has run out, and it may run out at any moment.  Handlers are *)
(* arbitrary programs of the engine's Execution interface.                 *)
(***************************************************************************)
EXTENDS Naturals, FiniteSets

CONSTANTS
    MaxTasks,      \* bound: rows ever inserted into tasks
    MaxClaims,     \* bound: claim_generation of one row
    MaxAttempts,   \* ExecutionPolicy.MaxAttempts
    Slots,         \* the goroutines of Engine.config.Concurrency
    Idents,        \* task identities: type, subject and business generation
    PlanIdents,    \* the identities of type upload_plan
    Keys,          \* operation keys
    NoKey,         \* no operation is open
    Operators,     \* concurrent callers of Service.Retry
    Nil            \* no invocation, no read row

ASSUME BoundsAssumption == /\ MaxTasks \in Nat \ {0}
                           /\ MaxClaims \in Nat
                           /\ MaxAttempts \in Nat \ {0}

ASSUME NamesAssumption == /\ Idents # {} /\ PlanIdents \subseteq Idents
                          /\ NoKey \notin Keys

Ids == 1 .. MaxTasks

Modes == {"execute", "recover"}
Terminal == {"completed", "failed", "cancelled"}
Statuses == {"absent", "pending", "running"} \cup Terminal

Row == [status : Statuses, mode : Modes, gen : 0 .. MaxClaims,
        live : BOOLEAN, retry : 0 .. MaxAttempts - 1,
        key : Keys \cup {NoKey}, admitted : 0 .. MaxAttempts, ckpt : BOOLEAN,
        parent : 0 .. MaxTasks, superseded : BOOLEAN, ident : Idents]

Result == [kind : {"wait", "retry"}, mode : Modes]
            \cup [kind : {"complete", "fail", "cancel"}, mode : {"recover"}]

\* One goroutine of executeClaim.  phase: the handler runs, the admitted
\* effect is about to be called, or the result is being committed.
Invocation == [task : Ids, gen : 0 .. MaxClaims, mode : Modes,
               safe : BOOLEAN, phase : {"handler", "effect", "settling"},
               key : Keys \cup {NoKey}, admitted : BOOLEAN, result : Result]

\* What Service.Retry remembers of the failed row it read.
RetryRead == [source : Ids, gen : 0 .. MaxClaims, ckpt : BOOLEAN]

ASSUME NilAssumption == Nil \notin Invocation /\ Nil \notin RetryRead

VARIABLES
    tasks,      \* Ids -> Row: the tasks table, rows inserted in order of id
    exec,       \* Slots -> Invocation or Nil: runDispatcher's active claims
    recovery,   \* Engine.recovery: claims whose lease still has to be shortened
    reads,      \* Operators -> the failed row Service.Retry read, or Nil
    sent,       \* history: effects called for the open operation of a row
    exposed,    \* history: an effect was admitted and no handler has since
                \* declared that executing again is safe
    applied     \* history: settlements the latest claim of a row has applied

vars == <<tasks, exec, recovery, reads, sent, exposed, applied>>
dbVars == <<tasks, sent, exposed, applied>>

-----------------------------------------------------------------------------

Inserted == {t \in Ids : tasks[t].status # "absent"}
Current(t) == tasks[t].status # "absent" /\ ~tasks[t].superseded

\* The id the next INSERT receives: ids are given out in order.
NextId(n) == n \notin Inserted /\ 1 .. n - 1 \subseteq Inserted

\* GetByIdentity: the round that holds an identity.
Holds(t, i) == Current(t) /\ tasks[t].ident = i

\* GetDirectSuccessor
Successors(t) == {u \in Inserted : tasks[u].parent = t}

NewRow(i, mode, ckpt, parent) ==
    [status |-> "pending", mode |-> mode, gen |-> 0, live |-> FALSE,
     retry |-> 0, key |-> NoKey, admitted |-> 0, ckpt |-> ckpt,
     parent |-> parent, superseded |-> FALSE, ident |-> i]

\* Row of an id that has not been inserted yet.
NoRow == [NewRow(CHOOSE i \in Idents : TRUE, "execute", FALSE, 0)
             EXCEPT !.status = "absent"]

SetRow(t, row) == tasks' = [tasks EXCEPT ![t] = row]
SetExec(w, inv) == exec' = [exec EXCEPT ![w] = inv]

NoResult == [kind |-> "fail", mode |-> "recover"]

Init ==
    /\ tasks = [t \in Ids |-> NoRow]
    /\ exec = [w \in Slots |-> Nil]
    /\ recovery = {}
    /\ reads = [o \in Operators |-> Nil]
    /\ sent = [t \in Ids |-> 0]
    /\ exposed = [t \in Ids |-> FALSE]
    /\ applied = [t \in Ids |-> 0]

-----------------------------------------------------------------------------
(* Enqueueing and the passing of time *)

\* Mutant: the current round of the identity is not looked for.
EnqueueTwice(i) ==
    /\ \E n \in Ids :
         /\ NextId(n)
         /\ SetRow(n, NewRow(i, "execute", FALSE, 0))
    /\ UNCHANGED <<exec, recovery, reads, sent, exposed, applied>>

\* Service.Enqueue: a current round of the same identity is returned as it
\* is; otherwise a pending row is inserted in execute mode.
Enqueue(i) ==
    /\ \A t \in Ids : ~Holds(t, i)
    /\ \E n \in Ids :
         /\ NextId(n)
         /\ SetRow(n, NewRow(i, "execute", FALSE, 0))
    /\ UNCHANGED <<exec, recovery, reads, sent, exposed, applied>>

\* SupersedeTerminal of s and the INSERT of its successor, in one transaction.
Succeed(s, i, mode, ckpt) ==
    /\ tasks[s].status \in Terminal /\ ~tasks[s].superseded
    /\ Successors(s) = {}
    /\ \A t \in Ids \ {s} : ~Holds(t, i)
    /\ \E n \in Ids :
         /\ NextId(n)
         /\ tasks' = [tasks EXCEPT
                        ![s] = [tasks[s] EXCEPT !.superseded = TRUE],
                        ![n] = NewRow(i, mode, ckpt, s)]
         /\ exposed' = [exposed EXCEPT ![n] = ckpt /\ exposed[s]]
    /\ UNCHANGED <<exec, recovery, sent, applied>>

\* EnqueueOrReplaceTerminalInTransaction, for upload plans only: a failed or
\* cancelled plan is superseded by a fresh one.  (With no current plan it is
\* Enqueue; a pending or running plan is returned; a completed one conflicts.)
EnqueueOrReplaceTerminal(s) ==
    /\ tasks[s].ident \in PlanIdents
    /\ tasks[s].status \in {"failed", "cancelled"}
    /\ Succeed(s, tasks[s].ident, "execute", FALSE)
    /\ UNCHANGED reads

\* lease_until is reached: no renewal arrived in time.
LeaseExpires(t) ==
    /\ tasks[t].status = "running" /\ tasks[t].live
    /\ SetRow(t, [tasks[t] EXCEPT !.live = FALSE])
    /\ UNCHANGED <<exec, recovery, reads, sent, exposed, applied>>

-----------------------------------------------------------------------------
(* Claims *)

\* Mutant: the dispatcher does not exclude the tasks it is executing.
ActiveNever(t) == FALSE

\* ClaimNext: an expired claim is taken over in recover mode; a pending task keeps its
\* resume mode.  Expired claims are looked for first, but a pending task may go before
\* one whose type is at capacity, whose row is locked, or whose lease has just run out.
\* A pending task may be due at any moment: available_at passes, or WakePending brings
\* it forward.
\* runDispatcher excludes the tasks it is executing and stays below the
\* configured concurrency.
Active(t) == \E w \in Slots : exec[w] # Nil /\ exec[w].task = t

\* Mutant: only claims already marked for recovery are taken over.
ClaimExpiredMarked(t) ==
    /\ tasks[t].status = "running" /\ ~tasks[t].live /\ ~Active(t)
    /\ tasks[t].mode = "recover"

ClaimExpired(t) == tasks[t].status = "running" /\ ~tasks[t].live /\ ~Active(t)

ClaimPending(t) == tasks[t].status = "pending" /\ ~Active(t)

ClaimMode(t) == IF tasks[t].status = "running" THEN "recover" ELSE tasks[t].mode

ClaimNext(w, t) ==
    /\ exec[w] = Nil
    /\ ClaimExpired(t) \/ ClaimPending(t)
    /\ tasks[t].gen < MaxClaims
    /\ SetRow(t, [tasks[t] EXCEPT !.status = "running", !.mode = ClaimMode(t),
                                  !.gen = tasks[t].gen + 1, !.live = TRUE])
    /\ SetExec(w, [task |-> t, gen |-> tasks[t].gen + 1, mode |-> ClaimMode(t),
                   safe |-> TRUE, phase |-> "handler", key |-> NoKey,
                   admitted |-> FALSE, result |-> NoResult])
    /\ applied' = [applied EXCEPT ![t] = 0]
    /\ UNCHANGED <<recovery, reads, sent, exposed>>

\* Mutant: the fence compares the generation only.
ClaimValidByGeneration(t, gen) == tasks[t].gen = gen

\* ValidateClaim
ClaimValid(t, gen) ==
    tasks[t].status = "running" /\ tasks[t].gen = gen /\ tasks[t].live

\* Slot w is in the given phase of an invocation of task t.
Runs(w, t, phase) == exec[w] # Nil /\ exec[w].task = t /\ exec[w].phase = phase

\* renewLease gives up, or the process is asked to stop: leaseSafe is cleared.
LeaseUnsafe(w) ==
    /\ exec[w] # Nil /\ exec[w].safe
    /\ SetExec(w, [exec[w] EXCEPT !.safe = FALSE])
    /\ UNCHANGED <<recovery, reads, dbVars>>

-----------------------------------------------------------------------------
(* What a handler may do with its Execution *)

\* WriteCheckpointWith; RecordEffectEvidence, once an effect was called, is
\* fenced by the claim alone.
WriteCheckpoint(w, t) ==
    /\ Runs(w, t, "handler") /\ (exec[w].safe \/ exec[w].admitted)
    /\ ClaimValid(t, exec[w].gen)
    /\ SetRow(t, [tasks[t] EXCEPT !.ckpt = TRUE, !.mode = "recover"])
    /\ UNCHANGED <<exec, recovery, reads, sent, exposed, applied>>

\* Mutant: off by one in the admission of an attempt.
AdmissibleTwice(t, k) ==
    tasks[t].key \in {NoKey, k} /\ tasks[t].admitted <= tasks[t].retry + 1

\* AdmitEffect allows one admission for each attempt of an operation.
Admissible(t, k) ==
    /\ tasks[t].key \in {NoKey, k}
    /\ tasks[t].admitted < tasks[t].retry + 1

\* Mutant: the admission does not turn the row to recover mode.
AdmitEffectInMode(w, t, k) ==
    /\ Runs(w, t, "handler") /\ exec[w].safe /\ exec[w].mode = "execute"
    /\ ClaimValid(t, exec[w].gen) /\ Admissible(t, k)
    /\ SetRow(t, [tasks[t] EXCEPT !.key = k, !.admitted = tasks[t].retry + 1,
                                  !.ckpt = TRUE])
    /\ exposed' = [exposed EXCEPT ![t] = TRUE]
    /\ SetExec(w, [exec[w] EXCEPT !.admitted = TRUE, !.key = k,
                                  !.phase = "effect"])
    /\ UNCHANGED <<recovery, reads, sent, applied>>

\* WithCheckpointedEffect up to the call of the effect.  When the answer of
\* the commit is lost, the admission stands and the effect is not called.
AdmitEffect(w, t, k) ==
    /\ Runs(w, t, "handler") /\ exec[w].safe /\ exec[w].mode = "execute"
    /\ tasks[t].ident \notin PlanIdents
    /\ ClaimValid(t, exec[w].gen)
    /\ Admissible(t, k)
    /\ SetRow(t, [tasks[t] EXCEPT !.key = k, !.admitted = tasks[t].retry + 1,
                                  !.ckpt = TRUE, !.mode = "recover"])
    /\ exposed' = [exposed EXCEPT ![t] = TRUE]
    /\ \E answered \in BOOLEAN :
         SetExec(w, [exec[w] EXCEPT
                       !.admitted = TRUE,
                       !.key = IF answered THEN k ELSE NoKey,
                       !.phase = IF answered THEN "effect" ELSE "handler"])
    /\ UNCHANGED <<recovery, reads, sent, applied>>

\* The effect itself leaves the process; no lease is checked here.
CallEffect(w, t) ==
    /\ Runs(w, t, "effect")
    /\ sent' = [sent EXCEPT ![t] = sent[t] + 1]
    /\ SetExec(w, [exec[w] EXCEPT !.phase = "handler", !.key = NoKey])
    /\ UNCHANGED <<tasks, recovery, reads, exposed, applied>>

ObserveOperation(w, t, k) ==
    /\ Runs(w, t, "handler") /\ ClaimValid(t, exec[w].gen)
    /\ tasks[t].key = NoKey
    /\ SetRow(t, [tasks[t] EXCEPT !.key = k, !.admitted = 0])
    /\ UNCHANGED <<exec, recovery, reads, sent, exposed, applied>>

ResolveOperation(w, t) ==
    /\ Runs(w, t, "handler") /\ ClaimValid(t, exec[w].gen)
    /\ tasks[t].key # NoKey
    /\ SetRow(t, [tasks[t] EXCEPT !.key = NoKey, !.admitted = 0, !.ckpt = TRUE,
                                  !.mode = "recover"])
    /\ sent' = [sent EXCEPT ![t] = 0]
    /\ UNCHANGED <<exec, recovery, reads, exposed, applied>>

-----------------------------------------------------------------------------
(* The end of an invocation *)

\* ShortenLease: the claim stays running until its lease ends, in recover mode.
ShortenLease(t, gen) ==
    IF ClaimValid(t, gen)
    THEN SetRow(t, [tasks[t] EXCEPT !.mode = "recover"])
    ELSE UNCHANGED tasks

\* abandonClaim, after a discarded result, a failed settlement or an engine
\* panic.  An unreachable database leaves the request in the recovery queue.
AbandonClaim(w, t) ==
    /\ Runs(w, t, "handler") \/ Runs(w, t, "settling")
    /\ SetExec(w, Nil)
    /\ \/ ShortenLease(t, exec[w].gen) /\ UNCHANGED recovery
       \/ recovery' = recovery \cup {<<t, exec[w].gen>>} /\ UNCHANGED tasks
    /\ UNCHANGED <<reads, sent, exposed, applied>>

\* runRecoveryQueue
RecoverLease(t, gen) ==
    /\ <<t, gen>> \in recovery
    /\ recovery' = recovery \ {<<t, gen>>}
    /\ ShortenLease(t, gen)
    /\ UNCHANGED <<exec, reads, sent, exposed, applied>>

\* The handler returns r while the lease is known to be safe.
HandlerReturns(w, t, r) ==
    /\ Runs(w, t, "handler") /\ exec[w].safe
    /\ SetExec(w, [exec[w] EXCEPT !.phase = "settling", !.result = r])
    /\ UNCHANGED <<recovery, reads, dbVars>>

\* failClaim: a panic, an invalid result or an unusable row.  The claim fence
\* of the settlement is its only protection.
FailClaim(w, t) ==
    /\ Runs(w, t, "handler")
    /\ SetExec(w, [exec[w] EXCEPT !.phase = "settling", !.result = NoResult])
    /\ UNCHANGED <<recovery, reads, dbVars>>

\* transitionFor
StatusAfter(t, r) ==
    CASE r.kind = "complete" -> "completed"
      [] r.kind = "cancel" -> "cancelled"
      [] r.kind = "fail" -> "failed"
      [] r.kind = "wait" -> "pending"
      [] r.kind = "retry" ->
           IF tasks[t].retry >= MaxAttempts - 1 THEN "failed" ELSE "pending"

SettledRow(t, r) ==
    LET status == StatusAfter(t, r)
        again == status = "pending" /\ r.kind = "retry"
    IN [tasks[t] EXCEPT
          !.status = status, !.live = FALSE,
          !.mode = IF status = "pending" THEN r.mode ELSE "recover",
          !.retry = IF again THEN tasks[t].retry + 1 ELSE tasks[t].retry]

\* One transaction of commitResult: the claim is validated, the domain state
\* and the row are settled together.  A lost answer makes commitResult try
\* again, with the same result.
CommitResult(w, t) ==
    /\ Runs(w, t, "settling")
    /\ ClaimValid(t, exec[w].gen)
    /\ LET row == SettledRow(t, exec[w].result)
       IN /\ SetRow(t, row)
          /\ exposed' = [exposed EXCEPT ![t] = exposed[t] /\ row.mode = "recover"]
    /\ applied' = [applied EXCEPT ![t] = applied[t] + 1]
    /\ SetExec(w, Nil) \/ UNCHANGED exec
    /\ UNCHANGED <<recovery, reads, sent>>

-----------------------------------------------------------------------------
(* Retry rounds, crash *)

\* Service.Retry reads its source, then prepares the successor outside the
\* transaction, from the checkpoint it has read.
RetryReads(o, s) ==
    /\ reads[o] = Nil
    /\ tasks[s].status = "failed" /\ ~tasks[s].superseded
    /\ Successors(s) = {}
    /\ reads' = [reads EXCEPT ![o] =
                   [source |-> s, gen |-> tasks[s].gen, ckpt |-> tasks[s].ckpt]]
    /\ UNCHANGED <<exec, recovery, dbVars>>

\* What InspectRetry and the preparation of a type can make of a source: resume
\* it, resume it without evidence that proves nothing was sent, or replan the
\* work, in execute mode, under the next business generation.
RetrySuccessor(s, ckpt) ==
    \/ Succeed(s, tasks[s].ident, "recover", ckpt)
    \/ Succeed(s, tasks[s].ident, "recover", FALSE)
    \/ /\ tasks[s].ident \notin PlanIdents
       /\ \E i \in Idents \ (PlanIdents \cup {tasks[s].ident}) :
            Succeed(s, i, "execute", FALSE)

\* The transaction of Service.Retry.
RetryCommits(o) ==
    /\ reads[o] # Nil
    /\ LET s == reads[o].source
       IN /\ tasks[s].status = "failed" /\ tasks[s].gen = reads[o].gen
          /\ RetrySuccessor(s, reads[o].ckpt)
    /\ reads' = [reads EXCEPT ![o] = Nil]

\* retryReplay, or the refusal of the retry: nothing is written.
RetryEnds(o) ==
    /\ reads[o] # Nil
    /\ reads' = [reads EXCEPT ![o] = Nil]
    /\ UNCHANGED <<exec, recovery, dbVars>>

\* Scheduler.RetryInTransaction and EnqueueRecoveryInTransaction, in the
\* settlement of another task.
RetryInTransaction(s) ==
    /\ tasks[s].status = "failed"
    /\ RetrySuccessor(s, tasks[s].ckpt)
    /\ UNCHANGED reads

\* The process dies and starts again: everything in memory is lost.
Crash ==
    /\ exec' = [w \in Slots |-> Nil]
    /\ recovery' = {}
    /\ reads' = [o \in Operators |-> Nil]
    /\ UNCHANGED dbVars

-----------------------------------------------------------------------------

Next ==
    \/ \E i \in Idents : Enqueue(i)
    \/ \E t \in Ids : \/ EnqueueOrReplaceTerminal(t) \/ RetryInTransaction(t)
                      \/ LeaseExpires(t)
    \/ \E w \in Slots : LeaseUnsafe(w)
    \/ \E w \in Slots, t \in Ids :
         \/ ClaimNext(w, t) \/ WriteCheckpoint(w, t) \/ CallEffect(w, t)
         \/ ResolveOperation(w, t) \/ AbandonClaim(w, t) \/ FailClaim(w, t)
         \/ CommitResult(w, t)
         \/ \E k \in Keys : AdmitEffect(w, t, k) \/ ObserveOperation(w, t, k)
         \/ \E r \in Result : HandlerReturns(w, t, r)
    \/ \E t \in Ids, gen \in 0 .. MaxClaims : RecoverLease(t, gen)
    \/ \E o \in Operators : RetryCommits(o) \/ RetryEnds(o)
    \/ \E o \in Operators, s \in Ids : RetryReads(o, s)
    \/ Crash

Spec == Init /\ [][Next]_vars

\* A lease nobody renews ends; a handler cannot run for ever, whatever it calls,
\* because its invocation times out, and commitResult stops after four tries;
\* claims are taken in order of lease_until and available_at, so a claimable
\* task is not passed over for ever.
Fairness ==
    /\ \A t \in Ids :
         /\ WF_vars(~Active(t) /\ LeaseExpires(t))
         /\ SF_vars(\E w \in Slots : ClaimNext(w, t))
    /\ \A w \in Slots :
         /\ WF_vars(\E t \in Ids : CallEffect(w, t))
         /\ SF_vars(\E t \in Ids :
                      \/ AbandonClaim(w, t) \/ FailClaim(w, t) \/ CommitResult(w, t)
                      \/ \E r \in Result : HandlerReturns(w, t, r))

FairSpec == Spec /\ Fairness
-----------------------------------------------------------------------------
(* Properties *)

TypeOK ==
    /\ tasks \in [Ids -> Row]
    /\ exec \in [Slots -> Invocation \cup {Nil}]
    /\ recovery \subseteq Ids \X (0 .. MaxClaims)
    /\ reads \in [Operators -> RetryRead \cup {Nil}]
    /\ sent \in [Ids -> Nat]
    /\ exposed \in [Ids -> BOOLEAN]
    /\ applied \in [Ids -> Nat]

\* Recover before re-executing: once an effect may have left the process, the
\* current round keeps its evidence and resumes in recover mode, and no other
\* invocation than the one that admitted the effect runs in execute mode, until
\* a handler declares execution safe again.  It survives crashes, expired
\* leases, abandoned claims, lost answers and retry rounds.
RecoverFirst ==
    /\ \A t \in Ids : exposed[t] => tasks[t].mode = "recover" /\ tasks[t].ckpt
    /\ \A w \in Slots :
         exec[w] # Nil /\ exec[w].mode = "execute" /\ exposed[exec[w].task]
             => exec[w].admitted

\* Under one open operation a round calls at most one effect for each attempt
\* of its retry budget, whatever crashes and lost answers come in between.
EffectBudget == \A t \in Ids : sent[t] <= tasks[t].retry + 1

\* An effect that is about to be called belongs to the claim and the operation
\* that the database still records: nobody else has taken the task over.
EffectFenced ==
    \A w \in Slots, t \in Ids : Runs(w, t, "effect") =>
        /\ tasks[t].status = "running" /\ tasks[t].gen = exec[w].gen
        /\ tasks[t].key = exec[w].key

\* The domain settlement of a claim is applied at most once, although
\* commitResult repeats a settlement whose answer was lost.
SettledOnce == \A t \in Ids : applied[t] <= 1

\* Rounds form chains: one current round for each identity, at most one
\* successor for each round, and a round has a successor if it is superseded.
Rounds ==
    /\ \A t, u \in Inserted :
         /\ Current(t) /\ Current(u) /\ tasks[t].ident = tasks[u].ident => t = u
         /\ tasks[t].parent = tasks[u].parent /\ tasks[t].parent # 0 => t = u
    /\ \A t \in Inserted :
         /\ tasks[t].superseded <=> Successors(t) # {}
         /\ tasks[t].superseded => tasks[t].status \in Terminal
         /\ tasks[t].parent < t

\* What the rows alone satisfy: the admission ledger covers the effects that
\* were called, and an exposed row resumes in recover mode with its evidence.
RowInv(t) ==
    /\ tasks[t].key = NoKey => tasks[t].admitted = 0
    /\ tasks[t].admitted <= tasks[t].retry + 1
    /\ sent[t] <= tasks[t].admitted
    /\ exposed[t] => tasks[t].mode = "recover" /\ tasks[t].ckpt
    /\ tasks[t].status = "absent" => sent[t] = 0 /\ ~exposed[t]
    /\ tasks[t].status = "running" => applied[t] = 0
    /\ applied[t] <= 1

\* What the lease and the dispatcher give the invocation of slot w: it holds
\* the latest generation of its row, alone; the row stays running until its own
\* result is settled; an admitted effect that is about to be called is counted.
SlotInv(w) ==
    exec[w] # Nil =>
        LET t == exec[w].task IN
        /\ tasks[t].status # "absent" /\ tasks[t].gen = exec[w].gen
        /\ exec[w].phase # "settling" => tasks[t].status = "running"
        /\ exec[w].phase = "effect" => /\ sent[t] < tasks[t].admitted
                                       /\ tasks[t].key = exec[w].key
        /\ exec[w].mode = "execute" /\ exposed[t] => exec[w].admitted
        /\ \A v \in Slots \ {w} : exec[v] # Nil => exec[v].task # t

\* The inductive invariant of the proofs.
EngineInv ==
    TypeOK /\ (\A t \in Ids : RowInv(t)) /\ (\A w \in Slots : SlotInv(w))

\* A claim whose invocation died, was abandoned or lost its lease is taken over.
TakenOver ==
    \A t \in Ids : ~(tasks[t].status = "running" /\ ~Active(t) /\ tasks[t].gen < MaxClaims)
AbandonedClaimRecovered == []<>TakenOver
=============================================================================
