----------------------------- MODULE Replacement -----------------------------
(***************************************************************************)
(* Replacing the storage provider of one replica slot of a bucket.         *)
(*                                                                         *)
(* The slot is owned by a chain of data set generations; exactly one of    *)
(* them is current and takes the writes of new content.  An operator's     *)
(* confirmation creates the next generation (the target) and a             *)
(* replacement row; a coordinator task creates the target's data set,      *)
(* switches the slot over, moves the writes the old provider has not       *)
(* signed for, seeds a copy of every live content on the target, waits     *)
(* for the copies and for the signed writes, and then hands the old data   *)
(* set to its retirement task, whose gate decides whether its service may  *)
(* end.  Upload plans and copy transfers run at the same time.             *)
(*                                                                         *)
(* Contents are numbered in the order of their ids.  `other' is the copy   *)
(* of the content in a second slot whose data set never changes.           *)
(***************************************************************************)
EXTENDS Integers, FiniteSets, FiniteSetsExt

CONSTANTS
    Contents,   \* storage contents: 1..n, the order of their ids
    MaxGen,     \* generations the slot may see
    SeedLimit,  \* replacementSeedBatchSize
    Retries,    \* DependencyRetries of the coordinator
    Bounds      \* how much may happen: a set of records of writes, deletes,
                \* confirmations, resumes by the operator, and faults

Gens == 1..MaxGen

VARIABLES
    ds,      \* generation -> storage_data_sets row
    copy,    \* content -> generation -> storage_copies row
    other,   \* content -> its copy in the second slot
    ref,     \* content -> whether an object version names it
    plan,    \* content -> its upload plan task
    rep,     \* target generation -> storage_replacements row
    item,    \* target generation -> content -> storage_replacement_items row
    co,      \* target generation -> the coordinator's invocation
    ret,     \* target generation -> the retirement task of its source
    left     \* what is left of the bounds

vars == <<ds, copy, other, ref, plan, rep, item, co, ret, left>>

(***************************************************************************)
(* Rows.                                                                   *)
(***************************************************************************)
NoSet  == [st |-> "none", cur |-> FALSE, id |-> FALSE, ens |-> "none"]
NoCopy == [st |-> "none", m |-> "peer", w |-> "none"]
NoRep  == [st |-> "none", src |-> 0, cursor |-> 0, seeded |-> FALSE, task |-> "none"]
NoItem == [st |-> "none", tries |-> 0]
Idle   == [pc |-> "idle", saw |-> "none", seeded |-> FALSE, own |-> FALSE, sel |-> {}]

CopyStates == {"none", "pending", "pulling", "ready", "sealed", "committed", "failed"}
Open       == {"preparing", "waiting", "migrating"}
RepStates  == Open \cup {"none", "retiring", "failed", "completed", "superseded"}
Outcomes   == {"fail", "initialization", "ensure", "wait", "activate", "abandon", "handover",
               "seed", "items", "writes", "retire", "complete"}

TypeOK ==
    /\ ds \in [Gens -> [st : {"none", "pending", "ready", "draining", "retired"}, cur : BOOLEAN,
                        id : BOOLEAN, ens : {"none", "running", "failed"}]]
    /\ copy \in [Contents -> [Gens -> [st : CopyStates, m : {"ingress", "peer"},
                                       w : {"none", "plan", "work", "failed"}]]]
    /\ other \in [Contents -> {"none", "peer", "ingress", "committed"}]
    /\ ref \in [Contents -> {"none", "live", "dead"}]
    /\ plan \in [Contents -> [st : {"none", "waiting", "bound", "done"}, d : {0} \cup Gens]]
    /\ rep \in [Gens -> [st : RepStates,
                         src : {0} \cup Gens, cursor : {0} \cup Contents, seeded : BOOLEAN,
                         task : {"none", "live", "failed"}]]
    /\ item \in [Gens -> [Contents -> [st : {"none", "pending", "copied", "attention", "cancelled"},
                                       tries : 0..Retries]]]
    /\ co \in [Gens -> [pc : {"idle", "run", "rest", "release"} \cup Outcomes, saw : RepStates,
                        seeded : BOOLEAN, own : BOOLEAN, sel : SUBSET Contents]]
    /\ ret \in [Gens -> {"none", "gate", "passed", "ended", "done"}]

(***************************************************************************)
(* What the queries of the repository ask.                                 *)
(***************************************************************************)
Live(c) == ref[c] = "live"

Usable(d) == ds[d].st = "ready" /\ ds[d].id

CurrentReady(d) == ds[d].cur /\ Usable(d)

InFlight(c, d) == copy[c][d].st \in {"pending", "pulling", "ready", "sealed"}

Signed(c, d) == copy[c][d].st \in {"pulling", "sealed"}

UnsignedWrite(c, d) == InFlight(c, d) /\ ~Signed(c, d)

Readable(c, d) == copy[c][d].st = "committed" /\ ds[d].st \in {"ready", "draining"}

HasReadable(c) == other[c] = "committed" \/ \E d \in Gens : Readable(c, d)

PendingMigration(c, d) == item[d][c].st = "pending"

Stopped(d) ==
    \/ ds[d].st = "retired"
    \/ ~ds[d].id /\ \E t \in Gens : rep[t].src = d

LocallyEnded(d) == ds[d].st = "retired" /\ ~ds[d].id

(***************************************************************************)
(* Bounds and small updates.                                               *)
(***************************************************************************)
Spend(b) == left[b] > 0 /\ left' = [left EXCEPT ![b] = @ - 1]

\* CreateUploadCopiesForBindings: a copy that exists already stays as it is.
WithCopy(row, m) == IF row.st = "none" THEN [st |-> "pending", m |-> m, w |-> "none"] ELSE row

\* StartCopyTransfer of a pending copy nobody works on.
Started(row) == IF row.st = "pending" /\ row.w = "none" THEN [row EXCEPT !.w = "plan"] ELSE row

\* MarkUploadCopyFailed; the transfer method stays.
Failed(row) == [row EXCEPT !.st = "failed", !.w = "none"]

\* ReopenFailedIngressForPull and a new plan task for each copy it reopened:
\* every failed, unowned ingress copy of the content, on whatever data set.
Reopened(c) ==
    [d \in Gens |->
        IF copy[c][d].st = "failed" /\ copy[c][d].m = "ingress" /\ copy[c][d].w = "none"
        THEN [st |-> "pending", m |-> "peer", w |-> "plan"]
        ELSE copy[c][d]]

(***************************************************************************)
(* Init: generation 1 owns the slot, ready or still being created.         *)
(***************************************************************************)
Init ==
    /\ ds \in [Gens -> {NoSet, [st |-> "ready", cur |-> TRUE, id |-> TRUE, ens |-> "none"],
                               [st |-> "pending", cur |-> TRUE, id |-> FALSE, ens |-> "running"]}]
    /\ \A d \in Gens : (d = 1) <=> ds[d] # NoSet
    /\ copy = [c \in Contents |-> [d \in Gens |-> NoCopy]]
    /\ other = [c \in Contents |-> "none"]
    /\ ref = [c \in Contents |-> "none"]
    /\ plan = [c \in Contents |-> [st |-> "none", d |-> 0]]
    /\ rep = [t \in Gens |-> NoRep]
    /\ item = [t \in Gens |-> [c \in Contents |-> NoItem]]
    /\ co = [t \in Gens |-> Idle]
    /\ ret = [t \in Gens |-> "none"]
    /\ left \in Bounds

(***************************************************************************)
(* Objects: a new content gets the next id and an upload plan task.        *)
(***************************************************************************)
Write(c) ==
    /\ ref[c] = "none" /\ \A b \in Contents : b < c => ref[b] # "none"
    /\ Spend("writes")
    /\ ref' = [ref EXCEPT ![c] = "live"]
    /\ plan' = [plan EXCEPT ![c].st = "waiting"]
    /\ UNCHANGED <<ds, copy, other, rep, item, co, ret>>

Delete(c) ==
    /\ Live(c) /\ Spend("deletes")
    /\ ref' = [ref EXCEPT ![c] = "dead"]
    /\ UNCHANGED <<ds, copy, other, plan, rep, item, co, ret>>

(***************************************************************************)
(* The upload plan: it reads the slot's current data set, and settles      *)
(* later under the bucket's lock, where that data set must still own the   *)
(* slot.  While creation of the current data set is stopped it waits.      *)
(***************************************************************************)
SelectBinding(c) ==
    /\ plan[c].st = "waiting" /\ Live(c)
    /\ \E d \in Gens :
        /\ ds[d].cur /\ ds[d].st \in {"ready", "pending"} /\ ~Stopped(d)
        /\ plan' = [plan EXCEPT ![c] = [st |-> "bound", d |-> d]]
    /\ UNCHANGED <<ds, copy, other, ref, rep, item, co, ret, left>>

PlanNotRequired(c) ==
    /\ plan[c].st = "waiting" /\ ref[c] = "dead"
    /\ plan' = [plan EXCEPT ![c].st = "done"]
    /\ UNCHANGED <<ds, copy, other, ref, rep, item, co, ret, left>>

\* lockCurrentDataSetBinding refuses a generation that left the slot, and
\* LockForCopyCreation a content whose cleanup was reserved.
BindingHolds(c) == ds[plan[c].d].cur /\ Live(c)

\* The faster provider gets the ingress copy.  The copy of a migration that
\* is there already stays a pull, and then both slots may have one.
BindCopies(c) ==
    /\ plan[c].st = "bound" /\ BindingHolds(c)
    /\ LET d == plan[c].d IN
       \E m \in {"ingress", "peer"} :
        LET row == WithCopy(copy[c][d], m)
        IN  /\ copy' = [copy EXCEPT ![c][d] = IF Usable(d) THEN Started(row) ELSE row]
            /\ other' = [other EXCEPT ![c] = IF m = "ingress" THEN "peer" ELSE "ingress"]
            /\ ds' = [ds EXCEPT ![d].ens =
                        IF ~Usable(d) /\ @ = "none" /\ ~Stopped(d) THEN "running" ELSE @]
    /\ plan' = [plan EXCEPT ![c].st = "done"]
    /\ UNCHANGED <<ref, rep, item, co, ret, left>>

\* The settlement rolls back and the plan selects again.
BindingRefused(c) ==
    /\ plan[c].st = "bound" /\ ~BindingHolds(c)
    /\ plan' = [plan EXCEPT ![c] = [st |-> "waiting", d |-> 0]]
    /\ UNCHANGED <<ds, copy, other, ref, rep, item, co, ret, left>>

(***************************************************************************)
(* Creation of a data set (DataSetCreate): it becomes ready and starts     *)
(* the copies that wait for it, or fails without an effect outside.        *)
(***************************************************************************)
DataSetReady(d) ==
    /\ ds[d].ens = "running" /\ ds[d].st = "pending"
    /\ ds' = [ds EXCEPT ![d].st = "ready", ![d].id = TRUE, ![d].ens = "none"]
    /\ copy' = [c \in Contents |-> [copy[c] EXCEPT ![d] = Started(@)]]
    /\ UNCHANGED <<other, ref, plan, rep, item, co, ret, left>>

CreationFails(d) ==
    /\ ds[d].ens = "running" /\ Spend("faults")
    /\ ds' = [ds EXCEPT ![d].ens = "failed"]
    /\ UNCHANGED <<copy, other, ref, plan, rep, item, co, ret>>

(***************************************************************************)
(* Copy transfer.  Only the plan of a transfer looks at the data set; the  *)
(* store, the pull and the registration it starts do not.                  *)
(***************************************************************************)
Moves(c, d, row) ==
    /\ copy' = [copy EXCEPT ![c][d] = row]
    /\ UNCHANGED <<ds, other, ref, plan, rep, item, co, ret, left>>

Working(c, d, st) == copy[c][d].st = st /\ copy[c][d].w = "work"

PlanTransfer(c, d) ==
    /\ copy[c][d].st = "pending" /\ copy[c][d].w = "plan" /\ Usable(d)
    /\ \/ /\ ~Live(c) /\ Moves(c, d, [copy[c][d] EXCEPT !.w = "none"])
       \/ /\ Live(c)
          /\ copy[c][d].m = "ingress" \/ HasReadable(c) \/ PendingMigration(c, d)
          /\ Moves(c, d, [copy[c][d] EXCEPT !.w = "work"])

\* Stored from the cache: the ingress copy, or a migration without a source.
StorePiece(c, d) ==
    /\ Working(c, d, "pending")
    /\ copy[c][d].m = "ingress" \/ (PendingMigration(c, d) /\ ~HasReadable(c))
    /\ Moves(c, d, [copy[c][d] EXCEPT !.st = "ready"])

\* The reservation of a pull is the first signature.
ReservePull(c, d) ==
    /\ Working(c, d, "pending") /\ copy[c][d].m = "peer" /\ HasReadable(c)
    /\ Moves(c, d, [copy[c][d] EXCEPT !.st = "pulling"])

PullDone(c, d) ==
    /\ Working(c, d, "pulling")
    /\ Moves(c, d, [copy[c][d] EXCEPT !.st = "ready"])

SealMember(c, d) ==
    /\ Working(c, d, "ready")
    /\ Moves(c, d, [copy[c][d] EXCEPT !.st = "sealed"])

\* The registration lands; the first ingress copy reopens the failed ones.
CommitCopy(c, d) ==
    /\ Working(c, d, "sealed")
    /\ copy' = [copy EXCEPT ![c] =
                 [(IF copy[c][d].m = "ingress" THEN Reopened(c) ELSE copy[c])
                    EXCEPT ![d].st = "committed", ![d].w = "none"]]
    /\ UNCHANGED <<ds, other, ref, plan, rep, item, co, ret, left>>

\* An unsigned copy or a pull with a known outcome fails; a failed ingress
\* copy is reopened when the content is readable, or the other slot takes over.
TransferFails(c, d) ==
    /\ copy[c][d].st \in {"pending", "pulling"} /\ copy[c][d].w = "work" /\ Spend("faults")
    /\ LET failed == [copy EXCEPT ![c][d] = Failed(@)]
       IN  IF copy[c][d].m = "ingress"
           THEN IF HasReadable(c)
                THEN /\ copy' = [copy EXCEPT ![c][d] = [st |-> "pending", m |-> "peer", w |-> "plan"]]
                     /\ UNCHANGED other
                ELSE /\ copy' = failed
                     /\ other' = [other EXCEPT ![c] = IF @ = "peer" THEN "ingress" ELSE @]
           ELSE copy' = failed /\ UNCHANGED other
    /\ UNCHANGED <<ds, ref, plan, rep, item, co, ret>>

\* The task of a signed request stops; the copy stays a member of it.
RegistrationStops(c, d) ==
    /\ Working(c, d, "sealed") /\ Spend("faults")
    /\ copy' = [copy EXCEPT ![c][d].w = "failed"]
    /\ UNCHANGED <<ds, other, ref, plan, rep, item, co, ret>>

\* The second slot's copy: the ingress, or a pull of what is readable.
OtherCommits(c) ==
    /\ \/ other[c] = "ingress" /\ copy' = [copy EXCEPT ![c] = Reopened(c)]
       \/ other[c] = "peer" /\ HasReadable(c) /\ UNCHANGED copy
    /\ other' = [other EXCEPT ![c] = "committed"]
    /\ UNCHANGED <<ds, ref, plan, rep, item, co, ret, left>>

(***************************************************************************)
(* The operator confirms a replacement of the current data set.            *)
(***************************************************************************)
Outgoing(s) == {t \in Gens : rep[t].src = s /\ rep[t].st \notin {"none", "completed", "superseded"}}

NextGen == Cardinality({d \in Gens : ds[d] # NoSet}) + 1

\* failedInitializationOwner: creation stopped for good, nothing was sent.
FailedInitialization(d) == ds[d].st \notin {"ready", "retired"} /\ ds[d].ens = "failed"

EarlierTargets(s) == {t \in Outgoing(s) : ds[t].st \notin {"retired", "ready"}}

\* replacementSourceEligibility with replaceableEarlierTargets.
Eligible(s) ==
    /\ ds[s].cur
    /\ rep[s].st \in {"none", "completed", "superseded"}
    /\ \A t \in EarlierTargets(s) : FailedInitialization(t)
    /\ IF ds[s].st = "ready"
       THEN \A t \in Outgoing(s) \ EarlierTargets(s) : rep[t].st = "failed"
       ELSE /\ \A t \in Outgoing(s) : ds[t].st # "ready"
            /\ IF Outgoing(s) = {} THEN FailedInitialization(s) ELSE EarlierTargets(s) # {}

\* The earlier targets end without having been created, the earlier rows
\* step down and get a coordinator task that only cleans up.
Authorize(s) ==
    LET t == NextGen IN
    /\ t <= MaxGen /\ Eligible(s) /\ Spend("confirms")
    /\ ds' = [d \in Gens |->
                CASE d = t -> [st |-> "pending", cur |-> FALSE, id |-> FALSE, ens |-> "none"]
                  [] d = s -> [ds[d] EXCEPT !.ens = IF ds[s].st = "ready" THEN @ ELSE "none"]
                  [] d \in EarlierTargets(s) -> [ds[d] EXCEPT !.st = "retired", !.ens = "none"]
                  [] OTHER -> ds[d]]
    /\ rep' = [u \in Gens |->
                CASE u = t -> [NoRep EXCEPT !.st = "preparing", !.src = s, !.task = "live"]
                  [] u \in Outgoing(s) -> [rep[u] EXCEPT !.st = "superseded", !.task = "live"]
                  [] OTHER -> rep[u]]
    /\ co' = [u \in Gens |-> IF u \in Outgoing(s) THEN [co[u] EXCEPT !.own = FALSE] ELSE co[u]]
    /\ UNCHANGED <<copy, other, ref, plan, item, ret>>

\* Retry of the failed coordinator task (ResumeCoordinatorTask): the phase is
\* derived from the target, and a failed creation of it is retried too.
Resume(t) ==
    /\ rep[t].st = "failed" /\ rep[t].task = "failed" /\ Spend("resumes")
    /\ ds[t].st # "retired" /\ (ds[rep[t].src].cur \/ ds[t].cur)
    /\ rep' = [rep EXCEPT ![t].task = "live",
                          ![t].st = IF CurrentReady(t) THEN "migrating" ELSE "preparing"]
    /\ item' = [item EXCEPT ![t] = [c \in Contents |->
                 [st |-> IF @[c].st = "attention" THEN "pending" ELSE @[c].st, tries |-> 0]]]
    /\ ds' = [ds EXCEPT ![t].ens = IF @ = "failed" THEN "running" ELSE @]
    /\ UNCHANGED <<copy, other, ref, plan, co, ret>>

(***************************************************************************)
(* The coordinator.  One invocation reads its row, then the data sets and  *)
(* what is left to do, and settles in a transaction; the release of copies *)
(* of the old data set is a transaction of its own in the middle.          *)
(***************************************************************************)
Src(t) == rep[t].src

Goes(t, pc) == co' = [co EXCEPT ![t].pc = pc]

Ends(t) == co' = [co EXCEPT ![t] = Idle]

Uncreated(t) ==
    {<<c, d>> \in Contents \X Gens :
        /\ d < t /\ LocallyEnded(d) /\ ~ds[d].cur
        /\ d = Src(t) \/ (rep[d].src = Src(t) /\ rep[d].st = "superseded")
        /\ copy[c][d].st # "none"
        /\ copy[c][d].st # "failed" \/ copy[c][d].w # "none"}

HandOvers(t) == {c \in Contents : UnsignedWrite(c, Src(t))}

Outstanding(t) == {c \in Contents : item[t][c].st = "pending"}

SourceWrites(t) == {c \in Contents : InFlight(c, Src(t))}

\* What is left once the copies of the old data set were looked at.
Rest(t) ==
    CASE ~Usable(t) -> IF ds[t].ens = "none" THEN "ensure" ELSE "wait"
      [] Usable(t) /\ ~ds[t].cur -> "activate"
      [] CurrentReady(t) ->
            IF ~co[t].seeded THEN "seed"
            ELSE IF Outstanding(t) # {} THEN "items"
            ELSE IF \E c \in Contents : item[t][c].st = "attention" THEN "fail"
            ELSE IF LocallyEnded(Src(t)) THEN "complete"
            ELSE IF SourceWrites(t) # {} THEN "writes"
            ELSE "retire"

\* The stopped creation of the target is not looked at: the coordinator polls
\* a target that never comes.
FailedCreationOverlooked(t) ==
    LET s == Src(t) IN
    IF co[t].saw = "superseded" THEN "retire"
    ELSE IF ds[t].st = "retired" \/ (~ds[s].cur /\ ~ds[t].cur) THEN "fail"
    ELSE IF CurrentReady(t) /\ LocallyEnded(s) THEN "abandon"
    ELSE IF CurrentReady(t) /\ ds[s].id /\ ds[s].st = "draining" /\ HandOvers(t) # {} THEN "handover"
    ELSE Rest(t)

Decision(t) ==
    LET s == Src(t) IN
    IF co[t].saw = "superseded" THEN "retire"
    ELSE IF ds[t].st = "retired" \/ (~ds[s].cur /\ ~ds[t].cur) THEN "fail"
    ELSE IF ~Usable(t) /\ ds[t].ens = "failed" THEN "initialization"
    ELSE IF CurrentReady(t) /\ LocallyEnded(s) THEN "abandon"
    ELSE IF CurrentReady(t) /\ ds[s].id /\ ds[s].st = "draining" /\ HandOvers(t) # {} THEN "handover"
    ELSE Rest(t)

CoAuthorize(t) ==
    /\ co[t].pc = "idle" /\ rep[t].task = "live"
    /\ co' = [co EXCEPT ![t] = [pc |-> "run", saw |-> rep[t].st, seeded |-> rep[t].seeded,
                                own |-> TRUE, sel |-> {}]]
    /\ UNCHANGED <<ds, copy, other, ref, plan, rep, item, ret, left>>

CoRun(t) ==
    /\ co[t].pc = "run" /\ Goes(t, Decision(t))
    /\ UNCHANGED <<ds, copy, other, ref, plan, rep, item, ret, left>>

\* A settlement whose fence does not hold rolls back; the task runs again.
Fenced(t) == co[t].own /\ rep[t].task = "live"

AtSettlement(t, pc) == co[t].pc = pc

MayProgress(t) == Fenced(t) /\ rep[t].st \in {"waiting", "migrating"} /\ CurrentReady(t)

MayRelease(t) == Fenced(t) /\ rep[t].st \in Open /\ CurrentReady(t)

Admitted(t) ==
    CASE co[t].pc = "initialization" ->
            /\ Fenced(t) /\ rep[t].st \in Open /\ ds[Src(t)].cur
            /\ ds[t].st # "ready" /\ ds[t].ens = "failed"
      [] co[t].pc \in {"fail", "wait", "ensure"} -> rep[t].st \in Open
      [] co[t].pc = "activate" ->
            /\ Fenced(t) /\ rep[t].st \in {"preparing", "waiting"}
            /\ ds[Src(t)].cur /\ ~ds[t].cur /\ Usable(t)
            /\ ds[Src(t)].id \/ ds[Src(t)].ens = "none"
      [] co[t].pc \in {"seed", "items"} -> MayProgress(t)
      [] co[t].pc \in {"abandon", "handover", "release"} -> MayRelease(t)
      [] co[t].pc = "writes" -> Fenced(t) /\ rep[t].st \notin {"completed", "superseded"}
      [] co[t].pc \in {"retire", "complete"} -> Fenced(t)
      [] OTHER -> FALSE

Refused(t) ==
    /\ co[t].pc \notin {"idle", "run", "rest"} /\ ~Admitted(t)
    /\ Ends(t)
    /\ UNCHANGED <<ds, copy, other, ref, plan, rep, item, ret, left>>

Settles(t, pc) == co[t].pc = pc /\ Admitted(t) /\ Ends(t)

RowTo(t, st) == rep' = [rep EXCEPT ![t].st = st]

FailReplacement(t) ==
    /\ \E pc \in {"fail", "initialization"} : Settles(t, pc)
    /\ rep' = [rep EXCEPT ![t].st = "failed", ![t].task = "failed"]
    /\ UNCHANGED <<ds, copy, other, ref, plan, item, ret, left>>

\* OnEngineFailure: the engine gave up on the coordinator's claim.
EngineFails(t) ==
    /\ rep[t].task = "live" /\ co[t].pc = "run" /\ Spend("faults")
    /\ rep' = [rep EXCEPT ![t].st = IF @ \in Open THEN "failed" ELSE @, ![t].task = "failed"]
    /\ Ends(t)
    /\ UNCHANGED <<ds, copy, other, ref, plan, item, ret>>

\* MarkWaiting, with the creation of the target enqueued where nobody did.
AwaitTarget(t) ==
    /\ \E pc \in {"wait", "ensure"} :
        /\ Settles(t, pc)
        /\ ds' = [ds EXCEPT ![t].ens = IF pc = "ensure" /\ @ = "none" THEN "running" ELSE @]
    /\ RowTo(t, "waiting")
    /\ UNCHANGED <<copy, other, ref, plan, item, ret, left>>

Activate(t) ==
    /\ Settles(t, "activate")
    /\ ds' = [ds EXCEPT ![t].cur = TRUE, ![Src(t)].cur = FALSE,
                        ![Src(t)].st = IF ds[Src(t)].id THEN "draining" ELSE "retired"]
    /\ RowTo(t, "migrating")
    /\ UNCHANGED <<copy, other, ref, plan, item, ret, left>>

\* The first rows of a batch, by content id.
Batch(S) == {c \in S : Cardinality({b \in S : b < c}) < SeedLimit}

\* HandOverSourceWritesBatch selects, then locks the contents.
SelectHandOvers(t) ==
    /\ co[t].pc = "handover" /\ Admitted(t)
    /\ co' = [co EXCEPT ![t].pc = "release", ![t].sel = Batch(HandOvers(t))]
    /\ UNCHANGED <<ds, copy, other, ref, plan, rep, item, ret, left>>

\* Under the content's lock a copy signed in the meantime is left alone.
HandedOverAsSelected(c, s) == TRUE

StillUnsigned(c, s) == UnsignedWrite(c, s)

\* releaseReplacedCopy for each, the item, and the target's transfer.
HandOverSourceWrites(t) ==
    LET s     == Src(t)
        moved == {c \in co[t].sel : StillUnsigned(c, s)}
        owed  == {c \in moved : Live(c)}
    IN  /\ co[t].pc = "release" /\ Admitted(t)
        /\ copy' = [c \in Contents |->
                     [copy[c] EXCEPT ![s] = IF c \in moved THEN Failed(@) ELSE @,
                                     ![t] = IF c \in owed THEN Started(WithCopy(@, "peer")) ELSE @]]
        /\ item' = [item EXCEPT ![t] = [c \in Contents |->
                     IF c \in owed /\ @[c].st = "none" THEN [NoItem EXCEPT !.st = "pending"] ELSE @[c]]]
        /\ IF Cardinality(co[t].sel) < SeedLimit
           THEN co' = [co EXCEPT ![t].pc = "rest", ![t].sel = {}]
           ELSE Ends(t)
        /\ UNCHANGED <<ds, other, ref, plan, rep, ret, left>>

\* AbandonUncreatedCopiesBatch: copies of data sets that never came to be.
AbandonUncreatedCopies(t) ==
    LET batch == {p \in Uncreated(t) : Cardinality({q \in Uncreated(t) : q[1] < p[1]}) < SeedLimit}
    IN  /\ co[t].pc = "abandon" /\ Admitted(t)
        /\ copy' = [c \in Contents |-> [d \in Gens |->
                     IF <<c, d>> \in batch THEN Failed(copy[c][d])
                     ELSE IF d = t /\ Live(c) /\ \E p \in batch : p[1] = c
                     THEN WithCopy(copy[c][d], "peer")
                     ELSE copy[c][d]]]
        /\ IF Cardinality(batch) < SeedLimit THEN Goes(t, "rest") ELSE Ends(t)
        /\ UNCHANGED <<ds, other, ref, plan, rep, item, ret, left>>

CoRest(t) ==
    /\ co[t].pc = "rest" /\ Goes(t, Rest(t))
    /\ UNCHANGED <<ds, copy, other, ref, plan, rep, item, ret, left>>

\* SeedMigrationBatch: the next contents by id; those still named by a
\* version get a copy on the target and an item.
Candidates(t) == Batch({c \in Contents : ref[c] # "none" /\ c > rep[t].cursor})

SeedingDoneEarly(t) == Cardinality(Candidates(t)) <= SeedLimit

SeedingDone(t) == Cardinality(Candidates(t)) < SeedLimit

SeedMigration(t) ==
    LET scanned == Candidates(t)
        owed    == {c \in scanned : Live(c)}
    IN  /\ Settles(t, "seed")
        /\ copy' = [c \in Contents |->
                     [copy[c] EXCEPT ![t] = IF c \in owed THEN WithCopy(@, "peer") ELSE @]]
        /\ item' = [item EXCEPT ![t] = [c \in Contents |->
                     IF c \in owed /\ @[c].st = "none" THEN [NoItem EXCEPT !.st = "pending"] ELSE @[c]]]
        /\ rep' = [rep EXCEPT ![t].cursor = IF scanned = {} THEN @ ELSE Max(scanned),
                              ![t].seeded = SeedingDone(t)]
        /\ UNCHANGED <<ds, other, ref, plan, ret, left>>

\* A transfer that failed, or a registration whose task stopped.
CopyStopped(c, t) == (copy[c][t].st = "failed" /\ copy[c][t].w = "none") \/ copy[c][t].w = "failed"

\* One item: cancelled with its content, copied with its copy, or its copy's
\* transfer is started, retried within the budget, or needs attention.
ItemAfter(c, t) ==
    LET row == item[t][c] IN
    IF row.st # "pending" THEN row
    ELSE IF ~Live(c) THEN [row EXCEPT !.st = "cancelled"]
    ELSE IF copy[c][t].st = "committed" THEN [row EXCEPT !.st = "copied"]
    ELSE IF ~CopyStopped(c, t) THEN row
    ELSE IF row.tries < Retries THEN [row EXCEPT !.tries = @ + 1]
    ELSE [row EXCEPT !.st = "attention"]

CopyAfter(c, t) ==
    LET row == WithCopy(copy[c][t], "peer") IN
    IF item[t][c].st # "pending" \/ ~Live(c) THEN copy[c][t]
    ELSE IF ~CopyStopped(c, t) THEN Started(row)
    ELSE IF item[t][c].tries = Retries THEN row
    ELSE IF row.st = "failed" THEN [row EXCEPT !.st = "pending", !.w = "plan"]
    ELSE [row EXCEPT !.w = "work"]

CoordinateItems(t) ==
    /\ Settles(t, "items")
    /\ item' = [item EXCEPT ![t] = [c \in Contents |-> ItemAfter(c, t)]]
    /\ copy' = [c \in Contents |-> [copy[c] EXCEPT ![t] = CopyAfter(c, t)]]
    /\ UNCHANGED <<ds, other, ref, plan, rep, ret, left>>

\* waitForSourceWrites: stopped registrations are retried within the budget;
\* when nothing else is left the replacement fails.
StoppedWrites(t) == {c \in SourceWrites(t) : copy[c][Src(t)].w = "failed"}

RetryableWrites(t) == {c \in StoppedWrites(t) : item[t][c].tries < Retries}

WaitForSourceWrites(t) ==
    /\ Settles(t, "writes")
    /\ IF SourceWrites(t) # {} /\ StoppedWrites(t) = SourceWrites(t) /\ RetryableWrites(t) = {}
       THEN /\ rep' = [rep EXCEPT ![t].st = "failed", ![t].task = "failed"]
            /\ UNCHANGED <<copy, item>>
       ELSE /\ copy' = [c \in Contents |->
                  [copy[c] EXCEPT ![Src(t)].w = IF c \in RetryableWrites(t) THEN "work" ELSE @]]
            /\ item' = [item EXCEPT ![t] = [c \in Contents |->
                  IF c \in RetryableWrites(t) THEN [@[c] EXCEPT !.tries = @ + 1] ELSE @[c]]]
            /\ UNCHANGED rep
    /\ UNCHANGED <<ds, other, ref, plan, ret, left>>

\* scheduleReplacementRetirement: of the source, or of an abandoned target;
\* the coordinator's task completes.
Retiree(t) == IF rep[t].st = "superseded" THEN t ELSE Src(t)

ScheduleRetirement(t) ==
    /\ Settles(t, "retire")
    /\ rep' = [rep EXCEPT ![t].task = "none",
                          ![t].st = IF @ \in {"migrating", "waiting"} /\ ds[Retiree(t)].st # "retired"
                                    THEN "retiring" ELSE @]
    /\ ret' = [ret EXCEPT ![t] = IF ds[Retiree(t)].st = "retired" THEN @ ELSE "gate"]
    /\ UNCHANGED <<ds, copy, other, ref, plan, item, left>>

(***************************************************************************)
(* The retirement gate, and the end of the old data set's service.         *)
(***************************************************************************)
\* G1: what the source holds and a version still names is on the target.
CoverageGaps(t) == {c \in Contents : copy[c][Src(t)].st = "committed" /\ Live(c) /\ ~Readable(c, t)}

Gate(t) ==
    /\ CoverageGaps(t) = {}
    /\ SourceWrites(t) = {}
    /\ \A c \in Contents : item[t][c].st \notin {"pending", "attention"}
    /\ ~ds[Src(t)].cur /\ ds[t].cur /\ ds[t].st = "ready"

\* CompleteWithoutRemoteSource: nothing is left on a source that never was,
\* and the target covers every content the seeding scanned.
LocalGate(t) ==
    /\ LocallyEnded(Src(t)) /\ rep[t].st = "migrating" /\ rep[t].seeded /\ CurrentReady(t)
    /\ Uncreated(t) = {} /\ Gate(t)
    /\ \A c \in Contents : c <= rep[t].cursor /\ Live(c) => Readable(c, t)

\* A premature completion rolls back.
CompleteLocal(t) ==
    /\ Settles(t, "complete")
    /\ rep' = IF LocalGate(t) THEN [rep EXCEPT ![t].st = "completed", ![t].task = "none"] ELSE rep
    /\ UNCHANGED <<ds, copy, other, ref, plan, item, ret, left>>

\* CountAbandonedTargetSoleCopies: what only the abandoned target holds.
SoleCopies(t) ==
    {c \in Contents : /\ Live(c) /\ copy[c][t].st = "committed"
                      /\ other[c] # "committed" /\ \A d \in Gens \ {t} : ~Readable(c, d)}

\* Before a termination is sent the gate is evaluated outside a transaction.
EvaluateGate(t) ==
    /\ ret[t] = "gate"
    /\ IF rep[t].st = "superseded" THEN SoleCopies(t) = {} ELSE Gate(t)
    /\ ret' = [ret EXCEPT ![t] = "passed"]
    /\ UNCHANGED <<ds, copy, other, ref, plan, rep, item, co, left>>

\* The termination (DataSetRetire) is sent and its end epoch is reached.
Terminate(t) ==
    /\ ret[t] = "passed"
    /\ ret' = [ret EXCEPT ![t] = "ended"]
    /\ UNCHANGED <<ds, copy, other, ref, plan, rep, item, co, left>>

\* CompleteRetirement runs the gate again in its transaction;
\* CompleteAbandonedTargetTermination checks the abandoned target.
CompleteRetirement(t) ==
    /\ ret[t] = "ended"
    /\ \/ /\ rep[t].st = "retiring" /\ Gate(t)
          /\ ds' = [ds EXCEPT ![Src(t)].st = "retired"]
          /\ RowTo(t, "completed")
       \/ /\ rep[t].st = "superseded" /\ ~ds[t].cur
          /\ SoleCopies(t) = {}
          /\ ds' = [ds EXCEPT ![t].st = "retired"]
          /\ UNCHANGED rep
    /\ ret' = [ret EXCEPT ![t] = "done"]
    /\ UNCHANGED <<copy, other, ref, plan, item, co, left>>

(***************************************************************************)
(* The specification.                                                      *)
(***************************************************************************)
CoordinatorStep(t) ==
    \/ CoAuthorize(t) \/ CoRun(t) \/ CoRest(t) \/ Refused(t) \/ FailReplacement(t) \/ AwaitTarget(t)
    \/ Activate(t) \/ SelectHandOvers(t) \/ HandOverSourceWrites(t)
    \/ AbandonUncreatedCopies(t) \/ SeedMigration(t) \/ CoordinateItems(t) \/ WaitForSourceWrites(t)
    \/ ScheduleRetirement(t) \/ CompleteLocal(t)

RetirementStep(t) == EvaluateGate(t) \/ Terminate(t) \/ CompleteRetirement(t)

TransferStep(c, d) ==
    \/ PlanTransfer(c, d) \/ StorePiece(c, d) \/ ReservePull(c, d) \/ PullDone(c, d)
    \/ SealMember(c, d) \/ CommitCopy(c, d)

PlanStep(c) == SelectBinding(c) \/ PlanNotRequired(c) \/ BindCopies(c) \/ BindingRefused(c)

Next ==
    \/ \E c \in Contents : Write(c) \/ Delete(c) \/ PlanStep(c) \/ OtherCommits(c)
    \/ \E c \in Contents, d \in Gens :
        TransferStep(c, d) \/ TransferFails(c, d) \/ RegistrationStops(c, d)
    \/ \E d \in Gens : DataSetReady(d) \/ CreationFails(d) \/ Authorize(d) \/ Resume(d) \/ EngineFails(d)
    \/ \E t \in Gens : CoordinatorStep(t) \/ RetirementStep(t)

Spec == Init /\ [][Next]_vars

\* Plans are polled, and so is every replacement; transfers, a creation that does
\* not fail, and the second slot's copies are provider work that goes on.
ProviderWork ==
    \/ \E c \in Contents : OtherCommits(c) \/ \E d \in Gens : TransferStep(c, d)
    \/ \E d \in Gens : DataSetReady(d)
Fairness ==
    /\ WF_vars(\E c \in Contents : PlanStep(c)) /\ WF_vars(ProviderWork)
    /\ \A t \in Gens : WF_vars(CoordinatorStep(t) \/ RetirementStep(t))

FairSpec == Spec /\ Fairness

(***************************************************************************)
(* Properties.                                                             *)
(***************************************************************************)
Ended(d) == \E t \in Gens : ret[t] \in {"ended", "done"} /\ d = Retiree(t)

\* Activate moves the slot in one transaction: whatever is confirmed, retried
\* or superseded, exactly one generation takes the slot's writes.
SlotOwned == Cardinality({d \in Gens : ds[d].cur}) = 1

\* "Can this source stop existing without losing anything?"
\* (evaluateRetirementGate): content a version still names, and that a data
\* set held when its service ended, is readable on a generation whose service
\* goes on.
NothingLost ==
    \A d \in Gens : Ended(d) =>
        \A c \in Contents : Live(c) /\ copy[c][d].st = "committed" =>
            \E e \in Gens : ~Ended(e) /\ Readable(c, e)

\* The slot's obligation follows the slot (slotObligation, seeding, hand-over):
\* live content whose upload was planned has a copy on the generation that
\* owns the slot, or the seeding of that generation still has to reach it.
SlotKept ==
    \A c \in Contents, d \in Gens : Live(c) /\ plan[c].st = "done" /\ ds[d].cur =>
        \/ copy[c][d].st # "none"
        \/ rep[d].st \in Open \cup {"failed"} /\ ~rep[d].seeded /\ c > rep[d].cursor

\* The slot through every replacement: one owner, no content lost with a data
\* set whose service ends, and no planned content forgotten by the next owner.
ReplacementInv == TypeOK /\ SlotOwned /\ NothingLost /\ SlotKept

\* A write the old provider holds a signature for is not handed over
\* (HandOverSourceWritesBatch checks again under the content's lock), and a
\* copy is only created on the generation that owns the slot.
WritesFenced ==
    [][/\ \A t \in Gens : co[t].pc = "release" /\ co'[t].pc # "release" =>
            \A c \in Contents : Signed(c, Src(t)) => copy'[c][Src(t)] = copy[c][Src(t)]
       /\ \A c \in Contents, d \in Gens :
            copy[c][d].st = "none" /\ copy'[c][d].st # "none" => ds[d].cur]_vars

Blocked(t) == \E c \in Contents : UnsignedWrite(c, Src(t))

\* A replacement ends: it completes, fails where the operator sees it, or is
\* superseded and its target is gone.  The exception is a retirement whose
\* source got an unsigned write back after the coordinator ended (see
\* UnsignedHandedOver).
Settled ==
    \A t \in Gens :
       \/ rep[t].st \in {"none", "completed", "failed"} \/ rep[t].task = "failed"
       \/ rep[t].st = "superseded" /\ ds[t].st = "retired"
       \/ rep[t].st = "retiring" /\ Blocked(t)
ReplacementsEnd == []<>Settled

\* "Once unsigned writes are handed over, only writes the old provider holds a
\* signed authorization for are left" (task/replacement/handler.go:629).
UnsignedHandedOver ==
    \A t \in Gens : rep[t].st = "retiring" => ~Blocked(t)
=============================================================================
