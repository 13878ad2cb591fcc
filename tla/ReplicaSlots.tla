----------------------------- MODULE ReplicaSlots -----------------------------
(***************************************************************************)
(* The replica slots of a bucket and who fills them.                       *)
(*                                                                         *)
(* A bucket keeps one current data set generation per slot, each with a    *)
(* provider of its own, at least one of them from the required tier.       *)
(* Three kinds of work choose providers at once: the provisioning task of  *)
(* each replica target, the plan of an upload, and an operator's           *)
(* confirmation of a replacement.  Each reads the ledger, talks to the     *)
(* outside and later settles under the bucket's lock.                      *)
(***************************************************************************)
EXTENDS Integers, Sequences, FiniteSets, FiniteSetsExt

CONSTANTS
    Providers,  \* observed storage providers, numbered by their rank
    MaxCopies,  \* largest replica target
    Confirms,   \* confirmations of replacements, numbered
    Bounds      \* instances: the tier and budgets of confirmations, uploads, failures, flaps, data sets found, planners that stop

VARIABLES
    copies,    \* the bucket's replica target
    status,    \* "provisioning" or "ready"
    gens,      \* data set generations, in the order of their creation
    reps,      \* replacements, in the order of their confirmation
    plan,      \* planner -> what its run decided
    conf,      \* confirmation -> what it resolved
    prov,      \* provider -> "ok", "down" or "untested"
    left       \* the providers of the required tier and what is left of the budgets

vars == <<copies, status, gens, reps, plan, conf, prov, left>>

(***************************************************************************)
(* Planners: the provisioning tasks are named by their target; Upload is   *)
(* the plan of an accepted object.                                         *)
(***************************************************************************)
Slots == 0..(MaxCopies - 1)
Upload == 0
Planners == (1..MaxCopies) \cup {Upload}

Trusted == left.tier

NoConfirm == [pc |-> "none", src |-> 0, p |-> 0, auto |-> TRUE, req |-> 0, seen |-> <<>>]
NoPlan == [pc |-> "none", need |-> 0, at |-> <<>>, fresh |-> {}, found |-> {}]

Gens == 1..Len(gens)
Reps == 1..Len(reps)

Current(s) == {g \in Gens : gens[g].cur /\ gens[g].slot = s}
HasDataSet(g) == gens[g].st \in {"ready", "draining"}
Unretired(p) == {g \in Gens : gens[g].p = p /\ gens[g].st # "retired"}

OpenRep(r) == reps[r].st \in {"open", "failed"}
Outgoing(g) == {r \in Reps : OpenRep(r) /\ reps[r].src = g}
Incoming(g) == {r \in Reps : OpenRep(r) /\ reps[r].tgt = g}

\* A replaced generation without a data set is never created any more.
CreationStopped(g) ==
    \/ gens[g].st = "retired"
    \/ ~HasDataSet(g) /\ \E r \in Reps : reps[r].src = g

TypeOK ==
    /\ copies \in 1..MaxCopies /\ status \in {"provisioning", "ready"}
    /\ gens \in Seq([p : Providers, slot : Slots, cur : BOOLEAN,
                     st : {"pending", "ready", "draining", "retired"}, own : {"none", "running", "failed"}])
    /\ reps \in Seq([src : Gens, tgt : Gens, req : Confirms, st : {"open", "failed", "done", "superseded"}])
    /\ \A t \in Planners : plan[t].pc \in {"none", "run", "planned", "promote", "failed", "done"}
    /\ \A c \in Confirms : conf[c].pc \in {"none", "resolved", "over"}
    /\ prov \in [Providers -> {"ok", "down", "untested"}]

Init ==
    /\ copies = 1 /\ status = "provisioning"
    /\ gens = <<>> /\ reps = <<>>
    /\ plan = [t \in Planners |-> IF t = 1 THEN [NoPlan EXCEPT !.pc = "run"] ELSE NoPlan]
    /\ conf = [c \in Confirms |-> NoConfirm]
    /\ left \in Bounds
    /\ \E new \in {{}, {Max(Trusted)}} :
        prov = [p \in Providers |-> IF p \in new THEN "untested" ELSE "ok"]

(***************************************************************************)
(* Selection.                                                              *)
(***************************************************************************)
\* The trusted replicas that no open replacement touches.
HasTrusted(source) ==
    \E g \in Gens : /\ gens[g].cur /\ g # source /\ gens[g].p \in Trusted
                    /\ Outgoing(g) = {} /\ Incoming(g) = {}

Satisfied(remaining, targets) == remaining \/ targets \cap Trusted # {}

\* Every unretired generation reserves its provider.
InUse == {p \in Providers : Unretired(p) # {}}

\* A healthy provider whose speed test is pending holds up the selection.
SpeedPending(excluded) == \E p \in Providers \ excluded : prov[p] = "untested"

Eligible(excluded) == {p \in Providers \ excluded : prov[p] = "ok"}

\* One candidate a slot, the best first; the first of them is trusted when
\* the remaining set needs one.
Choose(S, excluded, trusted, s, f) ==
    LET pool == Eligible(excluded) \ {f[x] : x \in {y \in S : y < s}}
    IN  IF ~trusted /\ s = Min(S) THEN pool \cap Trusted ELSE pool

Select(S, excluded, trusted) ==
    {f \in [S -> Eligible(excluded)] :
        /\ ~SpeedPending(excluded)
        /\ \A s \in S : LET pool == Choose(S, excluded, trusted, s, f) IN pool # {} /\ f[s] = Min(pool)}

(***************************************************************************)
(* A run of a planner: it decides on what it reads.                        *)
(***************************************************************************)
InScope(need) == {g \in Gens : gens[g].cur /\ gens[g].slot < need}
Kept(need) == {g \in InScope(need) : gens[g].st \in {"ready", "pending"} /\ ~CreationStopped(g)}

\* The lowest open slots without a current generation, as many as are missing.
Missing(need) ==
    LET n == need - Cardinality(Kept(need))
        free == {s \in 0..(copies - 1) : Current(s) = {}}
    IN  {s \in free : Cardinality({x \in free : x < s}) < n}

SelectBucketBindings(t, need) ==
    /\ Cardinality(Kept(need)) + Cardinality(Missing(need)) = need
    /\ \E f \in Select(Missing(need), InUse, HasTrusted(0)) :
        LET kept == {gens[g].slot : g \in Kept(need)}
            at == [s \in kept \cup Missing(need) |->
                    IF s \in kept THEN gens[CHOOSE g \in Current(s) : TRUE].p ELSE f[s]]
            ready == {gens[g].slot : g \in {h \in Kept(need) : gens[h].st = "ready"}}
        IN  \E found \in SUBSET (DOMAIN at \ ready) :
                /\ Cardinality(found) <= left.found
                /\ left' = [left EXCEPT !.found = @ - Cardinality(found)]
                /\ plan' = [plan EXCEPT ![t] = [pc |-> "planned", need |-> need, at |-> at,
                                                fresh |-> Missing(need), found |-> found \cup ready]]

\* Provisioning: ready slots end it, slots under way are waited for, and so
\* are providers: the required tier has members (an empty one fails the task).
ProvisionRun(t) ==
    LET In == InScope(copies)
        ready == {g \in In : gens[g].st = "ready"}
        bound == \A g \in In : gens[g].st = "pending" /\ gens[g].own = "none" => CreationStopped(g)
    IN  /\ t # Upload /\ plan[t].pc = "run"
        /\ IF Cardinality(ready) >= copies
           THEN /\ plan' = [plan EXCEPT ![t] = [NoPlan EXCEPT !.pc = "promote", !.need = copies]]
                /\ UNCHANGED left
           ELSE /\ ~(Cardinality(In) = copies /\ bound)
                /\ SelectBucketBindings(t, copies)
        /\ UNCHANGED <<copies, status, gens, reps, conf, prov>>

UploadPlanRun ==
    /\ plan[Upload].pc = "run"
    /\ SelectBucketBindings(Upload, plan[Upload].need)
    /\ UNCHANGED <<copies, status, gens, reps, conf, prov>>

(***************************************************************************)
(* Readiness of the bucket.                                                *)
(***************************************************************************)
ReadySlots(G, need) == {s \in 0..(need - 1) : \E g \in 1..Len(G) : G[g].cur /\ G[g].slot = s /\ G[g].st = "ready"}

PromoteReadyIfProvisioned(G, need) ==
    status' = IF Cardinality(ReadySlots(G, need)) = need THEN "ready" ELSE status

(***************************************************************************)
(* Settlement, under the bucket's lock.                                    *)
(***************************************************************************)
\* ValidateSelection: the tier is looked at again when providers are new.
\* Mutant: what the run saw is trusted.
SelectionUnchecked(source, fresh) == TRUE

ValidateSelection(source, fresh) == fresh # {} => Satisfied(HasTrusted(source), fresh)

\* EnsureDataSetBinding: the provider's current generation of this slot, or
\* a new one where neither the provider nor the slot is taken.
Bindable(s, p) ==
    IF Unretired(p) # {} THEN \A g \in Unretired(p) : gens[g].cur /\ gens[g].slot = s
    ELSE Current(s) = {}

NewGen(p, s, cur, own) == [p |-> p, slot |-> s, cur |-> cur, st |-> "pending", own |-> own]

\* A found data set makes it ready; otherwise its creation is enqueued.
Bound(t) ==
    LET new == {s \in DOMAIN plan[t].at : Current(s) = {}}
        Rank(s) == Cardinality({x \in new : x <= s})
        added == [i \in 1..Cardinality(new) |->
                    LET s == CHOOSE x \in new : Rank(x) = i IN NewGen(plan[t].at[s], s, TRUE, "none")]
    IN  [g \in 1..(Len(gens) + Cardinality(new)) |->
            LET G == IF g \in Gens THEN gens[g] ELSE added[g - Len(gens)]
            IN  IF ~G.cur \/ G.slot \notin DOMAIN plan[t].at THEN G
                ELSE IF G.slot \in plan[t].found THEN [G EXCEPT !.st = "ready", !.own = "none"]
                ELSE IF G.st = "pending" /\ G.own = "none" /\ ~(g \in Gens /\ CreationStopped(g))
                     THEN [G EXCEPT !.own = "running"] ELSE G]

SettlePlan(t) ==
    LET P == plan[t]
        ok == /\ ValidateSelection(0, {P.at[s] : s \in P.fresh})
              /\ \A s \in DOMAIN P.at : Bindable(s, P.at[s])
        resolved == P.found = DOMAIN P.at
    IN  /\ P.pc = "planned"
        /\ IF ok
           THEN /\ gens' = Bound(t)
                /\ plan' = [plan EXCEPT ![t] = [NoPlan EXCEPT !.pc = IF t = Upload \/ resolved THEN "done" ELSE "run",
                                                              !.need = P.need]]
                /\ IF t = Upload THEN UNCHANGED status ELSE PromoteReadyIfProvisioned(gens', P.need)
           ELSE /\ plan' = [plan EXCEPT ![t] = [NoPlan EXCEPT !.pc = "run", !.need = P.need]]
                /\ UNCHANGED <<gens, status>>
        /\ UNCHANGED <<copies, reps, conf, prov, left>>

SettlePromotion(t) ==
    /\ plan[t].pc = "promote"
    /\ PromoteReadyIfProvisioned(gens, plan[t].need)
    /\ plan' = [plan EXCEPT ![t].pc = "done"]
    /\ UNCHANGED <<copies, gens, reps, conf, prov, left>>

(***************************************************************************)
(* Requests of clients and operators.                                      *)
(***************************************************************************)
\* The target only grows; its own provisioning task is enqueued with it.
UpdateCopyPolicy ==
    \E n \in (copies + 1)..MaxCopies :
        /\ copies' = n
        /\ plan' = [plan EXCEPT ![n].pc = "run"]
        /\ UNCHANGED <<status, gens, reps, conf, prov, left>>

\* Only a ready bucket takes objects.
PutObject ==
    /\ status = "ready" /\ plan[Upload].pc = "none" /\ left.writes > 0
    /\ plan' = [plan EXCEPT ![Upload].pc = "run", ![Upload].need = copies]
    /\ UNCHANGED <<copies, status, gens, reps, conf, prov, left>>

\* A generation whose creation failed before anything happened outside.
FailedInitialization(g) == gens[g].st = "pending" /\ gens[g].own = "failed"

\* replacementSourceEligibility and replaceableEarlierTargets.
SourceEligible(g) ==
    LET targets == {reps[r].tgt : r \in Outgoing(g)}
        early == {h \in targets : gens[h].st \notin {"ready", "retired"}}
    IN  /\ gens[g].cur /\ Incoming(g) = {}
        /\ \A h \in early : FailedInitialization(h)
        /\ IF gens[g].st = "ready"
           THEN \A r \in Outgoing(g) : gens[reps[r].tgt].st \in {"ready", "retired"} => reps[r].st = "failed"
           ELSE IF targets = {} THEN FailedInitialization(g)
           ELSE early # {} /\ \A h \in targets : gens[h].st # "ready"

\* What the preflight read of the source and of its earlier replacements.
Preflight(g) == <<gens[g], {<<r, reps[r], gens[reps[r].tgt]>> : r \in Outgoing(g)}>>

\* The replacement of a client's request, once it is confirmed.
GetByClientRequestID(q) == {r \in Reps : reps[r].req = q}

\* A request may be sent twice under one id.  An automatic choice also
\* leaves out the providers the bucket had before.
ResolveReplacementProvider(c) ==
    /\ c <= left.confirms /\ conf[c].pc = "none" /\ \A d \in Confirms : d < c => conf[d].pc # "none"
    /\ \E g \in Gens, p \in Providers, auto \in BOOLEAN, q \in 1..c :
        /\ GetByClientRequestID(q) = {} /\ SourceEligible(g)
        /\ IF auto THEN \E f \in Select({0}, {gens[h].p : h \in Gens}, HasTrusted(g)) : p = f[0]
           ELSE p \in Eligible(InUse) /\ Satisfied(HasTrusted(g), {p})
        /\ conf' = [conf EXCEPT ![c] = [pc |-> "resolved", src |-> g, p |-> p, auto |-> auto,
                                         req |-> q, seen |-> Preflight(g)]]
    /\ UNCHANGED <<copies, status, gens, reps, plan, prov, left>>

\* The confirmation: targets that never came to be end, earlier replacements
\* are superseded, and an unfinished source loses its creation.
MayAuthorize(c) ==
    LET C == conf[c] IN
    /\ GetByClientRequestID(C.req) = {}
    /\ ValidateSelection(C.src, {C.p})
    /\ C.seen = Preflight(C.src) /\ SourceEligible(C.src)
    /\ Unretired(C.p) = {}
    /\ C.auto => \A g \in Gens : gens[g].p # C.p

Released(G) == [G EXCEPT !.own = "none"]

Authorize(c) ==
    LET C == conf[c]
        g0 == C.src
        ends == {h \in {reps[r].tgt : r \in Outgoing(g0)} : gens[h].st \notin {"ready", "retired"}}
        old == Outgoing(g0)
    IN  /\ C.pc = "resolved"
        /\ conf' = [conf EXCEPT ![c] = [NoConfirm EXCEPT !.pc = "over"]]
        /\ IF MayAuthorize(c)
           THEN /\ gens' = Append([g \in Gens |->
                        IF g \in ends THEN [gens[g] EXCEPT !.st = "retired", !.own = "none"]
                        ELSE IF g = g0 /\ gens[g].st # "ready" THEN Released(gens[g])
                        ELSE gens[g]], NewGen(C.p, gens[g0].slot, FALSE, "running"))
                /\ reps' = Append([r \in Reps |-> IF r \in old THEN [reps[r] EXCEPT !.st = "superseded"] ELSE reps[r]],
                                  [src |-> g0, tgt |-> Len(gens) + 1, req |-> C.req, st |-> "open"])
           ELSE UNCHANGED <<gens, reps>>
        /\ UNCHANGED <<copies, status, plan, prov, left>>

(***************************************************************************)
(* Creation of data sets and the course of a replacement.                  *)
(***************************************************************************)
\* DataSetReady: readiness is looked at with the target of the moment.
DataSetReady(g) ==
    /\ gens[g].st = "pending" /\ gens[g].own = "running" /\ ~CreationStopped(g)
    /\ gens' = [gens EXCEPT ![g].st = "ready", ![g].own = "none"]
    /\ PromoteReadyIfProvisioned(gens', copies)
    /\ UNCHANGED <<copies, reps, plan, conf, prov, left>>

Spend == left.failures > 0 /\ left' = [left EXCEPT !.failures = @ - 1]

CreationFails(g) ==
    /\ gens[g].own = "running" /\ Spend
    /\ gens' = [gens EXCEPT ![g].own = "failed"]
    /\ UNCHANGED <<copies, status, reps, plan, conf, prov>>

RetryCreation(g) ==
    /\ gens[g].own = "failed" /\ ~CreationStopped(g)
    /\ gens' = [gens EXCEPT ![g].own = "running"]
    /\ UNCHANGED <<copies, status, reps, plan, conf, prov, left>>

ReplacementFails(r) ==
    /\ reps[r].st = "open" /\ Spend
    /\ reps' = [reps EXCEPT ![r].st = "failed"]
    /\ UNCHANGED <<copies, status, gens, plan, conf, prov>>

Resume(r) ==
    /\ reps[r].st = "failed"
    /\ reps' = [reps EXCEPT ![r].st = "open"]
    /\ UNCHANGED <<copies, status, gens, plan, conf, prov, left>>

Activate(r) ==
    LET s == reps[r].src
        t == reps[r].tgt
    IN  /\ reps[r].st = "open" /\ gens[s].cur /\ ~gens[t].cur /\ gens[t].st = "ready"
        /\ HasDataSet(s) \/ gens[s].own = "none"
        /\ gens' = [gens EXCEPT ![s].cur = FALSE, ![s].st = IF HasDataSet(s) THEN "draining" ELSE "retired",
                                ![t].cur = TRUE]
        /\ PromoteReadyIfProvisioned(gens', copies)
        /\ UNCHANGED <<copies, reps, plan, conf, prov, left>>

CompleteRetirement(r) ==
    /\ reps[r].st = "open" /\ gens[reps[r].tgt].cur
    /\ gens' = [gens EXCEPT ![reps[r].src].st = "retired"]
    /\ reps' = [reps EXCEPT ![r].st = "done"]
    /\ UNCHANGED <<copies, status, plan, conf, prov, left>>

CompleteAbandonedTarget(r) ==
    /\ reps[r].st = "superseded" /\ ~gens[reps[r].tgt].cur /\ gens[reps[r].tgt].st # "retired"
    /\ gens' = [gens EXCEPT ![reps[r].tgt].st = "retired"]
    /\ UNCHANGED <<copies, status, reps, plan, conf, prov, left>>

\* A planner that has used up its attempts on a ledger, a provider or a cost
\* that cannot be read fails, and may be retried.
PlannerFails(t) ==
    /\ plan[t].pc = "run" /\ left.stops > 0
    /\ left' = [left EXCEPT !.stops = @ - 1]
    /\ plan' = [plan EXCEPT ![t].pc = "failed"]
    /\ UNCHANGED <<copies, status, gens, reps, conf, prov>>

RetryPlanner(t) ==
    /\ plan[t].pc = "failed"
    /\ plan' = [plan EXCEPT ![t].pc = "run"]
    /\ UNCHANGED <<copies, status, gens, reps, conf, prov, left>>

(***************************************************************************)
(* Observations of the providers.                                          *)
(***************************************************************************)
Flap(p) ==
    /\ prov[p] = "ok" /\ left.flaps > 0
    /\ prov' = [prov EXCEPT ![p] = "down"] /\ left' = [left EXCEPT !.flaps = @ - 1]
    /\ UNCHANGED <<copies, status, gens, reps, plan, conf>>

Observe(p) ==
    /\ prov[p] # "ok"
    /\ prov' = [prov EXCEPT ![p] = "ok"]
    /\ UNCHANGED <<copies, status, gens, reps, plan, conf, left>>

Next ==
    \/ \E t \in Planners : ProvisionRun(t) \/ SettlePlan(t) \/ SettlePromotion(t) \/ PlannerFails(t) \/ RetryPlanner(t)
    \/ UploadPlanRun \/ UpdateCopyPolicy \/ PutObject
    \/ \E c \in Confirms : ResolveReplacementProvider(c) \/ Authorize(c)
    \/ \E g \in Gens : DataSetReady(g) \/ CreationFails(g) \/ RetryCreation(g)
    \/ \E r \in Reps : ReplacementFails(r) \/ Resume(r) \/ Activate(r) \/ CompleteRetirement(r) \/ CompleteAbandonedTarget(r)
    \/ \E p \in Providers : Flap(p) \/ Observe(p)

Spec == Init /\ [][Next]_vars

PlannerSteps ==
    UploadPlanRun \/ \E t \in Planners : ProvisionRun(t) \/ SettlePlan(t) \/ SettlePromotion(t)
Confirmations == \E c \in Confirms : Authorize(c)
Surroundings ==
    \/ \E g \in Gens : DataSetReady(g)
    \/ \E r \in Reps : Activate(r) \/ CompleteRetirement(r) \/ CompleteAbandonedTarget(r)
    \/ \E p \in Providers : Observe(p)

\* The engine's workers and the requests go on by themselves, and so do the
\* creations, the replacements and the observation and tests of providers.
Fairness == WF_vars(PlannerSteps) /\ WF_vars(Confirmations) /\ WF_vars(Surroundings)

FairSpec == Spec /\ Fairness

(***************************************************************************)
(* Properties.                                                             *)
(***************************************************************************)
\* The provider a slot will have when its replacement is through.
Final(s) ==
    LET g == CHOOSE x \in Current(s) : TRUE
    IN  IF Outgoing(g) = {} THEN gens[g].p ELSE gens[reps[Max(Outgoing(g))].tgt].p

\* One current generation a slot, one unretired generation a provider, one
\* open replacement a source, one replacement a client request, and, whatever is confirmed or planned at the
\* same time, a slot that ends up with a provider of the required tier
\* (ValidateProviderSelection "runs inside the caller's bucket-locked transaction").
SlotsInv ==
    /\ TypeOK
    /\ \A s \in Slots : Cardinality(Current(s)) <= 1
    /\ \A p \in Providers : Cardinality(Unretired(p)) <= 1
    /\ \A g \in Gens : Cardinality(Outgoing(g)) <= 1 /\ (gens[g].cur => gens[g].slot < copies)
    /\ \A q \in Confirms : Cardinality(GetByClientRequestID(q)) <= 1
    /\ gens # <<>> => \E s \in Slots : Current(s) # {} /\ Final(s) \in Trusted

\* What only the operator or new providers can resolve.
AwaitsOperator ==
    \/ \E g \in Gens : gens[g].cur /\ Outgoing(g) = {} /\ gens[g].st = "pending" /\ gens[g].own = "failed"
    \/ \E r \in Reps : OpenRep(r) /\ (reps[r].st = "failed" \/ gens[reps[r].tgt].own = "failed")
    \/ \E t \in Planners : plan[t].pc = "failed"
ShortOfProviders ==
    \/ Cardinality(Providers \ InUse) < Cardinality({s \in 0..(copies - 1) : Current(s) = {}})
    \/ ~HasTrusted(0) /\ Trusted \subseteq InUse

\* Provisioning tasks and upload plans come to their end and the bucket
\* becomes ready, whatever was raised, replaced or conflicted meanwhile
\* ("provisioning always has a next move").
Filled ==
    \/ AwaitsOperator \/ ShortOfProviders
    \/ status = "ready" /\ \A t \in Planners : plan[t].pc \in {"none", "done"}
SlotsFilled == []<>Filled
===============================================================================
