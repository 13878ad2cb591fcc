---------------------------- MODULE MCReplacement ----------------------------
(***************************************************************************)
(* Replacement and ReplicaSlots for TLC: the contents of one slot through  *)
(* replacements, and all slots of a bucket with the choice of providers    *)
(* and without contents.  Every behaviour is one of the first with the     *)
(* second at rest, or the other way round, and part says which.            *)
(***************************************************************************)
EXTENDS Replacement

CONSTANTS Providers, MaxCopies, Confirms, SlotBounds  \* of ReplicaSlots

VARIABLES copies, status, gens, reps, planner, conf, prov, budget,  \* of ReplicaSlots
          part

Slots == INSTANCE ReplicaSlots WITH Bounds <- SlotBounds, plan <- planner, left <- budget

slotVars == <<copies, status, gens, reps, planner, conf, prov, budget>>
all == <<vars, slotVars, part>>

Bound(w, d, c, r, f) ==
    [writes |-> w, deletes |-> d, confirms |-> c, resumes |-> r, faults |-> f]

\* One content through two confirmations, with a retry and two faults; or two
\* contents, so that the batches of seeding and hand-over are several.
SmallBounds == {Bound(1, 1, 2, 1, 2), Bound(2, 0, 1, 0, 1)}

\* Two confirmations at once, in and out of the required tier; an upload that
\* plans at the same time; a provider that goes, a data set that is found and
\* a planner that fails.
SlotBound(t, c, w, x, p, d, s) ==
    [tier |-> t, confirms |-> c, writes |-> w, failures |-> x, flaps |-> p, found |-> d, stops |-> s]
SmallSlotBounds ==
    {SlotBound({2, 3}, 2, 0, 1, 0, 0, 0), SlotBound({1, 2}, 2, 0, 0, 0, 0, 0),
     SlotBound({2, 4}, 1, 1, 1, 0, 0, 0), SlotBound({1, 3}, 1, 0, 0, 1, 1, 0),
     SlotBound({1, 4}, 1, 1, 0, 0, 0, 1)}

OfSlot(A) == part = "slot" /\ A /\ UNCHANGED <<slotVars, part>>
OfBucket(A) == part = "bucket" /\ A /\ UNCHANGED <<vars, part>>

\* The variables of ReplicaSlots at rest.
Off == 0
BucketOff ==
    /\ copies = Off /\ status = Off /\ gens = Off /\ reps = Off
    /\ planner = Off /\ conf = Off /\ prov = Off /\ budget = Off

MCInit ==
    /\ part \in {"slot", "bucket"}
    /\ Init
    /\ part = "bucket" => ds[1].id /\ left = CHOOSE b \in Bounds : TRUE
    /\ IF part = "bucket" THEN Slots!Init ELSE BucketOff

MCNext == OfSlot(Next) \/ OfBucket(Slots!Next)

\* The fairness of the two specifications.  No step of one part is enabled in a
\* behaviour of the other, so that a disjunction is fair when its disjuncts are.
MCFairness ==
    /\ WF_all(OfSlot(\E c \in Contents : PlanStep(c)) \/ OfBucket(Slots!PlannerSteps))
    /\ WF_all(OfSlot(ProviderWork) \/ OfBucket(Slots!Surroundings))
    /\ WF_all(OfBucket(Slots!Confirmations))
    /\ \A t \in Gens : WF_all(OfSlot(CoordinatorStep(t) \/ RetirementStep(t)))

MCSpec == MCInit /\ [][MCNext]_all /\ MCFairness

\* One current generation a slot, one unretired generation a provider, one open
\* replacement a source, one replacement a client request, and, whatever is confirmed
\* or planned at the same time, a slot that ends up with a provider of the required
\* tier.
SlotsInv == part = "bucket" => Slots!SlotsInv

\* A replacement ends: it completes, fails where the operator sees it, or is
\* superseded and its target is gone.  And provisioning tasks and upload plans come
\* to their end and the bucket becomes ready, whatever was raised, replaced or
\* conflicted meanwhile.
ReplacementsSettle ==
    []<>(IF part = "slot" THEN Settled ELSE Slots!Filled)
==============================================================================
