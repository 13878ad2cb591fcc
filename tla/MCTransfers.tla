---------------------------- MODULE MCTransfers -----------------------------
(***************************************************************************)
(* CopyTransfer and StoreSession for TLC: the copies of a content with the *)
(* store of bytes as one step, and that store in detail.  Every behaviour  *)
(* is one of the first with the second at rest, or the other way round,    *)
(* and part says which.                                                    *)
(***************************************************************************)
EXTENDS CopyTransfer

CONSTANTS
    Sids, Urls, None,                                         \* of StoreSession
    StoreAttempts, StoreRounds, StoreTransfers, StoreFaults,  \* its MaxAttempts, ...
    StoreCrashes, StoreMoves, StoreDrops,
    s1, s2, u1, u2

ASSUME StoreAssumption ==
    /\ {StoreAttempts, StoreTransfers} \subseteq Nat \ {0}
    /\ {StoreRounds, StoreFaults, StoreCrashes, StoreMoves, StoreDrops} \subseteq Nat
    /\ None \notin Sids \union Urls

VARIABLES row, past, invocation, stored, body, sessions, piece, url, wasReady, bounds,
          part

Session == INSTANCE StoreSession WITH
    inv <- invocation, copy <- stored, left <- bounds,
    MaxAttempts <- StoreAttempts, MaxRounds <- StoreRounds, MaxTransfers <- StoreTransfers,
    MaxFaults <- StoreFaults, MaxCrashes <- StoreCrashes, MaxMoves <- StoreMoves,
    MaxDrops <- StoreDrops

storeVars == <<row, past, invocation, stored, body, sessions, piece, url, wasReady, bounds>>
all == <<vars, storeVars, part>>

OfCopies(A) == part = "copies" /\ A /\ UNCHANGED <<storeVars, part>>
OfStore(A) == part = "store" /\ A /\ UNCHANGED <<vars, part>>

MCInit ==
    /\ part \in {"copies", "store"}
    /\ Init /\ Session!Init
    /\ part = "copies" => url = CHOOSE u \in Urls : TRUE
    /\ part = "store" => \A c \in Copies : service[c] = "up"

MCNext == OfCopies(Next) \/ OfStore(Session!Next)

\* The fairness of the two specifications.  No step of one part is enabled in a
\* behaviour of the other, so that a disjunction is fair when both disjuncts are.
MCFairness ==
    /\ \A c \in Copies :
          /\ WF_all(OfCopies(Claim(c))) /\ WF_all(OfCopies(Handler(c)))
          /\ WF_all(OfCopies(Pulling(c))) /\ WF_all(OfCopies(DataSetReady(c)))
          /\ WF_all(OfCopies(Sign(c))) /\ WF_all(OfCopies(Commit(c)))
    /\ WF_all(OfStore(Session!Steps))
    /\ \A s \in Sids : WF_all(OfStore(Session!ClaimEnds(s)))
    /\ \A u \in Urls : WF_all(OfStore(Session!PieceReady(u)))

MCSpec == MCInit /\ [][MCNext]_all /\ MCFairness

\* A session that holds the body is not forgotten until the copy is piece-ready, so
\* the bytes are never sent through a second one while the first may deliver them.
BodyNotForgotten == Session!BodyNotForgotten

\* A pull that a provider runs is recorded under its attempt, and the store task's
\* checkpoint, the copy and the provider's sessions agree.
TransferInv == PullLedger /\ Session!StoreInv

\* A copy gets somewhere unless it needs an operator, and a store task that is due ends.
TransfersEnd == []<>(IF part = "store" THEN Session!Ended ELSE CopiesSettled)
=============================================================================
