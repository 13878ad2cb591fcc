----------------------------- MODULE MCObjects ------------------------------
(***************************************************************************)
(* ObjectVersions, Multipart, Listing, DataSetCreate and DataSetRetire for *)
(* TLC.  The versions of a key, a multipart upload before it becomes a     *)
(* version, and a listing share no state but the version rows, which       *)
(* Listing changes in every way the others can; a data set is created and  *)
(* retired by different tasks with different ledgers.  Every behaviour is  *)
(* one of a single part, and part says of which.                           *)
(***************************************************************************)
EXTENDS ObjectVersions, Multipart, DataSetCreate

CONSTANTS
  Keys, Stamps, PrefixKey, BatchSize, PageSizes, MaxWrites,      \* of Listing
  RetireAttempts, MaxSends, RetireFaults, RetireCrashes,         \* of DataSetRetire
  MaxHolds,
  c1, c2

VARIABLES
  kind, grouped, size, live, page, listed, steady, excused, writes,           \* of Listing
  role, task, invocation, dataSet, rep, ledger, tx, chain, terminable, rleft, \* of DataSetRetire
  part

\* A bucket of objects with any of the keys, and one of versions that lacks at most one.
MCStarts ==
  LET all == [key : Keys, at : Stamps]
      objects == {S \in SUBSET all : \A r \in S : r.at = Min(Stamps)}
  IN [kind : {"objects", "admin"}, rows : objects]
     \cup [kind : {"versions"}, rows : {S \in SUBSET all : Cardinality(all \ S) <= 1}]
List == INSTANCE Listing WITH Starts <- MCStarts

Retire == INSTANCE DataSetRetire WITH
  MaxAttempts <- RetireAttempts, MaxFaults <- RetireFaults, MaxCrashes <- RetireCrashes,
  row <- task, inv <- invocation, ds <- dataSet, gate <- terminable, left <- rleft

ASSUME SizesAssumption ==
  /\ {EnsureAttempts, RetireAttempts, MaxSends} \subseteq Nat \ {0}
  /\ {RetireFaults, RetireCrashes, MaxHolds, MaxRounds, CreateFaults, MaxCrashes} \subseteq Nat
  /\ Unset \notin ClientIDs

\* A key without versions, one with one, and one that was deleted.
MCHistories == {<<>>, <<1>>, <<2, 1, 0>>}

listVars == <<kind, grouped, size, live, page, listed, steady, excused, writes>>
retireVars ==
  <<role, task, invocation, dataSet, rep, ledger, tx, chain, terminable, rleft>>
all == <<vars, uploadVars, listVars, retireVars, createVars, part>>

OfObjects(A) ==
  part = "objects" /\ A /\ UNCHANGED <<uploadVars, listVars, retireVars, createVars, part>>
OfUpload(A) == part = "upload" /\ A /\ UNCHANGED <<vars, listVars, retireVars, createVars, part>>
OfList(A) == part = "list" /\ A /\ UNCHANGED <<vars, uploadVars, retireVars, createVars, part>>
OfRetire(A) == part = "retire" /\ A /\ UNCHANGED <<vars, uploadVars, listVars, createVars, part>>
OfCreate(A) == part = "create" /\ A /\ UNCHANGED <<vars, uploadVars, listVars, retireVars, part>>

\* The variables of a part at rest.  ObjectVersions, Multipart and DataSetCreate are
\* extended: at rest they stay in an initial state.
Off == 0
ListOff ==
  /\ kind = Off /\ grouped = Off /\ size = Off /\ live = Off /\ page = Off /\ listed = Off
  /\ steady = Off /\ excused = Off /\ writes = Off
RetireOff ==
  /\ role = Off /\ task = Off /\ invocation = Off /\ dataSet = Off /\ rep = Off
  /\ ledger = Off /\ tx = Off /\ chain = Off /\ terminable = Off /\ rleft = Off

MCInit ==
  /\ part \in {"objects", "upload", "list", "retire", "create"}
  /\ Init /\ (part # "objects" => versions = {})
  /\ UploadInit /\ CreateInit
  /\ IF part = "list" THEN List!Init ELSE ListOff
  /\ IF part = "retire" THEN Retire!Init ELSE RetireOff

MCNext ==
  \/ OfObjects(Next) \/ OfUpload(UploadNext) \/ OfList(List!Next)
  \/ OfRetire(Retire!Next) \/ OfCreate(CreateNext)

\* The steps of the gateway and of its operator go on, and so do those of its
\* surroundings: less than the fairness of the specifications where those are fair to
\* every request.  No step of one part is enabled in a behaviour of another.
MCFairness ==
  /\ WF_all(\/ OfObjects(\E r \in Requests : Continue(r))
            \/ OfUpload(\E c \in Clients : UploadContinues(c))
            \/ OfList(List!ReadBatch \/ List!Answer)
            \/ OfRetire(Retire!Steps \/ Retire!RetryRound) \/ OfCreate(Steps))
  /\ WF_all(\/ OfUpload(Reconcile)
            \/ OfRetire(Retire!Surroundings) \/ OfCreate(Chain \/ ResendDue))

MCSpec == MCInit /\ [][MCNext]_all /\ MCFairness

\* The pages of a listing together show everything that was there all along, once
\* and in order.
WalkComplete == part = "list" => List!WalkComplete

\* The ledger of requests to end a service tells what was sent, and the retirement,
\* the data set and the replacement agree.
LedgerInv == part = "retire" => Retire!LedgerInv

\* No two requests race to end a service (the wallet sends only when every earlier
\* request is settled or waived by an operator), and a row that a replacement has
\* ended never has another creation sent for it.
\* A data set is retired only when its service has ended on chain, its term is over
\* and the gate holds at that moment.
DataSetSteps ==
  [][/\ part = "retire" => Retire!SendAllowed /\ Retire!RetireAllowed
     /\ part = "create" => SendAllowed]_all

\* Every request on an object ends, every upload settles and loses its part files,
\* every listing comes to its last page; a setup that was asked for ends, recorded or
\* where an operator sees it; and a service the chain shows as ended is retired by an
\* operator who keeps retrying, unless the slot was lost.
PartsSettle ==
  []<>(CASE part = "objects" -> Quiet
         [] part = "upload" -> UploadQuiet
         [] part = "list" -> List!Ended
         [] part = "retire" -> Retire!EndedAndRetired
         [] part = "create" -> EnsureEnded)
=============================================================================
