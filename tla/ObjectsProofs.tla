---------------------------- MODULE ObjectsProofs ----------------------------
(***************************************************************************)
(* Proofs about ObjectVersions, for every set of requests, contents and    *)
(* initial histories, and about Multipart, for every set of requests,      *)
(* parts and bytes.                                                        *)
(*                                                                         *)
(* The argument about a history is the one of the row locks.  Whoever      *)
(* changes the history holds the lock of the objects row, or there is no   *)
(* such row and nobody holds its lock; and whoever starts the cleanup of a *)
(* content holds the lock of that content.  What a request has checked     *)
(* under its locks therefore still holds when it writes.  A request that   *)
(* found no row relies on names instead: the name of a version is never    *)
(* given again, so what is gone when a request looks is gone for good.     *)
(*                                                                         *)
(* The argument about an upload is the one of its gate: the rows of its    *)
(* parts change only under the gate, so what validation has compared with  *)
(* the client's list is still recorded when the object is made of it.      *)
(***************************************************************************)
EXTENDS ObjectVersions, Multipart, FiniteSetTheorems, WellFoundedInduction, TLAPS

Version == [id : Nat, data : Contents \cup {0}, at : Nat]

Request ==
  [pc : {"idle", "begin", "content", "lock", "read", "check", "write", "done"},
   op : {"none", "put", "delete", "unmark", "drop", "restore", "undelete", "purge"},
   cond : Conditions, data : Contents \cup {0}, target : Nat, expect : Nat, at : Nat,
   found : BOOLEAN, saw : SUBSET Version,
   res : {"none", "ok", "missing", "conflict", "cleanup", "precondition", "current", "busy",
          "contended"}]

\* No request will write a version of this name.
Spent(id) == id \in Requests => req[id].pc = "done"

Past(r) == req[r].pc \in {"lock", "read", "check", "write"}
Under(r) == req[r].pc \in {"begin", "content"} \/ Past(r)

\* What a request asks fits the step it is at.
WellFormed(r) ==
  /\ At(r, "begin") => Op(r) \in {"drop", "purge"}
  /\ At(r, "content") => Op(r) \in {"put", "restore", "drop", "purge"}
  /\ At(r, "check") => Op(r) \in {"put", "delete"}
  /\ At(r, "write") => Op(r) \in {"put", "delete", "restore"}
  /\ Under(r) <=> Op(r) # "none"
  /\ ~At(r, "done") => req[r].res = "none"
  /\ Under(r) /\ Writes(r) => req[r].data \in Contents
  /\ Under(r) /\ Op(r) = "delete" => req[r].data = 0

\* What a request knows of the versions it names.
Knows(r) ==
  /\ Under(r) /\ Op(r) \in {"unmark", "drop", "restore", "undelete", "purge"} => Spent(req[r].target)
  /\ Under(r) /\ Op(r) = "unmark" => \A v \in Named(req[r].target) : v.data = 0
  /\ Under(r) /\ Op(r) = "drop" => \A v \in Named(req[r].target) : v.data # 0
  /\ Under(r) /\ ~At(r, "begin") /\ Op(r) = "drop" => Named(req[r].target) \subseteq req[r].saw

\* The locks a request holds, and what it has checked under them.
Guards(r) ==
  /\ req[r].pc \in {"idle", "begin"} => \A k \in Rows : ~Holds(r, k)
  /\ At(r, "content") => \E c \in Needed(r) : ~Holds(r, c)
  /\ Past(r) /\ Op(r) \in {"put", "restore", "drop", "purge"} => \A c \in Needed(r) : Holds(r, c)
  /\ Past(r) /\ Writes(r) => req[r].data \notin cleaning
  /\ At(r, "read") /\ Op(r) \notin {"put", "delete"} =>
       Holds(r, ObjectRow) \/ req[r].target \notin IdsOf(versions)
  /\ At(r, "write") /\ Op(r) = "restore" => req[r].found
  /\ req[r].pc \in {"check", "write"} /\ req[r].found => Holds(r, ObjectRow)
  /\ At(r, "write") /\ req[r].found /\ Op(r) # "restore" => Satisfied(req[r].cond)

RInv(r) == WellFormed(r) /\ Knows(r) /\ Guards(r)

\* The rows.
GInv ==
  /\ HistoryInv
  /\ req \in [Requests -> Request]
  /\ \A v \in versions : Spent(v.id) /\ v.at <= clock
  /\ \A r \in Requests : req[r].at <= clock
  /\ lock[ObjectRow] # None => object.here

IInv == GInv /\ \A r \in Requests : RInv(r)

\* What a step of request r leaves to the others.
Frame(r) ==
  /\ req[r].pc # "done" /\ \A q \in Requests \ {r} : req'[q] = req[q]
  /\ \A q \in Requests \ {r} : \A k \in Rows : lock'[k] = q <=> lock[k] = q
  /\ \A v \in versions' : v \in versions \/ v.id = r
  /\ \/ object' = object /\ versions' = versions
     \/ \A q \in Requests \ {r} : ~Holds(q, ObjectRow)
  /\ \A c \in cleaning' : c \in cleaning \/ Holds(r, c)

-----------------------------------------------------------------------------
(* Smallest and newest elements.                                            *)

\* A set of numbers that is not empty has a least one.
LEMMA NatMin == ASSUME NEW T, T \subseteq Nat, T # {} PROVE \E x \in T : \A y \in T : x <= y
<1> DEFINE R == OpToRel(<, Nat)
<1>1. IsWellFoundedOn(R, Nat)
  BY NatLessThanWellFounded
<1>2. \A x, y \in Nat : x < y => <<x, y>> \in R
  BY DEF OpToRel
<1> HIDE DEF R
<1>3. PICK x \in T : \A y \in T : ~(<<y, x>> \in R)
  BY <1>1, WFMin, Zenon
<1>4. \A y \in T : x <= y
  <2> TAKE y \in T
  <2>1. x \in Nat /\ y \in Nat
    OBVIOUS
  <2>2. ~(y < x)
    BY <1>2, <1>3, <2>1
  <2> QED  BY <2>1, <2>2
<1> QED  BY <1>4

\* lockStorageContentsByID has a next row while one is missing.
LEMMA MinIn == ASSUME NEW T, T \subseteq Nat, T # {} PROVE Min(T) \in T
BY NatMin DEF Min

\* The newest of some versions is one of them: the ORDER BY of
\* repointObjectAwayFromVersion finds a row.
LEMMA NewestIn ==
  ASSUME NEW S, S # {}, S \subseteq Version, NEW b \in Nat, \A v \in S : v.at <= b
  PROVE  Newest(S) \in S
<1> DEFINE T == {b - v.at : v \in S}
<1>1. T \subseteq Nat /\ T # {}
  BY DEF Version
<1>2. PICK x \in T : \A y \in T : x <= y
  BY <1>1, NatMin
<1>3. PICK v \in S : x = b - v.at
  BY <1>2
<1>4. \A w \in S : w.at <= v.at
  <2> TAKE w \in S
  <2>1. w.at \in Nat /\ v.at \in Nat
    BY DEF Version
  <2>2. x <= b - w.at
    BY <1>2
  <2> QED  BY <1>3, <2>1, <2>2
<1> QED  BY <1>4 DEF Newest

-----------------------------------------------------------------------------
(* What another request relies on outlives a step of request r.             *)

\* What a request knows outlives the steps of the others.
LEMMA FrameKnows ==
  ASSUME GInv, NEW r \in Requests, NEW q \in Requests \ {r}, Frame(r), RInv(q)
  PROVE  WellFormed(q)' /\ Knows(q)'
<1>1. req'[q] = req[q]
  BY DEF Frame
<1>2. \A id : Spent(id) => Spent(id)' /\ id # r
  BY DEF Frame, Spent
<1>3. WellFormed(q)'
  BY <1>1 DEF RInv, WellFormed, At, Op, Under, Past, Writes
<1>4. Under(q) /\ Op(q) \in {"unmark", "drop", "restore", "undelete", "purge"} =>
        Spent(req[q].target)' /\ Named(req[q].target)' \subseteq Named(req[q].target)
  BY <1>1, <1>2 DEF RInv, Knows, Frame, Named
<1>5. Knows(q)'
  BY <1>1, <1>4 DEF RInv, Knows, Under, Past, At, Op, Named
<1> QED  BY <1>3, <1>5

\* What protects a request outlives the steps of the others.
LEMMA FrameGuards ==
  ASSUME GInv, NEW r \in Requests, NEW q \in Requests \ {r}, Frame(r), RInv(q)
  PROVE  Guards(q)'
<1>1. req'[q] = req[q]
  BY DEF Frame
<1>2. \A k \in Rows : Holds(q, k)' <=> Holds(q, k)
  BY DEF Frame, Holds
<1>3. ObjectRow \in Rows /\ Contents \subseteq Rows
  BY DEF Rows
<1>4. Needed(q)' = Needed(q) /\ (Op(q) \in {"put", "restore"} => Needed(q) = {req[q].data})
  BY <1>1 DEF Needed, Op, DataOf
<1>5. Under(q) /\ Op(q) \in {"put", "restore", "drop", "purge"} => Needed(q) \subseteq Rows
  BY <1>1 DEF RInv, WellFormed, Needed, Op, DataOf, GInv, Request, Version, Rows, Writes
<1>6. /\ req[q].pc \in {"idle", "begin"} => \A k \in Rows : ~Holds(q, k)'
      /\ At(q, "content") => \E c \in Needed(q) : ~Holds(q, c)'
      /\ Past(q) /\ Op(q) \in {"put", "restore", "drop", "purge"}
           => \A c \in Needed(q) : Holds(q, c)'
  BY <1>2, <1>5 DEF RInv, Guards, WellFormed, Under, At
<1>7. Past(q) /\ Writes(q) => req[q].data \notin cleaning'
  <2> SUFFICES ASSUME Past(q), Writes(q) PROVE req[q].data \notin cleaning'
    OBVIOUS
  <2>1. req[q].data \notin cleaning /\ req[q].data \in Contents /\ Holds(q, req[q].data)
    BY <1>4 DEF RInv, Guards, WellFormed, Under, Writes
  <2> QED  BY <2>1 DEF Frame, Holds
<1>8. Holds(q, ObjectRow) => object' = object /\ versions' = versions
  BY DEF Frame
<1>9. At(q, "read") /\ Op(q) \notin {"put", "delete"} =>
        Holds(q, ObjectRow)' \/ req[q].target \notin IdsOf(versions)'
  <2> SUFFICES ASSUME At(q, "read"), Op(q) \notin {"put", "delete"}, ~Holds(q, ObjectRow),
                      req[q].target \notin IdsOf(versions)
               PROVE  req[q].target \notin IdsOf(versions)'
    BY <1>2, <1>3, <1>8 DEF RInv, Guards
  <2>1. Op(q) \in {"unmark", "drop", "restore", "undelete", "purge"} => req[q].target # r
    BY DEF RInv, Knows, Under, Past, At, Spent, Frame
  <2>2. Op(q) # "none"
    BY DEF RInv, WellFormed, At, Under, Past
  <2> QED  BY <2>1, <2>2 DEF Frame, IdsOf, GInv, Request, Op
<1>10. /\ At(q, "write") /\ Op(q) = "restore" => req[q].found
       /\ req[q].pc \in {"check", "write"} /\ req[q].found => Holds(q, ObjectRow)'
       /\ At(q, "write") /\ req[q].found /\ Op(q) # "restore" => Satisfied(req[q].cond)'
  <2>1. req[q].pc \in {"check", "write"} /\ req[q].found => Holds(q, ObjectRow)
    BY DEF RInv, Guards
  <2>2. At(q, "write") /\ req[q].found /\ Op(q) # "restore" => Satisfied(req[q].cond)'
    BY <1>1, <1>8, <2>1 DEF RInv, Guards, At, Satisfied, Current, Shown, Marker
  <2> QED  BY <1>2, <1>3, <2>1, <2>2 DEF RInv, Guards
<1> QED  BY <1>1, <1>4, <1>6, <1>7, <1>9, <1>10 DEF Guards, Past, Under, At, Op, Writes, Holds

-----------------------------------------------------------------------------
(* Requests that arrive.                                                    *)

\* A request that has not arrived.
LEMMA IdleTyped == Idle \in Request
BY DEF Idle, Request, Conditions, Any, None

\* A request arrives, holding nothing.
LEMMA ArriveKeeps ==
  ASSUME IInv, NEW r \in Requests, NEW ask \in Request, Arrive(r, ask),
         clock' \in Nat, clock <= clock', ask.at <= clock'
  PROVE  /\ Frame(r) /\ GInv' /\ req'[r] = ask
         /\ \A k \in Rows : ~Holds(r, k)'
         /\ \A v \in versions' : Spent(v.id)'
<1>1. req[r].pc = "idle" /\ \A k \in Rows : ~Holds(r, k)
  BY ObjectAssumption DEF IInv, RInv, Guards, Arrive
<1>2. req' \in [Requests -> Request] /\ req'[r] = ask /\ \A q \in Requests \ {r} : req'[q] = req[q]
  BY DEF IInv, GInv, Arrive
<1>3. \A id : Spent(id) => Spent(id)'
  BY <1>1, <1>2 DEF Spent
<1>4. Frame(r)
  BY <1>1, <1>2 DEF Frame, Arrive
<1>5. HistoryInv'
  BY DEF IInv, GInv, HistoryInv, TypeOK, Arrive, IdsOf, DataOf
<1>6. \A q \in Requests : req'[q].at <= clock'
  <2> TAKE q \in Requests
  <2>1. req[q].at \in Nat /\ req[q].at <= clock /\ clock \in Nat
    BY DEF IInv, GInv, Request, HistoryInv, TypeOK
  <2> QED  BY <1>2, <2>1
<1>7. \A v \in versions' : Spent(v.id)' /\ v.at <= clock'
  <2> TAKE v \in versions'
  <2>1. v \in versions /\ v.at \in Nat /\ v.at <= clock /\ clock \in Nat /\ Spent(v.id)
    BY DEF IInv, GInv, HistoryInv, TypeOK, Arrive
  <2> QED  BY <1>3, <2>1
<1>8. GInv'
  BY <1>2, <1>5, <1>6, <1>7 DEF IInv, GInv, Arrive
<1> QED  BY <1>1, <1>2, <1>4, <1>7, <1>8 DEF Arrive, Holds

\* Requests that only write ask for a content.
LEMMA WriterArrives ==
  ASSUME IInv, NEW r \in Requests, NEW ask \in Request, Ask(r, ask), ask.at = 0, ask.res = "none",
         ask.pc = "content", ask.data \in Contents,
         \/ ask.op = "put"
         \/ ask.op = "restore" /\ \E v \in versions : ask.target = v.id
  PROVE  Frame(r) /\ GInv' /\ RInv(r)'
<1>1. Arrive(r, ask) /\ clock' = clock /\ clock \in Nat
  BY DEF Ask, IInv, GInv, HistoryInv, TypeOK
<1>2. /\ Frame(r) /\ GInv' /\ req'[r] = ask
      /\ \A k \in Rows : ~Holds(r, k)'
      /\ \A v \in versions' : Spent(v.id)'
  BY <1>1, ArriveKeeps
<1>3. versions' = versions
  BY <1>1 DEF Arrive
<1>4. WellFormed(r)' /\ Knows(r)'
  BY <1>2, <1>3 DEF WellFormed, Knows, At, Op, Under, Past, Writes
<1>5. Guards(r)'
  BY <1>2 DEF Guards, At, Op, Past, Needed, Rows
<1> QED  BY <1>2, <1>4, <1>5 DEF RInv

\* The others ask for versions they name.
LEMMA OtherArrives ==
  ASSUME IInv, NEW r \in Requests, NEW ask \in Request, Arrive(r, ask),
         clock' \in Nat, clock <= clock', ask.at <= clock', ask.data = 0, ask.res = "none",
         \/ ask.op = "delete" /\ ask.pc = "lock"
         \/ /\ \/ ask.op \in {"unmark", "undelete"} /\ ask.pc = "lock"
               \/ ask.op \in {"drop", "purge"} /\ ask.pc = "begin"
            /\ \E v \in versions :
                 /\ ask.target = v.id
                 /\ ask.op = "unmark" => Marker(v)
                 /\ ask.op = "drop" => ~Marker(v)
  PROVE  Frame(r) /\ GInv' /\ RInv(r)'
<1>1. /\ Frame(r) /\ GInv' /\ req'[r] = ask
      /\ \A k \in Rows : ~Holds(r, k)'
      /\ \A v \in versions' : Spent(v.id)'
  BY ArriveKeeps
<1>2. versions' = versions /\ \A v, w \in versions : v.id = w.id => v = w
  BY DEF Arrive, IInv, GInv, HistoryInv
<1>3. WellFormed(r)'
  BY <1>1 DEF WellFormed, At, Op, Under, Past, Writes
<1>4. Knows(r)'
  BY <1>1, <1>2 DEF Knows, At, Op, Under, Past, Named, Marker
<1>5. Guards(r)'
  BY <1>1 DEF Guards, At, Op, Past, Writes
<1> QED  BY <1>1, <1>3, <1>4, <1>5 DEF RInv

\* A request opens its transaction.
LEMMA BeginKeeps ==
  ASSUME IInv, NEW r \in Requests, Begin(r)
  PROVE  Frame(r) /\ GInv' /\ RInv(r)'
<1>1. clock \in Nat /\ versions \subseteq Version
  BY DEF IInv, GInv, HistoryInv, TypeOK, Version
<1>2. Current \subseteq versions
  BY DEF Current
<1>3. CASE PutObject(r)
  <2>1. PICK d \in Contents, c \in Conditions :
          Ask(r, [Idle EXCEPT !.op = "put", !.pc = "content", !.data = d, !.cond = c])
    BY <1>3 DEF PutObject
  <2> DEFINE ask == [Idle EXCEPT !.op = "put", !.pc = "content", !.data = d, !.cond = c]
  <2>2. /\ ask \in Request /\ ask.res = "none" /\ ask.at = 0
        /\ ask.pc = "content" /\ ask.data = d /\ ask.op = "put"
    BY IdleTyped DEF Request, Idle
  <2> HIDE DEF ask
  <2> QED  BY <2>1, <2>2, WriterArrives DEF ask
<1>4. CASE CopyObject(r)
  <2>1. PICK v \in versions, c \in Conditions :
          ~Marker(v) /\ Ask(r, [Copied(v, "put") EXCEPT !.cond = c])
    BY <1>4 DEF CopyObject
  <2> DEFINE ask == [Copied(v, "put") EXCEPT !.cond = c]
  <2>2. v.data \in Contents
    BY <1>1, <2>1 DEF Version, Marker
  <2>3. /\ ask \in Request /\ ask.res = "none" /\ ask.at = 0
        /\ ask.pc = "content" /\ ask.data \in Contents /\ ask.op = "put"
    BY <2>2, IdleTyped DEF Request, Idle, Copied
  <2> HIDE DEF ask
  <2> QED  BY <2>1, <2>3, WriterArrives DEF ask
<1>5. CASE RestoreObjectVersion(r)
  <2>1. PICK v \in versions, c \in Current :
          ~Marker(v) /\ Ask(r, [Copied(v, "restore") EXCEPT !.target = v.id, !.expect = c.id])
    BY <1>5 DEF RestoreObjectVersion
  <2> DEFINE ask == [Copied(v, "restore") EXCEPT !.target = v.id, !.expect = c.id]
  <2>2. v.data \in Contents /\ v.id \in Nat /\ c.id \in Nat
    BY <1>1, <1>2, <2>1 DEF Version, Marker
  <2>3. /\ ask \in Request /\ ask.res = "none" /\ ask.at = 0 /\ ask.pc = "content" /\ ask.data \in Contents
        /\ ask.op = "restore" /\ ask.target = v.id
    BY <2>2, IdleTyped DEF Request, Idle, Copied
  <2> HIDE DEF ask
  <2> QED  BY <2>1, <2>3, WriterArrives DEF ask
<1>6. CASE DeleteObject(r)
  <2>1. PICK c \in Conditions :
          Arrive(r, [Idle EXCEPT !.op = "delete", !.pc = "lock", !.cond = c, !.at = clock + 1])
    BY <1>6 DEF DeleteObject
  <2> DEFINE ask == [Idle EXCEPT !.op = "delete", !.pc = "lock", !.cond = c, !.at = clock + 1]
  <2>2. clock' = clock + 1 /\ clock + 1 \in Nat
    BY <1>1, <1>6 DEF DeleteObject
  <2>3. /\ ask \in Request /\ ask.res = "none" /\ ask.at = clock + 1
        /\ ask.pc = "lock" /\ ask.data = 0 /\ ask.op = "delete"
    BY <2>2, IdleTyped DEF Request, Idle
  <2> HIDE DEF ask
  <2>4. clock' \in Nat /\ clock <= clock' /\ ask.at <= clock'
    BY <1>1, <2>2, <2>3
  <2> QED  BY <2>1, <2>3, <2>4, OtherArrives DEF ask
<1>7. CASE DeleteVersion(r)
  <2>1. PICK v \in versions, c \in Conditions :
          Ask(r, IF Marker(v)
                 THEN [Idle EXCEPT !.op = "unmark", !.pc = "lock", !.target = v.id, !.cond = c]
                 ELSE [Idle EXCEPT !.op = "drop", !.pc = "begin", !.target = v.id, !.cond = c])
    BY <1>7 DEF DeleteVersion
  <2> DEFINE ask == IF Marker(v)
                    THEN [Idle EXCEPT !.op = "unmark", !.pc = "lock", !.target = v.id, !.cond = c]
                    ELSE [Idle EXCEPT !.op = "drop", !.pc = "begin", !.target = v.id, !.cond = c]
  <2>2. v.id \in Nat
    BY <1>1, <2>1 DEF Version
  <2>3. /\ ask \in Request /\ ask.res = "none" /\ ask.at = 0 /\ ask.data = 0 /\ ask.target = v.id
        /\ \/ ask.op = "unmark" /\ ask.pc = "lock" /\ Marker(v)
           \/ ask.op = "drop" /\ ask.pc = "begin" /\ ~Marker(v)
    BY <2>2, IdleTyped DEF Request, Idle
  <2> HIDE DEF ask
  <2>4. Arrive(r, ask) /\ clock' \in Nat /\ clock <= clock' /\ ask.at <= clock'
    BY <1>1, <2>1, <2>3 DEF Ask, ask
  <2> QED  BY <2>3, <2>4, OtherArrives
<1>8. CASE RestoreDeleted(r) \/ PurgeDeleted(r)
  <2>1. PICK c \in Current :
          \/ Ask(r, [Idle EXCEPT !.op = "undelete", !.pc = "lock", !.target = c.id])
          \/ Ask(r, [Idle EXCEPT !.op = "purge", !.pc = "begin", !.target = c.id])
    BY <1>8 DEF RestoreDeleted, PurgeDeleted
  <2>2. c \in versions /\ c.id \in Nat
    BY <1>1, <1>2, <2>1 DEF Version
  <2>3. PICK ask \in {[Idle EXCEPT !.op = "undelete", !.pc = "lock", !.target = c.id],
                      [Idle EXCEPT !.op = "purge", !.pc = "begin", !.target = c.id]} : Ask(r, ask)
    BY <2>1
  <2>4. /\ ask \in Request /\ ask.res = "none" /\ ask.at = 0 /\ ask.data = 0 /\ ask.target = c.id
        /\ \/ ask.op = "undelete" /\ ask.pc = "lock"
           \/ ask.op = "purge" /\ ask.pc = "begin"
    BY <2>2, <2>3, IdleTyped DEF Request, Idle
  <2>5. Arrive(r, ask) /\ clock' \in Nat /\ clock <= clock' /\ ask.at <= clock'
    BY <1>1, <2>3, <2>4 DEF Ask
  <2> QED  BY <2>2, <2>4, <2>5, OtherArrives
<1> QED  BY <1>3, <1>4, <1>5, <1>6, <1>7, <1>8 DEF Begin

-----------------------------------------------------------------------------
(* The end of a transaction.                                                *)

Results == {"none", "ok", "missing", "conflict", "cleanup", "precondition", "current", "busy",
            "contended"}

\* A transaction that ends gives its locks back and takes none from another.
LEMMA EndKeeps ==
  ASSUME IInv, NEW r \in Requests, NEW res \in Results, End(r, res), req[r].pc # "done"
  PROVE  /\ lock' \in [Rows -> Requests \cup {None}]
         /\ lock'[ObjectRow] # None => lock[ObjectRow] # None /\ lock[ObjectRow] # r
         /\ \A q \in Requests \ {r} : \A k \in Rows : lock'[k] = q <=> lock[k] = q
         /\ req' \in [Requests -> Request] /\ \A q \in Requests \ {r} : req'[q] = req[q]
         /\ req'[r].at = 0 /\ req'[r].pc = "done" /\ RInv(r)'
         /\ \A id : Spent(id) => Spent(id)'
<1>1. lock \in [Rows -> Requests \cup {None}] /\ ObjectRow \in Rows /\ 0 \notin Requests
  BY ObjectAssumption DEF IInv, GInv, HistoryInv, TypeOK, Rows
<1>2. \A k \in Rows : lock'[k] = IF lock[k] = r THEN None ELSE lock[k]
  BY DEF End, Released, Holds
<1>3. /\ lock' \in [Rows -> Requests \cup {None}]
      /\ lock'[ObjectRow] # None => lock[ObjectRow] # None /\ lock[ObjectRow] # r
      /\ \A q \in Requests \ {r} : \A k \in Rows : lock'[k] = q <=> lock[k] = q
  BY <1>1, <1>2 DEF End, Released, None
<1> DEFINE last == [Idle EXCEPT !.pc = "done", !.res = res]
<1>4. last \in Request /\ last.at = 0 /\ last.pc = "done" /\ last.op = "none"
  BY IdleTyped DEF Request, Idle, Results
<1>5. req' = [req EXCEPT ![r] = last] /\ req \in [Requests -> Request]
  BY DEF End, IInv, GInv
<1> HIDE DEF last
<1>6. /\ req' \in [Requests -> Request] /\ \A q \in Requests \ {r} : req'[q] = req[q]
      /\ req'[r].at = 0 /\ req'[r].pc = "done" /\ req'[r].op = "none"
  BY <1>4, <1>5
<1>7. RInv(r)'
  BY <1>6 DEF RInv, WellFormed, Knows, Guards, At, Op, Under, Past
<1>8. \A id : Spent(id) => Spent(id)'
  BY <1>6 DEF Spent
<1> QED  BY <1>3, <1>6, <1>7, <1>8

\* The rows' part of the invariant, when only requests, locks and time stamps move.
LEMMA RowsKept ==
  ASSUME GInv, UNCHANGED <<object, versions, cleaning>>,
         lock' \in [Rows -> Requests \cup {None}], lock'[ObjectRow] # None => object.here,
         req' \in [Requests -> Request], clock' \in Nat, clock <= clock',
         \A q \in Requests : req'[q].at <= clock', \A id : Spent(id) => Spent(id)'
  PROVE  GInv'
<1>1. HistoryInv'
  BY DEF GInv, HistoryInv, TypeOK, IdsOf, DataOf
<1>2. \A v \in versions' : Spent(v.id)' /\ v.at <= clock'
  <2> TAKE v \in versions'
  <2>1. v \in versions /\ v.at \in Nat /\ v.at <= clock /\ clock \in Nat /\ Spent(v.id)
    BY DEF GInv, HistoryInv, TypeOK
  <2>2. v.at <= clock'
    BY <2>1
  <2> QED  BY <2>1, <2>2
<1> QED  BY <1>1, <1>2 DEF GInv

\* A new version is named by the request that makes it.
LEMMA Stamps ==
  ASSUME GInv
  PROVE  /\ clock \in Nat /\ \A q \in Requests : req[q].at \in Nat /\ req[q].at <= clock
         /\ lock \in [Rows -> Requests \cup {None}] /\ ObjectRow \in Rows /\ 0 \notin Requests
         /\ Contents \subseteq Rows
         /\ versions \subseteq Version
BY ObjectAssumption DEF GInv, HistoryInv, TypeOK, Request, Version, Rows

\* A refused request ends with what it holds given back.
LEMMA RefuseKeeps ==
  ASSUME IInv, NEW r \in Requests, NEW res \in Results, Refuse(r, res), req[r].pc # "done"
  PROVE  Frame(r) /\ GInv' /\ RInv(r)'
<1>1. End(r, res) /\ UNCHANGED <<object, versions, cleaning, clock>>
  BY DEF Refuse
<1>2. /\ lock' \in [Rows -> Requests \cup {None}]
      /\ lock'[ObjectRow] # None => lock[ObjectRow] # None /\ lock[ObjectRow] # r
      /\ \A q \in Requests \ {r} : \A k \in Rows : lock'[k] = q <=> lock[k] = q
      /\ req' \in [Requests -> Request] /\ \A q \in Requests \ {r} : req'[q] = req[q]
      /\ req'[r].at = 0 /\ RInv(r)'
      /\ \A id : Spent(id) => Spent(id)'
  BY <1>1, EndKeeps
<1>3. Frame(r)
  BY <1>1, <1>2 DEF Frame
<1>4. \A q \in Requests : req'[q].at <= clock'
  BY <1>1, <1>2, Stamps DEF IInv
<1>5. lock'[ObjectRow] # None => object.here
  BY <1>2 DEF IInv, GInv
<1>6. clock' \in Nat /\ clock <= clock'
  BY <1>1, Stamps DEF IInv
<1>7. GInv'
  BY <1>1, <1>2, <1>4, <1>5, <1>6, RowsKept DEF IInv
<1> QED  BY <1>2, <1>3, <1>7

\* A step that changes only the request, where its time stamp stays, and its locks.
LEMMA LocalStep ==
  ASSUME IInv, NEW r \in Requests, NEW x \in Request, req' = [req EXCEPT ![r] = x],
         req[r].pc # "done", x.at = req[r].at,
         UNCHANGED <<object, versions, cleaning, clock>>,
         \/ lock' = lock
         \/ \E k \in Rows : /\ Free(k) \/ Holds(r, k)
                            /\ lock' = [lock EXCEPT ![k] = r]
                            /\ k = ObjectRow => object.here
  PROVE  Frame(r) /\ GInv' /\ req'[r] = x /\ \A id : Spent(id) => Spent(id)'
<1>1. req \in [Requests -> Request]
  BY DEF IInv, GInv
<1>2. /\ req' \in [Requests -> Request] /\ \A q \in Requests \ {r} : req'[q] = req[q]
      /\ req'[r] = x
  BY <1>1
<1>3. /\ lock' \in [Rows -> Requests \cup {None}]
      /\ \A q \in Requests \ {r} : \A k \in Rows : lock'[k] = q <=> lock[k] = q
  BY Stamps DEF IInv, Free, Holds, None
<1>4. lock'[ObjectRow] # None => object.here
  BY Stamps DEF IInv, GInv
<1>5. Frame(r)
  BY <1>2, <1>3 DEF Frame
<1>6. \A id : Spent(id) => Spent(id)'
  BY <1>2 DEF Spent
<1>7. \A q \in Requests : req'[q].at <= clock'
  BY <1>2, Stamps DEF IInv
<1>8. clock' \in Nat /\ clock <= clock'
  BY Stamps DEF IInv
<1>9. GInv'
  BY <1>2, <1>3, <1>4, <1>6, <1>7, <1>8, RowsKept DEF IInv
<1> QED  BY <1>2, <1>5, <1>6, <1>9

-----------------------------------------------------------------------------
(* Reading and locking.                                                     *)

\* A request that holds nothing and has read versions with data has a lock to take.
LEMMA SomethingToLock ==
  ASSUME IInv, NEW r \in Requests, lock' = lock, At(r, "begin"), RInv(r),
         req'[r].op \in {"drop", "purge"}, req'[r].saw \subseteq Version,
         NEW v \in req'[r].saw, v.data # 0
  PROVE  \E c \in Needed(r)' : ~Holds(r, c)'
<1>1. v.data \in Needed(r)' /\ v.data \in Rows
  BY DEF Needed, DataOf, Op, Version, Rows
<1>2. ~Holds(r, v.data)'
  BY <1>1 DEF RInv, Guards, At, Holds
<1> QED  BY <1>1, <1>2

\* The version a request names, read before any lock.
LEMMA PeekVersionKeeps ==
  ASSUME IInv, NEW r \in Requests, PeekVersion(r)
  PROVE  Frame(r) /\ GInv' /\ RInv(r)'
<1>1. req[r].pc = "begin" /\ Op(r) = "drop" /\ req[r] \in Request /\ RInv(r)
  BY DEF PeekVersion, At, IInv, GInv
<1>2. CASE Refuse(r, "missing")
  BY <1>1, <1>2, RefuseKeeps DEF Results
<1>3. CASE ~Refuse(r, "missing")
  <2> DEFINE x == [req[r] EXCEPT !.pc = "content", !.saw = Named(req[r].target)]
  <2>1. /\ Named(req[r].target) # {} /\ UNCHANGED <<object, versions, cleaning, lock, clock>>
        /\ req' = [req EXCEPT ![r].pc = "content", ![r].saw = Named(req[r].target)]
    BY <1>3 DEF PeekVersion
  <2>2. req' = [req EXCEPT ![r] = x]
    BY <2>1 DEF IInv, GInv
  <2>3. Named(req[r].target) \subseteq Version
    BY Stamps DEF Named, IInv
  <2>4. /\ x \in Request /\ x.at = req[r].at /\ x.res = req[r].res /\ x.pc = "content" /\ x.op = "drop"
        /\ x.target = req[r].target /\ x.saw = Named(req[r].target)
    BY <1>1, <2>3 DEF Request, Op
  <2> HIDE DEF x
  <2>5. Frame(r) /\ GInv' /\ req'[r] = x /\ \A id : Spent(id) => Spent(id)'
    BY <1>1, <2>1, <2>2, <2>4, LocalStep
  <2>6. WellFormed(r)'
    BY <1>1, <2>4, <2>5 DEF RInv, WellFormed, At, Op, Under, Past, Writes
  <2>7. Knows(r)'
    BY <1>1, <2>1, <2>4, <2>5 DEF RInv, Knows, At, Op, Under, Past, Named
  <2>8. PICK v \in Named(req[r].target) : TRUE
    BY <2>1
  <2>9. Guards(r)'
    <3>1. v.data # 0
      BY <1>1 DEF RInv, Knows, Under
    <3>2. \E c \in Needed(r)' : ~Holds(r, c)'
      BY <1>1, <2>1, <2>3, <2>4, <2>5, <3>1, SomethingToLock DEF At
    <3> QED  BY <2>4, <2>5, <3>2 DEF Guards, At, Op, Past, Writes
  <2> QED  BY <2>5, <2>6, <2>7, <2>9 DEF RInv
<1> QED  BY <1>2, <1>3

\* The history a request names, read before any lock.
LEMMA PeekHistoryKeeps ==
  ASSUME IInv, NEW r \in Requests, PeekHistory(r)
  PROVE  Frame(r) /\ GInv' /\ RInv(r)'
<1>1. req[r].pc = "begin" /\ Op(r) = "purge" /\ req[r] \in Request /\ RInv(r)
  BY DEF PeekHistory, At, IInv, GInv
<1>2. CASE Refuse(r, "missing") \/ Refuse(r, "conflict")
  BY <1>1, <1>2, RefuseKeeps DEF Results
<1>3. CASE ~(Refuse(r, "missing") \/ Refuse(r, "conflict"))
  <2> DEFINE pc == IF DataOf(versions) = {} THEN "lock" ELSE "content"
             x == [req[r] EXCEPT !.saw = versions, !.pc = pc]
  <2>1. /\ UNCHANGED <<object, versions, cleaning, lock, clock>>
        /\ req' = [req EXCEPT ![r].saw = versions, ![r].pc = pc]
    BY <1>3 DEF PeekHistory
  <2>2. req' = [req EXCEPT ![r] = x]
    BY <2>1 DEF IInv, GInv
  <2>3. versions \subseteq Version
    BY Stamps DEF IInv
  <2>4. /\ x \in Request /\ x.at = req[r].at /\ x.res = req[r].res /\ x.pc = pc /\ x.op = "purge"
        /\ x.target = req[r].target /\ x.saw = versions
    BY <1>1, <2>3 DEF Request, Op
  <2> HIDE DEF x
  <2>5. Frame(r) /\ GInv' /\ req'[r] = x /\ \A id : Spent(id) => Spent(id)'
    BY <1>1, <2>1, <2>2, <2>4, LocalStep
  <2>6. WellFormed(r)'
    BY <1>1, <2>4, <2>5 DEF RInv, WellFormed, At, Op, Under, Past, Writes
  <2>7. Knows(r)'
    BY <1>1, <2>1, <2>4, <2>5 DEF RInv, Knows, At, Op, Under, Past
  <2>8. Guards(r)'
    <3>1. CASE DataOf(versions) = {}
      <4>1. Needed(r)' = {}
        BY <2>1, <2>4, <2>5, <3>1 DEF Needed, DataOf, Op
      <4> QED  BY <2>4, <2>5, <3>1, <4>1 DEF Guards, At, Op, Past, Writes
    <3>2. CASE DataOf(versions) # {}
      <4>1. PICK v \in versions : v.data # 0
        BY <3>2 DEF DataOf
      <4>2. \E c \in Needed(r)' : ~Holds(r, c)'
        BY <1>1, <2>1, <2>3, <2>4, <2>5, <4>1, SomethingToLock DEF At
      <4> QED  BY <2>4, <2>5, <3>2, <4>2 DEF Guards, At, Op, Past, Writes
    <3> QED  BY <3>1, <3>2
  <2> QED  BY <2>5, <2>6, <2>7, <2>8 DEF RInv
<1> QED  BY <1>2, <1>3

\* A content is locked, or found gone.
LEMMA LockContentKeeps ==
  ASSUME IInv, NEW r \in Requests, LockContent(r)
  PROVE  Frame(r) /\ GInv' /\ RInv(r)'
<1>1. req[r].pc = "content" /\ req[r] \in Request /\ RInv(r)
  BY DEF LockContent, At, IInv, GInv
<1>2. CASE Refuse(r, "cleanup")
  BY <1>1, <1>2, RefuseKeeps DEF Results
<1>3. CASE ~Refuse(r, "cleanup")
  <2> DEFINE todo == {c \in Needed(r) : ~Holds(r, c)}
             next == Min(todo)
             last == \A c \in Needed(r) : Holds(r, c) \/ c = next
             pc == IF last THEN "lock" ELSE "content"
             x == [req[r] EXCEPT !.pc = pc]
  <2>1. /\ Free(next) /\ ~(Writes(r) /\ next \in cleaning)
        /\ lock' = [lock EXCEPT ![next] = r]
        /\ req' = [req EXCEPT ![r].pc = pc]
        /\ UNCHANGED <<object, versions, cleaning, clock>>
    BY <1>3 DEF LockContent, Goes
  <2>2. Needed(r) \subseteq Contents
    BY <1>1 DEF RInv, WellFormed, Needed, Under, At, Op, Writes, DataOf, Request, Version
  <2>3. next \in todo
    <3>1. todo # {} /\ todo \subseteq Nat
      BY <1>1, <2>2, ObjectAssumption DEF RInv, Guards, At
    <3> QED  BY <3>1, MinIn
  <2>4. req' = [req EXCEPT ![r] = x]
    BY <2>1 DEF IInv, GInv
  <2>5. /\ x \in Request /\ x.at = req[r].at /\ x.res = req[r].res /\ x.pc = pc /\ x.op = req[r].op
        /\ x.target = req[r].target /\ x.saw = req[r].saw /\ x.data = req[r].data
    BY <1>1 DEF Request
  <2>6. next \in Rows /\ next # ObjectRow
    BY <2>2, <2>3, ObjectAssumption DEF Rows, ObjectRow
  <2>7. \A c \in Needed(r) : Holds(r, c)' <=> Holds(r, c) \/ c = next
    BY <2>1, <2>2, Stamps DEF IInv, Holds
  <2>8. last <=> \A c \in Needed(r) : Holds(r, c)'
    BY <2>7
  <2> HIDE DEF x, next, last
  <2>9. Frame(r) /\ GInv' /\ req'[r] = x /\ \A id : Spent(id) => Spent(id)'
    BY <1>1, <2>1, <2>4, <2>5, <2>6, LocalStep
  <2>10. WellFormed(r)'
    BY <1>1, <2>5, <2>9 DEF RInv, WellFormed, At, Op, Under, Past, Writes
  <2>11. Knows(r)'
    BY <1>1, <2>1, <2>5, <2>9 DEF RInv, Knows, At, Op, Under, Past, Named
  <2>12. Needed(r)' = Needed(r)
    BY <2>5, <2>9 DEF Needed, Op, DataOf
  <2>13. Writes(r) => next = req[r].data
    BY <2>3 DEF Needed, Writes, Op
  <2>14. Guards(r)'
    BY <2>1, <2>5, <2>8, <2>9, <2>12, <2>13 DEF Guards, At, Op, Past, Writes
  <2> QED  BY <2>9, <2>10, <2>11, <2>14 DEF RInv
<1> QED  BY <1>2, <1>3

\* With no objects row there is no version to find.
LEMMA LockObjectKeeps ==
  ASSUME IInv, NEW r \in Requests, LockObject(r)
  PROVE  Frame(r) /\ GInv' /\ RInv(r)'
<1>1. req[r].pc = "lock" /\ req[r] \in Request /\ RInv(r)
  BY DEF LockObject, At, IInv, GInv
<1> DEFINE x == [req[r] EXCEPT !.pc = "read"]
<1>2. /\ CanTakeObject(r) /\ TakeObject(r) /\ UNCHANGED <<object, versions, cleaning, clock>>
      /\ req' = [req EXCEPT ![r] = x]
  BY DEF LockObject, Goes, IInv, GInv
<1>3. /\ x \in Request /\ x.at = req[r].at /\ x.res = req[r].res /\ x.pc = "read" /\ x.op = req[r].op
      /\ x.target = req[r].target /\ x.saw = req[r].saw /\ x.data = req[r].data
  BY <1>1 DEF Request
<1> HIDE DEF x
<1>4. \/ lock' = lock
      \/ \E k \in Rows : /\ Free(k) \/ Holds(r, k)
                         /\ lock' = [lock EXCEPT ![k] = r]
                         /\ k = ObjectRow => object.here
  BY <1>2, Stamps DEF TakeObject, CanTakeObject, IInv
<1>5. Frame(r) /\ GInv' /\ req'[r] = x /\ \A id : Spent(id) => Spent(id)'
  BY <1>1, <1>2, <1>3, <1>4, LocalStep
<1>6. WellFormed(r)'
  BY <1>1, <1>3, <1>5 DEF RInv, WellFormed, At, Op, Under, Past, Writes
<1>7. Knows(r)'
  BY <1>1, <1>2, <1>3, <1>5 DEF RInv, Knows, At, Op, Under, Past, Named
<1>8. Needed(r)' = Needed(r)
  BY <1>3, <1>5 DEF Needed, Op, DataOf
<1>9. \A k : Holds(r, k) /\ k \in Rows => Holds(r, k)'
  BY <1>2, Stamps DEF TakeObject, IInv, Holds
<1>10. Holds(r, ObjectRow)' \/ req[r].target \notin IdsOf(versions)'
  BY <1>2, Stamps DEF TakeObject, IInv, GInv, HistoryInv, Holds, IdsOf
<1>11. Op(r) \in {"put", "restore", "drop", "purge"} => Needed(r) \subseteq Rows
  BY <1>1 DEF RInv, WellFormed, Needed, Under, Past, Op, Writes, DataOf, Request, Version, Rows
<1>12. Guards(r)'
  <2>1. /\ req'[r].pc = "read" /\ Op(r)' = Op(r) /\ req'[r].target = req[r].target /\ req'[r].data = req[r].data
        /\ cleaning' = cleaning /\ Past(r)
    BY <1>1, <1>2, <1>3, <1>5 DEF Op, Past
  <2>2. Past(r)' /\ Op(r)' \in {"put", "restore", "drop", "purge"} => \A c \in Needed(r)' : Holds(r, c)'
    BY <1>1, <1>8, <1>9, <1>11, <2>1 DEF RInv, Guards
  <2>3. Past(r)' /\ Writes(r)' => req'[r].data \notin cleaning'
    BY <1>1, <2>1 DEF RInv, Guards, Writes, Op
  <2> QED  BY <1>10, <2>1, <2>2, <2>3 DEF Guards, At
<1> QED  BY <1>5, <1>6, <1>7, <1>12 DEF RInv

\* A writer that goes on under its locks keeps them, and the content it names.
LEMMA WriterKeepsLocks ==
  ASSUME GInv, NEW r \in Requests, RInv(r), Past(r), Op(r) \in {"put", "delete"}, cleaning' = cleaning,
         Op(r)' = Op(r), req'[r].data = req[r].data,
         \A k \in Rows : Holds(r, k) => Holds(r, k)'
  PROVE  /\ Op(r)' = "put" => \A c \in Needed(r)' : Holds(r, c)'
         /\ Writes(r)' => req'[r].data \notin cleaning'
<1>1. Needed(r)' = {req[r].data} /\ Needed(r) = {req[r].data}
  BY DEF Needed, Op
<1> SUFFICES ASSUME Op(r) = "put"
             PROVE  Holds(r, req[r].data)' /\ req[r].data \notin cleaning
  BY <1>1 DEF Writes, Op
<1>2. Under(r) /\ Writes(r) /\ req[r].data \in Rows
  BY DEF Under, Writes, RInv, WellFormed, Rows
<1>3. Holds(r, req[r].data) /\ req[r].data \notin cleaning
  BY <1>1, <1>2 DEF RInv, Guards
<1> QED  BY <1>2, <1>3

\* A writer that finds the objects row has locked it.
LEMMA SelectObjectKeeps ==
  ASSUME IInv, NEW r \in Requests, SelectObject(r)
  PROVE  Frame(r) /\ GInv' /\ RInv(r)'
<1>1. /\ req[r].pc = "read" /\ Op(r) \in {"put", "delete"} /\ req[r] \in Request /\ RInv(r) /\ GInv
      /\ Past(r)
  BY DEF SelectObject, At, IInv, GInv, Past
<1> DEFINE pc == IF req[r].cond = Any THEN "write" ELSE "check"
           x == [req[r] EXCEPT !.pc = pc, !.found = object.here]
<1>2. /\ CanTakeObject(r) /\ TakeObject(r) /\ UNCHANGED <<object, versions, cleaning, clock>>
      /\ req' = [req EXCEPT ![r].pc = pc, ![r].found = object.here]
  BY DEF SelectObject, Selected
<1>3. req' = [req EXCEPT ![r] = x]
  BY <1>2 DEF IInv, GInv
<1>4. object.here \in BOOLEAN
  BY DEF IInv, GInv, HistoryInv, TypeOK
<1>5. /\ x \in Request /\ x.at = req[r].at /\ x.res = req[r].res /\ x.pc = pc /\ x.op = req[r].op
      /\ x.data = req[r].data /\ x.cond = req[r].cond /\ x.found = object.here
      /\ x.saw = req[r].saw
  BY <1>1, <1>4 DEF Request
<1>6. pc \in {"write", "check"} /\ (pc = "write" => req[r].cond = Any)
  OBVIOUS
<1> HIDE DEF x, pc
<1>7. \/ lock' = lock
      \/ \E k \in Rows : /\ Free(k) \/ Holds(r, k)
                         /\ lock' = [lock EXCEPT ![k] = r]
                         /\ k = ObjectRow => object.here
  BY <1>2, Stamps DEF TakeObject, CanTakeObject, IInv
<1>8. Frame(r) /\ GInv' /\ req'[r] = x
  BY <1>1, <1>2, <1>3, <1>5, <1>7, LocalStep
<1>9. WellFormed(r)' /\ Knows(r)'
  BY <1>1, <1>5, <1>6, <1>8 DEF RInv, WellFormed, Knows, At, Op, Under, Past, Writes
<1>10. \A k \in Rows : Holds(r, k) => Holds(r, k)'
  BY <1>2, Stamps DEF TakeObject, IInv, Holds
<1>11. object.here => Holds(r, ObjectRow)'
  BY <1>2, Stamps DEF TakeObject, IInv, Holds
<1>12. /\ Op(r)' = "put" => \A c \in Needed(r)' : Holds(r, c)'
       /\ Writes(r)' => req'[r].data \notin cleaning'
  BY <1>1, <1>2, <1>5, <1>8, <1>10, WriterKeepsLocks DEF Op
<1>13. pc = "write" => Satisfied(req[r].cond)'
  BY <1>5, <1>6, <1>8 DEF Satisfied, Any, IfNoneMatch
<1>14. Guards(r)'
  BY <1>1, <1>5, <1>6, <1>8, <1>11, <1>12, <1>13 DEF Guards, At, Op, Past
<1> QED  BY <1>8, <1>9, <1>14 DEF RInv

\* What a writer checks of a row it has locked cannot change before it writes.
LEMMA CheckConditionsKeeps ==
  ASSUME IInv, NEW r \in Requests, CheckConditions(r)
  PROVE  Frame(r) /\ GInv' /\ RInv(r)'
<1>1. /\ req[r].pc = "check" /\ Op(r) \in {"put", "delete"} /\ req[r] \in Request /\ RInv(r) /\ GInv
      /\ Past(r)
  BY DEF CheckConditions, At, IInv, GInv, RInv, WellFormed, Past
<1>2. CASE ~Satisfied(req[r].cond)
  <2>1. Refuse(r, "precondition")
    BY <1>2 DEF CheckConditions
  <2> QED  BY <1>1, <2>1, RefuseKeeps DEF Results
<1>3. CASE Satisfied(req[r].cond)
  <2> DEFINE x == [req[r] EXCEPT !.pc = "write"]
  <2>1. /\ UNCHANGED <<object, versions, cleaning, lock, clock>>
        /\ req' = [req EXCEPT ![r].pc = "write"]
    BY <1>3 DEF CheckConditions, Goes
  <2>2. req' = [req EXCEPT ![r] = x]
    BY <2>1 DEF IInv, GInv
  <2>3. /\ x \in Request /\ x.at = req[r].at /\ x.res = req[r].res /\ x.pc = "write" /\ x.op = req[r].op
        /\ x.data = req[r].data /\ x.cond = req[r].cond /\ x.found = req[r].found
        /\ x.saw = req[r].saw
    BY <1>1 DEF Request
  <2> HIDE DEF x
  <2>4. Frame(r) /\ GInv' /\ req'[r] = x
    BY <1>1, <2>1, <2>2, <2>3, LocalStep
  <2>5. WellFormed(r)' /\ Knows(r)'
    BY <1>1, <2>3, <2>4 DEF RInv, WellFormed, Knows, At, Op, Under, Past, Writes
  <2>6. \A k \in Rows : Holds(r, k) => Holds(r, k)'
    BY <2>1 DEF Holds
  <2>7. /\ Op(r)' = "put" => \A c \in Needed(r)' : Holds(r, c)'
        /\ Writes(r)' => req'[r].data \notin cleaning'
    BY <1>1, <2>1, <2>3, <2>4, <2>6, WriterKeepsLocks DEF Op
  <2>8. Satisfied(req[r].cond)'
    <3>1. req'[r].cond = req[r].cond
      BY <2>3, <2>4
    <3> QED  BY <1>3, <2>1, <3>1 DEF Satisfied, Current, Shown, Marker
  <2>9. req'[r].found => Holds(r, ObjectRow)'
    BY <1>1, <2>1, <2>3, <2>4 DEF RInv, Guards, Holds
  <2>10. Guards(r)'
    BY <1>1, <2>3, <2>4, <2>7, <2>8, <2>9 DEF Guards, At, Op, Past
  <2> QED  BY <2>4, <2>5, <2>10 DEF RInv
<1> QED  BY <1>2, <1>3

\* The source of a copy, read again under the lock.
LEMMA ReadSourceKeeps ==
  ASSUME IInv, NEW r \in Requests, ReadSource(r)
  PROVE  Frame(r) /\ GInv' /\ RInv(r)'
<1>1. req[r].pc = "read" /\ Op(r) = "restore" /\ req[r] \in Request /\ RInv(r)
  BY DEF ReadSource, At, IInv, GInv
<1>2. CASE Refuse(r, "missing") \/ Refuse(r, "conflict") \/ Refuse(r, "current")
  BY <1>1, <1>2, RefuseKeeps DEF Results
<1>3. CASE ~(Refuse(r, "missing") \/ Refuse(r, "conflict") \/ Refuse(r, "current"))
  <2> DEFINE x == [req[r] EXCEPT !.pc = "write", !.found = TRUE]
  <2>1. /\ Named(req[r].target) # {} /\ UNCHANGED <<object, versions, cleaning, lock, clock>>
        /\ req' = [req EXCEPT ![r].pc = "write", ![r].found = TRUE]
    BY <1>3 DEF ReadSource
  <2>2. req' = [req EXCEPT ![r] = x]
    BY <2>1 DEF IInv, GInv
  <2>3. /\ x \in Request /\ x.at = req[r].at /\ x.res = req[r].res /\ x.pc = "write" /\ x.op = "restore"
        /\ x.data = req[r].data /\ x.found = TRUE /\ x.target = req[r].target
    BY <1>1 DEF Request, Op
  <2> HIDE DEF x
  <2>4. Frame(r) /\ GInv' /\ req'[r] = x /\ \A id : Spent(id) => Spent(id)'
    BY <1>1, <2>1, <2>2, <2>3, LocalStep
  <2>5. WellFormed(r)' /\ Knows(r)'
    BY <1>1, <2>3, <2>4 DEF RInv, WellFormed, Knows, At, Op, Under, Past, Writes
  <2>6. Holds(r, ObjectRow)
    BY <1>1, <2>1 DEF RInv, Guards, At, Named, IdsOf
  <2>7. Needed(r)' = {req[r].data} /\ Needed(r) = {req[r].data}
    BY <1>1, <2>3, <2>4 DEF Needed, Op
  <2>8. lock'[ObjectRow] = r /\ lock'[req[r].data] = r /\ req[r].data \notin cleaning'
    BY <1>1, <2>1, <2>6, <2>7 DEF RInv, Guards, Past, Writes, Holds
  <2>9. Guards(r)'
    BY <2>3, <2>4, <2>7, <2>8 DEF Guards, At, Op, Past, Writes, Holds
  <2> QED  BY <2>4, <2>5, <2>9 DEF RInv
<1> QED  BY <1>2, <1>3

-----------------------------------------------------------------------------
(* Writing.                                                                 *)

\* A writer that found the objects row holds its lock; one that did not finds no row
\* still, and then nobody can hold it.
LEMMA InsertKeeps ==
  ASSUME IInv, NEW r \in Requests, At(r, "write"), req[r].found \/ ~object.here, InsertVersion(r)
  PROVE  Frame(r) /\ GInv' /\ RInv(r)'
<1>1. req[r].pc = "write" /\ req[r] \in Request /\ RInv(r) /\ GInv
  BY DEF At, IInv, GInv
<1> DEFINE new == [id |-> r, data |-> req[r].data, at |-> Stamp(r)]
<1>2. /\ versions' = versions \cup {new} /\ object' = [here |-> TRUE, cur |-> r]
      /\ clock' = (IF Op(r) = "delete" THEN clock ELSE clock + 1) /\ cleaning' = cleaning
      /\ End(r, "ok")
  BY DEF InsertVersion
<1>3. /\ lock' \in [Rows -> Requests \cup {None}]
      /\ \A q \in Requests \ {r} : \A k \in Rows : lock'[k] = q <=> lock[k] = q
      /\ req' \in [Requests -> Request] /\ \A q \in Requests \ {r} : req'[q] = req[q]
      /\ req'[r].at = 0 /\ req'[r].pc = "done" /\ RInv(r)'
      /\ \A id : Spent(id) => Spent(id)'
  BY <1>1, <1>2, EndKeeps DEF Results
<1>4. /\ clock \in Nat /\ clock' \in Nat /\ clock <= clock'
      /\ Stamp(r) \in Nat /\ Stamp(r) <= clock'
  <2>1. clock \in Nat /\ req[r].at \in Nat /\ req[r].at <= clock
    BY <1>1, Stamps
  <2>2. CASE Op(r) = "delete"
    BY <1>2, <2>1, <2>2 DEF Stamp
  <2>3. CASE Op(r) # "delete"
    BY <1>2, <2>1, <2>3 DEF Stamp
  <2> QED  BY <2>2, <2>3
<1>5. /\ new \in Version /\ new.id = r /\ new.at = Stamp(r) /\ new.data = req[r].data
  BY <1>1, <1>4, ObjectAssumption DEF Version, Request
<1> HIDE DEF new
<1>6. \A q \in Requests \ {r} : ~Holds(q, ObjectRow)
  <2>1. CASE req[r].found
    BY <1>1, <2>1 DEF RInv, Guards, At, Holds
  <2>2. CASE ~object.here
    BY <1>1, <2>2, Stamps DEF GInv, Holds, None
  <2> QED  BY <2>1, <2>2
<1>7. Frame(r)
  BY <1>1, <1>2, <1>3, <1>5, <1>6 DEF Frame
<1>8. req[r].data = 0 \/ req[r].data \notin cleaning
  BY <1>1 DEF RInv, WellFormed, Guards, At, Under, Past, Writes
<1>9. \A v \in versions : v.id # r
  BY <1>1 DEF GInv, Spent
<1>10. HistoryInv'
  <2>1. TypeOK'
    BY <1>1, <1>2, <1>3, <1>4, <1>5, ObjectAssumption DEF GInv, HistoryInv, TypeOK, Version
  <2>2. object'.here /\ object'.cur = r /\ new \in versions'
    BY <1>2
  <2>3. object'.cur \in IdsOf(versions')
    BY <1>5, <2>2 DEF IdsOf
  <2>4. cleaning' \cap DataOf(versions') = {}
    BY <1>1, <1>2, <1>5, <1>8 DEF GInv, HistoryInv, DataOf
  <2>5. \A v, w \in versions' : v.id = w.id => v = w
    BY <1>1, <1>2, <1>5, <1>9 DEF GInv, HistoryInv
  <2> QED  BY <2>1, <2>2, <2>3, <2>4, <2>5 DEF HistoryInv, IdsOf, DataOf
<1>11. \A q \in Requests : req'[q].at <= clock'
  <2> TAKE q \in Requests
  <2>1. req[q].at \in Nat /\ req[q].at <= clock
    BY <1>1, Stamps
  <2>2. CASE q = r
    BY <1>3, <1>4, <2>2, SMTT(30)
  <2>3. CASE q # r
    <3>1. req'[q].at = req[q].at
      BY <1>3, <2>3
    <3> QED  BY <1>4, <2>1, <3>1
  <2> QED  BY <2>2, <2>3
<1>12. \A v \in versions' : Spent(v.id)' /\ v.at <= clock'
  <2> TAKE v \in versions'
  <2>1. CASE v = new
    BY <1>3, <1>4, <1>5, <2>1 DEF Spent
  <2>2. CASE v \in versions
    <3>1. v.at \in Nat /\ v.at <= clock /\ Spent(v.id)
      BY <1>1, <2>2, Stamps DEF GInv, Version
    <3>2. v.at <= clock'
      BY <1>4, <3>1
    <3> QED  BY <1>3, <3>1, <3>2
  <2> QED  BY <1>2, <2>1, <2>2
<1>13. object'.here
  BY <1>2
<1> QED  BY <1>3, <1>7, <1>10, <1>11, <1>12, <1>13 DEF GInv

\* A request that found its read stale starts over.
LEMMA StartOverKeeps ==
  ASSUME IInv, NEW r \in Requests, At(r, "write"), ~req[r].found, StartOver(r)
  PROVE  Frame(r) /\ GInv' /\ RInv(r)'
<1>1. req[r].pc = "write" /\ req[r] \in Request /\ RInv(r) /\ GInv
  BY DEF At, IInv, GInv
<1>2. Op(r) \in {"put", "delete"} /\ clock \in Nat
  BY <1>1, Stamps DEF RInv, WellFormed, Guards, At
<1> DEFINE pc == IF Op(r) = "delete" THEN "lock" ELSE "content"
           at == IF Op(r) = "delete" THEN clock + 1 ELSE 0
           x == [req[r] EXCEPT !.pc = pc, !.at = at]
<1>3. /\ lock' = Released(r) /\ UNCHANGED <<object, versions, cleaning>>
      /\ clock' = (IF Op(r) = "delete" THEN clock + 1 ELSE clock)
      /\ req' = [req EXCEPT ![r].pc = pc, ![r].at = at]
  BY DEF StartOver
<1>4. req' = [req EXCEPT ![r] = x]
  BY <1>3 DEF IInv, GInv
<1>5. clock' \in Nat /\ clock <= clock' /\ at \in Nat /\ at <= clock'
  BY <1>2, <1>3
<1>6. x \in Request /\ x.at = at /\ x.pc = pc /\ x.res = req[r].res /\ x.op = req[r].op /\ x.data = req[r].data
  BY <1>1, <1>5 DEF Request
<1> HIDE DEF x, at
<1>7. /\ req' \in [Requests -> Request] /\ \A q \in Requests \ {r} : req'[q] = req[q]
      /\ req'[r] = x
  BY <1>4, <1>6 DEF IInv, GInv
<1>8. /\ lock' \in [Rows -> Requests \cup {None}]
      /\ \A k \in Rows : lock'[k] # r /\ (lock'[k] # None => lock'[k] = lock[k])
      /\ \A q \in Requests \ {r} : \A k \in Rows : lock'[k] = q <=> lock[k] = q
  BY <1>1, <1>3, Stamps DEF Released, Holds, None
<1>9. lock'[ObjectRow] # None => object.here
  BY <1>1, <1>8, Stamps DEF GInv
<1>10. Frame(r)
  BY <1>1, <1>3, <1>7, <1>8 DEF Frame
<1>11. \A id : Spent(id) => Spent(id)'
  BY <1>1, <1>7 DEF Spent
<1>12. \A q \in Requests : req'[q].at <= clock'
  <2> TAKE q \in Requests
  <2>1. req[q].at \in Nat /\ req[q].at <= clock
    BY <1>1, Stamps
  <2>2. CASE q = r
    BY <1>5, <1>6, <1>7, <2>2
  <2>3. CASE q # r
    <3>1. req'[q].at = req[q].at
      BY <1>7, <2>3
    <3> QED  BY <1>2, <1>5, <2>1, <3>1
  <2> QED  BY <2>2, <2>3
<1>13. GInv'
  BY <1>1, <1>3, <1>5, <1>7, <1>8, <1>9, <1>11, <1>12, RowsKept
<1>14. WellFormed(r)' /\ Knows(r)'
  BY <1>1, <1>2, <1>6, <1>7 DEF RInv, WellFormed, Knows, At, Op, Under, Past, Writes
<1>15. Op(r) = "put" => Needed(r)' = {req[r].data} /\ req[r].data \in Rows
  BY <1>1, <1>6, <1>7 DEF RInv, WellFormed, Needed, Op, Under, Past, Writes, Rows
<1>16. Guards(r)'
  BY <1>2, <1>6, <1>7, <1>8, <1>15 DEF Guards, At, Op, Past, Writes, Holds
<1> QED  BY <1>10, <1>13, <1>14, <1>16 DEF RInv

-----------------------------------------------------------------------------
(* Removing.                                                                *)

\* A request that holds the objects row and the contents it leaves to cleanup may
\* remove versions when it leaves the pointer on one that stays.
LEMMA RemovalKeeps ==
  ASSUME IInv, NEW r \in Requests, At(r, "read"), Holds(r, ObjectRow), End(r, "ok"),
         clock' = clock, versions' \subseteq versions, object' \in [here : BOOLEAN, cur : Nat],
         object'.here <=> versions' # {}, object'.here => object'.cur \in IdsOf(versions'),
         \A c \in cleaning' :
           c \in cleaning \/ (c \in Contents /\ Holds(r, c) /\ c \notin DataOf(versions'))
  PROVE  Frame(r) /\ GInv' /\ RInv(r)'
<1>1. req[r].pc = "read" /\ RInv(r) /\ GInv
  BY DEF At, IInv
<1>2. /\ lock' \in [Rows -> Requests \cup {None}]
      /\ lock'[ObjectRow] # None => lock[ObjectRow] # r
      /\ \A q \in Requests \ {r} : \A k \in Rows : lock'[k] = q <=> lock[k] = q
      /\ req' \in [Requests -> Request] /\ \A q \in Requests \ {r} : req'[q] = req[q]
      /\ req'[r].at = 0 /\ RInv(r)'
      /\ \A id : Spent(id) => Spent(id)'
  BY <1>1, EndKeeps DEF Results
<1>3. Frame(r)
  BY <1>1, <1>2 DEF Frame, Holds
<1>4. HistoryInv'
  <2>1. TypeOK'
    BY <1>1, <1>2, Stamps DEF GInv, HistoryInv, TypeOK
  <2>2. cleaning' \cap DataOf(versions') = {}
    BY <1>1 DEF GInv, HistoryInv, DataOf
  <2>3. \A v, w \in versions' : v.id = w.id => v = w
    BY <1>1 DEF GInv, HistoryInv
  <2> QED  BY <2>1, <2>2, <2>3 DEF HistoryInv, IdsOf, DataOf
<1>5. \A q \in Requests : req'[q].at <= clock'
  BY <1>1, <1>2, Stamps, SMTT(30)
<1>6. \A v \in versions' : Spent(v.id)' /\ v.at <= clock'
  BY <1>1, <1>2 DEF GInv
<1>7. lock'[ObjectRow] = None
  BY <1>2 DEF Holds
<1> QED  BY <1>2, <1>3, <1>4, <1>5, <1>6, <1>7 DEF GInv

\* repointObjectAwayFromVersion and deleteObjectIdentityIfEmpty.
LEMMA WithoutPoints ==
  ASSUME GInv, NEW id \in IdsOf(versions), NEW rest, rest = {v \in versions : v.id # id}
  PROVE  /\ Without(id) \in [here : BOOLEAN, cur : Nat]
         /\ Without(id).here <=> rest # {}
         /\ Without(id).here => Without(id).cur \in IdsOf(rest)
<1>1. object \in [here : BOOLEAN, cur : Nat] /\ object.here /\ object.cur \in IdsOf(versions)
  BY DEF GInv, HistoryInv, TypeOK, IdsOf
<1>2. CASE object.cur # id
  BY <1>1, <1>2 DEF Without, IdsOf
<1>3. CASE object.cur = id /\ rest # {}
  <2>1. Newest(rest) \in rest
    BY <1>3, Stamps, NewestIn DEF GInv
  <2>2. Newest(rest).id \in Nat /\ Newest(rest).id \in IdsOf(rest)
    BY <2>1, Stamps DEF Version, IdsOf
  <2>3. Without(id) = [object EXCEPT !.cur = Newest(rest).id]
    BY <1>3 DEF Without
  <2> QED  BY <1>1, <1>3, <2>2, <2>3
<1>4. CASE object.cur = id /\ rest = {}
  <2>1. Without(id) = Absent
    BY <1>4 DEF Without
  <2> QED  BY <1>4, <2>1 DEF Absent, None
<1> QED  BY <1>2, <1>3, <1>4

\* DeleteObject with a version id.
LEMMA RemoveVersionKeeps ==
  ASSUME IInv, NEW r \in Requests, At(r, "read"), Op(r) \in {"unmark", "drop"},
         Named(req[r].target) # {}, RemoveVersion(r)
  PROVE  Frame(r) /\ GInv' /\ RInv(r)'
<1> DEFINE gone == Named(req[r].target)
           rest == {v \in versions : v.id # req[r].target}
<1>1. RInv(r) /\ GInv /\ Past(r) /\ Under(r) /\ ~At(r, "begin")
  BY DEF At, IInv, Past, Under
<1>2. versions \ gone = rest /\ gone \subseteq versions
  BY DEF Named
<1>3. /\ object' = Without(req[r].target) /\ versions' = rest /\ clock' = clock /\ End(r, "ok")
      /\ cleaning' = cleaning \cup (DataOf(gone) \ DataOf(rest))
  BY <1>2 DEF RemoveVersion, Unnamed
<1>4. req[r].target \in IdsOf(versions) /\ Holds(r, ObjectRow)
  BY <1>1 DEF RInv, Guards, Named, IdsOf
<1>5. /\ object' \in [here : BOOLEAN, cur : Nat]
      /\ object'.here <=> versions' # {}
      /\ object'.here => object'.cur \in IdsOf(versions')
  BY <1>1, <1>3, <1>4, WithoutPoints
<1>6. \A c \in DataOf(gone) : c \in Contents /\ Holds(r, c)
  <2>1. CASE Op(r) = "unmark"
    BY <1>1, <2>1 DEF RInv, Knows, DataOf
  <2>2. CASE Op(r) = "drop"
    <3>1. DataOf(gone) \subseteq Needed(r)
      BY <1>1, <2>2 DEF RInv, Knows, Needed, DataOf
    <3>2. DataOf(gone) \subseteq Contents
      BY <1>1, <1>2, Stamps, SMTT(30) DEF DataOf, Version
    <3> QED  BY <1>1, <2>2, <3>1, <3>2 DEF RInv, Guards
  <2> QED  BY <2>1, <2>2
<1> HIDE DEF gone, rest
<1>7. versions' \subseteq versions
  BY <1>2, <1>3
<1>8. \A c \in cleaning' :
        c \in cleaning \/ (c \in Contents /\ Holds(r, c) /\ c \notin DataOf(versions'))
  BY <1>3, <1>6
<1> QED  BY <1>3, <1>4, <1>5, <1>7, <1>8, RemovalKeeps

\* DeleteDeletedObjectPermanently removes a whole history.
LEMMA PurgeKeeps ==
  ASSUME IInv, NEW r \in Requests, DeleteDeletedObjectPermanently(r)
  PROVE  Frame(r) /\ GInv' /\ RInv(r)'
<1>1. /\ req[r].pc = "read" /\ Op(r) = "purge" /\ At(r, "read") /\ RInv(r) /\ GInv
      /\ Past(r)
  BY DEF DeleteDeletedObjectPermanently, At, IInv, Past
<1>2. CASE Refuse(r, "missing") \/ Refuse(r, "conflict") \/ Refuse(r, "busy")
  BY <1>1, <1>2, RefuseKeeps DEF Results
<1>3. CASE ~(Refuse(r, "missing") \/ Refuse(r, "conflict") \/ Refuse(r, "busy"))
  <2>1. /\ HistorySeen(r) /\ object' = Absent /\ versions' = {}
        /\ cleaning' = cleaning \cup DataOf(versions) /\ clock' = clock /\ End(r, "ok")
    BY <1>3 DEF DeleteDeletedObjectPermanently
  <2>2. Holds(r, ObjectRow)
    BY <1>1, <2>1 DEF HistorySeen, MarkerCurrent, Current, IdsOf, RInv, Guards
  <2>3. Needed(r) = DataOf(versions) /\ DataOf(versions) \subseteq Contents
    BY <1>1, <2>1, Stamps DEF HistorySeen, Needed, DataOf, Version
  <2>4. \A c \in DataOf(versions) : Holds(r, c)
    BY <1>1, <2>3 DEF RInv, Guards
  <2>5. /\ object' \in [here : BOOLEAN, cur : Nat] /\ ~object'.here /\ DataOf(versions') = {}
        /\ versions' \subseteq versions
    BY <2>1 DEF Absent, None, DataOf
  <2>6. \A c \in cleaning' :
          c \in cleaning \/ (c \in Contents /\ Holds(r, c) /\ c \notin DataOf(versions'))
    BY <2>1, <2>3, <2>4, <2>5
  <2> QED  BY <1>1, <2>1, <2>2, <2>5, <2>6, RemovalKeeps
<1> QED  BY <1>2, <1>3

\* RestoreCurrentDeleteMarkerStack removes the delete markers on top.
LEMMA UndeleteKeeps ==
  ASSUME IInv, NEW r \in Requests, RestoreCurrentDeleteMarkerStack(r)
  PROVE  Frame(r) /\ GInv' /\ RInv(r)'
<1>1. req[r].pc = "read" /\ Op(r) = "undelete" /\ At(r, "read") /\ RInv(r) /\ GInv
  BY DEF RestoreCurrentDeleteMarkerStack, At, IInv
<1>2. CASE Refuse(r, "missing") \/ Refuse(r, "conflict")
  BY <1>1, <1>2, RefuseKeeps DEF Results
<1>3. CASE ~(Refuse(r, "missing") \/ Refuse(r, "conflict"))
  <2> DEFINE data == Shown(versions)
             stack == {v \in versions : \A d \in data : d.at < v.at}
  <2>1. /\ Current # {} /\ MarkerCurrent(r) /\ data # {}
        /\ object' = [object EXCEPT !.cur = Newest(data).id]
        /\ versions' = versions \ stack /\ cleaning' = cleaning /\ clock' = clock /\ End(r, "ok")
    BY <1>3 DEF RestoreCurrentDeleteMarkerStack
  <2>2. Holds(r, ObjectRow)
    BY <1>1, <2>1 DEF MarkerCurrent, Current, IdsOf, RInv, Guards
  <2>3. data \subseteq versions /\ versions \subseteq Version /\ clock \in Nat
    BY <1>1, Stamps DEF Shown
  <2>4. \A v \in data : v.at <= clock
    BY <1>1, <2>3 DEF GInv
  <2> HIDE DEF data
  <2>5. Newest(data) \in data
    BY <2>1, <2>3, <2>4, NewestIn
  <2>6. Newest(data) \in versions' /\ Newest(data).id \in Nat
    <3>1. Newest(data).at \in Nat /\ Newest(data).id \in Nat
      BY <2>3, <2>5 DEF Version
    <3>2. ~(Newest(data).at < Newest(data).at)
      BY <3>1
    <3> QED  BY <2>1, <2>3, <2>5, <3>1, <3>2
  <2>7. object \in [here : BOOLEAN, cur : Nat] /\ object.here
    BY <1>1, <2>1 DEF GInv, HistoryInv, TypeOK, Current
  <2>8. /\ object' \in [here : BOOLEAN, cur : Nat] /\ object'.here
        /\ object'.cur = Newest(data).id
    BY <2>1, <2>6, <2>7
  <2>9. object'.cur \in IdsOf(versions')
    BY <2>6, <2>8 DEF IdsOf
  <2>10. versions' \subseteq versions /\ versions' # {}
    BY <2>1, <2>6
  <2> QED  BY <1>1, <2>1, <2>2, <2>8, <2>9, <2>10, RemovalKeeps
<1> QED  BY <1>2, <1>3

-----------------------------------------------------------------------------
(* Every step.                                                              *)

\* The steps of a request, one by one.
LEMMA RequestStep ==
  ASSUME IInv, NEW r \in Requests, Begin(r) \/ Continue(r)
  PROVE  Frame(r) /\ GInv' /\ RInv(r)'
<1>1. CASE Begin(r)
  BY <1>1, BeginKeeps
<1>2. CASE PeekVersion(r) \/ PeekHistory(r)
  BY <1>2, PeekVersionKeeps, PeekHistoryKeeps
<1>3. CASE LockContent(r) \/ LockObject(r)
  BY <1>3, LockContentKeeps, LockObjectKeeps
<1>4. CASE SelectObject(r) \/ CheckConditions(r) \/ ReadSource(r)
  BY <1>4, SelectObjectKeeps, CheckConditionsKeeps, ReadSourceKeeps
<1>5. CASE WriteVersion(r)
  <2>1. /\ At(r, "write") /\ req[r].pc # "done"
        /\ \/ (req[r].found \/ ~object.here) /\ InsertVersion(r)
           \/ ~req[r].found /\ StartOver(r)
           \/ Refuse(r, "contended")
    BY <1>5 DEF WriteVersion, At
  <2> QED  BY <2>1, InsertKeeps, StartOverKeeps, RefuseKeeps DEF Results
<1>6. CASE DeleteMarkerVersion(r)
  <2>1. /\ At(r, "read") /\ req[r].pc # "done" /\ Op(r) = "unmark"
        /\ \/ Refuse(r, "missing") \/ Refuse(r, "precondition")
           \/ Named(req[r].target) # {} /\ RemoveVersion(r)
    BY <1>6 DEF DeleteMarkerVersion, At
  <2> QED  BY <2>1, RefuseKeeps, RemoveVersionKeeps DEF Results
<1>7. CASE DeleteObjectVersionPermanently(r)
  <2>1. /\ At(r, "read") /\ req[r].pc # "done" /\ Op(r) = "drop"
        /\ \/ Refuse(r, "missing") \/ Refuse(r, "precondition") \/ Refuse(r, "busy")
           \/ Named(req[r].target) # {} /\ RemoveVersion(r)
    BY <1>7 DEF DeleteObjectVersionPermanently, At
  <2> QED  BY <2>1, RefuseKeeps, RemoveVersionKeeps DEF Results
<1>8. CASE DeleteDeletedObjectPermanently(r) \/ RestoreCurrentDeleteMarkerStack(r)
  BY <1>8, PurgeKeeps, UndeleteKeeps
<1> QED  BY <1>1, <1>2, <1>3, <1>4, <1>5, <1>6, <1>7, <1>8 DEF Continue

\* Every step keeps the invariant.
LEMMA ObjectsStep == IInv /\ [Next]_vars => IInv'
<1> SUFFICES ASSUME IInv, [Next]_vars PROVE IInv'
  OBVIOUS
<1>1. CASE Next
  <2>1. PICK r \in Requests : Begin(r) \/ Continue(r)
    BY <1>1 DEF Next
  <2>2. Frame(r) /\ GInv' /\ RInv(r)'
    BY <2>1, RequestStep
  <2>3. \A q \in Requests \ {r} : RInv(q)'
    BY <2>2, FrameKnows, FrameGuards DEF IInv, RInv
  <2> QED  BY <2>2, <2>3 DEF IInv
<1>2. CASE UNCHANGED vars
  BY <1>2 DEF vars, IInv, GInv, HistoryInv, TypeOK, IdsOf, DataOf, Spent, RInv, WellFormed, Knows,
              Guards, At, Op, Under, Past, Writes, Named, Needed, Holds, Satisfied, Current, Shown, Marker
<1> QED  BY <1>1, <1>2

\* The histories the program starts from.
LEMMA ObjectsInit == Init => IInv
<1> SUFFICES ASSUME Init PROVE IInv
  OBVIOUS
<1>1. PICK h \in Histories :
        /\ versions = {[id |-> i, data |-> h[i], at |-> i] : i \in DOMAIN h}
        /\ object = IF h = <<>> THEN Absent ELSE [here |-> TRUE, cur |-> Len(h)]
        /\ clock = Len(h)
  BY DEF Init
<1>2. /\ h \in Seq(Contents \cup {0}) /\ Len(h) \in Nat /\ DOMAIN h = 1 .. Len(h)
      /\ h # <<>> => Len(h) \in DOMAIN h
      /\ \A r \in Requests : r > Len(h) /\ r \in Nat
  BY ObjectAssumption
<1>3. \A i \in DOMAIN h : i \in Nat /\ i <= Len(h) /\ i \notin Requests /\ h[i] \in Contents \cup {0}
  BY <1>2
<1>4. req = [r \in Requests |-> Idle] /\ lock = [k \in Rows |-> None] /\ cleaning = {}
  BY DEF Init
<1>5. /\ req \in [Requests -> Request]
      /\ \A r \in Requests : /\ req[r].at = 0 /\ req[r].pc = "idle"
                            /\ req[r].op = "none" /\ req[r].res = "none"
  BY <1>4, IdleTyped DEF Idle
<1>6. HistoryInv
  <2>1. TypeOK
    BY <1>1, <1>2, <1>3, <1>4 DEF TypeOK, Absent, None
  <2>2. CASE h = <<>>
    <3>1. ~object.here /\ versions = {}
      BY <1>1, <2>2 DEF Absent
    <3> QED  BY <1>4, <2>1, <3>1 DEF HistoryInv
  <2>3. CASE h # <<>>
    <3> DEFINE v == [id |-> Len(h), data |-> h[Len(h)], at |-> Len(h)]
    <3>1. object.here /\ object.cur = Len(h) /\ v \in versions /\ v.id = Len(h)
      BY <1>1, <1>2, <2>3
    <3> HIDE DEF v
    <3>2. object.cur \in IdsOf(versions)
      BY <3>1 DEF IdsOf
    <3> QED  BY <1>1, <1>4, <2>1, <3>1, <3>2 DEF HistoryInv
  <2> QED  BY <2>2, <2>3
<1>7. \A v \in versions : Spent(v.id) /\ v.at <= clock
  BY <1>1, <1>3 DEF Spent
<1>8. GInv
  BY <1>1, <1>2, <1>4, <1>5, <1>6, <1>7 DEF GInv, Rows
<1>9. \A r \in Requests : RInv(r)
  BY <1>4, <1>5, ObjectAssumption DEF RInv, WellFormed, Knows, Guards, At, Op, Under, Past, Holds,
                                        None
<1> QED  BY <1>8, <1>9 DEF IInv

-----------------------------------------------------------------------------
(* The theorems.                                                            *)

\* The locks and names a request relies on stay as it found them: the invariant the
\* other results rest on.
THEOREM ObjectsInductive == Spec => []IInv
BY ObjectsInit, ObjectsStep, PTL DEF Spec

\* Whatever requests put, copy, delete, restore and purge, the objects row is there
\* exactly while the key has versions, points to one of them, and no version names a
\* content whose cleanup has started.
THEOREM HistorySafe == Spec => []HistoryInv
<1>1. IInv => HistoryInv
  BY DEF IInv, GInv
<1> QED  BY <1>1, ObjectsInductive, PTL

\* Only a request at "write" commits a put or a delete.  What it checked of a row it had
\* locked still holds, and one that had found no row finds the key empty.
LEMMA CommitSatisfied ==
  ASSUME IInv, [Next]_vars, NEW r \in Requests, Commits(r), Op(r) \in {"put", "delete"}
  PROVE  Satisfied(req[r].cond) \/ (req[r].cond \in Matches /\ Current = {})
<1>1. req \in [Requests -> Request] /\ RInv(r) /\ req[r].pc # "done" /\ req'[r].res = "ok"
  BY DEF IInv, GInv, Commits
<1>2. req[r].res = "none" /\ req[r].pc # "idle"
  BY <1>1 DEF RInv, WellFormed, At, Op, Under, Past
<1>3. req' # req
  BY <1>1, <1>2
<1>4. PICK q \in Requests : Begin(q) \/ Continue(q)
  BY <1>3 DEF Next, vars
<1>5. q = r
  BY <1>1, <1>2, <1>4, RequestStep DEF Frame
<1>6. ~Begin(r)
  <2>1. ASSUME NEW ask PROVE ~Arrive(r, ask)
    BY <1>2, ObjectAssumption DEF Arrive
  <2>2. ASSUME NEW ask PROVE ~Ask(r, ask)
    BY <2>1 DEF Ask
  <2> QED  BY <2>1, <2>2 DEF Begin, PutObject, CopyObject, DeleteObject, DeleteVersion,
                             RestoreObjectVersion, RestoreDeleted, PurgeDeleted
<1>7. \A res : Refuse(r, res) => res = "ok"
  BY <1>1 DEF Refuse, End, Idle
<1>8. ~LockContent(r) /\ ~LockObject(r) /\ ~CheckConditions(r)
  <2>1. ASSUME NEW pc PROVE ~Goes(r, pc)
    <3>1. [req[r] EXCEPT !.pc = pc].res = "none"
      BY <1>1, <1>2 DEF Request
    <3> QED  BY <1>1, <3>1 DEF Goes
  <2> QED  BY <1>7, <2>1 DEF LockContent, LockObject, CheckConditions
<1>9. ~SelectObject(r)
  <2>1. ASSUME NEW pc PROVE req' # [req EXCEPT ![r].pc = pc, ![r].found = object.here]
    <3>1. [req[r] EXCEPT !.pc = pc, !.found = object.here].res = "none"
      BY <1>1, <1>2 DEF Request
    <3> QED  BY <1>1, <3>1
  <2> QED  BY <2>1 DEF SelectObject, Selected
<1>10. WriteVersion(r)
  BY <1>4, <1>5, <1>6, <1>8, <1>9 DEF Continue, PeekVersion, PeekHistory, ReadSource, DeleteMarkerVersion,
     DeleteObjectVersionPermanently, DeleteDeletedObjectPermanently, RestoreCurrentDeleteMarkerStack
<1>11. ~StartOver(r)
  <2> DEFINE pc == IF Op(r) = "delete" THEN "lock" ELSE "content"
             at == IF Op(r) = "delete" THEN clock + 1 ELSE 0
             x == [req[r] EXCEPT !.pc = pc, !.at = at]
  <2>1. x.res = "none"
    BY <1>1, <1>2 DEF Request
  <2>2. StartOver(r) => req' = [req EXCEPT ![r] = x]
    BY <1>1 DEF StartOver
  <2> HIDE DEF x
  <2> QED  BY <1>1, <2>1, <2>2
<1>12. At(r, "write") /\ (req[r].found \/ ~object.here)
  BY <1>7, <1>10, <1>11 DEF WriteVersion
<1>13. CASE req[r].found
  BY <1>1, <1>12, <1>13 DEF RInv, Guards
<1>14. CASE ~req[r].found
  <2>1. Current = {} /\ req[r].cond \in {Any, IfNoneMatch} \cup Matches
    BY <1>1, <1>12, <1>14 DEF Current, Request, Conditions
  <2> QED  BY <2>1 DEF Satisfied, Shown, Any, IfNoneMatch
<1> QED  BY <1>13, <1>14

\* A conditional PUT, copy or delete takes effect only while its condition holds of
\* the current version, however many requests race for the key; all that may escape is
\* an If-Match request that comes upon an empty key after its match has gone.
THEOREM ConditionsSafe == Spec => ConditionsHeld
<1>1. IInv /\ [Next]_vars =>
        [\A r \in Requests : Commits(r) /\ Op(r) \in {"put", "delete"} =>
           Satisfied(req[r].cond) \/ (req[r].cond \in Matches /\ Current = {})]_vars
  BY CommitSatisfied
<1> QED  BY <1>1, ObjectsInductive, PTL DEF Spec, ConditionsHeld

\* The versions a step removes, and the request that does.
LEMMA RemovalNamed ==
  ASSUME IInv, Next, NEW v \in versions, v \notin versions'
  PROVE  \E r \in Requests :
           /\ Commits(r)
           /\ \/ Op(r) \in {"unmark", "drop"} /\ req[r].target = v.id
              \/ Op(r) = "undelete" /\ req[r].target = object.cur /\ Marker(v)
              \/ Op(r) = "purge" /\ req[r].target = object.cur /\ v \in req[r].saw
<1>1. PICK r \in Requests : Begin(r) \/ Continue(r)
  BY DEF Next
<1>2. req \in [Requests -> Request] /\ versions \subseteq Version
  BY Stamps DEF IInv, GInv
<1>3. ~Begin(r)
  <2>1. ASSUME NEW ask PROVE ~Arrive(r, ask)
    BY DEF Arrive
  <2>2. ASSUME NEW ask PROVE ~Ask(r, ask)
    BY <2>1 DEF Ask
  <2> QED  BY <2>1, <2>2 DEF Begin, PutObject, CopyObject, DeleteObject, DeleteVersion,
                             RestoreObjectVersion, RestoreDeleted, PurgeDeleted
<1>4. \A res : ~Refuse(r, res)
  BY DEF Refuse
<1>5. /\ ~PeekVersion(r) /\ ~PeekHistory(r) /\ ~LockContent(r) /\ ~LockObject(r)
      /\ ~SelectObject(r) /\ ~CheckConditions(r)
  BY <1>4 DEF PeekVersion, PeekHistory, LockContent, LockObject, SelectObject, CheckConditions
<1>6. ~ReadSource(r) /\ ~WriteVersion(r)
  BY <1>4 DEF ReadSource, WriteVersion, InsertVersion, StartOver
<1>7. ASSUME End(r, "ok"), At(r, "read") PROVE Commits(r)
  BY <1>2, <1>7 DEF End, At, Commits, Idle
<1>8. MarkerCurrent(r) => req[r].target = object.cur
  BY DEF MarkerCurrent, IdsOf, Current
<1>9. CASE DeleteMarkerVersion(r) \/ DeleteObjectVersionPermanently(r)
  <2>1. At(r, "read") /\ Op(r) \in {"unmark", "drop"} /\ RemoveVersion(r)
    BY <1>4, <1>9 DEF DeleteMarkerVersion, DeleteObjectVersionPermanently
  <2>2. v.id = req[r].target /\ End(r, "ok")
    BY <2>1 DEF RemoveVersion, Named
  <2> QED  BY <1>7, <2>1, <2>2
<1>10. CASE DeleteDeletedObjectPermanently(r)
  <2>1. At(r, "read") /\ Op(r) = "purge" /\ HistorySeen(r) /\ End(r, "ok")
    BY <1>4, <1>10 DEF DeleteDeletedObjectPermanently
  <2> QED  BY <1>7, <1>8, <2>1 DEF HistorySeen
<1>11. CASE RestoreCurrentDeleteMarkerStack(r)
  <2>1. /\ At(r, "read") /\ Op(r) = "undelete" /\ MarkerCurrent(r) /\ End(r, "ok")
        /\ \A d \in Shown(versions) : d.at < v.at
    BY <1>4, <1>11 DEF RestoreCurrentDeleteMarkerStack
  <2>2. ~(v.at < v.at)
    BY <1>2 DEF Version
  <2>3. Marker(v)
    BY <2>1, <2>2 DEF Shown
  <2> QED  BY <1>7, <1>8, <2>1, <2>3
<1> QED  BY <1>1, <1>3, <1>5, <1>6, <1>9, <1>10, <1>11 DEF Continue

\* No request removes a version it has not named, and a trash restore or a permanent
\* delete goes through only while the delete marker it was asked for is current.
THEOREM OnlyNamedRemoved == Spec => OnlyNamedGoes
<1>1. IInv /\ [Next]_vars =>
        [\A v \in versions : v \notin versions' =>
           \E r \in Requests :
             /\ Commits(r)
             /\ \/ Op(r) \in {"unmark", "drop"} /\ req[r].target = v.id
                \/ Op(r) = "undelete" /\ req[r].target = object.cur /\ Marker(v)
                \/ Op(r) = "purge" /\ req[r].target = object.cur /\ v \in req[r].saw]_vars
  BY RemovalNamed
<1> QED  BY <1>1, ObjectsInductive, PTL DEF Spec, OnlyNamedGoes

-----------------------------------------------------------------------------
(***************************************************************************)
(* Multipart.                                                              *)
(***************************************************************************)

\* Where a request holds the gate, and where it completes the upload.
PastGate == {"record", "validate", "assemble", "commit", "rollback", "clean", "abort",
             "forget"}
Completing == {"validate", "assemble", "commit"}
UploadRequests == [pc : {"idle", "publish"} \cup PastGate,
                   part : Parts \cup {Nothing}, bytes : Bytes \cup {Nothing},
                   list : Lists \cup {<<>>}, staged : Lists \cup {<<>>}]

UploadTypes ==
  /\ UploadTypeOK
  /\ run \in [Clients -> UploadRequests]

\* One request at a time goes past the gate, and a part is published by one that
\* knows what it publishes.
Gated ==
  \A c \in Clients :
    /\ run[c].pc \in PastGate => gate = c
    /\ run[c].pc \in {"publish", "record"} => run[c].part \in Parts /\ run[c].bytes \in Bytes

\* What the holder of the gate may rely on.
Relied ==
  \A c \in Clients :
    /\ run[c].pc = "record" => status = "initiated"
    /\ run[c].pc \in Completing => status = "completing" /\ run[c].list \in Lists
    /\ run[c].pc \in {"assemble", "commit"} => Restricted(rows, ListedParts(c)) = run[c].list
    /\ run[c].pc = "commit" => run[c].staged = run[c].list
    /\ run[c].pc \in {"abort", "forget"} => status = "aborted"
    /\ run[c].pc = "rollback" => status \in {"completing", "completed"}
    /\ run[c].pc = "clean" => status = "completed"

\* The object, and the rows it was made of.
ObjectMade ==
  /\ status # "completed" => made = {}
  /\ status = "completed" => \E o : made = {o}
  /\ \A o \in made : rows = [p \in Parts |-> IF p \in DOMAIN o THEN o[p] ELSE Nothing]

\* Who is completing the upload.
InFlight ==
  status = "completing" /\ ~stranded =>
    \E c \in Clients : gate = c /\ run[c].pc \in {"validate", "assemble", "commit", "rollback"}

UploadIInv == UploadTypes /\ Gated /\ Relied /\ ObjectMade /\ InFlight

-----------------------------------------------------------------------------
\* A request that ends is idle again and has let go of the gate.
LEMMA RequestEnds ==
  ASSUME UploadTypes, NEW c \in Clients, EndRequest(c)
  PROVE  /\ run' \in [Clients -> UploadRequests] /\ run'[c] = NoRequest /\ run'[c].pc = "idle"
         /\ \A d \in Clients : d # c => run'[d] = run[d]
         /\ gate' \in Clients \cup {Nothing, Reconciler}
         /\ gate = c => gate' = Nothing
         /\ gate # c => gate' = gate
<1>1. NoRequest \in UploadRequests /\ NoRequest.pc = "idle"
  BY DEF NoRequest, UploadRequests
<1> QED  BY <1>1 DEF UploadTypes, UploadTypeOK, EndRequest

\* A request that goes on changes only its position.
LEMMA RequestProceeds ==
  ASSUME UploadTypes, NEW c \in Clients, NEW pc \in {"idle", "publish"} \cup PastGate, RequestGoes(c, pc)
  PROVE  /\ run' \in [Clients -> UploadRequests] /\ run'[c].pc = pc
         /\ run'[c].part = run[c].part /\ run'[c].bytes = run[c].bytes
         /\ run'[c].list = run[c].list /\ run'[c].staged = run[c].staged
         /\ \A d \in Clients : d # c => run'[d] = run[d]
<1>1. run[c] \in UploadRequests
  BY DEF UploadTypes
<1>2. [run[c] EXCEPT !.pc = pc] \in UploadRequests
  BY <1>1 DEF UploadRequests
<1>3. run' = [run EXCEPT ![c] = [run[c] EXCEPT !.pc = pc]]
  BY DEF RequestGoes, UploadTypes
<1> QED  BY <1>1, <1>2, <1>3 DEF UploadTypes, UploadRequests

\* Only the holder of the gate is past it.
LEMMA OthersWait ==
  ASSUME Gated, NEW c \in Clients, gate = c \/ gate = Nothing \/ gate = Reconciler
  PROVE  \A d \in Clients : d # c => run[d].pc \notin PastGate
BY UploadAssumption DEF Gated

-----------------------------------------------------------------------------
(* The operations keep the invariant.                                      *)

\* CreateMultipartUpload opens the upload; nobody is past the gate before that.
LEMMA CreateKeeps == ASSUME UploadIInv, CreateMultipartUpload PROVE UploadIInv'
<1>1. UploadTypes'
  BY DEF UploadIInv, UploadTypes, UploadTypeOK, CreateMultipartUpload
<1>2. Gated' /\ InFlight'
  BY DEF UploadIInv, Gated, InFlight, CreateMultipartUpload
<1>3. Relied'
  BY DEF UploadIInv, Relied, Completing, CreateMultipartUpload, ListedParts
<1>4. ObjectMade'
  BY DEF UploadIInv, ObjectMade, CreateMultipartUpload
<1> QED  BY <1>1, <1>2, <1>3, <1>4 DEF UploadIInv

\* A request starts: it alone changes, and it holds the gate when it is past it.
LEMMA UploadPartKeeps == ASSUME UploadIInv, NEW c \in Clients, UploadPart(c) PROVE UploadIInv'
<1>1. PICK p \in Parts, b \in Bytes :
        run' = [run EXCEPT ![c] = [NoRequest EXCEPT !.pc = "publish", !.part = p, !.bytes = b]]
  BY DEF UploadPart
<1> DEFINE new == [NoRequest EXCEPT !.pc = "publish", !.part = p, !.bytes = b]
<1>2. new \in UploadRequests /\ new.pc = "publish" /\ new.part = p /\ new.bytes = b
  BY DEF NoRequest, UploadRequests
<1> HIDE DEF new
<1>3. run' \in [Clients -> UploadRequests] /\ run'[c] = new /\ \A d \in Clients : d # c => run'[d] = run[d]
  BY <1>1, <1>2 DEF UploadIInv, UploadTypes, new
<1>4. UNCHANGED <<status, rows, files, made, gate, stranded>> /\ run[c].pc = "idle"
  BY DEF UploadPart, RequestAt
<1>5. UploadTypes'
  BY <1>3, <1>4 DEF UploadIInv, UploadTypes, UploadTypeOK
<1>6. Gated'
  BY <1>2, <1>3, <1>4 DEF UploadIInv, Gated, PastGate
<1>7. Relied'
  BY <1>2, <1>3, <1>4 DEF UploadIInv, Relied, Completing, ListedParts
<1>8. ObjectMade' /\ InFlight'
  BY <1>2, <1>3, <1>4 DEF UploadIInv, ObjectMade, InFlight
<1> QED  BY <1>5, <1>6, <1>7, <1>8 DEF UploadIInv

\* publishPart puts the file in place under the gate of an upload that is initiated.
LEMMA PublishFileKeeps == ASSUME UploadIInv, NEW c \in Clients, PublishFile(c) PROVE UploadIInv'
<1>1. UNCHANGED <<status, rows, made, stranded>> /\ run[c].pc = "publish" /\ gate = Nothing /\ gate # c
  BY UploadAssumption DEF PublishFile, RequestAt
<1>2. UploadTypes /\ Gated /\ Relied /\ ObjectMade /\ InFlight
  BY DEF UploadIInv
<1>3. CASE EndRequest(c) /\ UNCHANGED files
  <2>1. /\ run' \in [Clients -> UploadRequests] /\ run'[c].pc = "idle"
        /\ \A d \in Clients : d # c => run'[d] = run[d]
        /\ gate' = gate
    BY <1>1, <1>2, <1>3, RequestEnds
  <2>2. UploadTypes'
    BY <1>1, <1>2, <1>3, <2>1 DEF UploadTypes, UploadTypeOK
  <2>3. Gated'
    BY <1>1, <1>2, <2>1 DEF Gated, PastGate
  <2>4. Relied'
    BY <1>1, <1>2, <2>1 DEF Relied, Completing, ListedParts
  <2>5. ObjectMade' /\ InFlight'
    BY <1>1, <1>2, <2>1 DEF ObjectMade, InFlight
  <2> QED  BY <2>2, <2>3, <2>4, <2>5 DEF UploadIInv
<1>4. CASE /\ MayPublish /\ Hold(c) /\ RequestGoes(c, "record")
           /\ files' = [files EXCEPT ![run[c].part] = run[c].bytes]
  <2>1. /\ run' \in [Clients -> UploadRequests] /\ run'[c].pc = "record"
        /\ run'[c].part = run[c].part /\ run'[c].bytes = run[c].bytes
        /\ \A d \in Clients : d # c => run'[d] = run[d]
    BY <1>2, <1>4, RequestProceeds DEF PastGate
  <2>2. status = "initiated" /\ gate' = c
    BY <1>4 DEF MayPublish, Active, Hold
  <2>3. \A d \in Clients : d # c => run[d].pc \notin PastGate
    BY <1>1, <1>2, OthersWait
  <2>4. files' \in [Parts -> Bytes \cup {Nothing}]
    BY <1>1, <1>2, <1>4 DEF UploadTypes, UploadTypeOK, Gated
  <2>5. UploadTypes'
    BY <1>1, <1>2, <2>1, <2>2, <2>4 DEF UploadTypes, UploadTypeOK
  <2>6. Gated'
    BY <1>1, <1>2, <2>1, <2>2, <2>3 DEF Gated
  <2>7. Relied'
    BY <1>1, <1>2, <2>1, <2>2 DEF Relied, Completing, ListedParts
  <2>8. ObjectMade' /\ InFlight'
    BY <1>1, <1>2, <2>2 DEF ObjectMade, InFlight
  <2> QED  BY <2>5, <2>6, <2>7, <2>8 DEF UploadIInv
<1> QED  BY <1>3, <1>4 DEF PublishFile

\* CreatePart runs under the gate of an initiated upload: no object exists, and no
\* completion has looked at the rows.
LEMMA CreatePartKeeps == ASSUME UploadIInv, NEW c \in Clients, CreatePart(c) PROVE UploadIInv'
<1>1. UploadTypes /\ Gated /\ Relied /\ ObjectMade /\ InFlight
  BY DEF UploadIInv
<1>2. UNCHANGED <<status, files, made, stranded>> /\ run[c].pc = "record" /\ gate = c /\ status = "initiated"
  BY <1>1 DEF CreatePart, RequestAt, Gated, Relied, PastGate
<1>3. /\ run' \in [Clients -> UploadRequests] /\ run'[c].pc = "idle"
      /\ \A d \in Clients : d # c => run'[d] = run[d]
      /\ gate' = Nothing
  BY <1>1, <1>2, RequestEnds DEF CreatePart
<1>4. \A d \in Clients : d # c => run[d].pc \notin PastGate
  BY <1>1, <1>2, OthersWait
<1>5. rows' \in [Parts -> Bytes \cup {Nothing}]
  BY <1>1, <1>2 DEF CreatePart, UploadTypes, UploadTypeOK, Gated
<1>6. UploadTypes'
  BY <1>1, <1>2, <1>3, <1>5 DEF UploadTypes, UploadTypeOK
<1>7. Gated'
  BY <1>1, <1>3, <1>4 DEF Gated, PastGate
<1>8. Relied'
  BY <1>1, <1>2, <1>3, <1>4 DEF Relied, Completing, PastGate
<1>9. ObjectMade' /\ InFlight'
  BY <1>1, <1>2 DEF ObjectMade, InFlight
<1> QED  BY <1>6, <1>7, <1>8, <1>9 DEF UploadIInv

\* A transition of an initiated upload whose answer is lost: nobody is past the gate,
\* and nobody takes it.
LEMMA TransitionUnanswered ==
  ASSUME UploadIInv, NEW to \in {"completing", "aborted"}, Transition("initiated", to), gate = Nothing,
         UNCHANGED <<gate, run, rows, files, made>>, stranded' \in BOOLEAN, to = "completing" => stranded'
  PROVE  UploadIInv'
<1>1. UploadTypes /\ Gated /\ Relied /\ ObjectMade /\ InFlight
  BY DEF UploadIInv
<1>2. status = "initiated" /\ status' = to
  BY DEF Transition
<1>3. \A d \in Clients : run[d].pc \notin PastGate
  BY <1>1, UploadAssumption DEF Gated
<1>4. UploadTypes'
  BY <1>1, <1>2 DEF UploadTypes, UploadTypeOK
<1>5. Gated' /\ Relied'
  BY <1>1, <1>3 DEF Gated, Relied, Completing, PastGate
<1>6. ObjectMade' /\ InFlight'
  BY <1>1, <1>2 DEF ObjectMade, InFlight
<1> QED  BY <1>4, <1>5, <1>6 DEF UploadIInv

\* CompleteMultipartUpload takes the gate of an initiated upload.
LEMMA CompleteKeeps == ASSUME UploadIInv, NEW c \in Clients, CompleteMultipartUpload(c) PROVE UploadIInv'
<1>1. Transition("initiated", "completing") /\ gate = Nothing /\ UNCHANGED <<rows, files, made>>
  BY DEF CompleteMultipartUpload
<1>2. CASE stranded' = TRUE /\ UNCHANGED <<gate, run>>
  BY <1>1, <1>2, TransitionUnanswered
<1>3. CASE /\ \E l \in Lists : run' = [run EXCEPT ![c] = [NoRequest EXCEPT !.pc = "validate", !.list = l]]
           /\ Hold(c) /\ UNCHANGED stranded
  <2>1. PICK l \in Lists : run' = [run EXCEPT ![c] = [NoRequest EXCEPT !.pc = "validate", !.list = l]]
    BY <1>3
  <2> DEFINE new == [NoRequest EXCEPT !.pc = "validate", !.list = l]
  <2>2. new \in UploadRequests /\ new.pc = "validate" /\ new.list = l
    BY DEF NoRequest, UploadRequests, PastGate
  <2> HIDE DEF new
  <2>3. UploadTypes /\ Gated /\ Relied /\ ObjectMade /\ InFlight
    BY DEF UploadIInv
  <2>4. /\ run' \in [Clients -> UploadRequests] /\ run'[c] = new
        /\ \A d \in Clients : d # c => run'[d] = run[d]
    BY <2>1, <2>2, <2>3 DEF UploadTypes, new
  <2>5. status = "initiated" /\ status' = "completing"
    BY <1>1 DEF Transition
  <2>6. gate' = c /\ \A d \in Clients : d # c => run[d].pc \notin PastGate
    BY <1>1, <1>3, <2>3, OthersWait DEF Hold
  <2>7. UploadTypes'
    BY <1>1, <1>3, <2>3, <2>4, <2>5, <2>6 DEF UploadTypes, UploadTypeOK
  <2>8. Gated'
    BY <2>2, <2>3, <2>4, <2>6 DEF Gated, PastGate
  <2>9. Relied'
    BY <2>2, <2>3, <2>4, <2>5, <2>6 DEF Relied, Completing, PastGate
  <2>10. ObjectMade' /\ InFlight'
    BY <1>1, <1>3, <2>2, <2>3, <2>4, <2>5, <2>6 DEF ObjectMade, InFlight
  <2> QED  BY <2>7, <2>8, <2>9, <2>10 DEF UploadIInv
<1> QED  BY <1>2, <1>3 DEF CompleteMultipartUpload

\* AbortMultipartUpload takes the gate of an initiated upload, which has no object.
LEMMA AbortKeeps == ASSUME UploadIInv, NEW c \in Clients, AbortMultipartUpload(c) PROVE UploadIInv'
<1>1. UploadTypes /\ Gated /\ Relied /\ ObjectMade /\ InFlight
  BY DEF UploadIInv
<1>2. Transition("initiated", "aborted") /\ gate = Nothing /\ UNCHANGED <<rows, files, made, stranded>>
  BY DEF AbortMultipartUpload
<1>3. CASE UNCHANGED <<gate, run>>
  BY <1>1, <1>2, <1>3, TransitionUnanswered DEF UploadTypes, UploadTypeOK
<1>4. CASE run' = [run EXCEPT ![c] = [NoRequest EXCEPT !.pc = "abort"]] /\ Hold(c)
  <2> DEFINE new == [NoRequest EXCEPT !.pc = "abort"]
  <2>1. new \in UploadRequests /\ new.pc = "abort"
    BY DEF NoRequest, UploadRequests, PastGate
  <2> HIDE DEF new
  <2>2. /\ run' \in [Clients -> UploadRequests] /\ run'[c] = new
        /\ \A d \in Clients : d # c => run'[d] = run[d]
    BY <1>1, <1>4, <2>1 DEF UploadTypes, new
  <2>3. status = "initiated" /\ status' = "aborted"
    BY <1>2 DEF Transition
  <2>4. gate' = c /\ \A d \in Clients : d # c => run[d].pc \notin PastGate
    BY <1>1, <1>2, <1>4, OthersWait DEF Hold
  <2>5. UploadTypes'
    BY <1>1, <1>2, <2>2, <2>3, <2>4 DEF UploadTypes, UploadTypeOK
  <2>6. Gated'
    BY <1>1, <2>1, <2>2, <2>4 DEF Gated, PastGate
  <2>7. Relied'
    BY <1>1, <2>1, <2>2, <2>3, <2>4 DEF Relied, Completing, PastGate
  <2>8. ObjectMade' /\ InFlight'
    BY <1>1, <1>2, <2>3 DEF ObjectMade, InFlight
  <2> QED  BY <2>5, <2>6, <2>7, <2>8 DEF UploadIInv
<1> QED  BY <1>3, <1>4 DEF AbortMultipartUpload

\* The holder of the gate goes on to another step of its completion: the rows stay as
\* they are, and what it relies on there is what the step has established.
LEMMA HolderProceeds ==
  ASSUME UploadIInv, NEW c \in Clients, gate = c,
         run' \in [Clients -> UploadRequests], \A d \in Clients : d # c => run'[d] = run[d],
         run'[c].pc \in {"assemble", "commit", "rollback"}, status = "completing", run'[c].list = run[c].list,
         run[c].list \in Lists,
         run'[c].pc \in {"assemble", "commit"} => Restricted(rows, ListedParts(c)) = run[c].list,
         run'[c].pc = "commit" => run'[c].staged = run[c].list,
         UNCHANGED <<status, rows, files, made, gate, stranded>>
  PROVE  UploadIInv'
<1>1. UploadTypes /\ Gated /\ Relied /\ ObjectMade /\ InFlight
  BY DEF UploadIInv
<1>2. \A d \in Clients : d # c => run[d].pc \notin PastGate
  BY <1>1, OthersWait
<1>3. UploadTypes'
  BY <1>1 DEF UploadTypes, UploadTypeOK
<1>4. Gated'
  BY <1>1, <1>2 DEF Gated, PastGate
<1>5. Relied'
  BY <1>1, <1>2 DEF Relied, Completing, PastGate, ListedParts
<1>6. ObjectMade' /\ InFlight'
  BY <1>1 DEF ObjectMade, InFlight
<1> QED  BY <1>3, <1>4, <1>5, <1>6 DEF UploadIInv

\* The listed parts are compared with the rows, which stay as they are under the gate.
LEMMA ValidateKeeps == ASSUME UploadIInv, NEW c \in Clients, ValidateParts(c) PROVE UploadIInv'
<1>1. /\ run[c].pc = "validate" /\ gate = c /\ status = "completing" /\ run[c].list \in Lists
      /\ UNCHANGED <<status, rows, files, made, gate, stranded>>
  BY DEF ValidateParts, RequestAt, UploadIInv, Gated, Relied, PastGate, Completing
<1>2. \/ RequestGoes(c, "assemble") /\ Restricted(rows, ListedParts(c)) = run[c].list
      \/ RequestGoes(c, "rollback")
  BY DEF ValidateParts
<1>3. PICK pc \in {"assemble", "rollback"} :
        RequestGoes(c, pc) /\ (pc = "assemble" => Restricted(rows, ListedParts(c)) = run[c].list)
  BY <1>2
<1>4. /\ run' \in [Clients -> UploadRequests] /\ run'[c].pc = pc /\ run'[c].list = run[c].list
      /\ \A d \in Clients : d # c => run'[d] = run[d]
  BY <1>3, RequestProceeds DEF UploadIInv, PastGate
<1> QED  BY <1>1, <1>3, <1>4, HolderProceeds

\* The files that are read are compared with the list, which is the rows.
LEMMA AssembleKeeps == ASSUME UploadIInv, NEW c \in Clients, AssembleParts(c) PROVE UploadIInv'
<1>1. /\ run[c].pc = "assemble" /\ gate = c /\ status = "completing" /\ run[c].list \in Lists
      /\ Restricted(rows, ListedParts(c)) = run[c].list
      /\ UNCHANGED <<status, rows, files, made, gate, stranded>>
  BY DEF AssembleParts, RequestAt, UploadIInv, Gated, Relied, PastGate, Completing
<1>2. CASE /\ SameETags(c)
           /\ run' = [run EXCEPT ![c].pc = "commit", ![c].staged = Restricted(files, ListedParts(c))]
  <2>1. run' = [run EXCEPT ![c].pc = "commit", ![c].staged = run[c].list]
    BY <1>2 DEF SameETags
  <2>2. run[c] \in UploadRequests
    BY DEF UploadIInv, UploadTypes
  <2> DEFINE new == [run[c] EXCEPT !.pc = "commit", !.staged = run[c].list]
  <2>3. new \in UploadRequests /\ new.pc = "commit" /\ new.staged = run[c].list /\ new.list = run[c].list
    BY <2>2 DEF UploadRequests, PastGate
  <2>4. run' = [run EXCEPT ![c] = new]
    BY <2>1 DEF UploadIInv, UploadTypes
  <2> HIDE DEF new
  <2>5. run' \in [Clients -> UploadRequests] /\ run'[c] = new /\ \A d \in Clients : d # c => run'[d] = run[d]
    BY <2>3, <2>4 DEF UploadIInv, UploadTypes
  <2> QED  BY <1>1, <2>3, <2>5, HolderProceeds
<1>3. CASE RequestGoes(c, "rollback")
  <2>1. /\ run' \in [Clients -> UploadRequests] /\ run'[c].pc = "rollback" /\ run'[c].list = run[c].list
        /\ \A d \in Clients : d # c => run'[d] = run[d]
    BY <1>3, RequestProceeds DEF UploadIInv, PastGate
  <2> QED  BY <1>1, <2>1, HolderProceeds
<1> QED  BY <1>2, <1>3 DEF AssembleParts

\* The transaction makes the object of the listed parts and leaves their rows.
LEMMA FinalizeKeeps ==
  ASSUME UploadIInv, NEW c \in Clients, run[c].pc = "commit", Finalize(c),
         NEW pc \in {"clean", "rollback"}, RequestGoes(c, pc), UNCHANGED <<files, gate, stranded>>
  PROVE  UploadIInv'
<1>1. UploadTypes /\ Gated /\ Relied /\ ObjectMade /\ InFlight
  BY DEF UploadIInv
<1>2. /\ gate = c /\ status = "completing" /\ run[c].list \in Lists
      /\ Restricted(rows, ListedParts(c)) = run[c].list /\ run[c].staged = run[c].list
  BY <1>1 DEF Gated, Relied, PastGate, Completing
<1>3. \A d \in Clients : d # c => run[d].pc \notin PastGate
  BY <1>1, <1>2, OthersWait
<1>4. /\ run' \in [Clients -> UploadRequests] /\ run'[c].pc = pc
      /\ \A d \in Clients : d # c => run'[d] = run[d]
  BY <1>1, RequestProceeds DEF PastGate
<1>5. status' = "completed" /\ made' = {run[c].list}
  BY <1>1, <1>2 DEF Finalize, Transition, ObjectMade
<1>6. rows' = [p \in Parts |-> IF p \in DOMAIN run[c].list THEN rows[p] ELSE Nothing]
  BY DEF Finalize, ListedParts
<1>7. \A p \in DOMAIN run[c].list : run[c].list[p] = rows[p]
  <2> DEFINE l == run[c].list
  <2>1. l = [p \in DOMAIN l |-> rows[p]]
    BY <1>2 DEF Restricted, ListedParts
  <2> HIDE DEF l
  <2>2. \A p \in DOMAIN l : l[p] = rows[p]
    BY <2>1
  <2> QED  BY <2>2 DEF l
<1>8. rows' = [p \in Parts |-> IF p \in DOMAIN run[c].list THEN run[c].list[p] ELSE Nothing]
  BY <1>6, <1>7
<1>9. UploadTypes'
  <2>1. rows' \in [Parts -> Bytes \cup {Nothing}]
    BY <1>1, <1>6 DEF UploadTypes, UploadTypeOK
  <2> QED  BY <1>1, <1>2, <1>4, <1>5, <2>1 DEF UploadTypes, UploadTypeOK
<1>10. Gated'
  BY <1>1, <1>2, <1>3, <1>4 DEF Gated, PastGate
<1>11. Relied'
  BY <1>1, <1>3, <1>4, <1>5 DEF Relied, Completing, PastGate
<1>12. ObjectMade' /\ InFlight'
  BY <1>5, <1>8 DEF ObjectMade, InFlight
<1> QED  BY <1>9, <1>10, <1>11, <1>12 DEF UploadIInv

\* The commit makes the object, with or without an answer, or leaves all as it was.
LEMMA CommitKeeps == ASSUME UploadIInv, NEW c \in Clients, CommitObject(c) PROVE UploadIInv'
<1>1. run[c].pc = "commit" /\ UNCHANGED <<files, gate, stranded>>
  BY DEF CommitObject, RequestAt
<1>2. CASE Finalize(c) /\ (RequestGoes(c, "clean") \/ RequestGoes(c, "rollback"))
  BY <1>1, <1>2, FinalizeKeeps
<1>3. CASE RequestGoes(c, "rollback") /\ UNCHANGED <<status, made, rows>>
  <2>1. /\ run' \in [Clients -> UploadRequests] /\ run'[c].pc = "rollback" /\ run'[c].list = run[c].list
        /\ \A d \in Clients : d # c => run'[d] = run[d]
    BY <1>3, RequestProceeds DEF UploadIInv, PastGate
  <2>2. gate = c /\ status = "completing" /\ run[c].list \in Lists
    BY <1>1 DEF UploadIInv, Gated, Relied, PastGate, Completing
  <2> QED  BY <1>1, <1>3, <2>1, <2>2, HolderProceeds
<1> QED  BY <1>2, <1>3 DEF CommitObject

\* The rollback touches a completing upload only, and lets go of the gate.
LEMMA RollBackKeeps == ASSUME UploadIInv, NEW c \in Clients, RollBack(c) PROVE UploadIInv'
<1>1. UploadTypes /\ Gated /\ Relied /\ ObjectMade /\ InFlight
  BY DEF UploadIInv
<1>2. /\ run[c].pc = "rollback" /\ gate = c /\ status \in {"completing", "completed"}
      /\ UNCHANGED <<rows, files, made>>
  BY <1>1 DEF RollBack, RequestAt, Gated, Relied, PastGate
<1>3. \A d \in Clients : d # c => run[d].pc \notin PastGate
  BY <1>1, <1>2, OthersWait
<1>4. /\ run' \in [Clients -> UploadRequests] /\ run'[c].pc = "idle"
      /\ \A d \in Clients : d # c => run'[d] = run[d]
      /\ gate' = Nothing
  BY <1>1, <1>2, RequestEnds DEF RollBack
<1>5. /\ stranded' \in BOOLEAN
      /\ \/ status' = "initiated" /\ status = "completing"
         \/ status' = "completing" /\ status = "completing" /\ stranded' = TRUE
         \/ status' = "completed" /\ status = "completed"
  BY <1>1, <1>2 DEF RollBack, UploadTypes, UploadTypeOK
<1>6. UploadTypes'
  BY <1>1, <1>2, <1>4, <1>5 DEF UploadTypes, UploadTypeOK
<1>7. Gated'
  BY <1>1, <1>3, <1>4 DEF Gated, PastGate
<1>8. Relied'
  BY <1>3, <1>4 DEF Relied, Completing, PastGate
<1>9. ObjectMade' /\ InFlight'
  BY <1>1, <1>2, <1>5 DEF ObjectMade, InFlight
<1> QED  BY <1>6, <1>7, <1>8, <1>9 DEF UploadIInv

\* The holder of an upload that is over removes files only, and then ends or goes on to
\* the rows of an aborted one.
LEMMA CleanUpKeeps == ASSUME UploadIInv, NEW c \in Clients, CleanUp(c) PROVE UploadIInv'
<1>1. UploadTypes /\ Gated /\ Relied /\ ObjectMade /\ InFlight
  BY DEF UploadIInv
<1>2. /\ run[c].pc \in {"clean", "abort"} /\ gate = c /\ status \in {"completed", "aborted"}
      /\ run[c].pc = "abort" => status = "aborted"
      /\ UNCHANGED <<status, rows, made, stranded>>
  BY <1>1 DEF CleanUp, RequestAt, Gated, Relied, PastGate
<1>3. \A d \in Clients : d # c => run[d].pc \notin PastGate
  BY <1>1, <1>2, OthersWait
<1>4. /\ run' \in [Clients -> UploadRequests]
      /\ \A d \in Clients : d # c => run'[d] = run[d]
      /\ \/ run'[c].pc = "idle" /\ gate' = Nothing
         \/ run'[c].pc = "forget" /\ gate' = c /\ status = "aborted"
  <2>1. CASE RequestAt(c, "clean") /\ EndRequest(c)
    BY <1>1, <1>2, <2>1, RequestEnds
  <2>2. CASE RequestAt(c, "abort") /\ RequestGoes(c, "forget") /\ UNCHANGED gate
    BY <1>1, <1>2, <2>2, RequestProceeds DEF RequestAt, PastGate
  <2> QED  BY <2>1, <2>2 DEF CleanUp
<1>5. files' \in [Parts -> Bytes \cup {Nothing}]
  BY <1>1 DEF CleanUp, NoBytes, UploadTypes, UploadTypeOK
<1>6. UploadTypes'
  BY <1>1, <1>2, <1>4, <1>5 DEF UploadTypes, UploadTypeOK
<1>7. Gated'
  BY <1>1, <1>3, <1>4 DEF Gated, PastGate
<1>8. Relied'
  BY <1>2, <1>3, <1>4 DEF Relied, Completing, PastGate
<1>9. ObjectMade' /\ InFlight'
  BY <1>1, <1>2 DEF ObjectMade, InFlight
<1> QED  BY <1>6, <1>7, <1>8, <1>9 DEF UploadIInv

\* An aborted upload has no object, so its rows may go.
LEMMA DeletePartsKeeps == ASSUME UploadIInv, NEW c \in Clients, DeleteParts(c) PROVE UploadIInv'
<1>1. UploadTypes /\ Gated /\ Relied /\ ObjectMade /\ InFlight
  BY DEF UploadIInv
<1>2. /\ run[c].pc = "forget" /\ gate = c /\ status = "aborted"
      /\ UNCHANGED <<status, files, made, stranded>>
  BY <1>1 DEF DeleteParts, RequestAt, Gated, Relied, PastGate
<1>3. \A d \in Clients : d # c => run[d].pc \notin PastGate
  BY <1>1, <1>2, OthersWait
<1>4. /\ run' \in [Clients -> UploadRequests] /\ run'[c].pc = "idle"
      /\ \A d \in Clients : d # c => run'[d] = run[d]
      /\ gate' = Nothing
  BY <1>1, <1>2, RequestEnds DEF DeleteParts
<1>5. rows' \in [Parts -> Bytes \cup {Nothing}]
  BY <1>1 DEF DeleteParts, NoBytes, UploadTypes, UploadTypeOK
<1>6. UploadTypes'
  BY <1>1, <1>2, <1>4, <1>5 DEF UploadTypes, UploadTypeOK
<1>7. Gated'
  BY <1>1, <1>3, <1>4 DEF Gated, PastGate
<1>8. Relied'
  BY <1>3, <1>4 DEF Relied, Completing, PastGate
<1>9. ObjectMade' /\ InFlight'
  BY <1>1, <1>2 DEF ObjectMade, InFlight
<1> QED  BY <1>6, <1>7, <1>8, <1>9 DEF UploadIInv

\* The reconciliation holds the gate of an upload that is over, and touches its files.
LEMMA ReconcileKeeps == ASSUME UploadIInv, Reconcile PROVE UploadIInv'
<1>1. UploadTypes /\ Gated /\ Relied /\ ObjectMade /\ InFlight
  BY DEF UploadIInv
<1>2. UNCHANGED <<status, rows, made, run, stranded>>
  BY DEF Reconcile, ReconcileUploads, DeleteUpload
<1>3. gate \notin Clients /\ gate' \in {Nothing, Reconciler} /\ gate' \notin Clients
  BY UploadAssumption DEF Reconcile, ReconcileUploads, DeleteUpload
<1>4. files' \in [Parts -> Bytes \cup {Nothing}]
  BY <1>1 DEF Reconcile, ReconcileUploads, DeleteUpload, NoBytes, UploadTypes, UploadTypeOK
<1>5. \A d \in Clients : run[d].pc \notin PastGate
  BY <1>1, <1>3 DEF Gated
<1>6. UploadTypes'
  BY <1>1, <1>2, <1>3, <1>4 DEF UploadTypes, UploadTypeOK
<1>7. Gated' /\ InFlight'
  BY <1>1, <1>2, <1>3, <1>5 DEF Gated, InFlight
<1>8. Relied'
  BY <1>2, <1>5 DEF Relied, Completing, PastGate
<1>9. ObjectMade'
  BY <1>1, <1>2 DEF ObjectMade
<1> QED  BY <1>6, <1>7, <1>8, <1>9 DEF UploadIInv

\* A restart ends every request; what was completing is released or stranded.
LEMMA RestartKeeps == ASSUME UploadIInv, Restart PROVE UploadIInv'
<1>1. UploadTypes /\ ObjectMade
  BY DEF UploadIInv
<1>2. gate' = Nothing /\ run' = [c \in Clients |-> NoRequest] /\ UNCHANGED <<rows, files, made>>
  BY DEF Restart
<1>3. NoRequest \in UploadRequests /\ NoRequest.pc = "idle"
  BY DEF NoRequest, UploadRequests
<1>4. \A d \in Clients : run'[d].pc = "idle"
  BY <1>2, <1>3
<1>5. /\ stranded' \in BOOLEAN
      /\ \/ status' = "initiated" /\ status = "completing"
         \/ status' = "completing" /\ status = "completing" /\ stranded' = TRUE
         \/ status' = status /\ status # "completing"
  BY <1>1 DEF Restart, UploadTypes, UploadTypeOK
<1>6. UploadTypes'
  BY <1>1, <1>2, <1>3, <1>5 DEF UploadTypes, UploadTypeOK
<1>7. Gated' /\ Relied'
  BY <1>4 DEF Gated, Relied, PastGate, Completing
<1>8. ObjectMade' /\ InFlight'
  BY <1>1, <1>2, <1>5 DEF ObjectMade, InFlight
<1> QED  BY <1>6, <1>7, <1>8 DEF UploadIInv

-----------------------------------------------------------------------------
\* An upload that does not exist has no parts, no object and no request.
LEMMA UploadStarts == ASSUME UploadInit PROVE UploadIInv
<1>1. NoRequest \in UploadRequests /\ NoRequest.pc = "idle"
  BY DEF NoRequest, UploadRequests
<1>2. UploadTypes /\ ObjectMade /\ InFlight
  BY <1>1 DEF UploadInit, UploadTypes, UploadTypeOK, NoBytes, ObjectMade, InFlight
<1>3. \A c \in Clients : run[c].pc = "idle"
  BY <1>1 DEF UploadInit
<1>4. Gated /\ Relied
  BY <1>3 DEF Gated, Relied, PastGate, Completing
<1> QED  BY <1>2, <1>4 DEF UploadIInv

\* Every step of UploadNext keeps the invariant.
LEMMA UploadStep == ASSUME UploadIInv, [UploadNext]_uploadVars PROVE UploadIInv'
<1>1. CASE CreateMultipartUpload \/ Reconcile \/ Restart
  BY <1>1, CreateKeeps, ReconcileKeeps, RestartKeeps
<1>2. ASSUME NEW c \in Clients, UploadRequest(c) PROVE UploadIInv'
  BY <1>2, UploadPartKeeps, CompleteKeeps, AbortKeeps DEF UploadRequest
<1>3. ASSUME NEW c \in Clients, UploadContinues(c) PROVE UploadIInv'
  BY <1>3, PublishFileKeeps, CreatePartKeeps, ValidateKeeps, AssembleKeeps, CommitKeeps, RollBackKeeps,
     CleanUpKeeps, DeletePartsKeeps DEF UploadContinues
<1>4. CASE UNCHANGED uploadVars
  BY <1>4, Zenon DEF uploadVars, UploadIInv, UploadTypes, UploadTypeOK, Gated, Relied, ObjectMade, InFlight, ListedParts
<1> QED  BY <1>1, <1>2, <1>3, <1>4 DEF UploadNext

\* The inductive invariant of an upload, its parts and the requests on it: every step
\* of UploadSpec keeps it, for every set of requests, parts and bytes and all bounds.
THEOREM UploadInductive == UploadSpec => []UploadIInv
<1>1. UploadInit => UploadIInv
  BY UploadStarts
<1>2. UploadIInv /\ [UploadNext]_uploadVars => UploadIInv'
  BY UploadStep
<1> QED  BY <1>1, <1>2, PTL DEF UploadSpec

\* Whatever requests run side by side, whatever fails and wherever the process stops:
\* CompleteMultipartUpload makes one object, exactly when the upload is completed, of
\* the bytes recorded for the listed parts, and an upload is left "completing" only
\* when a rollback or ReleaseInterruptedMultipartCompletions has failed, or the answer
\* of the transition to it was lost.
THEOREM UploadSafe == UploadSpec => []UploadInv
<1>1. ASSUME UploadIInv PROVE UploadInv
  <2>1. Cardinality(made) = IF status = "completed" THEN 1 ELSE 0
    BY <1>1, FS_EmptySet, FS_Singleton DEF UploadIInv, ObjectMade
  <2> QED  BY <1>1, <2>1 DEF UploadIInv, UploadTypes, ObjectMade, InFlight, UploadInv
<1> QED  BY <1>1, UploadInductive, PTL
=============================================================================
