--------------------------- MODULE ObjectVersions ---------------------------
(***************************************************************************)
(* The version history of one object key: the objects row with its current *)
(* pointer, the object_versions rows, and the transactions the S3 backend  *)
(* and the admin API run on them (object_repo.go, backend/object.go,       *)
(* admin/api_buckets.go).  Transactions are READ COMMITTED, so what a      *)
(* transaction may rely on is only what it has locked: the rows of the     *)
(* contents first, in order, and the objects row after them.  An objects   *)
(* row that does not exist cannot be locked; two requests that both find   *)
(* the key empty meet at the unique index instead.                         *)
(*                                                                         *)
(* Every request is a process of its own.  A content stands for its bytes, *)
(* its ETag and its metadata.                                              *)
(***************************************************************************)
EXTENDS Integers, FiniteSetsExt, Sequences

CONSTANTS
  Requests,       \* one process per request; the version it writes has its name
  Contents,       \* contents of the bucket: their row ids, 1 .. n
  Matches,        \* contents whose ETag an If-Match condition names
  Histories       \* initial histories: sequences of contents, 0 for a delete marker

\* The names of requests are not those of the versions that are there at first.
ASSUME ObjectAssumption ==
  /\ Requests \subseteq Nat \ {0}
  /\ Contents \subseteq Nat \ {0}
  /\ Matches \subseteq Contents
  /\ \A h \in Histories :
       h \in Seq(Contents \cup {0}) /\ \A r \in Requests : r > Len(h)

None == 0
Any == 0             \* no condition
IfNoneMatch == -1    \* If-None-Match: *; a content as condition is If-Match with its ETag
Conditions == {Any, IfNoneMatch} \cup Matches

VARIABLES
  object,         \* the objects row: [here, cur]
  versions,       \* the object_versions rows of the key; data 0 for a delete marker
  cleaning,       \* contents whose cleanup has started
  lock,           \* row locks: holder of every content row and of the objects row
  req,            \* the requests
  clock           \* time.Now(): the last time stamp taken

vars == <<object, versions, cleaning, lock, req, clock>>

ObjectRow == 0
Rows == Contents \cup {ObjectRow}
Idle == [pc |-> "idle", op |-> "none", cond |-> Any, data |-> 0, target |-> None,
         expect |-> None, at |-> 0, found |-> FALSE, saw |-> {}, res |-> "none"]

Absent == [here |-> FALSE, cur |-> None]
Marker(v) == v.data = 0
Newest(S) == CHOOSE v \in S : \A w \in S : w.at <= v.at
Named(id) == {v \in versions : v.id = id}
Current == {v \in versions : object.here /\ v.id = object.cur}
IdsOf(S) == {v.id : v \in S}
DataOf(S) == {v.data : v \in S} \ {0}

Init ==
  /\ \E h \in Histories :
       /\ versions = {[id |-> i, data |-> h[i], at |-> i] : i \in DOMAIN h}
       /\ object = IF h = <<>> THEN Absent ELSE [here |-> TRUE, cur |-> Len(h)]
       /\ clock = Len(h)
  /\ cleaning = {}
  /\ lock = [k \in Rows |-> None]
  /\ req = [r \in Requests |-> Idle]

-----------------------------------------------------------------------------
(***************************************************************************)
(* What a client or an operator may ask.  A version a request names is one *)
(* its author has seen.                                                    *)
(***************************************************************************)

\* Requests are named in the order in which they arrive.
Arrive(r, ask) ==
  /\ \A q \in Requests : req[q].pc = "idle" <=> q >= r
  /\ req' = [req EXCEPT ![r] = ask]
  /\ UNCHANGED <<object, versions, cleaning, lock>>
Ask(r, ask) == Arrive(r, ask) /\ UNCHANGED clock

\* PutObject: the bytes are staged and their content resolved before the transaction.
PutObject(r) ==
  \E d \in Contents, c \in Conditions :
    Ask(r, [Idle EXCEPT !.op = "put", !.pc = "content", !.data = d, !.cond = c])

\* DeleteObject without a version id, of the S3 and of the admin API:
\* createDeleteMarkerAndSetCurrent takes its time stamp before it locks anything.
DeleteObject(r) ==
  /\ \E c \in Conditions \ {IfNoneMatch} :
       Arrive(r, [Idle EXCEPT !.op = "delete", !.pc = "lock", !.cond = c, !.at = clock + 1])
  /\ clock' = clock + 1

\* DeleteObject with a version id: whether it names a marker is read first.
DeleteVersion(r) ==
  \E v \in versions, c \in Conditions \ {IfNoneMatch} :
    Ask(r, IF Marker(v)
           THEN [Idle EXCEPT !.op = "unmark", !.pc = "lock", !.target = v.id, !.cond = c]
           ELSE [Idle EXCEPT !.op = "drop", !.pc = "begin", !.target = v.id, !.cond = c])

\* copyObjectVersion: a write of the bytes of a version, read before the transaction.
Copied(v, op) == [Idle EXCEPT !.op = op, !.pc = "content", !.data = v.data]

\* CopyObject of a version of the key onto the key.
CopyObject(r) ==
  \E v \in versions, c \in Conditions :
    ~Marker(v) /\ Ask(r, [Copied(v, "put") EXCEPT !.cond = c])

\* RestoreObjectVersion: checked before the bytes are copied, and again in the
\* transaction.  A source with the bytes of the current version passes
\* restoreSourceAlreadyCurrent only while those cannot be read.
RestoreObjectVersion(r) ==
  \E v \in versions, c \in Current :
    /\ ~Marker(v) /\ v.id # c.id
    /\ Ask(r, [Copied(v, "restore") EXCEPT !.target = v.id, !.expect = c.id])

\* handleAPIRestoreBucketObject: the operator takes a listed object out of the trash.
RestoreDeleted(r) ==
  \E c \in Current :
    /\ Marker(c)
    /\ Ask(r, [Idle EXCEPT !.op = "undelete", !.pc = "lock", !.target = c.id])

\* handleAPIPermanentDeleteDeletedBucketObject.
PurgeDeleted(r) ==
  \E c \in Current :
    /\ Marker(c)
    /\ Ask(r, [Idle EXCEPT !.op = "purge", !.pc = "begin", !.target = c.id])

-----------------------------------------------------------------------------
(***************************************************************************)
(* Locks.  A transaction holds its row locks until it ends.                *)
(***************************************************************************)

At(r, pc) == req[r].pc = pc
Op(r) == req[r].op
Goes(r, pc) == req' = [req EXCEPT ![r].pc = pc]
Holds(r, k) == lock[k] = r
Free(k) == lock[k] = None
Released(r) == [k \in Rows |-> IF Holds(r, k) THEN None ELSE lock[k]]

\* The transaction ends: its locks go with it.
End(r, res) ==
  /\ req' = [req EXCEPT ![r] = [Idle EXCEPT !.pc = "done", !.res = res]]
  /\ lock' = Released(r)
RefuseHolding(r, res) ==                                          \* a mutant
  /\ req' = [req EXCEPT ![r] = [Idle EXCEPT !.pc = "done", !.res = res]]
  /\ UNCHANGED <<object, versions, cleaning, lock, clock>>
Refuse(r, res) == End(r, res) /\ UNCHANGED <<object, versions, cleaning, clock>>

\* DeleteObjectVersionPermanently reads the version to learn which content to lock.
PeekVersion(r) ==
  /\ At(r, "begin") /\ Op(r) = "drop"
  /\ IF Named(req[r].target) = {} THEN Refuse(r, "missing")
     ELSE /\ req' = [req EXCEPT ![r].pc = "content", ![r].saw = Named(req[r].target)]
          /\ UNCHANGED <<object, versions, cleaning, lock, clock>>

\* The delete marker the operator has chosen is still the current version: asked by
\* restoreCurrentDeleteMarkerStack and DeleteDeletedObjectPermanently.
SomeMarkerCurrent(r) == \E c \in Current : Marker(c)              \* a mutant
MarkerCurrent(r) == req[r].target \in IdsOf(Current)

\* DeleteDeletedObjectPermanently reads the history to learn which contents to lock.
PeekHistory(r) ==
  /\ At(r, "begin") /\ Op(r) = "purge"
  /\ CASE Current = {} -> Refuse(r, "missing")
       [] Current # {} /\ ~MarkerCurrent(r) -> Refuse(r, "conflict")
       [] OTHER -> /\ req' = [req EXCEPT ![r].saw = versions,
                                         ![r].pc = IF DataOf(versions) = {}
                                                   THEN "lock" ELSE "content"]
                   /\ UNCHANGED <<object, versions, cleaning, lock, clock>>

\* lockStorageContentsByID: one row after the other, in the order of their ids.
\* A write finds there whether its content is being cleaned up
\* (prepareNewObjectVersionStorageReference).
Needed(r) == IF Op(r) \in {"drop", "purge"} THEN DataOf(req[r].saw) ELSE {req[r].data}
Writes(r) == Op(r) \in {"put", "restore"}
LockContent(r) ==
  /\ At(r, "content")
  /\ LET next == Min({c \in Needed(r) : ~Holds(r, c)})
         last == \A c \in Needed(r) : Holds(r, c) \/ c = next IN
     /\ Free(next)
     /\ \/ /\ Writes(r) /\ next \in cleaning
           /\ Refuse(r, "cleanup")
        \/ /\ ~(Writes(r) /\ next \in cleaning)
           /\ lock' = [lock EXCEPT ![next] = r]
           /\ Goes(r, IF last THEN "lock" ELSE "content")
           /\ UNCHANGED <<object, versions, cleaning, clock>>

\* lockCurrentObjectIfExists: a row that is not there leaves nothing to hold.
TakeObject(r) == lock' = IF object.here THEN [lock EXCEPT ![ObjectRow] = r] ELSE lock
CanTakeObject(r) == object.here => Free(ObjectRow) \/ Holds(r, ObjectRow)

LockObject(r) ==
  /\ At(r, "lock")
  /\ CanTakeObject(r) /\ TakeObject(r)
  /\ Goes(r, "read")
  /\ UNCHANGED <<object, versions, cleaning, clock>>

-----------------------------------------------------------------------------
(***************************************************************************)
(* New versions and delete markers.                                        *)
(***************************************************************************)

Shown(S) == {v \in S : ~Marker(v)}

\* writeObjectCondition and deleteObjectCondition on the current version.
Satisfied(cond) ==
  CASE cond = Any -> TRUE
    [] cond = IfNoneMatch -> Shown(Current) = {}
    [] OTHER -> \E v \in Current : v.data = cond

\* selectObjectByBucketAndKey locks the row once more: it may have come since.  A
\* request without conditions asks nothing further.
Selected(r) ==
  req' = [req EXCEPT ![r].pc = IF req[r].cond = Any THEN "write" ELSE "check",
                     ![r].found = object.here]
SelectUnlocked(r) ==                                              \* a mutant
  /\ At(r, "read") /\ Op(r) \in {"put", "delete"}
  /\ CanTakeObject(r) /\ Selected(r)
  /\ UNCHANGED <<object, versions, cleaning, lock, clock>>
SelectObject(r) ==
  /\ At(r, "read") /\ Op(r) \in {"put", "delete"}
  /\ CanTakeObject(r) /\ TakeObject(r)
  /\ Selected(r)
  /\ UNCHANGED <<object, versions, cleaning, clock>>

\* checkCurrentObjectConditions reads the current version in a statement of its own,
\* which locks nothing: where the select found no row, a version may have come since.
CheckConditions(r) ==
  /\ At(r, "check")
  /\ IF Satisfied(req[r].cond)
     THEN Goes(r, "write") /\ UNCHANGED <<object, versions, cleaning, lock, clock>>
     ELSE Refuse(r, "precondition")

\* createRestoredVersionAndSetCurrent: source and current are read again.
ReadSource(r) ==
  /\ At(r, "read") /\ Op(r) = "restore"
  /\ CASE Named(req[r].target) = {} -> Refuse(r, "missing")
       [] Named(req[r].target) # {} /\ req[r].expect \notin IdsOf(Current) ->
            Refuse(r, "conflict")
       [] OTHER -> \/ req[r].data \in DataOf(Current) /\ Refuse(r, "current")
                   \/ /\ req' = [req EXCEPT ![r].pc = "write", ![r].found = TRUE]
                      /\ UNCHANGED <<object, versions, cleaning, lock, clock>>

\* createVersionAndSetCurrentFromExisting, createDeleteMarkerAndSetCurrent: the
\* version is inserted and the pointer moved.  A first version inserts the objects
\* row too; when another request has done so the transaction starts over, or gives up:
\* after 20 attempts, or when the client has gone.
Stamp(r) == IF Op(r) = "delete" THEN req[r].at ELSE clock + 1
InsertVersion(r) ==
  /\ versions' = versions \cup {[id |-> r, data |-> req[r].data, at |-> Stamp(r)]}
  /\ object' = [here |-> TRUE, cur |-> r]
  /\ clock' = IF Op(r) = "delete" THEN clock ELSE clock + 1
  /\ UNCHANGED cleaning
  /\ End(r, "ok")

StartOver(r) ==
  /\ lock' = Released(r)
  /\ clock' = IF Op(r) = "delete" THEN clock + 1 ELSE clock
  /\ req' = [req EXCEPT ![r].pc = IF Op(r) = "delete" THEN "lock" ELSE "content",
                        ![r].at = IF Op(r) = "delete" THEN clock + 1 ELSE 0]
  /\ UNCHANGED <<object, versions, cleaning>>

WriteVersion(r) ==
  /\ At(r, "write")
  /\ \/ (req[r].found \/ ~object.here) /\ InsertVersion(r)
     \/ ~req[r].found /\ object.here /\ (StartOver(r) \/ Refuse(r, "contended"))

-----------------------------------------------------------------------------
(***************************************************************************)
(* Removal.                                                                *)
(***************************************************************************)

\* repointObjectAwayFromVersion and deleteObjectIdentityIfEmpty, when the removed
\* version was the current one.
WithoutKeepsObject(id) ==                                         \* a mutant
  LET rest == {v \in versions : v.id # id} IN
  IF object.cur # id \/ rest = {} THEN object
  ELSE [object EXCEPT !.cur = Newest(rest).id]
Without(id) ==
  LET rest == {v \in versions : v.id # id} IN
  CASE object.cur # id -> object
    [] object.cur = id /\ rest # {} -> [object EXCEPT !.cur = Newest(rest).id]
    [] OTHER -> Absent

\* reserveStorageCleanupForDeletedVersions, bindStorageCleanupTask: the contents the
\* removal leaves without a version.
Unnamed(gone, rest) == DataOf(gone) \ DataOf(rest)

RemoveVersion(r) ==
  LET gone == Named(req[r].target) IN
  /\ object' = Without(req[r].target)
  /\ versions' = versions \ gone
  /\ cleaning' = cleaning \cup Unnamed(gone, versions \ gone)
  /\ UNCHANGED clock
  /\ End(r, "ok")

\* The conditions of a delete are asked of the version it names.
TargetSatisfies(r) == req[r].cond = Any \/ req[r].cond \in DataOf(Named(req[r].target))

\* deleteMarkerVersion.
DeleteMarkerVersion(r) ==
  /\ At(r, "read") /\ Op(r) = "unmark"
  /\ CASE Named(req[r].target) = {} -> Refuse(r, "missing")
       [] Named(req[r].target) # {} /\ ~TargetSatisfies(r) -> Refuse(r, "precondition")
       [] OTHER -> RemoveVersion(r)

\* DeleteObjectVersionPermanently: storage work on the content may refuse it.
DeleteObjectVersionPermanently(r) ==
  /\ At(r, "read") /\ Op(r) = "drop"
  /\ CASE Named(req[r].target) = {} -> Refuse(r, "missing")
       [] Named(req[r].target) # {} /\ ~TargetSatisfies(r) -> Refuse(r, "precondition")
       [] OTHER -> Refuse(r, "busy") \/ RemoveVersion(r)

\* DeleteDeletedObjectPermanently: only the history it has seen and locked.
HistorySeen(r) == MarkerCurrent(r) /\ versions = req[r].saw
DeleteDeletedObjectPermanently(r) ==
  /\ At(r, "read") /\ Op(r) = "purge"
  /\ CASE ~(req[r].saw \subseteq versions) -> Refuse(r, "missing")
       [] req[r].saw \subseteq versions /\ ~HistorySeen(r) -> Refuse(r, "conflict")
       [] OTHER -> \/ Refuse(r, "busy")
                   \/ /\ object' = Absent
                      /\ versions' = {}
                      /\ cleaning' = cleaning \cup DataOf(versions)
                      /\ UNCHANGED clock
                      /\ End(r, "ok")

\* restoreCurrentDeleteMarkerStack: the markers newer than the newest data version
\* go, and that version becomes current.
RestoreCurrentDeleteMarkerStack(r) ==
  /\ At(r, "read") /\ Op(r) = "undelete"
  /\ LET data == Shown(versions)
         stack == {v \in versions : \A d \in data : d.at < v.at} IN
     CASE Current = {} -> Refuse(r, "missing")
       [] Current # {} /\ ~MarkerCurrent(r) -> Refuse(r, "conflict")
       [] MarkerCurrent(r) /\ data = {} -> Refuse(r, "missing")
       [] MarkerCurrent(r) /\ data # {} /\ stack = {} -> Refuse(r, "conflict")
       [] OTHER -> /\ object' = [object EXCEPT !.cur = Newest(data).id]
                   /\ versions' = versions \ stack
                   /\ UNCHANGED <<cleaning, clock>>
                   /\ End(r, "ok")

-----------------------------------------------------------------------------
Begin(r) ==
  \/ PutObject(r) \/ CopyObject(r) \/ DeleteObject(r) \/ DeleteVersion(r)
  \/ RestoreObjectVersion(r) \/ RestoreDeleted(r) \/ PurgeDeleted(r)

Continue(r) ==
  \/ PeekVersion(r) \/ PeekHistory(r) \/ LockContent(r) \/ LockObject(r)
  \/ SelectObject(r) \/ CheckConditions(r) \/ ReadSource(r) \/ WriteVersion(r)
  \/ DeleteMarkerVersion(r) \/ DeleteObjectVersionPermanently(r)
  \/ DeleteDeletedObjectPermanently(r) \/ RestoreCurrentDeleteMarkerStack(r)

Next == \E r \in Requests : Begin(r) \/ Continue(r)

Spec == Init /\ [][Next]_vars
\* A request that has begun goes on: PostgreSQL grants a released row lock.
FairSpec == Spec /\ \A r \in Requests : WF_vars(Continue(r))

-----------------------------------------------------------------------------
(***************************************************************************)
(* Properties.                                                             *)
(***************************************************************************)

TypeOK ==
  /\ object \in [here : BOOLEAN, cur : Nat]
  /\ versions \subseteq [id : Nat, data : Contents \cup {0}, at : Nat]
  /\ cleaning \subseteq Contents
  /\ lock \in [Rows -> Requests \cup {None}]
  /\ clock \in Nat

\* The objects row is there exactly while the key has versions, and its pointer names
\* one of them: repointObjectAwayFromVersion and deleteObjectIdentityIfEmpty leave
\* neither an empty object nor a dangling pointer, and a content being cleaned up is
\* named by no version.
HistoryInv ==
  /\ TypeOK
  /\ object.here <=> versions # {}
  /\ object.here => object.cur \in IdsOf(versions)
  /\ cleaning \cap DataOf(versions) = {}
  /\ \A v, w \in versions : v.id = w.id => v = w

\* A conditional PUT, copy or delete never takes the place of a version that does not
\* satisfy its condition, and of two If-None-Match writers one loses, however the row
\* came to be between their statements.  The one case in which the condition need not
\* hold at the commit is an If-Match request that finds the key empty: the version it
\* matched came after its select, which therefore locked nothing, and went again.
Commits(r) == req[r].pc # "done" /\ req'[r].res = "ok"
ConditionsHeld ==
  [][\A r \in Requests : Commits(r) /\ Op(r) \in {"put", "delete"} =>
       Satisfied(req[r].cond) \/ (req[r].cond \in Matches /\ Current = {})]_vars

\* A version goes only by a request that names it, or with a trash restore or a
\* permanent delete whose delete marker is still the current version: nothing written
\* after the operator looked is lost with the history they chose.
OnlyNamedGoes ==
  [][\A v \in versions : v \notin versions' =>
       \E r \in Requests :
         /\ Commits(r)
         /\ \/ Op(r) \in {"unmark", "drop"} /\ req[r].target = v.id
            \/ Op(r) = "undelete" /\ req[r].target = object.cur /\ Marker(v)
            \/ Op(r) = "purge" /\ req[r].target = object.cur /\ v \in req[r].saw]_vars

\* Every request ends: the transactions take their locks in one order, so none waits
\* for another in a circle, and starting over ends.
Quiet == \A r \in Requests : req[r].pc \in {"idle", "done"}
RequestsEnd == []<>Quiet

\* handleAPIRestoreBucketObject answers a conflict with "delete marker is no longer
\* current": a trash restore is refused so only when that is the case.
ConflictMeansStale ==
  [][\A r \in Requests :
       req[r].pc # "done" /\ Op(r) = "undelete" /\ req'[r].res = "conflict"
         => req[r].target \notin IdsOf(Current)]_vars

=============================================================================
