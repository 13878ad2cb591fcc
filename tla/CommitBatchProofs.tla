-------------------------- MODULE CommitBatchProofs --------------------------
(***************************************************************************)
(* Proofs about CommitBatch, for every set of copies and every bound on    *)
(* requests, sends, pieces and submissions.                                *)
(*                                                                         *)
(* That no piece is registered twice rests on two facts.  A copy belongs   *)
(* to one request, and a signed request keeps its copies until it is       *)
(* settled.  A request is given up only when no transaction of it can be   *)
(* in flight, or when the chain accepts no more pieces at all; so while    *)
(* the data set is writable, what is in flight or has landed is submitted  *)
(* or confirmed and still holds its copies.                                *)
(***************************************************************************)
EXTENDS CommitBatch, FiniteSetTheorems, NaturalsInduction, TLAPS

\* The request a copy is in, and what the copy is then, with the rows cs and rs.
MemberIn(cs, rs, c) ==
    \/ /\ cs[c].req = 0 /\ ~cs[c].positioned
       /\ cs[c].status \in {"pending", "piece_ready", "failed"}
    \/ /\ cs[c].req \in Reqs /\ rs[cs[c].req].status = "collecting"
       /\ ~cs[c].positioned /\ cs[c].status = "piece_ready"
    \/ /\ cs[c].req \in Reqs /\ rs[cs[c].req].status \in Sealed
       /\ cs[c].positioned /\ cs[c].status \in {"committing", "pending"}
       /\ c \in rs[cs[c].req].pieces
    \/ /\ cs[c].req \in Reqs /\ rs[cs[c].req].status = "confirmed"
       /\ cs[c].positioned /\ cs[c].status = "committed"
       /\ c \in rs[cs[c].req].pieces

\* A signed request holds its pieces; a collecting one is not empty.
HeldIn(cs, rs, r) ==
    /\ rs[r].status \in Sealed \cup {"confirmed"} =>
          \A c \in rs[r].pieces : cs[c].req = r
    /\ rs[r].status = "collecting" => \E c \in Copies : cs[c].req = r

Rows(cs, rs) ==
    /\ cs \in [Copies -> CopyRow] /\ rs \in [Reqs -> RequestRow]
    /\ \A c \in Copies : MemberIn(cs, rs, c)
    /\ \A r \in Reqs : HeldIn(cs, rs, r)

\* Of which requests a transaction may be in flight or on chain.
NotSent(r) == r \notin pool /\ chain[r] # "landed"
Flight(r) ==
    /\ reqs[r].status \in {"absent", "collecting", "ready"} => NotSent(r)
    /\ reqs[r].status = "abandoned" /\ writable => NotSent(r)
    /\ reqs[r].status = "confirmed" => chain[r] = "landed"

\* A task goes on from where its request is.
TaskRow(r) ==
    /\ reqs[r].status \in {"absent"} \cup Settled => reqs[r].task = "none"
    /\ reqs[r].status \in {"absent", "collecting"} => reqs[r].order = 0
    /\ reqs[r].status = "absent" \/ reqs[r].task = "stopped" => inv[r].step = "none"

\* What a running invocation has read is still so where it matters.
Position(r) ==
    reqs[r].task = "live" =>
        /\ inv[r].step = "signed" => reqs[r].status = "collecting"
        /\ inv[r].step \in {"proved", "writable"} =>
              reqs[r].status = IF inv[r].why = "observe" THEN "submitted" ELSE "ready"
        /\ inv[r].step = "proved" /\ inv[r].saw # "unused" => chain[r] = inv[r].saw
        /\ inv[r].step = "abandon" => ~writable /\ reqs[r].status \in Sealed
        /\ inv[r].step \in {"sending", "accepted", "refused"} => reqs[r].status = "submitted"
        /\ inv[r].step \in {"sending", "refused"} /\ inv[r].why = "prepare" => NotSent(r)

Line(r) == Flight(r) /\ TaskRow(r) /\ Position(r)

IInv ==
    /\ TypeOK /\ RegisteredOnce /\ SubmittedBounded
    /\ Rows(copies, reqs)
    /\ \A r \in Reqs : Line(r)

-----------------------------------------------------------------------------
(* Lemmas about the operators.                                             *)

\* Finding the oldest request succeeds when there is one.
LEMMA SmallestIn == ASSUME NEW T, T \subseteq Nat, T # {} PROVE Smallest(T) \in T
<1> DEFINE R == OpToRel(<, Nat)
<1>1. IsWellFoundedOn(R, Nat)
  BY NatLessThanWellFounded
<1>2. \A x, y \in Nat : x < y => <<x, y>> \in R
  BY DEF OpToRel
<1> HIDE DEF R
<1>3. PICK x \in T : \A y \in T : ~(<<y, x>> \in R)
  BY <1>1, WFMin, Zenon
<1>4. \A y \in T : x <= y
  <2> TAKE y \in T
  <2>1. x \in Nat /\ y \in Nat
    OBVIOUS
  <2>2. ~(y < x)
    BY <1>2, <1>3, <2>1
  <2> QED  BY <2>1, <2>2
<1> QED  BY <1>4 DEF Smallest

\* Requests are numbers from 1 on, and finitely many.
LEMMA ReqsFacts ==
    /\ Reqs \subseteq Nat \ {0} /\ IsFiniteSet(Reqs) /\ Cardinality(Reqs) = MaxRequests
    /\ 0 \in 0 .. MaxRequests /\ Reqs \subseteq 0 .. MaxRequests
<1>1. MaxRequests \in Nat
  BY CommitBoundsAssumption
<1>2. IsFiniteSet(1 .. MaxRequests) /\ Cardinality(1 .. MaxRequests) = MaxRequests
  BY <1>1, FS_Interval
<1> QED  BY <1>1, <1>2 DEF Reqs

\* A request that starts collecting is a row.
LEMMA NewRequestRow == NewRequest \in RequestRow
<1>1. 0 \in 0 .. MaxSends /\ 0 \in 0 .. MaxRequests
  BY CommitBoundsAssumption
<1> QED  BY <1>1 DEF NewRequest, RequestRow

\* Copies that stay in their requests, and change their status only as members may.
Quiet(cs, cs2) ==
    \A c \in Copies :
        /\ cs2[c].req = cs[c].req /\ cs2[c].positioned = cs[c].positioned
        /\ \/ cs2[c].status = cs[c].status
           \/ cs[c].req = 0 /\ cs2[c].status \in {"pending", "piece_ready", "failed"}
           \/ /\ cs[c].positioned /\ cs[c].status \in {"committing", "pending"}
              /\ cs2[c].status \in {"committing", "pending"}

\* Requests that keep their pieces and stay signed or not.
Stay(rs, rs2) ==
    \A r \in Reqs :
        /\ rs2[r].pieces = rs[r].pieces
        /\ \/ rs2[r].status = rs[r].status
           \/ rs[r].status \in Sealed /\ rs2[r].status \in Sealed

\* Such steps keep copies and requests in agreement.
LEMMA RowsKept ==
    ASSUME NEW cs, NEW rs, NEW cs2, NEW rs2, Rows(cs, rs), Quiet(cs, cs2), Stay(rs, rs2),
           cs2 \in [Copies -> CopyRow], rs2 \in [Reqs -> RequestRow]
    PROVE  Rows(cs2, rs2)
<1>1. ASSUME NEW c \in Copies PROVE MemberIn(cs2, rs2, c)
  <2>1. MemberIn(cs, rs, c) /\ 0 \notin Reqs
    BY ReqsFacts DEF Rows
  <2>2. /\ cs2[c].req = cs[c].req /\ cs2[c].positioned = cs[c].positioned
        /\ \/ cs2[c].status = cs[c].status
           \/ cs[c].req = 0 /\ cs2[c].status \in {"pending", "piece_ready", "failed"}
           \/ /\ cs[c].positioned /\ cs[c].status \in {"committing", "pending"}
              /\ cs2[c].status \in {"committing", "pending"}
    BY DEF Quiet
  <2>3. cs[c].req \in Reqs =>
           /\ rs2[cs[c].req].pieces = rs[cs[c].req].pieces
           /\ \/ rs2[cs[c].req].status = rs[cs[c].req].status
              \/ rs[cs[c].req].status \in Sealed /\ rs2[cs[c].req].status \in Sealed
    BY DEF Stay
  <2> QED  BY <2>1, <2>2, <2>3 DEF MemberIn, Sealed
<1>2. ASSUME NEW r \in Reqs PROVE HeldIn(cs2, rs2, r)
  <2>1. HeldIn(cs, rs, r) /\ rs[r].pieces \subseteq Copies
    BY DEF Rows, RequestRow
  <2>2. /\ rs2[r].pieces = rs[r].pieces
        /\ \/ rs2[r].status = rs[r].status
           \/ rs[r].status \in Sealed /\ rs2[r].status \in Sealed
    BY DEF Stay
  <2>3. \A c \in Copies : cs2[c].req = cs[c].req
    BY DEF Quiet
  <2> QED  BY <2>1, <2>2, <2>3 DEF HeldIn, Sealed
<1> QED  BY <1>1, <1>2 DEF Rows

\* Nothing a line says of a request changes with the other requests.
LEMMA LineKept ==
    ASSUME NEW q \in Reqs, Line(q), reqs'[q] = reqs[q], inv'[q] = inv[q], chain'[q] = chain[q],
           q \in pool' <=> q \in pool, writable' => writable
    PROVE  Line(q)'
BY DEF Line, Flight, TaskRow, Position, NotSent

\* Transferred copies outside any request.
Waiting(C, cs) ==
    \A c \in C : cs[c].req = 0 /\ ~cs[c].positioned /\ cs[c].status = "piece_ready"

\* JoinCollectingCommitRequest or CreateCollectingCommitRequest: transferred copies
\* outside any request join one, which may be new.
LEMMA QueueKeeps ==
    ASSUME NEW C \in SUBSET Copies, NEW cs, NEW rs, Rows(cs, rs), Queue(C, cs, rs),
           Waiting(C, cs)
    PROVE  /\ Rows(copies', reqs')
           /\ \A q \in Reqs : \/ reqs'[q] = rs[q]
                              \/ rs[q].status = "absent" /\ reqs'[q] = NewRequest
<1> DEFINE open == {r \in Reqs : rs[r].status = "collecting" /\ rs[r].task = "live"}
           absent == {r \in Reqs : rs[r].status = "absent"}
           T == IF open # {} THEN open ELSE absent
           r == Smallest(T)
<1>1. CASE C = {}
  BY <1>1 DEF Queue
<1>2. CASE C # {}
  <2>1. /\ open \cup absent # {}
        /\ copies' = [c \in Copies |-> IF c \in C THEN [cs[c] EXCEPT !.req = r] ELSE cs[c]]
        /\ reqs' = IF open # {} THEN rs ELSE [rs EXCEPT ![r] = NewRequest]
    BY <1>2 DEF Queue
  <2>2. T # {} /\ T \subseteq Nat /\ T \subseteq Reqs
    BY <2>1, ReqsFacts
  <2>3. r \in T
    BY <2>2, SmallestIn
  <2>4. r \in Reqs /\ (rs[r].status = "collecting" \/ (open = {} /\ rs[r].status = "absent"))
    BY <2>2, <2>3
  <2>5. cs \in [Copies -> CopyRow] /\ rs \in [Reqs -> RequestRow]
    BY DEF Rows
  <2>6. /\ \A q \in Reqs \ {r} : reqs'[q] = rs[q]
        /\ \/ reqs'[r] = rs[r] /\ rs[r].status = "collecting"
           \/ rs[r].status = "absent" /\ reqs'[r] = NewRequest
        /\ reqs' \in [Reqs -> RequestRow]
    <3>1. CASE open # {}
      BY <2>1, <2>3, <2>5, <3>1
    <3>2. CASE open = {}
      <4>1. reqs' = [rs EXCEPT ![r] = NewRequest] /\ rs[r].status = "absent"
        BY <2>1, <2>3, <3>2
      <4> HIDE DEF r, T, open, absent
      <4> QED  BY <2>4, <2>5, <4>1, NewRequestRow
    <3> QED  BY <3>1, <3>2
  <2> HIDE DEF r, T, open, absent
  <2>7. ASSUME NEW c \in Copies
        PROVE  /\ copies'[c] \in CopyRow
               /\ c \notin C => copies'[c] = cs[c]
               /\ c \in C => /\ copies'[c].req = r /\ ~copies'[c].positioned
                             /\ copies'[c].status = "piece_ready"
    <3>1. cs[c] \in CopyRow /\ r \in 0 .. MaxRequests
      BY <2>4, <2>5, ReqsFacts
    <3> QED  BY <2>1, <3>1 DEF CopyRow, Waiting
  <2>8. copies' \in [Copies -> CopyRow]
    BY <2>1, <2>7
  <2>9. reqs'[r].status = "collecting"
    BY <2>6 DEF NewRequest
  <2>10. ASSUME NEW c \in Copies PROVE MemberIn(copies', reqs', c)
    <3>1. CASE c \in C
      BY <2>4, <2>7, <2>9, <3>1 DEF MemberIn
    <3>2. CASE c \notin C
      <4>1. copies'[c] = cs[c] /\ MemberIn(cs, rs, c)
        BY <2>7, <3>2 DEF Rows
      <4>2. cs[c].req \in Reqs /\ rs[cs[c].req].status # "absent" =>
               reqs'[cs[c].req] = rs[cs[c].req]
        BY <2>6
      <4> QED  BY <4>1, <4>2 DEF MemberIn, Sealed
    <3> QED  BY <3>1, <3>2
  <2>11. ASSUME NEW q \in Reqs PROVE HeldIn(copies', reqs', q)
    <3>1. HeldIn(cs, rs, q) /\ rs[q].pieces \subseteq Copies /\ q # 0
      BY <2>5, ReqsFacts DEF Rows, RequestRow
    <3>2. CASE q = r
      BY <1>2, <2>7, <2>9, <3>2 DEF HeldIn, Sealed
    <3>3. CASE q # r
      <4>1. \A c \in Copies : cs[c].req = q => copies'[c].req = q
        BY <2>7, <3>1 DEF Waiting
      <4>2. reqs'[q] = rs[q]
        BY <2>6, <3>3
      <4> QED  BY <3>1, <4>1, <4>2 DEF HeldIn
    <3> QED  BY <3>2, <3>3
  <2> QED  BY <2>6, <2>8, <2>10, <2>11 DEF Rows
<1> QED  BY <1>1, <1>2

\* A request that starts collecting has nothing behind it.
LEMMA NewLine ==
    ASSUME NEW q \in Reqs, Line(q), reqs[q].status = "absent", reqs'[q] = NewRequest,
           inv'[q] = inv[q], chain'[q] = chain[q], q \in pool' <=> q \in pool
    PROVE  Line(q)'
BY DEF Line, Flight, TaskRow, Position, NotSent, NewRequest, Settled

\* Pieces of a landed request stay, so no copy is registered again without a landing.
LEMMA RegisteredKept ==
    ASSUME RegisteredOnce, chain' = chain,
           \A r \in Reqs : chain[r] = "landed" => reqs'[r].pieces = reqs[r].pieces
    PROVE  RegisteredOnce'
BY DEF RegisteredOnce

\* A step that submits nothing keeps the limit on submissions.
LEMMA SubmittedKept ==
    ASSUME SubmittedBounded,
           \A r \in Reqs : reqs'[r].status = "submitted" => reqs[r].status = "submitted"
    PROVE  SubmittedBounded'
<1>1. Submitted' \subseteq Submitted /\ IsFiniteSet(Submitted) /\ IsFiniteSet(Submitted')
  BY ReqsFacts, FS_Subset DEF Submitted
<1>2. Cardinality(Submitted') <= Cardinality(Submitted)
  BY <1>1, FS_Subset
<1>3. Cardinality(Submitted) \in Nat /\ Cardinality(Submitted') \in Nat /\ MaxSubmitted \in Nat
  BY <1>1, FS_CardinalityType, CommitBoundsAssumption
<1> QED  BY <1>2, <1>3 DEF SubmittedBounded

-----------------------------------------------------------------------------
(* Kinds of steps.                                                         *)

\* A step of copies inside their requests.
LEMMA CopyStep ==
    ASSUME IInv, copies' \in [Copies -> CopyRow], Quiet(copies, copies'),
           UNCHANGED <<reqs, inv, chain, pool, writable>>
    PROVE  IInv'
<1>1. Rows(copies', reqs')
  BY RowsKept DEF IInv, TypeOK, Stay
<1>2. TypeOK' /\ RegisteredOnce' /\ SubmittedBounded'
  BY DEF IInv, TypeOK, RegisteredOnce, SubmittedBounded, Submitted
<1>3. \A q \in Reqs : Line(q)'
  BY LineKept DEF IInv
<1> QED  BY <1>1, <1>2, <1>3 DEF IInv

\* A step of the invocation of one request alone.
LEMMA InvocationStep ==
    ASSUME IInv, NEW r \in Reqs, NEW x \in Invocation, inv' = [inv EXCEPT ![r] = x], Line(r)',
           UNCHANGED <<copies, reqs, chain, writable>>,
           pool' = pool \/ pool' = pool \cup {r}
    PROVE  IInv'
<1>1. Rows(copies', reqs') /\ RegisteredOnce' /\ SubmittedBounded'
  BY DEF IInv, RegisteredOnce, SubmittedBounded, Submitted
<1>2. TypeOK'
  BY DEF IInv, TypeOK
<1>3. ASSUME NEW q \in Reqs PROVE Line(q)'
  <2>1. CASE q = r
    BY <2>1
  <2>2. CASE q # r
    <3>1. inv'[q] = inv[q] /\ (q \in pool' <=> q \in pool)
      BY <2>2 DEF IInv, TypeOK
    <3> QED  BY <3>1, LineKept DEF IInv
  <2> QED  BY <2>1, <2>2
<1> QED  BY <1>1, <1>2, <1>3 DEF IInv

\* A step of one request that keeps its pieces and stays signed or not.
LEMMA RequestStep ==
    ASSUME IInv, NEW r \in Reqs, NEW x \in RequestRow, reqs' = [reqs EXCEPT ![r] = x],
           x.pieces = reqs[r].pieces,
           x.status = reqs[r].status \/ (reqs[r].status \in Sealed /\ x.status \in Sealed),
           x.status = "submitted" => reqs[r].status = "submitted" \/ HasRoom,
           copies' \in [Copies -> CopyRow], Quiet(copies, copies'),
           inv' \in [Reqs -> Invocation], \A q \in Reqs \ {r} : inv'[q] = inv[q],
           UNCHANGED <<chain, pool, writable>>, Line(r)'
    PROVE  IInv'
<1>1. reqs \in [Reqs -> RequestRow] /\ Rows(copies, reqs)
  BY DEF IInv, TypeOK
<1>2. reqs'[r] = x /\ \A q \in Reqs \ {r} : reqs'[q] = reqs[q]
  BY <1>1
<1>3. reqs' \in [Reqs -> RequestRow]
  BY <1>1
<1>4. Stay(reqs, reqs')
  BY <1>2 DEF Stay
<1>5. Rows(copies', reqs')
  BY <1>1, <1>3, <1>4, RowsKept
<1>6. TypeOK'
  BY <1>3 DEF IInv, TypeOK
<1>7. RegisteredOnce'
  BY <1>2, RegisteredKept DEF IInv
<1>8. SubmittedBounded'
  <2>1. CASE x.status = "submitted" => reqs[r].status = "submitted"
    BY <1>2, <2>1, SubmittedKept DEF IInv
  <2>2. CASE HasRoom
    <3>1. Submitted' \subseteq Submitted \cup {r} /\ IsFiniteSet(Submitted)
      BY <1>2, ReqsFacts, FS_Subset DEF Submitted
    <3>2. IsFiniteSet(Submitted \cup {r}) /\ Cardinality(Submitted \cup {r}) <= Cardinality(Submitted) + 1
      <4>1. IsFiniteSet(Submitted \cup {r}) /\ Cardinality(Submitted \cup {r}) =
               IF r \in Submitted THEN Cardinality(Submitted) ELSE Cardinality(Submitted) + 1
        BY <3>1, FS_AddElement, Zenon
      <4>2. Cardinality(Submitted) \in Nat
        BY <3>1, FS_CardinalityType
      <4> QED  BY <4>1, <4>2
    <3>3. Cardinality(Submitted') <= Cardinality(Submitted \cup {r}) /\ IsFiniteSet(Submitted')
      BY <3>1, <3>2, FS_Subset
    <3>4. /\ Cardinality(Submitted) \in Nat /\ Cardinality(Submitted') \in Nat
          /\ Cardinality(Submitted \cup {r}) \in Nat /\ MaxSubmitted \in Nat
      BY <3>1, <3>2, <3>3, FS_CardinalityType, CommitBoundsAssumption
    <3>5. Cardinality(Submitted) < MaxSubmitted
      BY <2>2 DEF HasRoom
    <3> QED  BY <3>2, <3>3, <3>4, <3>5 DEF SubmittedBounded
  <2> QED  BY <2>1, <2>2
<1>9. \A q \in Reqs \ {r} : Line(q)'
  BY <1>2, LineKept DEF IInv
<1> QED  BY <1>5, <1>6, <1>7, <1>8, <1>9 DEF IInv

\* Copies that do not change are quiet.
LEMMA SameCopies == ASSUME IInv, copies' = copies
                    PROVE  copies' \in [Copies -> CopyRow] /\ Quiet(copies, copies')
BY DEF IInv, TypeOK, Quiet

\* The invocation that is over.
LEMMA EndedInvocation ==
    ASSUME IInv, NEW r \in Reqs, Ends(r)
    PROVE  /\ inv' \in [Reqs -> Invocation] /\ inv'[r] = Idle /\ Idle \in Invocation
           /\ \A q \in Reqs \ {r} : inv'[q] = inv[q]
<1>1. Idle \in Invocation
  BY DEF Idle, Invocation
<1> QED  BY <1>1 DEF Ends, IInv, TypeOK

\* Copies outside any request join one; nothing else happens.
LEMMA JoinStep ==
    ASSUME IInv, NEW C \in SUBSET Copies, NEW cs, Rows(cs, reqs), Queue(C, cs, reqs),
           Waiting(C, cs),
           UNCHANGED <<inv, chain, pool, writable>>
    PROVE  IInv'
<1>1. /\ Rows(copies', reqs')
      /\ \A q \in Reqs : \/ reqs'[q] = reqs[q]
                         \/ reqs[q].status = "absent" /\ reqs'[q] = NewRequest
  BY QueueKeeps
<1>2. \A q \in Reqs : Line(q)'
  BY <1>1, LineKept, NewLine DEF IInv
<1>3. TypeOK'
  BY <1>1 DEF IInv, TypeOK, Rows
<1>4. RegisteredOnce'
  <2>1. \A q \in Reqs : reqs[q].status = "absent" => chain[q] # "landed"
    BY DEF IInv, Line, Flight, NotSent
  <2> QED  BY <1>1, <2>1, RegisteredKept DEF IInv
<1>5. SubmittedBounded'
  BY <1>1, SubmittedKept DEF IInv, NewRequest
<1> QED  BY <1>1, <1>2, <1>3, <1>4, <1>5 DEF IInv

-----------------------------------------------------------------------------
(* Copies.                                                                 *)

\* The transfer of a copy ends.
LEMMA FinishTransferKeeps == ASSUME IInv, NEW c \in Copies, FinishTransfer(c) PROVE IInv'
<1> DEFINE done(status) == [copies EXCEPT ![c].status = status, ![c].transfer = "none"]
<1>1. copies[c] \in CopyRow /\ copies \in [Copies -> CopyRow] /\ MemberIn(copies, reqs, c)
  BY DEF IInv, TypeOK, Rows
<1>2. ASSUME NEW st \in {"pending", "piece_ready", "committing", "committed", "failed"}
      PROVE  /\ done(st) \in [Copies -> CopyRow]
             /\ done(st)[c].status = st /\ done(st)[c].req = copies[c].req
             /\ done(st)[c].positioned = copies[c].positioned
             /\ \A d \in Copies \ {c} : done(st)[d] = copies[d]
  <2> DEFINE k == [copies[c] EXCEPT !.status = st, !.transfer = "none"]
  <2>1. k \in CopyRow /\ k.status = st /\ k.req = copies[c].req
        /\ k.positioned = copies[c].positioned
    BY <1>1 DEF CopyRow
  <2>2. done(st) = [copies EXCEPT ![c] = k]
    BY <1>1
  <2> HIDE DEF k
  <2>3. done(st)[c] = k /\ (\A d \in Copies \ {c} : done(st)[d] = copies[d])
        /\ done(st) \in [Copies -> CopyRow]
    BY <1>1, <2>1, <2>2
  <2> QED  BY <2>1, <2>3
<1>3. copies[c].status \in {"pending", "piece_ready", "committing", "committed", "failed"}
  BY <1>1 DEF CopyRow
<1>4. CASE copies[c].status # "pending"
  <2>1. copies' = done(copies[c].status) /\ reqs' = reqs
    BY <1>4 DEF FinishTransfer, Queue
  <2>2. /\ copies' \in [Copies -> CopyRow]
        /\ copies'[c].status = copies[c].status /\ copies'[c].req = copies[c].req
        /\ copies'[c].positioned = copies[c].positioned
        /\ \A d \in Copies \ {c} : copies'[d] = copies[d]
    BY <1>2, <1>3, <2>1
  <2>3. Quiet(copies, copies')
    BY <2>2 DEF Quiet
  <2> QED  BY <2>1, <2>2, <2>3, CopyStep DEF FinishTransfer
<1>5. CASE copies[c].status = "pending" /\ copies[c].positioned
  <2>1. copies' = done("committing") /\ reqs' = reqs
    BY <1>5 DEF FinishTransfer, Queue
  <2>2. copies' \in [Copies -> CopyRow] /\ Quiet(copies, copies')
    BY <1>2, <1>5, <2>1 DEF Quiet
  <2> QED  BY <2>1, <2>2, CopyStep DEF FinishTransfer
<1>6. CASE copies[c].status = "pending" /\ ~copies[c].positioned
  <2> DEFINE cs == done("piece_ready")
  <2>1. Queue({c}, cs, reqs) /\ UNCHANGED <<inv, chain, pool, writable>>
    BY <1>6 DEF FinishTransfer
  <2>2. copies[c].req = 0
    BY <1>1, <1>6 DEF MemberIn
  <2>3. cs \in [Copies -> CopyRow] /\ Quiet(copies, cs)
    BY <1>2, <2>2 DEF Quiet
  <2>4. Waiting({c}, cs)
    BY <1>2, <1>6, <2>2 DEF Waiting
  <2> HIDE DEF cs
  <2>5. Rows(cs, reqs)
    BY <2>3, RowsKept DEF IInv, TypeOK, Stay
  <2> QED  BY <2>1, <2>4, <2>5, JoinStep
<1> QED  BY <1>4, <1>5, <1>6

\* A copy's own row changes, with the copy inside its request.
LEMMA OneCopyStep ==
    ASSUME IInv, NEW c \in Copies, NEW k \in CopyRow, copies' = [copies EXCEPT ![c] = k],
           k.req = copies[c].req, k.positioned = copies[c].positioned,
           \/ k.status = copies[c].status
           \/ copies[c].req = 0 /\ k.status \in {"pending", "piece_ready", "failed"},
           UNCHANGED <<reqs, inv, chain, pool, writable>>
    PROVE  IInv'
<1>1. /\ copies' \in [Copies -> CopyRow] /\ copies'[c] = k
      /\ \A d \in Copies \ {c} : copies'[d] = copies[d]
  BY DEF IInv, TypeOK
<1>2. Quiet(copies, copies')
  BY <1>1 DEF Quiet
<1> QED  BY <1>1, <1>2, CopyStep

\* settleCopyFailure and ReleaseMemberTransfer, stopped transfers, and reopened copies.
LEMMA TransferKeeps ==
    ASSUME IInv, NEW c \in Copies,
           FailTransfer(c) \/ StopTransfer(c) \/ RetryTransfer(c) \/ ReopenFailedUploadCopy(c)
    PROVE  IInv'
<1>1. copies[c] \in CopyRow /\ copies \in [Copies -> CopyRow] /\ MemberIn(copies, reqs, c)
  BY DEF IInv, TypeOK, Rows
<1>2. CASE FailTransfer(c)
  <2> DEFINE st == IF copies[c].status = "pending" /\ ~copies[c].positioned
                   THEN "failed" ELSE copies[c].status
             k == [copies[c] EXCEPT !.transfer = "none", !.status = st]
  <2>1. copies' = [copies EXCEPT ![c] = k] /\ UNCHANGED <<reqs, inv, chain, pool, writable>>
    BY <1>1, <1>2 DEF FailTransfer
  <2>2. k \in CopyRow /\ k.req = copies[c].req /\ k.positioned = copies[c].positioned
        /\ k.status = st
    BY <1>1 DEF CopyRow
  <2>3. st = copies[c].status \/ (copies[c].req = 0 /\ st = "failed")
    BY <1>1 DEF MemberIn
  <2> HIDE DEF k, st
  <2> QED  BY <2>1, <2>2, <2>3, OneCopyStep
<1>3. ASSUME NEW t \in {"running", "stopped"}, copies' = [copies EXCEPT ![c].transfer = t],
             UNCHANGED <<reqs, inv, chain, pool, writable>>
      PROVE  IInv'
  <2> DEFINE k == [copies[c] EXCEPT !.transfer = t]
  <2>1. copies' = [copies EXCEPT ![c] = k]
    BY <1>1, <1>3
  <2>2. k \in CopyRow /\ k.req = copies[c].req /\ k.positioned = copies[c].positioned
        /\ k.status = copies[c].status
    BY <1>1 DEF CopyRow
  <2> HIDE DEF k
  <2> QED  BY <1>3, <2>1, <2>2, OneCopyStep
<1>4. CASE ReopenFailedUploadCopy(c)
  <2> DEFINE k == [status |-> "pending", req |-> 0, positioned |-> FALSE, transfer |-> "running"]
  <2>1. copies' = [copies EXCEPT ![c] = k] /\ UNCHANGED <<reqs, inv, chain, pool, writable>>
    BY <1>4 DEF ReopenFailedUploadCopy
  <2>2. copies[c].req = 0 /\ copies[c].positioned = FALSE
    BY <1>1, <1>4 DEF ReopenFailedUploadCopy, MemberIn, CopyRow
  <2>3. k \in CopyRow
    BY ReqsFacts DEF CopyRow
  <2>4. k.req = 0 /\ k.positioned = FALSE /\ k.status = "pending"
    OBVIOUS
  <2> HIDE DEF k
  <2> QED  BY <2>1, <2>2, <2>3, <2>4, OneCopyStep
<1> QED  BY <1>2, <1>3, <1>4 DEF StopTransfer, RetryTransfer

\* A replacement queues a transferred copy.
LEMMA JoinCommitKeeps == ASSUME IInv, NEW c \in Copies, JoinCommit(c) PROVE IInv'
<1>1. MemberIn(copies, reqs, c) /\ Rows(copies, reqs)
  BY DEF IInv, Rows
<1>2. copies[c].status = "piece_ready" /\ copies[c].req = 0
  BY DEF JoinCommit
<1>3. Waiting({c}, copies)
  BY <1>1, <1>2, ReqsFacts DEF MemberIn, Waiting
<1> HIDE DEF Waiting
<1> QED  BY <1>1, <1>3, JoinStep DEF JoinCommit

\* A request that is given up has nothing in flight, or nothing can land any more.
LEMMA AbandonedLine ==
    ASSUME NEW r \in Reqs, reqs'[r].status = "abandoned", reqs'[r].task = "none",
           NotSent(r) \/ ~writable, UNCHANGED <<chain, pool, writable>>
    PROVE  Line(r)'
BY DEF Line, Flight, TaskRow, Position, NotSent, Settled

\* releaseCollectingCommitMembership gives an empty request up with the copy that leaves.
LEMMA CancelCopyKeeps ==
    ASSUME IInv, NEW c \in Copies, NEW status \in {"failed", "piece_ready"},
           CancelCopy(c, status)
    PROVE  IInv'
<1> DEFINE k == [status |-> status, req |-> 0, positioned |-> FALSE, transfer |-> "none"]
<1>1. copies[c] \in CopyRow /\ copies \in [Copies -> CopyRow] /\ MemberIn(copies, reqs, c)
  BY DEF IInv, TypeOK, Rows
<1>2. reqs \in [Reqs -> RequestRow] /\ Rows(copies, reqs)
  BY DEF IInv, TypeOK
<1>3. /\ reqs' = Release(c) /\ copies' = [copies EXCEPT ![c] = k] /\ ~copies[c].positioned
      /\ UNCHANGED <<inv, chain, pool, writable>>
  BY DEF CancelCopy
<1>4. k \in CopyRow /\ k.req = 0 /\ k.positioned = FALSE /\ k.status \in {"failed", "piece_ready"}
  BY ReqsFacts DEF CopyRow
<1> HIDE DEF k
<1>5. /\ copies' \in [Copies -> CopyRow] /\ copies'[c] = k
      /\ \A d \in Copies \ {c} : copies'[d] = copies[d]
  BY <1>1, <1>3, <1>4
<1>6. ASSUME NEW q \in Reqs
      PROVE  /\ reqs'[q] \in RequestRow
             /\ \/ /\ copies[c].req = q /\ Members(q) = {c}
                   /\ reqs'[q].status = "abandoned" /\ reqs'[q].task = "none"
                   /\ reqs'[q].pieces = reqs[q].pieces
                \/ reqs'[q] = reqs[q] /\ ~(copies[c].req = q /\ Members(q) = {c})
  <2>1. reqs[q] \in RequestRow
    BY <1>2
  <2>2. CASE copies[c].req = q /\ Members(q) = {c}
    <3>1. reqs'[q] = [reqs[q] EXCEPT !.status = "abandoned", !.task = "none"]
      BY <1>3, <2>2 DEF Release
    <3> QED  BY <2>1, <2>2, <3>1 DEF RequestRow, Settled
  <2>3. CASE ~(copies[c].req = q /\ Members(q) = {c})
    BY <1>3, <2>1, <2>3 DEF Release
  <2> QED  BY <2>2, <2>3
<1>7. reqs' \in [Reqs -> RequestRow]
  BY <1>3, <1>6 DEF Release
<1>8. copies[c].req = 0 \/ (copies[c].req \in Reqs /\ reqs[copies[c].req].status = "collecting")
  BY <1>1, <1>3 DEF MemberIn
<1>9. ASSUME NEW d \in Copies PROVE MemberIn(copies', reqs', d)
  <2>1. CASE d = c
    BY <1>4, <1>5, <2>1 DEF MemberIn
  <2>2. CASE d # c
    <3>1. copies'[d] = copies[d] /\ MemberIn(copies, reqs, d)
      BY <1>2, <1>5, <2>2 DEF Rows
    <3>2. copies[d].req \in Reqs => reqs'[copies[d].req] = reqs[copies[d].req]
      <4> SUFFICES ASSUME copies[d].req \in Reqs PROVE ~(Members(copies[d].req) = {c})
        BY <1>6
      <4>1. d \in Members(copies[d].req)
        BY DEF Members
      <4> QED  BY <2>2, <4>1
    <3> QED  BY <3>1, <3>2 DEF MemberIn
  <2> QED  BY <2>1, <2>2
<1>10. ASSUME NEW q \in Reqs PROVE HeldIn(copies', reqs', q)
  <2>1. HeldIn(copies, reqs, q) /\ reqs[q].pieces \subseteq Copies /\ q # 0
    BY <1>2, ReqsFacts DEF Rows, RequestRow
  <2>2. CASE reqs'[q].status = "abandoned"
    BY <2>2 DEF HeldIn, Sealed
  <2>3. CASE reqs'[q] = reqs[q] /\ copies[c].req # q
    <3>1. \A d \in Copies : copies[d].req = q => copies'[d].req = q
      BY <1>5, <2>3
    <3> QED  BY <2>1, <2>3, <3>1 DEF HeldIn
  <2>4. CASE reqs'[q] = reqs[q] /\ copies[c].req = q /\ Members(q) # {c}
    <3>1. reqs[q].status = "collecting"
      BY <1>8, <2>1, <2>4
    <3>2. c \in Members(q)
      BY <2>4 DEF Members
    <3>3. PICK d \in Members(q) : d # c
      BY <2>4, <3>2
    <3>4. d \in Copies /\ copies'[d].req = q
      BY <1>5, <3>3 DEF Members
    <3> QED  BY <2>4, <3>1, <3>4 DEF HeldIn, Sealed
  <2> QED  BY <1>6, <2>2, <2>3, <2>4
<1>11. Rows(copies', reqs')
  BY <1>5, <1>7, <1>9, <1>10 DEF Rows
<1>12. \A q \in Reqs : Line(q)'
  <2> TAKE q \in Reqs
  <2>1. CASE reqs'[q] = reqs[q]
    BY <1>3, <2>1, LineKept DEF IInv
  <2>2. CASE copies[c].req = q /\ reqs'[q].status = "abandoned" /\ reqs'[q].task = "none"
    <3>1. reqs[q].status = "collecting" /\ Line(q)
      BY <1>8, <2>2, ReqsFacts DEF IInv
    <3>2. NotSent(q)
      BY <3>1 DEF Line, Flight
    <3> QED  BY <1>3, <2>2, <3>2, AbandonedLine
  <2> QED  BY <1>6, <2>1, <2>2
<1>13. TypeOK'
  BY <1>3, <1>5, <1>7 DEF IInv, TypeOK
<1>14. RegisteredOnce' /\ SubmittedBounded'
  BY <1>3, <1>6, RegisteredKept, SubmittedKept DEF IInv
<1> QED  BY <1>11, <1>12, <1>13, <1>14 DEF IInv

-----------------------------------------------------------------------------
(* Signing and sealing.                                                    *)

\* runCollectingCommit always finds members to sign.
LEMMA SignMembersKeeps ==
    ASSUME IInv, NEW r \in Reqs, NEW S \in SUBSET Copies, SignMembers(r, S) PROVE IInv'
<1>1. Members(r) # {} /\ Line(r)
  <2>1. HeldIn(copies, reqs, r) /\ reqs[r].status = "collecting"
    BY DEF IInv, Rows, SignMembers
  <2> QED  BY <2>1 DEF HeldIn, Members, IInv
<1> DEFINE x == [step |-> "signed", why |-> "none", saw |-> "unused", members |-> S]
<1>2. inv' = [inv EXCEPT ![r] = x] /\ UNCHANGED <<copies, reqs, chain, pool, writable>>
  BY <1>1 DEF SignMembers, Begins
<1>3. x \in Invocation /\ x.step = "signed"
  BY DEF Invocation
<1> HIDE DEF x
<1>4. inv'[r] = x /\ reqs[r].status = "collecting" /\ reqs[r].task = "live"
  BY <1>2 DEF IInv, TypeOK, SignMembers, May
<1>5. Line(r)'
  BY <1>1, <1>2, <1>3, <1>4 DEF Line, Flight, TaskRow, Position, NotSent, Settled
<1> QED  BY <1>2, <1>3, <1>5, InvocationStep

\* An invocation that ends leaves nothing behind.
LEMMA EndKeeps ==
    ASSUME IInv, NEW r \in Reqs, Ends(r), UNCHANGED <<copies, reqs, chain, writable>>,
           \/ pool' = pool
           \/ pool' = pool \cup {r} /\ reqs[r].status = "submitted"
    PROVE  IInv'
<1>1. inv' = [inv EXCEPT ![r] = Idle] /\ inv'[r] = Idle /\ Idle \in Invocation
  BY EndedInvocation DEF Ends
<1>2. Line(r)'
  <2>1. Idle.step = "none" /\ Line(r)
    BY DEF Idle, IInv
  <2> QED  BY <1>1, <2>1 DEF Line, Flight, TaskRow, Position, NotSent, Settled
<1> QED  BY <1>1, <1>2, InvocationStep

\* SealCommitRequest gives the signed members their positions and moves the rest.
LEMMA SealKeeps == ASSUME IInv, NEW r \in Reqs, SealCommitRequest(r) PROVE IInv'
<1> DEFINE S == inv[r].members
           spilled == Members(r) \ S
           absent == {q \in Reqs : reqs[q].status = "absent"}
           next == Smallest(absent)
           ord == Cardinality({q \in Reqs : reqs[q].order > 0}) + 1
           x == [reqs[r] EXCEPT !.status = "ready", !.pieces = S, !.order = ord]
<1>1. May(r, "signed") /\ Ends(r) /\ UNCHANGED <<chain, pool, writable>>
  BY DEF SealCommitRequest
<1>2. CASE ~(reqs[r].status = "collecting" /\ StillMembers(r, S))
  <2>1. UNCHANGED <<copies, reqs>>
    BY <1>2 DEF SealCommitRequest
  <2> QED  BY <1>1, <2>1, EndKeeps
<1>3. CASE reqs[r].status = "collecting" /\ StillMembers(r, S)
  <2>1. /\ spilled = {} \/ absent # {}
        /\ reqs' = IF spilled = {} THEN [reqs EXCEPT ![r] = x]
                    ELSE [[reqs EXCEPT ![r] = x] EXCEPT ![next] = NewRequest]
        /\ copies' = [c \in Copies |->
                    IF c \in S THEN [copies[c] EXCEPT !.status = "committing",
                                     !.positioned = TRUE, !.req = r]
                    ELSE IF c \in spilled THEN [copies[c] EXCEPT !.req = next]
                    ELSE copies[c]]
    <3>1. /\ spilled = {} \/ absent # {}
          /\ reqs' = IF spilled = {}
                      THEN [reqs EXCEPT ![r].status = "ready", ![r].pieces = S, ![r].order = ord]
                      ELSE [[reqs EXCEPT ![r].status = "ready", ![r].pieces = S, ![r].order = ord]
                              EXCEPT ![next] = NewRequest]
          /\ copies' = [c \in Copies |->
                    IF c \in S THEN [copies[c] EXCEPT !.status = "committing",
                                     !.positioned = TRUE, !.req = r]
                    ELSE IF c \in spilled THEN [copies[c] EXCEPT !.req = next]
                    ELSE copies[c]]
      BY <1>3 DEF SealCommitRequest
    <3>2. [reqs EXCEPT ![r].status = "ready", ![r].pieces = S, ![r].order = ord]
             = [reqs EXCEPT ![r] = x]
      BY DEF IInv, TypeOK
    <3> QED  BY <3>1, <3>2
  <2>2. /\ copies \in [Copies -> CopyRow] /\ reqs \in [Reqs -> RequestRow]
        /\ S \subseteq Copies /\ Rows(copies, reqs) /\ Line(r)
    BY DEF IInv, TypeOK, Invocation
  <2>3. ord \in 0 .. MaxRequests
    <3> DEFINE T == {q \in Reqs : reqs[q].order > 0}
    <3>1. reqs[r].order = 0
      BY <1>3, <2>2 DEF Line, TaskRow
    <3>2. T \subseteq Reqs \ {r}
      BY <3>1
    <3>3. IsFiniteSet(Reqs \ {r}) /\ Cardinality(Reqs \ {r}) = MaxRequests - 1
      BY ReqsFacts, FS_RemoveElement
    <3>4. Cardinality(T) <= Cardinality(Reqs \ {r}) /\ IsFiniteSet(T)
      BY <3>2, <3>3, FS_Subset
    <3>5. Cardinality(T) \in Nat /\ MaxRequests \in Nat
      BY <3>4, FS_CardinalityType, CommitBoundsAssumption
    <3> HIDE DEF T
    <3>6. Cardinality(T) + 1 \in 0 .. MaxRequests
      BY <3>3, <3>4, <3>5
    <3> QED  BY <3>6 DEF T
  <2> HIDE DEF ord
  <2>4. /\ x \in RequestRow /\ x.status = "ready" /\ x.pieces = S /\ x.task = reqs[r].task
    <3>1. reqs[r] \in RequestRow
      BY <2>2
    <3> QED  BY <2>2, <2>3, <3>1 DEF RequestRow, Sealed
  <2> HIDE DEF x
  <2>5. spilled # {} => next \in Reqs /\ reqs[next].status = "absent"
    <3>1. absent \subseteq Nat
      BY ReqsFacts
    <3>2. absent # {} => next \in absent
      BY <3>1, SmallestIn
    <3> QED  BY <2>1, <3>2
  <2>6. spilled # {} => next # r
    BY <1>3, <2>5
  <2>7. /\ reqs' \in [Reqs -> RequestRow] /\ reqs'[r] = x
        /\ spilled # {} => reqs'[next] = NewRequest
        /\ \A q \in Reqs \ {r} : reqs'[q] = reqs[q] \/ (spilled # {} /\ q = next)
    <3> HIDE DEF next, spilled, absent
    <3>1. CASE spilled = {}
      BY <2>1, <2>2, <2>4, <3>1
    <3>2. CASE spilled # {}
      BY <2>1, <2>2, <2>4, <2>5, <2>6, <3>2, NewRequestRow
    <3> QED  BY <3>1, <3>2
  <2>8. S \subseteq Members(r) /\ spilled \subseteq Members(r)
    BY <1>3 DEF StillMembers
  <2> HIDE DEF next
  <2>9. ASSUME NEW c \in Copies
        PROVE  /\ copies'[c] \in CopyRow
               /\ c \in S => /\ copies'[c].status = "committing" /\ copies'[c].positioned
                             /\ copies'[c].req = r
               /\ c \in spilled => /\ copies'[c].status = copies[c].status
                                   /\ copies'[c].positioned = copies[c].positioned
                                   /\ copies'[c].req = next
               /\ c \notin Members(r) => copies'[c] = copies[c]
    <3>1. copies[c] \in CopyRow /\ r \in 0 .. MaxRequests
      BY <2>2, ReqsFacts
    <3>2. CASE c \in S
      <4>1. copies'[c] = [copies[c] EXCEPT !.status = "committing", !.positioned = TRUE, !.req = r]
        BY <2>1, <3>2
      <4>2. c \in Members(r) /\ c \notin spilled
        BY <2>8, <3>2
      <4> HIDE DEF spilled, S
      <4> QED  BY <3>1, <3>2, <4>1, <4>2 DEF CopyRow
    <3>3. CASE c \in spilled
      <4>1. copies'[c] = [copies[c] EXCEPT !.req = next] /\ c \notin S
        BY <2>1, <3>3
      <4>2. c \in Members(r) /\ next \in 0 .. MaxRequests
        BY <2>5, <2>8, <3>3, ReqsFacts
      <4> HIDE DEF spilled, S
      <4> QED  BY <3>1, <3>3, <4>1, <4>2 DEF CopyRow
    <3>4. CASE c \notin Members(r)
      <4>1. c \notin S /\ c \notin spilled
        BY <2>8, <3>4
      <4> QED  BY <2>1, <3>1, <4>1
    <3> QED  BY <3>2, <3>3, <3>4
  <2>10. copies' \in [Copies -> CopyRow]
    BY <2>1, <2>9
  <2>11. Members(r) = S \cup spilled
    BY <2>8
  <2> HIDE DEF spilled, S
  <2>12. ASSUME NEW c \in Copies PROVE MemberIn(copies', reqs', c)
    <3>1. MemberIn(copies, reqs, c)
      BY <2>2 DEF Rows
    <3>2. CASE c \in S
      BY <2>4, <2>7, <2>9, <3>2 DEF MemberIn, Sealed
    <3>3. CASE c \in spilled
      <4>1. copies[c].req = r
        BY <2>8, <3>3 DEF Members
      <4>2. copies[c].status = "piece_ready" /\ ~copies[c].positioned
        BY <1>3, <3>1, <4>1, ReqsFacts DEF MemberIn, Sealed
      <4>3. reqs'[next].status = "collecting" /\ next \in Reqs
        BY <2>5, <2>7, <3>3 DEF NewRequest
      <4> QED  BY <2>9, <3>3, <4>2, <4>3 DEF MemberIn
    <3>4. CASE c \notin Members(r)
      <4>1. copies'[c] = copies[c] /\ copies[c].req # r
        BY <2>9, <3>4 DEF Members
      <4>2. copies[c].req \in Reqs /\ reqs[copies[c].req].status # "absent" =>
               reqs'[copies[c].req] = reqs[copies[c].req]
        BY <2>5, <2>7, <4>1
      <4> QED  BY <3>1, <4>1, <4>2 DEF MemberIn, Sealed
    <3> QED  BY <2>11, <3>2, <3>3, <3>4
  <2>13. ASSUME NEW q \in Reqs PROVE HeldIn(copies', reqs', q)
    <3>1. HeldIn(copies, reqs, q) /\ reqs[q].pieces \subseteq Copies
      BY <2>2 DEF Rows, RequestRow
    <3>2. CASE q = r
      BY <2>2, <2>4, <2>7, <2>9, <3>2 DEF HeldIn, Sealed
    <3>3. CASE q # r /\ reqs'[q] = reqs[q]
      <4>1. \A c \in Copies : copies[c].req = q => copies'[c].req = q
        BY <2>9, <3>3 DEF Members
      <4> QED  BY <3>1, <3>3, <4>1 DEF HeldIn
    <3>4. CASE spilled # {} /\ q = next
      <4>1. PICK c \in spilled : TRUE
        BY <3>4
      <4>2. c \in Copies
        BY <2>8, <4>1 DEF Members
      <4> QED  BY <2>7, <2>9, <3>4, <4>1, <4>2 DEF HeldIn, NewRequest, Sealed
    <3> QED  BY <2>7, <3>2, <3>3, <3>4
  <2>14. Rows(copies', reqs')
    BY <2>7, <2>10, <2>12, <2>13 DEF Rows
  <2>15. inv' \in [Reqs -> Invocation] /\ inv'[r] = Idle /\ \A q \in Reqs \ {r} : inv'[q] = inv[q]
    BY <1>1, EndedInvocation
  <2>16. TypeOK'
    BY <1>1, <2>7, <2>10, <2>15 DEF IInv, TypeOK
  <2>17. Line(r)'
    <3>1. NotSent(r) /\ Idle.step = "none" /\ reqs[r].task = "live"
      BY <1>1, <1>3, <2>2 DEF Line, Flight, Idle, May
    <3> QED  BY <1>1, <2>4, <2>7, <2>15, <3>1 DEF Line, Flight, TaskRow, Position, NotSent, Settled
  <2>18. ASSUME NEW q \in Reqs, q # r PROVE Line(q)'
    <3>1. CASE reqs'[q] = reqs[q]
      BY <1>1, <2>15, <2>18, <3>1, LineKept DEF IInv
    <3>2. CASE spilled # {} /\ q = next
      BY <1>1, <2>5, <2>7, <2>15, <2>18, <3>2, NewLine DEF IInv
    <3> QED  BY <2>7, <2>18, <3>1, <3>2
  <2>19. RegisteredOnce'
    <3>1. \A q \in Reqs : reqs[q].status \in {"absent", "collecting"} => chain[q] # "landed"
      BY DEF IInv, Line, Flight, NotSent
    <3>2. \A q \in Reqs : chain[q] = "landed" => reqs'[q].pieces = reqs[q].pieces
      BY <1>3, <2>5, <2>7, <3>1
    <3> QED  BY <1>1, <3>2, RegisteredKept DEF IInv
  <2>20. SubmittedBounded'
    <3>1. \A q \in Reqs : reqs'[q].status = "submitted" => reqs[q].status = "submitted"
      BY <2>4, <2>7 DEF NewRequest
    <3> QED  BY <3>1, SubmittedKept DEF IInv
  <2> QED  BY <2>14, <2>16, <2>17, <2>18, <2>19, <2>20 DEF IInv
<1> QED  BY <1>2, <1>3

-----------------------------------------------------------------------------
(* What the nonce says.                                                    *)

\* Prove reads the nonce, which is used once at most.
LEMMA ProveKeeps ==
    ASSUME IInv, NEW r \in Reqs, NEW why \in {"prepare", "observe", "giveup"}, Prove(r, why)
    PROVE  IInv'
<1> DEFINE x == [step |-> "proved", why |-> why, saw |-> chain[r], members |-> {}]
<1>1. inv' = [inv EXCEPT ![r] = x] /\ UNCHANGED <<copies, reqs, chain, pool, writable>>
  BY DEF Prove, Begins
<1>2. x \in Invocation /\ x.step = "proved" /\ x.why = why /\ x.saw = chain[r]
  BY DEF Invocation, IInv, TypeOK
<1> HIDE DEF x
<1>3. inv'[r] = x /\ Line(r) /\ reqs[r].task = "live"
  BY <1>1 DEF IInv, TypeOK, Prove, May
<1>4. reqs[r].status = IF why = "observe" THEN "submitted" ELSE "ready"
  BY DEF Prove, IsHead, Eligible
<1>5. Line(r)'
  BY <1>1, <1>2, <1>3, <1>4 DEF Line, Flight, TaskRow, Position, NotSent, Settled
<1> QED  BY <1>1, <1>2, <1>5, InvocationStep

\* CheckWritable: that the chain takes no more pieces is final.
LEMMA CheckWritableKeeps == ASSUME IInv, NEW r \in Reqs, CheckWritable(r) PROVE IInv'
<1>1. PICK step \in {"writable", "abandon"} :
         (step = "abandon" => ~writable) /\ inv' = [inv EXCEPT ![r].step = step]
  BY DEF CheckWritable
<1>2. inv[r] \in Invocation /\ inv \in [Reqs -> Invocation] /\ Line(r)
  BY DEF IInv, TypeOK
<1> DEFINE x == [inv[r] EXCEPT !.step = step]
<1>3. inv' = [inv EXCEPT ![r] = x]
  BY <1>1, <1>2
<1>4. x \in Invocation /\ x.step = step /\ x.why = inv[r].why
  BY <1>2 DEF Invocation
<1> HIDE DEF x
<1>5. inv'[r] = x /\ UNCHANGED <<copies, reqs, chain, pool, writable>>
  BY <1>2, <1>3 DEF CheckWritable
<1>6. reqs[r].task = "live" /\ inv[r].step = "proved"
  BY DEF CheckWritable, May
<1>7. reqs[r].status = IF inv[r].why = "observe" THEN "submitted" ELSE "ready"
  BY <1>2, <1>6 DEF Line, Position
<1>8. Line(r)'
  BY <1>1, <1>2, <1>4, <1>5, <1>6, <1>7
     DEF Line, Flight, TaskRow, Position, NotSent, Settled, Sealed
<1> QED  BY <1>3, <1>4, <1>5, <1>8, InvocationStep

\* ConfirmCommitRequest commits what has landed.
LEMMA ConfirmKeeps == ASSUME IInv, NEW r \in Reqs, ConfirmCommitRequest(r) PROVE IInv'
<1>1. /\ May(r, "proved") /\ Proven(r) /\ reqs[r].status \in Sealed
      /\ Ends(r) /\ UNCHANGED <<chain, pool, writable>>
  BY DEF ConfirmCommitRequest
<1>2. CASE Confirmable(r) # reqs[r].pieces
  BY <1>1, <1>2, EndKeeps DEF ConfirmCommitRequest
<1>3. CASE Confirmable(r) = reqs[r].pieces
  <2> DEFINE P == reqs[r].pieces
             x == [reqs[r] EXCEPT !.status = "confirmed", !.task = "none"]
  <2>1. /\ copies \in [Copies -> CopyRow] /\ reqs \in [Reqs -> RequestRow]
        /\ P \subseteq Copies /\ Rows(copies, reqs) /\ Line(r)
    BY DEF IInv, TypeOK, RequestRow
  <2>2. /\ reqs' = [reqs EXCEPT ![r] = x]
        /\ copies' = [c \in Copies |-> IF c \in P THEN [copies[c] EXCEPT !.status = "committed"]
                                       ELSE copies[c]]
    BY <1>3, <2>1 DEF ConfirmCommitRequest
  <2>3. x \in RequestRow /\ x.status = "confirmed" /\ x.task = "none" /\ x.pieces = P
    BY <2>1 DEF RequestRow, Settled
  <2> HIDE DEF x
  <2>4. /\ reqs' \in [Reqs -> RequestRow] /\ reqs'[r] = x
        /\ \A q \in Reqs \ {r} : reqs'[q] = reqs[q]
    BY <2>1, <2>2, <2>3
  <2>5. ASSUME NEW c \in Copies
        PROVE  /\ copies'[c] \in CopyRow /\ copies'[c].req = copies[c].req
               /\ copies'[c].positioned = copies[c].positioned
               /\ c \in P => copies'[c].status = "committed"
               /\ c \notin P => copies'[c] = copies[c]
    BY <2>1, <2>2 DEF CopyRow
  <2>6. copies' \in [Copies -> CopyRow]
    BY <2>2, <2>5
  <2>7. ASSUME NEW c \in Copies PROVE MemberIn(copies', reqs', c)
    <3>1. MemberIn(copies, reqs, c) /\ HeldIn(copies, reqs, r)
      BY <2>1 DEF Rows
    <3>2. CASE c \in P
      <4>1. copies[c].req = r
        BY <1>1, <3>1, <3>2 DEF HeldIn
      <4>2. copies[c].positioned
        BY <1>1, <3>1, <4>1, ReqsFacts DEF MemberIn, Sealed
      <4> QED  BY <2>3, <2>4, <2>5, <3>2, <4>1, <4>2 DEF MemberIn
    <3>3. CASE c \notin P
      <4>1. copies[c].req # r
        BY <1>1, <3>1, <3>3, ReqsFacts DEF MemberIn, Sealed
      <4> QED  BY <2>4, <2>5, <3>1, <3>3, <4>1, SMTT(30) DEF MemberIn
    <3> QED  BY <3>2, <3>3
  <2>8. ASSUME NEW q \in Reqs PROVE HeldIn(copies', reqs', q)
    <3>1. HeldIn(copies, reqs, q) /\ reqs[q].pieces \subseteq Copies
      BY <2>1 DEF Rows, RequestRow
    <3>2. \A c \in Copies : copies'[c].req = copies[c].req
      BY <2>5
    <3>3. CASE q = r
      BY <1>1, <2>3, <2>4, <3>1, <3>2, <3>3 DEF HeldIn
    <3>4. CASE q # r
      BY <2>4, <3>1, <3>2, <3>4 DEF HeldIn
    <3> QED  BY <3>3, <3>4
  <2>9. Rows(copies', reqs')
    BY <2>4, <2>6, <2>7, <2>8 DEF Rows
  <2>10. inv' \in [Reqs -> Invocation] /\ inv'[r] = Idle /\ \A q \in Reqs \ {r} : inv'[q] = inv[q]
    BY <1>1, EndedInvocation
  <2>11. TypeOK'
    BY <1>1, <2>4, <2>6, <2>10 DEF IInv, TypeOK
  <2>12. Line(r)'
    <3>1. chain[r] = "landed"
      BY <1>1, <2>1 DEF Line, Position, May, Proven
    <3> QED  BY <1>1, <2>3, <2>4, <3>1 DEF Line, Flight, TaskRow, Position, NotSent, Settled
  <2>13. \A q \in Reqs \ {r} : Line(q)'
    BY <1>1, <2>4, <2>10, LineKept DEF IInv
  <2>14. RegisteredOnce' /\ SubmittedBounded'
    BY <1>1, <2>3, <2>4, RegisteredKept, SubmittedKept DEF IInv
  <2> QED  BY <2>9, <2>11, <2>12, <2>13, <2>14 DEF IInv
<1> QED  BY <1>2, <1>3

-----------------------------------------------------------------------------
(* Giving a signed request up.                                             *)

\* AbandonCommitRequest sends every member of a signed request back.
LEMMA GivenUp ==
    ASSUME IInv, NEW r \in Reqs, reqs[r].status \in Sealed, NEW C, C \subseteq Members(r)
    PROVE  /\ Rows(FailCopies(Released(r), C), AbandonedRow(r))
           /\ AbandonedRow(r)[r].status = "abandoned" /\ AbandonedRow(r)[r].task = "none"
           /\ AbandonedRow(r)[r].pieces = reqs[r].pieces
           /\ \A q \in Reqs \ {r} : AbandonedRow(r)[q] = reqs[q]
           /\ \A c \in Members(r) \ C :
                 /\ FailCopies(Released(r), C)[c].req = 0
                 /\ ~FailCopies(Released(r), C)[c].positioned
                 /\ copies[c].status = "committing" =>
                       FailCopies(Released(r), C)[c].status = "piece_ready"
<1> DEFINE rs == AbandonedRow(r)
           cs == FailCopies(Released(r), C)
           x == [reqs[r] EXCEPT !.status = "abandoned", !.task = "none"]
<1>1. copies \in [Copies -> CopyRow] /\ reqs \in [Reqs -> RequestRow] /\ Rows(copies, reqs)
  BY DEF IInv, TypeOK
<1>2. rs = [reqs EXCEPT ![r] = x]
  BY <1>1 DEF AbandonedRow
<1>3. x \in RequestRow /\ x.status = "abandoned" /\ x.task = "none" /\ x.pieces = reqs[r].pieces
  BY <1>1 DEF RequestRow, Settled
<1> HIDE DEF x, rs
<1>4. rs \in [Reqs -> RequestRow] /\ rs[r] = x /\ \A q \in Reqs \ {r} : rs[q] = reqs[q]
  BY <1>1, <1>2, <1>3
<1>5. ASSUME NEW c \in Copies
      PROVE  /\ cs[c] \in CopyRow
             /\ copies[c].req # r => cs[c] = copies[c]
             /\ copies[c].req = r => /\ cs[c].req = 0 /\ ~cs[c].positioned
                                     /\ cs[c].status = IF c \in C THEN "failed"
                                                       ELSE IF copies[c].status = "committing"
                                                            THEN "piece_ready" ELSE copies[c].status
  <2>1. copies[c] \in CopyRow /\ 0 \in 0 .. MaxRequests
    BY <1>1, ReqsFacts
  <2> DEFINE k == [copies[c] EXCEPT !.req = 0, !.positioned = FALSE,
                     !.status = IF copies[c].status = "committing" THEN "piece_ready"
                                ELSE copies[c].status]
  <2>2. /\ k \in CopyRow /\ k.req = 0 /\ k.positioned = FALSE
        /\ k.status = IF copies[c].status = "committing" THEN "piece_ready" ELSE copies[c].status
    BY <2>1 DEF CopyRow
  <2>3. Released(r)[c] = IF copies[c].req # r THEN copies[c] ELSE k
    BY DEF Released
  <2> HIDE DEF k
  <2>4. cs[c] = IF c \in C THEN [Released(r)[c] EXCEPT !.status = "failed"] ELSE Released(r)[c]
    BY DEF FailCopies
  <2>5. CASE copies[c].req # r
    <3>1. c \notin C
      BY <2>5 DEF Members
    <3> QED  BY <2>1, <2>3, <2>4, <2>5, <3>1
  <2>6. CASE copies[c].req = r /\ c \notin C
    BY <2>2, <2>3, <2>4, <2>6
  <2>7. CASE copies[c].req = r /\ c \in C
    <3>1. cs[c] = [k EXCEPT !.status = "failed"]
      BY <2>3, <2>4, <2>7
    <3>2. /\ [k EXCEPT !.status = "failed"] \in CopyRow
          /\ [k EXCEPT !.status = "failed"].req = 0
          /\ [k EXCEPT !.status = "failed"].positioned = FALSE
          /\ [k EXCEPT !.status = "failed"].status = "failed"
      BY <2>2 DEF CopyRow
    <3> QED  BY <2>7, <3>1, <3>2
  <2> QED  BY <2>5, <2>6, <2>7
<1>6. cs \in [Copies -> CopyRow]
  BY <1>5 DEF FailCopies
<1> HIDE DEF cs
<1>7. ASSUME NEW c \in Copies PROVE MemberIn(cs, rs, c)
  <2>1. MemberIn(copies, reqs, c)
    BY <1>1 DEF Rows
  <2>2. CASE copies[c].req = r
    <3>1. copies[c].status \in {"committing", "pending"}
      BY <2>1, <2>2, ReqsFacts DEF MemberIn, Sealed
    <3> QED  BY <1>5, <2>2, <3>1 DEF MemberIn
  <2>3. CASE copies[c].req # r
    BY <1>4, <1>5, <2>1, <2>3 DEF MemberIn
  <2> QED  BY <2>2, <2>3
<1>8. ASSUME NEW q \in Reqs PROVE HeldIn(cs, rs, q)
  <2>1. HeldIn(copies, reqs, q) /\ reqs[q].pieces \subseteq Copies
    BY <1>1 DEF Rows, RequestRow
  <2>2. CASE q = r
    BY <1>3, <1>4, <2>2 DEF HeldIn, Sealed
  <2>3. CASE q # r
    BY <1>4, <1>5, <2>1, <2>3 DEF HeldIn
  <2> QED  BY <2>2, <2>3
<1>9. Rows(cs, rs)
  BY <1>4, <1>6, <1>7, <1>8 DEF Rows
<1>10. \A c \in Members(r) \ C :
         /\ cs[c].req = 0 /\ ~cs[c].positioned
         /\ copies[c].status = "committing" => cs[c].status = "piece_ready"
  BY <1>5 DEF Members
<1> QED  BY <1>3, <1>4, <1>9, <1>10 DEF cs, rs

\* resignCommit: what is signed again was never sent, or its nonce is used up.
LEMMA ResignKeeps == ASSUME IInv, NEW r \in Reqs, ResignCommit(r) PROVE IInv'
<1> DEFINE lost == {c \in Members(r) : copies[c].status = "pending"
                                        /\ copies[c].transfer = "none"}
           again == {c \in Members(r) : copies[c].status \in {"committing", "piece_ready"}}
           cs == FailCopies(Released(r), lost)
           rs == AbandonedRow(r)
<1>1. /\ May(r, "proved") /\ MustResign(r) /\ Queue(again, cs, rs) /\ Ends(r)
      /\ UNCHANGED <<chain, pool, writable>>
  BY DEF ResignCommit
<1>2. reqs[r].status = "ready" /\ Line(r)
  BY <1>1 DEF IInv, Line, Position, May, MustResign
<1>3. NotSent(r) /\ reqs[r].status \in Sealed
  BY <1>2 DEF Line, Flight, Sealed
<1>4. lost \subseteq Members(r)
  OBVIOUS
<1>5. /\ Rows(cs, rs) /\ rs[r].status = "abandoned" /\ rs[r].task = "none"
      /\ rs[r].pieces = reqs[r].pieces /\ \A q \in Reqs \ {r} : rs[q] = reqs[q]
      /\ \A c \in Members(r) \ lost :
            /\ cs[c].req = 0 /\ ~cs[c].positioned
            /\ copies[c].status = "committing" => cs[c].status = "piece_ready"
  <2> HIDE DEF lost
  <2> QED  BY <1>3, <1>4, GivenUp, SMTT(30)
<1>6. \A c \in again : c \notin lost /\ copies[c].status = "committing"
  <2> TAKE c \in again
  <2>1. c \in Copies /\ copies[c].req = r
    BY DEF Members
  <2>2. MemberIn(copies, reqs, c)
    BY <2>1 DEF IInv, Rows
  <2>3. copies[c].status \in {"committing", "pending"}
    BY <1>2, <2>1, <2>2, ReqsFacts DEF MemberIn, Sealed
  <2> QED  BY <2>3
<1> HIDE DEF cs, rs
<1>7. Waiting(again, cs) /\ again \in SUBSET Copies
  BY <1>5, <1>6 DEF Waiting, Members
<1> HIDE DEF again
<1>8. /\ Rows(copies', reqs')
      /\ \A q \in Reqs : \/ reqs'[q] = rs[q]
                         \/ rs[q].status = "absent" /\ reqs'[q] = NewRequest
  BY <1>1, <1>5, <1>7, QueueKeeps, Zenon
<1>9. /\ reqs'[r] = rs[r]
      /\ \A q \in Reqs \ {r} : \/ reqs'[q] = reqs[q]
                               \/ reqs[q].status = "absent" /\ reqs'[q] = NewRequest
  BY <1>5, <1>8
<1>10. inv' \in [Reqs -> Invocation] /\ \A q \in Reqs \ {r} : inv'[q] = inv[q]
  BY <1>1, EndedInvocation
<1>11. TypeOK'
  BY <1>1, <1>8, <1>10 DEF IInv, TypeOK, Rows
<1>12. Line(r)'
  BY <1>1, <1>3, <1>5, <1>9, AbandonedLine
<1>13. ASSUME NEW q \in Reqs \ {r} PROVE Line(q)'
  BY <1>1, <1>9, <1>10, LineKept, NewLine DEF IInv
<1>14. RegisteredOnce'
  <2>1. \A q \in Reqs : reqs[q].status = "absent" => chain[q] # "landed"
    BY DEF IInv, Line, Flight, NotSent
  <2>2. \A q \in Reqs : chain[q] = "landed" => reqs'[q].pieces = reqs[q].pieces
    BY <1>5, <1>9, <2>1
  <2> QED  BY <1>1, <2>2, RegisteredKept DEF IInv
<1>15. SubmittedBounded'
  BY <1>5, <1>9, SubmittedKept DEF IInv, NewRequest
<1> QED  BY <1>8, <1>11, <1>12, <1>13, <1>14, <1>15 DEF IInv

\* abandonCommit: the data set takes no more pieces.
LEMMA AbandonKeeps == ASSUME IInv, NEW r \in Reqs, AbandonCommit(r) PROVE IInv'
<1> DEFINE C == {c \in Members(r) : copies[c].transfer = "none"}
           cs == FailCopies(Released(r), C)
<1>1. /\ May(r, "abandon") /\ reqs' = AbandonedRow(r) /\ copies' = cs /\ Ends(r)
      /\ UNCHANGED <<chain, pool, writable>>
  BY DEF AbandonCommit
<1>2. ~writable /\ reqs[r].status \in Sealed
  BY <1>1 DEF IInv, Line, Position, May
<1>3. C \subseteq Members(r)
  OBVIOUS
<1>4. /\ Rows(copies', reqs') /\ reqs'[r].status = "abandoned" /\ reqs'[r].task = "none"
      /\ reqs'[r].pieces = reqs[r].pieces /\ \A q \in Reqs \ {r} : reqs'[q] = reqs[q]
  <2> HIDE DEF C
  <2> QED  BY <1>1, <1>2, <1>3, GivenUp
<1>5. inv' \in [Reqs -> Invocation] /\ \A q \in Reqs \ {r} : inv'[q] = inv[q]
  BY <1>1, EndedInvocation
<1>6. TypeOK'
  BY <1>1, <1>4, <1>5 DEF IInv, TypeOK, Rows
<1>7. Line(r)'
  BY <1>1, <1>2, <1>4, AbandonedLine
<1>8. \A q \in Reqs \ {r} : Line(q)'
  BY <1>1, <1>4, <1>5, LineKept DEF IInv
<1>9. RegisteredOnce' /\ SubmittedBounded'
  BY <1>1, <1>4, RegisteredKept, SubmittedKept DEF IInv
<1> QED  BY <1>4, <1>6, <1>7, <1>8, <1>9 DEF IInv

-----------------------------------------------------------------------------
(* Sending, and the task's own row.                                        *)

\* StopCommit, StopTask, RetryTask, BackoffEnds and the receipts keep the status.
LEMMA TaskRowKeeps ==
    ASSUME IInv, NEW r \in Reqs,
           \/ StopCommit(r) \/ DropCommitEvidence(r) \/ RecordCommitSubmission(r)
           \/ BackoffEnds(r) \/ StopTask(r) \/ RetryTask(r)
    PROVE  IInv'
<1>1. reqs[r] \in RequestRow /\ reqs \in [Reqs -> RequestRow] /\ Line(r)
  BY DEF IInv, TypeOK
<1>2. copies' \in [Copies -> CopyRow] /\ Quiet(copies, copies') /\ UNCHANGED <<chain, pool, writable>>
  BY SameCopies DEF StopCommit, DropCommitEvidence, RecordCommitSubmission, BackoffEnds, StopTask, RetryTask
<1>3. ASSUME NEW x \in RequestRow, reqs' = [reqs EXCEPT ![r] = x], x.pieces = reqs[r].pieces,
             x.status = reqs[r].status, x.order = reqs[r].order,
             x.task = reqs[r].task \/ reqs[r].task # "none", Ends(r)
      PROVE  IInv'
  <2>1. reqs'[r] = x
    BY <1>1, <1>3
  <2>2. /\ inv' \in [Reqs -> Invocation] /\ inv'[r] = Idle /\ Idle.step = "none"
        /\ \A q \in Reqs \ {r} : inv'[q] = inv[q]
    BY <1>3, EndedInvocation DEF Idle
  <2>3. Line(r)'
    BY <1>1, <1>2, <1>3, <2>1, <2>2 DEF Line, Flight, TaskRow, Position, NotSent, Settled
  <2> QED  BY <1>2, <1>3, <2>2, <2>3, RequestStep
<1>4. CASE StopCommit(r) \/ StopTask(r)
  <2> DEFINE x == [reqs[r] EXCEPT !.task = "stopped"]
  <2>1. reqs' = [reqs EXCEPT ![r] = x] /\ reqs[r].task = "live" /\ Ends(r)
    BY <1>1, <1>4 DEF StopCommit, StopTask, May
  <2>2. x \in RequestRow /\ x.pieces = reqs[r].pieces /\ x.status = reqs[r].status
        /\ x.order = reqs[r].order
    BY <1>1 DEF RequestRow
  <2> HIDE DEF x
  <2> QED  BY <1>3, <2>1, <2>2
<1>5. ASSUME NEW b \in BOOLEAN, reqs' = [reqs EXCEPT ![r].tx = b], Ends(r) PROVE IInv'
  <2> DEFINE x == [reqs[r] EXCEPT !.tx = b]
  <2>1. reqs' = [reqs EXCEPT ![r] = x]
    BY <1>1, <1>5
  <2>2. x \in RequestRow /\ x.pieces = reqs[r].pieces /\ x.status = reqs[r].status
        /\ x.order = reqs[r].order /\ x.task = reqs[r].task
    BY <1>1 DEF RequestRow
  <2> HIDE DEF x
  <2> QED  BY <1>3, <1>5, <2>1, <2>2
<1>6. ASSUME NEW x \in RequestRow, reqs' = [reqs EXCEPT ![r] = x], x.pieces = reqs[r].pieces,
             x.status = reqs[r].status, x.order = reqs[r].order,
             x.task = reqs[r].task \/ reqs[r].task = "stopped", inv' = inv
      PROVE  IInv'
  <2>1. reqs'[r] = x /\ inv' \in [Reqs -> Invocation]
    BY <1>1, <1>6 DEF IInv, TypeOK
  <2>2. Line(r)'
    BY <1>1, <1>2, <1>6, <2>1 DEF Line, Flight, TaskRow, Position, NotSent, Settled
  <2> QED  BY <1>2, <1>6, <2>1, <2>2, RequestStep
<1>7. CASE BackoffEnds(r)
  <2> DEFINE x == [reqs[r] EXCEPT !.backoff = FALSE]
  <2>1. reqs' = [reqs EXCEPT ![r] = x] /\ inv' = inv
    BY <1>1, <1>7 DEF BackoffEnds
  <2>2. x \in RequestRow /\ x.pieces = reqs[r].pieces /\ x.status = reqs[r].status
        /\ x.order = reqs[r].order /\ x.task = reqs[r].task
    BY <1>1 DEF RequestRow
  <2> HIDE DEF x
  <2> QED  BY <1>6, <2>1, <2>2
<1>8. CASE RetryTask(r)
  <2> DEFINE x == [reqs[r] EXCEPT !.task = "live"]
  <2>1. reqs' = [reqs EXCEPT ![r] = x] /\ inv' = inv /\ reqs[r].task = "stopped"
    BY <1>1, <1>8 DEF RetryTask
  <2>2. x \in RequestRow /\ x.pieces = reqs[r].pieces /\ x.status = reqs[r].status
        /\ x.order = reqs[r].order
    BY <1>1 DEF RequestRow
  <2> HIDE DEF x
  <2> QED  BY <1>6, <2>1, <2>2
<1>9. CASE DropCommitEvidence(r) \/ RecordCommitSubmission(r)
  BY <1>5, <1>9 DEF DropCommitEvidence, RecordCommitSubmission
<1> QED  BY <1>4, <1>7, <1>8, <1>9

\* retransferStalledMembers starts transfers and leaves the members in place.
LEMMA RetransferKeeps == ASSUME IInv, NEW r \in Reqs, RetransferStalled(r) PROVE IInv'
<1>1. ASSUME NEW c \in Copies
      PROVE  /\ copies'[c] \in CopyRow /\ copies'[c].req = copies[c].req
             /\ copies'[c].positioned = copies[c].positioned /\ copies'[c].status = copies[c].status
  <2>1. copies[c] \in CopyRow
    BY DEF IInv, TypeOK
  <2>2. copies'[c] = IF c \in Stalled(r) THEN [copies[c] EXCEPT !.transfer = "running"]
                     ELSE copies[c]
    BY DEF RetransferStalled
  <2> QED  BY <2>1, <2>2 DEF CopyRow
<1>2. copies' \in [Copies -> CopyRow]
  BY <1>1, Zenon DEF RetransferStalled
<1>3. Quiet(copies, copies')
  BY <1>1 DEF Quiet
<1> QED  BY <1>2, <1>3, CopyStep DEF RetransferStalled

\* BeginCommitSubmission checks again, with the checkpoint, that the request may go.
LEMMA BeginKeeps == ASSUME IInv, NEW r \in Reqs, BeginCommitSubmission(r) PROVE IInv'
<1>1. May(r, "writable") /\ inv[r].why = "prepare" /\ UNCHANGED <<copies, chain, pool, writable>>
  BY DEF BeginCommitSubmission
<1>2. CASE ~StillEligible(r)
  BY <1>1, <1>2, EndKeeps DEF BeginCommitSubmission
<1>3. CASE StillEligible(r)
  <2> DEFINE x == [reqs[r] EXCEPT !.status = "submitted", !.sends = 1, !.tx = FALSE,
                                  !.backoff = FALSE]
             y == [step |-> "sending", why |-> "prepare", saw |-> "unused", members |-> {}]
  <2>1. reqs[r] \in RequestRow /\ reqs \in [Reqs -> RequestRow] /\ Line(r)
    BY DEF IInv, TypeOK
  <2>2. reqs' = [reqs EXCEPT ![r] = x] /\ inv' = [inv EXCEPT ![r] = y]
    BY <1>3, <2>1 DEF BeginCommitSubmission, Begins
  <2>3. 1 \in 0 .. MaxSends
    BY CommitBoundsAssumption
  <2>4. x \in RequestRow /\ x.status = "submitted" /\ x.pieces = reqs[r].pieces
        /\ x.order = reqs[r].order /\ x.task = reqs[r].task
    BY <2>1, <2>3 DEF RequestRow, Sealed
  <2>5. y \in Invocation /\ y.step = "sending" /\ y.why = "prepare"
    BY DEF Invocation
  <2> HIDE DEF x, y
  <2>6. reqs'[r] = x /\ inv'[r] = y /\ inv' \in [Reqs -> Invocation]
        /\ \A q \in Reqs \ {r} : inv'[q] = inv[q]
    BY <2>1, <2>2, <2>4, <2>5 DEF IInv, TypeOK
  <2>7. reqs[r].status = "ready" /\ HasRoom /\ reqs[r].task = "live"
    BY <1>1, <1>3 DEF StillEligible, IsHead, Eligible, May
  <2>8. Line(r)'
    BY <1>1, <2>1, <2>4, <2>5, <2>6, <2>7 DEF Line, Flight, TaskRow, Position, NotSent, Settled
  <2>9. copies' \in [Copies -> CopyRow] /\ Quiet(copies, copies')
    BY <1>1, SameCopies
  <2> QED  BY <1>1, <2>2, <2>4, <2>6, <2>7, <2>8, <2>9, RequestStep DEF Sealed
<1> QED  BY <1>2, <1>3

\* RecordCommitResend counts a send of a submitted request.
LEMMA ResendKeeps == ASSUME IInv, NEW r \in Reqs, RecordCommitResend(r) PROVE IInv'
<1>0. PICK tx \in {reqs[r].tx, FALSE} : reqs' = [reqs EXCEPT ![r].sends = @ + 1, ![r].tx = tx]
  BY DEF RecordCommitResend
<1> DEFINE x == [reqs[r] EXCEPT !.sends = reqs[r].sends + 1, !.tx = tx]
           y == [step |-> "sending", why |-> "observe", saw |-> "unused", members |-> {}]
<1>1. /\ May(r, "writable") /\ inv[r].why = "observe" /\ reqs[r].sends < MaxSends
      /\ UNCHANGED <<copies, chain, pool, writable>>
  BY DEF RecordCommitResend
<1>2. reqs[r] \in RequestRow /\ reqs \in [Reqs -> RequestRow] /\ Line(r)
  BY DEF IInv, TypeOK
<1>3. reqs' = [reqs EXCEPT ![r] = x] /\ inv' = [inv EXCEPT ![r] = y]
  BY <1>0, <1>2 DEF RecordCommitResend, Begins
<1>4. reqs[r].sends + 1 \in 0 .. MaxSends
  <2>1. reqs[r].sends \in 0 .. MaxSends
    BY <1>2 DEF RequestRow
  <2> QED  BY <1>1, <2>1, CommitBoundsAssumption, SMTT(30)
<1>5. x \in RequestRow /\ x.status = reqs[r].status /\ x.pieces = reqs[r].pieces
      /\ x.order = reqs[r].order /\ x.task = reqs[r].task
  BY <1>0, <1>2, <1>4 DEF RequestRow
<1>6. y \in Invocation /\ y.step = "sending" /\ y.why = "observe"
  BY DEF Invocation
<1> HIDE DEF x, y
<1>7. reqs'[r] = x /\ inv'[r] = y /\ inv' \in [Reqs -> Invocation]
      /\ \A q \in Reqs \ {r} : inv'[q] = inv[q]
  BY <1>2, <1>3, <1>5, <1>6 DEF IInv, TypeOK
<1>8. reqs[r].status = "submitted" /\ reqs[r].task = "live"
  BY <1>1, <1>2 DEF Line, Position, May
<1>9. Line(r)'
  BY <1>1, <1>2, <1>5, <1>6, <1>7, <1>8 DEF Line, Flight, TaskRow, Position, NotSent, Settled
<1>10. copies' \in [Copies -> CopyRow] /\ Quiet(copies, copies')
  BY <1>1, SameCopies
<1> QED  BY <1>1, <1>3, <1>5, <1>7, <1>8, <1>9, <1>10, RequestStep

\* Send: only a submitted request has a transaction in flight.
LEMMA SendKeeps == ASSUME IInv, NEW r \in Reqs, Send(r) PROVE IInv'
<1>1. inv[r] \in Invocation /\ inv \in [Reqs -> Invocation] /\ Line(r)
  BY DEF IInv, TypeOK
<1>2. reqs[r].status = "submitted" /\ reqs[r].task = "live" /\ inv[r].step = "sending"
  BY <1>1 DEF Send, May, Line, Position
<1>3. UNCHANGED <<copies, reqs, chain, writable>>
  BY DEF Send
<1>4. ASSUME NEW step \in {"accepted", "refused"}, inv' = [inv EXCEPT ![r].step = step],
             \/ step = "accepted" /\ pool' = pool \cup {r}
             \/ step = "refused" /\ pool' = pool
      PROVE  IInv'
  <2> DEFINE x == [inv[r] EXCEPT !.step = step]
  <2>1. inv' = [inv EXCEPT ![r] = x]
    BY <1>1, <1>4
  <2>2. x \in Invocation /\ x.step = step /\ x.why = inv[r].why
    BY <1>1 DEF Invocation
  <2> HIDE DEF x
  <2>3. inv'[r] = x
    BY <1>1, <2>1
  <2>4. Line(r)'
    BY <1>1, <1>2, <1>3, <1>4, <2>2, <2>3 DEF Line, Flight, TaskRow, Position, NotSent, Settled
  <2> QED  BY <1>3, <1>4, <2>1, <2>2, <2>4, InvocationStep
<1>5. CASE Ends(r) /\ pool' \in {pool, pool \cup {r}}
  BY <1>2, <1>3, <1>5, EndKeeps
<1> QED  BY <1>4, <1>5 DEF Send

\* SettleRefusal: a request returns to ready only when its one send was refused.
LEMMA RefusalKeeps ==
    ASSUME IInv, NEW r \in Reqs, NEW D \in SUBSET Copies, SettleRefusal(r, D) PROVE IInv'
<1> DEFINE back == IF ReturnsToReady(r)
                   THEN [reqs[r] EXCEPT !.status = "ready", !.sends = 0, !.tx = FALSE]
                   ELSE reqs[r]
           x == [back EXCEPT !.backoff = back.status = "ready"]
           y == [back EXCEPT !.task = "stopped"]
<1>1. /\ May(r, "refused") /\ D \subseteq {c \in Members(r) : copies[c].status = "committing"}
      /\ Ends(r) /\ UNCHANGED <<chain, pool, writable>>
      /\ \/ /\ reqs' = [reqs EXCEPT ![r] = x]
            /\ copies' = [c \in Copies |-> IF c \in D
                  THEN [copies[c] EXCEPT !.status = "pending", !.transfer = "running"]
                  ELSE copies[c]]
         \/ copies' = copies /\ reqs' = [reqs EXCEPT ![r] = y]
  BY DEF SettleRefusal
<1>2. reqs[r] \in RequestRow /\ reqs \in [Reqs -> RequestRow] /\ Line(r)
  BY DEF IInv, TypeOK
<1>3. reqs[r].status = "submitted" /\ reqs[r].task = "live" /\ (ReturnsToReady(r) => NotSent(r))
  BY <1>1, <1>2 DEF Line, Position, May, ReturnsToReady
<1>4. /\ back \in RequestRow /\ back.pieces = reqs[r].pieces /\ back.order = reqs[r].order
      /\ back.task = "live" /\ back.status = IF ReturnsToReady(r) THEN "ready" ELSE "submitted"
  <2>1. 0 \in 0 .. MaxSends
    BY CommitBoundsAssumption
  <2>2. CASE ReturnsToReady(r)
    BY <1>2, <1>3, <2>1, <2>2 DEF RequestRow, Sealed
  <2>3. CASE ~ReturnsToReady(r)
    BY <1>2, <1>3, <2>3
  <2> QED  BY <2>2, <2>3
<1> HIDE DEF back
<1>5. /\ x \in RequestRow /\ x.pieces = reqs[r].pieces /\ x.order = reqs[r].order
      /\ x.task = "live" /\ x.status = back.status
  BY <1>4 DEF RequestRow
<1>6. /\ y \in RequestRow /\ y.pieces = reqs[r].pieces /\ y.order = reqs[r].order
      /\ y.task = "stopped" /\ y.status = back.status
  BY <1>4 DEF RequestRow
<1> HIDE DEF x, y
<1>7. copies' \in [Copies -> CopyRow] /\ Quiet(copies, copies')
  <2>1. CASE copies' = copies
    BY <2>1, SameCopies
  <2>2. CASE copies' = [c \in Copies |-> IF c \in D
                  THEN [copies[c] EXCEPT !.status = "pending", !.transfer = "running"]
                  ELSE copies[c]]
    <3>1. ASSUME NEW c \in Copies
          PROVE  /\ copies'[c] \in CopyRow /\ copies'[c].req = copies[c].req
                 /\ copies'[c].positioned = copies[c].positioned
                 /\ copies'[c].status = IF c \in D THEN "pending" ELSE copies[c].status
      <4>1. copies[c] \in CopyRow
        BY DEF IInv, TypeOK
      <4>2. copies'[c] = IF c \in D
                  THEN [copies[c] EXCEPT !.status = "pending", !.transfer = "running"]
                  ELSE copies[c]
        BY <2>2
      <4> QED  BY <4>1, <4>2 DEF CopyRow
    <3>2. copies' \in [Copies -> CopyRow]
      BY <2>2, <3>1
    <3>3. \A c \in D : c \in Copies /\ copies[c].status = "committing" /\ copies[c].positioned
      <4> TAKE c \in D
      <4>1. c \in Copies /\ copies[c].status = "committing" /\ MemberIn(copies, reqs, c)
        BY <1>1 DEF IInv, Rows
      <4> QED  BY <4>1 DEF MemberIn
    <3>4. Quiet(copies, copies')
      BY <3>1, <3>3 DEF Quiet
    <3> QED  BY <3>2, <3>4
  <2> QED  BY <1>1, <2>1, <2>2
<1>8. /\ inv' \in [Reqs -> Invocation] /\ inv'[r] = Idle /\ Idle.step = "none"
      /\ \A q \in Reqs \ {r} : inv'[q] = inv[q]
  BY <1>1, EndedInvocation DEF Idle
<1>9. ASSUME NEW z \in RequestRow, reqs' = [reqs EXCEPT ![r] = z], z.pieces = reqs[r].pieces,
             z.order = reqs[r].order, z.task \in {"live", "stopped"}, z.status = back.status
      PROVE  IInv'
  <2>1. reqs'[r] = z
    BY <1>2, <1>9
  <2>2. Line(r)'
    BY <1>1, <1>2, <1>3, <1>4, <1>8, <1>9, <2>1
       DEF Line, Flight, TaskRow, Position, NotSent, Settled
  <2>3. reqs[r].status \in Sealed /\ z.status \in Sealed
    BY <1>3, <1>4, <1>9 DEF Sealed
  <2> QED  BY <1>1, <1>3, <1>7, <1>8, <1>9, <2>2, <2>3, RequestStep
<1> QED  BY <1>1, <1>5, <1>6, <1>9

-----------------------------------------------------------------------------
(* The chain.                                                              *)

\* A transaction lands: its request is submitted and holds its copies, and so does
\* every other request that has landed while the data set is writable.
LEMMA MineKeeps == ASSUME IInv, NEW r \in Reqs, Mine(r) PROVE IInv'
<1>1. /\ r \in pool /\ chain[r] = "unused" /\ writable /\ chain' = [chain EXCEPT ![r] = "landed"]
      /\ UNCHANGED <<copies, reqs, inv, pool, writable>>
  BY DEF Mine
<1>2. /\ chain'[r] = "landed" /\ \A q \in Reqs \ {r} : chain'[q] = chain[q]
      /\ chain' \in [Reqs -> {"unused", "landed", "foreign"}]
  BY <1>1 DEF IInv, TypeOK
<1>3. Line(r) /\ reqs[r] \in RequestRow
  BY DEF IInv, TypeOK
<1>4. reqs[r].status = "submitted"
  BY <1>1, <1>3 DEF Line, Flight, NotSent, RequestRow, Sealed, Settled
<1>5. inv[r].step = "proved" /\ reqs[r].task = "live" => inv[r].saw = "unused"
  <2>1. inv[r].saw \in {"unused", "landed", "foreign"}
    BY DEF IInv, TypeOK, Invocation
  <2> QED  BY <1>1, <1>3, <2>1 DEF Line, Position
<1>6. Line(r)'
  BY <1>1, <1>2, <1>3, <1>4, <1>5 DEF Line, Flight, TaskRow, Position, NotSent, Settled
<1>7. \A q \in Reqs \ {r} : Line(q)'
  BY <1>1, <1>2, LineKept DEF IInv
<1>8. ASSUME NEW q \in Reqs, chain[q] = "landed" PROVE reqs[q].status \in Sealed \cup {"confirmed"}
  <2>1. Line(q) /\ reqs[q] \in RequestRow
    BY DEF IInv, TypeOK
  <2> QED  BY <1>1, <1>8, <2>1 DEF Line, Flight, NotSent, RequestRow, Sealed, Settled
<1>9. \A q \in Reqs : reqs[q].status \in Sealed \cup {"confirmed"} =>
         \A c \in reqs[q].pieces : copies[c].req = q
  BY DEF IInv, Rows, HeldIn
<1>10. \A q \in Reqs, c \in Copies :
          chain'[q] = "landed" /\ c \in reqs[q].pieces => copies[c].req = q
  BY <1>2, <1>4, <1>8, <1>9 DEF Sealed
<1>11. RegisteredOnce'
  BY <1>1, <1>10 DEF RegisteredOnce
<1>12. TypeOK' /\ SubmittedBounded' /\ Rows(copies', reqs')
  BY <1>1, <1>2 DEF IInv, TypeOK, SubmittedBounded, Submitted
<1> QED  BY <1>6, <1>7, <1>11, <1>12 DEF IInv

\* Something else uses the nonce, transactions are dropped, the service ends.
LEMMA ChainKeeps ==
    ASSUME IInv, \/ ServiceEnds
                 \/ \E r \in Reqs : ForeignNonce(r) \/ DropTransactions(r)
    PROVE  IInv'
<1>1. UNCHANGED <<copies, reqs, inv>>
  BY DEF ServiceEnds, ForeignNonce, DropTransactions
<1>2. SubmittedBounded' /\ Rows(copies', reqs')
  BY <1>1 DEF IInv, SubmittedBounded, Submitted
<1>3. CASE ServiceEnds
  <2>1. TypeOK' /\ RegisteredOnce'
    BY <1>1, <1>3 DEF IInv, TypeOK, RegisteredOnce, ServiceEnds
  <2>2. \A q \in Reqs : Line(q)'
    BY <1>1, <1>3, LineKept DEF IInv, ServiceEnds
  <2> QED  BY <1>2, <2>1, <2>2 DEF IInv
<1>4. ASSUME NEW r \in Reqs, ForeignNonce(r) PROVE IInv'
  <2>1. /\ chain'[r] = "foreign" /\ \A q \in Reqs \ {r} : chain'[q] = chain[q]
        /\ chain' \in [Reqs -> {"unused", "landed", "foreign"}]
        /\ chain[r] = "unused" /\ reqs[r].status \in Sealed /\ UNCHANGED <<pool, writable>>
    BY <1>4 DEF IInv, TypeOK, ForeignNonce
  <2>2. \A q \in Reqs \ {r} : Line(q)'
    BY <1>1, <2>1, LineKept DEF IInv
  <2>3. Line(r)'
    <3>1. Line(r) /\ inv[r].saw \in {"unused", "landed", "foreign"}
      BY DEF IInv, TypeOK, Invocation
    <3> QED  BY <1>1, <2>1, <3>1 DEF Line, Flight, TaskRow, Position, NotSent, Sealed
  <2>4. RegisteredOnce' /\ TypeOK'
    BY <1>1, <2>1 DEF IInv, TypeOK, RegisteredOnce
  <2> QED  BY <1>2, <2>2, <2>3, <2>4 DEF IInv
<1>5. ASSUME NEW r \in Reqs, DropTransactions(r) PROVE IInv'
  <2>1. pool' = pool \ {r} /\ UNCHANGED <<chain, writable>>
    BY <1>5 DEF DropTransactions
  <2>2. \A q \in Reqs \ {r} : Line(q)'
    BY <1>1, <2>1, LineKept DEF IInv
  <2>3. Line(r)'
    <3>1. Line(r)
      BY DEF IInv
    <3> QED  BY <1>1, <2>1, <3>1 DEF Line, Flight, TaskRow, Position, NotSent
  <2>4. RegisteredOnce' /\ TypeOK'
    BY <1>1, <2>1 DEF IInv, TypeOK, RegisteredOnce
  <2> QED  BY <1>2, <2>2, <2>3, <2>4 DEF IInv
<1> QED  BY <1>3, <1>4, <1>5

-----------------------------------------------------------------------------
(* Theorems.                                                               *)

\* The initial state.
LEMMA InitHolds == ASSUME Init PROVE IInv
<1> DEFINE k == [status |-> "pending", req |-> 0, positioned |-> FALSE, transfer |-> "running"]
           x == [NewRequest EXCEPT !.status = "absent", !.task = "none"]
<1>1. /\ copies = [c \in Copies |-> k] /\ reqs = [r \in Reqs |-> x]
      /\ inv = [r \in Reqs |-> Idle] /\ chain = [r \in Reqs |-> "unused"]
      /\ pool = {} /\ writable = TRUE
  BY DEF Init
<1>2. /\ k \in CopyRow /\ k.req = 0 /\ k.positioned = FALSE /\ k.status = "pending"
      /\ Idle \in Invocation /\ Idle.step = "none"
  BY ReqsFacts DEF CopyRow, Idle, Invocation
<1>3. x \in RequestRow /\ x.status = "absent" /\ x.task = "none" /\ x.order = 0
  BY NewRequestRow DEF RequestRow, NewRequest
<1> HIDE DEF k, x
<1>4. TypeOK
  BY <1>1, <1>2, <1>3 DEF TypeOK
<1>5. RegisteredOnce
  BY <1>1 DEF RegisteredOnce
<1>6. SubmittedBounded
  <2>1. Submitted = {}
    BY <1>1, <1>3 DEF Submitted
  <2>2. Cardinality({}) = 0
    BY FS_EmptySet
  <2> QED  BY <2>1, <2>2, CommitBoundsAssumption DEF SubmittedBounded
<1>7. Rows(copies, reqs)
  BY <1>1, <1>2, <1>3, <1>4 DEF Rows, TypeOK, MemberIn, HeldIn, Sealed
<1>8. \A r \in Reqs : Line(r)
  BY <1>1, <1>2, <1>3 DEF Line, Flight, TaskRow, Position, NotSent
<1> QED  BY <1>4, <1>5, <1>6, <1>7, <1>8 DEF IInv

\* Every step of the copies, the requests and the chain.
LEMMA NextKeeps == ASSUME IInv, [Next]_vars PROVE IInv'
<1>1. ASSUME NEW c \in Copies, CopyNext(c) PROVE IInv'
  BY <1>1, FinishTransferKeeps, TransferKeeps, JoinCommitKeeps, CancelCopyKeeps DEF CopyNext
<1>2. ASSUME NEW r \in Reqs, RequestNext(r) PROVE IInv'
  <2>1. CASE \E S \in SUBSET Copies : SignMembers(r, S) \/ SettleRefusal(r, S)
    BY <2>1, SignMembersKeeps, RefusalKeeps
  <2>2. CASE \E why \in {"prepare", "observe", "giveup"} : Prove(r, why)
    BY <2>2, ProveKeeps
  <2>3. CASE \/ StopCommit(r) \/ DropCommitEvidence(r) \/ RecordCommitSubmission(r)
             \/ BackoffEnds(r) \/ StopTask(r) \/ RetryTask(r)
    BY <2>3, TaskRowKeeps
  <2>4. CASE EndInvocation(r)
    BY <2>4, EndKeeps DEF EndInvocation
  <2>5. CASE \/ SealCommitRequest(r) \/ CheckWritable(r) \/ ConfirmCommitRequest(r)
             \/ ResignCommit(r) \/ AbandonCommit(r)
    BY <2>5, SealKeeps, CheckWritableKeeps, ConfirmKeeps, ResignKeeps, AbandonKeeps
  <2>6. CASE \/ RetransferStalled(r) \/ BeginCommitSubmission(r) \/ RecordCommitResend(r)
             \/ Send(r)
    BY <2>6, RetransferKeeps, BeginKeeps, ResendKeeps, SendKeeps
  <2> QED  BY <1>2, <2>1, <2>2, <2>3, <2>4, <2>5, <2>6 DEF RequestNext
<1>3. CASE ChainNext
  BY <1>3, MineKeeps, ChainKeeps DEF ChainNext
<1>4. CASE UNCHANGED vars
  <2>1. UNCHANGED <<copies, reqs, inv, chain, pool, writable>>
    BY <1>4 DEF vars
  <2> QED  BY <2>1, SameCopies, CopyStep
<1> QED  BY <1>1, <1>2, <1>3, <1>4 DEF Next

\* What the runs check follows.
LEMMA IInvImplies == ASSUME IInv PROVE RequestInv
<1>1. TypeOK /\ RegisteredOnce /\ SubmittedBounded
  BY DEF IInv
<1>2. ReadyHasNoSend
  BY DEF IInv, Line, Flight, NotSent, ReadyHasNoSend
<1>3. ASSUME NEW r \in Reqs, reqs[r].status \in Sealed
      PROVE  /\ Members(r) = reqs[r].pieces
             /\ \A c \in Members(r) : copies[c].status \in {"committing", "pending"}
  <2>1. HeldIn(copies, reqs, r) /\ reqs[r].pieces \subseteq Copies /\ r # 0
    BY ReqsFacts DEF IInv, Rows, TypeOK, RequestRow
  <2>2. ASSUME NEW c \in Members(r)
        PROVE  c \in reqs[r].pieces /\ copies[c].status \in {"committing", "pending"}
    <3>1. MemberIn(copies, reqs, c) /\ copies[c].req = r
      BY DEF IInv, Rows, Members
    <3> QED  BY <1>3, <2>1, <3>1 DEF MemberIn, Sealed
  <2>3. \A c \in reqs[r].pieces : c \in Members(r)
    BY <1>3, <2>1 DEF HeldIn, Members
  <2> QED  BY <2>2, <2>3
<1>4. SealedMembersPinned
  BY <1>3 DEF SealedMembersPinned
<1>5. CollectingHasMembers
  BY DEF IInv, Rows, HeldIn, CollectingHasMembers, Members
<1>6. CommittedIsOnChain
  <2> SUFFICES ASSUME NEW c \in Copies, copies[c].status = "committed"
               PROVE  \E r \in Reqs : /\ copies[c].req = r /\ c \in reqs[r].pieces
                                       /\ reqs[r].status = "confirmed" /\ chain[r] = "landed"
    BY DEF CommittedIsOnChain
  <2>1. MemberIn(copies, reqs, c)
    BY DEF IInv, Rows
  <2>2. /\ copies[c].req \in Reqs /\ reqs[copies[c].req].status = "confirmed"
        /\ c \in reqs[copies[c].req].pieces
    BY <2>1 DEF MemberIn
  <2>3. chain[copies[c].req] = "landed"
    BY <2>2 DEF IInv, Line, Flight
  <2> QED  BY <2>2, <2>3
<1> QED  BY <1>1, <1>2, <1>4, <1>5, <1>6 DEF RequestInv

\* The inductive invariant of the commit requests holds in every reachable state,
\* whatever transfers, cancellations, crashes and chain events come in between.
THEOREM CommitInductive == Spec => []IInv
<1>1. Init => IInv
  BY InitHolds
<1>2. IInv /\ [Next]_vars => IInv'
  BY NextKeeps
<1> QED  BY <1>1, <1>2, PTL DEF Spec

\* No piece is registered twice; a ready request has nothing in flight, a signed one
\* holds exactly its pieces, a collecting one is not empty, the number of submitted
\* requests is bounded, and what the rows call committed has landed
\* (storage_commit_repo.go, task/commit/handler.go, storagecommit/advancer.go).
THEOREM PiecesRegisteredOnce == Spec => []RequestInv
<1>1. IInv => RequestInv
  BY IInvImplies
<1> QED  BY <1>1, CommitInductive, PTL

\* request.go says that an abandoned request "can never land".  It holds as long as
\* the data set takes pieces: only a request given up because the data set no longer
\* does may have landed before (AbandonCommit, ResignCommit).
THEOREM AbandonedOffChain == Spec => [](writable => AbandonedNeverLands)
<1>1. IInv => (writable => AbandonedNeverLands)
  BY DEF IInv, Line, Flight, NotSent, AbandonedNeverLands
<1> QED  BY <1>1, CommitInductive, PTL

=============================================================================
