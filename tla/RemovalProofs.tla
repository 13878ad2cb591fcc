--------------------------- MODULE RemovalProofs ----------------------------
(***************************************************************************)
(* Proofs about StorageRemoval, for every set of contents and requests and *)
(* every number of attempts, faults, crashes and operators' retries: only  *)
(* pieces nobody needs are signed away, and every signature is watched.    *)
(*                                                                         *)
(* Both rest on the request being sealed before its first send.  A copy    *)
(* leaves a request only while none of its sends may be accepted, so a     *)
(* send that may be names members only; and an invocation about to send    *)
(* has seen every piece that is still present as present, so what it       *)
(* selects is part of every earlier send the provider may hold.            *)
(***************************************************************************)
EXTENDS StorageRemoval, FiniteSetTheorems, WellFoundedInduction, TLAPS

\* A copy that is recorded as removed is, and so is the piece of a content whose rows
\* are gone.
RemovedIsGone ==
    \A c \in Contents :
        /\ copy[c].status = "removed" => chain.piece[c] = "removed"
        /\ cleanup[c] \in {"finalized", "done"} => chain.piece[c] = "removed" /\ c \notin shared

\* A request that is collected has sent nothing, and one that sends is sealed.
Sealing ==
    \A r \in Requests :
        /\ req[r] = "none" => task[r].status = "none" /\ \A c \in Contents : copy[c].req # r
        /\ req[r] \in {"none", "collecting"} => sends[r] = <<>>
        /\ task[r].status = "running" => req[r] \in {"ready", "submitted"}

\* The signatures of a request: who is named in them, and who has to be.
Covered(r) ==
    \A k \in DOMAIN sends[r] :
        /\ sends[r][k].pieces \intersect shared = {}
        /\ sends[r][k].st = "sent" => \A c \in sends[r][k].pieces : copy[c].req = r
        /\ sends[r][k].st # "unsent" =>
              \A c \in Contents : copy[c].req = r /\ chain.piece[c] = "present" => c \in sends[r][k].pieces
        /\ \A j \in 1..(k - 1) : sends[r][j].st # "unsent" => sends[r][k].pieces \subseteq sends[r][j].pieces

\* An invocation of the request's task is running.
Running(r) == task[r].status = "running"

\* What an invocation has seen of the chain was so, and its signature is the last one.
Viewed(r) ==
    /\ Running(r) /\ invocation[r].pc = "send" =>
          /\ \A c \in Contents : chain.piece[c] = "present" => invocation[r].seen[c] = "present"
          /\ \A k \in DOMAIN sends[r] : sends[r][k].st # "unsent" =>
                \A c \in Contents : /\ copy[c].req = r /\ copy[c].status # "removed"
                                    /\ invocation[r].seen[c] = "present"
                                    => c \in sends[r][k].pieces
    /\ Running(r) /\ invocation[r].pc \in {"call", "answered"} =>
          Len(sends[r]) > 0 /\ sends[r][Len(sends[r])].st = "sent"

\* The inductive invariant: what is removed, what is sealed, and what each request has
\* signed and seen.
RemovalIInv ==
    /\ TypeOK /\ RemovedIsGone /\ Sealing
    /\ \A r \in Requests : Covered(r) /\ Viewed(r)

-----------------------------------------------------------------------------
(* What a step leaves alone.                                               *)

\* References end, and pieces move on.
WorldMoves ==
    /\ shared' \subseteq shared
    /\ \A c \in Contents :
          /\ chain.piece[c] = "removed" => chain'.piece[c] = "removed"
          /\ chain'.piece[c] = "present" => chain.piece[c] = "present"

\* Copies are detached only, and those that stay members are not forgotten.
MembersLeave ==
    \A c \in Contents : copy'[c].req # 0 =>
        copy'[c].req = copy[c].req /\ (copy'[c].status # "removed" => copy[c].status # "removed")

\* No copy leaves a request with a send that may be accepted.
MembersHeld ==
    \A q \in Requests : \A k \in DOMAIN sends'[q] :
        sends'[q][k].st = "sent" => \A c \in Contents : copy[c].req = q => copy'[c].req = q

\* No send is added or changed, except that one may turn out not to be accepted.
SendsStay(q) ==
    /\ DOMAIN sends'[q] = DOMAIN sends[q] /\ Len(sends'[q]) = Len(sends[q])
    /\ \A k \in DOMAIN sends[q] :
          /\ sends'[q][k].pieces = sends[q][k].pieces
          /\ sends'[q][k].st = "sent" => sends[q][k].st = "sent"
          /\ sends'[q][k].st # "unsent" => sends[q][k].st # "unsent"

\* No invocation gets to where it sends.
NoneSends(q) ==
    Running(q)' /\ invocation'[q].pc \in {"send", "call", "answered"} =>
        /\ Running(q) /\ invocation'[q].pc = invocation[q].pc /\ invocation'[q].seen = invocation[q].seen
        /\ \A k \in DOMAIN sends[q] : sends'[q][k].st = sends[q][k].st

\* Requests go on.
RequestsGo ==
    \A q \in Requests :
        /\ req'[q] = "none" => req[q] = "none" /\ task'[q].status = task[q].status
        /\ req'[q] = "collecting" => req[q] = "collecting"
        /\ Running(q)' => req'[q] \in {"ready", "submitted"}

\* A step that moves the world, detaches copies and changes the evidence keeps what
\* is true of the signatures of a request.
LEMMA CoveredStays ==
    ASSUME TypeOK, WorldMoves, MembersLeave, MembersHeld, NEW r \in Requests, SendsStay(r), Covered(r)
    PROVE  Covered(r)'
<1> SUFFICES ASSUME NEW k \in DOMAIN sends[r]
             PROVE  /\ sends'[r][k].pieces \intersect shared' = {}
                    /\ sends'[r][k].st = "sent" => \A c \in sends'[r][k].pieces : copy'[c].req = r
                    /\ sends'[r][k].st # "unsent" =>
                          \A c \in Contents : copy'[c].req = r /\ chain'.piece[c] = "present"
                                              => c \in sends'[r][k].pieces
                    /\ \A j \in 1..(k - 1) : sends'[r][j].st # "unsent"
                                             => sends'[r][k].pieces \subseteq sends'[r][j].pieces
  BY DEF Covered, SendsStay
<1>1. /\ sends'[r][k].pieces = sends[r][k].pieces
      /\ sends'[r][k].st = "sent" => sends[r][k].st = "sent"
      /\ sends'[r][k].st # "unsent" => sends[r][k].st # "unsent"
      /\ k \in DOMAIN sends'[r]
  BY DEF SendsStay
<1>2. sends[r] \in Seq(Send) /\ sends[r][k].pieces \subseteq Contents
  <2>1. sends[r] \in Seq(Send)
    BY DEF TypeOK
  <2>2. sends[r][k] \in Send
    BY <2>1
  <2> QED  BY <2>1, <2>2 DEF Send
<1>3. \A j \in 1..(k - 1) : j \in DOMAIN sends[r]
  BY <1>2
<1>4. sends'[r][k].pieces \intersect shared' = {}
  BY <1>1 DEF Covered, WorldMoves
<1>5. sends'[r][k].st = "sent" => \A c \in sends'[r][k].pieces : copy'[c].req = r
  BY <1>1, <1>2 DEF Covered, MembersHeld
<1>6. ASSUME sends'[r][k].st # "unsent", NEW c \in Contents, copy'[c].req = r, chain'.piece[c] = "present"
      PROVE  c \in sends'[r][k].pieces
  <2>1. copy[c].req = r /\ chain.piece[c] = "present"
    BY <1>6, RemovalAssumption DEF MembersLeave, WorldMoves
  <2> QED  BY <1>1, <1>6, <2>1 DEF Covered
<1>7. ASSUME NEW j \in 1..(k - 1), sends'[r][j].st # "unsent"
      PROVE  sends'[r][k].pieces \subseteq sends'[r][j].pieces
  <2>1. sends'[r][j].pieces = sends[r][j].pieces /\ sends[r][j].st # "unsent"
    BY <1>3, <1>7 DEF SendsStay
  <2> QED  BY <1>1, <2>1 DEF Covered
<1> QED  BY <1>4, <1>5, <1>6, <1>7

\* The same for what an invocation relies on.
LEMMA ViewedStays ==
    ASSUME TypeOK, WorldMoves, MembersLeave, NEW r \in Requests, SendsStay(r), NoneSends(r), Viewed(r)
    PROVE  Viewed(r)'
<1>1. ASSUME Running(r)', invocation'[r].pc = "send"
      PROVE  /\ \A c \in Contents : chain'.piece[c] = "present" => invocation'[r].seen[c] = "present"
             /\ \A k \in DOMAIN sends'[r] : sends'[r][k].st # "unsent" =>
                   \A c \in Contents : /\ copy'[c].req = r /\ copy'[c].status # "removed"
                                       /\ invocation'[r].seen[c] = "present"
                                       => c \in sends'[r][k].pieces
  <2>1. Running(r) /\ invocation[r].pc = "send" /\ invocation'[r].seen = invocation[r].seen
    BY <1>1 DEF NoneSends
  <2>2. \A c \in Contents : chain'.piece[c] = "present" => invocation'[r].seen[c] = "present"
    BY <2>1 DEF Viewed, WorldMoves
  <2>3. ASSUME NEW k \in DOMAIN sends'[r], sends'[r][k].st # "unsent", NEW c \in Contents,
               copy'[c].req = r, copy'[c].status # "removed", invocation'[r].seen[c] = "present"
        PROVE  c \in sends'[r][k].pieces
    <3>1. copy[c].req = r /\ copy[c].status # "removed"
      BY <2>3, RemovalAssumption DEF MembersLeave
    <3>2. k \in DOMAIN sends[r] /\ sends[r][k].st # "unsent" /\ sends'[r][k].pieces = sends[r][k].pieces
      BY <2>3 DEF SendsStay
    <3> QED  BY <2>1, <2>3, <3>1, <3>2 DEF Viewed
  <2> QED  BY <2>2, <2>3
<1>2. ASSUME Running(r)', invocation'[r].pc \in {"call", "answered"}
      PROVE  Len(sends'[r]) > 0 /\ sends'[r][Len(sends'[r])].st = "sent"
  <2>1. /\ Running(r) /\ invocation[r].pc \in {"call", "answered"}
        /\ \A k \in DOMAIN sends[r] : sends'[r][k].st = sends[r][k].st
    BY <1>2 DEF NoneSends
  <2>2. Len(sends[r]) > 0 /\ sends[r][Len(sends[r])].st = "sent" /\ Len(sends'[r]) = Len(sends[r])
    BY <2>1 DEF Viewed, SendsStay
  <2>3. Len(sends[r]) \in DOMAIN sends[r]
    BY <2>2 DEF TypeOK
  <2> QED  BY <2>1, <2>2, <2>3
<1> QED  BY <1>1, <1>2 DEF Viewed

\* Requests that go on keep the order of sealing and sending.
LEMMA SealingStays ==
    ASSUME TypeOK, Sealing, RequestsGo, MembersLeave, \A q \in Requests : SendsStay(q), TypeOK'
    PROVE  Sealing'
<1> SUFFICES ASSUME NEW r \in Requests
             PROVE  /\ req'[r] = "none" => task'[r].status = "none" /\ \A c \in Contents : copy'[c].req # r
                    /\ req'[r] \in {"none", "collecting"} => sends'[r] = <<>>
                    /\ task'[r].status = "running" => req'[r] \in {"ready", "submitted"}
  BY DEF Sealing
<1>1. req'[r] = "none" => task'[r].status = "none" /\ \A c \in Contents : copy'[c].req # r
  BY RemovalAssumption DEF Sealing, RequestsGo, MembersLeave
<1>2. ASSUME req'[r] \in {"none", "collecting"} PROVE sends'[r] = <<>>
  <2>1. sends[r] = <<>> /\ sends[r] \in Seq(Send) /\ sends'[r] \in Seq(Send)
    BY <1>2 DEF Sealing, RequestsGo, TypeOK
  <2>2. Len(sends'[r]) = Len(sends[r])
    BY DEF SendsStay
  <2> QED  BY <2>1, <2>2
<1>3. task'[r].status = "running" => req'[r] \in {"ready", "submitted"}
  BY DEF RequestsGo, Running
<1> QED  BY <1>1, <1>2, <1>3

\* A step that changes neither the rows of a content nor what they say of its piece.
LEMMA GoneStays ==
    ASSUME RemovedIsGone, WorldMoves,
           \A c \in Contents : /\ copy'[c].status = "removed" => copy[c].status = "removed" \/ chain.piece[c] = "removed"
                               /\ cleanup'[c] \in {"finalized", "done"} => cleanup[c] \in {"finalized", "done"}
    PROVE  RemovedIsGone'
BY DEF RemovedIsGone, WorldMoves

\* All of it together.
LEMMA FrameKeeps ==
    ASSUME RemovalIInv, TypeOK', WorldMoves, MembersLeave, MembersHeld, RequestsGo,
           \A q \in Requests : SendsStay(q) /\ NoneSends(q),
           \A c \in Contents : /\ copy'[c].status = "removed" => copy[c].status = "removed" \/ chain.piece[c] = "removed"
                               /\ cleanup'[c] \in {"finalized", "done"} => cleanup[c] \in {"finalized", "done"}
    PROVE  RemovalIInv'
<1>1. TypeOK /\ RemovedIsGone /\ Sealing /\ \A r \in Requests : Covered(r) /\ Viewed(r)
  BY DEF RemovalIInv
<1>2. \A r \in Requests : Covered(r)' /\ Viewed(r)'
  BY <1>1, CoveredStays, ViewedStays
<1>3. Sealing' /\ RemovedIsGone'
  BY <1>1, SealingStays, GoneStays
<1> QED  BY <1>2, <1>3 DEF RemovalIInv

\* What is unchanged moves nothing.
LEMMA WorldStays == ASSUME UNCHANGED <<chain, shared>> PROVE WorldMoves
BY DEF WorldMoves

\* Copies nobody changes neither join nor leave.
LEMMA CopiesStay == ASSUME UNCHANGED copy PROVE MembersLeave /\ MembersHeld
BY DEF MembersLeave, MembersHeld

\* Sends nobody changes stay.
LEMMA SentStays == ASSUME UNCHANGED sends PROVE \A q \in Requests : SendsStay(q)
BY DEF SendsStay

-----------------------------------------------------------------------------
(* Types.                                                                  *)

\* The number of an attempt.
Attempt == 0..(RemovalAttempts - 1)

\* A new task and an idle invocation are well typed.
LEMMA FreshTyped ==
    /\ Fresh \in Task /\ Fresh.status = "pending"
    /\ Idle \in RemovalInvocation /\ Idle.pc = "idle"
<1>1. 0 \in Attempt /\ 0 \in 0..RemovalAttempts
  BY RemovalAssumption DEF Attempt
<1> QED  BY <1>1 DEF Fresh, Task, Idle, RemovalInvocation, Attempt

\* A task that waits, one that tries again and one that stops.
LEMMA TasksTyped ==
    ASSUME NEW t \in Task
    PROVE  /\ \A s \in {"pending", "running", "failed", "done"}, m \in {"execute", "recover"}, b \in BOOLEAN :
                 /\ [t EXCEPT !.status = s] \in Task /\ [t EXCEPT !.status = s].status = s
                 /\ [t EXCEPT !.status = s, !.mode = m] \in Task
                 /\ [t EXCEPT !.status = s, !.mode = m].status = s
                 /\ [t EXCEPT !.mode = m] \in Task /\ [t EXCEPT !.mode = m].status = t.status
                 /\ [t EXCEPT !.lookup = b] \in Task /\ [t EXCEPT !.lookup = b].status = t.status
           /\ \A r \in Requests : RetrySend(r, t) \in Task /\ RetrySend(r, t).status \in {"pending", "failed"}
<1>1. \A s \in {"pending", "running", "failed", "done"}, m \in {"execute", "recover"}, b \in BOOLEAN :
                 /\ [t EXCEPT !.status = s] \in Task /\ [t EXCEPT !.status = s].status = s
                 /\ [t EXCEPT !.status = s, !.mode = m] \in Task
                 /\ [t EXCEPT !.status = s, !.mode = m].status = s
                 /\ [t EXCEPT !.mode = m] \in Task /\ [t EXCEPT !.mode = m].status = t.status
                 /\ [t EXCEPT !.lookup = b] \in Task /\ [t EXCEPT !.lookup = b].status = t.status
  BY DEF Task
<1>2. ASSUME NEW r \in Requests PROVE RetrySend(r, t) \in Task /\ RetrySend(r, t).status \in {"pending", "failed"}
  <2>1. CASE t.retry + 1 < RemovalAttempts
    <3>1. t.retry + 1 \in Attempt
      BY <2>1, RemovalAssumption DEF Task, Attempt
    <3>2. RetrySend(r, t) = [t EXCEPT !.status = "pending", !.mode = "execute", !.retry = t.retry + 1]
      BY <2>1 DEF RetrySend
    <3> QED  BY <3>1, <3>2 DEF Task, Attempt
  <2>2. CASE ~(t.retry + 1 < RemovalAttempts)
    BY <2>2, <1>1 DEF RetrySend
  <2> QED  BY <2>1, <2>2
<1> QED  BY <1>1, <1>2

\* The end of an invocation: nobody else is concerned, and nobody sends.
LEMMA EndsQuietly ==
    ASSUME TypeOK, NEW r \in Requests, NEW t \in Task, t.status \notin {"running", "none"}, End(r, t)
    PROVE  /\ task' \in [Requests -> Task] /\ invocation' \in [Requests -> RemovalInvocation]
           /\ task'[r] = t /\ \A q \in Requests : q # r => task'[q] = task[q]
           /\ \A q \in Requests : Running(q)' => q # r /\ Running(q) /\ invocation'[q] = invocation[q]
<1>1. task' \in [Requests -> Task] /\ task'[r] = t /\ \A q \in Requests : q # r => task'[q] = task[q]
  BY DEF End, TypeOK
<1>2. invocation' \in [Requests -> RemovalInvocation] /\ \A q \in Requests : q # r => invocation'[q] = invocation[q]
  BY FreshTyped DEF End, TypeOK
<1> QED  BY <1>1, <1>2 DEF Running

\* Spending leaves numbers.
LEMMA SpendTyped ==
    ASSUME TypeOK, NEW b \in {"faults", "crashes", "retries"}, Spend(b)
    PROVE  left' \in [faults : Nat, crashes : Nat, retries : Nat]
<1>1. left[b] - 1 \in Nat
  BY DEF TypeOK, Spend
<1>2. left' = [left EXCEPT ![b] = left[b] - 1]
  BY DEF Spend
<1> QED  BY <1>1, <1>2 DEF TypeOK

\* One send of one request changes.
LEMMA SendChanges ==
    ASSUME TypeOK, NEW r \in Requests, NEW k \in DOMAIN sends[r], NEW s \in Send,
           sends' = [sends EXCEPT ![r] = [sends[r] EXCEPT ![k] = s]]
    PROVE  /\ sends' \in [Requests -> Seq(Send)]
           /\ \A q \in Requests : DOMAIN sends'[q] = DOMAIN sends[q] /\ Len(sends'[q]) = Len(sends[q])
           /\ sends'[r][k] = s
           /\ \A j \in DOMAIN sends[r] : j # k => sends'[r][j] = sends[r][j]
           /\ \A q \in Requests : q # r => sends'[q] = sends[q]
<1> DEFINE ss == [sends[r] EXCEPT ![k] = s]
<1>1. sends[r] \in Seq(Send)
  BY DEF TypeOK
<1>2. ss \in Seq(Send) /\ DOMAIN ss = DOMAIN sends[r] /\ Len(ss) = Len(sends[r]) /\ ss[k] = s
  BY <1>1
<1>3. \A j \in DOMAIN sends[r] : j # k => ss[j] = sends[r][j]
  BY <1>1
<1>4. sends' = [sends EXCEPT ![r] = ss]
  OBVIOUS
<1> HIDE DEF ss
<1>5. sends'[r] = ss /\ \A q \in Requests : q # r => sends'[q] = sends[q]
  BY <1>4 DEF TypeOK
<1>6. sends' \in [Requests -> Seq(Send)]
  BY <1>2, <1>4 DEF TypeOK
<1> QED  BY <1>2, <1>3, <1>5, <1>6

\* The largest number of a bounded set that has 0.
LEMMA MaxFound ==
    ASSUME NEW n \in Nat, NEW S, S \subseteq 0..n, 0 \in S
    PROVE  Max(S) \in S /\ \A x \in S : x <= Max(S)
<1> DEFINE U == {m \in Nat : \A x \in S : x <= m}
<1> DEFINE R == OpToRel(<, Nat)
<1>1. IsWellFoundedOn(R, Nat)
  BY NatLessThanWellFounded
<1>2. \A x, y \in Nat : x < y => <<x, y>> \in R
  BY DEF OpToRel
<1>3. n \in U /\ U \subseteq Nat
  OBVIOUS
<1> HIDE DEF R
<1>4. PICK m \in U : \A y \in U : ~(<<y, m>> \in R)
  BY <1>1, <1>3, WFMin, Zenon
<1>5. m \in Nat /\ \A x \in S : x \in Nat /\ x <= m
  BY <1>4
<1>6. m \in S
  <2> SUFFICES ASSUME m \notin S PROVE FALSE
    OBVIOUS
  <2>1. m > 0 /\ m - 1 \in Nat
    BY <1>5
  <2>2. \A x \in S : x <= m - 1
    BY <1>5, <2>1
  <2>3. m - 1 \in U /\ m - 1 < m
    BY <2>1, <2>2
  <2> QED  BY <1>2, <1>4, <1>5, <2>3
<1>7. \E x \in S : \A y \in S : x >= y
  BY <1>5, <1>6
<1>8. Max(S) \in S /\ \A y \in S : Max(S) >= y
  BY <1>7 DEF Max
<1> QED  BY <1>5, <1>8

\* Accepted finds the latest send that may be accepted, and Exposed the latest one the
\* provider may hold.
LEMMA LatestFound ==
    ASSUME TypeOK, NEW r \in Requests
    PROVE  /\ Accepted(r) = 0 => \A k \in DOMAIN sends[r] : sends[r][k].st # "sent"
           /\ Accepted(r) # 0 => Accepted(r) \in DOMAIN sends[r] /\ sends[r][Accepted(r)].st = "sent"
           /\ Exposed(r) # 0 => Exposed(r) \in DOMAIN sends[r] /\ sends[r][Exposed(r)].st # "unsent"
<1>1. sends[r] \in Seq(Send)
  BY DEF TypeOK
<1>2. Len(sends[r]) \in Nat /\ DOMAIN sends[r] = 1..Len(sends[r])
  BY <1>1
<1> DEFINE A == {0} \union {k \in DOMAIN sends[r] : MayBeAccepted(sends[r][k])}
           E == {0} \union {k \in DOMAIN sends[r] : MayBeHeld(sends[r][k])}
<1>3. A \subseteq 0..Len(sends[r]) /\ 0 \in A /\ E \subseteq 0..Len(sends[r]) /\ 0 \in E
  BY <1>2
<1>4. Accepted(r) = Max(A) /\ Exposed(r) = Max(E)
  BY DEF Accepted, Exposed
<1>5. Max(A) \in A /\ (\A x \in A : x <= Max(A)) /\ Max(E) \in E
  <2> HIDE DEF A, E
  <2> QED  BY <1>2, <1>3, MaxFound
<1>6. Accepted(r) \in A /\ (\A x \in A : x <= Accepted(r)) /\ Exposed(r) \in E
  BY <1>4, <1>5
<1>7. ASSUME Accepted(r) = 0, NEW k \in DOMAIN sends[r] PROVE sends[r][k].st # "sent"
  <2>1. k \in A => k <= 0
    BY <1>6, <1>7
  <2>2. k \in Nat /\ k > 0
    BY <1>2
  <2>3. k \notin A
    BY <2>1, <2>2
  <2> QED  BY <2>3 DEF MayBeAccepted
<1>8. Accepted(r) # 0 => Accepted(r) \in DOMAIN sends[r] /\ sends[r][Accepted(r)].st = "sent"
  BY <1>6 DEF MayBeAccepted
<1>9. Exposed(r) # 0 => Exposed(r) \in DOMAIN sends[r] /\ sends[r][Exposed(r)].st # "unsent"
  BY <1>6 DEF MayBeHeld
<1> QED  BY <1>7, <1>8, <1>9

\* There is a first request that is not used, if there is one at all.
LEMMA FirstUnused == ASSUME Unused # {} PROVE Min(Unused) \in Unused
<1> DEFINE R == OpToRel(<, Nat)
<1>1. IsWellFoundedOn(R, Nat)
  BY NatLessThanWellFounded
<1>2. \A x, y \in Nat : x < y => <<x, y>> \in R
  BY DEF OpToRel
<1>3. Unused \subseteq Nat
  BY RemovalAssumption DEF Unused
<1> HIDE DEF R
<1>4. PICK m \in Unused : \A y \in Unused : ~(<<y, m>> \in R)
  BY <1>1, <1>3, WFMin, Zenon
<1>5. \A y \in Unused : m <= y
  <2> TAKE y \in Unused
  <2>1. m \in Nat /\ y \in Nat
    BY <1>3
  <2>2. ~(y < m)
    BY <1>2, <1>4, <2>1
  <2> QED  BY <2>1, <2>2
<1>6. \E m1 \in Unused : \A y \in Unused : m1 =< y
  BY <1>5
<1> QED  BY <1>6 DEF Min

-----------------------------------------------------------------------------
(* Steps that change tasks and requests only.                              *)

\* Neither rows of copies nor sends change, and no invocation gets to where it sends.
LEMMA QuietKeeps ==
    ASSUME RemovalIInv, UNCHANGED <<copy, sends, world>>,
           cleanup' \in [Contents -> {"pending", "failed", "finalized", "done"}],
           \A c \in Contents : cleanup'[c] \in {"finalized", "done"} => cleanup[c] \in {"finalized", "done"},
           req' \in [Requests -> Request], task' \in [Requests -> Task],
           invocation' \in [Requests -> RemovalInvocation],
           left' \in [faults : Nat, crashes : Nat, retries : Nat],
           RequestsGo, \A q \in Requests : NoneSends(q)
    PROVE  RemovalIInv'
<1>1. TypeOK'
  BY DEF RemovalIInv, TypeOK, world
<1>2. WorldMoves /\ MembersLeave /\ MembersHeld /\ \A q \in Requests : SendsStay(q)
  BY WorldStays, CopiesStay, SentStays DEF world
<1>3. \A c \in Contents : copy'[c].status = "removed" => copy[c].status = "removed"
  OBVIOUS
<1> QED  BY <1>1, <1>2, <1>3, FrameKeeps

\* The end of an invocation that leaves its request alone, or moves it on.
LEMMA EndingKeeps ==
    ASSUME RemovalIInv, NEW r \in Requests, NEW t \in Task, t.status \notin {"running", "none"}, End(r, t),
           req[r] # "none", UNCHANGED <<cleanup, copy, sends, world>>,
           left' \in [faults : Nat, crashes : Nat, retries : Nat],
           NEW x \in Request \ {"none", "collecting"}, req' = req \/ req' = [req EXCEPT ![r] = x]
    PROVE  RemovalIInv'
<1>1. TypeOK /\ Sealing
  BY DEF RemovalIInv
<1>2. /\ task' \in [Requests -> Task] /\ invocation' \in [Requests -> RemovalInvocation]
      /\ task'[r] = t /\ \A q \in Requests : q # r => task'[q] = task[q]
      /\ \A q \in Requests : Running(q)' => q # r /\ Running(q) /\ invocation'[q] = invocation[q]
  BY <1>1, EndsQuietly
<1>3. req' \in [Requests -> Request] /\ \A q \in Requests : req'[q] = req[q] \/ (q = r /\ req'[q] = x)
  <2>1. req \in [Requests -> Request] /\ x \in Request
    BY <1>1 DEF TypeOK
  <2>2. CASE req' = req
    BY <2>1, <2>2
  <2>3. CASE req' = [req EXCEPT ![r] = x]
    BY <2>1, <2>3
  <2> QED  BY <2>2, <2>3
<1>4. \A q \in Requests : NoneSends(q)
  BY <1>2 DEF NoneSends
<1>5. RequestsGo
  BY <1>1, <1>2, <1>3 DEF RequestsGo, Sealing, Running
<1>6. cleanup' \in [Contents -> {"pending", "failed", "finalized", "done"}]
  BY <1>1 DEF TypeOK
<1> QED  BY <1>2, <1>3, <1>4, <1>5, <1>6, QuietKeeps

\* A cleanup that fails or completes changes its own status only.
LEMMA CleanupEndsKeep ==
    ASSUME RemovalIInv, NEW c \in Contents, CleanupFails(c) \/ CleanupCompletes(c) PROVE RemovalIInv'
<1>1. UNCHANGED <<copy, req, sends, task, invocation, world, left>>
  BY DEF CleanupFails, CleanupCompletes
<1>2. TypeOK /\ Sealing
  BY DEF RemovalIInv
<1>3. /\ cleanup' \in [Contents -> {"pending", "failed", "finalized", "done"}]
      /\ \A d \in Contents : cleanup'[d] \in {"finalized", "done"} => cleanup[d] \in {"finalized", "done"}
  BY <1>2 DEF CleanupFails, CleanupCompletes, TypeOK
<1>4. RequestsGo /\ \A q \in Requests : NoneSends(q)
  BY <1>1, <1>2 DEF RequestsGo, NoneSends, Sealing, Running
<1> QED  BY <1>1, <1>2, <1>3, <1>4, QuietKeeps DEF TypeOK

\* FinalizeContent runs when the copy is recorded as removed and nobody refers to the
\* piece.
LEMMA FinalizesKeeps == ASSUME RemovalIInv, NEW c \in Contents, CleanupFinalizes(c) PROVE RemovalIInv'
<1>1. UNCHANGED <<copy, req, sends, task, invocation, world, left>>
  BY DEF CleanupFinalizes
<1>2. TypeOK /\ Sealing /\ RemovedIsGone /\ \A q \in Requests : Covered(q) /\ Viewed(q)
  BY DEF RemovalIInv
<1>3. WorldMoves /\ MembersLeave /\ MembersHeld /\ \A q \in Requests : SendsStay(q)
  BY <1>1, WorldStays, CopiesStay, SentStays DEF world
<1>4. RequestsGo /\ \A q \in Requests : NoneSends(q)
  BY <1>1, <1>2 DEF RequestsGo, NoneSends, Sealing, Running
<1>5. TypeOK'
  BY <1>1, <1>2 DEF TypeOK, world, CleanupFinalizes
<1>6. RemovedIsGone'
  <2>1. copy[c].status = "removed" /\ c \notin shared /\ chain.piece[c] = "removed"
    BY <1>2 DEF CleanupFinalizes, References, RemovedIsGone
  <2>2. \A d \in Contents : d # c => cleanup'[d] = cleanup[d]
    BY <1>2 DEF TypeOK, CleanupFinalizes
  <2> QED  BY <1>1, <1>2, <2>1, <2>2 DEF RemovedIsGone, world
<1>7. \A q \in Requests : Covered(q)' /\ Viewed(q)'
  BY <1>2, <1>3, <1>4, CoveredStays, ViewedStays
<1> QED  BY <1>2, <1>3, <1>4, <1>5, <1>6, <1>7, SealingStays DEF RemovalIInv

\* ReauthorizeFailedCopies touches a copy that is in no request.
LEMMA RetryCleanupKeeps == ASSUME RemovalIInv, NEW c \in Contents, RetryCleanup(c) PROVE RemovalIInv'
<1>1. UNCHANGED <<req, sends, task, invocation, world>>
  BY DEF RetryCleanup
<1>2. TypeOK /\ Sealing
  BY DEF RemovalIInv
<1>3. WorldMoves /\ \A q \in Requests : SendsStay(q)
  BY <1>1, WorldStays, SentStays DEF world
<1>4. RequestsGo /\ \A q \in Requests : NoneSends(q)
  BY <1>1, <1>2 DEF RequestsGo, NoneSends, Sealing, Running
<1>5. /\ copy' \in [Contents -> Copy]
      /\ \A d \in Contents : /\ copy'[d].req = copy[d].req
                             /\ copy'[d].status = copy[d].status \/ (copy'[d].status = "pending" /\ copy'[d].req = 0)
  <2>1. CASE copy' = copy
    BY <1>2, <2>1 DEF TypeOK
  <2>2. CASE copy[c].req = 0 /\ copy' = [copy EXCEPT ![c].status = "pending"]
    <3>1. copy[c] \in Copy
      BY <1>2 DEF TypeOK
    <3>2. [copy[c] EXCEPT !.status = "pending"] \in Copy
      BY <3>1 DEF Copy
    <3>3. copy' = [copy EXCEPT ![c] = [copy[c] EXCEPT !.status = "pending"]]
      BY <1>2, <2>2 DEF TypeOK
    <3> QED  BY <1>2, <2>2, <3>1, <3>2, <3>3 DEF TypeOK, Copy
  <2> QED  BY <2>1, <2>2 DEF RetryCleanup
<1>6. left' \in [faults : Nat, crashes : Nat, retries : Nat]
  BY <1>2, SpendTyped DEF RetryCleanup
<1>7. /\ cleanup' \in [Contents -> {"pending", "failed", "finalized", "done"}]
      /\ \A d \in Contents : cleanup'[d] \in {"finalized", "done"} => cleanup[d] \in {"finalized", "done"}
  BY <1>2 DEF RetryCleanup, TypeOK
<1>8. TypeOK'
  BY <1>1, <1>2, <1>5, <1>6, <1>7 DEF TypeOK, world
<1>9. MembersLeave /\ MembersHeld
  BY <1>5 DEF MembersLeave, MembersHeld
<1>10. \A d \in Contents : copy'[d].status = "removed" => copy[d].status = "removed"
  BY <1>5
<1> QED  BY <1>3, <1>4, <1>7, <1>8, <1>9, <1>10, FrameKeeps

-----------------------------------------------------------------------------
(* A copy joins a request.                                                 *)

\* It was in no request before, and the request has sent nothing.
LEMMA OneJoins ==
    ASSUME TypeOK, NEW c \in Contents, NEW r \in Requests, copy[c].req = 0, copy' = [copy EXCEPT ![c].req = r]
    PROVE  /\ copy' \in [Contents -> Copy] /\ copy'[c].req = r /\ copy'[c].status = copy[c].status
           /\ \A d \in Contents : d # c => copy'[d] = copy[d]
           /\ \A q \in Requests, d \in Contents : q # r => (copy'[d].req = q <=> copy[d].req = q)
<1>1. copy[c] \in Copy
  BY DEF TypeOK
<1> DEFINE x == [copy[c] EXCEPT !.req = r]
<1>2. x \in Copy /\ x.req = r /\ x.status = copy[c].status
  BY <1>1 DEF Copy
<1>3. copy' = [copy EXCEPT ![c] = x]
  BY DEF TypeOK
<1> HIDE DEF x
<1>4. copy' \in [Contents -> Copy] /\ copy'[c] = x /\ \A d \in Contents : d # c => copy'[d] = copy[d]
  <2>1. copy \in [Contents -> Copy] /\ x \in Copy
    BY <1>2 DEF TypeOK
  <2> QED  BY <1>3, <2>1
<1> QED  BY <1>2, <1>4, RemovalAssumption

\* The other requests keep their members.
LEMMA OthersKept ==
    ASSUME TypeOK, NEW c \in Contents, NEW r \in Requests, copy[c].req = 0, copy' = [copy EXCEPT ![c].req = r],
           UNCHANGED <<chain, shared, invocation>>, NEW q \in Requests, q # r, sends'[q] = sends[q],
           task'[q] = task[q], Covered(q), Viewed(q)
    PROVE  Covered(q)' /\ Viewed(q)'
<1>1. \A d \in Contents : (copy'[d].req = q <=> copy[d].req = q) /\ copy'[d].status = copy[d].status
  BY OneJoins
<1>2. sends[q] \in Seq(Send)
  BY DEF TypeOK
<1>3. \A k \in DOMAIN sends[q] : sends[q][k].pieces \subseteq Contents
  <2> TAKE k \in DOMAIN sends[q]
  <2>1. sends[q][k] \in Send
    BY <1>2
  <2> QED  BY <2>1 DEF Send
<1>4. Covered(q)'
  BY <1>1, <1>3 DEF Covered
<1>5. Viewed(q)'
  BY <1>1 DEF Viewed, Running
<1> QED  BY <1>4, <1>5

\* A copy joins a request that is collected, or starts one (JoinOrCreateCollecting).
LEMMA JoinsKeeps ==
    ASSUME RemovalIInv, NEW c \in Contents, NEW r \in Requests, Unattached(c), Joins(c, r),
           r \in Collecting \union Unused, UNCHANGED <<cleanup, sends, invocation, world, left>>
    PROVE  RemovalIInv'
<1>1. TypeOK /\ Sealing /\ RemovedIsGone /\ \A q \in Requests : Covered(q) /\ Viewed(q)
  BY DEF RemovalIInv
<1>2. copy[c].req = 0 /\ copy' = [copy EXCEPT ![c].req = r] /\ UNCHANGED <<chain, shared, invocation>>
  BY DEF Unattached, Joins, world
<1>3. /\ copy' \in [Contents -> Copy] /\ copy'[c].req = r /\ copy'[c].status = copy[c].status
      /\ \A d \in Contents : d # c => copy'[d] = copy[d]
  BY <1>1, <1>2, OneJoins
<1>4. /\ req' \in [Requests -> Request] /\ task' \in [Requests -> Task]
      /\ req'[r] = "collecting" /\ task'[r].status # "running"
      /\ \A q \in Requests : q # r => req'[q] = req[q] /\ task'[q] = task[q]
  <2>1. CASE r \in Collecting
    BY <1>1, <2>1, ZenonT(30) DEF Joins, Collecting, TypeOK, Sealing
  <2>2. CASE r \notin Collecting
    <3>1. req' = [req EXCEPT ![r] = "collecting"] /\ task' = [task EXCEPT ![r] = Fresh]
      BY <2>2 DEF Joins
    <3>2. "collecting" \in Request
      BY DEF Request
    <3> QED  BY <1>1, <3>1, <3>2, FreshTyped DEF TypeOK
  <2> QED  BY <2>1, <2>2
<1>5. TypeOK'
  BY <1>1, <1>3, <1>4 DEF TypeOK, world
<1>6. RemovedIsGone'
  BY <1>1, <1>2, <1>3 DEF RemovedIsGone
<1>7. sends[r] = <<>> /\ sends' = sends
  BY <1>1 DEF Sealing, Collecting, Unused
<1>8. Sealing'
  <2>1. \A q \in Requests, d \in Contents : q # r => (copy'[d].req = q <=> copy[d].req = q)
    BY <1>1, <1>2, OneJoins
  <2> QED  BY <1>1, <1>4, <1>7, <2>1 DEF Sealing
<1>9. Covered(r)' /\ Viewed(r)'
  BY <1>4, <1>7 DEF Covered, Viewed, Running
<1>10. \A q \in Requests : Covered(q)' /\ Viewed(q)'
  BY <1>1, <1>2, <1>4, <1>7, <1>9, OthersKept
<1> QED  BY <1>5, <1>6, <1>8, <1>10 DEF RemovalIInv

\* JoinOrCreateCollecting.
LEMMA CleanupJoinsKeeps == ASSUME RemovalIInv, NEW c \in Contents, CleanupJoins(c) PROVE RemovalIInv'
<1>1. Unattached(c) /\ UNCHANGED <<cleanup, sends, invocation, world, left>>
  BY DEF CleanupJoins
<1>2. PICK r : r \in Collecting \union Unused /\ Joins(c, r)
  BY FirstUnused DEF CleanupJoins
<1>3. r \in Requests
  BY <1>2 DEF Collecting, Unused
<1> QED  BY <1>1, <1>2, <1>3, JoinsKeeps

\* AdoptLegacyCleanupCopy: the new request has one member and one send, which names it.
LEMMA CleanupAdoptsKeeps == ASSUME RemovalIInv, NEW c \in Contents, CleanupAdopts(c) PROVE RemovalIInv'
<1>1. TypeOK /\ Sealing /\ RemovedIsGone /\ \A q \in Requests : Covered(q) /\ Viewed(q)
  BY DEF RemovalIInv
<1>2. PICK r : /\ r \in Unused /\ copy' = [copy EXCEPT ![c].req = r]
               /\ req' = [req EXCEPT ![r] = "submitted"] /\ task' = [task EXCEPT ![r] = Fresh]
               /\ \E fate \in {"held", "failed", "ok"} :
                     sends' = [sends EXCEPT ![r] = <<[pieces |-> {c}, st |-> "sent", hash |-> TRUE,
                                                      reverted |-> FALSE, fate |-> fate]>>]
  BY FirstUnused DEF CleanupAdopts
<1>3. PICK fate \in {"held", "failed", "ok"} :
        sends' = [sends EXCEPT ![r] = <<[pieces |-> {c}, st |-> "sent", hash |-> TRUE,
                                         reverted |-> FALSE, fate |-> fate]>>]
  BY <1>2
<1> DEFINE s == [pieces |-> {c}, st |-> "sent", hash |-> TRUE, reverted |-> FALSE, fate |-> fate]
<1>4. s \in Send /\ s.pieces = {c} /\ s.st = "sent"
  BY DEF Send
<1>5. sends' = [sends EXCEPT ![r] = <<s>>]
  BY <1>3
<1> HIDE DEF s
<1>6. r \in Requests /\ req[r] = "none" /\ c \notin shared /\ copy[c].req = 0 /\ \A d \in Contents : copy[d].req # r
  BY <1>1, <1>2 DEF Unused, CleanupAdopts, Unattached, References, Sealing
<1>7. UNCHANGED <<cleanup, invocation, chain, shared, start, left>>
  BY DEF CleanupAdopts, world
<1>8. /\ copy' \in [Contents -> Copy] /\ copy'[c].req = r /\ copy'[c].status = copy[c].status
      /\ \A d \in Contents : d # c => copy'[d] = copy[d]
      /\ \A q \in Requests, d \in Contents : q # r => (copy'[d].req = q <=> copy[d].req = q)
  BY <1>1, <1>2, <1>6, OneJoins
<1>9. /\ req' \in [Requests -> Request] /\ task' \in [Requests -> Task]
      /\ req'[r] = "submitted" /\ task'[r].status = "pending"
      /\ \A q \in Requests : q # r => req'[q] = req[q] /\ task'[q] = task[q]
  <2>1. "submitted" \in Request
    BY DEF Request
  <2> QED  BY <1>1, <1>2, <1>6, <2>1, FreshTyped DEF TypeOK
<1>10. /\ sends' \in [Requests -> Seq(Send)] /\ sends'[r] = <<s>>
       /\ \A q \in Requests : q # r => sends'[q] = sends[q]
  <2>1. <<s>> \in Seq(Send)
    BY <1>4
  <2> QED  BY <1>1, <1>5, <1>6, <2>1 DEF TypeOK
<1>11. TypeOK'
  BY <1>1, <1>7, <1>8, <1>9, <1>10 DEF TypeOK
<1>12. RemovedIsGone'
  BY <1>1, <1>7, <1>8 DEF RemovedIsGone
<1>13. Sealing'
  <2>1. ASSUME NEW q \in Requests, q # r
        PROVE  /\ req'[q] = "none" => task'[q].status = "none" /\ \A d \in Contents : copy'[d].req # q
               /\ req'[q] \in {"none", "collecting"} => sends'[q] = <<>>
               /\ task'[q].status = "running" => req'[q] \in {"ready", "submitted"}
    <3>1. /\ req'[q] = req[q] /\ task'[q] = task[q] /\ sends'[q] = sends[q]
          /\ \A d \in Contents : copy'[d].req = q => copy[d].req = q
      BY <1>8, <1>9, <1>10, <2>1
    <3>2. /\ req[q] = "none" => task[q].status = "none" /\ \A d \in Contents : copy[d].req # q
          /\ req[q] \in {"none", "collecting"} => sends[q] = <<>>
          /\ task[q].status = "running" => req[q] \in {"ready", "submitted"}
      BY <1>1 DEF Sealing
    <3> QED  BY <3>1, <3>2
  <2> QED  BY <1>9, <2>1 DEF Sealing
<1>14. Covered(r)'
  <2>1. DOMAIN sends'[r] = {1} /\ sends'[r][1] = s
    BY <1>10
  <2>2. \A d \in Contents : copy'[d].req = r => d = c
    BY <1>6, <1>8
  <2>3. 1..(1 - 1) = {}
    OBVIOUS
  <2> QED  BY <1>4, <1>6, <1>7, <1>8, <2>1, <2>2, <2>3 DEF Covered
<1>15. Viewed(r)'
  BY <1>9 DEF Viewed, Running
<1>16. \A q \in Requests : Covered(q)' /\ Viewed(q)'
  BY <1>1, <1>2, <1>6, <1>7, <1>9, <1>10, <1>14, <1>15, OthersKept
<1> QED  BY <1>11, <1>12, <1>13, <1>16 DEF RemovalIInv

-----------------------------------------------------------------------------
(* The engine and the operator.                                            *)

\* A crash ends every invocation.
LEMMA CrashKeeps == ASSUME RemovalIInv, RemovalCrash PROVE RemovalIInv'
<1>1. TypeOK /\ Sealing
  BY DEF RemovalIInv
<1>2. UNCHANGED <<cleanup, copy, req, sends, world>> /\ invocation' = [r \in Requests |-> Idle]
  BY DEF RemovalCrash
<1>3. invocation' \in [Requests -> RemovalInvocation]
  BY <1>2, FreshTyped
<1>4. \A q \in Requests : \/ task[q].status # "running" /\ task'[q] = task[q]
                          \/ task[q].status = "running" /\ task'[q] = RemovalWaits(q, "recover")
  BY DEF RemovalCrash
<1>5. \A q \in Requests : task[q] \in Task /\ RemovalWaits(q, "recover") \in Task
                          /\ RemovalWaits(q, "recover").status = "pending"
  <2> TAKE q \in Requests
  <2>1. task[q] \in Task
    BY <1>1 DEF TypeOK
  <2> QED  BY <2>1, TasksTyped DEF RemovalWaits
<1>6. task' \in [Requests -> Task]
  BY <1>4, <1>5 DEF RemovalCrash
<1>7. \A q \in Requests : task'[q].status # "running" /\ (task[q].status # "running" => task'[q] = task[q])
  BY <1>4, <1>5
<1>8. \A q \in Requests : NoneSends(q)
  BY <1>7 DEF NoneSends, Running
<1>9. RequestsGo
  BY <1>1, <1>2, <1>7 DEF RequestsGo, Sealing, Running
<1>10. left' \in [faults : Nat, crashes : Nat, retries : Nat]
  BY <1>1, SpendTyped DEF RemovalCrash
<1> QED  BY <1>1, <1>2, <1>3, <1>6, <1>8, <1>9, <1>10, QuietKeeps DEF TypeOK

\* A task that is not running, and stays so, changes.
LEMMA RestingKeeps ==
    ASSUME RemovalIInv, NEW r \in Requests, NEW t \in Task, t.status \notin {"running", "none"},
           task[r].status \notin {"running", "none"}, task' = [task EXCEPT ![r] = t],
           left' \in [faults : Nat, crashes : Nat, retries : Nat],
           UNCHANGED <<cleanup, copy, req, sends, invocation, world>>
    PROVE  RemovalIInv'
<1>1. TypeOK /\ Sealing
  BY DEF RemovalIInv
<1>2. task' \in [Requests -> Task] /\ task'[r] = t /\ \A q \in Requests : q # r => task'[q] = task[q]
  BY <1>1 DEF TypeOK
<1>3. \A q \in Requests : NoneSends(q)
  BY <1>2 DEF NoneSends, Running
<1>4. RequestsGo
  BY <1>1, <1>2 DEF RequestsGo, Sealing, Running
<1> QED  BY <1>1, <1>2, <1>3, <1>4, QuietKeeps DEF TypeOK

\* The task of a request that is over ends, and an operator's Retry opens one.
LEMMA EndsKeeps == ASSUME RemovalIInv, NEW r \in Requests, Ends(r) \/ RetryRemoval(r) PROVE RemovalIInv'
<1>1. TypeOK /\ task[r] \in Task
  BY DEF RemovalIInv, TypeOK
<1>2. CASE Ends(r)
  <2> DEFINE t == [task[r] EXCEPT !.status = "done"]
  <2>1. t \in Task /\ t.status = "done"
    BY <1>1, TasksTyped
  <2>2. task' = [task EXCEPT ![r] = t] /\ task[r].status = "pending"
    BY <1>2 DEF Ends
  <2> HIDE DEF t
  <2>3. UNCHANGED <<cleanup, copy, req, sends, invocation, world, left>>
    BY <1>2 DEF Ends
  <2> QED  BY <1>1, <2>1, <2>2, <2>3, RestingKeeps DEF TypeOK
<1>3. CASE RetryRemoval(r)
  <2> DEFINE t == [Fresh EXCEPT !.mode = "recover", !.lookup = task[r].lookup]
  <2>1. t \in Task /\ t.status = "pending"
    BY <1>1, FreshTyped DEF Task
  <2>2. task' = [task EXCEPT ![r] = t] /\ task[r].status = "failed"
    BY <1>3 DEF RetryRemoval
  <2> HIDE DEF t
  <2>3. UNCHANGED <<cleanup, copy, req, sends, invocation, world>>
    BY <1>3 DEF RetryRemoval
  <2>4. left' \in [faults : Nat, crashes : Nat, retries : Nat]
    BY <1>1, <1>3, SpendTyped DEF RetryRemoval
  <2> QED  BY <2>1, <2>2, <2>3, <2>4, RestingKeeps
<1> QED  BY <1>2, <1>3

\* SealRemovalRequest: what it sets aside leaves a request that has sent nothing.
LEMMA SealKeeps == ASSUME RemovalIInv, NEW r \in Requests, Seal(r) PROVE RemovalIInv'
<1>1. TypeOK /\ Sealing /\ task[r] \in Task
  BY DEF RemovalIInv, TypeOK
<1>2. UNCHANGED <<cleanup, sends, invocation, world, left>> /\ task[r].status = "pending" /\ req[r] = "collecting"
  BY DEF Seal
<1>3. /\ copy' \in [Contents -> Copy]
      /\ \A c \in Contents : \/ copy'[c] = copy[c]
                             \/ copy[c].req = r /\ copy'[c].req = 0 /\ copy'[c].status = copy[c].status
  <2>1. \A c \in Contents : copy[c] \in Copy
    BY <1>1 DEF TypeOK
  <2>2. \A c \in Contents : [copy[c] EXCEPT !.req = 0] \in Copy /\ [copy[c] EXCEPT !.req = 0].req = 0
                            /\ [copy[c] EXCEPT !.req = 0].status = copy[c].status
    BY <2>1 DEF Copy
  <2>3. \A c \in Contents : \/ copy'[c] = copy[c]
                            \/ c \in Members(r) /\ copy'[c] = [copy[c] EXCEPT !.req = 0]
    BY DEF Seal
  <2>4. copy' = [c \in Contents |-> copy'[c]]
    BY DEF Seal
  <2>5. \A c \in Contents : copy'[c] \in Copy
    BY <2>1, <2>2, <2>3
  <2>6. copy' \in [Contents -> Copy]
    BY <2>4, <2>5
  <2> QED  BY <2>2, <2>3, <2>6 DEF Members
<1>4. sends[r] = <<>> /\ sends' = sends
  BY <1>1, <1>2 DEF Sealing
<1>5. /\ req' \in [Requests -> Request] /\ req'[r] \in {"abandoned", "ready"}
      /\ \A q \in Requests : q # r => req'[q] = req[q]
  <2>1. PICK x \in {"abandoned", "ready"} : req' = [req EXCEPT ![r] = x]
    BY DEF Seal
  <2>2. x \in Request
    BY DEF Request
  <2> QED  BY <1>1, <2>1, <2>2 DEF TypeOK
<1>6. /\ task' \in [Requests -> Task] /\ task'[r].status = "pending"
      /\ \A q \in Requests : q # r => task'[q] = task[q]
  <2> DEFINE t == [task[r] EXCEPT !.mode = "recover"]
  <2>1. t \in Task /\ t.status = "pending"
    BY <1>1, <1>2, TasksTyped
  <2>2. task' = [task EXCEPT ![r] = t]
    BY <1>1 DEF Seal, TypeOK
  <2> HIDE DEF t
  <2> QED  BY <1>1, <2>1, <2>2 DEF TypeOK
<1>7. TypeOK'
  BY <1>1, <1>2, <1>3, <1>5, <1>6 DEF TypeOK, world
<1>8. MembersLeave
  BY <1>3 DEF MembersLeave
<1>9. MembersHeld
  <2>1. ASSUME NEW q \in Requests, NEW k \in DOMAIN sends'[q], NEW c \in Contents, copy[c].req = q
        PROVE  copy'[c].req = q
    <3>1. q # r
      BY <1>4, <2>1
    <3> QED  BY <1>3, <2>1, <3>1
  <2> QED  BY <2>1 DEF MembersHeld
<1>10. WorldMoves /\ \A q \in Requests : SendsStay(q)
  BY <1>2, WorldStays, SentStays DEF world
<1>11. \A q \in Requests : NoneSends(q)
  BY <1>2, <1>4, <1>6 DEF NoneSends, Running
<1>12. RequestsGo
  BY <1>1, <1>5, <1>6 DEF RequestsGo, Sealing, Running
<1>13. \A c \in Contents : copy'[c].status = "removed" => copy[c].status = "removed"
  BY <1>3
<1> QED  BY <1>2, <1>7, <1>8, <1>9, <1>10, <1>11, <1>12, <1>13, FrameKeeps

-----------------------------------------------------------------------------
(* The removal task.                                                       *)

\* A claim finds a sealed request.
LEMMA ClaimFinds ==
    ASSUME TypeOK, NEW r \in Requests, Claims(r)
    PROVE  task[r] \in Task /\ task[r].status = "pending" /\ req[r] \in {"ready", "submitted", "queued"}
BY DEF TypeOK, Claims

\* Members that change: with detach they leave, which none does while a send of the
\* request may be accepted.
LEMMA MembersChange ==
    ASSUME RemovalIInv, NEW r \in Requests, NEW cs \in SUBSET Members(r), NEW detach \in BOOLEAN,
           NEW status \in {"", "removed", "failed"}, ChangeMembers(r, cs, status, detach),
           status = "removed" => \A c \in cs : chain.piece[c] = "removed",
           \A c \in cs : copy[c].status # "removed",
           detach => Accepted(r) = 0, req[r] \in {"ready", "submitted", "queued"},
           NEW t \in Task, t.status \notin {"running", "none"}, End(r, t),
           UNCHANGED <<cleanup, sends, world, left>>
    PROVE  RemovalIInv'
<1>1. TypeOK /\ Sealing
  BY DEF RemovalIInv
<1>2. /\ task' \in [Requests -> Task] /\ invocation' \in [Requests -> RemovalInvocation]
      /\ task'[r] = t /\ \A q \in Requests : q # r => task'[q] = task[q]
      /\ \A q \in Requests : Running(q)' => q # r /\ Running(q) /\ invocation'[q] = invocation[q]
  BY <1>1, EndsQuietly
<1> DEFINE new(c) == [copy[c] EXCEPT !.status = IF status = "" THEN copy[c].status ELSE status,
                                     !.req = IF detach THEN 0 ELSE copy[c].req]
<1>3. \A c \in Contents : \/ c \notin cs /\ copy'[c] = copy[c]
                          \/ c \in cs /\ copy'[c] = new(c)
  BY DEF ChangeMembers
<1>4. copy' = [c \in Contents |-> copy'[c]]
  BY DEF ChangeMembers
<1>5. ASSUME NEW c \in Contents
      PROVE  /\ new(c) \in Copy
             /\ new(c).req = IF detach THEN 0 ELSE copy[c].req
             /\ new(c).status = IF status = "" THEN copy[c].status ELSE status
  <2>1. copy[c] \in Copy
    BY <1>1 DEF TypeOK
  <2> QED  BY <2>1 DEF Copy
<1> HIDE DEF new
<1>6. copy' \in [Contents -> Copy]
  <2>1. \A c \in Contents : copy[c] \in Copy
    BY <1>1 DEF TypeOK
  <2>2. \A c \in Contents : copy'[c] \in Copy
    BY <1>3, <1>5, <2>1
  <2> QED  BY <1>4, <2>2
<1>7. /\ req' \in [Requests -> Request] /\ req'[r] \in {req[r], "abandoned"}
      /\ \A q \in Requests : q # r => req'[q] = req[q]
  <2>1. req' = req \/ req' = [req EXCEPT ![r] = "abandoned"]
    BY DEF ChangeMembers
  <2>2. req \in [Requests -> Request] /\ "abandoned" \in Request
    BY <1>1 DEF TypeOK, Request
  <2>3. CASE req' = req
    BY <2>2, <2>3
  <2>4. CASE req' = [req EXCEPT ![r] = "abandoned"]
    BY <2>2, <2>4
  <2> QED  BY <2>1, <2>3, <2>4
<1>8. TypeOK'
  BY <1>1, <1>2, <1>6, <1>7 DEF TypeOK, world
<1>9. MembersLeave
  <2>1. ASSUME NEW c \in Contents, copy'[c].req # 0
        PROVE  copy'[c].req = copy[c].req /\ (copy'[c].status # "removed" => copy[c].status # "removed")
    BY <1>3, <1>5, <2>1
  <2> QED  BY <2>1 DEF MembersLeave
<1>10. MembersHeld
  <2>1. ASSUME NEW q \in Requests, NEW k \in DOMAIN sends'[q], sends'[q][k].st = "sent", NEW c \in Contents,
               copy[c].req = q
        PROVE  copy'[c].req = q
    <3>1. CASE c \notin cs
      BY <1>3, <2>1, <3>1
    <3>2. CASE c \in cs
      <4>1. q = r
        BY <2>1, <3>2 DEF Members
      <4>2. Accepted(r) # 0
        BY <1>1, <2>1, <4>1, LatestFound
      <4>3. ~detach
        BY <4>2
      <4> QED  BY <1>3, <1>5, <2>1, <3>2, <4>3
    <3> QED  BY <3>1, <3>2
  <2> QED  BY <2>1 DEF MembersHeld
<1>11. WorldMoves /\ \A q \in Requests : SendsStay(q)
  BY WorldStays, SentStays DEF world
<1>12. \A q \in Requests : NoneSends(q)
  BY <1>2 DEF NoneSends
<1>13. RequestsGo
  BY <1>1, <1>2, <1>7 DEF RequestsGo, Sealing, Running
<1>14. \A c \in Contents : copy'[c].status = "removed" => copy[c].status = "removed" \/ chain.piece[c] = "removed"
  BY <1>3, <1>5
<1> QED  BY <1>8, <1>9, <1>10, <1>11, <1>12, <1>13, <1>14, FrameKeeps

\* Members that are gone are recorded so; they leave a request nobody may act on.
LEMMA MarkRemovedKeeps == ASSUME RemovalIInv, NEW r \in Requests, MarkRemoved(r) PROVE RemovalIInv'
<1>1. TypeOK /\ Claims(r) /\ UNCHANGED <<cleanup, sends, world, left>> /\ Observes(r)
  BY DEF RemovalIInv, MarkRemoved
<1>2. task[r] \in Task /\ req[r] \in {"ready", "submitted", "queued"}
  BY <1>1, ClaimFinds
<1> DEFINE t == RemovalWaits(r, "recover")
           detach == Accepted(r) = 0 /\ req[r] = "ready"
<1>3. t \in Task /\ t.status = "pending"
  BY <1>2, TasksTyped DEF RemovalWaits
<1>4. End(r, t) /\ ChangeMembers(r, Gone(r), "removed", detach)
  BY DEF MarkRemoved, Observes
<1>5. /\ Gone(r) \in SUBSET Members(r) /\ \A c \in Gone(r) : copy[c].status # "removed" /\ chain.piece[c] = "removed"
      /\ detach \in BOOLEAN /\ (detach => Accepted(r) = 0)
  BY DEF Gone
<1> HIDE DEF t, detach
<1> QED  BY <1>1, <1>2, <1>3, <1>4, <1>5, MembersChange

\* A queued request is watched, and settled in the end.
LEMMA QueuedKeeps == ASSUME RemovalIInv, NEW r \in Requests, Queued(r) PROVE RemovalIInv'
<1>1. TypeOK /\ Claims(r) /\ UNCHANGED <<cleanup, copy, sends, world, left>>
  BY DEF RemovalIInv, Queued
<1>2. task[r] \in Task /\ req[r] # "none"
  BY <1>1, ClaimFinds
<1> DEFINE t == RemovalWaits(r, "recover")
           u == [task[r] EXCEPT !.status = "done"]
<1>3. t \in Task /\ t.status = "pending" /\ u \in Task /\ u.status = "done"
  BY <1>2, TasksTyped DEF RemovalWaits
<1>4. "settled" \in Request \ {"none", "collecting"}
  BY DEF Request
<1>5. left' \in [faults : Nat, crashes : Nat, retries : Nat]
  BY <1>1 DEF TypeOK
<1>6. CASE req' = [req EXCEPT ![r] = "settled"] /\ End(r, u)
  <2> HIDE DEF u
  <2> QED  BY <1>1, <1>2, <1>3, <1>4, <1>5, <1>6, EndingKeeps
<1>7. CASE End(r, t) /\ req' = req
  <2> HIDE DEF t
  <2> QED  BY <1>1, <1>2, <1>3, <1>4, <1>5, <1>7, EndingKeeps
<1> QED  BY <1>6, <1>7 DEF Queued, Observes

\* markQueued: others learn of it, and nothing else changes.
LEMMA MarksQueuedKeeps ==
    ASSUME RemovalIInv, NEW r \in Requests, Claims(r), MarksQueued(r), UNCHANGED <<cleanup, world, left>>
    PROVE  RemovalIInv'
<1>1. TypeOK /\ Sealing /\ task[r] \in Task /\ task[r].status = "pending"
  BY ClaimFinds DEF RemovalIInv
<1> DEFINE t == RemovalWaits(r, "recover")
<1>2. t \in Task /\ t.status = "pending" /\ task' = [task EXCEPT ![r] = t]
  BY <1>1, TasksTyped DEF RemovalWaits, MarksQueued
<1> HIDE DEF t
<1>3. task' \in [Requests -> Task] /\ task'[r] = t /\ \A q \in Requests : q # r => task'[q] = task[q]
  BY <1>1, <1>2 DEF TypeOK
<1>4. req' \in [Requests -> Request] /\ req'[r] = "queued" /\ \A q \in Requests : q # r => req'[q] = req[q]
  <2>1. req \in [Requests -> Request] /\ "queued" \in Request /\ req' = [req EXCEPT ![r] = "queued"]
    BY <1>1 DEF TypeOK, Request, MarksQueued
  <2> QED  BY <2>1
<1>5. \A q \in Requests : /\ invocation'[q] \in RemovalInvocation
                          /\ invocation'[q].pc = invocation[q].pc /\ invocation'[q].seen = invocation[q].seen
  <2> TAKE q \in Requests
  <2>1. invocation[q] \in RemovalInvocation
    BY <1>1 DEF TypeOK
  <2> DEFINE x == [invocation[q] EXCEPT !.later = invocation[q].later \union {r}]
  <2>2. x \in RemovalInvocation /\ x.pc = invocation[q].pc /\ x.seen = invocation[q].seen
    BY <2>1 DEF RemovalInvocation
  <2>3. invocation'[q] = x \/ invocation'[q] = invocation[q]
    BY DEF MarksQueued
  <2> HIDE DEF x
  <2> QED  BY <2>1, <2>2, <2>3
<1>6. invocation' \in [Requests -> RemovalInvocation]
  <2>1. invocation' = [q \in Requests |-> invocation'[q]]
    BY DEF MarksQueued
  <2> QED  BY <1>5, <2>1
<1>7. UNCHANGED <<copy, sends>>
  BY DEF MarksQueued
<1>8. \A q \in Requests : NoneSends(q)
  BY <1>2, <1>3, <1>5, <1>7 DEF NoneSends, Running
<1>9. RequestsGo
  BY <1>1, <1>2, <1>3, <1>4 DEF RequestsGo, Sealing, Running
<1> QED  BY <1>1, <1>3, <1>4, <1>6, <1>7, <1>8, <1>9, QuietKeeps DEF TypeOK

\* The batch is queued when none of it is left in the data set.
LEMMA AllQueuedKeeps == ASSUME RemovalIInv, NEW r \in Requests, AllQueued(r) PROVE RemovalIInv'
BY MarksQueuedKeeps DEF AllQueued, Sealed

\* An invocation starts: at a lookup, or where it sends, with the chain as it is now.
LEMMA Starting ==
    ASSUME RemovalIInv, NEW r \in Requests, Sealed(r), NEW pc \in {"lookup", "send"},
           task' = [task EXCEPT ![r].status = "running"],
           invocation' = [invocation EXCEPT ![r] = [Idle EXCEPT !.pc = pc, !.seen = chain.piece]],
           UNCHANGED <<cleanup, copy, req, sends, world, left>>
    PROVE  RemovalIInv'
<1>1. TypeOK /\ Sealing /\ RemovedIsGone /\ \A q \in Requests : Covered(q) /\ Viewed(q)
  BY DEF RemovalIInv
<1>2. task[r] \in Task /\ req[r] \in {"ready", "submitted"}
  BY <1>1 DEF Sealed, TypeOK
<1> DEFINE t == [task[r] EXCEPT !.status = "running"]
           x == [Idle EXCEPT !.pc = pc, !.seen = chain.piece]
<1>3. t \in Task /\ t.status = "running"
  BY <1>2, TasksTyped
<1>4. x \in RemovalInvocation /\ x.pc = pc /\ x.seen = chain.piece
  <2>1. chain.piece \in [Contents -> {"present", "scheduled", "removed"}]
    BY <1>1 DEF TypeOK
  <2> QED  BY <2>1, FreshTyped DEF RemovalInvocation
<1>5. task' = [task EXCEPT ![r] = t] /\ invocation' = [invocation EXCEPT ![r] = x]
  BY <1>1 DEF TypeOK
<1> HIDE DEF t, x
<1>6. task' \in [Requests -> Task] /\ task'[r] = t /\ \A q \in Requests : q # r => task'[q] = task[q]
  <2>1. task \in [Requests -> Task] /\ t \in Task
    BY <1>1, <1>3 DEF TypeOK
  <2> QED  BY <1>5, <2>1
<1>7. /\ invocation' \in [Requests -> RemovalInvocation] /\ invocation'[r] = x
      /\ \A q \in Requests : q # r => invocation'[q] = invocation[q]
  BY <1>1, <1>4, <1>5 DEF TypeOK
<1>8. TypeOK'
  BY <1>1, <1>6, <1>7 DEF TypeOK, world
<1>9. WorldMoves /\ MembersLeave /\ MembersHeld /\ \A q \in Requests : SendsStay(q)
  BY WorldStays, CopiesStay, SentStays DEF world
<1>10. RequestsGo
  BY <1>1, <1>2, <1>3, <1>6 DEF RequestsGo, Sealing, Running
<1>11. \A q \in Requests : q # r => NoneSends(q)
  BY <1>6, <1>7 DEF NoneSends, Running
<1>12. Viewed(r)'
  <2>1. ASSUME NEW k \in DOMAIN sends[r], sends[r][k].st # "unsent", NEW c \in Contents,
               copy[c].req = r, chain.piece[c] = "present"
        PROVE  c \in sends[r][k].pieces
    BY <1>1, <2>1 DEF Covered
  <2> QED  BY <1>4, <1>7, <2>1 DEF Viewed, world
<1>13. \A q \in Requests : Covered(q)' /\ Viewed(q)'
  BY <1>1, <1>9, <1>11, <1>12, CoveredStays, ViewedStays
<1>14. RemovedIsGone'
  BY <1>1 DEF RemovedIsGone, world
<1> QED  BY <1>1, <1>8, <1>9, <1>10, <1>13, <1>14, SealingStays DEF RemovalIInv

\* An invocation goes on asking the provider which piece it did not find.
LEMMA ResumeLookupKeeps == ASSUME RemovalIInv, NEW r \in Requests, ResumeLookup(r) PROVE RemovalIInv'
BY Starting DEF ResumeLookup

\* The receipt of a failed transaction is recorded on its send.
LEMMA CheckReceiptKeeps == ASSUME RemovalIInv, NEW r \in Requests, CheckReceipt(r) PROVE RemovalIInv'
<1>1. TypeOK /\ Sealing /\ Claims(r) /\ UNCHANGED <<cleanup, copy, req, world, left>>
  BY DEF RemovalIInv, CheckReceipt, Sealed
<1>2. task[r] \in Task /\ req[r] \in {"ready", "submitted", "queued"}
  BY <1>1, ClaimFinds
<1> DEFINE k == Accepted(r)
           s == [sends[r][k] EXCEPT !.reverted = TRUE]
<1>3. k \in DOMAIN sends[r] /\ sends[r] \in Seq(Send)
  BY <1>1, LatestFound DEF CheckReceipt, ReceiptDue, TypeOK
<1>4. sends[r][k] \in Send
  BY <1>3
<1>5. s \in Send /\ s.pieces = sends[r][k].pieces /\ s.st = sends[r][k].st
  BY <1>4 DEF Send
<1>6. sends' = [sends EXCEPT ![r] = [sends[r] EXCEPT ![k] = s]]
  BY <1>1, <1>3 DEF CheckReceipt, TypeOK
<1> HIDE DEF k, s
<1>7. /\ sends' \in [Requests -> Seq(Send)]
      /\ \A q \in Requests : DOMAIN sends'[q] = DOMAIN sends[q] /\ Len(sends'[q]) = Len(sends[q])
      /\ sends'[r][k] = s
      /\ \A j \in DOMAIN sends[r] : j # k => sends'[r][j] = sends[r][j]
      /\ \A q \in Requests : q # r => sends'[q] = sends[q]
  BY <1>1, <1>3, <1>5, <1>6, SendChanges
<1>8. \A q \in Requests : SendsStay(q) /\ \A j \in DOMAIN sends[q] : sends'[q][j].st = sends[q][j].st
  BY <1>3, <1>5, <1>7, Zenon DEF SendsStay
<1>9. PICK t \in Task : t.status \in {"pending", "failed"} /\ End(r, t)
  <2>1. /\ RemovalWaits(r, "recover") \in Task /\ RemovalWaits(r, "recover").status = "pending"
        /\ [task[r] EXCEPT !.status = "failed"] \in Task /\ [task[r] EXCEPT !.status = "failed"].status = "failed"
    BY <1>2, TasksTyped DEF RemovalWaits
  <2>2. End(r, RemovalWaits(r, "recover")) \/ End(r, [task[r] EXCEPT !.status = "failed"])
    BY DEF CheckReceipt
  <2> QED  BY <2>1, <2>2
<1>10. /\ task' \in [Requests -> Task] /\ invocation' \in [Requests -> RemovalInvocation]
       /\ task'[r] = t /\ \A q \in Requests : q # r => task'[q] = task[q]
       /\ \A q \in Requests : Running(q)' => q # r /\ Running(q) /\ invocation'[q] = invocation[q]
  BY <1>1, <1>9, EndsQuietly
<1>11. TypeOK'
  BY <1>1, <1>7, <1>10 DEF TypeOK, world
<1>12. WorldMoves /\ MembersLeave /\ MembersHeld
  BY <1>1, WorldStays, CopiesStay DEF world
<1>13. \A q \in Requests : NoneSends(q)
  BY <1>8, <1>10 DEF NoneSends
<1>14. RequestsGo
  BY <1>1, <1>2, <1>9, <1>10 DEF RequestsGo, Sealing, Running
<1> QED  BY <1>1, <1>8, <1>11, <1>12, <1>13, <1>14, FrameKeeps

\* Every other end of an invocation leaves the rows alone.
LEMMA QuietEndKeeps ==
    ASSUME RemovalIInv, NEW r \in Requests, req[r] # "none",
           NEW t \in Task, t.status \in {"pending", "failed"}, End(r, t),
           UNCHANGED <<cleanup, copy, req, sends, world>>,
           left' \in [faults : Nat, crashes : Nat, retries : Nat]
    PROVE  RemovalIInv'
<1>1. "settled" \in Request \ {"none", "collecting"}
  BY DEF Request
<1> QED  BY <1>1, EndingKeeps

\* Another identity, a payer without funds or an unknown verifier fails the task.
LEMMA StopsKeeps == ASSUME RemovalIInv, NEW r \in Requests, Stops(r) PROVE RemovalIInv'
<1>1. TypeOK /\ Claims(r) /\ UNCHANGED <<cleanup, copy, req, sends, world>>
  BY DEF RemovalIInv, Stops
<1>2. task[r] \in Task /\ req[r] # "none"
  BY <1>1, ClaimFinds
<1> DEFINE t == [task[r] EXCEPT !.status = "failed"]
<1>3. t \in Task /\ t.status = "failed" /\ End(r, t)
  BY <1>2, TasksTyped DEF Stops
<1> HIDE DEF t
<1>4. left' \in [faults : Nat, crashes : Nat, retries : Nat]
  BY <1>1, SpendTyped DEF Stops
<1> QED  BY <1>1, <1>2, <1>3, <1>4, QuietEndKeeps

\* Preflight settles the request of an ended service, waits, or goes on to send.
LEMMA PreflightKeeps == ASSUME RemovalIInv, NEW r \in Requests, Preflight(r) PROVE RemovalIInv'
<1>1. TypeOK /\ Claims(r) /\ Sealed(r) /\ UNCHANGED <<cleanup, world, left>>
  BY DEF RemovalIInv, Preflight, Undecided, Sealed
<1>2. task[r] \in Task /\ req[r] # "none"
  BY <1>1, ClaimFinds
<1>3. left' \in [faults : Nat, crashes : Nat, retries : Nat]
  BY <1>1 DEF TypeOK
<1>4. CASE MarksQueued(r)
  BY <1>1, <1>4, MarksQueuedKeeps
<1>5. CASE End(r, RetrySend(r, task[r])) /\ UNCHANGED <<copy, req, sends>>
  <2>1. RetrySend(r, task[r]) \in Task /\ RetrySend(r, task[r]).status \in {"pending", "failed"}
    BY <1>2, TasksTyped
  <2> QED  BY <1>1, <1>2, <1>3, <1>5, <2>1, QuietEndKeeps
<1>6. CASE End(r, RemovalWaits(r, "execute")) /\ UNCHANGED <<copy, req, sends>>
  <2>1. RemovalWaits(r, "execute") \in Task /\ RemovalWaits(r, "execute").status \in {"pending", "failed"}
    BY <1>2, TasksTyped DEF RemovalWaits
  <2> QED  BY <1>1, <1>2, <1>3, <1>6, <2>1, QuietEndKeeps
<1>7. CASE /\ task' = [task EXCEPT ![r].status = "running"]
           /\ invocation' = [invocation EXCEPT ![r] = [Idle EXCEPT !.pc = "send", !.seen = chain.piece]]
           /\ UNCHANGED <<copy, req, sends>>
  BY <1>1, <1>7, Starting
<1> QED  BY <1>4, <1>5, <1>6, <1>7 DEF Preflight

\* The task of an invocation runs, and its request is sealed.
LEMMA AtFinds ==
    ASSUME RemovalIInv, NEW r \in Requests, NEW pc, At(r, pc)
    PROVE  /\ task[r] \in Task /\ invocation[r] \in RemovalInvocation /\ sends[r] \in Seq(Send)
           /\ Running(r) /\ invocation[r].pc = pc /\ req[r] \in {"ready", "submitted"}
BY DEF RemovalIInv, TypeOK, Sealing, At, Running

\* The queue has no room (ErrNoRemovalRoom): the task waits.
LEMMA NoRoomKeeps == ASSUME RemovalIInv, NEW r \in Requests, NoRoom(r) PROVE RemovalIInv'
<1>1. TypeOK /\ At(r, "send") /\ UNCHANGED <<cleanup, copy, req, sends, world, left>>
  BY DEF RemovalIInv, NoRoom
<1>2. task[r] \in Task /\ req[r] # "none"
  BY <1>1, AtFinds
<1>3. /\ RemovalWaits(r, "execute") \in Task /\ RemovalWaits(r, "execute").status \in {"pending", "failed"}
      /\ End(r, RemovalWaits(r, "execute"))
  BY <1>2, TasksTyped DEF RemovalWaits, NoRoom
<1> QED  BY <1>1, <1>2, <1>3, QuietEndKeeps DEF TypeOK

\* A read of rows, chain or provider fails and the task waits.
LEMMA ReadFailsKeeps == ASSUME RemovalIInv, NEW r \in Requests, ReadFails(r) PROVE RemovalIInv'
<1>1. TypeOK /\ UNCHANGED <<cleanup, copy, req, sends, world>>
  BY DEF RemovalIInv, ReadFails
<1>2. task[r] \in Task /\ req[r] # "none"
  BY AtFinds DEF ReadFails
<1>3. /\ RemovalWaits(r, "recover") \in Task /\ RemovalWaits(r, "recover").status \in {"pending", "failed"}
      /\ End(r, RemovalWaits(r, "recover"))
  BY <1>2, TasksTyped DEF RemovalWaits, ReadFails, Observes
<1>4. left' \in [faults : Nat, crashes : Nat, retries : Nat]
  BY <1>1, SpendTyped DEF ReadFails
<1> QED  BY <1>1, <1>2, <1>3, <1>4, QuietEndKeeps

\* What is selected was authorized: no version refers to it.
LEMMA SelectedUnneeded ==
    ASSUME RemovalIInv, NEW r \in Requests, At(r, "send"), SendAuthorized(r)
    PROVE  /\ Selected(r) \subseteq Contents /\ Selected(r) \intersect shared = {}
           /\ \A c \in Selected(r) : copy[c].req = r
           /\ \A c \in Contents : copy[c].req = r /\ chain.piece[c] = "present" => c \in Selected(r)
           /\ \A k \in DOMAIN sends[r] : sends[r][k].st # "unsent" => Selected(r) \subseteq sends[r][k].pieces
<1>1. TypeOK /\ RemovedIsGone /\ Covered(r) /\ Viewed(r) /\ Running(r) /\ invocation[r].pc = "send"
  BY AtFinds DEF RemovalIInv
<1>2. \A c : c \in Selected(r) <=> /\ c \in Contents /\ copy[c].req = r /\ copy[c].status # "removed"
                                   /\ invocation[r].seen[c] = "present"
  BY DEF Selected, Present, Members
<1>3. \A k \in DOMAIN sends[r] : sends[r][k].st # "unsent" => Selected(r) \subseteq sends[r][k].pieces
  BY <1>1, <1>2 DEF Viewed
<1>4. \A c \in Contents : copy[c].req = r /\ chain.piece[c] = "present" => c \in Selected(r)
  BY <1>1, <1>2 DEF Viewed, RemovedIsGone
<1>5. Selected(r) \intersect shared = {}
  <2>1. CASE Accepted(r) = 0
    BY <1>2, <2>1 DEF SendAuthorized, References, Members
  <2>2. CASE Accepted(r) # 0
    <3>1. Accepted(r) \in DOMAIN sends[r] /\ sends[r][Accepted(r)].st = "sent"
      BY <1>1, <2>2, LatestFound
    <3>2. Selected(r) \subseteq sends[r][Accepted(r)].pieces /\ sends[r][Accepted(r)].pieces \intersect shared = {}
      BY <1>1, <1>3, <3>1 DEF Covered
    <3> QED  BY <3>2
  <2> QED  BY <2>1, <2>2
<1> QED  BY <1>2, <1>3, <1>4, <1>5

\* AdmitRemovalSend: the new send asks for no more than the earlier ones, and for all
\* members that are still there.
LEMMA AdmitSendKeeps == ASSUME RemovalIInv, NEW r \in Requests, AdmitRemovalSend(r) PROVE RemovalIInv'
<1>1. TypeOK /\ Sealing /\ RemovedIsGone /\ \A q \in Requests : Covered(q) /\ Viewed(q)
  BY DEF RemovalIInv
<1>2. At(r, "send") /\ SendAuthorized(r) /\ UNCHANGED <<cleanup, copy, world, left>>
  BY DEF AdmitRemovalSend
<1>3. /\ task[r] \in Task /\ invocation[r] \in RemovalInvocation /\ sends[r] \in Seq(Send)
      /\ Running(r) /\ req[r] \in {"ready", "submitted"}
  BY <1>2, AtFinds
<1>4. /\ Selected(r) \subseteq Contents /\ Selected(r) \intersect shared = {}
      /\ \A c \in Selected(r) : copy[c].req = r
      /\ \A c \in Contents : copy[c].req = r /\ chain.piece[c] = "present" => c \in Selected(r)
      /\ \A k \in DOMAIN sends[r] : sends[r][k].st # "unsent" => Selected(r) \subseteq sends[r][k].pieces
  BY <1>2, SelectedUnneeded
<1> DEFINE s == [pieces |-> Selected(r), st |-> "sent", hash |-> FALSE, reverted |-> FALSE, fate |-> "none"]
           n == Len(sends[r])
           ss == Append(sends[r], s)
<1>5. s \in Send /\ s.pieces = Selected(r) /\ s.st = "sent"
  BY <1>4 DEF Send
<1>6. sends' = [sends EXCEPT ![r] = ss]
  BY DEF AdmitRemovalSend
<1> HIDE DEF s
<1>7. /\ n \in Nat /\ DOMAIN sends[r] = 1..n /\ ss \in Seq(Send) /\ Len(ss) = n + 1 /\ DOMAIN ss = 1..(n + 1)
      /\ ss[n + 1] = s /\ \A k \in 1..n : ss[k] = sends[r][k]
  BY <1>3, <1>5
<1> HIDE DEF ss, n
<1>8. sends' \in [Requests -> Seq(Send)] /\ sends'[r] = ss /\ \A q \in Requests : q # r => sends'[q] = sends[q]
  BY <1>1, <1>6, <1>7 DEF TypeOK
<1>9. /\ task' \in [Requests -> Task] /\ task'[r].status = "running"
      /\ \A q \in Requests : q # r => task'[q] = task[q]
  <2> DEFINE t == [task[r] EXCEPT !.admitted = task[r].retry + 1, !.mode = "recover", !.lookup = FALSE]
  <2>1. task[r].retry + 1 \in 0..RemovalAttempts
    BY <1>3, RemovalAssumption DEF Task
  <2>2. t \in Task /\ t.status = "running"
    BY <1>3, <2>1 DEF Task, Running
  <2>3. task' = [task EXCEPT ![r] = t] /\ task \in [Requests -> Task]
    BY <1>1 DEF AdmitRemovalSend, TypeOK
  <2> HIDE DEF t
  <2> QED  BY <2>2, <2>3
<1>10. /\ invocation' \in [Requests -> RemovalInvocation] /\ invocation'[r].pc = "call"
       /\ \A q \in Requests : q # r => invocation'[q] = invocation[q]
  <2> DEFINE x == [invocation[r] EXCEPT !.pc = "call"]
  <2>1. x \in RemovalInvocation /\ x.pc = "call"
    BY <1>3 DEF RemovalInvocation
  <2>2. invocation' = [invocation EXCEPT ![r] = x] /\ invocation \in [Requests -> RemovalInvocation]
    BY <1>1 DEF AdmitRemovalSend, Goes, TypeOK
  <2> HIDE DEF x
  <2> QED  BY <2>1, <2>2
<1>11. /\ req' \in [Requests -> Request] /\ req'[r] = "submitted"
       /\ \A q \in Requests : q # r => req'[q] = req[q]
  <2>1. req \in [Requests -> Request] /\ "submitted" \in Request /\ req' = [req EXCEPT ![r] = "submitted"]
    BY <1>1 DEF TypeOK, Request, AdmitRemovalSend
  <2> QED  BY <2>1
<1>12. TypeOK'
  BY <1>1, <1>2, <1>8, <1>9, <1>10, <1>11 DEF TypeOK, world
<1>13. UNCHANGED <<cleanup, copy, chain, shared>>
  BY <1>2 DEF world
<1>14. RemovedIsGone'
  BY <1>1, <1>13 DEF RemovedIsGone
<1>15. Sealing'
  <2>1. ASSUME NEW q \in Requests, q # r
        PROVE  req'[q] = req[q] /\ task'[q] = task[q] /\ sends'[q] = sends[q]
    BY <1>8, <1>9, <1>11, <2>1
  <2> QED  BY <1>1, <1>11, <1>13, <2>1, ZenonT(30) DEF Sealing
<1>16. WorldMoves /\ MembersLeave /\ MembersHeld
  BY <1>13, WorldStays, CopiesStay
<1>17. \A q \in Requests : q # r => SendsStay(q) /\ NoneSends(q)
  BY <1>8, <1>9, <1>10 DEF SendsStay, NoneSends, Running
<1>18. \A q \in Requests : q # r => Covered(q)' /\ Viewed(q)'
  BY <1>1, <1>16, <1>17, CoveredStays, ViewedStays
<1>19. Viewed(r)'
  <2>1. n + 1 > 0
    BY <1>7
  <2> QED  BY <1>5, <1>7, <1>8, <1>10, <2>1 DEF Viewed
<1>20. Covered(r)'
  <2>1. ASSUME NEW k \in 1..(n + 1)
        PROVE  /\ ss[k].pieces \intersect shared = {}
               /\ ss[k].st = "sent" => \A c \in ss[k].pieces : copy[c].req = r
               /\ ss[k].st # "unsent" =>
                     \A c \in Contents : copy[c].req = r /\ chain.piece[c] = "present" => c \in ss[k].pieces
               /\ \A j \in 1..(k - 1) : ss[j].st # "unsent" => ss[k].pieces \subseteq ss[j].pieces
    <3>1. CASE k = n + 1
      <4>1. ss[k].pieces = Selected(r)
        BY <1>5, <1>7, <3>1
      <4>2. \A j \in 1..(k - 1) : j \in DOMAIN sends[r] /\ ss[j] = sends[r][j]
        BY <1>7, <3>1
      <4> QED  BY <1>4, <4>1, <4>2
    <3>2. CASE k # n + 1
      <4>1. k \in DOMAIN sends[r] /\ ss[k] = sends[r][k]
        BY <1>7, <3>2
      <4>2. \A j \in 1..(k - 1) : ss[j] = sends[r][j]
        BY <1>7, <3>2
      <4> QED  BY <1>1, <4>1, <4>2 DEF Covered
    <3> QED  BY <3>1, <3>2
  <2> QED  BY <1>7, <1>8, <1>13, <2>1 DEF Covered
<1> QED  BY <1>12, <1>14, <1>15, <1>18, <1>19, <1>20 DEF RemovalIInv

\* One send changes and keeps its pieces.
LEMMA EvidenceStays ==
    ASSUME TypeOK, NEW r \in Requests, NEW k \in DOMAIN sends[r], NEW s \in Send,
           sends' = [sends EXCEPT ![r] = [sends[r] EXCEPT ![k] = s]],
           s.pieces = sends[r][k].pieces,
           s.st = "sent" => sends[r][k].st = "sent", s.st # "unsent" => sends[r][k].st # "unsent"
    PROVE  /\ sends' \in [Requests -> Seq(Send)] /\ \A q \in Requests : SendsStay(q)
           /\ \A q \in Requests : q # r => sends'[q] = sends[q]
           /\ s.st = sends[r][k].st => \A q \in Requests : \A j \in DOMAIN sends[q] : sends'[q][j].st = sends[q][j].st
<1>1. /\ sends' \in [Requests -> Seq(Send)]
      /\ \A q \in Requests : DOMAIN sends'[q] = DOMAIN sends[q] /\ Len(sends'[q]) = Len(sends[q])
      /\ sends'[r][k] = s
      /\ \A j \in DOMAIN sends[r] : j # k => sends'[r][j] = sends[r][j]
      /\ \A q \in Requests : q # r => sends'[q] = sends[q]
  BY SendChanges
<1>2. SendsStay(r)
  <2>1. ASSUME NEW j \in DOMAIN sends[r]
        PROVE  /\ sends'[r][j].pieces = sends[r][j].pieces
               /\ sends'[r][j].st = "sent" => sends[r][j].st = "sent"
               /\ sends'[r][j].st # "unsent" => sends[r][j].st # "unsent"
    <3>1. CASE j = k
      BY <1>1, <3>1
    <3>2. CASE j # k
      BY <1>1, <3>2
    <3> QED  BY <3>1, <3>2
  <2> QED  BY <1>1, <2>1 DEF SendsStay
<1>3. \A q \in Requests : q # r => SendsStay(q)
  BY <1>1 DEF SendsStay
<1>4. s.st = sends[r][k].st => \A q \in Requests : \A j \in DOMAIN sends[q] : sends'[q][j].st = sends[q][j].st
  BY <1>1
<1> QED  BY <1>1, <1>2, <1>3, <1>4

\* The provider answers: the invocation goes on, and only the fate of the send changes.
LEMMA AnswersKeeps ==
    ASSUME RemovalIInv, NEW r \in Requests, NEW answer \in {"hash", "lost", "refused", "notfound", "unsent"},
           NEW fate \in {"none", "held"}, Answers(r, answer, fate),
           left' \in [faults : Nat, crashes : Nat, retries : Nat]
    PROVE  RemovalIInv'
<1>1. TypeOK /\ Sealing /\ RemovedIsGone /\ \A q \in Requests : Covered(q) /\ Viewed(q)
  BY DEF RemovalIInv
<1>2. At(r, "call") /\ UNCHANGED <<cleanup, copy, req, task, world>>
  BY DEF Answers
<1>3. /\ invocation[r] \in RemovalInvocation /\ sends[r] \in Seq(Send) /\ Running(r) /\ invocation[r].pc = "call"
  BY <1>2, AtFinds
<1> DEFINE n == Len(sends[r])
           s == [sends[r][n] EXCEPT !.fate = fate]
<1>4. n > 0 /\ n \in DOMAIN sends[r] /\ sends[r][n] \in Send /\ sends[r][n].st = "sent"
  <2>1. n > 0 /\ sends[r][n].st = "sent"
    BY <1>1, <1>3 DEF Viewed
  <2>2. n \in DOMAIN sends[r]
    BY <1>3, <2>1
  <2> QED  BY <1>3, <2>1, <2>2
<1>5. s \in Send /\ s.pieces = sends[r][n].pieces /\ s.st = sends[r][n].st
  BY <1>4 DEF Send
<1>6. sends' = [sends EXCEPT ![r] = [sends[r] EXCEPT ![n] = s]]
  BY <1>1, <1>3, <1>4 DEF Answers, TypeOK
<1> HIDE DEF s, n
<1>7. /\ sends' \in [Requests -> Seq(Send)] /\ \A q \in Requests : SendsStay(q)
      /\ \A q \in Requests : \A j \in DOMAIN sends[q] : sends'[q][j].st = sends[q][j].st
  BY <1>1, <1>4, <1>5, <1>6, EvidenceStays
<1>8. /\ invocation' \in [Requests -> RemovalInvocation] /\ invocation'[r].pc = "answered"
      /\ \A q \in Requests : q # r => invocation'[q] = invocation[q]
  <2> DEFINE x == [invocation[r] EXCEPT !.pc = "answered", !.answer = answer]
  <2>1. x \in RemovalInvocation /\ x.pc = "answered"
    BY <1>3 DEF RemovalInvocation
  <2>2. invocation' = [invocation EXCEPT ![r] = x] /\ invocation \in [Requests -> RemovalInvocation]
    BY <1>1 DEF Answers, TypeOK
  <2> HIDE DEF x
  <2> QED  BY <2>1, <2>2
<1>9. TypeOK'
  BY <1>1, <1>2, <1>7, <1>8 DEF TypeOK, world
<1>10. WorldMoves /\ MembersLeave /\ MembersHeld
  BY <1>2, WorldStays, CopiesStay DEF world
<1>11. RequestsGo
  BY <1>1, <1>2 DEF RequestsGo, Sealing, Running
<1>12. \A q \in Requests : q # r => NoneSends(q)
  BY <1>2, <1>7, <1>8 DEF NoneSends, Running
<1>13. Viewed(r)'
  <2>1. Len(sends'[r]) = n /\ sends'[r][n].st = "sent"
    BY <1>4, <1>7 DEF SendsStay, n
  <2> QED  BY <1>4, <1>8, <2>1 DEF Viewed
<1>14. \A q \in Requests : Covered(q)' /\ Viewed(q)'
  BY <1>1, <1>7, <1>10, <1>12, <1>13, CoveredStays, ViewedStays
<1>15. RemovedIsGone'
  BY <1>1, <1>2 DEF RemovedIsGone, world
<1> QED  BY <1>1, <1>7, <1>9, <1>10, <1>11, <1>14, <1>15, SealingStays DEF RemovalIInv

\* The provider is called; the call or its answer may be lost, or it never leaves.
LEMMA CallKeeps == ASSUME RemovalIInv, NEW r \in Requests, Call(r) \/ CallFails(r) PROVE RemovalIInv'
<1>1. TypeOK
  BY DEF RemovalIInv
<1>2. CASE Call(r)
  BY <1>1, <1>2, AnswersKeeps DEF Call, TypeOK
<1>3. CASE CallFails(r)
  <2>1. left' \in [faults : Nat, crashes : Nat, retries : Nat]
    BY <1>1, <1>3, SpendTyped DEF CallFails
  <2> QED  BY <1>3, <2>1, AnswersKeeps DEF CallFails
<1> QED  BY <1>2, <1>3

\* The evidence of the last send of a running invocation, which then ends or goes to
\* the lookup.
LEMMA EvidenceKeeps ==
    ASSUME RemovalIInv, NEW r \in Requests, At(r, "answered"), UNCHANGED <<cleanup, copy, world, left>>,
           sends' \in [Requests -> Seq(Send)], \A q \in Requests : SendsStay(q),
           \A q \in Requests : q # r => sends'[q] = sends[q],
           req' \in [Requests -> Request], req'[r] \in {req[r], "ready"},
           \A q \in Requests : q # r => req'[q] = req[q],
           task' \in [Requests -> Task], task'[r].status # "none", \A q \in Requests : q # r => task'[q] = task[q],
           invocation' \in [Requests -> RemovalInvocation], invocation'[r].pc \in {"idle", "lookup"},
           \A q \in Requests : q # r => invocation'[q] = invocation[q]
    PROVE  RemovalIInv'
<1>1. TypeOK /\ Sealing
  BY DEF RemovalIInv
<1>2. req[r] \in {"ready", "submitted"}
  BY AtFinds
<1>3. TypeOK'
  BY <1>1 DEF TypeOK, world
<1>4. WorldMoves /\ MembersLeave /\ MembersHeld
  BY WorldStays, CopiesStay DEF world
<1>5. RequestsGo
  BY <1>1, <1>2 DEF RequestsGo, Sealing, Running
<1>6. \A q \in Requests : NoneSends(q)
  BY Zenon DEF NoneSends, Running
<1> QED  BY <1>3, <1>4, <1>5, <1>6, FrameKeeps

\* The provider will not use the last send, as far as its answer says.
LEMMA RetractsStays ==
    ASSUME TypeOK, NEW r \in Requests, Len(sends[r]) \in DOMAIN sends[r],
           sends[r][Len(sends[r])].st = "sent", NEW st \in {"refused", "unsent"}, Retracts(r, st)
    PROVE  /\ sends' \in [Requests -> Seq(Send)] /\ \A q \in Requests : SendsStay(q)
           /\ \A q \in Requests : q # r => sends'[q] = sends[q]
           /\ req' \in [Requests -> Request] /\ req'[r] \in {req[r], "ready"}
           /\ \A q \in Requests : q # r => req'[q] = req[q]
<1> DEFINE n == Len(sends[r])
           s == [sends[r][n] EXCEPT !.st = st]
<1>1. sends[r] \in Seq(Send) /\ sends[r][n] \in Send
  BY DEF TypeOK
<1>2. s \in Send /\ s.pieces = sends[r][n].pieces /\ s.st = st
  BY <1>1 DEF Send
<1>3. sends' = [sends EXCEPT ![r] = [sends[r] EXCEPT ![n] = s]]
  BY <1>1 DEF Retracts, TypeOK
<1>4. req' = req \/ req' = [req EXCEPT ![r] = "ready"]
  BY DEF Retracts
<1>5. req \in [Requests -> Request] /\ "ready" \in Request
  BY DEF TypeOK, Request
<1> HIDE DEF s
<1>6. sends' \in [Requests -> Seq(Send)] /\ (\A q \in Requests : SendsStay(q)) /\ \A q \in Requests : q # r => sends'[q] = sends[q]
  BY <1>2, <1>3, EvidenceStays
<1>7. req' \in [Requests -> Request] /\ req'[r] \in {req[r], "ready"} /\ \A q \in Requests : q # r => req'[q] = req[q]
  BY <1>4, <1>5
<1> QED  BY <1>6, <1>7

\* An answer is recorded (sendEvidence).
LEMMA RecordKeeps == ASSUME RemovalIInv, NEW r \in Requests, Record(r) PROVE RemovalIInv'
<1>1. TypeOK /\ Viewed(r) /\ At(r, "answered") /\ UNCHANGED <<cleanup, copy, world, left>>
  BY DEF RemovalIInv, Record
<1>2. /\ task[r] \in Task /\ invocation[r] \in RemovalInvocation /\ req[r] # "none" /\ sends[r] \in Seq(Send)
      /\ Running(r) /\ invocation[r].pc = "answered"
  BY <1>1, AtFinds
<1> DEFINE n == Len(sends[r])
<1>3. n > 0 /\ sends[r][n].st = "sent"
  BY <1>1, <1>2 DEF Viewed
<1>4. n \in DOMAIN sends[r]
  BY <1>2, <1>3, SMTT(30)
<1>5. /\ RemovalWaits(r, "recover") \in Task /\ RemovalWaits(r, "recover").status = "pending"
      /\ RetrySend(r, task[r]) \in Task /\ RetrySend(r, task[r]).status \in {"pending", "failed"}
  BY <1>2, TasksTyped DEF RemovalWaits
<1>6. \A t \in Task : t.status \in {"pending", "failed"} /\ End(r, t) =>
         /\ task' \in [Requests -> Task] /\ task'[r].status # "none" /\ \A q \in Requests : q # r => task'[q] = task[q]
         /\ invocation' \in [Requests -> RemovalInvocation] /\ invocation'[r].pc \in {"idle", "lookup"}
         /\ \A q \in Requests : q # r => invocation'[q] = invocation[q]
  <2> SUFFICES ASSUME NEW t \in Task, t.status \in {"pending", "failed"}, End(r, t)
               PROVE  /\ task' \in [Requests -> Task] /\ task'[r].status # "none"
                      /\ \A q \in Requests : q # r => task'[q] = task[q]
                      /\ invocation' \in [Requests -> RemovalInvocation] /\ invocation'[r].pc \in {"idle", "lookup"}
                      /\ \A q \in Requests : q # r => invocation'[q] = invocation[q]
    OBVIOUS
  <2>1. task' \in [Requests -> Task] /\ task'[r] = t /\ \A q \in Requests : q # r => task'[q] = task[q]
    BY <1>1 DEF End, TypeOK
  <2>2. Idle \in RemovalInvocation /\ Idle.pc = "idle"
    BY FreshTyped
  <2>3. invocation \in [Requests -> RemovalInvocation] /\ invocation' = [invocation EXCEPT ![r] = Idle]
    BY <1>1 DEF End, TypeOK
  <2>4. invocation' \in [Requests -> RemovalInvocation] /\ invocation'[r] = Idle
        /\ \A q \in Requests : q # r => invocation'[q] = invocation[q]
    BY <2>2, <2>3
  <2> QED  BY <2>1, <2>2, <2>4
<1>7. req \in [Requests -> Request] /\ sends \in [Requests -> Seq(Send)]
  BY <1>1 DEF TypeOK
<1>8. CASE /\ sends' = [sends EXCEPT ![r][Len(sends[r])].hash = TRUE] /\ Observes(r) /\ UNCHANGED req
  <2> DEFINE s == [sends[r][n] EXCEPT !.hash = TRUE]
  <2>1. sends[r][n] \in Send
    BY <1>2, <1>4
  <2>2. s \in Send /\ s.pieces = sends[r][n].pieces /\ s.st = sends[r][n].st
    BY <2>1 DEF Send
  <2>3. sends' = [sends EXCEPT ![r] = [sends[r] EXCEPT ![n] = s]]
    BY <1>2, <1>4, <1>7, <1>8
  <2> HIDE DEF s, n
  <2>4. sends' \in [Requests -> Seq(Send)] /\ (\A q \in Requests : SendsStay(q)) /\ \A q \in Requests : q # r => sends'[q] = sends[q]
    BY <1>1, <1>4, <2>2, <2>3, EvidenceStays
  <2> QED  BY <1>1, <1>5, <1>6, <1>7, <1>8, <2>4, EvidenceKeeps DEF Observes
<1>9. CASE Observes(r) /\ UNCHANGED <<sends, req>>
  BY <1>1, <1>5, <1>6, <1>7, <1>9, SentStays, EvidenceKeeps DEF Observes
<1>10. CASE Retracts(r, "refused") /\ task' = [task EXCEPT ![r].lookup = TRUE] /\ Goes(r, "lookup")
  <2> DEFINE t == [task[r] EXCEPT !.lookup = TRUE]
             x == [invocation[r] EXCEPT !.pc = "lookup"]
  <2>1. t \in Task /\ t.status = "running" /\ x \in RemovalInvocation /\ x.pc = "lookup"
    BY <1>2 DEF Task, RemovalInvocation, Running
  <2>2. /\ task \in [Requests -> Task] /\ task' = [task EXCEPT ![r] = t]
        /\ invocation \in [Requests -> RemovalInvocation] /\ invocation' = [invocation EXCEPT ![r] = x]
    BY <1>1, <1>10 DEF TypeOK, Goes
  <2> HIDE DEF t, x
  <2>3. task' \in [Requests -> Task] /\ task'[r].status # "none" /\ \A q \in Requests : q # r => task'[q] = task[q]
    BY <2>1, <2>2
  <2>4. /\ invocation' \in [Requests -> RemovalInvocation] /\ invocation'[r].pc = "lookup"
        /\ \A q \in Requests : q # r => invocation'[q] = invocation[q]
    BY <2>1, <2>2
  <2>5. /\ sends' \in [Requests -> Seq(Send)] /\ \A q \in Requests : SendsStay(q)
        /\ \A q \in Requests : q # r => sends'[q] = sends[q]
        /\ req' \in [Requests -> Request] /\ req'[r] \in {req[r], "ready"}
        /\ \A q \in Requests : q # r => req'[q] = req[q]
    BY <1>1, <1>3, <1>4, <1>10, RetractsStays
  <2> QED  BY <1>1, <2>3, <2>4, <2>5, EvidenceKeeps, Zenon
<1>11. ASSUME NEW st \in {"refused", "unsent"}, Retracts(r, st), End(r, RetrySend(r, task[r]))
       PROVE  RemovalIInv'
  <2>1. /\ sends' \in [Requests -> Seq(Send)] /\ \A q \in Requests : SendsStay(q)
        /\ \A q \in Requests : q # r => sends'[q] = sends[q]
        /\ req' \in [Requests -> Request] /\ req'[r] \in {req[r], "ready"}
        /\ \A q \in Requests : q # r => req'[q] = req[q]
    BY <1>1, <1>3, <1>4, <1>11, RetractsStays
  <2> QED  BY <1>1, <1>5, <1>6, <1>11, <2>1, EvidenceKeeps
<1> QED  BY <1>8, <1>9, <1>10, <1>11 DEF Record

\* The lookup after a refusal: some members fail, or half of them leave the batch.
LEMMA LookupKeeps == ASSUME RemovalIInv, NEW r \in Requests, Lookup(r) PROVE RemovalIInv'
<1>1. TypeOK /\ At(r, "lookup") /\ UNCHANGED <<cleanup, sends, world, left>>
  BY DEF RemovalIInv, Lookup
<1>2. task[r] \in Task /\ req[r] \in {"ready", "submitted"} /\ left \in [faults : Nat, crashes : Nat, retries : Nat]
  BY <1>1, AtFinds DEF TypeOK
<1> DEFINE u == [task[r] EXCEPT !.lookup = FALSE]
           t == RetrySend(r, u)
<1>3. t \in Task /\ t.status \in {"pending", "failed"}
  <2>1. u \in Task
    BY <1>2, TasksTyped
  <2> HIDE DEF u
  <2> QED  BY <2>1, TasksTyped
<1>4. Selected(r) \subseteq Members(r) /\ \A c \in Selected(r) : copy[c].status # "removed"
  BY DEF Selected, Present
<1>5. SecondHalf(Selected(r)) \subseteq Selected(r)
  BY DEF SecondHalf
<1> HIDE DEF t
<1>6. ASSUME NEW cs \in SUBSET Selected(r), NEW status \in {"", "failed"}, Accepted(r) = 0,
             ChangeMembers(r, cs, status, TRUE), End(r, t)
      PROVE  RemovalIInv'
  <2>1. cs \in SUBSET Members(r) /\ \A c \in cs : copy[c].status # "removed"
    BY <1>4
  <2> QED  BY <1>1, <1>2, <1>3, <1>6, <2>1, MembersChange
<1>7. CASE End(r, t) /\ UNCHANGED <<copy, req>>
  BY <1>1, <1>2, <1>3, <1>7, QuietEndKeeps
<1>8. \/ Accepted(r) = 0 /\ ChangeMembers(r, Selected(r) \ start.known, "failed", TRUE) /\ End(r, t)
      \/ Accepted(r) = 0 /\ ChangeMembers(r, SecondHalf(Selected(r)), "", TRUE) /\ End(r, t)
      \/ End(r, t) /\ UNCHANGED <<copy, req>>
  BY DEF Lookup, t, u
<1>9. Selected(r) \ start.known \in SUBSET Selected(r) /\ SecondHalf(Selected(r)) \in SUBSET Selected(r)
  BY <1>5
<1> QED  BY <1>6, <1>7, <1>8, <1>9

-----------------------------------------------------------------------------
(* The chain and the other versions.                                       *)

\* The world moves and the rows stay; what became of a signature may be decided.
LEMMA WorldKeeps ==
    ASSUME RemovalIInv, WorldMoves, UNCHANGED <<cleanup, copy, req, task, invocation, start>>,
           sends' \in [Requests -> Seq(Send)], \A q \in Requests : SendsStay(q),
           \A q \in Requests : \A j \in DOMAIN sends[q] : sends'[q][j].st = sends[q][j].st,
           shared' \subseteq Contents,
           chain' \in [piece : [Contents -> {"present", "scheduled", "removed"}], ended : BOOLEAN],
           left' \in [faults : Nat, crashes : Nat, retries : Nat]
    PROVE  RemovalIInv'
<1>1. TypeOK /\ Sealing
  BY DEF RemovalIInv
<1>2. TypeOK'
  BY <1>1 DEF TypeOK
<1>3. MembersLeave /\ MembersHeld
  BY CopiesStay
<1>4. RequestsGo /\ \A q \in Requests : NoneSends(q)
  BY <1>1 DEF RequestsGo, Sealing, NoneSends, Running
<1> QED  BY <1>2, <1>3, <1>4, FrameKeeps

\* A step that changes nothing of the sends.
LEMMA SendsSame ==
    ASSUME TypeOK, UNCHANGED sends
    PROVE  /\ sends' \in [Requests -> Seq(Send)] /\ \A q \in Requests : SendsStay(q)
           /\ \A q \in Requests : \A j \in DOMAIN sends[q] : sends'[q][j].st = sends[q][j].st
BY SentStays DEF TypeOK

\* A transaction succeeds or fails (Lands, TransactionFails).
LEMMA FateDecided ==
    ASSUME TypeOK, NEW r \in Requests, NEW k \in DOMAIN sends[r], NEW fate \in {"ok", "failed"},
           sends' = [sends EXCEPT ![r][k].fate = fate]
    PROVE  /\ sends' \in [Requests -> Seq(Send)] /\ \A q \in Requests : SendsStay(q)
           /\ \A q \in Requests : \A j \in DOMAIN sends[q] : sends'[q][j].st = sends[q][j].st
           /\ sends[r][k].pieces \subseteq Contents
<1> DEFINE s == [sends[r][k] EXCEPT !.fate = fate]
<1>1. sends[r] \in Seq(Send) /\ sends[r][k] \in Send
  BY DEF TypeOK
<1>2. s \in Send /\ s.pieces = sends[r][k].pieces /\ s.st = sends[r][k].st /\ sends[r][k].pieces \subseteq Contents
  BY <1>1 DEF Send
<1>3. sends' = [sends EXCEPT ![r] = [sends[r] EXCEPT ![k] = s]]
  BY <1>1 DEF TypeOK
<1> HIDE DEF s
<1>4. s.st = "sent" => sends[r][k].st = "sent"
  BY <1>2
<1>5. s.st # "unsent" => sends[r][k].st # "unsent"
  BY <1>2
<1>6. /\ sends' \in [Requests -> Seq(Send)] /\ \A q \in Requests : SendsStay(q)
      /\ s.st = sends[r][k].st => \A q \in Requests : \A j \in DOMAIN sends[q] : sends'[q][j].st = sends[q][j].st
  BY ONLY TypeOK, <1>2, <1>3, <1>4, <1>5, EvidenceStays
<1>7. \A q \in Requests : \A j \in DOMAIN sends[q] : sends'[q][j].st = sends[q][j].st
  BY <1>2, <1>6
<1> QED  BY <1>2, <1>6, <1>7

\* A deletion transaction is mined.
LEMMA LandsKeeps ==
    ASSUME RemovalIInv, NEW r \in Requests, NEW k \in DOMAIN sends[r], Lands(r, k) \/ TransactionFails(r, k)
    PROVE  RemovalIInv'
<1>1. TypeOK
  BY DEF RemovalIInv
<1>2. CASE TransactionFails(r, k)
  <2>1. left' \in [faults : Nat, crashes : Nat, retries : Nat]
    BY <1>1, <1>2, SpendTyped DEF TransactionFails
  <2>2. WorldMoves
    BY <1>2, WorldStays DEF TransactionFails, world
  <2>3. /\ sends' \in [Requests -> Seq(Send)] /\ \A q \in Requests : SendsStay(q)
        /\ \A q \in Requests : \A j \in DOMAIN sends[q] : sends'[q][j].st = sends[q][j].st
    BY <1>1, <1>2, FateDecided DEF TransactionFails
  <2>4. shared' \subseteq Contents /\ chain' \in [piece : [Contents -> {"present", "scheduled", "removed"}], ended : BOOLEAN]
    BY <1>1, <1>2 DEF TypeOK, TransactionFails, world
  <2>5. UNCHANGED <<cleanup, copy, req, task, invocation, start>>
    BY <1>2 DEF TransactionFails, world
  <2> QED  BY <2>1, <2>2, <2>3, <2>4, <2>5, WorldKeeps
<1>3. CASE Lands(r, k)
  <2>1. UNCHANGED <<cleanup, copy, req, task, invocation, shared, start, left>>
    BY <1>3 DEF Lands
  <2>2. \E fate \in {"ok", "failed"} : sends' = [sends EXCEPT ![r][k].fate = fate]
    BY <1>3 DEF Lands
  <2>3. /\ sends' \in [Requests -> Seq(Send)] /\ \A q \in Requests : SendsStay(q)
        /\ \A q \in Requests : \A j \in DOMAIN sends[q] : sends'[q][j].st = sends[q][j].st
        /\ sends[r][k].pieces \subseteq Contents
    BY <1>1, <2>2, FateDecided
  <2> DEFINE new == [c \in Contents |-> IF c \in sends[r][k].pieces THEN "scheduled" ELSE chain.piece[c]]
  <2>4. \/ chain' = chain
        \/ /\ \A c \in sends[r][k].pieces : chain.piece[c] = "present"
           /\ chain' = [chain EXCEPT !.piece = new]
    BY <1>1, <1>3 DEF Lands, TypeOK
  <2>5. WorldMoves /\ chain' \in [piece : [Contents -> {"present", "scheduled", "removed"}], ended : BOOLEAN]
    <3>1. CASE chain' = chain
      BY <1>1, <2>1, <3>1, WorldStays DEF TypeOK
    <3>2. CASE (\A c \in sends[r][k].pieces : chain.piece[c] = "present") /\ chain' = [chain EXCEPT !.piece = new]
      <4>1. new \in [Contents -> {"present", "scheduled", "removed"}]
        BY <1>1 DEF TypeOK
      <4>2. chain'.piece = new /\ chain' \in [piece : [Contents -> {"present", "scheduled", "removed"}], ended : BOOLEAN]
        BY <1>1, <3>2, <4>1 DEF TypeOK
      <4>3. \A c \in Contents : chain'.piece[c] = IF c \in sends[r][k].pieces THEN "scheduled" ELSE chain.piece[c]
        BY <4>2
      <4> QED  BY <2>1, <3>2, <4>2, <4>3 DEF WorldMoves
    <3> QED  BY <2>4, <3>1, <3>2
  <2> QED  BY <1>1, <2>1, <2>3, <2>5, WorldKeeps DEF TypeOK
<1> QED  BY <1>2, <1>3

\* Pieces are removed, the service ends, or a reference ends.
LEMMA ChainMovesKeeps ==
    ASSUME RemovalIInv, ProvingPeriod \/ ServiceEnds \/ DataSetGone \/ \E c \in Contents : ReferenceEnds(c)
    PROVE  RemovalIInv'
<1>1. TypeOK /\ chain.piece \in [Contents -> {"present", "scheduled", "removed"}] /\ chain.ended \in BOOLEAN
  BY DEF RemovalIInv, TypeOK
<1>2. UNCHANGED <<cleanup, copy, req, sends, task, invocation, start>>
  BY DEF ProvingPeriod, ServiceEnds, DataSetGone, ReferenceEnds
<1>3. /\ sends' \in [Requests -> Seq(Send)] /\ \A q \in Requests : SendsStay(q)
      /\ \A q \in Requests : \A j \in DOMAIN sends[q] : sends'[q][j].st = sends[q][j].st
  BY <1>1, <1>2, SendsSame
<1>4. left' \in [faults : Nat, crashes : Nat, retries : Nat]
  BY <1>1, SpendTyped DEF ProvingPeriod, ServiceEnds, DataSetGone, ReferenceEnds, TypeOK
<1>5. shared' \subseteq shared /\ shared' \subseteq Contents
  BY <1>1 DEF ProvingPeriod, ServiceEnds, DataSetGone, ReferenceEnds, TypeOK
<1>6. /\ chain' \in [piece : [Contents -> {"present", "scheduled", "removed"}], ended : BOOLEAN]
      /\ \A c \in Contents : /\ chain.piece[c] = "removed" => chain'.piece[c] = "removed"
                             /\ chain'.piece[c] = "present" => chain.piece[c] = "present"
  <2>1. CASE ProvingPeriod
    <3> DEFINE new == [c \in Contents |-> IF chain.piece[c] = "scheduled" THEN "removed" ELSE chain.piece[c]]
    <3>1. new \in [Contents -> {"present", "scheduled", "removed"}]
      BY <1>1
    <3>2. chain' = [chain EXCEPT !.piece = new]
      BY <1>1, <2>1 DEF ProvingPeriod, TypeOK
    <3>3. chain'.piece = new /\ chain' \in [piece : [Contents -> {"present", "scheduled", "removed"}], ended : BOOLEAN]
      BY <1>1, <3>1, <3>2 DEF TypeOK
    <3> QED  BY <3>3
  <2>2. CASE ServiceEnds
    BY <1>1, <2>2 DEF ServiceEnds, TypeOK
  <2>3. CASE DataSetGone
    <3> DEFINE new == [c \in Contents |-> "removed"]
    <3>1. new \in [Contents -> {"present", "scheduled", "removed"}] /\ chain' = [chain EXCEPT !.piece = new]
      BY <2>3 DEF DataSetGone
    <3>2. chain'.piece = new /\ chain' \in [piece : [Contents -> {"present", "scheduled", "removed"}], ended : BOOLEAN]
      BY <1>1, <3>1 DEF TypeOK
    <3> QED  BY <3>2
  <2>4. CASE \E c \in Contents : ReferenceEnds(c)
    BY <1>1, <2>4 DEF ReferenceEnds, TypeOK
  <2> QED  BY <2>1, <2>2, <2>3, <2>4
<1>7. WorldMoves
  BY <1>5, <1>6 DEF WorldMoves
<1> QED  BY <1>2, <1>3, <1>4, <1>5, <1>6, <1>7, WorldKeeps

-----------------------------------------------------------------------------
(* The inductive invariant and what it shows.                              *)

\* It holds at first: nothing is removed but what is not there.
LEMMA RemovalStarts == ASSUME Init PROVE RemovalIInv
<1>1. /\ start \in Starts /\ start.contents \subseteq Contents /\ start.old \subseteq start.contents
      /\ start.shared \subseteq start.contents /\ start.left \in [faults : Nat, crashes : Nat, retries : Nat]
  BY RemovalAssumption DEF Init
<1>2. Fresh \in Task /\ Idle \in RemovalInvocation
  BY FreshTyped
<1> DEFINE none == [Fresh EXCEPT !.status = "none"]
<1>3. none \in Task /\ none.status = "none"
  BY <1>2 DEF Task
<1>4. task = [r \in Requests |-> none]
  BY DEF Init
<1> HIDE DEF none
<1>5. task \in [Requests -> Task] /\ \A r \in Requests : task[r].status = "none"
  BY <1>3, <1>4
<1>6. /\ cleanup \in [Contents -> {"pending", "failed", "finalized", "done"}] /\ shared \subseteq Contents
      /\ \A c \in Contents : cleanup[c] = IF c \in start.contents THEN "pending" ELSE "done"
  BY <1>1 DEF Init
<1>7. /\ copy \in [Contents -> Copy]
      /\ \A c \in Contents : copy[c].req = 0 /\ copy[c].status = IF c \in start.contents THEN "pending" ELSE "removed"
  BY <1>1 DEF Init, Copy
<1>8. /\ req \in [Requests -> Request] /\ \A r \in Requests : req[r] = "none"
  BY DEF Init, Request
<1>9. sends \in [Requests -> Seq(Send)] /\ \A r \in Requests : sends[r] = <<>>
  BY DEF Init
<1>10. invocation \in [Requests -> RemovalInvocation]
  BY <1>2 DEF Init
<1>11. PICK done \in SUBSET start.old :
          chain = [piece |-> [c \in Contents |-> IF c \in done THEN "scheduled"
                                                ELSE IF c \in start.contents THEN "present" ELSE "removed"],
                   ended |-> FALSE]
  BY DEF Init
<1>12. /\ chain \in [piece : [Contents -> {"present", "scheduled", "removed"}], ended : BOOLEAN]
       /\ \A c \in Contents : c \notin start.contents => chain.piece[c] = "removed"
  BY <1>1, <1>11
<1>13. TypeOK
  BY <1>1, <1>5, <1>6, <1>7, <1>8, <1>9, <1>10, <1>12 DEF TypeOK, Init
<1>14. RemovedIsGone
  BY <1>1, <1>6, <1>7, <1>12 DEF RemovedIsGone, Init
<1>15. Sealing
  BY <1>5, <1>7, <1>8, <1>9, RemovalAssumption DEF Sealing
<1>16. \A r \in Requests : Covered(r) /\ Viewed(r)
  BY <1>5, <1>9 DEF Covered, Viewed, Running
<1> QED  BY <1>13, <1>14, <1>15, <1>16 DEF RemovalIInv

\* Every step keeps it.
LEMMA RemovalStep == RemovalIInv /\ [Next]_vars => RemovalIInv'
<1> SUFFICES ASSUME RemovalIInv, [Next]_vars PROVE RemovalIInv'
  OBVIOUS
<1>1. CASE UNCHANGED vars
  <2>1. TypeOK'
    BY <1>1 DEF vars, RemovalIInv, TypeOK
  <2>2. RemovedIsGone' /\ Sealing'
    BY <1>1 DEF vars, RemovalIInv, RemovedIsGone, Sealing
  <2>3. \A r \in Requests : Covered(r)'
    BY <1>1, SMTT(30) DEF vars, RemovalIInv, Covered
  <2>4. \A r \in Requests : Viewed(r)'
    BY <1>1 DEF vars, RemovalIInv, Viewed, Running
  <2> QED  BY <2>1, <2>2, <2>3, <2>4 DEF RemovalIInv
<1>2. ASSUME NEW c \in Contents, Cleanup(c) \/ RetryCleanup(c) \/ ReferenceEnds(c) PROVE RemovalIInv'
  BY <1>2, CleanupJoinsKeeps, CleanupAdoptsKeeps, CleanupEndsKeep, FinalizesKeeps, RetryCleanupKeeps, ChainMovesKeeps
     DEF Cleanup
<1>3. ASSUME NEW r \in Requests, Removal(r) \/ RetryRemoval(r) PROVE RemovalIInv'
  <2>1. CASE Ends(r) \/ RetryRemoval(r) \/ Seal(r)
    BY <2>1, EndsKeeps, SealKeeps
  <2>2. CASE MarkRemoved(r) \/ Queued(r) \/ AllQueued(r) \/ ResumeLookup(r) \/ CheckReceipt(r) \/ Stops(r)
    BY <2>2, MarkRemovedKeeps, QueuedKeeps, AllQueuedKeeps, ResumeLookupKeeps, CheckReceiptKeeps, StopsKeeps
  <2>3. CASE Preflight(r) \/ AdmitRemovalSend(r) \/ NoRoom(r) \/ Call(r) \/ CallFails(r) \/ Record(r)
    BY <2>3, PreflightKeeps, AdmitSendKeeps, NoRoomKeeps, CallKeeps, RecordKeeps
  <2>4. CASE Lookup(r) \/ ReadFails(r)
    BY <2>4, LookupKeeps, ReadFailsKeeps
  <2> QED  BY <1>3, <2>1, <2>2, <2>3, <2>4 DEF Removal, Handler
<1>4. ASSUME NEW r \in Requests, NEW k \in DOMAIN sends[r], Lands(r, k) \/ TransactionFails(r, k) PROVE RemovalIInv'
  BY <1>4, LandsKeeps
<1>5. CASE RemovalCrash
  BY <1>5, CrashKeeps
<1>6. CASE ProvingPeriod \/ ServiceEnds \/ DataSetGone
  BY <1>6, ChainMovesKeeps
<1> QED  BY <1>1, <1>2, <1>3, <1>4, <1>5, <1>6 DEF Next

\* The inductive invariant of removal, for any number of contents and requests.
THEOREM RemovalInductive == Spec => []RemovalIInv
<1>1. Init => RemovalIInv
  BY RemovalStarts
<1>2. RemovalIInv /\ [Next]_vars => RemovalIInv'
  BY RemovalStep
<1> QED  BY <1>1, <1>2, PTL DEF Spec

\* No piece a version needs is signed away, and rows go only after their piece.
THEOREM UnneededOnly == Spec => []OnlyUnneeded
<1>1. RemovalIInv => OnlyUnneeded
  BY DEF RemovalIInv, OnlyUnneeded, RemovedIsGone, Covered
<1> QED  BY <1>1, RemovalInductive, PTL

\* Every signature that may still be used is watched over by its own request.
THEOREM Watched == Spec => []SignaturesWatched
<1>1. ASSUME RemovalIInv PROVE SignaturesWatched
  <2>1. ASSUME NEW r \in Requests, NEW k \in DOMAIN sends[r]
        PROVE  /\ sends[r][k].st = "sent" => sends[r][k].pieces \subseteq Members(r)
               /\ \A j \in 1..(k - 1) : sends[r][j].st # "unsent" => sends[r][k].pieces \subseteq sends[r][j].pieces
    <3>1. Covered(r) /\ TypeOK
      BY <1>1 DEF RemovalIInv
    <3>2. sends[r][k] \in Send
      BY <3>1 DEF TypeOK
    <3>3. sends[r][k].pieces \subseteq Contents
      BY <3>2 DEF Send
    <3> QED  BY <3>1, <3>3 DEF Covered, Members
  <2>2. ASSUME NEW r \in Requests, At(r, "send"), Exposed(r) # 0
        PROVE  Selected(r) \subseteq sends[r][Exposed(r)].pieces
    <3>1. Viewed(r) /\ Running(r) /\ invocation[r].pc = "send"
      BY <1>1, <2>2 DEF RemovalIInv, At, Running
    <3>2. Exposed(r) \in DOMAIN sends[r] /\ sends[r][Exposed(r)].st # "unsent"
      BY <1>1, <2>2, LatestFound DEF RemovalIInv
    <3> QED  BY <3>1, <3>2 DEF Viewed, Selected, Present, Members
  <2> QED  BY <2>1, <2>2 DEF SignaturesWatched
<1> QED  BY <1>1, RemovalInductive, PTL
=============================================================================
