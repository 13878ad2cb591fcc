---------------------------- MODULE QueueProofs -----------------------------
(***************************************************************************)
(* The queue of StorageRemoval, for every set of contents and requests and *)
(* every number of attempts, faults, crashes and operators' retries: the   *)
(* contract's queue of scheduled removals is never overcommitted.          *)
(*                                                                         *)
(* A request that is about to send has looked at the chain a while ago.    *)
(* The argument is that whatever was scheduled since is counted            *)
(* nevertheless: it is a member of the request itself, or signed by        *)
(* another request that is submitted or was queued after the look          *)
(* (Looked).  So Room counts every piece of Committed, and a send that     *)
(* passes leaves the queue with room for all of them.                      *)
(***************************************************************************)
EXTENDS RemovalProofs

\* What is known of the fate of a send, and what a request with a send that may be
\* accepted has become.
Told(r) ==
    /\ \A k \in DOMAIN sends[r] :
          /\ sends[r][k].reverted => sends[r][k].fate = "failed"
          /\ sends[r][k].st = "unsent" => sends[r][k].fate = "none"
          /\ sends[r][k].st = "sent" => req[r] \in {"submitted", "queued", "settled"}
    /\ /\ Running(r)
       /\ invocation[r].pc = "call" \/ (invocation[r].pc = "answered" /\ invocation[r].answer = "unsent")
       => sends[r][Len(sends[r])].fate = "none"

\* The members of a request that was queued have left the data set or are about to.
Waiting(r) ==
    ~chain.ended /\ req[r] \in {"queued", "settled"} =>
        \A c \in Contents : copy[c].req = r => chain.piece[c] # "present"

\* Piece c was scheduled by another request that Room(r) counts.
Expected(r, c) ==
    \E q \in Requests \ {r} : \E k \in DOMAIN sends[q] :
        /\ c \in sends[q][k].pieces /\ sends[q][k].st = "sent" /\ sends[q][k].fate = "ok"
        /\ req[q] = "submitted" \/ (req[q] = "queued" /\ q \in invocation[r].later)

\* What was scheduled after an invocation looked is accounted for.
Looked(r) ==
    Running(r) /\ invocation[r].pc = "send" =>
        \A c \in Contents :
            /\ invocation[r].seen[c] = "removed" => chain.piece[c] = "removed"
            /\ ~chain.ended /\ invocation[r].seen[c] = "present" /\ chain.piece[c] = "scheduled" =>
                  c \in Uncounted \/ copy[c].req = r \/ Expected(r, c)

\* The inductive layer over RemovalIInv.
QueueIInv ==
    /\ QueueBound
    /\ \A r \in Requests : Told(r) /\ Waiting(r) /\ Looked(r)

\* The service may end, references may; what is scheduled was.
ChainGoes ==
    /\ start' = start /\ (chain.ended => chain'.ended)
    /\ \A c \in Contents :
          /\ chain.piece[c] = "removed" => chain'.piece[c] = "removed"
          /\ chain'.piece[c] # "removed" => chain'.piece[c] = chain.piece[c]

\* No send is added, and what is known of one stays known.
SignedStay(q) ==
    /\ DOMAIN sends'[q] = DOMAIN sends[q]
    /\ \A k \in DOMAIN sends[q] :
          /\ sends'[q][k].pieces = sends[q][k].pieces
          /\ sends'[q][k].st = "sent" => sends[q][k].st = "sent"
          /\ sends[q][k].st = "refused" => sends'[q][k].st = "refused"
          /\ sends[q][k].fate \in {"ok", "failed"} => sends'[q][k].fate = sends[q][k].fate

\* An invocation about to send looks now, or knows what it knew.
Watching(r) ==
    Running(r)' /\ invocation'[r].pc = "send" =>
        \/ invocation'[r].seen = chain'.piece
        \/ /\ Running(r) /\ invocation[r].pc = "send" /\ invocation'[r].seen = invocation[r].seen
           /\ invocation[r].later \subseteq invocation'[r].later
           /\ \A c \in Contents : copy[c].req = r => copy'[c].req = r

\* A request with a send that may be accepted is counted until its pieces are gone.
Lasting(q) ==
    (\E k \in DOMAIN sends'[q] : sends'[q][k].st = "sent") =>
        /\ req[q] = "submitted" =>
              \/ req'[q] = "submitted"
              \/ /\ req'[q] = "queued"
                 /\ \A r \in Requests : Running(r)' /\ invocation'[r].pc = "send" /\ invocation'[r].seen # chain'.piece
                                        => q \in invocation'[r].later
        /\ req[q] = "queued" =>
              req'[q] = "queued" \/ \A c \in Contents : copy[c].req = q => chain.piece[c] = "removed"

\* The invocations that deal with a signature go on as they were, or end.
Undisturbed(q) ==
    Running(q)' /\ invocation'[q].pc \in {"send", "call", "answered"} =>
        Running(q) /\ invocation'[q] = invocation[q]

\* The pieces of a send are contents.
LEMMA SendTyped ==
    ASSUME TypeOK, NEW q \in Requests, NEW k \in DOMAIN sends[q]
    PROVE  /\ sends[q][k].pieces \subseteq Contents /\ sends[q][k].st \in {"sent", "refused", "unsent"}
           /\ sends[q][k].fate \in {"none", "held", "ok", "failed"}
<1>1. sends[q] \in Seq(Send)
  BY DEF TypeOK
<1>2. sends[q][k] \in Send
  BY <1>1
<1> QED  BY <1>2 DEF Send

\* The queue has a size, and what it holds can be counted.
LEMMA CommittedCounts ==
    ASSUME TypeOK
    PROVE  /\ IsFiniteSet(Committed) /\ Cardinality(Committed) \in Nat /\ start.queue \in Nat
           /\ \A S : S \subseteq Contents => IsFiniteSet(S) /\ Cardinality(S) \in Nat
<1>1. IsFiniteSet(Contents)
  BY RemovalAssumption
<1>2. \A S : S \subseteq Contents => IsFiniteSet(S) /\ Cardinality(S) \in Nat
  BY <1>1, FS_Subset, FS_CardinalityType
<1>3. Committed \subseteq Contents
  BY DEF Committed
<1>4. start.queue \in Nat
  BY RemovalAssumption DEF TypeOK
<1> QED  BY <1>2, <1>3, <1>4

\* The bound is kept when nothing new is committed.
LEMMA BoundStays ==
    ASSUME TypeOK, TypeOK', QueueBound, start' = start, chain.ended => chain'.ended, Committed' \subseteq Committed
    PROVE  QueueBound'
<1>1. IsFiniteSet(Committed) /\ Cardinality(Committed) \in Nat /\ start.queue \in Nat
  BY CommittedCounts
<1> DEFINE new == Committed'
<1>2. new \subseteq Committed
  OBVIOUS
<1> HIDE DEF new
<1>3. IsFiniteSet(new) /\ Cardinality(new) \in Nat /\ Cardinality(new) <= Cardinality(Committed)
  BY <1>1, <1>2, FS_Subset, FS_CardinalityType
<1>4. Cardinality(Committed)' = Cardinality(new)
  BY DEF new
<1>5. ~chain'.ended => Cardinality(new) <= start'.queue
  BY <1>1, <1>3 DEF QueueBound
<1> QED  BY <1>4, <1>5 DEF QueueBound

\* What nobody counted stays so, and nothing new is committed.
LEMMA CommittedStays ==
    ASSUME TypeOK, TypeOK', ChainGoes, \A q \in Requests : SignedStay(q), \A c \in Contents : copy'[c].old = copy[c].old
    PROVE  Uncounted \subseteq Uncounted' /\ Committed' \subseteq Committed
<1>1. ASSUME NEW c \in Uncounted PROVE c \in Uncounted'
  <2>1. CASE copy[c].old
    BY <1>1, <2>1 DEF Uncounted
  <2>2. CASE \E r \in Requests : \E k \in DOMAIN sends[r] : sends[r][k].st = "refused" /\ c \in sends[r][k].pieces
    <3>0. PICK r \in Requests : \E k \in DOMAIN sends[r] : sends[r][k].st = "refused" /\ c \in sends[r][k].pieces
      BY <2>2
    <3>1. PICK k \in DOMAIN sends[r] : sends[r][k].st = "refused" /\ c \in sends[r][k].pieces
      BY <3>0
    <3>2. k \in DOMAIN sends'[r] /\ sends'[r][k].st = "refused" /\ c \in sends'[r][k].pieces
      BY <3>1 DEF SignedStay
    <3> QED  BY <1>1, <3>2 DEF Uncounted
  <2> QED  BY <1>1, <2>1, <2>2 DEF Uncounted
<1>2. ASSUME NEW c \in Committed' PROVE c \in Committed
  <2>1. c \in Contents /\ c \notin Uncounted' /\ (chain'.piece[c] = "scheduled" \/ (chain'.piece[c] = "present" /\ c \in Coming'))
    BY <1>2 DEF Committed
  <2>2. c \notin Uncounted
    BY <1>1, <2>1
  <2>3. CASE chain'.piece[c] = "scheduled"
    BY <2>1, <2>2, <2>3 DEF ChainGoes, Committed
  <2>4. CASE chain'.piece[c] = "present" /\ c \in Coming'
    <3>0. PICK r \in Requests : \E k \in DOMAIN sends'[r] :
             sends'[r][k].st = "sent" /\ sends'[r][k].fate \in {"none", "held"} /\ c \in sends'[r][k].pieces
      BY <2>4 DEF Coming
    <3>1. PICK k \in DOMAIN sends'[r] :
             sends'[r][k].st = "sent" /\ sends'[r][k].fate \in {"none", "held"} /\ c \in sends'[r][k].pieces
      BY <3>0
    <3>2. k \in DOMAIN sends[r] /\ sends[r][k].st = "sent" /\ c \in sends[r][k].pieces
      BY <3>1 DEF SignedStay
    <3>3. sends[r][k].fate \in {"none", "held"}
      <4>1. sends[r][k].fate \in {"none", "held", "ok", "failed"}
        BY <3>2, SendTyped
      <4>2. sends[r][k].fate \in {"ok", "failed"} => sends'[r][k].fate = sends[r][k].fate
        BY <3>2 DEF SignedStay
      <4> QED  BY <3>1, <4>1, <4>2
    <3>4. c \in Coming
      BY <2>1, <3>2, <3>3 DEF Coming
    <3> QED  BY <2>1, <2>2, <2>4, <3>4 DEF ChainGoes, Committed
  <2> QED  BY <2>1, <2>3, <2>4
<1> QED  BY <1>1, <1>2

\* What was scheduled since an invocation looked stays accounted for.
LEMMA LookedStays ==
    ASSUME RemovalIInv, ChainGoes, NEW r \in Requests, Looked(r), Watching(r), Uncounted \subseteq Uncounted',
           \A q \in Requests : Told(q)' /\ Lasting(q),
           \A q \in Requests : \A k \in DOMAIN sends[q] : sends[q][k].st = "sent" /\ sends[q][k].fate = "ok" =>
               /\ k \in DOMAIN sends'[q] /\ sends'[q][k].pieces = sends[q][k].pieces
               /\ sends'[q][k].fate = "ok" /\ sends'[q][k].st \in {"sent", "refused", "unsent"}
    PROVE  Looked(r)'
<1> SUFFICES ASSUME Running(r)', invocation'[r].pc = "send", NEW c \in Contents
             PROVE  /\ invocation'[r].seen[c] = "removed" => chain'.piece[c] = "removed"
                    /\ ~chain'.ended /\ invocation'[r].seen[c] = "present" /\ chain'.piece[c] = "scheduled" =>
                          c \in Uncounted' \/ copy'[c].req = r \/ Expected(r, c)'
  BY DEF Looked
<1>1. CASE invocation'[r].seen = chain'.piece
  BY <1>1
<1>2. CASE /\ Running(r) /\ invocation[r].pc = "send" /\ invocation'[r].seen = invocation[r].seen
           /\ invocation[r].later \subseteq invocation'[r].later
           /\ \A d \in Contents : copy[d].req = r => copy'[d].req = r
  <2>1. invocation'[r].seen[c] = "removed" => chain'.piece[c] = "removed"
    BY <1>2 DEF Looked, ChainGoes
  <2>2. ASSUME ~chain'.ended, invocation'[r].seen[c] = "present", chain'.piece[c] = "scheduled"
        PROVE  c \in Uncounted' \/ copy'[c].req = r \/ Expected(r, c)'
    <3>1. ~chain.ended /\ invocation[r].seen[c] = "present" /\ chain.piece[c] = "scheduled"
      BY <1>2, <2>2 DEF ChainGoes
    <3>2. c \in Uncounted \/ copy[c].req = r \/ Expected(r, c)
      BY <1>2, <3>1 DEF Looked
    <3>3. CASE c \in Uncounted \/ copy[c].req = r
      BY <1>2, <3>3
    <3>4. CASE Expected(r, c)
      <4>0. PICK q \in Requests \ {r} : \E k \in DOMAIN sends[q] :
               /\ c \in sends[q][k].pieces /\ sends[q][k].st = "sent" /\ sends[q][k].fate = "ok"
               /\ req[q] = "submitted" \/ (req[q] = "queued" /\ q \in invocation[r].later)
        BY <3>4 DEF Expected
      <4>1. PICK k \in DOMAIN sends[q] :
               /\ c \in sends[q][k].pieces /\ sends[q][k].st = "sent" /\ sends[q][k].fate = "ok"
               /\ req[q] = "submitted" \/ (req[q] = "queued" /\ q \in invocation[r].later)
        BY <4>0
      <4>2. /\ k \in DOMAIN sends'[q] /\ c \in sends'[q][k].pieces
            /\ sends'[q][k].fate = "ok" /\ sends'[q][k].st \in {"sent", "refused", "unsent"}
        BY <4>1
      <4>3. CASE sends'[q][k].st = "refused"
        BY <4>2, <4>3 DEF Uncounted
      <4>4. CASE sends'[q][k].st = "unsent"
        BY <4>2, <4>4 DEF Told
      <4>5. CASE sends'[q][k].st = "sent"
        <5>1. Covered(q)
          BY DEF RemovalIInv
        <5>2. copy[c].req = q
          BY <4>1, <5>1 DEF Covered
        <5>3. Lasting(q) /\ invocation'[r].seen # chain'.piece
          BY <2>2
        <5>4. req'[q] = "submitted" \/ (req'[q] = "queued" /\ q \in invocation'[r].later)
          BY <1>2, <3>1, <4>1, <4>2, <4>5, <5>2, <5>3 DEF Lasting
        <5> QED  BY <4>2, <4>5, <5>4 DEF Expected
      <4> QED  BY <4>2, <4>3, <4>4, <4>5
    <3> QED  BY <3>2, <3>3, <3>4
  <2> QED  BY <2>1, <2>2
<1> QED  BY <1>1, <1>2 DEF Watching

\* A step that adds no send and schedules nothing.
LEMMA QueueFrame ==
    ASSUME RemovalIInv, QueueIInv, TypeOK', ChainGoes, \A c \in Contents : copy'[c].old = copy[c].old,
           \A q \in Requests : SignedStay(q) /\ Told(q)' /\ Waiting(q)' /\ Watching(q) /\ Lasting(q)
    PROVE  QueueIInv'
<1>1. TypeOK /\ QueueBound /\ \A q \in Requests : Looked(q)
  BY DEF RemovalIInv, QueueIInv
<1>2. Uncounted \subseteq Uncounted' /\ Committed' \subseteq Committed
  BY <1>1, CommittedStays
<1>3. QueueBound'
  BY <1>1, <1>2, BoundStays DEF ChainGoes
<1>4. ASSUME NEW q \in Requests, NEW k \in DOMAIN sends[q], sends[q][k].st = "sent", sends[q][k].fate = "ok"
      PROVE  /\ k \in DOMAIN sends'[q] /\ sends'[q][k].pieces = sends[q][k].pieces
             /\ sends'[q][k].fate = "ok" /\ sends'[q][k].st \in {"sent", "refused", "unsent"}
  <2>1. SignedStay(q)
    OBVIOUS
  <2>2. k \in DOMAIN sends'[q] /\ sends'[q][k].pieces = sends[q][k].pieces /\ sends'[q][k].fate = "ok"
    BY <1>4, <2>1 DEF SignedStay
  <2>3. sends'[q][k].st \in {"sent", "refused", "unsent"}
    <3>1. sends' \in [Requests -> Seq(Send)]
      BY DEF TypeOK
    <3>2. sends'[q][k] \in Send
      BY <2>2, <3>1
    <3> QED  BY <3>2 DEF Send
  <2> QED  BY <2>2, <2>3
<1>5. \A r \in Requests : Looked(r)'
  BY <1>1, <1>2, <1>4, LookedStays
<1> QED  BY <1>3, <1>5 DEF QueueIInv

\* A step that leaves sends and chain alone.
LEMMA SameSigned ==
    ASSUME UNCHANGED <<sends, chain, start>>
    PROVE  ChainGoes /\ \A q \in Requests : SignedStay(q)
BY DEF ChainGoes, SignedStay

\* Such a step keeps what was told, if the requests with a send stay what they are.
LEMMA ToldStays ==
    ASSUME NEW q \in Requests, Told(q), sends' = sends,
           Running(q)' /\ invocation'[q].pc \in {"call", "answered"} => Running(q) /\ invocation'[q] = invocation[q],
           (\E k \in DOMAIN sends[q] : sends[q][k].st = "sent") => req'[q] \in {"submitted", "queued", "settled"}
    PROVE  Told(q)'
BY DEF Told

\* A step of tasks and invocations: nobody begins to deal with a signature.
LEMMA RestingQueue ==
    ASSUME RemovalIInv, QueueIInv, TypeOK', UNCHANGED <<req, sends, chain, start>>,
           \A c \in Contents : copy'[c].old = copy[c].old /\ copy'[c].req = copy[c].req,
           \A q \in Requests : Undisturbed(q)
    PROVE  QueueIInv'
<1>1. ChainGoes /\ \A q \in Requests : SignedStay(q)
  BY SameSigned
<1>2. \A q \in Requests : Told(q)'
  BY ToldStays DEF QueueIInv, Told, Undisturbed
<1>3. \A q \in Requests : Waiting(q)'
  BY DEF QueueIInv, Waiting
<1>4. \A q \in Requests : Watching(q)
  BY DEF Undisturbed, Watching
<1>5. \A q \in Requests : Lasting(q)
  BY DEF Lasting
<1> QED  BY <1>1, <1>2, <1>3, <1>4, <1>5, QueueFrame

\* An invocation ends, and nothing else happens to requests and copies.
LEMMA EndedQueue ==
    ASSUME RemovalIInv, QueueIInv, TypeOK', NEW r \in Requests, NEW t \in Task, t.status \in {"pending", "failed", "done"},
           End(r, t), UNCHANGED <<copy, req, sends, world>>
    PROVE  QueueIInv'
<1>1. \A q \in Requests : Undisturbed(q)
  BY EndsQuietly DEF RemovalIInv, Undisturbed
<1> QED  BY <1>1, RestingQueue DEF world

\* Steps of the cleanup tasks other than joining.
LEMMA CleaningQueue ==
    ASSUME RemovalIInv, QueueIInv, TypeOK', NEW c \in Contents,
           CleanupFails(c) \/ CleanupFinalizes(c) \/ CleanupCompletes(c) \/ RetryCleanup(c) \/ ReferenceEnds(c)
    PROVE  QueueIInv'
<1>1. TypeOK
  BY DEF RemovalIInv
<1>2. CASE CleanupFails(c) \/ CleanupFinalizes(c) \/ CleanupCompletes(c) \/ ReferenceEnds(c)
  <2>1. UNCHANGED <<copy, req, sends, chain, start, task, invocation>>
    BY <1>2 DEF CleanupFails, CleanupFinalizes, CleanupCompletes, ReferenceEnds, world
  <2> QED  BY <2>1, RestingQueue DEF Undisturbed, Running
<1>3. CASE RetryCleanup(c)
  <2>1. UNCHANGED <<req, sends, chain, start, task, invocation>>
    BY <1>3 DEF RetryCleanup, world
  <2>2. copy' = copy \/ copy' = [copy EXCEPT ![c].status = "pending"]
    BY <1>3 DEF RetryCleanup
  <2>3. \A d \in Contents : copy'[d].old = copy[d].old /\ copy'[d].req = copy[d].req
    BY <1>1, <2>2 DEF TypeOK, Copy
  <2> QED  BY <2>1, <2>3, RestingQueue DEF Undisturbed, Running
<1> QED  BY <1>2, <1>3

\* Steps of tasks that do not run.
LEMMA TasksQueue ==
    ASSUME RemovalIInv, QueueIInv, TypeOK', NEW r \in Requests, Ends(r) \/ RetryRemoval(r)
    PROVE  QueueIInv'
<1>1. TypeOK
  BY DEF RemovalIInv
<1>2. CASE Ends(r) \/ RetryRemoval(r)
  <2>1. UNCHANGED <<copy, req, sends, chain, start, invocation>>
    BY <1>2 DEF Ends, RetryRemoval, world
  <2>2. \A q \in Requests : task'[q].status = "running" => task[q].status = "running"
    <3>1. task \in [Requests -> Task] /\ task[r] \in Task
      BY <1>1 DEF TypeOK
    <3>2. ASSUME NEW t \in Task, t.status # "running", task' = [task EXCEPT ![r] = t]
          PROVE  \A q \in Requests : task'[q].status = "running" => task[q].status = "running"
      BY <3>1, <3>2
    <3>3. CASE Ends(r)
      <4> DEFINE t == [task[r] EXCEPT !.status = "done"]
      <4>1. t \in Task /\ t.status # "running"
        BY <3>1, TasksTyped
      <4>2. task' = [task EXCEPT ![r] = t]
        BY <3>3 DEF Ends
      <4> HIDE DEF t
      <4> QED  BY <3>2, <4>1, <4>2
    <3>4. CASE RetryRemoval(r)
      <4> DEFINE t == [Fresh EXCEPT !.mode = "recover", !.lookup = task[r].lookup]
      <4>1. t \in Task /\ t.status # "running"
        BY <3>1, FreshTyped DEF Task
      <4>2. task' = [task EXCEPT ![r] = t]
        BY <3>4 DEF RetryRemoval
      <4> HIDE DEF t
      <4> QED  BY <3>2, <4>1, <4>2
    <3> QED  BY <1>2, <3>3, <3>4
  <2> QED  BY <2>1, <2>2, RestingQueue DEF Undisturbed, Running
<1> QED  BY <1>2

\* The process stops.
LEMMA CrashQueue == ASSUME RemovalIInv, QueueIInv, TypeOK', RemovalCrash PROVE QueueIInv'
<1>1. UNCHANGED <<copy, req, sends, chain, start>>
  BY DEF RemovalCrash, world
<1>2. \A q \in Requests : invocation'[q].pc = "idle"
  BY FreshTyped DEF RemovalCrash
<1> QED  BY <1>1, <1>2, RestingQueue DEF Undisturbed

\* Copies join or leave request r, which has no send that may be accepted if it
\* becomes something else.
LEMMA RowsQueue ==
    ASSUME RemovalIInv, QueueIInv, TypeOK', UNCHANGED <<sends, chain, start>>, NEW r \in Requests,
           \A q \in Requests : Undisturbed(q) /\ (q # r => req'[q] = req[q]),
           Running(r)' => invocation'[r].pc # "send",
           \A c \in Contents : /\ copy'[c].old = copy[c].old
                               /\ copy'[c].req = copy[c].req \/ {copy[c].req, copy'[c].req} \subseteq {0, r},
           \/ req'[r] = req[r] /\ (req[r] = "collecting" \/ \A c \in Contents : copy'[c].req = r => copy[c].req = r)
           \/ /\ req'[r] \notin {"queued", "settled"}
              /\ \A k \in DOMAIN sends[r] : sends[r][k].st # "sent"
    PROVE  QueueIInv'
<1>1. ChainGoes /\ \A q \in Requests : SignedStay(q)
  BY SameSigned
<1>2. 0 \notin Requests
  BY RemovalAssumption
<1>3. ASSUME NEW q \in Requests PROVE Told(q)' /\ Waiting(q)' /\ Lasting(q) /\ Watching(q)
  <2>1. Told(q) /\ Waiting(q)
    BY DEF QueueIInv
  <2>2. (\E k \in DOMAIN sends[q] : sends[q][k].st = "sent") => req'[q] = req[q] /\ req[q] \in {"submitted", "queued", "settled"}
    BY <2>1 DEF Told
  <2>3. Told(q)'
    BY <2>1, <2>2, ToldStays DEF Undisturbed
  <2>4. Lasting(q)
    BY <2>2 DEF Lasting
  <2>5. q # r => \A c \in Contents : copy'[c].req = q <=> copy[c].req = q
    BY <1>2
  <2>6. Watching(q)
    BY <2>5 DEF Watching, Undisturbed
  <2>7. Waiting(q)'
    <3>1. CASE q # r
      BY <2>1, <2>5, <3>1 DEF Waiting
    <3>2. CASE q = r
      BY <2>1, <3>2 DEF Waiting
    <3> QED  BY <3>1, <3>2
  <2> QED  BY <2>3, <2>4, <2>6, <2>7
<1> QED  BY <1>1, <1>3, QueueFrame

\* A copy joins a request.
LEMMA JoinsQueue == ASSUME RemovalIInv, QueueIInv, TypeOK', NEW c \in Contents, CleanupJoins(c) PROVE QueueIInv'
<1>1. TypeOK /\ Sealing /\ copy[c].req = 0
  BY DEF RemovalIInv, CleanupJoins, Unattached
<1>2. PICK r \in Collecting \union Unused : Joins(c, r)
  BY FirstUnused DEF CleanupJoins
<1>3. r \in Requests /\ UNCHANGED <<sends, chain, start, invocation>>
  BY <1>2 DEF CleanupJoins, world, Collecting, Unused
<1>4. sends[r] = <<>>
  BY <1>1, <1>2, <1>3 DEF Sealing, Collecting, Unused
<1>5. /\ \A q \in Requests : q # r => req'[q] = req[q] /\ task'[q] = task[q]
      /\ req'[r] = "collecting" /\ (task'[r] = task[r] \/ task'[r] = Fresh)
  BY <1>1, <1>2, <1>3 DEF Joins, TypeOK, Collecting
<1>6. \A q \in Requests : Running(q)' => Running(q)
  BY <1>5, FreshTyped DEF Running
<1>7. \A d \in Contents : copy'[d].old = copy[d].old /\ (copy'[d].req = copy[d].req \/ {copy[d].req, copy'[d].req} \subseteq {0, r})
  BY <1>1, <1>2 DEF Joins, TypeOK, Copy
<1>8. Running(r) => FALSE
  BY <1>1, <1>2, <1>3 DEF Sealing, Running, Collecting, Unused
<1>9. \A q \in Requests : Undisturbed(q)
  BY <1>3, <1>6 DEF Undisturbed
<1>10. \A k \in DOMAIN sends[r] : sends[r][k].st # "sent"
  BY <1>4
<1> QED  BY <1>3, <1>5, <1>6, <1>7, <1>8, <1>9, <1>10, RowsQueue

\* A batch is sealed.
LEMMA SealQueue == ASSUME RemovalIInv, QueueIInv, TypeOK', NEW r \in Requests, Seal(r) PROVE QueueIInv'
<1>1. TypeOK /\ Sealing /\ req[r] = "collecting" /\ UNCHANGED <<sends, chain, start, invocation>>
  BY DEF RemovalIInv, Seal, world
<1>2. sends[r] = <<>> /\ ~Running(r)
  BY <1>1 DEF Sealing, Running
<1>3. /\ \A q \in Requests : q # r => req'[q] = req[q] /\ task'[q] = task[q]
      /\ req'[r] \in {"abandoned", "ready"} /\ task'[r].status = task[r].status
  BY <1>1 DEF Seal, TypeOK, Task
<1>4. \A c \in Contents : copy'[c] = copy[c] \/ (copy[c].req = r /\ copy'[c] = [copy[c] EXCEPT !.req = 0])
  BY DEF Seal, Members
<1>5. \A c \in Contents : copy'[c].old = copy[c].old /\ (copy'[c].req = copy[c].req \/ {copy[c].req, copy'[c].req} \subseteq {0, r})
  BY <1>1, <1>4 DEF TypeOK, Copy
<1>6. \A q \in Requests : Undisturbed(q)
  BY <1>1, <1>3 DEF Undisturbed, Running
<1>7. Running(r)' => FALSE
  BY <1>2, <1>3 DEF Running
<1>8. \A k \in DOMAIN sends[r] : sends[r][k].st # "sent"
  BY <1>2
<1> QED  BY <1>1, <1>3, <1>5, <1>6, <1>7, <1>8, RowsQueue

\* Members change (changeMembers) and the invocation ends.
LEMMA MembersQueue ==
    ASSUME RemovalIInv, QueueIInv, TypeOK', NEW r \in Requests, NEW cs \in SUBSET Members(r), NEW detach \in BOOLEAN,
           NEW status \in {"", "removed", "failed"}, ChangeMembers(r, cs, status, detach), detach => Accepted(r) = 0,
           NEW t \in Task, t.status \in {"pending", "failed"}, End(r, t), UNCHANGED <<sends, world>>
    PROVE  QueueIInv'
<1>1. TypeOK /\ UNCHANGED <<chain, start>>
  BY DEF RemovalIInv, world
<1>2. \A q \in Requests : Running(q)' => q # r /\ Running(q) /\ invocation'[q] = invocation[q]
  BY <1>1, EndsQuietly
<1>3. \A q \in Requests : Undisturbed(q)
  BY <1>2 DEF Undisturbed
<1>4. req' = req \/ (detach /\ req' = [req EXCEPT ![r] = "abandoned"])
  BY DEF ChangeMembers
<1>5. /\ \A q \in Requests : q # r => req'[q] = req[q]
      /\ req'[r] = req[r] \/ (detach /\ req'[r] = "abandoned")
  BY <1>1, <1>4 DEF TypeOK
<1>6. ASSUME NEW c \in Contents
      PROVE  /\ copy'[c].old = copy[c].old
             /\ copy'[c].req = copy[c].req \/ (copy[c].req = r /\ copy'[c].req = 0)
  <2>1. CASE c \notin cs
    BY <2>1 DEF ChangeMembers
  <2>2. CASE c \in cs
    <3>1. copy[c] \in Copy /\ copy[c].req = r
      BY <1>1, <2>2 DEF TypeOK, Members
    <3>2. PICK s, q : copy'[c] = [copy[c] EXCEPT !.status = s, !.req = q] /\ q \in {0, copy[c].req}
      BY <2>2 DEF ChangeMembers
    <3>3. copy'[c].old = copy[c].old /\ copy'[c].req = q
      BY <3>1, <3>2 DEF Copy
    <3> QED  BY <3>1, <3>2, <3>3
  <2> QED  BY <2>1, <2>2
<1>7. detach => \A k \in DOMAIN sends[r] : sends[r][k].st # "sent"
  BY <1>1, LatestFound
<1>8. 0 # r
  BY RemovalAssumption
<1>9. \A c \in Contents : copy'[c].req = r => copy[c].req = r
  BY <1>6, <1>8
<1>10. \A c \in Contents : /\ copy'[c].old = copy[c].old
                           /\ copy'[c].req = copy[c].req \/ {copy[c].req, copy'[c].req} \subseteq {0, r}
  BY <1>6
<1>11. \/ req'[r] = req[r] /\ \A c \in Contents : copy'[c].req = r => copy[c].req = r
       \/ req'[r] \notin {"queued", "settled"} /\ \A k \in DOMAIN sends[r] : sends[r][k].st # "sent"
  BY <1>5, <1>7, <1>9
<1>12. Running(r)' => invocation'[r].pc # "send"
  BY <1>2
<1> QED  BY <1>1, <1>3, <1>5, <1>10, <1>11, <1>12, RowsQueue

\* The removal of pieces is recorded, and members the provider does not know leave.
LEMMA ChangesQueue ==
    ASSUME RemovalIInv, QueueIInv, TypeOK', NEW r \in Requests, MarkRemoved(r) \/ Lookup(r)
    PROVE  QueueIInv'
<1>1. CASE MarkRemoved(r)
  <2>1. TypeOK /\ task[r] \in Task
    BY <1>1, ClaimFinds DEF RemovalIInv, MarkRemoved
  <2> DEFINE t == RemovalWaits(r, "recover")
             detach == Accepted(r) = 0 /\ req[r] = "ready"
  <2>2. t \in Task /\ t.status \in {"pending", "failed"}
    BY <2>1, TasksTyped DEF RemovalWaits
  <2>3. Gone(r) \in SUBSET Members(r) /\ detach \in BOOLEAN
    BY DEF Gone
  <2>4. ChangeMembers(r, Gone(r), "removed", detach) /\ End(r, t) /\ UNCHANGED <<sends, world>>
    BY <1>1 DEF MarkRemoved, Observes
  <2>5. detach => Accepted(r) = 0
    OBVIOUS
  <2> HIDE DEF t, detach
  <2> QED  BY <2>2, <2>3, <2>4, <2>5, MembersQueue
<1>2. CASE Lookup(r)
  <2>1. At(r, "lookup") /\ UNCHANGED <<sends, world>>
    BY <1>2 DEF Lookup
  <2>2. task[r] \in Task
    BY <2>1, AtFinds
  <2> DEFINE u == [task[r] EXCEPT !.lookup = FALSE]
             t == RetrySend(r, u)
  <2>3. t \in Task /\ t.status \in {"pending", "failed"}
    <3>1. u \in Task
      BY <2>2, TasksTyped
    <3> HIDE DEF u
    <3> QED  BY <3>1, TasksTyped
  <2>4. \/ Accepted(r) = 0 /\ ChangeMembers(r, Selected(r) \ start.known, "failed", TRUE) /\ End(r, t)
        \/ Accepted(r) = 0 /\ ChangeMembers(r, SecondHalf(Selected(r)), "", TRUE) /\ End(r, t)
        \/ End(r, t) /\ UNCHANGED <<copy, req>>
    BY <1>2 DEF Lookup
  <2>5. Selected(r) \ start.known \in SUBSET Members(r) /\ SecondHalf(Selected(r)) \in SUBSET Members(r)
    BY DEF Selected, Present, SecondHalf
  <2> HIDE DEF t
  <2> QED  BY <2>1, <2>3, <2>4, <2>5, MembersQueue, EndedQueue
<1> QED  BY <1>1, <1>2

\* A request that was queued is watched until everything is removed.
LEMMA QueuedQueue == ASSUME RemovalIInv, QueueIInv, TypeOK', NEW r \in Requests, Queued(r) PROVE QueueIInv'
<1>1. TypeOK /\ RemovedIsGone /\ task[r] \in Task /\ UNCHANGED <<copy, sends, world>>
  BY ClaimFinds DEF RemovalIInv, Queued
<1>2. CASE (\E c \in Members(r) : copy[c].status # "removed") /\ Observes(r) /\ UNCHANGED req
  <2>1. RemovalWaits(r, "recover") \in Task /\ RemovalWaits(r, "recover").status = "pending"
    BY <1>1, TasksTyped DEF RemovalWaits
  <2> QED  BY <1>1, <1>2, <2>1, EndedQueue DEF Observes
<1>3. CASE /\ \A c \in Members(r) : copy[c].status = "removed"
           /\ req' = [req EXCEPT ![r] = "settled"] /\ End(r, [task[r] EXCEPT !.status = "done"])
  <2> DEFINE t == [task[r] EXCEPT !.status = "done"]
  <2>1. t \in Task /\ t.status = "done" /\ End(r, t)
    BY <1>1, <1>3, TasksTyped
  <2> HIDE DEF t
  <2>2. \A q \in Requests : Running(q)' => q # r /\ Running(q) /\ invocation'[q] = invocation[q]
    BY <1>1, <2>1, EndsQuietly
  <2>3. ChainGoes /\ (\A q \in Requests : SignedStay(q)) /\ chain' = chain
    BY <1>1, SameSigned DEF world
  <2>4. req[r] = "queued" /\ req'[r] = "settled" /\ \A q \in Requests : q # r => req'[q] = req[q]
    BY <1>1, <1>3 DEF TypeOK, Queued
  <2>5. \A c \in Contents : copy[c].req = r => chain.piece[c] = "removed"
    BY <1>1, <1>3 DEF RemovedIsGone, Members
  <2>6. ASSUME NEW q \in Requests PROVE Told(q)' /\ Waiting(q)' /\ Lasting(q) /\ Watching(q)
    <3>1. Told(q) /\ Waiting(q)
      BY DEF QueueIInv
    <3>2. Told(q)'
      BY <1>1, <2>2, <2>4, <3>1, ToldStays DEF Told
    <3>3. Waiting(q)'
      BY <1>1, <2>3, <2>4, <3>1 DEF Waiting
    <3>4. Lasting(q)
      BY <2>4, <2>5 DEF Lasting
    <3>5. Watching(q)
      BY <1>1, <2>2 DEF Watching
    <3> QED  BY <3>2, <3>3, <3>4, <3>5
  <2> QED  BY <1>1, <2>3, <2>6, QueueFrame
<1> QED  BY <1>2, <1>3 DEF Queued

\* A request is queued: those that looked before are told.
LEMMA MarksQueue ==
    ASSUME RemovalIInv, QueueIInv, TypeOK', NEW r \in Requests, Claims(r), MarksQueued(r), UNCHANGED world,
           req[r] \in {"ready", "submitted"}, chain.ended \/ Present(r, chain.piece) = {}
    PROVE  QueueIInv'
<1>1. TypeOK /\ RemovedIsGone /\ task[r] \in Task /\ UNCHANGED <<copy, sends, chain, start>>
  BY ClaimFinds DEF RemovalIInv, MarksQueued, world
<1>2. req'[r] = "queued" /\ \A q \in Requests : q # r => req'[q] = req[q]
  BY <1>1 DEF TypeOK, MarksQueued
<1>3. /\ task'[r] = RemovalWaits(r, "recover") /\ \A q \in Requests : q # r => task'[q] = task[q]
  BY <1>1 DEF TypeOK, MarksQueued
<1>4. RemovalWaits(r, "recover").status = "pending"
  BY <1>1, TasksTyped DEF RemovalWaits
<1>5. ~Running(r)' /\ \A q \in Requests : Running(q)' => Running(q)
  BY <1>3, <1>4 DEF Running
<1>6. ASSUME NEW q \in Requests, Running(q)'
      PROVE  /\ invocation'[q].pc = invocation[q].pc /\ invocation'[q].seen = invocation[q].seen
             /\ invocation[q].later \subseteq invocation'[q].later
             /\ invocation[q].pc # "send" => invocation'[q] = invocation[q]
             /\ invocation[q].pc = "send" /\ invocation[q].seen # chain.piece => r \in invocation'[q].later
  <2>1. invocation[q] \in RemovalInvocation /\ Running(q)
    BY <1>1, <1>5, <1>6 DEF TypeOK
  <2> DEFINE x == [invocation[q] EXCEPT !.later = invocation[q].later \union {r}]
  <2>2. /\ x.pc = invocation[q].pc /\ x.seen = invocation[q].seen
        /\ invocation[q].later \subseteq x.later /\ r \in x.later
    BY <2>1 DEF RemovalInvocation
  <2>3. invocation'[q] = IF At(q, "send") /\ invocation[q].seen # chain.piece THEN x ELSE invocation[q]
    BY DEF MarksQueued
  <2> HIDE DEF x
  <2>4. invocation[q].pc = "send" <=> At(q, "send")
    BY <2>1 DEF At, Running
  <2> QED  BY <2>2, <2>3, <2>4
<1>7. ChainGoes /\ \A q \in Requests : SignedStay(q)
  BY <1>1, SameSigned
<1>8. ASSUME NEW q \in Requests PROVE Told(q)' /\ Waiting(q)' /\ Lasting(q) /\ Watching(q)
  <2>1. Told(q) /\ Waiting(q)
    BY DEF QueueIInv
  <2>2. Told(q)'
    <3>1. Running(q)' /\ invocation'[q].pc \in {"call", "answered"} => Running(q) /\ invocation'[q] = invocation[q]
      BY <1>5, <1>6
    <3>2. (\E k \in DOMAIN sends[q] : sends[q][k].st = "sent") => req'[q] \in {"submitted", "queued", "settled"}
      BY <1>2, <2>1 DEF Told
    <3> QED  BY <1>1, <2>1, <3>1, <3>2, ToldStays
  <2>3. Waiting(q)'
    <3>1. CASE q # r
      BY <1>1, <1>2, <2>1, <3>1 DEF Waiting
    <3>2. CASE q = r
      <4>1. chain.ended \/ \A c \in Contents : copy[c].req = r => chain.piece[c] # "present"
        BY <1>1 DEF Present, Members, RemovedIsGone
      <4> QED  BY <1>1, <3>2, <4>1 DEF Waiting
    <3> QED  BY <3>1, <3>2
  <2>4. Lasting(q)
    <3>1. CASE q # r
      BY <1>2, <3>1 DEF Lasting
    <3>2. CASE q = r
      BY <1>1, <1>2, <1>6, <3>2 DEF Lasting
    <3> QED  BY <3>1, <3>2
  <2>5. Watching(q)
    BY <1>1, <1>5, <1>6 DEF Watching
  <2> QED  BY <2>2, <2>3, <2>4, <2>5
<1> QED  BY <1>1, <1>7, <1>8, QueueFrame

\* An invocation starts with what it sees.
LEMMA StartsQueue ==
    ASSUME RemovalIInv, QueueIInv, TypeOK', NEW r \in Requests, UNCHANGED <<copy, req, sends, world>>,
           NEW pc \in {"send", "lookup"}, task' = [task EXCEPT ![r].status = "running"],
           invocation' = [invocation EXCEPT ![r] = [Idle EXCEPT !.pc = pc, !.seen = chain.piece]]
    PROVE  QueueIInv'
<1>1. TypeOK /\ UNCHANGED <<chain, start>>
  BY DEF RemovalIInv, world
<1>2. \A q \in Requests : q # r => task'[q] = task[q] /\ invocation'[q] = invocation[q]
  BY <1>1 DEF TypeOK
<1>3. invocation'[r].pc = pc /\ invocation'[r].seen = chain.piece
  BY <1>1 DEF TypeOK, Idle
<1>4. ChainGoes /\ \A q \in Requests : SignedStay(q)
  BY <1>1, SameSigned
<1>5. ASSUME NEW q \in Requests PROVE Told(q)' /\ Waiting(q)' /\ Lasting(q) /\ Watching(q)
  <2>1. Told(q) /\ Waiting(q)
    BY DEF QueueIInv
  <2>2. Told(q)'
    BY <1>1, <1>2, <1>3, <2>1, ToldStays DEF Running, Told
  <2>3. Waiting(q)' /\ Lasting(q)
    BY <1>1, <2>1 DEF Waiting, Lasting
  <2>4. Watching(q)
    BY <1>1, <1>2, <1>3 DEF Watching, Running
  <2> QED  BY <2>2, <2>3, <2>4
<1> QED  BY <1>1, <1>4, <1>5, QueueFrame

\* The handler's steps that end an invocation, queue a request or start a send.
LEMMA HandlerQueue ==
    ASSUME RemovalIInv, QueueIInv, TypeOK', NEW r \in Requests,
           AllQueued(r) \/ ResumeLookup(r) \/ Stops(r) \/ Preflight(r) \/ NoRoom(r) \/ ReadFails(r)
    PROVE  QueueIInv'
<1>1. TypeOK
  BY DEF RemovalIInv
<1>2. CASE AllQueued(r)
  BY <1>2, MarksQueue DEF AllQueued, Sealed
<1>3. CASE ResumeLookup(r)
  BY <1>3, StartsQueue DEF ResumeLookup
<1>4. CASE Stops(r)
  <2>1. task[r] \in Task
    BY <1>1, <1>4, ClaimFinds DEF Stops
  <2> DEFINE t == [task[r] EXCEPT !.status = "failed"]
  <2>2. t \in Task /\ t.status = "failed" /\ End(r, t)
    BY <1>4, <2>1, TasksTyped DEF Stops
  <2> HIDE DEF t
  <2> QED  BY <1>4, <2>2, EndedQueue DEF Stops
<1>5. CASE Preflight(r)
  <2>1. Claims(r) /\ req[r] \in {"ready", "submitted"} /\ UNCHANGED world
    BY <1>5 DEF Preflight, Undecided, Sealed
  <2>2. task[r] \in Task
    BY <1>1, <2>1, ClaimFinds
  <2>3. CASE chain.ended /\ MarksQueued(r)
    BY <2>1, <2>3, MarksQueue
  <2>4. CASE End(r, RetrySend(r, task[r])) /\ UNCHANGED <<copy, req, sends>>
    <3>1. RetrySend(r, task[r]) \in Task /\ RetrySend(r, task[r]).status \in {"pending", "failed"}
      BY <2>2, TasksTyped
    <3> QED  BY <2>1, <2>4, <3>1, EndedQueue
  <2>5. CASE End(r, RemovalWaits(r, "execute")) /\ UNCHANGED <<copy, req, sends>>
    <3>1. RemovalWaits(r, "execute") \in Task /\ RemovalWaits(r, "execute").status = "pending"
      BY <2>2, TasksTyped DEF RemovalWaits
    <3> QED  BY <2>1, <2>5, <3>1, EndedQueue
  <2>6. CASE /\ task' = [task EXCEPT ![r].status = "running"] /\ UNCHANGED <<copy, req, sends>>
             /\ invocation' = [invocation EXCEPT ![r] = [Idle EXCEPT !.pc = "send", !.seen = chain.piece]]
    BY <2>1, <2>6, StartsQueue
  <2> QED  BY <1>5, <2>3, <2>4, <2>5, <2>6 DEF Preflight
<1>6. ASSUME NEW pc, At(r, pc), NEW m \in {"execute", "recover"}, End(r, RemovalWaits(r, m)), UNCHANGED <<copy, req, sends, world>>
      PROVE  QueueIInv'
  <2>1. task[r] \in Task
    BY <1>6, AtFinds
  <2>2. RemovalWaits(r, m) \in Task /\ RemovalWaits(r, m).status = "pending"
    BY <2>1 DEF RemovalWaits, Task
  <2> QED  BY <1>6, <2>2, EndedQueue
<1>7. CASE NoRoom(r)
  BY <1>6, <1>7 DEF NoRoom
<1>8. CASE ReadFails(r)
  BY <1>6, <1>8 DEF ReadFails, Observes
<1> QED  BY <1>2, <1>3, <1>4, <1>5, <1>7, <1>8

\* One send of request r changes, and its pieces do not.
LEMMA OneSendQueue ==
    ASSUME RemovalIInv, QueueIInv, TypeOK', NEW r \in Requests, NEW k \in DOMAIN sends[r], NEW s \in Send,
           sends' = [sends EXCEPT ![r] = [sends[r] EXCEPT ![k] = s]], s.pieces = sends[r][k].pieces,
           s.st = "sent" => sends[r][k].st = "sent", sends[r][k].st = "refused" => s.st = "refused",
           sends[r][k].fate \in {"ok", "failed"} => s.fate = sends[r][k].fate,
           s.reverted => s.fate = "failed", s.st = "unsent" => s.fate = "none",
           UNCHANGED <<copy, chain, start>>, \A q \in Requests : q # r => req'[q] = req[q],
           req'[r] = req[r] \/ \A j \in DOMAIN sends'[r] : sends'[r][j].st # "sent",
           \A q \in Requests : q # r => Undisturbed(q),
           Running(r)' /\ invocation'[r].pc = "send" => Running(r) /\ invocation'[r] = invocation[r],
           /\ Running(r)'
           /\ invocation'[r].pc = "call" \/ (invocation'[r].pc = "answered" /\ invocation'[r].answer = "unsent")
           => sends'[r][Len(sends'[r])].fate = "none",
           req'[r] # req[r] => req'[r] \notin {"queued", "settled"}
    PROVE  QueueIInv'
<1>1. TypeOK /\ ChainGoes
  BY DEF RemovalIInv, ChainGoes
<1>2. /\ \A q \in Requests : DOMAIN sends'[q] = DOMAIN sends[q]
      /\ sends'[r][k] = s
      /\ \A j \in DOMAIN sends[r] : j # k => sends'[r][j] = sends[r][j]
      /\ \A q \in Requests : q # r => sends'[q] = sends[q]
  BY <1>1, SendChanges
<1>3. \A q \in Requests : SignedStay(q)
  BY <1>2 DEF SignedStay
<1>4. ASSUME NEW q \in Requests PROVE Told(q)' /\ Waiting(q)' /\ Lasting(q) /\ Watching(q)
  <2>1. Told(q) /\ Waiting(q)
    BY DEF QueueIInv
  <2>2. CASE q # r
    <3>1. Told(q)'
      BY <1>2, <2>1, <2>2 DEF Told, Undisturbed
    <3>2. Waiting(q)' /\ Lasting(q)
      BY <2>1, <2>2 DEF Waiting, Lasting
    <3>3. Watching(q)
      BY <2>2 DEF Watching, Undisturbed
    <3> QED  BY <3>1, <3>2, <3>3
  <2>3. CASE q = r
    <3>1. ASSUME NEW j \in DOMAIN sends'[r]
          PROVE  /\ sends'[r][j].reverted => sends'[r][j].fate = "failed"
                 /\ sends'[r][j].st = "unsent" => sends'[r][j].fate = "none"
                 /\ sends'[r][j].st = "sent" => req'[r] \in {"submitted", "queued", "settled"}
      <4>1. j \in DOMAIN sends[r]
        BY <1>2
      <4>2. CASE j = k
        BY <1>2, <2>1, <2>3, <4>1, <4>2 DEF Told
      <4>3. CASE j # k
        BY <1>2, <2>1, <2>3, <4>1, <4>3 DEF Told
      <4> QED  BY <4>2, <4>3
    <3>2. Told(r)'
      BY <3>1 DEF Told
    <3>3. Waiting(r)' /\ Lasting(r)
      BY <2>1, <2>3 DEF Waiting, Lasting
    <3>4. Watching(r)
      BY DEF Watching
    <3> QED  BY <2>3, <3>2, <3>3, <3>4
  <2> QED  BY <2>2, <2>3
<1> QED  BY <1>1, <1>3, <1>4, QueueFrame

\* A failed transaction is recorded.
LEMMA ReceiptQueue == ASSUME RemovalIInv, QueueIInv, TypeOK', NEW r \in Requests, CheckReceipt(r) PROVE QueueIInv'
<1> DEFINE k == Accepted(r)
           s == [sends[r][k] EXCEPT !.reverted = TRUE]
<1>1. TypeOK /\ Claims(r) /\ ReceiptDue(r) /\ UNCHANGED <<copy, req, chain, start>>
  BY DEF RemovalIInv, CheckReceipt, Sealed, world
<1>2. k \in DOMAIN sends[r] /\ sends[r][k].fate = "failed"
  BY <1>1, LatestFound DEF ReceiptDue
<1>3. sends[r] \in Seq(Send) /\ task[r] \in Task
  BY <1>1 DEF TypeOK
<1> HIDE DEF k
<1>4. sends[r][k] \in Send /\ sends[r][k].st = "sent"
  BY <1>1, <1>2, <1>3, LatestFound DEF k, ReceiptDue
<1>5. s \in Send /\ s.pieces = sends[r][k].pieces /\ s.st = "sent" /\ s.fate = "failed"
  BY <1>2, <1>4 DEF Send
<1>6. sends' = [sends EXCEPT ![r] = [sends[r] EXCEPT ![k] = s]]
  BY <1>1, <1>2, <1>3 DEF CheckReceipt, TypeOK, k
<1> HIDE DEF s
<1> DEFINE t1 == RemovalWaits(r, "recover")
           t2 == [task[r] EXCEPT !.status = "failed"]
<1>7. t1 \in Task /\ t1.status = "pending" /\ t2 \in Task /\ t2.status = "failed"
  BY <1>3, TasksTyped DEF RemovalWaits
<1>8. End(r, t1) \/ End(r, t2)
  BY DEF CheckReceipt
<1> HIDE DEF t1, t2
<1>9. \A q \in Requests : Running(q)' => q # r /\ Running(q) /\ invocation'[q] = invocation[q]
  BY <1>1, <1>7, <1>8, EndsQuietly
<1>10. \A q \in Requests : Undisturbed(q)
  BY <1>9 DEF Undisturbed
<1> QED  BY <1>1, <1>2, <1>4, <1>5, <1>6, <1>9, <1>10, OneSendQueue

\* What the last send of an invocation is.
LEMMA LastSend ==
    ASSUME RemovalIInv, NEW r \in Requests, NEW pc \in {"call", "answered"}, At(r, pc)
    PROVE  Len(sends[r]) \in DOMAIN sends[r] /\ sends[r][Len(sends[r])] \in Send /\ sends[r][Len(sends[r])].st = "sent"
<1>1. sends[r] \in Seq(Send) /\ Running(r) /\ invocation[r].pc = pc /\ Viewed(r)
  BY AtFinds DEF RemovalIInv
<1>2. Len(sends[r]) > 0 /\ sends[r][Len(sends[r])].st = "sent"
  BY <1>1 DEF Viewed
<1>3. Len(sends[r]) \in DOMAIN sends[r]
  BY <1>1, <1>2
<1> QED  BY <1>1, <1>2, <1>3

\* The provider answers.
LEMMA AnswersQueue ==
    ASSUME RemovalIInv, QueueIInv, TypeOK', NEW r \in Requests,
           NEW answer \in {"hash", "lost", "refused", "notfound", "unsent"}, NEW fate \in {"none", "held"},
           answer = "unsent" => fate = "none", Answers(r, answer, fate)
    PROVE  QueueIInv'
<1> DEFINE k == Len(sends[r])
           s == [sends[r][k] EXCEPT !.fate = fate]
<1>1. TypeOK /\ At(r, "call") /\ UNCHANGED <<copy, req, chain, start, task>>
  BY DEF RemovalIInv, Answers, world
<1>2. k \in DOMAIN sends[r] /\ sends[r][k] \in Send /\ sends[r][k].st = "sent"
  BY <1>1, LastSend
<1>3. Told(r) /\ Running(r) /\ invocation[r].pc = "call" /\ sends[r] \in Seq(Send)
  BY <1>1, AtFinds DEF QueueIInv
<1>4. sends[r][k].fate = "none" /\ ~sends[r][k].reverted
  BY <1>2, <1>3 DEF Told, Send
<1>5. s \in Send /\ s.pieces = sends[r][k].pieces /\ s.st = "sent" /\ s.fate = fate /\ s.reverted = sends[r][k].reverted
  BY <1>2 DEF Send
<1>6. sends' = [sends EXCEPT ![r] = [sends[r] EXCEPT ![k] = s]]
  BY <1>1, <1>2, <1>3 DEF Answers, TypeOK
<1> HIDE DEF s, k
<1>7. sends'[r][k] = s /\ Len(sends'[r]) = k
  BY <1>1, <1>2, <1>5, <1>6, SendChanges DEF k
<1>8. /\ invocation'[r].pc = "answered" /\ invocation'[r].answer = answer
      /\ \A q \in Requests : q # r => invocation'[q] = invocation[q]
  BY <1>1 DEF Answers, TypeOK, RemovalInvocation
<1>9. \A q \in Requests : q # r => Undisturbed(q)
  BY <1>1, <1>8 DEF Undisturbed, Running
<1>10. /\ s.st = "sent" => sends[r][k].st = "sent"
       /\ sends[r][k].st = "refused" => s.st = "refused"
       /\ sends[r][k].fate \in {"ok", "failed"} => s.fate = sends[r][k].fate
       /\ s.reverted => s.fate = "failed"
       /\ s.st = "unsent" => s.fate = "none"
  BY <1>2, <1>4, <1>5
<1>11. invocation'[r].answer = "unsent" => sends'[r][Len(sends'[r])].fate = "none"
  BY <1>5, <1>7, <1>8
<1> QED  BY <1>1, <1>2, <1>5, <1>6, <1>8, <1>9, <1>10, <1>11, OneSendQueue

\* The provider answers, or a fault does.
LEMMA CallQueue == ASSUME RemovalIInv, QueueIInv, TypeOK', NEW r \in Requests, Call(r) \/ CallFails(r) PROVE QueueIInv'
<1>1. CASE Call(r)
  BY <1>1, AnswersQueue DEF Call
<1>2. CASE CallFails(r)
  BY <1>2, AnswersQueue DEF CallFails
<1> QED  BY <1>1, <1>2

\* An answer is recorded.
LEMMA RecordQueue == ASSUME RemovalIInv, QueueIInv, TypeOK', NEW r \in Requests, Record(r) PROVE QueueIInv'
<1> DEFINE k == Len(sends[r])
<1>1. TypeOK /\ At(r, "answered") /\ UNCHANGED <<copy, chain, start>>
  BY DEF RemovalIInv, Record, world
<1>2. k \in DOMAIN sends[r] /\ sends[r][k] \in Send /\ sends[r][k].st = "sent"
  BY <1>1, LastSend
<1>3. /\ Told(r) /\ Running(r) /\ invocation[r].pc = "answered" /\ invocation[r] \in RemovalInvocation
      /\ task[r] \in Task /\ sends[r] \in Seq(Send)
  BY <1>1, AtFinds DEF QueueIInv
<1>4. sends[r][k].reverted => sends[r][k].fate = "failed"
  BY <1>2, <1>3 DEF Told
<1>5. /\ RemovalWaits(r, "recover") \in Task /\ RemovalWaits(r, "recover").status = "pending"
      /\ RetrySend(r, task[r]) \in Task /\ RetrySend(r, task[r]).status \in {"pending", "failed"}
  BY <1>3, TasksTyped DEF RemovalWaits
<1> DEFINE over == /\ \A q \in Requests : q # r => Undisturbed(q)
                   /\ Running(r)' => invocation'[r].pc = "lookup"
<1>6. ASSUME NEW t \in Task, t.status \in {"pending", "failed"}, End(r, t) PROVE over
  <2>1. \A q \in Requests : Running(q)' => q # r /\ Running(q) /\ invocation'[q] = invocation[q]
    BY <1>1, <1>6, EndsQuietly
  <2> QED  BY <2>1 DEF Undisturbed
<1>7. ASSUME NEW s \in Send, s.pieces = sends[r][k].pieces, s.fate = sends[r][k].fate, s.reverted = sends[r][k].reverted,
             s.st = "unsent" => s.fate = "none",
             sends' = [sends EXCEPT ![r] = [sends[r] EXCEPT ![k] = s]], over, \A q \in Requests : q # r => req'[q] = req[q],
             req'[r] = req[r] \/ (req'[r] = "ready" /\ \A j \in DOMAIN sends'[r] : sends'[r][j].st # "sent")
      PROVE  QueueIInv'
  <2>1. /\ s.st = "sent" => sends[r][k].st = "sent"
        /\ sends[r][k].st = "refused" => s.st = "refused"
        /\ sends[r][k].fate \in {"ok", "failed"} => s.fate = sends[r][k].fate
        /\ s.reverted => s.fate = "failed"
    BY <1>2, <1>4, <1>7
  <2> HIDE DEF k
  <2>2. /\ \A q \in Requests : q # r => Undisturbed(q)
        /\ Running(r)' /\ invocation'[r].pc = "send" => Running(r) /\ invocation'[r] = invocation[r]
        /\ /\ Running(r)'
           /\ invocation'[r].pc = "call" \/ (invocation'[r].pc = "answered" /\ invocation'[r].answer = "unsent")
           => sends'[r][Len(sends'[r])].fate = "none"
    BY <1>7
  <2> QED  BY <1>1, <1>2, <1>7, <2>1, <2>2, OneSendQueue
<1>8. CASE sends' = [sends EXCEPT ![r][Len(sends[r])].hash = TRUE] /\ Observes(r) /\ UNCHANGED req
  <2> DEFINE s == [sends[r][k] EXCEPT !.hash = TRUE]
  <2>1. /\ s \in Send /\ s.pieces = sends[r][k].pieces /\ s.fate = sends[r][k].fate /\ s.reverted = sends[r][k].reverted
        /\ s.st = "sent"
    BY <1>2 DEF Send
  <2>2. sends' = [sends EXCEPT ![r] = [sends[r] EXCEPT ![k] = s]]
    BY <1>1, <1>2, <1>3, <1>8 DEF TypeOK
  <2>3. over
    BY <1>5, <1>6, <1>8 DEF Observes
  <2> HIDE DEF s, over, k
  <2> QED  BY <1>7, <1>8, <2>1, <2>2, <2>3
<1>9. CASE Observes(r) /\ UNCHANGED <<sends, req>>
  <2>1. UNCHANGED <<copy, req, sends, world>>
    BY <1>9 DEF Record
  <2> QED  BY <1>5, <1>9, <2>1, EndedQueue DEF Observes
<1>10. ASSUME NEW st \in {"refused", "unsent"}, st = "unsent" => invocation[r].answer = "unsent", Retracts(r, st), over
       PROVE  QueueIInv'
  <2> DEFINE s == [sends[r][k] EXCEPT !.st = st]
  <2>1. /\ s \in Send /\ s.pieces = sends[r][k].pieces /\ s.fate = sends[r][k].fate /\ s.reverted = sends[r][k].reverted
        /\ s.st = st
    BY <1>2 DEF Send
  <2>2. s.st = "unsent" => s.fate = "none"
    BY <1>3, <1>10, <2>1 DEF Told
  <2>3. sends' = [sends EXCEPT ![r] = [sends[r] EXCEPT ![k] = s]]
    BY <1>1, <1>2, <1>3, <1>10 DEF Retracts, TypeOK
  <2>4. req' = IF \E i \in DOMAIN sends'[r] : MayBeAccepted(sends'[r][i]) THEN req ELSE [req EXCEPT ![r] = "ready"]
    BY <1>10 DEF Retracts
  <2>5. /\ \A q \in Requests : q # r => req'[q] = req[q]
        /\ req'[r] = req[r] \/ (req'[r] = "ready" /\ \A j \in DOMAIN sends'[r] : sends'[r][j].st # "sent")
    BY <1>1, <2>4 DEF TypeOK, MayBeAccepted
  <2> HIDE DEF s, over, k
  <2> QED  BY <1>7, <1>10, <2>1, <2>2, <2>3, <2>5
<1>11. CASE Retracts(r, "refused") /\ task' = [task EXCEPT ![r].lookup = TRUE] /\ Goes(r, "lookup")
  <2>1. invocation'[r].pc = "lookup" /\ \A q \in Requests : q # r => invocation'[q] = invocation[q] /\ task'[q] = task[q]
    BY <1>1, <1>3, <1>11 DEF Goes, TypeOK, RemovalInvocation
  <2>2. over
    BY <2>1 DEF Undisturbed, Running
  <2> HIDE DEF over
  <2> QED  BY <1>10, <1>11, <2>2
<1>12. ASSUME NEW st \in {"refused", "unsent"}, st = "unsent" => invocation[r].answer = "unsent", Retracts(r, st),
              End(r, RetrySend(r, task[r]))
       PROVE  QueueIInv'
  <2>1. over
    BY <1>5, <1>6, <1>12
  <2> HIDE DEF over
  <2> QED  BY <1>10, <1>12, <2>1
<1> QED  BY <1>8, <1>9, <1>11, <1>12 DEF Record

\* A transaction fails.
LEMMA FailsQueue ==
    ASSUME RemovalIInv, QueueIInv, TypeOK', NEW r \in Requests, NEW k \in DOMAIN sends[r], sends[r][k].fate = "held",
           sends' = [sends EXCEPT ![r][k].fate = "failed"], UNCHANGED <<copy, req, task, invocation, chain, start>>
    PROVE  QueueIInv'
<1> DEFINE s == [sends[r][k] EXCEPT !.fate = "failed"]
<1>1. TypeOK /\ Told(r)
  BY DEF RemovalIInv, QueueIInv
<1>2. sends[r] \in Seq(Send) /\ sends[r][k] \in Send
  BY <1>1 DEF TypeOK
<1>3. /\ s \in Send /\ s.pieces = sends[r][k].pieces /\ s.st = sends[r][k].st /\ s.fate = "failed"
      /\ sends[r][k].st # "unsent"
  BY <1>1, <1>2 DEF Send, Told
<1>4. sends' = [sends EXCEPT ![r] = [sends[r] EXCEPT ![k] = s]]
  BY <1>1, <1>2 DEF TypeOK
<1> HIDE DEF s
<1>5. Len(sends'[r]) = Len(sends[r]) /\ \A j \in DOMAIN sends[r] : j # k => sends'[r][j] = sends[r][j]
  BY ONLY <1>1, <1>3, <1>4, SendChanges
<1>6. /\ Running(r)
      /\ invocation[r].pc = "call" \/ (invocation[r].pc = "answered" /\ invocation[r].answer = "unsent")
      => sends'[r][Len(sends'[r])].fate = "none"
  <2> SUFFICES ASSUME Running(r), invocation[r].pc = "call" \/ (invocation[r].pc = "answered" /\ invocation[r].answer = "unsent")
               PROVE  sends'[r][Len(sends'[r])].fate = "none"
    OBVIOUS
  <2>1. sends[r][Len(sends[r])].fate = "none"
    BY <1>1 DEF Told
  <2>2. At(r, "call") \/ At(r, "answered")
    BY DEF Running, At
  <2>3. Len(sends[r]) \in DOMAIN sends[r]
    BY <2>2, LastSend
  <2> QED  BY <1>5, <2>1, <2>3
<1>7. \A q \in Requests : Undisturbed(q) /\ (Running(q)' <=> Running(q))
  BY DEF Undisturbed, Running
<1> QED  BY ONLY <1>1, <1>3, <1>4, <1>6, <1>7, OneSendQueue, RemovalIInv, QueueIInv, TypeOK', sends[r][k].fate = "held",
            UNCHANGED <<copy, req, task, invocation, chain, start>>

\* A deletion that succeeds schedules what was on its way, and those who looked before
\* know of it.
LEMMA LandsQueue ==
    ASSUME RemovalIInv, QueueIInv, TypeOK', NEW r \in Requests, NEW k \in DOMAIN sends[r], sends[r][k].fate = "held",
           sends' = [sends EXCEPT ![r][k].fate = "ok"], UNCHANGED <<copy, req, task, invocation, start>>,
           chain' = [chain EXCEPT !.piece = [c \in Contents |-> IF c \in sends[r][k].pieces THEN "scheduled" ELSE chain.piece[c]]],
           \A c \in sends[r][k].pieces : chain.piece[c] = "present"
    PROVE  QueueIInv'
<1> DEFINE s == [sends[r][k] EXCEPT !.fate = "ok"]
<1>1. TypeOK /\ QueueBound /\ \A q \in Requests : Told(q) /\ Waiting(q) /\ Looked(q) /\ Covered(q)
  BY DEF RemovalIInv, QueueIInv
<1>2. sends[r] \in Seq(Send) /\ sends[r][k] \in Send /\ sends[r][k].pieces \subseteq Contents
  BY <1>1, SendTyped DEF TypeOK
<1>3. s \in Send /\ s.pieces = sends[r][k].pieces /\ s.st = sends[r][k].st /\ s.fate = "ok" /\ s.reverted = sends[r][k].reverted
  BY <1>2 DEF Send
<1>4. sends' = [sends EXCEPT ![r] = [sends[r] EXCEPT ![k] = s]]
  BY <1>1, <1>2 DEF TypeOK
<1>5. sends[r][k].st \in {"sent", "refused"} /\ ~sends[r][k].reverted
  BY <1>1, <1>2 DEF Told, Send
<1> HIDE DEF s
<1>6. /\ \A q \in Requests : DOMAIN sends'[q] = DOMAIN sends[q] /\ Len(sends'[q]) = Len(sends[q])
      /\ sends'[r][k] = s
      /\ \A j \in DOMAIN sends[r] : j # k => sends'[r][j] = sends[r][j]
      /\ \A q \in Requests : q # r => sends'[q] = sends[q]
  BY ONLY <1>1, <1>3, <1>4, SendChanges
<1>7. /\ chain'.ended = chain.ended
      /\ \A c \in Contents : chain'.piece[c] = IF c \in sends[r][k].pieces THEN "scheduled" ELSE chain.piece[c]
  BY <1>1 DEF TypeOK
<1>8. ASSUME NEW q \in Requests, NEW j \in DOMAIN sends[q]
      PROVE  /\ j \in DOMAIN sends'[q] /\ sends'[q][j].pieces = sends[q][j].pieces /\ sends'[q][j].st = sends[q][j].st
             /\ sends'[q][j].reverted = sends[q][j].reverted
             /\ sends'[q][j].fate = IF q = r /\ j = k THEN "ok" ELSE sends[q][j].fate
  <2>1. CASE q # r
    BY <1>6, <2>1
  <2>2. CASE q = r /\ j # k
    BY <1>6, <2>2
  <2>3. CASE q = r /\ j = k
    BY <1>3, <1>6, <2>3
  <2> QED  BY <2>1, <2>2, <2>3
<1>9. ASSUME NEW c PROVE c \in Uncounted <=> c \in Uncounted'
  BY <1>6, <1>8 DEF Uncounted
<1>10. Committed' \subseteq Committed
  <2> SUFFICES ASSUME NEW c \in Committed' PROVE c \in Committed
    OBVIOUS
  <2>1. c \in Contents /\ c \notin Uncounted /\ (chain'.piece[c] = "scheduled" \/ (chain'.piece[c] = "present" /\ c \in Coming'))
    BY <1>9 DEF Committed
  <2>2. CASE c \in sends[r][k].pieces
    <3>1. sends[r][k].st = "sent"
      BY <1>5, <2>1, <2>2 DEF Uncounted
    <3>2. c \in Coming
      BY <2>1, <2>2, <3>1 DEF Coming
    <3> QED  BY <2>1, <2>2, <3>2 DEF Committed
  <2>3. CASE c \notin sends[r][k].pieces
    <3>1. chain'.piece[c] = chain.piece[c]
      BY <1>7, <2>1, <2>3
    <3>2. c \in Coming' => c \in Coming
      BY <1>6, <1>8 DEF Coming
    <3> QED  BY <2>1, <3>1, <3>2 DEF Committed
  <2> QED  BY <2>2, <2>3
<1>11. QueueBound'
  BY <1>1, <1>7, <1>10, BoundStays
<1>12. ASSUME NEW q \in Requests PROVE Told(q)' /\ Waiting(q)'
  <2>1. Waiting(q)'
    BY <1>1, <1>7 DEF Waiting
  <2>2. ASSUME NEW j \in DOMAIN sends'[q]
        PROVE  /\ sends'[q][j].reverted => sends'[q][j].fate = "failed"
               /\ sends'[q][j].st = "unsent" => sends'[q][j].fate = "none"
               /\ sends'[q][j].st = "sent" => req'[q] \in {"submitted", "queued", "settled"}
    BY <1>1, <1>5, <1>6, <1>8 DEF Told
  <2>3. ASSUME Running(q)', invocation'[q].pc = "call" \/ (invocation'[q].pc = "answered" /\ invocation'[q].answer = "unsent")
        PROVE  sends'[q][Len(sends'[q])].fate = "none"
    <3>1. sends[q][Len(sends[q])].fate = "none"
      BY <1>1, <2>3 DEF Told, Running
    <3>2. At(q, "call") \/ At(q, "answered")
      BY <2>3 DEF Running, At
    <3>3. Len(sends[q]) \in DOMAIN sends[q]
      BY <3>2, LastSend
    <3> QED  BY <1>6, <1>8, <3>1, <3>3
  <2> QED  BY <2>1, <2>2, <2>3 DEF Told
<1>13. ASSUME NEW q \in Requests PROVE Looked(q)'
  <2> SUFFICES ASSUME Running(q), invocation[q].pc = "send", NEW c \in Contents
               PROVE  /\ invocation[q].seen[c] = "removed" => chain'.piece[c] = "removed"
                      /\ ~chain.ended /\ invocation[q].seen[c] = "present" /\ chain'.piece[c] = "scheduled" =>
                            c \in Uncounted' \/ copy[c].req = q \/ Expected(q, c)'
    BY <1>7 DEF Looked, Running
  <2>1. CASE c \in sends[r][k].pieces
    <3>1. chain.piece[c] = "present"
      BY <2>1
    <3>2. invocation[q].seen[c] # "removed"
      BY <1>1, <3>1 DEF Looked
    <3>3. sends[r][k].st = "refused" => c \in Uncounted'
      BY <1>9, <2>1 DEF Uncounted
    <3>4. ASSUME sends[r][k].st = "sent", ~chain.ended, q # r PROVE Expected(q, c)'
      <4>1. copy[c].req = r
        BY <1>1, <2>1, <3>4 DEF Covered
      <4>2. req[r] \in {"submitted", "queued", "settled"}
        BY <1>1, <3>4 DEF Told
      <4>3. req[r] = "submitted"
        BY <1>1, <3>1, <3>4, <4>1, <4>2 DEF Waiting
      <4> QED  BY <1>8, <2>1, <3>4, <4>3 DEF Expected
    <3>5. sends[r][k].st = "sent" => copy[c].req = r
      BY <1>1, <2>1 DEF Covered
    <3> QED  BY <1>5, <3>2, <3>3, <3>4, <3>5
  <2>2. CASE c \notin sends[r][k].pieces
    <3>1. chain'.piece[c] = chain.piece[c]
      BY <1>7, <2>2
    <3>2. Expected(q, c) => Expected(q, c)'
      BY <1>8 DEF Expected
    <3> QED  BY <1>1, <1>9, <3>1, <3>2 DEF Looked
  <2> QED  BY <2>1, <2>2
<1> QED  BY <1>11, <1>12, <1>13 DEF QueueIInv

\* A transaction is mined.
LEMMA MinedQueue ==
    ASSUME RemovalIInv, QueueIInv, TypeOK', NEW r \in Requests, NEW k \in DOMAIN sends[r],
           Lands(r, k) \/ TransactionFails(r, k)
    PROVE  QueueIInv'
<1>1. CASE TransactionFails(r, k)
  BY <1>1, FailsQueue DEF TransactionFails, world
<1>2. CASE Lands(r, k)
  <2>1. sends[r][k].fate = "held" /\ UNCHANGED <<copy, req, task, invocation, start>>
    BY <1>2 DEF Lands
  <2>2. \/ sends' = [sends EXCEPT ![r][k].fate = "failed"] /\ chain' = chain
        \/ /\ sends' = [sends EXCEPT ![r][k].fate = "ok"]
           /\ chain' = [chain EXCEPT !.piece = [c \in Contents |-> IF c \in sends[r][k].pieces THEN "scheduled" ELSE chain.piece[c]]]
           /\ \A c \in sends[r][k].pieces : chain.piece[c] = "present"
    BY <1>2 DEF Lands, RemovalIInv, TypeOK
  <2> QED  BY <2>1, <2>2, FailsQueue, LandsQueue
<1> QED  BY <1>1, <1>2

\* Pieces are removed, or the service ends.
LEMMA ChainQueue ==
    ASSUME RemovalIInv, QueueIInv, TypeOK', ProvingPeriod \/ ServiceEnds \/ DataSetGone
    PROVE  QueueIInv'
<1>1. TypeOK /\ UNCHANGED <<copy, req, sends, task, invocation, start>>
  BY DEF RemovalIInv, ProvingPeriod, ServiceEnds, DataSetGone
<1>2. ChainGoes
  <2>1. CASE ProvingPeriod
    <3>1. chain'.ended = chain.ended /\ chain'.piece = [c \in Contents |-> IF chain.piece[c] = "scheduled" THEN "removed" ELSE chain.piece[c]]
      BY <1>1, <2>1 DEF ProvingPeriod, TypeOK
    <3> QED  BY <1>1, <3>1 DEF ChainGoes
  <2>2. CASE ServiceEnds
    <3>1. chain'.ended = TRUE /\ chain'.piece = chain.piece
      BY <1>1, <2>2 DEF ServiceEnds, TypeOK
    <3> QED  BY <1>1, <3>1 DEF ChainGoes
  <2>3. CASE DataSetGone
    <3>1. chain'.ended = chain.ended /\ chain'.piece = [c \in Contents |-> "removed"]
      BY <1>1, <2>3 DEF DataSetGone, TypeOK
    <3> QED  BY <1>1, <3>1 DEF ChainGoes
  <2> QED  BY <2>1, <2>2, <2>3
<1>3. ASSUME NEW q \in Requests PROVE SignedStay(q) /\ Told(q)' /\ Waiting(q)' /\ Watching(q) /\ Lasting(q)
  <2>1. Told(q) /\ Waiting(q)
    BY DEF QueueIInv
  <2>2. SignedStay(q) /\ Told(q)'
    BY <1>1, <2>1 DEF SignedStay, Told, Running
  <2>3. Waiting(q)'
    BY <1>1, <1>2, <2>1 DEF Waiting, ChainGoes
  <2>4. Watching(q) /\ Lasting(q)
    BY <1>1 DEF Watching, Lasting, Running
  <2> QED  BY <2>2, <2>3, <2>4
<1> QED  BY <1>1, <1>2, <1>3, QueueFrame

\* An old deletion gets a request: its piece was never counted.
LEMMA AdoptsQueue == ASSUME RemovalIInv, QueueIInv, TypeOK', NEW c \in Contents, CleanupAdopts(c) PROVE QueueIInv'
<1>0. PICK r \in Unused : r = Min(Unused)
  BY FirstUnused DEF CleanupAdopts
<1>1. TypeOK /\ Sealing /\ copy[c].req = 0 /\ copy[c].old /\ UNCHANGED <<chain, start, invocation>>
  BY DEF RemovalIInv, CleanupAdopts, Unattached, world
<1>2. r \in Requests /\ req[r] = "none" /\ sends[r] = <<>> /\ ~Running(r)
  BY <1>0, <1>1 DEF Sealing, Unused, Running
<1>3. /\ copy' = [copy EXCEPT ![c].req = r] /\ req' = [req EXCEPT ![r] = "submitted"] /\ task' = [task EXCEPT ![r] = Fresh]
      /\ \E s \in [pieces : {{c}}, st : {"sent"}, hash : {TRUE}, reverted : {FALSE}, fate : {"held", "failed", "ok"}] :
            sends' = [sends EXCEPT ![r] = <<s>>]
  BY <1>0 DEF CleanupAdopts
<1>4. PICK s \in [pieces : {{c}}, st : {"sent"}, hash : {TRUE}, reverted : {FALSE}, fate : {"held", "failed", "ok"}] :
         sends' = [sends EXCEPT ![r] = <<s>>]
  BY <1>3
<1>5. sends'[r] = <<s>> /\ \A q \in Requests : q # r => sends'[q] = sends[q]
  BY <1>1, <1>2, <1>4 DEF TypeOK
<1>6. /\ DOMAIN sends'[r] = {1} /\ sends'[r][1].pieces = {c} /\ sends'[r][1].st = "sent" /\ ~sends'[r][1].reverted
      /\ DOMAIN sends[r] = {}
  <2>1. DOMAIN sends'[r] = 1..1 /\ sends'[r][1] = s
    BY <1>5
  <2>2. s.pieces = {c} /\ s.st = "sent" /\ s.reverted = FALSE
    OBVIOUS
  <2>3. DOMAIN sends[r] = 1..0
    BY <1>2
  <2> QED  BY <2>1, <2>2, <2>3
<1>7. req'[r] = "submitted" /\ \A q \in Requests : q # r => req'[q] = req[q] /\ task'[q] = task[q]
  BY <1>1, <1>2, <1>3 DEF TypeOK
<1>8. ~Running(r)' /\ \A q \in Requests : q # r => (Running(q)' <=> Running(q))
  <2>1. task'[r] = Fresh
    BY <1>1, <1>2, <1>3 DEF TypeOK
  <2> QED  BY <1>7, <2>1, FreshTyped DEF Running
<1>9. \A d \in Contents : copy'[d].old = copy[d].old /\ (copy'[d].req = copy[d].req \/ (copy[d].req = 0 /\ copy'[d].req = r))
  BY <1>1, <1>2, <1>3 DEF TypeOK, Copy
<1>10. \A q \in Requests, d \in Contents : q # r => (copy'[d].req = q <=> copy[d].req = q)
  BY <1>9, RemovalAssumption
<1>11. Uncounted \subseteq Uncounted'
  <2> SUFFICES ASSUME NEW d \in Uncounted PROVE d \in Uncounted'
    OBVIOUS
  <2>1. CASE copy[d].old
    BY <1>9, <2>1 DEF Uncounted
  <2>2. CASE \E q \in Requests : \E k \in DOMAIN sends[q] : sends[q][k].st = "refused" /\ d \in sends[q][k].pieces
    <3>1. PICK q \in Requests : \E k \in DOMAIN sends[q] : sends[q][k].st = "refused" /\ d \in sends[q][k].pieces
      BY <2>2
    <3>2. sends'[q] = sends[q]
      BY <1>5, <1>6, <3>1
    <3> QED  BY <3>1, <3>2 DEF Uncounted
  <2> QED  BY <2>1, <2>2 DEF Uncounted
<1>12. Committed' \subseteq Committed
  <2> SUFFICES ASSUME NEW d \in Committed' PROVE d \in Committed
    OBVIOUS
  <2>1. d \in Contents /\ d \notin Uncounted' /\ (chain.piece[d] = "scheduled" \/ (chain.piece[d] = "present" /\ d \in Coming'))
    BY <1>1 DEF Committed
  <2>2. d \notin Uncounted /\ d # c
    BY <1>1, <1>9, <1>11, <2>1 DEF Uncounted
  <2>3. d \in Coming' => d \in Coming
    BY <1>5, <1>6, <2>2 DEF Coming
  <2> QED  BY <2>1, <2>2, <2>3 DEF Committed
<1>13. QueueBound'
  BY <1>1, <1>12, BoundStays DEF QueueIInv
<1>14. ASSUME NEW q \in Requests PROVE Told(q)' /\ Waiting(q)' /\ Watching(q) /\ Lasting(q)
  <2>1. Told(q) /\ Waiting(q)
    BY DEF QueueIInv
  <2>2. CASE q = r
    <3>1. Told(r)'
      BY <1>6, <1>7, <1>8 DEF Told
    <3>2. Waiting(r)' /\ Watching(r) /\ Lasting(r)
      BY <1>2, <1>7, <1>8 DEF Waiting, Watching, Lasting
    <3> QED  BY <2>2, <3>1, <3>2
  <2>3. CASE q # r
    <3>1. Told(q)'
      BY <1>1, <1>5, <1>7, <1>8, <2>1, <2>3 DEF Told
    <3>2. Waiting(q)' /\ Lasting(q)
      BY <1>1, <1>7, <1>10, <2>1, <2>3 DEF Waiting, Lasting
    <3>3. Watching(q)
      BY <1>1, <1>8, <1>10, <2>3 DEF Watching
    <3> QED  BY <3>1, <3>2, <3>3
  <2> QED  BY <2>2, <2>3
<1>15. ASSUME NEW q \in Requests, NEW k \in DOMAIN sends[q]
       PROVE  /\ k \in DOMAIN sends'[q] /\ sends'[q][k] = sends[q][k] /\ sends[q][k].st \in {"sent", "refused", "unsent"}
  BY <1>1, <1>5, <1>6, SendTyped
<1>16. ChainGoes
  BY <1>1 DEF ChainGoes
<1>17. \A q \in Requests : Looked(q)'
  BY <1>11, <1>14, <1>15, <1>16, LookedStays DEF QueueIInv
<1> QED  BY <1>13, <1>14, <1>17 DEF QueueIInv

\* What Room counts: everything that is committed once the send is out.
LEMMA RoomCounts ==
    ASSUME RemovalIInv, QueueIInv, NEW r \in Requests, At(r, "send"), ~chain.ended,
           NEW c \in Contents \ Uncounted,
           \/ chain.piece[c] = "scheduled"
           \/ chain.piece[c] = "present" /\ c \in Coming
    PROVE  \/ c \in Scheduled(invocation[r].seen) \/ c \in Selected(r)
           \/ \E q \in Requests \ {r} : /\ c \in InFlight(q)
                                        /\ req[q] = "submitted" \/ (req[q] = "queued" /\ q \in invocation[r].later)
<1>1. /\ TypeOK /\ RemovedIsGone /\ \A q \in Requests : Told(q) /\ Waiting(q) /\ Looked(q) /\ Covered(q) /\ Viewed(q)
      /\ Running(r) /\ invocation[r].pc = "send" /\ invocation[r] \in RemovalInvocation
  BY AtFinds DEF RemovalIInv, QueueIInv
<1>2. invocation[r].seen[c] \in {"present", "scheduled", "removed"}
  BY <1>1 DEF RemovalInvocation
<1>3. copy[c].req = r /\ invocation[r].seen[c] = "present" => c \in Selected(r)
  BY <1>1 DEF Selected, Present, Members, RemovedIsGone
<1>4. ASSUME NEW q \in Requests \ {r}, NEW k \in DOMAIN sends[q], c \in sends[q][k].pieces, sends[q][k].st = "sent",
             sends[q][k].fate # "failed"
      PROVE  c \in InFlight(q)
  <2>1. ~sends[q][k].reverted
    BY <1>1, <1>4 DEF Told
  <2> QED  BY <1>4, <2>1 DEF InFlight
<1>5. CASE chain.piece[c] = "scheduled"
  <2>1. invocation[r].seen[c] # "removed"
    BY <1>1, <1>5 DEF Looked
  <2>2. CASE invocation[r].seen[c] = "scheduled"
    BY <2>2 DEF Scheduled
  <2>3. CASE invocation[r].seen[c] = "present"
    <3>1. copy[c].req = r \/ Expected(r, c)
      BY <1>1, <1>5, <2>3 DEF Looked
    <3>2. CASE Expected(r, c)
      <4>1. PICK q \in Requests \ {r} : \E k \in DOMAIN sends[q] :
               /\ c \in sends[q][k].pieces /\ sends[q][k].st = "sent" /\ sends[q][k].fate = "ok"
               /\ req[q] = "submitted" \/ (req[q] = "queued" /\ q \in invocation[r].later)
        BY <3>2 DEF Expected
      <4> QED  BY <1>4, <4>1
    <3> QED  BY <1>3, <2>3, <3>1, <3>2
  <2> QED  BY <1>2, <2>1, <2>2, <2>3
<1>6. CASE chain.piece[c] = "present" /\ c \in Coming
  <2>1. invocation[r].seen[c] = "present"
    BY <1>1, <1>6 DEF Viewed
  <2>2. PICK q \in Requests : \E k \in DOMAIN sends[q] :
           sends[q][k].st = "sent" /\ sends[q][k].fate \in {"none", "held"} /\ c \in sends[q][k].pieces
    BY <1>6 DEF Coming
  <2>3. copy[c].req = q
    BY <1>1, <2>2 DEF Covered
  <2>4. CASE q = r
    BY <1>3, <2>1, <2>3, <2>4
  <2>5. CASE q # r
    <3>1. req[q] \in {"submitted", "queued", "settled"}
      BY <1>1, <2>2 DEF Told
    <3>2. req[q] = "submitted"
      BY <1>1, <1>6, <2>3, <3>1 DEF Waiting
    <3> QED  BY <1>4, <2>2, <2>5, <3>2
  <2> QED  BY <2>4, <2>5
<1> QED  BY <1>5, <1>6

\* Three sets that fit together.
LEMMA ThreeFit ==
    ASSUME NEW A, NEW B, NEW C, IsFiniteSet(A), IsFiniteSet(B), IsFiniteSet(C), NEW n \in Nat,
           Cardinality(A) + Cardinality(B) + Cardinality(C) <= n, NEW S \in SUBSET (A \union B \union C)
    PROVE  Cardinality(S) <= n
<1> DEFINE AB == A \union B
           ABC == AB \union C
<1>1. /\ IsFiniteSet(AB) /\ Cardinality(AB) = Cardinality(A) + Cardinality(B) - Cardinality(A \intersect B)
      /\ IsFiniteSet(A \intersect B)
  BY FS_Union, FS_Intersection
<1> HIDE DEF AB
<1>2. /\ IsFiniteSet(ABC) /\ Cardinality(ABC) = Cardinality(AB) + Cardinality(C) - Cardinality(AB \intersect C)
      /\ IsFiniteSet(AB \intersect C)
  BY <1>1, FS_Union, FS_Intersection, Zenon
<1>3. S \subseteq ABC
  BY DEF AB
<1> HIDE DEF ABC
<1>4. Cardinality(S) <= Cardinality(ABC) /\ IsFiniteSet(S)
  BY <1>2, <1>3, FS_Subset
<1>5. /\ Cardinality(A) \in Nat /\ Cardinality(B) \in Nat /\ Cardinality(C) \in Nat /\ Cardinality(A \intersect B) \in Nat
      /\ Cardinality(AB \intersect C) \in Nat /\ Cardinality(AB) \in Nat /\ Cardinality(ABC) \in Nat /\ Cardinality(S) \in Nat
  BY <1>1, <1>2, <1>4, FS_CardinalityType
<1> QED  BY <1>1, <1>2, <1>4, <1>5

\* A send is admitted: Room left space for it.
LEMMA AdmitQueue == ASSUME RemovalIInv, QueueIInv, TypeOK', NEW r \in Requests, AdmitRemovalSend(r) PROVE QueueIInv'
<1> DEFINE n == Len(sends[r])
           s == [pieces |-> Selected(r), st |-> "sent", hash |-> FALSE, reverted |-> FALSE, fate |-> "none"]
<1>1. TypeOK /\ At(r, "send") /\ Room(r) /\ UNCHANGED <<copy, chain, start>>
  BY DEF RemovalIInv, AdmitRemovalSend, world
<1>2. /\ sends[r] \in Seq(Send) /\ Running(r) /\ invocation[r].pc = "send" /\ invocation[r] \in RemovalInvocation
      /\ req[r] \in {"ready", "submitted"} /\ task[r] \in Task
  BY <1>1, AtFinds
<1>3. /\ sends'[r] = Append(sends[r], s) /\ \A q \in Requests : q # r => sends'[q] = sends[q]
  BY <1>1 DEF AdmitRemovalSend, TypeOK
<1>4. s.st = "sent" /\ s.fate = "none" /\ s.reverted = FALSE /\ s.pieces = Selected(r)
  OBVIOUS
<1> HIDE DEF s
<1>5. /\ n \in Nat /\ DOMAIN sends[r] = 1..n /\ DOMAIN sends'[r] = 1..(n + 1) /\ Len(sends'[r]) = n + 1
      /\ sends'[r][n + 1] = s /\ \A j \in 1..n : sends'[r][j] = sends[r][j]
  BY <1>2, <1>3
<1> HIDE DEF n
<1>6. ASSUME NEW q \in Requests, NEW j \in DOMAIN sends[q] PROVE j \in DOMAIN sends'[q] /\ sends'[q][j] = sends[q][j]
  BY <1>3, <1>5
<1>7. req'[r] = "submitted" /\ \A q \in Requests : q # r => req'[q] = req[q] /\ task'[q] = task[q] /\ invocation'[q] = invocation[q]
  BY <1>1 DEF AdmitRemovalSend, Goes, TypeOK
<1>8. invocation'[r].pc = "call"
  BY <1>1, <1>2 DEF AdmitRemovalSend, Goes, TypeOK, RemovalInvocation
<1>9. Uncounted \subseteq Uncounted'
  BY <1>1, <1>6 DEF Uncounted
<1>10. ASSUME NEW q \in Requests PROVE Told(q)' /\ Waiting(q)' /\ Watching(q) /\ Lasting(q)
  <2>1. Told(q) /\ Waiting(q)
    BY DEF QueueIInv
  <2>2. CASE q = r
    <3>1. ASSUME NEW j \in DOMAIN sends'[r]
          PROVE  /\ sends'[r][j].reverted => sends'[r][j].fate = "failed"
                 /\ sends'[r][j].st = "unsent" => sends'[r][j].fate = "none"
      <4>1. CASE j = n + 1
        BY <1>4, <1>5, <4>1
      <4>2. CASE j # n + 1
        <5>1. j \in 1..n
          BY <1>5, <4>2
        <5> QED  BY <1>5, <2>1, <2>2, <5>1 DEF Told
      <4> QED  BY <4>1, <4>2
    <3>2. sends'[r][Len(sends'[r])].fate = "none"
      BY <1>4, <1>5
    <3>3. Told(r)'
      BY <1>7, <3>1, <3>2 DEF Told
    <3>4. Waiting(r)' /\ Watching(r) /\ Lasting(r)
      BY <1>2, <1>7, <1>8 DEF Waiting, Watching, Lasting
    <3> QED  BY <2>2, <3>3, <3>4
  <2>3. CASE q # r
    <3>1. Told(q)'
      BY <1>3, <1>7, <2>1, <2>3 DEF Told, Running
    <3>2. Waiting(q)' /\ Lasting(q)
      BY <1>1, <1>7, <2>1, <2>3 DEF Waiting, Lasting
    <3>3. Watching(q)
      BY <1>1, <1>7, <2>3 DEF Watching, Running
    <3> QED  BY <3>1, <3>2, <3>3
  <2> QED  BY <2>2, <2>3
<1>11. \A q \in Requests : \A k \in DOMAIN sends[q] : sends[q][k].st \in {"sent", "refused", "unsent"}
  BY <1>1, SendTyped
<1>12. ChainGoes
  BY <1>1 DEF ChainGoes
<1>13. \A q \in Requests : Looked(q)'
  BY <1>6, <1>9, <1>10, <1>11, <1>12, LookedStays DEF QueueIInv
<1>14. ASSUME ~chain.ended PROVE Cardinality(Committed') <= start.queue
  <2> DEFINE others == {q \in Requests \ {r} : req[q] = "submitted" \/ (req[q] = "queued" /\ q \in invocation[r].later)}
             A == Scheduled(invocation[r].seen)
             B == UNION {InFlight(q) : q \in others}
             new == Committed'
  <2>1. Cardinality(A) + Cardinality(B) + Cardinality(Selected(r)) <= start.queue
    BY <1>1 DEF Room
  <2>2. A \subseteq Contents /\ Selected(r) \subseteq Contents /\ B \subseteq Contents
    <3>1. A \subseteq Contents /\ Selected(r) \subseteq Contents
      BY DEF Scheduled, Selected, Present, Members
    <3>2. \A q \in Requests : InFlight(q) \subseteq Contents
      BY <1>1, SendTyped DEF InFlight
    <3> QED  BY <3>1, <3>2
  <2>3. ASSUME NEW c \in new PROVE c \in A \union B \union Selected(r)
    <3>1. c \in Contents /\ c \notin Uncounted /\ (chain.piece[c] = "scheduled" \/ (chain.piece[c] = "present" /\ c \in Coming'))
      BY <1>1, <1>9 DEF Committed
    <3>2. c \in Coming' => c \in Coming \/ c \in Selected(r)
      <4> SUFFICES ASSUME c \in Coming', c \notin Selected(r) PROVE c \in Coming
        OBVIOUS
      <4>1. PICK q \in Requests : \E k \in DOMAIN sends'[q] :
               sends'[q][k].st = "sent" /\ sends'[q][k].fate \in {"none", "held"} /\ c \in sends'[q][k].pieces
        BY DEF Coming
      <4>2. PICK k \in DOMAIN sends'[q] :
               sends'[q][k].st = "sent" /\ sends'[q][k].fate \in {"none", "held"} /\ c \in sends'[q][k].pieces
        BY <4>1
      <4>3. k \in DOMAIN sends[q]
        BY <1>3, <1>4, <1>5, <4>2
      <4> QED  BY <1>6, <3>1, <4>2, <4>3 DEF Coming
    <3>3. CASE c \in Selected(r)
      BY <3>3
    <3>4. CASE c \notin Selected(r)
      <4>1. \/ c \in A \/ c \in Selected(r)
            \/ \E q \in Requests \ {r} : /\ c \in InFlight(q)
                                         /\ req[q] = "submitted" \/ (req[q] = "queued" /\ q \in invocation[r].later)
        BY <1>1, <1>14, <3>1, <3>2, <3>4, RoomCounts
      <4> QED  BY <4>1
    <3> QED  BY <3>3, <3>4
  <2>4. start.queue \in Nat /\ IsFiniteSet(A) /\ IsFiniteSet(B) /\ IsFiniteSet(Selected(r))
    BY <1>1, <2>2, CommittedCounts
  <2> HIDE DEF A, B, new
  <2>5. new \in SUBSET (A \union B \union Selected(r))
    BY <2>3
  <2>6. Cardinality(new) <= start.queue
    BY <2>1, <2>4, <2>5, ThreeFit
  <2> QED  BY <2>6 DEF new
<1>15. QueueBound'
  BY <1>1, <1>14 DEF QueueBound
<1> QED  BY <1>10, <1>13, <1>15 DEF QueueIInv

\* At first nothing is on its way, and what is scheduled nobody counted.
LEMMA QueueStarts == ASSUME Init PROVE QueueIInv
<1>1. RemovalIInv /\ TypeOK
  BY RemovalStarts DEF RemovalIInv
<1>2. /\ \A r \in Requests : sends[r] = <<>> /\ req[r] = "none" /\ ~Running(r)
      /\ start.old \subseteq Contents /\ \A c \in Contents : copy[c].old = (c \in start.old)
  <2>1. \A r \in Requests : sends[r] = <<>> /\ req[r] = "none"
    BY DEF Init
  <2>2. \A r \in Requests : ~Running(r)
    BY <1>1, <2>1 DEF RemovalIInv, Sealing, Running
  <2> QED  BY <2>1, <2>2, RemovalAssumption DEF Init
<1>3. \A c \in Contents : chain.piece[c] = "scheduled" => c \in start.old
  BY DEF Init
<1>4. Committed = {}
  <2>1. \A r \in Requests : DOMAIN sends[r] = {}
    BY <1>2
  <2>2. Coming = {} /\ \A c \in start.old : c \in Uncounted
    BY <1>2, <2>1 DEF Uncounted, Coming
  <2> QED  BY <1>3, <2>2 DEF Committed
<1>5. QueueBound
  BY <1>1, <1>4, FS_EmptySet, CommittedCounts DEF QueueBound
<1>6. \A r \in Requests : Told(r) /\ Waiting(r) /\ Looked(r)
  BY <1>2 DEF Told, Waiting, Looked
<1> QED  BY <1>5, <1>6 DEF QueueIInv

\* Every step keeps the bound and what it rests on.
LEMMA QueueStep == RemovalIInv /\ QueueIInv /\ [Next]_vars => QueueIInv'
<1> SUFFICES ASSUME RemovalIInv, QueueIInv, [Next]_vars PROVE QueueIInv'
  OBVIOUS
<1>1. TypeOK'
  BY RemovalStep DEF RemovalIInv
<1>2. CASE UNCHANGED vars
  BY <1>1, <1>2, RestingQueue DEF vars, Undisturbed, Running
<1>3. ASSUME NEW c \in Contents, Cleanup(c) \/ RetryCleanup(c) \/ ReferenceEnds(c) PROVE QueueIInv'
  <2>1. CASE CleanupJoins(c) \/ CleanupAdopts(c)
    BY <1>1, <2>1, JoinsQueue, AdoptsQueue
  <2>2. CASE CleanupFails(c) \/ CleanupFinalizes(c) \/ CleanupCompletes(c) \/ RetryCleanup(c) \/ ReferenceEnds(c)
    BY <1>1, <2>2, CleaningQueue
  <2> QED  BY <1>3, <2>1, <2>2 DEF Cleanup
<1>4. ASSUME NEW r \in Requests, Removal(r) \/ RetryRemoval(r) PROVE QueueIInv'
  <2>1. CASE Ends(r) \/ RetryRemoval(r) \/ Seal(r)
    BY <1>1, <2>1, TasksQueue, SealQueue
  <2>2. CASE MarkRemoved(r) \/ Queued(r) \/ Lookup(r) \/ CheckReceipt(r)
    BY <1>1, <2>2, ChangesQueue, QueuedQueue, ReceiptQueue
  <2>3. CASE AllQueued(r) \/ ResumeLookup(r) \/ Stops(r) \/ Preflight(r) \/ NoRoom(r) \/ ReadFails(r)
    BY <1>1, <2>3, HandlerQueue
  <2>4. CASE AdmitRemovalSend(r) \/ Call(r) \/ CallFails(r) \/ Record(r)
    BY <1>1, <2>4, AdmitQueue, CallQueue, RecordQueue
  <2> QED  BY <1>4, <2>1, <2>2, <2>3, <2>4 DEF Removal, Handler
<1>5. ASSUME NEW r \in Requests, NEW k \in DOMAIN sends[r], Lands(r, k) \/ TransactionFails(r, k) PROVE QueueIInv'
  BY <1>1, <1>5, MinedQueue
<1>6. CASE RemovalCrash
  BY <1>1, <1>6, CrashQueue
<1>7. CASE ProvingPeriod \/ ServiceEnds \/ DataSetGone
  BY <1>1, <1>7, ChainQueue
<1> QED  BY <1>2, <1>3, <1>4, <1>5, <1>6, <1>7 DEF Next

\* What is signed is watched over by its own request, and with the deletions that are
\* on their way the scheduled pieces never exceed what the contract takes.
THEOREM SignedKept == Spec => []SignaturesKept
<1>1. Init => QueueIInv
  BY QueueStarts
<1>2. RemovalIInv /\ QueueIInv /\ [Next]_vars => QueueIInv'
  BY QueueStep
<1>3. QueueIInv /\ SignaturesWatched => SignaturesKept
  BY DEF QueueIInv, SignaturesKept
<1> QED  BY <1>1, <1>2, <1>3, RemovalInductive, Watched, PTL DEF Spec
=============================================================================
