-------------------------- MODULE SmallPartsProofs --------------------------
(***************************************************************************)
(* Proofs about CacheGate, for every set of users, keys and entries, about *)
(* TaskSchedule, for every number of tasks and operators, and about        *)
(* DataSetCreate, for every set of client IDs, every limit on attempts and *)
(* every number of rounds, faults and crashes.                             *)
(*                                                                         *)
(* That one data set is created at most rests on the client ID.  It is     *)
(* recorded on the row with the admission of the first request and never   *)
(* changes after that, because every invocation works from the task's      *)
(* checkpoint, and the checkpoint and the row name the same one.  So every *)
(* request carries it, and the chain accepts it once.                      *)
(***************************************************************************)
EXTENDS CacheGate, TaskSchedule, DataSetCreate, FiniteSetTheorems, TLAPS

\* A user outside the gate, or inside it with a key and its entry.
InGate(u) ==
  IF user[u].pc = "idle" THEN user[u] = IdleUser
  ELSE user[u].key \in Keys /\ user[u].entry \in Entries

\* The users of one entry's semaphore.
SemInv(e) ==
  /\ \A u, v \in Holders(e) : u # v => user[u].mode = "read"
  /\ \A u, v \in Queue(e) : u = v \/ u \in user[v].ahead \/ v \in user[u].ahead

AheadInv(u) ==
  /\ user[u].ahead \subseteq
       IF user[u].pc = "waiting" THEN Queue(user[u].entry) \ {u} ELSE {}
  /\ \A v \in user[u].ahead : user[v].ahead \subseteq user[u].ahead

Injective == \A k, l \in Keys : entries[k] = entries[l] /\ entries[k] # NoEntry => k = l

\* GateInv, conjunct by conjunct.
LEMMA GateInvParts ==
  GateInv <=> /\ TypeOK /\ EntryInUse /\ Injective
              /\ \A u \in Users : InGate(u) /\ AheadInv(u)
              /\ \A e \in Entries : SemInv(e)
BY DEF GateInv, InGate, SemInv, AheadInv, Injective

\* The step moves users about their semaphores and touches nothing else.
SameUse ==
  /\ entries' = entries /\ refs' = refs
  /\ \A v \in Users :
       /\ user'[v].key = user[v].key /\ user'[v].entry = user[v].entry
       /\ user'[v].mode = user[v].mode
       /\ user[v].pc = "idle" => user'[v] = user[v]
       /\ user[v].pc # "idle" => user'[v].pc # "idle"

\* Such a step keeps what GateInv says about entries and their counts.
LEMMA UseKept ==
  ASSUME GateInv, SameUse
  PROVE  /\ EntryInUse' /\ Injective'
         /\ \A u \in Users : InGate(u)'
         /\ \A e \in Entries : UsersOf(e)' = UsersOf(e)
<1>1. \A e \in Entries : UsersOf(e)' = UsersOf(e)
  BY DEF SameUse, UsersOf
<1>2. EntryInUse'
  BY <1>1 DEF GateInv, EntryInUse, SameUse
<1>3. Injective'
  BY DEF GateInv, Injective, SameUse
<1>4. ASSUME NEW u \in Users PROVE InGate(u)'
  BY GateInvParts DEF SameUse, InGate
<1> QED
  BY <1>1, <1>2, <1>3, <1>4

\* A batch granted by notifyWaiters fits together with those who hold already:
\* in a totally ordered queue each of the batch was tried with the ones ahead.
LEMMA GrantedFit ==
  ASSUME NEW Q, NEW H,
         \A u, v \in Q : u = v \/ u \in user[v].ahead \/ v \in user[u].ahead,
         \A u, v \in H : u # v => user[u].mode = "read",
         H \cap Q = {},
         \A u \in H \cup Q : user[u].mode \in Modes
  PROVE  \A u, v \in H \cup Granted(Q, H) : u # v => user[u].mode = "read"
<1> SUFFICES ASSUME NEW u \in H \cup Granted(Q, H), NEW v \in H \cup Granted(Q, H), u # v
             PROVE  user[u].mode = "read"
  OBVIOUS
<1>1. \A w \in Granted(Q, H) : w \in Q /\ Fits(w, H \cup (user[w].ahead \cap Q))
  BY DEF Granted
<1>2. ASSUME NEW w \in Granted(Q, H), NEW x \in H \cup (user[w].ahead \cap Q)
      PROVE  user[w].mode = "read" /\ user[x].mode = "read"
  <2>1. user[w].mode # "delete"
    BY <1>1, <1>2 DEF Fits
  <2> QED
    BY <1>1, <1>2, <2>1 DEF Fits, Modes
<1>3. CASE u \in H /\ v \in H
  BY <1>3
<1>4. CASE u \in H /\ v \in Granted(Q, H)
  BY <1>2, <1>4
<1>5. CASE u \in Granted(Q, H) /\ v \in H
  BY <1>2, <1>5
<1>6. CASE u \in Granted(Q, H) /\ v \in Granted(Q, H)
  <2>1. u \in Q /\ v \in Q
    BY <1>1, <1>6
  <2>2. u \in user[v].ahead \/ v \in user[u].ahead
    BY <2>1
  <2> QED
    BY <1>2, <1>6, <2>1, <2>2
<1> QED
  BY <1>3, <1>4, <1>5, <1>6

\* Holders that stay keep out whoever did not fit beside them.
LEMMA NotFitsKept ==
  ASSUME NEW v \in Users, NEW e \in Entries,
         Holders(e) \subseteq Holders(e)',
         \A w \in Holders(e) \cup {v} : user'[w].mode = user[w].mode,
         ~Fits(v, Holders(e))
  PROVE  ~Fits(v, Holders(e))'
BY DEF Fits

----------------------------------------------------------------------------
\* Everybody starts outside the gate.
LEMMA InitInv == Init => GateInv
<1> SUFFICES ASSUME Init PROVE GateInv
  OBVIOUS
<1>1. IdleUser \in Rows
  BY DEF IdleUser, Rows, Phases, Modes
<1>2. TypeOK
  BY <1>1 DEF Init, TypeOK
<1>3. \A e \in Entries : UsersOf(e) = {}
  BY GateAssumption DEF Init, UsersOf, IdleUser
<1>4. EntryInUse
  BY <1>3, GateAssumption, FS_EmptySet DEF Init, EntryInUse, IdleUser
<1>5. Injective
  BY DEF Init, Injective
<1>6. \A u \in Users : InGate(u) /\ AheadInv(u)
  BY DEF Init, InGate, AheadInv, IdleUser
<1>7. \A e \in Entries : SemInv(e)
  BY <1>3 DEF SemInv, Holders, Queue
<1> QED
  BY <1>2, <1>4, <1>5, <1>6, <1>7, GateInvParts

\* A user that changes phase without entering or leaving a queue; one that
\* becomes a holder is alone with the queue and compatible with the holders.
LEMMA BecomesInv ==
  ASSUME GateInv, NEW u \in Users, NEW pc \in {"held", "leaving"},
         user[u].pc \in {"entered", "granted"}, Becomes(u, pc),
         UNCHANGED <<entries, refs>>,
         pc = "leaving" => user[u].pc = "entered",
         pc = "held" => user[u].pc = "granted" \/ FastPath(u)
  PROVE  GateInv' /\ (NoLostWakeup => NoLostWakeup')
<1>1. TypeOK'
  BY DEF GateInv, TypeOK, Becomes, Rows, Phases
<1>2. \A v \in Users \ {u} : user'[v] = user[v]
  BY DEF GateInv, TypeOK, Becomes
<1>3. /\ user'[u].pc = pc /\ user'[u].key = user[u].key /\ user'[u].entry = user[u].entry
      /\ user'[u].mode = user[u].mode /\ user'[u].ahead = user[u].ahead
  BY DEF GateInv, TypeOK, Becomes, Rows
<1>4. SameUse
  BY <1>2, <1>3 DEF SameUse
<1>5. /\ EntryInUse' /\ Injective' /\ \A v \in Users : InGate(v)'
      /\ \A e \in Entries : UsersOf(e)' = UsersOf(e)
  BY <1>4, UseKept
<1>6. \A e \in Entries : Queue(e)' = Queue(e)
  BY <1>2, <1>3, <1>5 DEF Queue, UsersOf
<1>7. ASSUME NEW v \in Users PROVE AheadInv(v)'
  <2>1. AheadInv(v) /\ InGate(v)
    BY GateInvParts
  <2>2. user'[v].ahead = user[v].ahead /\ \A w \in user[v].ahead : user'[w].ahead = user[w].ahead
    BY <1>2, <1>3, <2>1 DEF AheadInv, Queue, UsersOf
  <2>3. CASE v = u
    BY <1>3, <2>1, <2>2, <2>3 DEF AheadInv
  <2>4. CASE v # u
    BY <1>2, <1>6, <2>1, <2>2, <2>4 DEF AheadInv, InGate
  <2> QED
    BY <2>3, <2>4
<1>8. ASSUME NEW e \in Entries PROVE SemInv(e)'
  <2>1. SemInv(e) /\ \A v \in UsersOf(e) : user[v].mode \in Modes
    BY GateInvParts DEF TypeOK, Rows, UsersOf
  <2>2. \A v, w \in Queue(e)' : v = w \/ v \in user'[w].ahead \/ w \in user'[v].ahead
    BY <1>2, <1>3, <1>6, <2>1 DEF SemInv, Queue, UsersOf
  <2>3. CASE user[u].entry # e \/ Holders(e)' \subseteq Holders(e)
    <3>1. Holders(e)' \subseteq Holders(e)
      BY <1>2, <1>3, <1>5, <2>3 DEF Holders, UsersOf
    <3> QED
      BY <1>2, <1>3, <2>1, <2>2, <3>1, <1>5 DEF SemInv, Holders, UsersOf
  <2>4. CASE user[u].entry = e /\ pc = "held" /\ user[u].pc = "granted"
    <3>1. Holders(e)' \subseteq Holders(e)
      BY <1>2, <1>3, <1>5, <2>4 DEF Holders, UsersOf
    <3> QED
      BY <2>3, <3>1
  <2>5. CASE user[u].entry = e /\ pc = "held" /\ FastPath(u)
    <3>1. Holders(e)' \subseteq Holders(e) \cup {u}
      BY <1>2, <1>3, <1>5, <2>5 DEF Holders, UsersOf
    <3>2. Fits(u, Holders(e))
      BY <2>5 DEF FastPath
    <3>3. ASSUME NEW v \in Holders(e)', NEW w \in Holders(e)', v # w
          PROVE  user'[v].mode = "read"
      <4>1. user'[v].mode = user[v].mode /\ v \in UsersOf(e)
        BY <1>2, <1>3, <1>5, <3>3 DEF Holders, UsersOf
      <4>2. CASE v = u
        BY <3>1, <3>2, <3>3, <4>1, <4>2, <2>1 DEF Fits, Modes
      <4>3. CASE v # u
        BY <3>1, <3>2, <3>3, <4>1, <4>3, <2>1 DEF Fits, SemInv
      <4> QED
        BY <4>2, <4>3
    <3> QED
      BY <2>2, <3>3 DEF SemInv
  <2>6. CASE pc = "leaving"
    <3>1. Holders(e)' \subseteq Holders(e)
      BY <1>2, <1>3, <1>5, <2>6 DEF Holders, UsersOf
    <3> QED
      BY <2>3, <3>1
  <2> QED
    BY <2>3, <2>4, <2>5, <2>6
<1>9. ASSUME NoLostWakeup PROVE NoLostWakeup'
  <2> SUFFICES ASSUME NEW v \in Users, user'[v].pc = "waiting", user'[v].ahead = {}
               PROVE  ~Fits(v, Holders(user[v].entry))'
    BY DEF NoLostWakeup
  <2>1. v # u /\ user'[v] = user[v]
    BY <1>2, <1>3
  <2>2. user[v].entry \in Entries /\ ~Fits(v, Holders(user[v].entry))
    BY <1>9, <2>1, GateInvParts DEF NoLostWakeup, InGate
  <2>3. Holders(user[v].entry) \subseteq Users
    BY DEF Holders, UsersOf
  <2>4. \A e \in Entries : Holders(e) \subseteq Holders(e)'
    BY <1>2, <1>3, <1>5 DEF Holders, UsersOf
  <2>5. PICK e \in Entries : e = user[v].entry
    BY <2>2
  <2>6. ~Fits(v, Holders(e))'
    BY <1>2, <1>3, <2>2, <2>3, <2>4, <2>5, NotFitsKept
  <2> QED
    BY <2>1, <2>5, <2>6
<1> QED
  BY <1>9, <1>1, <1>5, <1>7, <1>8 DEF GateInv, InGate, SemInv, AheadInv, Injective

\* A user joins the end of its queue.
LEMMA WaitInv ==
  ASSUME GateInv, NEW u \in Users, user[u].pc = "entered", ~FastPath(u),
         user' = [user EXCEPT ![u] = [user[u] EXCEPT !.pc = "waiting",
                                        !.ahead = Queue(user[u].entry)]],
         UNCHANGED <<entries, refs>>
  PROVE  GateInv' /\ (NoLostWakeup => NoLostWakeup')
<1> DEFINE rw == [user[u] EXCEPT !.pc = "waiting", !.ahead = Queue(user[u].entry)]
<1>t. TypeOK /\ user[u] \in Rows /\ Queue(user[u].entry) \in SUBSET Users
  BY DEF GateInv, TypeOK, Queue, UsersOf
<1>a. /\ rw \in Rows /\ rw.pc = "waiting" /\ rw.key = user[u].key
       /\ rw.entry = user[u].entry /\ rw.mode = user[u].mode
       /\ rw.ahead = Queue(user[u].entry)
  BY <1>t DEF Rows, Phases
<1>b. user' = [user EXCEPT ![u] = rw]
  OBVIOUS
<1> HIDE DEF rw
<1>1. TypeOK'
  BY <1>t, <1>a, <1>b DEF TypeOK
<1>2. \A v \in Users \ {u} : user'[v] = user[v]
  BY <1>t, <1>b DEF TypeOK
<1>3. /\ user'[u].pc = "waiting" /\ user'[u].key = user[u].key
      /\ user'[u].entry = user[u].entry /\ user'[u].mode = user[u].mode
      /\ user'[u].ahead = Queue(user[u].entry)
  BY <1>t, <1>a, <1>b DEF TypeOK
<1>4. SameUse
  BY <1>2, <1>3 DEF SameUse
<1>5. /\ EntryInUse' /\ Injective' /\ \A v \in Users : InGate(v)'
      /\ \A e \in Entries : UsersOf(e)' = UsersOf(e)
  BY <1>4, UseKept
<1>6. user[u].entry \in Entries /\ u \notin Queue(user[u].entry)
  BY GateInvParts DEF InGate, Queue
<1>7. \A e \in Entries :
        Queue(e)' = IF e = user[u].entry THEN Queue(e) \cup {u} ELSE Queue(e)
  BY <1>2, <1>3, <1>5, <1>6 DEF Queue, UsersOf
<1>8. \A e \in Entries : Holders(e)' = Holders(e)
  BY <1>2, <1>3, <1>5 DEF Holders, UsersOf
<1>9. ASSUME NEW v \in Users PROVE AheadInv(v)'
  <2>1. AheadInv(v) /\ InGate(v)
    BY GateInvParts
  <2>2. \A w \in Queue(user[u].entry) : w \in Users /\ AheadInv(w) /\ w # u
    BY <1>6, GateInvParts DEF Queue, UsersOf
  <2>3. CASE v = u
    <3>1. user'[v].ahead \subseteq Queue(user[u].entry)' \ {v}
      BY <1>3, <1>6, <1>7, <2>3
    <3>2. ASSUME NEW w \in user'[v].ahead PROVE user'[w].ahead \subseteq user'[v].ahead
      <4>1. w \in Queue(user[u].entry) /\ w # u /\ w \in Users
        BY <1>3, <2>2, <2>3, <3>2
      <4>2. user'[w].ahead = user[w].ahead /\ user[w].entry = user[u].entry
        BY <1>2, <4>1 DEF Queue, UsersOf
      <4>3. user[w].ahead \subseteq Queue(user[w].entry)
        BY <2>2, <4>1 DEF AheadInv
      <4> QED
        BY <1>3, <2>3, <4>2, <4>3
    <3> QED
      BY <1>3, <2>3, <3>1, <3>2 DEF AheadInv
  <2>4. CASE v # u
    <3>1. user'[v] = user[v]
      BY <1>2, <2>4
    <3>2. user[v].ahead \subseteq Users \ {u}
      BY <2>1, <1>6 DEF AheadInv, Queue, UsersOf
    <3>3. \A w \in user[v].ahead : user'[w].ahead = user[w].ahead
      BY <1>2, <3>2
    <3>4. user[v].pc = "waiting" => Queue(user[v].entry) \subseteq Queue(user[v].entry)'
      BY <1>7, <2>1, <3>1 DEF InGate
    <3> QED
      BY <2>1, <3>1, <3>3, <3>4 DEF AheadInv
  <2> QED
    BY <2>3, <2>4
<1>10. ASSUME NEW e \in Entries PROVE SemInv(e)'
  <2>1. SemInv(e)
    BY GateInvParts
  <2>2. \A v \in UsersOf(e) : user'[v].mode = user[v].mode
    BY <1>2, <1>3 DEF UsersOf
  <2>3. \A v, w \in Holders(e)' : v # w => user'[v].mode = "read"
    BY <1>8, <2>1, <2>2 DEF SemInv, Holders
  <2>4. \A v \in Queue(e) : user'[v].ahead = user[v].ahead /\ v # u
    BY <1>2 DEF Queue, UsersOf
  <2>5. \A v, w \in Queue(e)' : v = w \/ v \in user'[w].ahead \/ w \in user'[v].ahead
    BY <1>3, <1>7, <2>1, <2>4 DEF SemInv
  <2> QED
    BY <2>3, <2>5 DEF SemInv
<1>11. ASSUME NoLostWakeup PROVE NoLostWakeup'
  <2> SUFFICES ASSUME NEW v \in Users, user'[v].pc = "waiting", user'[v].ahead = {}
               PROVE  ~Fits(v, Holders(user[v].entry))'
    BY DEF NoLostWakeup
  <2>1. user[v].entry \in Entries /\ ~Fits(v, Holders(user[v].entry))
    <3>1. CASE v = u
      BY <1>3, <1>6, <3>1 DEF FastPath
    <3>2. CASE v # u
      BY <1>2, <1>11, <3>2, GateInvParts DEF NoLostWakeup, InGate
    <3> QED
      BY <3>1, <3>2
  <2>2. PICK e \in Entries : e = user[v].entry
    BY <2>1
  <2>3. Holders(e) \subseteq Users
    BY DEF Holders, UsersOf
  <2>4. ~Fits(v, Holders(e))'
    BY <1>2, <1>3, <1>8, <2>1, <2>2, <2>3, NotFitsKept
  <2> QED
    BY <1>2, <1>3, <2>2, <2>4
<1> QED
  BY <1>11, <1>1, <1>5, <1>9, <1>10 DEF GateInv, InGate, SemInv, AheadInv, Injective

\* A user leaves the semaphore, and notifyWaiters grants what now fits: to the
\* whole queue, or to nobody when one who was not first gave up.
LEMMA NotifyInv ==
  ASSUME GateInv, NEW u \in Users, user[u].pc \in {"waiting", "granted", "held"},
         NEW Q,
         \/ Q = Queue(user[u].entry) \ {u}
         \/ user[u].pc = "waiting" /\ user[u].ahead # {} /\ Q = {},
         Notify(u, Q, Holders(user[u].entry) \ {u}),
         UNCHANGED <<entries, refs>>
  PROVE  GateInv' /\ (NoLostWakeup => NoLostWakeup')
<1>a. PICK f : f = user[u].entry
  OBVIOUS
<1>b. PICK H : H = Holders(f) \ {u}
  OBVIOUS
<1>c. PICK G : G = Granted(Q, H)
  OBVIOUS
<1>d. /\ TypeOK /\ f \in Entries /\ u \in UsersOf(f) /\ user \in [Users -> Rows]
      /\ G \subseteq Q /\ Q \subseteq Queue(f) \ {u} /\ Queue(f) \subseteq UsersOf(f)
      /\ UsersOf(f) \subseteq Users
  BY <1>a, <1>c, GateInvParts DEF InGate, TypeOK, Granted, Queue, UsersOf
<1>e. user' = [v \in Users |->
             [user[v] EXCEPT !.pc = IF v = u THEN "leaving"
                                    ELSE IF v \in G THEN "granted" ELSE user[v].pc,
                             !.ahead = IF v \in G \cup {u} THEN {}
                                       ELSE user[v].ahead \ (G \cup {u})]]
  BY <1>a, <1>b, <1>c, <1>d DEF Notify
<1>1. ASSUME NEW v \in Users
      PROVE  /\ user'[v] \in Rows /\ user'[v].key = user[v].key
             /\ user'[v].entry = user[v].entry /\ user'[v].mode = user[v].mode
             /\ user'[v].blocking = user[v].blocking
             /\ user'[v].pc = IF v = u THEN "leaving"
                               ELSE IF v \in G THEN "granted" ELSE user[v].pc
             /\ user'[v].ahead = IF v \in G \cup {u} THEN {}
                                  ELSE user[v].ahead \ (G \cup {u})
  <2> DEFINE p == IF v = u THEN "leaving" ELSE IF v \in G THEN "granted" ELSE user[v].pc
             a == IF v \in G \cup {u} THEN {} ELSE user[v].ahead \ (G \cup {u})
  <2>1. user[v] \in Rows /\ user'[v] = [user[v] EXCEPT !.pc = p, !.ahead = a]
    BY <1>d, <1>e
  <2>2. p \in Phases /\ a \in SUBSET Users
    BY <2>1 DEF Rows, Phases
  <2> HIDE DEF p, a
  <2>3. /\ user'[v] \in Rows /\ user'[v].key = user[v].key
        /\ user'[v].entry = user[v].entry /\ user'[v].mode = user[v].mode
        /\ user'[v].blocking = user[v].blocking
        /\ user'[v].pc = p /\ user'[v].ahead = a
    BY <2>1, <2>2 DEF Rows
  <2> QED
    BY SMTT(30), <2>3 DEF p, a
<1>2. TypeOK'
  BY <1>d, <1>e, <1>1 DEF TypeOK
<1>3. \A v \in Users : user[v].pc = "idle" =>
        v \notin G \cup {u} /\ user[v] = IdleUser /\ user[v].ahead = {}
  BY <1>d, GateInvParts DEF Queue, InGate, IdleUser
<1>4. SameUse
  <2>1. ASSUME NEW v \in Users, user[v].pc = "idle" PROVE user'[v] = user[v]
    <3>1. v \notin G \cup {u} /\ user[v].ahead = {} /\ user[v] \in Rows
      BY <1>3, <1>d, <2>1
    <3>2. /\ user'[v].pc = user[v].pc /\ user'[v].ahead = user[v].ahead
          /\ user'[v].key = user[v].key /\ user'[v].entry = user[v].entry
          /\ user'[v].mode = user[v].mode /\ user'[v].blocking = user[v].blocking
          /\ user'[v] \in Rows
      BY <1>1, <3>1
    <3> QED
      BY <3>1, <3>2, SMTT(30) DEF Rows
  <2>2. ASSUME NEW v \in Users, user[v].pc # "idle" PROVE user'[v].pc # "idle"
    BY <1>1, <2>2
  <2> QED
    BY <1>1, <2>1, <2>2 DEF SameUse
<1>5. /\ EntryInUse' /\ Injective' /\ \A v \in Users : InGate(v)'
      /\ \A e \in Entries : UsersOf(e)' = UsersOf(e)
  BY <1>4, UseKept
<1>6. \A e \in Entries : Queue(e)' = Queue(e) \ (G \cup {u})
  <2> SUFFICES ASSUME NEW e \in Entries PROVE Queue(e)' = Queue(e) \ (G \cup {u})
    OBVIOUS
  <2>1. Queue(e)' = {v \in UsersOf(e) : user'[v].pc = "waiting"}
    BY <1>5 DEF Queue
  <2>2. \A v \in UsersOf(e) : v \in Users
    BY DEF UsersOf
  <2>3. \A v \in UsersOf(e) :
          user'[v].pc = "waiting" <=> user[v].pc = "waiting" /\ v \notin G \cup {u}
    BY <1>1, <2>2
  <2> QED
    BY <2>1, <2>3 DEF Queue
<1>7. \A e \in Entries :
        Holders(e)' = IF e = f THEN H \cup G ELSE Holders(e)
  <2> SUFFICES ASSUME NEW e \in Entries
               PROVE  Holders(e)' = IF e = f THEN H \cup G ELSE Holders(e)
    OBVIOUS
  <2>1. Holders(e)' = {v \in UsersOf(e) : user'[v].pc \in {"granted", "held"}}
    BY <1>5 DEF Holders
  <2>2. \A v \in UsersOf(e) : v \in Users /\ user[v].entry = e
    BY DEF UsersOf
  <2>3. \A v \in UsersOf(e) :
          user'[v].pc \in {"granted", "held"}
            <=> v # u /\ (v \in G \/ user[v].pc \in {"granted", "held"})
    BY <1>1, <2>2
  <2>4. \A v \in G \cup {u} : user[v].entry = f
    BY <1>a, <1>d DEF UsersOf
  <2>5. CASE e = f
    BY <1>b, <1>d, <2>1, <2>3, <2>5 DEF Holders
  <2>6. CASE e # f
    BY <2>1, <2>2, <2>3, <2>4, <2>6 DEF Holders
  <2> QED
    BY <2>5, <2>6
<1>8. ASSUME NEW v \in Users PROVE AheadInv(v)'
  <2>1. AheadInv(v) /\ InGate(v)
    BY GateInvParts
  <2>2. CASE v \in G \cup {u}
    BY <1>1, <2>2 DEF AheadInv
  <2>3. CASE v \notin G \cup {u}
    <3>1. /\ user'[v].ahead = user[v].ahead \ (G \cup {u}) /\ user'[v].pc = user[v].pc
          /\ user'[v].entry = user[v].entry
      BY <1>1, <2>3
    <3>2. user[v].pc = "waiting" => user[v].entry \in Entries
      BY <2>1 DEF InGate
    <3>3. user'[v].ahead \subseteq
            IF user'[v].pc = "waiting" THEN Queue(user[v].entry)' \ {v} ELSE {}
      BY <1>6, <2>1, <3>1, <3>2 DEF AheadInv
    <3>4. ASSUME NEW w \in user'[v].ahead PROVE user'[w].ahead \subseteq user'[v].ahead
      <4>1. w \in user[v].ahead /\ w \in Users /\ w \notin G \cup {u}
        BY <2>1, <3>1, <3>4 DEF AheadInv, Queue, UsersOf
      <4>2. user'[w].ahead = user[w].ahead \ (G \cup {u})
        BY <1>1, <4>1
      <4> QED
        BY <2>1, <3>1, <4>1, <4>2 DEF AheadInv
    <3> QED
      BY <3>1, <3>3, <3>4 DEF AheadInv
  <2> QED
    BY <2>2, <2>3
<1>9. ASSUME NEW e \in Entries PROVE SemInv(e)'
  <2>1. SemInv(e)
    BY GateInvParts
  <2>2. \A v, w \in Queue(e)' : v = w \/ v \in user'[w].ahead \/ w \in user'[v].ahead
    <3>1. \A v \in Queue(e)' : /\ v \in Queue(e) /\ v \notin G \cup {u}
                               /\ user'[v].ahead = user[v].ahead \ (G \cup {u})
      BY <1>1, <1>6 DEF Queue, UsersOf
    <3> QED
      BY <2>1, <3>1 DEF SemInv
  <2>3. \A v, w \in Holders(e)' : v # w => user'[v].mode = "read"
    <3>1. \A v \in Holders(e)' : v \in Users /\ user'[v].mode = user[v].mode
      BY <1>1, <1>5 DEF Holders, UsersOf
    <3>2. CASE e # f
      BY <1>7, <2>1, <3>1, <3>2 DEF SemInv
    <3>3. CASE e = f
      <4>1. /\ \A x, y \in Q : x = y \/ x \in user[y].ahead \/ y \in user[x].ahead
            /\ \A x, y \in H : x # y => user[x].mode = "read"
        BY <1>b, <1>d, <2>1, <3>3 DEF SemInv
      <4>2. H \cap Q = {} /\ \A x \in H \cup Q : user[x].mode \in Modes
        BY <1>b, <1>d DEF Holders, Queue, UsersOf, Rows
      <4>3. \A x, y \in H \cup G : x # y => user[x].mode = "read"
        BY <4>1, <4>2, <1>c, GrantedFit
      <4> QED
        BY <1>7, <3>1, <3>3, <4>3
    <3> QED
      BY <3>2, <3>3
  <2> QED
    BY <2>2, <2>3 DEF SemInv
<1>10. ASSUME NoLostWakeup PROVE NoLostWakeup'
  <2> SUFFICES ASSUME NEW v \in Users, user'[v].pc = "waiting", user'[v].ahead = {}
               PROVE  ~Fits(v, Holders(user[v].entry))'
    BY DEF NoLostWakeup
  <2>1. /\ v \notin G \cup {u} /\ user[v].pc = "waiting" /\ user'[v].entry = user[v].entry
        /\ user[v].ahead \subseteq G \cup {u} /\ user[v].mode = user'[v].mode
        /\ user[v].entry \in Entries /\ AheadInv(v)
    BY <1>1, GateInvParts DEF InGate
  <2>2. CASE user[v].entry # f
    <3>1. user[v].ahead = {}
      BY <1>d, <1>a, <2>1, <2>2 DEF AheadInv, Queue, UsersOf
    <3>2. ~Fits(v, Holders(user[v].entry))
      BY <1>10, <2>1, <3>1 DEF NoLostWakeup
    <3>3. PICK e \in Entries : e = user[v].entry /\ e # f
      BY <2>1, <2>2
    <3>4. Holders(e)' = Holders(e) /\ Holders(e) \subseteq Users
      BY <1>7, <3>3 DEF Holders, UsersOf
    <3>5. ~Fits(v, Holders(e))'
      BY <1>1, <3>2, <3>3, <3>4, NotFitsKept
    <3> QED
      BY <2>1, <3>3, <3>5
  <2>3. CASE user[v].entry = f
    <3>1. v \in Queue(f) \ {u}
      BY <2>1, <2>3 DEF Queue, UsersOf
    <3>2. /\ Holders(f)' = H \cup G /\ H \subseteq Users /\ G \subseteq Users
          /\ \A w \in Users : user'[w].mode = user[w].mode
      BY <1>1, <1>7, <1>b, <1>d DEF Holders, UsersOf
    <3>3. CASE Q = Queue(f) \ {u}
      <4>1. PICK x \in Q : /\ x = v \/ x \in user[v].ahead
                          /\ ~Fits(x, H \cup (user[x].ahead \cap Q))
        BY <1>c, <2>1, <3>1, <3>3 DEF Granted
      <4>2. x = v
        <5>1. x \notin G
          BY <1>c, <4>1 DEF Granted
        <5> QED
          BY <1>d, <2>1, <4>1, <5>1
      <4>3. ~Fits(v, H \cup G)
        BY <2>1, <4>1, <4>2, <1>d DEF Fits
      <4> QED
        BY <2>1, <2>3, <3>2, <4>3 DEF Fits
    <3>4. CASE user[u].pc = "waiting" /\ user[u].ahead # {} /\ Q = {}
      <4>1. G = {} /\ H = Holders(f)
        BY <1>b, <1>d, <3>4 DEF Holders
      <4>2. AheadInv(u) /\ u \notin user[u].ahead
        BY GateInvParts, <3>4 DEF AheadInv
      <4>3. user[v].ahead = {}
        BY <2>1, <3>4, <4>1, <4>2 DEF AheadInv
      <4>4. ~Fits(v, Holders(f))
        BY <1>10, <2>1, <2>3, <4>3 DEF NoLostWakeup
      <4> QED
        BY <2>1, <2>3, <3>2, <4>1, <4>4 DEF Fits
    <3> QED
      BY <3>3, <3>4, <1>a
  <2> QED
    BY <2>2, <2>3
<1> QED
  BY <1>10, <1>2, <1>5, <1>8, <1>9 DEF GateInv, InGate, SemInv, AheadInv, Injective

\* A user takes the entry of its key, an existing or a fresh one.
LEMMA AcquireInv ==
  ASSUME GateInv, NEW u \in Users, NEW k \in Keys, NEW mode \in Modes,
         NEW blocking \in BOOLEAN, Acquire(u, k, mode, blocking)
  PROVE  GateInv' /\ (NoLostWakeup => NoLostWakeup')
<1>a. PICK e \in Entries :
        /\ IF entries[k] = NoEntry THEN e \in Fresh ELSE e = entries[k]
        /\ entries' = [entries EXCEPT ![k] = e]
        /\ refs' = [refs EXCEPT ![e] = @ + 1]
        /\ user' = [user EXCEPT ![u] = [pc |-> "entered", key |-> k, entry |-> e,
                                        mode |-> mode, blocking |-> blocking,
                                        ahead |-> {}]]
  BY DEF Acquire
<1>b. TypeOK /\ user[u] = IdleUser
  BY GateInvParts DEF Acquire, InGate
<1>1. TypeOK'
  BY <1>a, <1>b DEF TypeOK, Rows, Phases
<1>2. /\ \A v \in Users \ {u} : user'[v] = user[v]
      /\ user'[u].pc = "entered" /\ user'[u].key = k /\ user'[u].entry = e
      /\ user'[u].ahead = {}
  BY <1>a, <1>b DEF TypeOK
<1>3. entries'[k] = e /\ \A l \in Keys \ {k} : entries'[l] = entries[l]
  BY <1>a, <1>b DEF TypeOK
<1>4. \A l \in Keys \ {k} : entries[l] # e
  BY <1>a, GateInvParts, GateAssumption DEF Fresh, Injective
<1>5. \A v \in Users : user[v].key = k => entries[k] # NoEntry
  BY GateInvParts, GateAssumption DEF EntryInUse, InGate, IdleUser
<1>6. \A d \in Entries :
        UsersOf(d)' = IF d = e THEN UsersOf(d) \cup {u} ELSE UsersOf(d)
  BY <1>2, <1>b, GateAssumption DEF UsersOf, IdleUser
<1>7. \A d \in Entries : Queue(d)' = Queue(d) /\ Holders(d)' = Holders(d)
  BY <1>2, <1>6, <1>b DEF Queue, Holders, UsersOf, IdleUser
<1>8. EntryInUse'
  <2>1. ASSUME NEW v \in Users, user'[v].key \in Keys
        PROVE  entries'[user'[v].key] = user'[v].entry
    <3>1. CASE v = u
      BY <1>2, <1>3, <3>1
    <3>2. CASE v # u
      <4>1. user'[v] = user[v] /\ user[v].key \in Keys /\ entries[user[v].key] = user[v].entry
        BY <1>2, <2>1, <3>2, GateInvParts DEF EntryInUse
      <4>2. user[v].key = k => entries[k] = e
        BY <1>a, <1>5
      <4> QED
        BY <1>3, <4>1, <4>2
    <3> QED
      BY <3>1, <3>2
  <2>2. ASSUME NEW l \in Keys, entries'[l] # NoEntry
        PROVE  \E v \in Users : user'[v].key = l
    <3>1. CASE l = k
      BY <1>2, <3>1
    <3>2. CASE l # k
      <4>1. PICK v \in Users : user[v].key = l
        BY <1>3, <2>2, <3>2, GateInvParts DEF EntryInUse
      <4>2. v # u
        BY <1>b, <4>1, GateAssumption DEF IdleUser
      <4> QED
        BY <1>2, <4>1, <4>2
    <3> QED
      BY <3>1, <3>2
  <2>3. ASSUME NEW d \in Entries PROVE refs'[d] = Cardinality(UsersOf(d))'
    <3>1. /\ IsFiniteSet(UsersOf(d)) /\ refs[d] = Cardinality(UsersOf(d))
      BY GateAssumption, FS_Subset, GateInvParts DEF UsersOf, EntryInUse
    <3>2. u \notin UsersOf(d)
      BY <1>b, GateAssumption, SMTT(30) DEF UsersOf, IdleUser
    <3>3. Cardinality(UsersOf(d) \cup {u}) = Cardinality(UsersOf(d)) + 1
      BY <3>1, <3>2, FS_AddElement, Zenon
    <3> QED
      BY SMTT(30), <1>a, <1>b, <1>6, <3>1, <3>3 DEF TypeOK
  <2> QED
    BY <2>1, <2>2, <2>3 DEF EntryInUse
<1>9. Injective'
  BY <1>3, <1>4, GateInvParts DEF Injective
<1>10. ASSUME NEW v \in Users PROVE InGate(v)' /\ AheadInv(v)'
  <2>1. InGate(v) /\ AheadInv(v)
    BY GateInvParts
  <2>2. CASE v = u
    BY <1>2, <2>2 DEF InGate, AheadInv
  <2>3. CASE v # u
    <3>1. user'[v] = user[v]
      BY <1>2, <2>3
    <3>2. user[v].ahead \subseteq Users \ {u}
      BY <2>1, <1>b, SMTT(30) DEF AheadInv, Queue, UsersOf, IdleUser
    <3>3. \A w \in user[v].ahead : user'[w] = user[w]
      BY <1>2, <3>2
    <3>4. user[v].pc = "waiting" => Queue(user[v].entry)' = Queue(user[v].entry)
      BY <1>7, <2>1, <3>1 DEF InGate
    <3>5. AheadInv(v)'
      BY <2>1, <3>1, <3>3, <3>4 DEF AheadInv
    <3> QED
      BY <2>1, <3>1, <3>5 DEF InGate
  <2> QED
    BY <2>2, <2>3
<1>11. ASSUME NEW d \in Entries PROVE SemInv(d)'
  <2>1. SemInv(d)
    BY GateInvParts
  <2>2. \A v \in Queue(d) \cup Holders(d) : user'[v] = user[v]
    BY <1>2, <1>b, SMTT(30) DEF Queue, Holders, UsersOf, IdleUser
  <2> QED
    BY <1>7, <2>1, <2>2 DEF SemInv
<1>12. ASSUME NoLostWakeup PROVE NoLostWakeup'
  <2> SUFFICES ASSUME NEW v \in Users, user'[v].pc = "waiting", user'[v].ahead = {}
               PROVE  ~Fits(v, Holders(user[v].entry))'
    BY DEF NoLostWakeup
  <2>1. v # u /\ user'[v] = user[v]
    BY <1>2, <1>b DEF IdleUser
  <2>2. PICK d \in Entries : d = user[v].entry /\ ~Fits(v, Holders(d))
    BY <1>12, <2>1, GateInvParts DEF NoLostWakeup, InGate
  <2>3. \A w \in Holders(d) \cup {v} : user'[w] = user[w]
    BY <1>2, <1>b, <2>1, SMTT(30) DEF Holders, UsersOf, IdleUser
  <2>4. ~Fits(v, Holders(d))'
    BY <1>7, <2>2, <2>3, NotFitsKept
  <2> QED
    BY <2>1, <2>2, <2>4
<1> QED
  BY <1>12, <1>1, <1>8, <1>9, <1>10, <1>11 DEF GateInv, InGate, SemInv, AheadInv, Injective

\* A user drops its entry, and the last one takes it out of the map.
LEMMA ReleaseInv ==
  ASSUME GateInv, NEW u \in Users, Release(u)
  PROVE  GateInv' /\ (NoLostWakeup => NoLostWakeup')
<1>a. PICK e, k : e = user[u].entry /\ k = user[u].key
  OBVIOUS
<1>b. /\ TypeOK /\ e \in Entries /\ k \in Keys /\ entries[k] = e /\ u \in UsersOf(e)
      /\ user[u].pc = "leaving"
  BY <1>a, GateInvParts DEF Release, InGate, EntryInUse, UsersOf
<1>c. /\ refs' = [refs EXCEPT ![e] = refs[e] - 1]
      /\ entries' = IF refs[e] = 1 THEN [entries EXCEPT ![k] = NoEntry] ELSE entries
      /\ user' = [user EXCEPT ![u] = IdleUser]
  BY <1>a, <1>b DEF Release
<1>d. /\ \A v \in Users \ {u} : user'[v] = user[v]
      /\ user'[u] = IdleUser
      /\ \A l \in Keys \ {k} : entries'[l] = entries[l]
      /\ entries'[k] = IF refs[e] = 1 THEN NoEntry ELSE e
  BY <1>b, <1>c DEF TypeOK
<1>1. \A d \in Entries : UsersOf(d)' = IF d = e THEN UsersOf(d) \ {u} ELSE UsersOf(d)
  BY <1>a, <1>d, GateAssumption DEF UsersOf, IdleUser
<1>2. \A d \in Entries : /\ IsFiniteSet(UsersOf(d)) /\ refs[d] = Cardinality(UsersOf(d))
                         /\ refs[d] \in Nat
  BY <1>b, GateAssumption, FS_Subset, GateInvParts DEF UsersOf, EntryInUse, TypeOK
<1>3. /\ refs[e] > 0 /\ Cardinality(UsersOf(e) \ {u}) = refs[e] - 1
      /\ refs[e] = 1 <=> UsersOf(e) \ {u} = {}
  <2>1. IsFiniteSet(UsersOf(e) \ {u}) /\ Cardinality(UsersOf(e) \ {u}) = refs[e] - 1
    BY <1>2, <1>b, FS_RemoveElement
  <2>2. Cardinality(UsersOf(e) \ {u}) = 0 <=> UsersOf(e) \ {u} = {}
    BY <2>1, FS_EmptySet
  <2>3. UsersOf(e) # {}
    BY <1>b
  <2>4. refs[e] # 0
    BY <1>2, <1>b, <2>3, FS_EmptySet
  <2> QED
    BY <1>2, <1>b, <2>1, <2>2, <2>4
<1>4. TypeOK'
  <2>1. IdleUser \in Rows
    BY DEF IdleUser, Rows, Phases, Modes
  <2> QED
    BY <1>b, <1>c, <1>2, <1>3, <2>1 DEF TypeOK
<1>5. \A v \in Users \ {u} : user[v].key = k <=> user[v].entry = e
  <2>1. ASSUME NEW v \in Users \ {u}, user[v].key = k PROVE user[v].entry = e
    BY <1>b, <2>1, GateInvParts DEF EntryInUse
  <2>2. ASSUME NEW v \in Users \ {u}, user[v].entry = e PROVE user[v].key = k
    BY <1>b, <2>2, GateInvParts, GateAssumption, SMTT(30) DEF EntryInUse, InGate, IdleUser, Injective
  <2> QED
    BY <2>1, <2>2
<1>6. EntryInUse'
  <2>1. ASSUME NEW v \in Users, user'[v].key \in Keys
        PROVE  entries'[user'[v].key] = user'[v].entry
    <3>1. v # u
      BY <1>d, <2>1, GateAssumption, SMTT(30) DEF IdleUser
    <3>2. user'[v] = user[v] /\ user[v].key \in Keys /\ entries[user[v].key] = user[v].entry
      BY <1>d, <2>1, <3>1, GateInvParts DEF EntryInUse
    <3>3. user[v].key = k => refs[e] # 1
      BY <1>3, <1>5, <3>1 DEF UsersOf
    <3> QED
      BY <1>b, <1>d, <3>2, <3>3
  <2>2. ASSUME NEW l \in Keys, entries'[l] # NoEntry
        PROVE  \E v \in Users : user'[v].key = l
    <3>1. CASE l = k
      <4>1. PICK v \in UsersOf(e) : v # u
        BY <1>3, <1>d, <2>2, <3>1
      <4> QED
        BY <1>d, <1>5, <3>1, <4>1 DEF UsersOf
    <3>2. CASE l # k
      <4>1. PICK v \in Users : user[v].key = l
        BY <1>d, <2>2, <3>2, GateInvParts DEF EntryInUse
      <4> QED
        BY <1>a, <1>d, <3>2, <4>1
    <3> QED
      BY <3>1, <3>2
  <2>3. \A d \in Entries : refs'[d] = Cardinality(UsersOf(d))'
    BY <1>b, <1>c, <1>1, <1>2, <1>3 DEF TypeOK
  <2> QED
    BY <2>1, <2>2, <2>3 DEF EntryInUse
<1>7. Injective'
  BY <1>b, <1>d, GateInvParts DEF Injective
<1>8. \A d \in Entries : Queue(d)' = Queue(d) /\ Holders(d)' = Holders(d)
  BY <1>d, <1>1, <1>b DEF Queue, Holders, UsersOf, IdleUser
<1>9. ASSUME NEW v \in Users PROVE InGate(v)' /\ AheadInv(v)'
  <2>1. InGate(v) /\ AheadInv(v)
    BY GateInvParts
  <2>2. CASE v = u
    BY <1>d, <2>2 DEF InGate, AheadInv, IdleUser
  <2>3. CASE v # u
    <3>1. user'[v] = user[v]
      BY <1>d, <2>3
    <3>2. user[v].ahead \subseteq Users \ {u}
      BY <2>1, <1>b DEF AheadInv, Queue, UsersOf
    <3>3. \A w \in user[v].ahead : user'[w] = user[w]
      BY <1>d, <3>2
    <3>4. user[v].pc = "waiting" => Queue(user[v].entry)' = Queue(user[v].entry)
      BY <1>8, <2>1, <3>1 DEF InGate
    <3>5. AheadInv(v)'
      BY <2>1, <3>1, <3>3, <3>4 DEF AheadInv
    <3> QED
      BY <2>1, <3>1, <3>5 DEF InGate
  <2> QED
    BY <2>2, <2>3
<1>10. ASSUME NEW d \in Entries PROVE SemInv(d)'
  <2>1. SemInv(d)
    BY GateInvParts
  <2>2. \A v \in Queue(d) \cup Holders(d) : user'[v] = user[v]
    BY <1>d, <1>b DEF Queue, Holders, UsersOf
  <2> QED
    BY <1>8, <2>1, <2>2 DEF SemInv
<1>11. ASSUME NoLostWakeup PROVE NoLostWakeup'
  <2> SUFFICES ASSUME NEW v \in Users, user'[v].pc = "waiting", user'[v].ahead = {}
               PROVE  ~Fits(v, Holders(user[v].entry))'
    BY DEF NoLostWakeup
  <2>1. v # u /\ user'[v] = user[v]
    BY <1>d, <1>b DEF IdleUser
  <2>2. PICK d \in Entries : d = user[v].entry /\ ~Fits(v, Holders(d))
    BY <1>11, <2>1, GateInvParts DEF NoLostWakeup, InGate
  <2>3. \A w \in Holders(d) \cup {v} : user'[w] = user[w]
    BY <1>d, <1>b, <2>1 DEF Holders, UsersOf, IdleUser
  <2>4. ~Fits(v, Holders(d))'
    BY <1>8, <2>2, <2>3, NotFitsKept
  <2> QED
    BY <2>1, <2>2, <2>4
<1> QED
  BY <1>11, <1>4, <1>6, <1>7, <1>9, <1>10 DEF GateInv, InGate, SemInv, AheadInv, Injective

----------------------------------------------------------------------------
\* Every step of the gate keeps the invariant and loses no wakeup.
LEMMA NextInv ==
  ASSUME GateInv, [Next]_vars
  PROVE  GateInv' /\ (NoLostWakeup => NoLostWakeup')
<1>1. CASE UNCHANGED vars
  <2>1. entries' = entries /\ refs' = refs /\ user' = user
    BY <1>1 DEF vars
  <2> QED
    BY <2>1, SMTT(30) DEF GateInv, TypeOK, EntryInUse, NoLostWakeup, Holders, Queue, UsersOf, Fits
<1>2. ASSUME NEW u \in Users, Step(u)
      PROVE  GateInv' /\ (NoLostWakeup => NoLostWakeup')
  <2>1. CASE \E k \in Keys, mode \in Modes, blocking \in BOOLEAN :
               Acquire(u, k, mode, blocking)
    BY <2>1, AcquireInv
  <2>2. CASE TryHold(u)
    <3>1. PICK pc \in {"held", "leaving"} : /\ pc = IF FastPath(u) THEN "held" ELSE "leaving"
                                            /\ Becomes(u, pc)
      BY <2>2 DEF TryHold
    <3> QED
      BY <2>2, <3>1, BecomesInv DEF TryHold
  <2>3. CASE Hold(u)
    <3>1. CASE FastPath(u) /\ Becomes(u, "held")
      BY SMTT(30), <2>3, <3>1, BecomesInv DEF Hold
    <3>2. CASE /\ ~FastPath(u)
               /\ user' = [user EXCEPT ![u] = [user[u] EXCEPT !.pc = "waiting",
                                                 !.ahead = Queue(user[u].entry)]]
      BY <2>3, <3>2, WaitInv DEF Hold
    <3>3. CASE Becomes(u, "leaving")
      BY <2>3, <3>3, BecomesInv DEF Hold
    <3> QED
      BY <2>3, <3>1, <3>2, <3>3 DEF Hold
  <2>4. CASE Wake(u)
    BY <2>4, BecomesInv DEF Wake
  <2>5. CASE CancelWait(u)
    <3>1. Holders(user[u].entry) = Holders(user[u].entry) \ {u}
      BY <2>5 DEF CancelWait, Holders
    <3>2. PICK Q : Q = IF user[u].ahead = {} THEN Queue(user[u].entry) \ {u} ELSE {}
      OBVIOUS
    <3>3. Notify(u, Q, Holders(user[u].entry) \ {u})
      BY <2>5, <3>1, <3>2 DEF CancelWait
    <3> QED
      BY <2>5, <3>2, <3>3, NotifyInv DEF CancelWait
  <2>6. CASE CancelGranted(u) \/ ReleasePermit(u)
    <3>1. Queue(user[u].entry) = Queue(user[u].entry) \ {u}
      BY <2>6 DEF CancelGranted, ReleasePermit, Queue
    <3>2. Notify(u, Queue(user[u].entry) \ {u}, Holders(user[u].entry) \ {u})
      BY <2>6, <3>1 DEF CancelGranted, ReleasePermit
    <3> QED
      BY <2>6, <3>2, NotifyInv DEF CancelGranted, ReleasePermit
  <2>7. CASE Release(u)
    BY <2>7, ReleaseInv
  <2> QED
    BY <1>2, <2>1, <2>2, <2>3, <2>4, <2>5, <2>6, <2>7 DEF Step
<1> QED
  BY SMTT(30), <1>1, <1>2 DEF Next

\* The users of a key share the entry the map holds, which is there exactly
\* while there are users, counted by refs (acquire and release, gate.go:168-193).
THEOREM GateInvariant == Spec => []GateInv
<1>1. GateInv /\ [Next]_vars => GateInv'
  BY NextInv
<1> QED
  BY <1>1, InitInv, PTL DEF Spec

\* The map of entries names an entry exactly while somebody uses its key, and the
\* count of its users is right (acquire and release, gate.go:168-193).
THEOREM GateCountsEntries == Spec => []EntryInUse
<1>1. GateInv => EntryInUse
  BY DEF GateInv
<1> QED
  BY <1>1, GateInvariant, PTL

\* Returning a permit, or leaving the queue, never strands a waiter that could
\* go on (hold, gate.go:122-135).
THEOREM GateLosesNoWakeup == Spec => []NoLostWakeup
<1>1. Init => NoLostWakeup
  BY DEF Init, NoLostWakeup, IdleUser
<1>2. GateInv /\ NoLostWakeup /\ [Next]_vars => NoLostWakeup'
  BY NextInv
<1> QED
  BY <1>1, <1>2, GateInvariant, PTL DEF Spec

----------------------------------------------------------------------------
\* Two users that work on one key at once both read it.
HoldersAgree ==
  \A u, v \in Users :
    /\ u # v /\ user[u].pc = "held" /\ user[v].pc = "held"
    /\ user[u].key = user[v].key
    => user[u].mode = "read" /\ user[v].mode = "read"

LEMMA HeldCompatible == GateInv => HoldersAgree
<1> SUFFICES ASSUME GateInv, NEW u \in Users, NEW v \in Users, u # v,
                    user[u].pc = "held", user[v].pc = "held", user[u].key = user[v].key
             PROVE  user[u].mode = "read" /\ user[v].mode = "read"
  BY DEF HoldersAgree
<1>1. user[u].entry \in Entries /\ user[u].entry = user[v].entry
  BY SMTT(30) DEF GateInv, EntryInUse
<1>2. PICK e \in Entries : e = user[u].entry /\ e = user[v].entry
  BY <1>1
<1>3. u \in Holders(e) /\ v \in Holders(e)
  BY <1>2 DEF Holders, UsersOf
<1> QED
  BY <1>3 DEF GateInv

\* The step does not change the permit a caller holds.
Keeps(v) ==
  /\ user'[v].pc = "held" <=> user[v].pc = "held"
  /\ user[v].pc = "held" => user'[v].key = user[v].key /\ user'[v].mode = user[v].mode

\* Notify takes a permit back from the user that leaves and from no other.
LEMMA NotifyKeeps ==
  ASSUME GateInv, NEW u \in Users, NEW Q, NEW H, Notify(u, Q, H),
         Q \subseteq Queue(user[u].entry)
  PROVE  /\ \A v \in Users \ {u} : Keeps(v)
         /\ user'[u].pc = "leaving"
<1>1. PICK G : G = Granted(Q, H)
  OBVIOUS
<1>2. G \subseteq Q /\ \A v \in G : user[v].pc = "waiting"
  BY <1>1 DEF Granted, Queue
<1>3. ASSUME NEW v \in Users
      PROVE  /\ user'[v].key = user[v].key /\ user'[v].mode = user[v].mode
             /\ user'[v].pc = IF v = u THEN "leaving"
                               ELSE IF v \in G THEN "granted" ELSE user[v].pc
  <2> DEFINE p == IF v = u THEN "leaving" ELSE IF v \in G THEN "granted" ELSE user[v].pc
             a == IF v \in G \cup {u} THEN {} ELSE user[v].ahead \ (G \cup {u})
  <2>1. user[v] \in Rows /\ user'[v] = [user[v] EXCEPT !.pc = p, !.ahead = a]
    BY <1>1 DEF GateInv, TypeOK, Notify
  <2> HIDE DEF p, a
  <2>2. user'[v].key = user[v].key /\ user'[v].mode = user[v].mode /\ user'[v].pc = p
    BY <2>1 DEF Rows
  <2> QED
    BY <2>2 DEF p
<1> QED
  BY <1>2, <1>3 DEF Keeps

\* A step gives one caller a permit, takes one caller's back, or neither.
LEMMA PermitStep ==
  ASSUME GateInv, [Next]_vars
  PROVE  \/ \A v \in Users : Keeps(v)
         \/ \E u \in Users :
              /\ \A v \in Users \ {u} : Keeps(v)
              /\ user[u].pc = "held" /\ user'[u].pc # "held"
         \/ \E u \in Users :
              /\ \A v \in Users \ {u} : Keeps(v)
              /\ user[u].pc # "held" /\ user'[u].pc = "held"
<1>a. user \in [Users -> Rows]
  BY DEF GateInv, TypeOK
<1>1. CASE UNCHANGED vars
  BY <1>1 DEF vars, Keeps
<1>2. ASSUME NEW u \in Users, NEW rw, user' = [user EXCEPT ![u] = rw], user[u].pc # "held"
      PROVE  /\ \A v \in Users \ {u} : Keeps(v)
             /\ Keeps(u) \/ user'[u].pc = "held"
  BY <1>a, <1>2 DEF Keeps
<1>3. ASSUME NEW u \in Users, Step(u)
      PROVE  \/ \A v \in Users : Keeps(v)
             \/ /\ \A v \in Users \ {u} : Keeps(v)
                /\ (user[u].pc = "held" /\ user'[u].pc # "held")
                   \/ (user[u].pc # "held" /\ user'[u].pc = "held")
  <2>1. CASE ReleasePermit(u) \/ CancelWait(u) \/ CancelGranted(u)
    <3>1. PICK Q, H : Notify(u, Q, H) /\ Q \subseteq Queue(user[u].entry)
      BY <2>1 DEF ReleasePermit, CancelWait, CancelGranted
    <3>2. (\A v \in Users \ {u} : Keeps(v)) /\ user'[u].pc = "leaving"
      BY <3>1, NotifyKeeps
    <3>3. user[u].pc = "held" \/ Keeps(u)
      BY <3>2 DEF Keeps
    <3> QED
      BY <3>2, <3>3
  <2>2. CASE ~(ReleasePermit(u) \/ CancelWait(u) \/ CancelGranted(u))
    <3>1. user[u].pc # "held" /\ \E rw : user' = [user EXCEPT ![u] = rw]
      BY <1>3, <1>a, <2>2
         DEF Step, Acquire, TryHold, Hold, Wake, Release, Becomes
    <3> QED
      BY <1>2, <3>1
  <2> QED
    BY <2>1, <2>2
<1> QED
  BY <1>1, <1>3 DEF Next

\* The gate implements the lock: a caller gets a permit for a key only when
\* every other permit of that key is compatible with it (Gate, gate.go:42).
THEOREM GateImplementsLock == Spec => ImplementsLock
<1>1. Init => Lock!AccessInit
  BY DEF Init, Lock!AccessInit, accessOf, IdleUser
<1>2. ASSUME GateInv, [Next]_vars PROVE [Lock!AccessNext]_accessOf
  <2>a. GateInv' /\ HoldersAgree'
    BY <1>2, NextInv, HeldCompatible, PTL
  <2>b. \A v \in Users : Keeps(v) => accessOf'[v] = accessOf[v]
    BY DEF Keeps, accessOf
  <2>c. DOMAIN accessOf = Users /\ DOMAIN accessOf' = Users
    BY DEF accessOf
  <2>1. CASE \A v \in Users : Keeps(v)
    BY <2>1 DEF Keeps, accessOf
  <2>2. ASSUME NEW u \in Users, \A v \in Users \ {u} : Keeps(v),
               user[u].pc = "held", user'[u].pc # "held"
        PROVE  Lock!AccessExit(u)
    <3>1. accessOf[u] # {} /\ accessOf'[u] = {}
      BY <2>2 DEF accessOf
    <3>2. accessOf' = [accessOf EXCEPT ![u] = {}]
      BY <2>2, <2>b, <3>1 DEF accessOf
    <3> QED
      BY <3>1, <3>2 DEF Lock!AccessExit
  <2>3. ASSUME NEW u \in Users, \A v \in Users \ {u} : Keeps(v),
               user[u].pc # "held", user'[u].pc = "held"
        PROVE  \E g \in Lock!Permits : Lock!AccessEnter(u, g)
    <3>a. PICK g : g = [key |-> user'[u].key, mode |-> user'[u].mode]
      OBVIOUS
    <3>1. g \in Lock!Permits
      BY <2>3, <2>a, <3>a DEF GateInv, TypeOK, Rows, Modes, Lock!Permits, Lock!Modes
    <3>2. accessOf[u] = {} /\ accessOf'[u] = {g}
      BY <2>3, <3>a DEF accessOf
    <3>3. accessOf' = [accessOf EXCEPT ![u] = {g}]
      BY <2>3, <2>b, <3>2 DEF accessOf
    <3>4. ASSUME NEW v \in Users, NEW h \in accessOf[v] PROVE Lock!Compatible(g, h)
      <4>1. v # u /\ user[v].pc = "held" /\ h = [key |-> user[v].key, mode |-> user[v].mode]
        BY <2>3, <3>2, <3>4 DEF accessOf
      <4>2. user'[v].pc = "held" /\ h = [key |-> user'[v].key, mode |-> user'[v].mode]
        BY <2>3, <4>1 DEF Keeps
      <4>3. user'[u].key = user'[v].key =>
              user'[u].mode = "read" /\ user'[v].mode = "read"
        BY <2>3, <2>a, <4>1, <4>2 DEF HoldersAgree
      <4> QED
        BY <3>a, <4>2, <4>3 DEF Lock!Compatible
    <3> QED
      BY <3>1, <3>2, <3>3, <3>4 DEF Lock!AccessEnter, Lock!AccessFree
  <2> QED
    BY <1>2, <2>1, <2>2, <2>3, PermitStep DEF Lock!AccessNext
<1> QED
  BY <1>1, <1>2, GateInvariant, PTL DEF Spec, ImplementsLock, Lock!AccessSpec
-----------------------------------------------------------------------------
(* The schedule of a recurring task, for every number of tasks and           *)
(* operators.  That the head is the only unfinished task rests on three      *)
(* facts the schedule row does not say: tasks are inserted in order and the  *)
(* head is the last of them, the generation counts no more than the tasks,   *)
(* and the task an operator has read as failed is failed ever after, so that *)
(* a retry never moves the head away from a task that runs.                  *)

HeadIsLast ==
    /\ \A t \in Ids : rows[t].status # "absent" <=> t <= head
    /\ gen <= head

SourcesFailed == \A o \in Operators : ops[o] # Nil => rows[ops[o].source].status = "failed"

CyclesInv == ScheduleInv /\ HeadIsLast /\ SourcesFailed

-----------------------------------------------------------------------------

\* Task ids are numbers, so one can be compared with the next.
LEMMA IdsAreNumbers ==
    ASSUME MaxTasks \in Nat, NEW t \in Ids
    PROVE  t \in Nat /\ t # 0 /\ t <= MaxTasks
BY DEF Ids

\* A new task is the one after the head.
LEMMA NextIdFollowsHead ==
    ASSUME MaxTasks \in Nat, CyclesInv, NEW n \in Ids, NextId(n)
    PROVE  n = head + 1
<1>1. n \in Nat \ {0} /\ head \in Nat /\ head <= MaxTasks
  BY DEF CyclesInv, ScheduleInv, ScheduleTypeOK, Ids
<1>2. rows[n].status = "absent" /\ ~(n <= head)
  BY DEF NextId, Inserted, CyclesInv, HeadIsLast
<1>3. CASE n > head + 1
  <2>1. head + 1 \in 1 .. n - 1 /\ head + 1 \in Ids
    BY <1>1, <1>3 DEF Ids
  <2>2. rows[head + 1].status # "absent"
    BY <2>1 DEF NextId, Inserted
  <2> QED  BY <1>1, <2>1, <2>2 DEF CyclesInv, HeadIsLast
<1> QED  BY <1>1, <1>2, <1>3

\* The table is empty at first.
LEMMA ScheduleStarts == ASSUME MaxTasks \in Nat, ScheduleInit PROVE CyclesInv
BY DEF ScheduleInit, CyclesInv, ScheduleInv, ScheduleTypeOK, UnfinishedIsHead, StaleFailuresCleared, HeadIsLast,
       SourcesFailed, Row, Ids, Unfinished, Ended, CurrentFailed

\* Time makes a task due and changes nothing else of it.
LEMMA BecomesDueKeeps == ASSUME MaxTasks \in Nat, CyclesInv, BecomesDue PROVE CyclesInv'
BY DEF BecomesDue, CyclesInv, ScheduleInv, ScheduleTypeOK, UnfinishedIsHead, StaleFailuresCleared,
       HeadIsLast, SourcesFailed, CurrentFailed

\* dispatchSchedules
LEMMA DispatchKeeps == ASSUME MaxTasks \in Nat, CyclesInv, Dispatch PROVE CyclesInv'
<1> USE DEF CyclesInv, ScheduleInv
<1>1. PICK n \in Ids :
        /\ NextId(n)
        /\ rows' = [rows EXCEPT ![n] = [status |-> "pending", cycle |-> gen + 1,
                                        superseded |-> FALSE]]
        /\ head' = n
  BY DEF Dispatch
<1>2. n = head + 1 /\ n \in Nat /\ head \in Nat /\ gen \in Nat /\ n <= MaxTasks
  BY <1>1, NextIdFollowsHead, IdsAreNumbers DEF ScheduleTypeOK
<1>3. rows[n].status = "absent"
  BY <1>1 DEF NextId, Inserted
<1>4. ScheduleTypeOK'
  <2>1. [status |-> "pending", cycle |-> gen + 1, superseded |-> FALSE] \in Row
    BY <1>2 DEF Row, Unfinished
  <2>2. rows' \in [Ids -> Row]
    BY <1>1, <2>1 DEF ScheduleTypeOK
  <2>3. gen' \in 0 .. MaxTasks /\ head' \in 0 .. MaxTasks
    BY <1>1, <1>2 DEF Dispatch, HeadIsLast
  <2> QED  BY <2>2, <2>3 DEF ScheduleTypeOK, Dispatch
<1>5. UnfinishedIsHead'
  BY <1>1 DEF UnfinishedIsHead, Dispatch, ScheduleTypeOK
<1>6. StaleFailuresCleared'
  BY <1>1, <1>3 DEF StaleFailuresCleared, CurrentFailed, ScheduleTypeOK, Ended
<1>7. HeadIsLast'
  <2>1. \A t \in Ids : rows'[t].status # "absent" <=> t <= head'
    BY <1>1, <1>2, IdsAreNumbers DEF HeadIsLast, ScheduleTypeOK
  <2> QED  BY <1>1, <1>2, <2>1 DEF HeadIsLast, ScheduleTypeOK, Dispatch
<1>8. SourcesFailed'
  BY <1>1, <1>3 DEF SourcesFailed, ScheduleTypeOK, Dispatch
<1> QED  BY <1>4, <1>5, <1>6, <1>7, <1>8

\* The engine's claim, and a settlement that leaves the task pending.
LEMMA ClaimKeeps ==
    ASSUME MaxTasks \in Nat, CyclesInv, NEW t \in Ids, Claim(t) \/ SettlePending(t)
    PROVE  CyclesInv'
<1> USE DEF CyclesInv, ScheduleInv
<1>1. PICK s \in Unfinished : rows' = [rows EXCEPT ![t].status = s]
  BY DEF Claim, SettlePending, Unfinished
<1>2. rows[t].status \in Unfinished /\ UNCHANGED <<head, gen, due, ops>>
  BY DEF Claim, SettlePending, Unfinished
<1>3. ScheduleTypeOK'
  <2>1. rows' \in [Ids -> Row]
    BY <1>1 DEF ScheduleTypeOK, Row
  <2> QED  BY <1>2, <2>1 DEF ScheduleTypeOK
<1>4. \A u \in Ids : rows'[u].superseded = rows[u].superseded
                     /\ (u # t => rows'[u] = rows[u]) /\ rows'[t].status = s
  BY <1>1 DEF ScheduleTypeOK, Row
<1>5. UnfinishedIsHead'
  BY <1>2, <1>4 DEF UnfinishedIsHead
<1>6. StaleFailuresCleared'
  BY <1>1, <1>2, <1>4 DEF StaleFailuresCleared, CurrentFailed, Unfinished, Ended
<1>7. HeadIsLast'
  <2>1. head' = 0 \/ head' \in Ids
    BY <1>2 DEF ScheduleTypeOK, Ids
  <2> QED  BY <1>1, <1>2, <1>4, <2>1 DEF HeadIsLast, Unfinished
<1>8. SourcesFailed'
  BY <1>1, <1>2, <1>4 DEF SourcesFailed, Unfinished, ScheduleTypeOK
<1> QED  BY <1>3, <1>5, <1>6, <1>7, <1>8

\* settleSchedule: the earlier failures go with the cycle that ends.
LEMMA SettleEndKeeps ==
    ASSUME MaxTasks \in Nat, CyclesInv, NEW t \in Ids, NEW status \in Ended \cup {"cancelled"},
           SettleEnd(t, status)
    PROVE  CyclesInv'
<1> USE DEF CyclesInv, ScheduleInv
<1>1. head = t /\ rows[t].status = "running" /\ due' = FALSE /\ UNCHANGED <<head, gen, ops>>
  BY DEF SettleEnd
<1>2. rows'[t] = [rows[t] EXCEPT !.status = status]
  BY DEF SettleEnd
<1>3. \A u \in Ids \ {t} : rows'[u] = IF u \in Cleared(t, status)
                                      THEN [rows[u] EXCEPT !.superseded = TRUE] ELSE rows[u]
  BY DEF SettleEnd
<1>4. \A u \in Ids : rows[u] \in Row /\ rows'[u] \in Row
  <2>1. \A u \in Ids : rows[u] \in Row
    BY DEF ScheduleTypeOK
  <2>2. \A x \in Row : [x EXCEPT !.superseded = TRUE] \in Row /\ [x EXCEPT !.status = status] \in Row
    BY DEF Row, Ended
  <2> QED  BY <1>2, <1>3, <2>1, <2>2, Zenon
<1>5. \A u \in Ids \ {t} : rows'[u].status = rows[u].status
  BY <1>3, <1>4 DEF Row
<1>6. rows'[t].status = status /\ status \notin Unfinished /\ status # "absent"
  BY <1>2, <1>4 DEF Row, Ended, Unfinished
<1>7. ScheduleTypeOK'
  <2>1. rows' \in [Ids -> Row]
    BY <1>4 DEF SettleEnd
  <2> QED  BY <1>1, <2>1 DEF ScheduleTypeOK
<1>8. UnfinishedIsHead'
  BY <1>1, <1>5, <1>6 DEF UnfinishedIsHead
<1>9. StaleFailuresCleared'
  <2> SUFFICES ASSUME NEW v \in Ids, NEW u \in Ids, CurrentFailed(v)', v < u
               PROVE  rows'[u].status \notin Ended
    BY DEF StaleFailuresCleared
  <2>1. CASE v = t
    <3>1. rows[u].status = "absent" /\ u # t
      BY <1>1, <2>1, IdsAreNumbers DEF HeadIsLast
    <3> QED  BY <1>5, <3>1 DEF Ended
  <2>2. CASE v # t
    <3>1. CurrentFailed(v) /\ v \notin Cleared(t, status)
      BY <1>3, <1>4, <2>2 DEF CurrentFailed, Row
    <3>2. status = "cancelled" \/ ~(v < t)
      BY <3>1 DEF Cleared
    <3>3. CASE u = t
      BY <1>6, <3>2, <3>3 DEF Ended
    <3>4. CASE u # t
      BY <1>5, <3>1, <3>4 DEF StaleFailuresCleared
    <3> QED  BY <3>3, <3>4
  <2> QED  BY <2>1, <2>2
<1>10. HeadIsLast'
  <2>1. \A u \in Ids : rows'[u].status # "absent" <=> rows[u].status # "absent"
    BY <1>1, <1>5, <1>6
  <2> QED  BY <1>1, <2>1 DEF HeadIsLast, ScheduleTypeOK
<1>11. SourcesFailed'
  BY <1>1, <1>5 DEF SourcesFailed, ScheduleTypeOK
<1> QED  BY <1>7, <1>8, <1>9, <1>10, <1>11

\* Service.Retry up to its commit, and its end, change no task.
LEMMA RetryBeginsKeeps ==
    ASSUME MaxTasks \in Nat, CyclesInv, NEW o \in Operators,
           RetryLocks(o) \/ RetryEnds(o) \/ \E s \in Ids : RetryReads(o, s)
    PROVE  CyclesInv'
<1> USE DEF CyclesInv, ScheduleInv
<1>1. UNCHANGED <<rows, head, gen, due>>
  BY DEF RetryLocks, RetryEnds, RetryReads
<1>2. CASE RetryLocks(o)
  <2>1. /\ ops' = [ops EXCEPT ![o].locked = TRUE] /\ ops[o] # Nil
    BY <1>2 DEF RetryLocks
  <2>2. ops[o] \in [source : Ids, locked : BOOLEAN]
    BY <2>1 DEF ScheduleTypeOK
  <2>3. ops'[o] = [source |-> ops[o].source, locked |-> TRUE]
    BY <2>1, <2>2 DEF ScheduleTypeOK
  <2>4. ScheduleTypeOK' /\ SourcesFailed'
    BY <1>1, <2>1, <2>2, <2>3 DEF ScheduleTypeOK, SourcesFailed
  <2> QED
    BY <1>1, <2>4 DEF UnfinishedIsHead, StaleFailuresCleared, CurrentFailed, HeadIsLast
<1>3. CASE RetryEnds(o)
  <2>1. ScheduleTypeOK' /\ SourcesFailed'
    BY <1>1, <1>3 DEF RetryEnds, ScheduleTypeOK, SourcesFailed
  <2> QED
    BY <1>1, <2>1 DEF UnfinishedIsHead, StaleFailuresCleared, CurrentFailed, HeadIsLast
<1>4. ASSUME NEW s \in Ids, RetryReads(o, s) PROVE CyclesInv'
  <2>1. ScheduleTypeOK' /\ SourcesFailed'
    BY <1>1, <1>4 DEF RetryReads, ScheduleTypeOK, SourcesFailed, CurrentFailed
  <2> QED
    BY <1>1, <2>1 DEF UnfinishedIsHead, StaleFailuresCleared, CurrentFailed, HeadIsLast
<1> QED  BY <1>2, <1>3, <1>4

\* The commit of Service.Retry.
LEMMA RetryCommitsKeeps ==
    ASSUME MaxTasks \in Nat, CyclesInv, NEW o \in Operators, RetryCommits(o)
    PROVE  CyclesInv'
<1> USE DEF CyclesInv, ScheduleInv
<1> DEFINE s == ops[o].source
           fresh == [status |-> "pending", superseded |-> FALSE, cycle |-> rows[s].cycle]
<1>1. head = s /\ ops[o] # Nil /\ due' = TRUE /\ ops' = [ops EXCEPT ![o] = Nil] /\ UNCHANGED gen
  BY DEF RetryCommits, Replace
<1>2. s \in Ids /\ rows[s].status = "failed" /\ rows[s] \in Row
  BY <1>1 DEF ScheduleTypeOK, SourcesFailed
<1>3. PICK n \in Ids :
        /\ NextId(n) /\ head' = n
        /\ rows' = [rows EXCEPT ![s].superseded = TRUE, ![n] = fresh]
  BY DEF RetryCommits, Replace
<1>4. n = head + 1 /\ n \in Nat /\ head \in Nat /\ gen \in Nat /\ n <= MaxTasks
  BY <1>3, NextIdFollowsHead, IdsAreNumbers DEF ScheduleTypeOK
<1>5. rows[n].status = "absent" /\ n # s
  BY <1>2, <1>3 DEF NextId, Inserted
<1>6. fresh \in Row
  BY <1>2 DEF Row, Unfinished
<1>7. /\ rows'[n] = fresh /\ rows'[s] = [rows[s] EXCEPT !.superseded = TRUE]
      /\ \A u \in Ids \ {n, s} : rows'[u] = rows[u]
  BY <1>2, <1>3, <1>5 DEF ScheduleTypeOK
<1> HIDE DEF s
<1>8. \A u \in Ids : rows[u] \in Row /\ rows'[u] \in Row
  <2>1. \A u \in Ids : rows[u] \in Row
    BY DEF ScheduleTypeOK
  <2>2. [rows[s] EXCEPT !.superseded = TRUE] \in Row
    BY <1>2 DEF Row
  <2> QED  BY <1>6, <1>7, <2>1, <2>2
<1>9. /\ rows'[n].status = "pending" /\ ~rows'[n].superseded
      /\ \A u \in Ids \ {n} : rows'[u].status = rows[u].status /\ (CurrentFailed(u)' => CurrentFailed(u))
  BY <1>7, <1>8 DEF Row, CurrentFailed
<1>10. ScheduleTypeOK'
  <2>1. rows' \in [Ids -> Row]
    BY <1>3, <1>8 DEF ScheduleTypeOK
  <2>2. head' \in 0 .. MaxTasks
    BY <1>3, <1>4
  <2>3. gen' \in 0 .. MaxTasks /\ due' \in BOOLEAN
    BY <1>1 DEF ScheduleTypeOK
  <2>4. ops' \in [Operators -> {Nil} \cup [source : Ids, locked : BOOLEAN]]
    BY <1>1 DEF ScheduleTypeOK
  <2> QED  BY <2>1, <2>2, <2>3, <2>4 DEF ScheduleTypeOK
<1>11. UnfinishedIsHead'
  <2>1. \A u \in Ids \ {n} : rows[u].status \notin Unfinished
    BY <1>1, <1>2 DEF UnfinishedIsHead, Unfinished
  <2> QED  BY <1>3, <1>9, <2>1 DEF UnfinishedIsHead
<1>12. StaleFailuresCleared'
  BY <1>5, <1>9 DEF StaleFailuresCleared, Ended, CurrentFailed
<1>13. HeadIsLast'
  <2>1. \A t \in Ids : rows'[t].status # "absent" <=> t <= head'
    <3> TAKE t \in Ids
    <3>1. t \in Nat /\ head' = head + 1
      BY <1>3, <1>4, IdsAreNumbers
    <3>2. CASE t = n
      <4>1. rows'[t].status # "absent" /\ t <= n
        BY <1>9, <3>1, <3>2
      <4> QED  BY <1>3, <4>1
    <3>3. CASE t # n
      <4>1. rows'[t].status = rows[t].status
        BY <1>9, <3>3
      <4>2. t <= head <=> t <= head'
        BY <1>3, <1>4, <3>1, <3>3
      <4> QED  BY <4>1, <4>2 DEF HeadIsLast
    <3> QED  BY <3>2, <3>3
  <2>2. gen' <= head'
    BY <1>1, <1>3, <1>4 DEF HeadIsLast
  <2> QED  BY <2>1, <2>2 DEF HeadIsLast
<1>14. SourcesFailed'
  BY <1>1, <1>5, <1>9 DEF SourcesFailed, ScheduleTypeOK
<1> QED  BY <1>10, <1>11, <1>12, <1>13, <1>14

-----------------------------------------------------------------------------

\* Every step keeps the invariant.
LEMMA ScheduleStep == ASSUME MaxTasks \in Nat, CyclesInv, [ScheduleNext]_scheduleVars PROVE CyclesInv'
<1>1. CASE UNCHANGED scheduleVars
  BY <1>1 DEF scheduleVars, CyclesInv, ScheduleInv, ScheduleTypeOK, UnfinishedIsHead, StaleFailuresCleared,
              HeadIsLast, SourcesFailed, CurrentFailed
<1>2. CASE ScheduleNext
  BY <1>2, BecomesDueKeeps, DispatchKeeps, ClaimKeeps, SettleEndKeeps, RetryBeginsKeeps,
     RetryCommitsKeeps DEF ScheduleNext
<1> QED  BY <1>1, <1>2

\* The inductive invariant holds in every reachable state.
THEOREM ScheduleInductive == ASSUME MaxTasks \in Nat PROVE ScheduleSpec => []CyclesInv
<1>1. ScheduleInit => CyclesInv
  BY ScheduleStarts
<1>2. CyclesInv /\ [ScheduleNext]_scheduleVars => CyclesInv'
  BY ScheduleStep
<1> QED  BY <1>1, <1>2, PTL DEF ScheduleSpec

\* Whatever dispatches, settlements and retries of periodic.go interleave, the
\* unfinished task of a schedule is its head, so that no two cycles run at once and
\* settleSchedule always finds its schedule, and a cycle that has ended leaves no
\* failure of an earlier task.
THEOREM ScheduleSafe == ASSUME MaxTasks \in Nat PROVE ScheduleSpec => []ScheduleInv
<1>1. CyclesInv => ScheduleInv
  BY DEF CyclesInv
<1> QED  BY <1>1, ScheduleInductive, PTL

\* A step that leaves a failure has said how it is acted on.
LEMMA FailureStep == ASSUME MaxTasks \in Nat, CyclesInv, ScheduleNext PROVE FailureActionable
<1> SUFFICES ASSUME NEW t \in Ids, CurrentFailed(t), ~CurrentFailed(t)'
             PROVE  \/ \E u \in Ids : u > t /\ rows[u].status = "running" /\ rows'[u].status \in Ended
                    \/ head = t /\ head' # t /\ rows'[head'].cycle = rows[t].cycle
  BY DEF FailureActionable
<1> USE DEF CyclesInv, ScheduleInv
<1>1. CASE UNCHANGED rows
  BY <1>1 DEF CurrentFailed
<1>2. CASE Dispatch
  BY <1>2 DEF Dispatch, CurrentFailed, NextId, Inserted, ScheduleTypeOK
<1>3. ASSUME NEW u \in Ids, Claim(u) \/ SettlePending(u) PROVE FALSE
  BY <1>3 DEF Claim, SettlePending, CurrentFailed, ScheduleTypeOK, Row
<1>4. ASSUME NEW u \in Ids, NEW status \in Ended \cup {"cancelled"}, SettleEnd(u, status)
      PROVE  u > t /\ rows[u].status = "running" /\ rows'[u].status \in Ended
  <2>1. rows[u].status = "running" /\ u # t /\ rows[u] \in Row /\ rows[t] \in Row
    BY <1>4 DEF SettleEnd, CurrentFailed, ScheduleTypeOK
  <2>2. t \in Cleared(u, status)
    BY <1>4, <2>1 DEF SettleEnd, CurrentFailed
  <2>3. rows'[u].status = status
    BY <1>4, <2>1 DEF SettleEnd, Row
  <2> QED  BY <2>1, <2>2, <2>3, IdsAreNumbers DEF Cleared
<1>5. ASSUME NEW o \in Operators, RetryCommits(o)
      PROVE  head = t /\ head' # t /\ rows'[head'].cycle = rows[t].cycle
  <2> DEFINE s == ops[o].source
             fresh == [status |-> "pending", superseded |-> FALSE, cycle |-> rows[s].cycle]
  <2>1. head = s /\ s \in Ids
    BY <1>5 DEF RetryCommits, ScheduleTypeOK
  <2>2. PICK n \in Ids :
          /\ NextId(n) /\ head' = n
          /\ rows' = [rows EXCEPT ![s].superseded = TRUE, ![n] = fresh]
    BY <1>5 DEF RetryCommits, Replace
  <2>3. rows[n].status = "absent" /\ rows'[n] = fresh /\ \A u \in Ids \ {n, s} : rows'[u] = rows[u]
    BY <2>1, <2>2 DEF NextId, Inserted, ScheduleTypeOK
  <2>4. t = s /\ n # t
    BY <2>3 DEF CurrentFailed
  <2> QED  BY <2>1, <2>2, <2>3, <2>4
<1> QED
  BY <1>1, <1>2, <1>3, <1>4, <1>5 DEF ScheduleNext, BecomesDue, RetryLocks, RetryEnds, RetryReads

\* "Earlier failures remain actionable until a subsequent cycle ends"
\* (periodic.go:145): no step takes a failure from the operator's list but the end
\* of a later cycle or the retry of that failure.
THEOREM FailuresStayActionable == ASSUME MaxTasks \in Nat PROVE ScheduleSpec => FailuresActionable
<1>1. CyclesInv /\ [ScheduleNext]_scheduleVars => [FailureActionable]_scheduleVars
  BY FailureStep
<1> QED  BY <1>1, ScheduleInductive, PTL DEF ScheduleSpec, FailuresActionable

-----------------------------------------------------------------------------
(***************************************************************************)
(* DataSetCreate.                                                          *)
(***************************************************************************)

Bounds ==
    /\ EnsureAttempts \in Nat \ {0}
    /\ MaxRounds \in Nat /\ CreateFaults \in Nat /\ MaxCrashes \in Nat
    /\ Unset \notin ClientIDs /\ Unset \notin Checkpoint

\* Every request carries the client ID of the row, and one of them landed at most.
Requests ==
    /\ \A i \in DOMAIN requests : requests[i].client = ds.client
    /\ \A i, j \in DOMAIN requests : requests[i].st = "landed" /\ requests[j].st = "landed" => i = j

\* Who owns the row, and what it is then.
Ownership ==
    /\ inv.pc # "idle" => row.status = "running"
    /\ row.status \in {"pending", "running"} => ds.owned
    /\ ds.owned => ds.status \in {"pending", "creating"} /\ ~ds.replaced
    /\ ~ds.owned => \/ ds.status \in {"ready", "retired"} \/ ds.replaced
                    \/ ds.client = Unset /\ ds.tx = 0
    /\ ds.id # 0 => ds.status = "ready"

\* The checkpoint and the row know of the same request.
Evidence ==
    /\ ~row.lost
    /\ ds.owned /\ row.cp = Unset => ds.client = Unset /\ ds.tx = 0
    /\ ds.owned /\ row.cp # Unset => row.cp.client = ds.client /\ row.cp.tx = ds.tx

\* What an invocation works from.
Position ==
    /\ inv.pc \in {"lookup", "observe", "complete", "send", "sent"} =>
          inv.cp # Unset /\ inv.cp = row.cp
    /\ inv.pc = "admit" => inv.cp # Unset /\ (row.cp = inv.cp \/ (row.cp = Unset /\ inv.cp.tx = 0))
    /\ inv.pc = "record" => /\ row.cp # Unset /\ inv.cp # Unset
                            /\ inv.cp.client = row.cp.client /\ inv.cp.tx # 0

IInv == CreateTypeOK /\ ReadyIsReal /\ Requests /\ Ownership /\ Evidence /\ Position

Budget == [rounds : 0..MaxRounds, faults : 0..CreateFaults, crashes : 0..MaxCrashes]

-----------------------------------------------------------------------------
(* Types.                                                                  *)

\* The bound on requests is a number.
LEMMA SendLimitTyped == ASSUME Bounds PROVE SendLimit \in Nat /\ 0 \in 0..SendLimit
<1>1. EnsureAttempts \in Nat /\ MaxRounds + 1 \in Nat
  BY DEF Bounds
<1>2. \A a, b \in Nat : a * b \in Nat
  OBVIOUS
<1>3. SendLimit \in Nat
  BY <1>1, <1>2 DEF SendLimit
<1> QED  BY <1>3

\* A round, a fault or a crash is taken from what is left of them.
LEMMA SpendTyped ==
    ASSUME Bounds, budget \in Budget, NEW b \in {"rounds", "faults", "crashes"}, SpendBudget(b)
    PROVE  budget' \in Budget
<1>1. budget.rounds \in 0..MaxRounds /\ budget.faults \in 0..CreateFaults /\ budget.crashes \in 0..MaxCrashes
  BY DEF Budget
<1>2. CASE b = "rounds"
  <2>1. budget.rounds - 1 \in 0..MaxRounds
    BY <1>1, <1>2 DEF SpendBudget, Bounds
  <2> QED  BY <1>1, <1>2, <2>1 DEF SpendBudget, Budget
<1>3. CASE b = "faults"
  <2>1. budget.faults - 1 \in 0..CreateFaults
    BY <1>1, <1>3 DEF SpendBudget, Bounds
  <2> QED  BY <1>1, <1>3, <2>1 DEF SpendBudget, Budget
<1>4. CASE b = "crashes"
  <2>1. budget.crashes - 1 \in 0..MaxCrashes
    BY <1>1, <1>4 DEF SpendBudget, Bounds
  <2> QED  BY <1>1, <1>4, <2>1 DEF SpendBudget, Budget
<1> QED  BY <1>2, <1>3, <1>4

\* Between two invocations, and a task that has just been made.
LEMMA FreshTyped ==
    ASSUME Bounds
    PROVE  /\ NoEnsure \in EnsureInvocation /\ NoEnsure.pc = "idle"
           /\ FreshRow \in EnsureTask /\ FreshRow.cp = Unset /\ ~FreshRow.lost /\ FreshRow.status = "pending"
BY DEF Bounds, NoEnsure, EnsureInvocation, FreshRow, EnsureTask

\* What a running invocation may rely on.
LEMMA Running ==
    ASSUME IInv, inv.pc # "idle"
    PROVE  /\ row \in EnsureTask /\ inv \in EnsureInvocation /\ ds \in DataSet /\ budget \in Budget
           /\ row.status = "running" /\ ds.owned /\ ds.status \in {"pending", "creating"}
           /\ ~ds.replaced /\ ds.id = 0 /\ ~row.lost /\ Authorized
<1>1. row \in EnsureTask /\ inv \in EnsureInvocation /\ ds \in DataSet /\ budget \in Budget
  BY DEF IInv, CreateTypeOK, Budget
<1>2. row.status = "running" /\ ds.owned /\ ds.status \in {"pending", "creating"} /\ ~ds.replaced
  BY DEF IInv, Ownership
<1>3. ds.id = 0 /\ ~row.lost
  BY <1>2 DEF IInv, Ownership, Evidence
<1> QED  BY <1>1, <1>2, <1>3 DEF Authorized, CreationStopped

\* taskengine.Wait and taskengine.Retry leave the checkpoint they are given.
LEMMA Settlements ==
    ASSUME Bounds, row \in EnsureTask, ~row.lost, NEW cp \in Checkpoint \union {Unset},
           Retries(cp) \/ \E m \in {"execute", "recover"} : Waits(m, cp)
    PROVE  /\ row' \in EnsureTask /\ row'.cp = cp /\ ~row'.lost
           /\ row'.status \in {"pending", "failed"} /\ inv' = NoEnsure
<1>1. row.retry \in Nat /\ (row.retry < EnsureAttempts - 1 => row.retry + 1 \in 0..(EnsureAttempts - 1))
  BY DEF Bounds, EnsureTask
<1>2. CASE Retries(cp)
  <2>1. CASE row.retry < EnsureAttempts - 1
    BY <1>1, <1>2, <2>1, Zenon DEF Retries, EndEnsure, EnsureTask
  <2>2. CASE ~(row.retry < EnsureAttempts - 1)
    BY <1>1, <1>2, <2>2 DEF Retries, EndEnsure, EnsureTask
  <2> QED  BY <2>1, <2>2
<1>3. ASSUME NEW m \in {"execute", "recover"}, Waits(m, cp)
      PROVE  /\ row' \in EnsureTask /\ row'.cp = cp /\ ~row'.lost
             /\ row'.status \in {"pending", "failed"} /\ inv' = NoEnsure
  BY <1>3 DEF Waits, EndEnsure, EnsureTask
<1> QED  BY <1>2, <1>3

-----------------------------------------------------------------------------
(* Steps of one kind.                                                      *)

\* An invocation ends with a task that is to be continued, and evidence in both rows.
LEMMA RowSettles ==
    ASSUME Bounds, IInv, inv.pc # "idle", requests' = requests, budget' \in Budget, inv' = NoEnsure,
           row' \in EnsureTask, ~row'.lost, row'.status \in {"pending", "failed"},
           ds' \in DataSet, ds'.owned, ds'.status \in {"pending", "creating"}, ~ds'.replaced,
           ds'.id = ds.id, ds'.client = ds.client,
           row'.cp = Unset => ds'.client = Unset /\ ds'.tx = 0,
           row'.cp # Unset => row'.cp.client = ds'.client /\ row'.cp.tx = ds'.tx
    PROVE  IInv'
<1>1. CreateTypeOK'
  BY FreshTyped DEF IInv, CreateTypeOK, Budget
<1>2. ReadyIsReal' /\ Ownership'
  BY FreshTyped, Running DEF ReadyIsReal, Ownership
<1>3. Requests'
  BY DEF IInv, Requests
<1>4. Evidence' /\ Position'
  BY FreshTyped DEF Evidence, Position
<1> QED  BY <1>1, <1>2, <1>3, <1>4 DEF IInv

\* It ends and keeps the evidence.
LEMMA EndsQuietly ==
    ASSUME Bounds, IInv, inv.pc # "idle", UNCHANGED <<ds, requests>>, budget' \in Budget,
           Retries(row.cp) \/ \E m \in {"execute", "recover"} : Waits(m, row.cp)
    PROVE  IInv'
<1>1. /\ row \in EnsureTask /\ ds \in DataSet /\ ~row.lost /\ ds.owned /\ ~ds.replaced
      /\ ds.status \in {"pending", "creating"}
  BY Running
<1>2. row.cp \in Checkpoint \union {Unset}
  BY <1>1 DEF EnsureTask
<1>3. /\ row' \in EnsureTask /\ row'.cp = row.cp /\ ~row'.lost
      /\ row'.status \in {"pending", "failed"} /\ inv' = NoEnsure
  BY <1>1, <1>2, Settlements
<1>4. /\ row'.cp = Unset => ds'.client = Unset /\ ds'.tx = 0
      /\ row'.cp # Unset => row'.cp.client = ds'.client /\ row'.cp.tx = ds'.tx
  BY <1>1, <1>3 DEF IInv, Evidence
<1> QED  BY <1>1, <1>3, <1>4, RowSettles

\* It goes on to another step.
LEMMA GoesOn ==
    ASSUME Bounds, IInv, inv.pc # "idle", UNCHANGED <<row, ds, requests>>, budget' \in Budget,
           inv' \in EnsureInvocation, Position'
    PROVE  IInv'
<1>1. CreateTypeOK'
  BY DEF IInv, CreateTypeOK, Budget
<1>2. ReadyIsReal' /\ Requests'
  BY DEF IInv, ReadyIsReal, Requests, Created
<1>3. Ownership' /\ Evidence'
  BY Running DEF IInv, Ownership, Evidence
<1> QED  BY <1>1, <1>2, <1>3 DEF IInv

-----------------------------------------------------------------------------
(* The engine, the operator and the clock.                                 *)

\* A claim starts an invocation that has established nothing.
LEMMA ClaimEnsureKeeps == ASSUME Bounds, IInv, ClaimEnsure PROVE IInv'
<1>1. row \in EnsureTask /\ UNCHANGED <<ds, requests, budget>> /\ row.status \in {"pending", "running"}
  BY DEF ClaimEnsure, IInv, CreateTypeOK
<1>2. PICK m \in {"execute", "recover"} : inv' = [NoEnsure EXCEPT !.pc = "run", !.mode = m]
  BY <1>1 DEF ClaimEnsure, EnsureTask
<1>3. inv' \in EnsureInvocation /\ inv'.pc = "run" /\ inv'.mode = m
  BY <1>2, FreshTyped DEF EnsureInvocation, NoEnsure
<1>4. row' = [row EXCEPT !.status = "running", !.mode = m]
  BY <1>3 DEF ClaimEnsure
<1>5. row' \in EnsureTask /\ row'.cp = row.cp /\ row'.lost = row.lost /\ row'.status = "running"
  BY <1>1, <1>4 DEF EnsureTask
<1>6. CreateTypeOK'
  BY <1>1, <1>3, <1>5 DEF IInv, CreateTypeOK
<1>7. ReadyIsReal' /\ Requests'
  BY <1>1 DEF IInv, ReadyIsReal, Requests, Created
<1>8. Ownership' /\ Evidence'
  BY <1>1, <1>5 DEF IInv, Ownership, Evidence
<1>9. Position'
  BY <1>3 DEF Position
<1> QED  BY <1>6, <1>7, <1>8, <1>9 DEF IInv

\* A crash loses the invocation and keeps the rows.
LEMMA CrashKeeps == ASSUME Bounds, IInv, CreateCrash PROVE IInv'
<1>1. inv' = NoEnsure /\ UNCHANGED <<row, ds, requests>> /\ inv.pc # "idle"
  BY DEF CreateCrash
<1>2. budget' \in Budget
  BY <1>1, Running, SpendTyped DEF CreateCrash
<1>3. inv' \in EnsureInvocation /\ inv'.pc = "idle"
  BY <1>1, FreshTyped
<1> QED  BY <1>1, <1>2, <1>3, GoesOn DEF Position

\* EnsureDataSet binds a task to a row for which nothing was sent.
LEMMA EnsureKeeps == ASSUME Bounds, IInv, EnsureDataSet PROVE IInv'
<1>1. /\ ds.status # "ready" /\ ~ds.owned /\ ~CreationStopped /\ inv.pc = "idle"
      /\ row' = FreshRow /\ ds' = [ds EXCEPT !.owned = TRUE] /\ UNCHANGED <<inv, requests, budget>>
      /\ ds \in DataSet
  BY DEF EnsureDataSet, IInv, CreateTypeOK
<1>2. ds.id = 0 /\ ~ds.replaced /\ ds.status \in {"pending", "creating"} /\ ds.client = Unset /\ ds.tx = 0
  BY <1>1 DEF CreationStopped, IInv, Ownership, DataSet
<1>3. /\ ds' \in DataSet /\ ds'.owned /\ ds'.status = ds.status /\ ds'.client = ds.client
      /\ ds'.tx = ds.tx /\ ds'.id = ds.id /\ ds'.replaced = ds.replaced
  BY <1>1 DEF DataSet
<1>4. CreateTypeOK'
  BY <1>1, <1>3, FreshTyped DEF IInv, CreateTypeOK
<1>5. ReadyIsReal' /\ Ownership'
  BY <1>1, <1>2, <1>3 DEF ReadyIsReal, Ownership
<1>6. Requests'
  BY <1>1, <1>3 DEF IInv, Requests
<1>7. Evidence' /\ Position'
  BY <1>1, <1>2, <1>3, FreshTyped DEF Evidence, Position
<1> QED  BY <1>4, <1>5, <1>6, <1>7 DEF IInv

\* The next round recovers from the same checkpoint.
LEMMA RetryRoundKeeps == ASSUME Bounds, IInv, RetryRound PROVE IInv'
<1>1. /\ row.status = "failed" /\ ds.owned /\ row \in EnsureTask /\ UNCHANGED <<inv, ds, requests>>
      /\ row' = [FreshRow EXCEPT !.mode = "recover", !.cp = row.cp, !.due = row.due]
      /\ budget \in Budget
  BY DEF RetryRound, IInv, CreateTypeOK, Budget
<1>2. budget' \in Budget
  BY <1>1, SpendTyped DEF RetryRound
<1>3. row' \in EnsureTask /\ row'.cp = row.cp /\ ~row'.lost /\ row'.status = "pending"
  <2>1. row.cp \in Checkpoint \union {Unset} /\ row.due \in BOOLEAN
    BY <1>1 DEF EnsureTask
  <2> DEFINE f == FreshRow
  <2>2. f \in EnsureTask /\ ~f.lost /\ f.status = "pending"
    BY FreshTyped
  <2> HIDE DEF f
  <2>3. row' = [f EXCEPT !.mode = "recover", !.cp = row.cp, !.due = row.due]
    BY <1>1 DEF f
  <2> QED  BY <2>1, <2>2, <2>3 DEF EnsureTask
<1>4. inv.pc = "idle"
  BY <1>1 DEF IInv, Ownership
<1>5. CreateTypeOK'
  BY <1>1, <1>2, <1>3 DEF IInv, CreateTypeOK, Budget
<1>6. ReadyIsReal' /\ Requests'
  BY <1>1 DEF IInv, ReadyIsReal, Requests, Created
<1>7. Ownership' /\ Evidence'
  BY <1>1, <1>3, <1>4 DEF IInv, Ownership, Evidence
<1>8. Position'
  BY <1>1, <1>4 DEF Position
<1> QED  BY <1>5, <1>6, <1>7, <1>8 DEF IInv

\* A replacement takes the row from its failed task for good.
LEMMA GivesUpKeeps == ASSUME Bounds, IInv, ReplaceTarget \/ Abandon \/ Activate PROVE IInv'
<1>1. UNCHANGED <<row, inv, requests, budget>> /\ ds \in DataSet
  BY DEF ReplaceTarget, Abandon, Activate, IInv, CreateTypeOK
<1>2. /\ ds' \in DataSet /\ ~ds'.owned /\ ds'.status # "ready" /\ ds'.client = ds.client
      /\ ds'.tx = ds.tx /\ ds'.id = ds.id /\ (ds'.status = "retired" \/ ds'.replaced)
      /\ ds.id = 0 /\ row.status \notin {"pending", "running"}
  <2>1. CASE ReplaceTarget \/ Abandon
    BY <1>1, <2>1 DEF ReplaceTarget, Abandon, FailedInitialization, DataSet, IInv, Ownership
  <2>2. CASE Activate
    BY <1>1, <2>2 DEF Activate, DataSet, IInv, Ownership
  <2> QED  BY <2>1, <2>2
<1>3. inv.pc = "idle"
  BY <1>2 DEF IInv, Ownership
<1>4. CreateTypeOK' /\ ReadyIsReal'
  BY <1>1, <1>2 DEF IInv, CreateTypeOK, ReadyIsReal
<1>5. Requests' /\ Position'
  BY <1>1, <1>2, <1>3 DEF IInv, Requests, Position
<1>6. Ownership' /\ Evidence'
  BY <1>1, <1>2, <1>3 DEF IInv, Ownership, Evidence
<1> QED  BY <1>4, <1>5, <1>6 DEF IInv

\* Time says nothing of the evidence.
LEMMA ResendDueKeeps == ASSUME Bounds, IInv, ResendDue PROVE IInv'
<1>1. row \in EnsureTask /\ row' = [row EXCEPT !.due = TRUE] /\ UNCHANGED <<inv, ds, requests, budget>>
  BY DEF ResendDue, IInv, CreateTypeOK
<1>2. row' \in EnsureTask /\ row'.cp = row.cp /\ row'.status = row.status /\ row'.lost = row.lost
  BY <1>1 DEF EnsureTask
<1>3. CreateTypeOK' /\ ReadyIsReal' /\ Requests'
  BY <1>1, <1>2 DEF IInv, CreateTypeOK, ReadyIsReal, Requests, Created
<1>4. Ownership' /\ Evidence' /\ Position'
  BY <1>1, <1>2 DEF IInv, Ownership, Evidence, Position
<1> QED  BY <1>3, <1>4 DEF IInv

-----------------------------------------------------------------------------
(* runDataSetEnsure.                                                       *)

\* A new request is prepared only when none was ever sent.
LEMMA RunKeeps == ASSUME Bounds, IInv, RunDataSetEnsure PROVE IInv'
<1>1. inv.pc = "run" /\ UNCHANGED <<ds, requests>>
  BY DEF RunDataSetEnsure
<1>2. /\ row \in EnsureTask /\ inv \in EnsureInvocation /\ ds \in DataSet /\ budget \in Budget /\ ds.owned
      /\ Authorized
  BY <1>1, Running
<1>3. CASE row.cp = Unset /\ StartCreation /\ budget' = budget
  <2>1. ds.client = Unset /\ ds.tx = 0
    BY <1>2, <1>3 DEF IInv, Evidence
  <2>2. CASE Waits("execute", Unset)
    BY <1>1, <1>2, <1>3, <2>2, EndsQuietly
  <2>3. ASSUME NEW c \in ClientIDs,
               EnsureGoes("admit", [client |-> c, tx |-> 0, url |-> FALSE, rejected |-> FALSE])
        PROVE  IInv'
    <3> DEFINE k == [client |-> c, tx |-> 0, url |-> FALSE, rejected |-> FALSE]
    <3>1. k \in Checkpoint
      BY SendLimitTyped DEF Checkpoint
    <3>2. k # Unset /\ k.tx = 0
      BY <3>1 DEF Bounds
    <3>3. inv' = [inv EXCEPT !.pc = "admit", !.cp = k] /\ row' = row
      BY <2>3 DEF EnsureGoes
    <3> HIDE DEF k
    <3>4. inv' \in EnsureInvocation /\ inv'.pc = "admit" /\ inv'.cp = k
      BY <1>2, <3>1, <3>3 DEF EnsureInvocation
    <3>5. Position'
      BY <1>3, <3>2, <3>3, <3>4 DEF Position
    <3> QED  BY <1>1, <1>2, <1>3, <3>3, <3>4, <3>5, GoesOn
  <2> QED  BY <1>3, <2>1, <2>2, <2>3 DEF StartCreation
<1>4. CASE row.cp # Unset /\ EnsureGoes("lookup", row.cp) /\ budget' = budget
  <2>1. inv' = [inv EXCEPT !.pc = "lookup", !.cp = row.cp] /\ row' = row
    BY <1>4 DEF EnsureGoes
  <2>2. inv' \in EnsureInvocation /\ inv'.pc = "lookup" /\ inv'.cp = row.cp
    BY <1>2, <2>1 DEF EnsureInvocation, EnsureTask
  <2>3. Position'
    BY <1>4, <2>1, <2>2 DEF Position
  <2> QED  BY <1>1, <1>2, <1>4, <2>1, <2>2, <2>3, GoesOn
<1>5. row.cp # Unset => ds.client \in {Unset, row.cp.client}
  BY <1>2 DEF IInv, Evidence
<1>6. CASE SpendBudget("faults") /\ Retries(row.cp)
  BY <1>1, <1>2, <1>6, SpendTyped, EndsQuietly
<1> QED  BY <1>2, <1>3, <1>4, <1>5, <1>6 DEF RunDataSetEnsure

-----------------------------------------------------------------------------
(* recoverDataSetCreation.                                                 *)

\* A lookup ends with the checkpoint it started from, or goes on with it.
LEMMA RecoverKeeps == ASSUME Bounds, IInv, RecoverDataSetCreation PROVE IInv'
<1>1. inv.pc = "lookup" /\ UNCHANGED <<ds, requests>>
  BY DEF RecoverDataSetCreation
<1>2. /\ row \in EnsureTask /\ inv \in EnsureInvocation /\ budget \in Budget
  BY <1>1, Running
<1>3. inv.cp # Unset /\ inv.cp = row.cp /\ inv.cp \in Checkpoint
  BY <1>1, <1>2 DEF IInv, Position, EnsureInvocation
<1>4. budget' \in Budget
  BY <1>2, SpendTyped DEF RecoverDataSetCreation
<1>5. ASSUME NEW pc \in {"observe", "admit", "complete"}, EnsureGoes(pc, inv.cp) PROVE IInv'
  <2>1. inv' = [inv EXCEPT !.pc = pc, !.cp = inv.cp] /\ row' = row
    BY <1>5 DEF EnsureGoes
  <2>2. inv' \in EnsureInvocation /\ inv'.pc = pc /\ inv'.cp = row.cp
    BY <1>2, <1>3, <2>1 DEF EnsureInvocation
  <2>3. Position'
    BY <1>3, <2>1, <2>2 DEF Position
  <2> QED  BY <1>1, <1>4, <2>1, <2>2, <2>3, GoesOn
<1>6. CASE Retries(inv.cp) \/ \E m \in {"execute", "recover"} : Waits(m, inv.cp)
  BY <1>1, <1>3, <1>4, <1>6, EndsQuietly
<1>7. ASSUME NEW f \in BOOLEAN, RecoverUnfound(f) PROVE IInv'
  BY <1>5, <1>6, <1>7 DEF RecoverUnfound
<1> QED  BY <1>5, <1>7 DEF RecoverDataSetCreation

\* MarkDataSetCreating with a checkpoint of the row's own client ID.
LEMMA MarkCreatingKeeps ==
    ASSUME ds \in DataSet, NEW cp \in Checkpoint, cp.client = ds.client, MarkCreating(cp)
    PROVE  /\ ds' \in DataSet /\ ds'.owned = ds.owned /\ ds'.status = "creating"
           /\ ds'.replaced = ds.replaced /\ ds'.id = ds.id /\ ds'.client = ds.client
           /\ ds'.tx = IF cp.tx = 0 THEN ds.tx ELSE cp.tx
<1> DEFINE t == IF cp.tx = 0 THEN ds.tx ELSE cp.tx
<1>1. t \in 0..SendLimit /\ cp.client \in ClientIDs
  BY DEF DataSet, Checkpoint
<1>2. ds' = [ds EXCEPT !.status = "creating", !.client = cp.client, !.tx = t]
  BY DEF MarkCreating
<1> HIDE DEF t
<1>3. /\ ds' \in DataSet /\ ds'.owned = ds.owned /\ ds'.status = "creating"
      /\ ds'.replaced = ds.replaced /\ ds'.id = ds.id /\ ds'.client = ds.client /\ ds'.tx = t
  BY <1>1, <1>2 DEF DataSet
<1> QED  BY <1>3 DEF t

\* A settlement that writes a submission of the row's client ID to both rows.
LEMMA SettlesCreating ==
    ASSUME Bounds, IInv, inv.pc # "idle", requests' = requests, budget' \in Budget,
           NEW cp \in Checkpoint, cp.client = ds.client, MarkCreating(cp), Retries(cp),
           cp.tx = 0 => ds.tx = 0
    PROVE  IInv'
<1>1. /\ row \in EnsureTask /\ ds \in DataSet /\ ~row.lost /\ ds.owned /\ ~ds.replaced
  BY Running
<1>2. /\ row' \in EnsureTask /\ row'.cp = cp /\ ~row'.lost
      /\ row'.status \in {"pending", "failed"} /\ inv' = NoEnsure
  BY <1>1, Settlements
<1>3. /\ ds' \in DataSet /\ ds'.owned /\ ds'.status = "creating" /\ ~ds'.replaced /\ ds'.id = ds.id
      /\ ds'.client = ds.client /\ ds'.tx = cp.tx
  BY <1>1, MarkCreatingKeeps
<1>4. row'.cp # Unset
  BY <1>2 DEF Bounds
<1> QED  BY <1>2, <1>3, <1>4, RowSettles

\* The provider's word rejects a request and completes none.
LEMMA ObserveKeeps == ASSUME Bounds, IInv, ObserveDataSetCreation PROVE IInv'
<1>1. inv.pc = "observe" /\ requests' = requests
  BY DEF ObserveDataSetCreation
<1>2. /\ row \in EnsureTask /\ inv \in EnsureInvocation /\ budget \in Budget /\ ds.owned
  BY <1>1, Running
<1>3. inv.cp # Unset /\ inv.cp = row.cp /\ inv.cp \in Checkpoint
  BY <1>1, <1>2 DEF IInv, Position, EnsureInvocation
<1>4. inv.cp.client = ds.client /\ inv.cp.tx = ds.tx
  BY <1>2, <1>3 DEF IInv, Evidence
<1>5. budget' \in Budget
  BY <1>2, SpendTyped DEF ObserveDataSetCreation
<1> DEFINE x == [inv.cp EXCEPT !.rejected = TRUE]
<1>6. CASE Retries(x) /\ MarkCreating(x)
  <2>1. x \in Checkpoint /\ x.client = ds.client /\ x.tx = ds.tx
    BY <1>3, <1>4 DEF Checkpoint
  <2> QED  BY <1>1, <1>5, <1>6, <2>1, SettlesCreating
<1>7. CASE (Retries(inv.cp) \/ Waits("recover", inv.cp)) /\ ds' = ds
  BY <1>1, <1>3, <1>5, <1>7, EndsQuietly
<1> QED  BY <1>6, <1>7 DEF ObserveDataSetCreation

-----------------------------------------------------------------------------
(* sendDataSetCreation.                                                    *)

\* The admission writes checkpoint and client ID before the request is sent.
LEMMA AdmitKeeps == ASSUME Bounds, IInv, Admit PROVE IInv'
<1>1. inv.pc = "admit" /\ requests' = requests
  BY DEF Admit
<1>2. /\ row \in EnsureTask /\ inv \in EnsureInvocation /\ ds \in DataSet /\ budget \in Budget /\ ds.owned
      /\ ~row.lost /\ ~ds.replaced /\ ds.id = 0 /\ ds.status \in {"pending", "creating"}
      /\ row.status = "running"
  BY <1>1, Running
<1>3. /\ inv.cp # Unset /\ inv.cp \in Checkpoint
      /\ (row.cp = inv.cp \/ (row.cp = Unset /\ inv.cp.tx = 0))
  BY <1>1, <1>2 DEF IInv, Position, EnsureInvocation
<1>4. CASE Retries(row.cp) /\ ds' = ds
  <2>1. budget' \in Budget
    BY <1>2, SpendTyped DEF Admit
  <2> QED  BY <1>1, <1>4, <2>1, EndsQuietly
<1>5. CASE /\ ClientRecordable(inv.cp.client)
           /\ row' = [row EXCEPT !.admitted = row.retry + 1, !.mode = "recover", !.cp = inv.cp,
                                  !.due = FALSE]
           /\ inv' = [inv EXCEPT !.pc = "send"] /\ ds' = [ds EXCEPT !.client = inv.cp.client]
           /\ budget' = budget
  <2> DEFINE a == row.retry + 1
  <2>1. a \in 0..EnsureAttempts
    BY <1>2 DEF Bounds, EnsureTask
  <2> HIDE DEF a
  <2>2. row' = [row EXCEPT !.admitted = a, !.mode = "recover", !.cp = inv.cp, !.due = FALSE]
    BY <1>5 DEF a
  <2>3. row' \in EnsureTask /\ row'.cp = inv.cp /\ ~row'.lost /\ row'.status = "running"
    BY <1>2, <1>3, <2>1, <2>2 DEF EnsureTask
  <2>4. inv' \in EnsureInvocation /\ inv'.pc = "send" /\ inv'.cp = inv.cp
    BY <1>2, <1>5 DEF EnsureInvocation
  <2>5. /\ ds' \in DataSet /\ ds'.client = inv.cp.client /\ ds'.owned /\ ~ds'.replaced /\ ds'.id = 0
        /\ ds'.status = ds.status /\ ds'.tx = ds.tx
    BY <1>2, <1>3, <1>5 DEF DataSet, Checkpoint
  <2>6. ds.tx = inv.cp.tx
    BY <1>2, <1>3 DEF IInv, Evidence
  <2>7. ds.client \in {Unset, inv.cp.client}
    BY <1>5 DEF ClientRecordable
  <2>8. \A i \in DOMAIN requests : requests[i].client = inv.cp.client
    <3> SUFFICES ASSUME NEW i \in DOMAIN requests PROVE requests[i].client = inv.cp.client
      OBVIOUS
    <3>1. requests[i].client = ds.client /\ requests[i] \in CreateRequest
      BY DEF IInv, Requests, CreateTypeOK
    <3> QED  BY <2>7, <3>1 DEF CreateRequest, Bounds
  <2>9. CreateTypeOK'
    BY <1>1, <1>5, <2>3, <2>4, <2>5 DEF IInv, CreateTypeOK
  <2>10. ReadyIsReal' /\ Ownership'
    BY <1>2, <2>3, <2>5 DEF ReadyIsReal, Ownership
  <2>11. Requests'
    BY <1>1, <2>5, <2>8 DEF IInv, Requests
  <2>12. Evidence' /\ Position'
    BY <1>3, <2>3, <2>4, <2>5, <2>6 DEF Evidence, Position
  <2> QED  BY <2>9, <2>10, <2>11, <2>12 DEF IInv
<1> QED  BY <1>4, <1>5 DEF Admit

\* Every request that is sent carries the client ID of the row.
LEMMA CreateKeeps == ASSUME Bounds, IInv, CreateDataSet PROVE IInv'
<1>1. inv.pc = "send" /\ Len(requests) < SendLimit /\ ds' = ds
  BY DEF CreateDataSet
<1>2. /\ row \in EnsureTask /\ inv \in EnsureInvocation /\ budget \in Budget /\ ds.owned /\ ds.status # "ready"
  BY <1>1, Running
<1>3. inv.cp # Unset /\ inv.cp = row.cp /\ inv.cp \in Checkpoint /\ requests \in Seq(CreateRequest)
  BY <1>1, <1>2 DEF IInv, Position, EnsureInvocation, CreateTypeOK
<1>4. inv.cp.client = ds.client /\ inv.cp.client \in ClientIDs
  BY <1>2, <1>3 DEF IInv, Evidence, Checkpoint
<1>5. PICK st \in {"held", "pooled", "dropped"} :
          requests' = Append(requests, [client |-> inv.cp.client, st |-> st])
  BY DEF CreateDataSet
<1> DEFINE q == [client |-> inv.cp.client, st |-> st]
<1>6. q \in CreateRequest /\ q.client = ds.client /\ q.st # "landed"
  BY <1>4 DEF CreateRequest
<1> HIDE DEF q
<1>7. /\ requests' \in Seq(CreateRequest) /\ Len(requests') = Len(requests) + 1 /\ DOMAIN requests' = 1..(Len(requests) + 1)
      /\ DOMAIN requests = 1..Len(requests) /\ Len(requests) \in Nat
      /\ \A i \in DOMAIN requests : requests'[i] = requests[i]
      /\ requests'[Len(requests) + 1] = q
  BY <1>3, <1>5, <1>6 DEF q
<1>8. \A i \in DOMAIN requests' : i \in DOMAIN requests \/ i = Len(requests) + 1
  BY <1>7
<1>9. Requests'
  <2>1. \A i \in DOMAIN requests' : requests'[i].client = ds.client
    BY <1>6, <1>7, <1>8 DEF IInv, Requests
  <2>2. \A i \in DOMAIN requests' : requests'[i].st = "landed" => i \in DOMAIN requests /\ requests[i].st = "landed"
    BY <1>6, <1>7, <1>8
  <2> QED  BY <1>1, <2>1, <2>2 DEF IInv, Requests
<1>10. Len(requests) + 1 \in 0..SendLimit /\ Len(requests') <= SendLimit /\ Len(requests) + 1 # 0
  BY <1>1, <1>7, SendLimitTyped
<1>11. budget' \in Budget
  BY <1>2, SpendTyped DEF CreateDataSet
<1>12. inv' \in EnsureInvocation /\ row' = row /\ Position' /\ inv'.pc # "idle"
  <2>1. CASE EnsureGoes("record", Submission(inv.cp, Len(requests) + 1))
    <3> DEFINE n == Len(requests) + 1
               k == [inv.cp EXCEPT !.tx = n, !.url = TRUE, !.rejected = FALSE]
    <3> HIDE DEF n
    <3>1. n \in 0..SendLimit /\ n # 0
      BY <1>10 DEF n
    <3>2. k \in Checkpoint /\ k.client = inv.cp.client /\ k.tx = n
      BY <1>3, <3>1 DEF Checkpoint
    <3>3. inv' = [inv EXCEPT !.pc = "record", !.cp = k] /\ row' = row
      BY <2>1 DEF EnsureGoes, Submission, n
    <3> HIDE DEF k
    <3>4. inv' \in EnsureInvocation /\ inv'.pc = "record" /\ inv'.cp = k /\ k # Unset
      BY <1>2, <3>2, <3>3 DEF EnsureInvocation, Bounds
    <3> QED  BY <1>3, <3>1, <3>2, <3>3, <3>4 DEF Position
  <2>2. CASE EnsureGoes("sent", inv.cp)
    <3>1. inv' \in EnsureInvocation /\ inv'.pc = "sent" /\ inv'.cp = inv.cp /\ row' = row
      BY <1>2, <2>2 DEF EnsureGoes, EnsureInvocation
    <3> QED  BY <1>3, <3>1 DEF Position
  <2> QED  BY <2>1, <2>2 DEF CreateDataSet
<1>13. CreateTypeOK'
  BY <1>1, <1>7, <1>10, <1>11, <1>12 DEF IInv, CreateTypeOK, Budget
<1>14. ReadyIsReal' /\ Evidence'
  BY <1>1, <1>2, <1>12 DEF IInv, ReadyIsReal, Evidence
<1>15. Ownership'
  BY <1>1, <1>12, Running DEF IInv, Ownership
<1> QED  BY <1>9, <1>12, <1>13, <1>14, <1>15 DEF IInv

\* OnSubmitted writes one submission to the task and to the row.
LEMMA RecordKeeps == ASSUME Bounds, IInv, RecordSubmission PROVE IInv'
<1>1. inv.pc = "record" /\ requests' = requests /\ MarkCreating(inv.cp)
  BY DEF RecordSubmission
<1>2. /\ row \in EnsureTask /\ inv \in EnsureInvocation /\ ds \in DataSet /\ budget \in Budget /\ ds.owned
      /\ ~row.lost /\ ~ds.replaced /\ ds.id = 0 /\ row.status = "running"
  BY <1>1, Running
<1>3. /\ row.cp # Unset /\ inv.cp # Unset /\ inv.cp.client = row.cp.client /\ inv.cp.tx # 0
      /\ inv.cp \in Checkpoint
  BY <1>1, <1>2 DEF IInv, Position, EnsureInvocation
<1>4. inv.cp.client = ds.client
  BY <1>2, <1>3 DEF IInv, Evidence
<1>5. CASE SpendBudget("faults") /\ Retries(inv.cp)
  BY <1>1, <1>2, <1>3, <1>4, <1>5, SpendTyped, SettlesCreating
<1>6. CASE /\ row' = [row EXCEPT !.cp = inv.cp] /\ budget' = budget
           /\ inv' = [inv EXCEPT !.pc = "lookup", !.mode = "recover"]
  <2>1. row' \in EnsureTask /\ row'.cp = inv.cp /\ ~row'.lost /\ row'.status = "running"
    BY <1>2, <1>3, <1>6 DEF EnsureTask
  <2>2. inv' \in EnsureInvocation /\ inv'.pc = "lookup" /\ inv'.cp = inv.cp
    BY <1>2, <1>6 DEF EnsureInvocation
  <2>3. /\ ds' \in DataSet /\ ds'.owned /\ ds'.status = "creating" /\ ~ds'.replaced /\ ds'.id = 0
        /\ ds'.client = ds.client /\ ds'.tx = inv.cp.tx
    BY <1>1, <1>2, <1>3, <1>4, MarkCreatingKeeps
  <2>4. CreateTypeOK'
    BY <1>1, <1>6, <2>1, <2>2, <2>3 DEF IInv, CreateTypeOK
  <2>5. ReadyIsReal' /\ Ownership'
    BY <2>1, <2>3 DEF ReadyIsReal, Ownership
  <2>6. Requests'
    BY <1>1, <2>3 DEF IInv, Requests
  <2>7. Evidence' /\ Position'
    BY <1>3, <1>4, <2>1, <2>2, <2>3 DEF Evidence, Position
  <2> QED  BY <2>4, <2>5, <2>6, <2>7 DEF IInv
<1> QED  BY <1>5, <1>6 DEF RecordSubmission

\* A request that ended without a submission leaves the checkpoint as it is.
LEMMA CreateFailedKeeps == ASSUME Bounds, IInv, CreateFailed PROVE IInv'
<1>1. inv.pc = "sent" /\ Retries(inv.cp) /\ UNCHANGED <<ds, requests, budget>>
  BY DEF CreateFailed
<1>2. inv.cp = row.cp /\ budget' \in Budget
  BY <1>1, Running DEF IInv, Position
<1> QED  BY <1>1, <1>2, EndsQuietly

\* Only a data set found on chain under the row's client ID makes it ready.
LEMMA CompleteKeeps == ASSUME Bounds, IInv, CompleteDataSetEnsure PROVE IInv'
<1>1. /\ inv.pc = "complete" /\ row' = [row EXCEPT !.status = "done"] /\ inv' = NoEnsure
      /\ UNCHANGED <<requests, budget>>
  BY DEF CompleteDataSetEnsure, EndEnsure
<1>2. /\ row \in EnsureTask /\ inv \in EnsureInvocation /\ ds \in DataSet /\ ds.owned /\ ~row.lost
  BY <1>1, Running
<1>3. inv.cp # Unset /\ inv.cp = row.cp /\ inv.cp \in Checkpoint
  BY <1>1, <1>2 DEF IInv, Position, EnsureInvocation
<1>4. inv.cp.client = ds.client /\ inv.cp.client \in ClientIDs /\ inv.cp.tx \in 0..SendLimit
  BY <1>2, <1>3 DEF IInv, Evidence, Checkpoint
<1> DEFINE t == IF inv.cp.tx = 0 THEN ds.tx ELSE inv.cp.tx
<1>5. PICK i \in Created(inv.cp.client) :
          ds' = [ds EXCEPT !.status = "ready", !.id = i, !.client = inv.cp.client, !.owned = FALSE,
                           !.tx = t]
  BY DEF CompleteDataSetEnsure
<1>6. t \in 0..SendLimit
  BY <1>2, <1>4 DEF DataSet
<1>7. i \in 0..SendLimit /\ i # 0
  <2>1. i \in DOMAIN requests /\ requests \in Seq(CreateRequest) /\ Len(requests) <= SendLimit
    BY DEF Created, IInv, CreateTypeOK
  <2>2. i \in 1..Len(requests) /\ Len(requests) \in Nat
    BY <2>1
  <2> QED  BY <2>1, <2>2, SendLimitTyped
<1> HIDE DEF t
<1>8. /\ ds' \in DataSet /\ ds'.status = "ready" /\ ds'.id = i /\ ds'.client = ds.client /\ ~ds'.owned
  BY <1>2, <1>4, <1>5, <1>6, <1>7 DEF DataSet
<1>9. row' \in EnsureTask /\ ~row'.lost /\ row'.status = "done"
  BY <1>1, <1>2 DEF EnsureTask
<1>10. CreateTypeOK'
  BY <1>1, <1>8, <1>9, FreshTyped DEF IInv, CreateTypeOK
<1>11. ReadyIsReal'
  BY <1>1, <1>4, <1>5, <1>8 DEF ReadyIsReal, Created
<1>12. Requests'
  BY <1>1, <1>8 DEF IInv, Requests
<1>13. Ownership' /\ Evidence' /\ Position'
  BY <1>1, <1>8, <1>9, FreshTyped DEF Ownership, Evidence, Position
<1> QED  BY <1>10, <1>11, <1>12, <1>13 DEF IInv

-----------------------------------------------------------------------------
(* The provider and the chain.                                             *)

\* A request that moves on keeps its client ID, and lands only as the first.
LEMMA ChainKeeps ==
    ASSUME Bounds, IInv, NEW i \in DOMAIN requests, Submit(i) \/ Land(i) PROVE IInv'
<1>1. UNCHANGED <<row, inv, ds, budget>> /\ requests \in Seq(CreateRequest) /\ requests[i].st # "landed"
  BY DEF Submit, Land, IInv, CreateTypeOK
<1>2. PICK st \in {"pooled", "dropped", "reverted", "landed"} :
          /\ requests' = [requests EXCEPT ![i].st = st]
          /\ st = "landed" => Created(requests[i].client) = {}
  BY DEF Submit, Land
<1> DEFINE q == [requests[i] EXCEPT !.st = st]
<1>3. q \in CreateRequest /\ q.client = requests[i].client /\ q.st = st
  <2>1. requests[i] \in CreateRequest
    BY <1>1
  <2> QED  BY <2>1 DEF CreateRequest
<1>4. requests' = [requests EXCEPT ![i] = q]
  BY <1>2
<1> HIDE DEF q
<1>5. /\ requests' \in Seq(CreateRequest) /\ Len(requests') = Len(requests) /\ DOMAIN requests' = DOMAIN requests
      /\ \A j \in DOMAIN requests : requests'[j] = IF j = i THEN q ELSE requests[j]
  BY <1>1, <1>3, <1>4
<1>6. CreateTypeOK'
  BY <1>1, <1>5 DEF IInv, CreateTypeOK
<1>7. ReadyIsReal'
  BY <1>1, <1>3, <1>5 DEF IInv, ReadyIsReal, Created
<1>8. Requests'
  <2>1. \A j \in DOMAIN requests' : requests'[j].client = ds.client
    BY <1>3, <1>5 DEF IInv, Requests
  <2>2. st = "landed" => \A j \in DOMAIN requests : requests[j].st # "landed"
    BY <1>2 DEF IInv, Requests, Created
  <2>3. \A j, k \in DOMAIN requests' : requests'[j].st = "landed" /\ requests'[k].st = "landed" => j = k
    <3> SUFFICES ASSUME NEW j \in DOMAIN requests, NEW k \in DOMAIN requests,
                        requests'[j].st = "landed", requests'[k].st = "landed"
                 PROVE  j = k
      BY <1>5
    <3>1. CASE st = "landed"
      BY <1>5, <2>2, <3>1
    <3>2. CASE st # "landed"
      <4>1. j # i /\ k # i
        BY <1>3, <1>5, <3>2
      <4> QED  BY <1>5, <4>1 DEF IInv, Requests
    <3> QED  BY <3>1, <3>2
  <2> QED  BY <1>1, <2>1, <2>3 DEF Requests
<1>9. Ownership' /\ Evidence' /\ Position'
  BY <1>1 DEF IInv, Ownership, Evidence, Position
<1> QED  BY <1>6, <1>7, <1>8, <1>9 DEF IInv

-----------------------------------------------------------------------------
(* The theorems.                                                           *)

\* A row for which nothing has been asked.
LEMMA CreateStarts == ASSUME Bounds, CreateInit PROVE IInv
<1>1. row \in EnsureTask /\ row.status = "none" /\ row.cp = Unset /\ ~row.lost
  BY FreshTyped DEF CreateInit, EnsureTask, FreshRow
<1>2. /\ ds \in DataSet /\ ds.status = "pending" /\ ds.client = Unset /\ ds.tx = 0 /\ ds.id = 0
      /\ ~ds.owned /\ ~ds.replaced
  BY SendLimitTyped DEF CreateInit, DataSet
<1>3. requests = <<>> /\ DOMAIN requests = {} /\ Len(requests) = 0 /\ requests \in Seq(CreateRequest)
  BY DEF CreateInit
<1>4. budget \in Budget
  BY DEF CreateInit, Budget, Bounds
<1>5. CreateTypeOK
  BY <1>1, <1>2, <1>3, <1>4, FreshTyped, SendLimitTyped DEF CreateInit, CreateTypeOK, Budget
<1>6. ReadyIsReal /\ Requests
  BY <1>2, <1>3 DEF ReadyIsReal, Requests
<1>7. Ownership /\ Evidence /\ Position
  BY <1>1, <1>2, FreshTyped DEF CreateInit, Ownership, Evidence, Position
<1> QED  BY <1>5, <1>6, <1>7 DEF IInv

\* Every step keeps the invariant.
LEMMA CreateStep == ASSUME Bounds, IInv, [CreateNext]_createVars PROVE IInv'
<1>1. CASE Steps
  BY <1>1, ClaimEnsureKeeps, RunKeeps, RecoverKeeps, ObserveKeeps, AdmitKeeps, CreateKeeps, RecordKeeps,
     CreateFailedKeeps, CompleteKeeps DEF Steps
<1>2. CASE EnsureDataSet \/ RetryRound \/ ReplaceTarget \/ Abandon \/ Activate \/ ResendDue \/ CreateCrash
  BY <1>2, EnsureKeeps, RetryRoundKeeps, GivesUpKeeps, ResendDueKeeps, CrashKeeps
<1>3. CASE Chain
  BY <1>3, ChainKeeps DEF Chain
<1>4. CASE UNCHANGED createVars
  BY <1>4 DEF createVars, IInv, CreateTypeOK, ReadyIsReal, Requests, Ownership, Evidence, Position, Created
<1> QED  BY <1>1, <1>2, <1>3, <1>4 DEF CreateNext

\* The inductive invariant of the ensure task, the row and its requests: every step
\* of CreateSpec keeps IInv, for all bounds.
THEOREM CreateInductive == ASSUME Bounds PROVE CreateSpec => []IInv
<1>1. CreateInit => IInv
  BY CreateStarts
<1>2. IInv /\ [CreateNext]_createVars => IInv'
  BY CreateStep
<1> QED  BY <1>1, <1>2, PTL DEF CreateSpec

\* One request that landed at most means one data set at most.
LEMMA OneLands == ASSUME IInv PROVE LandedOnce
<1> DEFINE L == {i \in DOMAIN requests : requests[i].st = "landed"}
<1>1. CASE L = {}
  BY <1>1, FS_EmptySet DEF LandedOnce
<1>2. CASE L # {}
  <2>1. PICK i \in L : L = {i}
    BY <1>2 DEF IInv, Requests
  <2>2. Cardinality(L) = 1
    BY <2>1, FS_Singleton
  <2> QED  BY <2>2 DEF LandedOnce
<1> QED  BY <1>1, <1>2

\* However often the ensure task is interrupted, retried or continued by an operator,
\* the chain holds at most one data set that its binding asked for (LandedOnce), a
\* ready row names one the chain has, and no task of runDataSetEnsure loses the
\* evidence of the request it sent (SetupInv).
THEOREM CreatedOnce == ASSUME Bounds PROVE CreateSpec => []OneDataSet
<1>1. IInv => LandedOnce
  BY OneLands
<1>2. IInv => SetupInv
  BY DEF IInv, SetupInv, EvidenceAgrees, Evidence
<1> QED  BY <1>1, <1>2, CreateInductive, PTL DEF OneDataSet

\* Only sendDataSetCreation adds a request, and only for a row it may create.
LEMMA SendStep == ASSUME Bounds, IInv, CreateNext PROVE SendAllowed
<1>1. CASE CreateDataSet
  <2>1. inv.pc # "idle"
    BY <1>1 DEF CreateDataSet
  <2> QED  BY <2>1, Running DEF SendAllowed
<1>2. CASE Chain
  <2>1. PICK i \in DOMAIN requests : Submit(i) \/ Land(i)
    BY <1>2 DEF Chain
  <2>2. PICK st : requests' = [requests EXCEPT ![i].st = st]
    BY <2>1 DEF Submit, Land
  <2>3. Len(requests') = Len(requests)
    BY <2>2 DEF IInv, CreateTypeOK
  <2> QED  BY <2>3 DEF SendAllowed
<1>3. CASE ~CreateDataSet /\ ~Chain
  <2>1. requests' = requests
    BY <1>3 DEF CreateNext, Steps, ClaimEnsure, RunDataSetEnsure, RecoverDataSetCreation, ObserveDataSetCreation,
       Admit, RecordSubmission, CreateFailed, CompleteDataSetEnsure, EnsureDataSet, RetryRound,
       ReplaceTarget, Abandon, Activate, ResendDue, CreateCrash
  <2> QED  BY <2>1 DEF SendAllowed
<1> QED  BY <1>1, <1>2, <1>3

\* Once a replacement has ended the creation of a row (dataSetCreationStoppedSQL), no
\* step sends a request for it, not even one of a task that was about to.
THEOREM StoppedStaysUnsent == ASSUME Bounds PROVE CreateSpec => StoppedNeverSends
<1>1. IInv /\ [CreateNext]_createVars => [SendAllowed]_createVars
  BY SendStep
<1> QED  BY <1>1, CreateInductive, PTL DEF CreateSpec, StoppedNeverSends

=============================================================================
