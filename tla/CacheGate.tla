----------------------------- MODULE CacheGate -----------------------------
(* The cache access gate (internal/cacheaccess/gate.go).  The gate keeps one *)
(* entry per key in use: a weighted semaphore and a reference count.  An     *)
(* entry leaves the shard's map when its last user exits, and the next user  *)
(* of the same key creates a new one, so two users of one key are serialized *)
(* only if the reference count never lets them hold different entries.       *)
(*                                                                           *)
(* A user takes the entry under the shard mutex, then a permit from its      *)
(* semaphore, then works, then returns the permit and drops the entry.  The  *)
(* semaphore is a library: it is modelled by who holds a permit and by who   *)
(* is ahead of whom in its FIFO queue.  A read weighs 1, a deletion the      *)
(* whole capacity of 2^63-1, so a deletion fits only when nobody holds, and  *)
(* a read fits unless a deletion holds.                                      *)
EXTENDS Naturals, FiniteSets

CONSTANTS Users, Keys,
          Entries,          \* gateEntry objects; a dropped one is reused
          NoEntry, NoKey

ASSUME GateAssumption ==
  /\ NoEntry \notin Entries
  /\ NoKey \notin Keys
  /\ IsFiniteSet(Users)

VARIABLES
  entries,      \* entries[k]: the object the shard maps k to
  refs,         \* refs[e]: its reference count
  user          \* user[u]: where u is in tryHold / hold

vars == <<entries, refs, user>>

Modes == {"read", "delete"}
Phases == {"idle", "entered", "waiting", "granted", "held", "leaving"}
Rows == [pc : Phases, key : Keys \cup {NoKey}, entry : Entries \cup {NoEntry},
         mode : Modes, blocking : BOOLEAN, ahead : SUBSET Users]

IdleUser ==
  [pc |-> "idle", key |-> NoKey, entry |-> NoEntry, mode |-> "read",
   blocking |-> FALSE, ahead |-> {}]

Init ==
  /\ entries = [k \in Keys |-> NoEntry]
  /\ refs = [e \in Entries |-> 0]
  /\ user = [u \in Users |-> IdleUser]

UsersOf(e) == {u \in Users : user[u].entry = e}
Fresh == {e \in Entries : UsersOf(e) = {} /\ \A k \in Keys : entries[k] # e}

----------------------------------------------------------------------------
(* golang.org/x/sync/semaphore: e's semaphore is what its users hold of it *)

Holders(e) == {u \in UsersOf(e) : user[u].pc \in {"granted", "held"}}
Queue(e) == {u \in UsersOf(e) : user[u].pc = "waiting"}

(* Mutant: a read is weighed as if a deletion left room for it. *)
FitsMixed(u, H) == user[u].mode = "read" \/ H = {}

Fits(u, H) ==
  IF user[u].mode = "delete" THEN H = {}
  ELSE \A v \in H : user[v].mode = "read"

(* notifyWaiters: grant from the front of the queue Q until one does not fit *)
(* beside the holders H and those granted before it.                         *)
Granted(Q, H) ==
  {w \in Q : \A x \in Q : (x = w \/ x \in user[w].ahead)
                             => Fits(x, H \cup (user[x].ahead \cap Q))}

(* u leaves the semaphore, and with Q left in the queue and H holding, those *)
(* who now fit are granted.                                                  *)
Notify(u, Q, H) ==
  LET G == Granted(Q, H) IN
  user' = [v \in Users |->
             [user[v] EXCEPT !.pc = IF v = u THEN "leaving"
                                    ELSE IF v \in G THEN "granted" ELSE @,
                             !.ahead = IF v \in G \cup {u} THEN {} ELSE @ \ (G \cup {u})]]

(* Mutant: whoever fits beside the holders overtakes the queue. *)
FastPathOvertakes(u) == Fits(u, Holders(user[u].entry))

(* TryAcquire, and the fast path of Acquire: nobody may overtake the queue. *)
FastPath(u) ==
  /\ Queue(user[u].entry) = {}
  /\ Fits(u, Holders(user[u].entry))

Becomes(u, pc) == user' = [user EXCEPT ![u].pc = pc]

----------------------------------------------------------------------------
(* acquire: find or create the entry of k and count this user. *)
Acquire(u, k, mode, blocking) ==
  /\ user[u].pc = "idle"
  /\ \E e \in Entries :
       /\ IF entries[k] = NoEntry THEN e \in Fresh ELSE e = entries[k]
       /\ entries' = [entries EXCEPT ![k] = e]
       /\ refs' = [refs EXCEPT ![e] = @ + 1]
       /\ user' = [user EXCEPT ![u] = [pc |-> "entered", key |-> k, entry |-> e,
                                       mode |-> mode, blocking |-> blocking,
                                       ahead |-> {}]]

(* tryHold: a permit now, or none. *)
TryHold(u) ==
  /\ user[u].pc = "entered"
  /\ ~user[u].blocking
  /\ Becomes(u, IF FastPath(u) THEN "held" ELSE "leaving")
  /\ UNCHANGED <<entries, refs>>

(* hold: a permit now, or a place at the end of the queue; a context that    *)
(* has already ended gets neither.                                           *)
Hold(u) ==
  /\ user[u].pc = "entered"
  /\ user[u].blocking
  /\ \/ FastPath(u) /\ Becomes(u, "held")
     \/ /\ ~FastPath(u)
        /\ user' = [user EXCEPT ![u] = [user[u] EXCEPT !.pc = "waiting",
                                          !.ahead = Queue(user[u].entry)]]
     \/ Becomes(u, "leaving")
  /\ UNCHANGED <<entries, refs>>

(* The waiter wakes and hold returns its release function. *)
Wake(u) ==
  /\ user[u].pc = "granted"
  /\ Becomes(u, "held")
  /\ UNCHANGED <<entries, refs>>

(* Mutant: a first waiter that gives up tells nobody. *)
CancelWaitSilent(u) ==
  /\ user[u].pc = "waiting"
  /\ Notify(u, {}, Holders(user[u].entry))
  /\ UNCHANGED <<entries, refs>>

(* The context ends while the user waits: the request is cancelled, or the   *)
(* 30 seconds GuardDeletion allows are over.  Only the departure of the      *)
(* first waiter can let others in.                                           *)
CancelWait(u) ==
  /\ user[u].pc = "waiting"
  /\ LET e == user[u].entry IN
     Notify(u, IF user[u].ahead = {} THEN Queue(e) \ {u} ELSE {}, Holders(e))
  /\ UNCHANGED <<entries, refs>>

(* The permit arrived together with the end of the context: Acquire puts it *)
(* back and reports the error.                                              *)
CancelGranted(u) ==
  /\ user[u].pc = "granted"
  /\ LET e == user[u].entry IN Notify(u, Queue(e), Holders(e) \ {u})
  /\ UNCHANGED <<entries, refs>>

(* The release function (or Close of a guarded body) returns the permit; it  *)
(* runs once however often it is called.                                     *)
ReleasePermit(u) ==
  /\ user[u].pc = "held"
  /\ LET e == user[u].entry IN Notify(u, Queue(e), Holders(e) \ {u})
  /\ UNCHANGED <<entries, refs>>

(* release: uncount this user and forget an entry nobody uses. *)
Release(u) ==
  /\ user[u].pc = "leaving"
  /\ LET e == user[u].entry
         k == user[u].key
     IN /\ refs' = [refs EXCEPT ![e] = @ - 1]
        /\ entries' = IF refs[e] = 1 /\ entries[k] = e
                        THEN [entries EXCEPT ![k] = NoEntry] ELSE entries
  /\ user' = [user EXCEPT ![u] = IdleUser]

Step(u) ==
  \/ \E k \in Keys, mode \in Modes, blocking \in BOOLEAN : Acquire(u, k, mode, blocking)
  \/ TryHold(u)
  \/ Hold(u)
  \/ Wake(u)
  \/ CancelWait(u)
  \/ CancelGranted(u)
  \/ ReleasePermit(u)
  \/ Release(u)

Next == \E u \in Users : Step(u)

Spec == Init /\ [][Next]_vars

(* A goroutine inside the gate keeps running, and a holder finishes: a read  *)
(* body is closed, a commit or a deletion returns.  Nothing forces a request *)
(* to arrive or a context to end.                                            *)
Fairness ==
  \A u \in Users : WF_vars(TryHold(u) \/ Hold(u) \/ Wake(u) \/ ReleasePermit(u) \/ Release(u))

FairSpec == Spec /\ Fairness

----------------------------------------------------------------------------
TypeOK ==
  /\ entries \in [Keys -> Entries \cup {NoEntry}]
  /\ refs \in [Entries -> Nat]
  /\ user \in [Users -> Rows]

(* The permits in use, as callers of the gate see them: from the return of   *)
(* hold or tryHold to the call of the release function.                      *)
accessOf ==
  [u \in Users |-> IF user[u].pc = "held"
                     THEN {[key |-> user[u].key, mode |-> user[u].mode]} ELSE {}]

Lock == INSTANCE CacheLock WITH access <- accessOf

(* Gate (gate.go:42): a deletion of a key excludes every open body and every *)
(* commit of that key, whatever entries the map went through: every return   *)
(* from hold or tryHold happens when no incompatible permit of the key is    *)
(* out.                                                                      *)
ImplementsLock == Lock!AccessSpec

(* "Idle entries are removed as soon as their last user exits" (gate.go:43), *)
(* and not before: the map names an entry exactly while somebody uses the    *)
(* key, all of its users use that entry, and the count is their number.      *)
EntryInUse ==
  /\ \A u \in Users : user[u].key \in Keys => entries[user[u].key] = user[u].entry
  /\ \A k \in Keys : entries[k] # NoEntry => \E u \in Users : user[u].key = k
  /\ \A e \in Entries : refs[e] = Cardinality(UsersOf(e))

(* Nobody is left behind when a holder returns its permit or a waiter gives  *)
(* up: the first of a queue never fits beside those who hold (the queue of   *)
(* entry.permits, gate.go:124).                                              *)
NoLostWakeup ==
  \A u \in Users :
    user[u].pc = "waiting" /\ user[u].ahead = {} => ~Fits(u, Holders(user[u].entry))

(* Why the gate is safe: a user inside it holds the entry its key is mapped  *)
(* to, so users of one key share one semaphore (gate.go:168-193); holders of *)
(* one semaphore are compatible; and its queue is totally ordered, so that a *)
(* batch granted together was fitted one after another.                      *)
GateInv ==
  /\ TypeOK
  /\ EntryInUse
  /\ \A u \in Users :
       IF user[u].pc = "idle" THEN user[u] = IdleUser
       ELSE user[u].key \in Keys /\ user[u].entry \in Entries
  /\ \A k, l \in Keys : entries[k] = entries[l] /\ entries[k] # NoEntry => k = l
  /\ \A e \in Entries : \A u, v \in Holders(e) : u # v => user[u].mode = "read"
  /\ \A u \in Users :
       user[u].ahead \subseteq
         IF user[u].pc = "waiting" THEN Queue(user[u].entry) \ {u} ELSE {}
  /\ \A u \in Users : \A v \in user[u].ahead : user[v].ahead \subseteq user[u].ahead
  /\ \A e \in Entries : \A u, v \in Queue(e) :
       u = v \/ u \in user[v].ahead \/ v \in user[u].ahead

(* Readers cannot starve a deletion nor deletions a reader: whoever queues   *)
(* is granted, or gives up by itself (hold, gate.go:122).                    *)
Served(u) == user[u].pc # "waiting"
WaitersServed == \A u \in Users : []<>Served(u)
=============================================================================
