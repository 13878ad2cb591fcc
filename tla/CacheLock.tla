----------------------------- MODULE CacheLock -----------------------------
(* What the cache access gate promises: for one cache key, any number of     *)
(* users that read or commit the entry, or one user that deletes it.  Users  *)
(* of different keys never wait for each other.  CacheGate implements this   *)
(* specification; CacheContent uses it to guard the file of a content.       *)

CONSTANTS Users, Keys

VARIABLE access     \* access[u]: the permits u holds, at most one at a time

Modes == {"read", "delete"}
Permits == [key : Keys, mode : Modes]

AccessTypeOK ==
  /\ access \in [Users -> SUBSET Permits]
  /\ \A u \in Users : \A g, h \in access[u] : g = h

Compatible(g, h) == g.key = h.key => g.mode = "read" /\ h.mode = "read"

AccessInit == access = [u \in Users |-> {}]

AccessFree(u, g) ==
  /\ access[u] = {}
  /\ \A v \in Users : \A h \in access[v] : Compatible(g, h)

AccessEnter(u, g) ==
  /\ AccessFree(u, g)
  /\ access' = [access EXCEPT ![u] = {g}]

AccessExit(u) ==
  /\ access[u] # {}
  /\ access' = [access EXCEPT ![u] = {}]

AccessNext == \E u \in Users : AccessExit(u) \/ \E g \in Permits : AccessEnter(u, g)

AccessSpec == AccessInit /\ [][AccessNext]_access

(* The guarantee callers rely on: a user that deletes an entry excludes      *)
(* every other user of that entry.                                           *)
AccessExclusive ==
  \A u, v \in Users : u # v =>
    \A g \in access[u], h \in access[v] : Compatible(g, h)
=============================================================================
