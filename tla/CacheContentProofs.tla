------------------------- MODULE CacheContentProofs -------------------------
(* Proofs about CacheContent.  The bytes of a named content are kept, and    *)
(* its rows agree with its files, because of four things: the file is only   *)
(* removed by who holds the deletion permit alone, so a write or a fill that *)
(* holds a read permit still finds what it put there; a removal looks, under *)
(* that permit, at the versions and the copies that make the file            *)
(* unnecessary; an object_cache row is owned by the one eviction that is     *)
(* bound to its generation; and what the tracker owes is a file that was     *)
(* served under a read permit.                                               *)
EXTENDS CacheContentLemmas

-----------------------------------------------------------------------------
(* The cache.evict task *)

\* A claim runs the eviction task and leaves the content alone.
LEMMA ClaimEvictionOK ==
  ASSUME IInv, NEW w \in Workers, NEW i \in Ids, NEW g \in Gens, ClaimEviction(w, i, g)
  PROVE  IInv'
<1>1. /\ TypeOK /\ faults \in Nat /\ Row(i) /\ evict[i][g] \in {"execute", "recover"}
      /\ i \in 0 .. MaxContents /\ g \in 0 .. MaxEvictions
  BY Basics, ContentAssumption DEF ClaimEviction, Ids, Gens
<1>2. PICK flag \in BOOLEAN : flag = (evict[i][g] = "execute") BY Zenon
<1> DEFINE x == [Idle EXCEPT !.pc = "evict", !.id = i, !.gen = g, !.flag = flag]
           t == [evict[i] EXCEPT ![g] = "running"]
<1>3. x \in Job /\ x.pc = "evict" /\ x.id = i /\ x.gen = g BY <1>1, IdleJob, Zenon DEF Job, Idle, Pcs
<1>4. job' = [job EXCEPT ![w] = x] /\ evict' = [evict EXCEPT ![i] = t]
  BY <1>2 DEF ClaimEviction
<1>5. evict[i] \in [Gens -> {"none", "execute", "recover", "running", "done"}]
  BY <1>1 DEF TypeOK
<1>6. /\ t \in [Gens -> {"none", "execute", "recover", "running", "done"}]
      /\ t[g] = "running" /\ \A h \in Gens \ {g} : t[h] = evict[i][h]
  BY <1>5
<1> HIDE DEF x, t
<1>7. /\ job' \in [Workers -> Job] /\ job'[w] = x /\ \A v \in Workers \ {w} : job'[v] = job[v]
      /\ evict' \in [Ids -> [Gens -> {"none", "execute", "recover", "running", "done"}]]
      /\ evict'[i] = t /\ \A k \in Ids \ {i} : evict'[k] = evict[k]
  BY <1>1, <1>3, <1>4, <1>6 DEF TypeOK
<1>8. TypeOK' BY <1>1, <1>7, AccessStays DEF TypeOK, ClaimEviction
<1>9. \A h \in Gens : TaskLive(i, h)' <=> TaskLive(i, h)
  BY <1>1, <1>6, <1>7 DEF TaskLive
<1>10. \A h \in Gens : evict'[i][h] # "none" => evict[i][h] # "none"
  BY <1>1, <1>6, <1>7
<1>11. content[i].row # "none" BY <1>1 DEF Row, Unused
<1>12. Others(w) BY <1>7 DEF Others, Same, ClaimEviction
<1>13. Moved(w)
  <2>1. content'[i].row # "none" BY <1>11 DEF ClaimEviction
  <2>2. evict[job'[w].id][job'[w].gen] # "running" BY <1>1, <1>3, <1>7
  <2> QED BY <1>3, <1>6, <1>7, <2>1, <2>2 DEF Moved, Holding, Handling, Claims, Evicting
<1>14. \A k \in Ids \ {i} : Untouched(k) BY <1>7 DEF Untouched, ClaimEviction
<1>15. Row(i)'
  <2>1. Bytes(i)' BY <1>1 DEF Row, Bytes, ClaimEviction, Referenced, Live
  <2>2. Unused(i)' BY <1>11 DEF Unused, ClaimEviction
  <2>3. Owned(i)'
    <3>1. entry[i].owner # 0 => entry[i].owner \in Gens BY <1>1 DEF Row, Owned, TaskLive
    <3> QED BY <1>1, <1>9, <1>10, <3>1 DEF Row, Owned, ClaimEviction, Live
  <2>4. Promise(i)' BY <1>1 DEF Row, Promise, Broken, ClaimEviction, Referenced, Live
  <2> QED BY <2>1, <2>2, <2>3, <2>4 DEF Row
<1>16. Kept(i)
  <2>1. \A v \in Workers : Evicting(v) =>
          job[v].gen \in Gens /\ evict[job[v].id][job[v].gen] = "running"
    BY DEF IInv, Handling
  <2>2. \A h \in Gens : evict[i][h] = "running" => evict'[i][h] = "running"
    BY <1>6, <1>7
  <2>3. \A v \in Workers : Evicting(v) /\ job[v].id = i => evict'[i][job[v].gen] = "running"
    BY <2>1, <2>2
  <2> QED BY <1>11, <2>3 DEF Kept, ClaimEviction, Broken, Referenced
<1>f. faults' = faults
  BY <1>1, <1>8, <1>12, <1>13, <1>14, <1>15, <1>16 DEF ClaimEviction, Works
<1> QED BY <1>1, <1>8, <1>12, <1>13, <1>14, <1>15, <1>16, <1>f, Step

\* A handler of eviction g that holds the deletion permit, or changes nothing.  It
\* may delete the file it is authorized to delete, record the deletion of a file
\* that is gone, and make the tracker forget it.
LEMMA EvictStep ==
  ASSUME IInv, NEW w \in Workers, NEW i \in Ids, NEW g, NEW r \in {"complete", "cancel", "execute", "recover"},
         job[w].id = i, job[w].gen = g, job[w].pc = "evict", Result(w, r),
         UNCHANGED <<content, remote, evict, scanned, access, crashes>>,
         Works \/ Fails,
         \/ disk' = disk
         \/ /\ SetFile(i, "absent") /\ Guarded(w, i) /\ Owns(i, g)
            /\ remote[i].durable /\ ~remote[i].needed
            /\ Forget(i) \/ Fails,
         \/ entry' = entry
         \/ RecordDeletion(i) /\ Owns(i, g),
         owed' = owed \/ Forget(i),
         r = "complete" => entry'[i].owner # g,
         r = "cancel" /\ ~LRU /\ faults' < 2 /\ entry'[i].owner = g => ~Broken(i)'
  PROVE  IInv'
<1>1. TypeOK /\ Row(i) /\ content[i].row # "none" /\ entry[i] \in Entry
  BY AtWork, Zenon
<1>2. g \in Gens /\ evict[i][g] = "running" /\ g # 0
  BY Basics, GenPositive, Zenon DEF Handling, Evicting
<1>3. /\ faults' \in 0 .. MaxFaults /\ faults' >= faults /\ faults \in Nat /\ faults' \in Nat
  BY <1>1, FaultFacts, Zenon
<1>4. /\ job' \in [Workers -> Job] /\ job'[w].pc = "settle" /\ job'[w].id = i
      /\ job'[w].gen = g /\ job'[w].res = r
      /\ \A v \in Workers \ {w} : job'[v] = job[v]
  BY <1>1, ResultFacts, Zenon
<1>5. /\ disk' \in [Ids -> Disk] /\ disk'[i].aside = disk[i].aside
      /\ \A k \in Ids \ {i} : disk'[k] = disk[k]
      /\ \/ disk'[i].file = disk[i].file
         \/ /\ disk'[i].file = "absent" /\ Owns(i, g)
            /\ remote[i].durable /\ ~remote[i].needed
            /\ Forget(i) \/ Fails
            /\ \A v \in Workers : Permit(i, "read") \notin access[v]
  <2>1. CASE disk' = disk BY <1>1, <2>1, Zenon DEF TypeOK
  <2>2. CASE SetFile(i, "absent") /\ Guarded(w, i) /\ Owns(i, g)
             /\ remote[i].durable /\ ~remote[i].needed /\ (Forget(i) \/ Fails)
    BY <1>1, <2>2, FileFacts, GuardFacts, Zenon
  <2> QED BY <2>1, <2>2, Zenon
<1>6. /\ entry' \in [Ids -> Entry] /\ \A k \in Ids \ {i} : entry'[k] = entry[k]
      /\ entry'[i].known = entry[i].known /\ entry'[i].op = entry[i].op
      /\ entry'[i] = entry[i] \/ (entry'[i].owner = 0 /\ ~entry'[i].present)
  <2>1. CASE entry' = entry BY <1>1, <2>1 DEF TypeOK
  <2>2. CASE RecordDeletion(i)
    <3>1. entry[i].present => entry[i].known BY <1>1, Zenon DEF Row, Owned
    <3> DEFINE a == Absent(entry[i])
               e == [a EXCEPT !.owner = 0]
    <3>2. a \in Entry /\ a.known = entry[i].known /\ ~a.present /\ a.op = entry[i].op
      BY <1>1, <3>1, AbsentFacts, Zenon
    <3>3. entry' = [entry EXCEPT ![i] = e] BY <2>2 DEF RecordDeletion
    <3> HIDE DEF a
    <3>4. e \in Entry /\ e.known = a.known /\ ~e.present /\ e.op = a.op /\ e.owner = 0
      BY <3>2, ContentAssumption DEF Entry
    <3> HIDE DEF e
    <3> QED BY <1>1, <3>2, <3>3, <3>4 DEF TypeOK
  <2> QED BY <2>1, <2>2, Zenon
<1>7. /\ owed' \in [Ids -> BOOLEAN] /\ \A k \in Ids \ {i} : owed'[k] = owed[k]
      /\ owed'[i] => owed[i] /\ ~Forget(i)
  BY <1>1, Zenon DEF Forget, TypeOK
<1>8. TypeOK' BY <1>1, <1>3, <1>4, <1>5, <1>6, <1>7, AccessStays, Zenon DEF TypeOK
<1>9. Others(w) BY <1>4, Zenon DEF Others, Same
<1>10. Moved(w) BY <1>1, <1>2, <1>4, Zenon DEF Moved, Holding, Handling, Claims, Evicting
<1>11. \A k \in Ids \ {i} : Untouched(k) BY <1>5, <1>6, <1>7, Zenon DEF Untouched
<1>12. Row(i)'
  <2>1. Bytes(i)' BY <1>1, <1>5, <1>6, Zenon DEF Row, Bytes, Referenced, Live
  <2>2. Unused(i)' BY <1>1, Zenon DEF Unused
  <2>3. Owned(i)' BY <1>1, <1>6, Zenon DEF Row, Owned, Live, TaskLive
  <2>4. Promise(i)'
    <3>1. Fails => faults' > faults BY <1>3 DEF Fails
    <3>2. /\ owed'[i] => owed[i]
          /\ owed'[i] /\ disk'[i].file = "absent" =>
               disk[i].file = "absent" \/ faults' > faults
      BY <1>5, <1>7, <3>1, Zenon
    <3>3. ~LRU /\ Broken(i)' =>
            entry'[i].owner # 0 \/ (Broken(i) /\ entry'[i].owner = entry[i].owner)
      <4>1. SUFFICES ASSUME Broken(i)'
                     PROVE  entry'[i].owner # 0 \/ (Broken(i) /\ entry'[i].owner = entry[i].owner)
        BY Zenon
      <4>2. entry'[i] = entry[i] BY <1>6, <4>1, Zenon DEF Broken
      <4>3. CASE disk'[i].file = disk[i].file
        BY <1>5, <4>1, <4>2, <4>3 DEF Broken, Referenced
      <4>4. CASE Owns(i, g) BY <1>2, <4>2, <4>4 DEF Owns
      <4> QED BY <1>5, <4>3, <4>4, Zenon
    <3>4. Promise(i) /\ (Live(i)' <=> Live(i)) BY <1>1, Zenon DEF Row, Live
    <3> QED BY <1>3, <3>2, <3>3, <3>4, PromiseStays, Zenon
  <2> QED BY <2>1, <2>2, <2>3, <2>4, Zenon DEF Row
<1>13. Kept(i)
  <2>1. \A v \in Workers : Evicting(v) => evict[job[v].id][job[v].gen] = "running"
    BY Zenon DEF IInv, Handling
  <2>2. ~Same(w) /\ Evicting(w) BY <1>4, Zenon DEF Same, Evicting
  <2>3. Broken(i)' => Broken(i) \/ entry'[i].owner = g
    <3>1. CASE disk'[i].file = disk[i].file BY <1>5, <1>6, <3>1, Zenon DEF Broken, Referenced
    <3>2. CASE Owns(i, g) BY <1>6, <3>2, Zenon DEF Broken, Owns
    <3> QED BY <1>5, <3>1, <3>2, Zenon
  <2> QED BY <1>1, <1>5, <1>6, <2>1, <2>2, <2>3, Zenon DEF Kept
<1> QED BY <1>3, <1>8, <1>9, <1>10, <1>11, <1>12, <1>13, Step, Zenon

\* An execution of cache.evict removes the file as its owner, under the permit, or not at all.
LEMMA RunEvictionOK ==
  ASSUME IInv, NEW w \in Workers, NEW i \in Ids, job[w].id = i, RunEviction(w)
  PROVE  IInv'
<1>1. PICK g : g = job[w].gen OBVIOUS
<1>2. /\ TypeOK /\ Row(i) /\ job[w].pc = "evict"
      /\ g \in Gens /\ g # 0 /\ job[w].id = i /\ job[w].gen = g
  <2>1. job[w].pc = "evict" BY DEF RunEviction, At
  <2>2. Handling(w) BY Basics
  <2>3. g \in Gens BY <1>1, <2>1, <2>2 DEF Handling, Evicting
  <2> QED BY <1>1, <2>1, <2>3, Basics DEF Gens
<1>3. UNCHANGED <<content, remote, evict, scanned, crashes>> BY DEF RunEviction
<1>4. entry[i].owner = g => Owns(i, g) BY <1>2 DEF Row, Owned, Owns
<1>5. ASSUME NEW r \in {"complete", "cancel", "execute", "recover"}, Result(w, r),
             UNCHANGED <<disk, entry, access>>, owed' = owed \/ Forget(i), Works \/ Fails,
             r = "complete" => entry[i].owner # g,
             r = "cancel" /\ ~LRU /\ entry[i].owner = g => ~Broken(i)
      PROVE  IInv'
  <2>1. Broken(i)' => Broken(i) BY <1>3, <1>5 DEF Broken, Referenced
  <2> QED BY <1>2, <1>3, <1>5, <2>1, EvictStep
<1>6. CASE /\ Guarded(w, i) /\ Authorized(i, g) /\ Delete(w, i)
  <2>1. /\ Owns(i, g) /\ remote[i].durable /\ ~remote[i].needed /\ UNCHANGED access
    BY <1>6 DEF Authorized, Eligible, Guarded
  <2>2. CASE SetFile(i, "absent") /\ RecordDeletion(i)
             /\ \/ (Works \/ Fails) /\ Forget(i) /\ Result(w, "complete")
                \/ Fails /\ Result(w, "recover") /\ UNCHANGED owed
    <3>1. entry'[i].owner # g
      <4>1. entry[i] \in Entry /\ (entry[i].present => entry[i].known) BY <1>2 DEF TypeOK, Row, Owned
      <4>2. Absent(entry[i]) \in Entry BY <4>1, AbsentFacts
      <4>3. [Absent(entry[i]) EXCEPT !.owner = 0].owner = 0 BY <4>2 DEF Entry
      <4> QED BY <1>2, <2>2, <4>3 DEF RecordDeletion, TypeOK
    <3> QED BY <1>2, <1>3, <1>6, <2>1, <2>2, <3>1, EvictStep, Zenon
  <2>3. CASE Fails /\ Result(w, "recover") /\ (SetFile(i, "absent") \/ UNCHANGED disk)
             /\ UNCHANGED <<entry, owed>>
    BY <1>2, <1>3, <1>6, <2>1, <2>3, EvictStep, Zenon
  <2> QED BY <1>6, <2>2, <2>3 DEF Delete
<1>7. CASE /\ Guarded(w, i) /\ ~Authorized(i, g) /\ EvictExecute(w, i, g)
  <2>1. Works /\ UNCHANGED <<disk, entry, access>> BY <1>7 DEF EvictExecute, Guarded
  <2>2. CASE DeletionRecorded(i, g)
    <3>1. Forget(i) /\ Result(w, "complete") BY <1>7, <2>2 DEF EvictExecute
    <3>2. entry[i].owner # g BY <1>2, <2>2 DEF DeletionRecorded
    <3> QED BY <1>5, <2>1, <3>1, <3>2
  <2>3. CASE ~DeletionRecorded(i, g)
    <3>1. /\ owed' = owed
          /\ Result(w, IF Eligible(i, g) /\ ~LRU THEN "execute" ELSE "cancel")
      BY <1>7, <2>3 DEF EvictExecute
    <3>2. CASE Eligible(i, g) /\ ~LRU
      BY <1>5, <2>1, <3>1, <3>2
    <3>3. CASE ~(Eligible(i, g) /\ ~LRU)
      <4>1. Result(w, "cancel") BY <3>1, <3>3
      <4>2. ~LRU /\ entry[i].owner = g => ~Broken(i)
        <5>1. ASSUME ~LRU, entry[i].owner = g, Broken(i) PROVE FALSE
          <6>1. Owns(i, g) /\ Live(i) BY <1>2, <1>4, <5>1, Zenon DEF Broken, Row, Bytes
          <6>2. remote[i].needed BY <3>3, <5>1, <6>1 DEF Eligible, Broken
          <6> QED BY <1>2, <5>1, <6>2 DEF Row, Bytes, Broken
        <5> QED BY <5>1
      <4> QED BY <1>5, <2>1, <3>1, <4>1, <4>2
    <3> QED BY <3>2, <3>3
  <2> QED BY <2>2, <2>3
<1>8. CASE Guarded(w, i) /\ EvictRecover(w, i, g)
  <2>1. UNCHANGED <<disk, access>> BY <1>8, Zenon DEF EvictRecover, Guarded
  <2>2. CASE /\ ~Live(i) \/ ~entry[i].known
             /\ Result(w, "cancel") /\ Works /\ UNCHANGED <<entry, owed>>
    <3>1. ~Broken(i) BY <1>2, <2>2, Zenon DEF Broken, Row, Bytes, Owned
    <3> QED BY <1>5, <2>1, <2>2, <3>1, Zenon
  <2>3. CASE Result(w, "execute") /\ Works /\ UNCHANGED <<entry, owed>>
    BY <1>5, <2>1, <2>3
  <2>4. CASE Owns(i, g) /\ Works /\ RecordDeletion(i) /\ Forget(i) /\ Result(w, "complete")
    <3>1. entry'[i].owner # g
      <4>1. entry[i] \in Entry /\ (entry[i].present => entry[i].known) BY <1>2 DEF TypeOK, Row, Owned
      <4>2. Absent(entry[i]) \in Entry BY <4>1, AbsentFacts
      <4>3. [Absent(entry[i]) EXCEPT !.owner = 0].owner = 0 BY <4>2 DEF Entry
      <4> QED BY <1>2, <2>4, <4>3 DEF RecordDeletion, TypeOK
    <3> QED BY <1>2, <1>3, <2>1, <2>4, <3>1, EvictStep
  <2>5. CASE /\ ~Owns(i, g) /\ Works /\ UNCHANGED entry
             /\ IF DeletionRecorded(i, g) THEN Forget(i) /\ Result(w, "complete")
                                          ELSE Result(w, "cancel") /\ UNCHANGED owed
    <3>1. entry[i].owner # g BY <1>4, <2>5
    <3>2. (Result(w, "complete") /\ Forget(i)) \/ (Result(w, "cancel") /\ owed' = owed)
      BY <2>5
    <3> QED BY <1>5, <2>1, <2>5, <3>1, <3>2
  <2>6. CASE Fails /\ Result(w, "recover") /\ UNCHANGED <<entry, owed>>
    BY <1>5, <2>1, <2>6
  <2> QED BY <1>8, <2>2, <2>3, <2>4, <2>5, <2>6 DEF EvictRecover
<1>9. CASE /\ Guarded(w, i) /\ LRU /\ Result(w, "cancel") /\ Works
           /\ UNCHANGED <<disk, entry, owed>>
  BY <1>5, <1>9 DEF Guarded
<1>10. CASE /\ BusyTooLong(w, i) /\ Result(w, IF job[w].flag THEN "execute" ELSE "recover")
            /\ UNCHANGED <<disk, entry, owed, access>>
  <2>1. Works \/ Fails BY <1>10 DEF BusyTooLong
  <2>2. Result(w, "execute") \/ Result(w, "recover") BY <1>10
  <2> QED BY <1>5, <1>10, <2>1, <2>2
<1>11. EvictExecute(w, i, g) => (Authorized(i, g) /\ Delete(w, i)) \/ ~Authorized(i, g)
  BY DEF EvictExecute
<1> QED BY <1>1, <1>6, <1>7, <1>8, <1>9, <1>10, <1>11 DEF RunEviction

\* The settlement of an eviction that ended leaves no row to it.
LEMMA SettleEvictionOK ==
  ASSUME IInv, NEW w \in Workers, NEW i \in Ids, job[w].id = i, SettleEviction(w)
  PROVE  IInv'
<1>1. PICK g : g = job[w].gen OBVIOUS
<1>2. PICK r : r = job[w].res OBVIOUS
<1>3. /\ TypeOK /\ faults \in Nat /\ Row(i) /\ content[i].row # "none" /\ Evicting(w)
      /\ g \in Gens /\ evict[i][g] = "running"
  BY <1>1, AtWork, Basics DEF SettleEviction, At, Handling, Evicting
<1>4. /\ r \in {"complete", "cancel", "execute", "recover"}
      /\ r = "complete" => entry[i].owner # g
      /\ r = "cancel" /\ ~LRU /\ faults < 2 /\ entry[i].owner = g => ~Broken(i)
  <2>1. job[w] \in Job /\ Handling(w) /\ job[w].pc = "settle"
    BY <1>3 DEF TypeOK, IInv, SettleEviction, At
  <2> QED BY <1>1, <1>2, <2>1 DEF Handling, Job
<1>5. /\ job' \in [Workers -> Job] /\ job'[w].pc = "idle"
      /\ \A v \in Workers \ {w} : job'[v] = job[v]
  BY <1>3, DoneFacts DEF SettleEviction
<1> DEFINE s == IF r \in {"complete", "cancel"} THEN "done" ELSE r
           t == [evict[i] EXCEPT ![g] = s]
<1>6. /\ s \in {"done", "execute", "recover"}
      /\ s = "done" <=> r \in {"complete", "cancel"}
  BY <1>4
<1>7. evict' = [evict EXCEPT ![i] = t] BY <1>1, <1>2 DEF SettleEviction
<1>8. evict[i] \in [Gens -> {"none", "execute", "recover", "running", "done"}]
  BY <1>3 DEF TypeOK
<1> HIDE DEF s
<1>9. /\ t \in [Gens -> {"none", "execute", "recover", "running", "done"}]
      /\ t[g] = s /\ \A h \in Gens \ {g} : t[h] = evict[i][h]
  BY <1>3, <1>6, <1>8, Zenon
<1> HIDE DEF t
<1>10. /\ evict' \in [Ids -> [Gens -> {"none", "execute", "recover", "running", "done"}]]
       /\ evict'[i] = t /\ \A k \in Ids \ {i} : evict'[k] = evict[k]
  BY <1>3, <1>7, <1>9 DEF TypeOK
<1>11. /\ entry' \in [Ids -> Entry] /\ \A k \in Ids \ {i} : entry'[k] = entry[k]
       /\ entry'[i].known = entry[i].known /\ entry'[i].present = entry[i].present
       /\ entry'[i].op = entry[i].op
       /\ entry'[i].owner = IF r = "cancel" /\ Owns(i, g) THEN 0 ELSE entry[i].owner
  <2>1. entry[i] \in Entry BY <1>3 DEF TypeOK
  <2>2. CASE r = "cancel" /\ Owns(i, g)
    <3> DEFINE e == [entry[i] EXCEPT !.owner = 0]
    <3>1. e \in Entry /\ e.known = entry[i].known /\ e.present = entry[i].present
          /\ e.op = entry[i].op /\ e.owner = 0
      BY <2>1, ContentAssumption DEF Entry
    <3>2. entry' = [entry EXCEPT ![i] = e] BY <1>1, <1>2, <2>2 DEF SettleEviction
    <3> HIDE DEF e
    <3> QED BY <1>3, <2>2, <3>1, <3>2 DEF TypeOK
  <2>3. CASE ~(r = "cancel" /\ Owns(i, g))
    <3>1. entry' = entry BY <1>1, <1>2, <2>3 DEF SettleEviction
    <3> QED BY <1>3, <2>3, <3>1 DEF TypeOK
  <2> QED BY <2>2, <2>3, Zenon
<1>12. TypeOK' BY <1>3, <1>5, <1>10, <1>11, AccessStays DEF TypeOK, SettleEviction
<1>13. Others(w) BY <1>5 DEF Others, Same, SettleEviction
<1>14. Moved(w) BY <1>5, PlainMove
<1>15. \A k \in Ids \ {i} : Untouched(k) BY <1>10, <1>11 DEF Untouched, SettleEviction
<1>16. entry[i].owner = g => Owns(i, g) BY <1>3, GenPositive, Zenon DEF Row, Owned, Owns
<1>17. s = "done" => entry'[i].owner # g
  BY <1>3, <1>4, <1>6, <1>11, <1>16 DEF Gens
<1>18. Broken(i)' <=> Broken(i) BY <1>11 DEF Broken, Referenced, SettleEviction
<1>19. Row(i)'
  <2>1. Bytes(i)' BY <1>3, <1>11 DEF Row, Bytes, SettleEviction, Referenced, Live
  <2>2. Unused(i)' BY <1>3 DEF Unused, SettleEviction
  <2>3. Owned(i)'
    <3>1. ASSUME entry'[i].owner # 0
          PROVE  entry'[i].known /\ entry'[i].owner = entry'[i].op /\ TaskLive(i, entry[i].owner)'
      <4>1. entry'[i].owner = entry[i].owner BY <1>11, <3>1
      <4>2. entry[i].known /\ entry[i].owner = entry[i].op /\ TaskLive(i, entry[i].owner)
        BY <1>3, <3>1, <4>1, Zenon DEF Row, Owned
      <4>3. CASE entry[i].owner = g
        BY <1>3, <1>6, <1>9, <1>10, <1>11, <1>17, <4>1, <4>2, <4>3 DEF TaskLive
      <4>4. CASE entry[i].owner # g
        BY <1>9, <1>10, <1>11, <4>1, <4>2, <4>4 DEF TaskLive
      <4> QED BY <4>3, <4>4, Zenon
    <3>2. \A h \in Gens : evict'[i][h] # "none" => evict[i][h] # "none"
      BY <1>3, <1>9, <1>10
    <3>3. Live(i)' <=> Live(i) BY DEF Live, SettleEviction
    <3> QED BY <1>3, <1>11, <3>1, <3>2, <3>3, Zenon DEF Row, Owned
  <2>4. Promise(i)'
    <3>1. ~LRU /\ faults < 2 /\ Broken(i) => entry'[i].owner # 0
      <4>1. ASSUME ~LRU, faults < 2, Broken(i) PROVE entry'[i].owner # 0
        <5>1. entry[i].owner # 0 BY <1>3, <4>1 DEF Row, Promise
        <5>2. ~(r = "cancel" /\ Owns(i, g)) BY <1>4, <4>1 DEF Owns
        <5> QED BY <1>11, <5>1, <5>2
      <4> QED BY <4>1
    <3> QED BY <1>3, <1>18, <3>1 DEF Row, Promise, SettleEviction, Live
  <2> QED BY <2>1, <2>2, <2>3, <2>4 DEF Row
<1>20. Kept(i)
  <2>1. \A v \in Workers : Evicting(v) =>
          job[v].gen \in Gens /\ evict[job[v].id][job[v].gen] = "running"
    BY DEF IInv, Handling
  <2>2. ~Same(w) BY <1>5 DEF Same, SettleEviction, At
  <2>3. ASSUME NEW v \in Workers, Same(v), Evicting(v), job[v].id = i
        PROVE  evict'[i][job[v].gen] = "running"
    <3>1. v # w BY <2>2, <2>3
    <3>2. job[v].gen # g BY <1>1, <1>3, <2>3, <3>1 DEF IInv, OneHandler
    <3> QED BY <1>9, <1>10, <2>1, <2>3, <3>2
  <2>4. entry'[i].owner \in {0, entry[i].owner} BY <1>11
  <2> QED BY <1>3, <1>18, <2>3, <2>4 DEF Kept, SettleEviction
<1>f. faults' = faults
  BY <1>3, <1>12, <1>13, <1>14, <1>15, <1>19, <1>20 DEF SettleEviction, Works
<1> QED BY <1>3, <1>12, <1>13, <1>14, <1>15, <1>19, <1>20, <1>f, Step

\* What an eviction bound to the content, on an otherwise unchanged row, leaves.
LEMMA BoundRow ==
  ASSUME IInv, NEW i \in Ids, Bound(i, entry[i]), content[i].row # "none",
         faults' = faults, Bytes(i)', UNCHANGED <<content, disk, owed>>
  PROVE  Row(i)' /\ Kept(i)
<1>1. TypeOK /\ Row(i) BY DEF IInv
<1>2. Broken(i)' <=> Broken(i) BY DEF Broken, Referenced, Bound
<1>3. Unused(i)' BY DEF Unused
<1>4. Promise(i)' BY <1>1, <1>2, Zenon DEF Row, Promise, Bound, Live
<1>5. Row(i)' BY <1>3, <1>4 DEF Row, Bound
<1>6. Kept(i) BY <1>2, Zenon DEF Kept, Bound
<1> QED BY <1>5, <1>6

\* The planner enqueues an eviction of a content that may lose its file.
LEMMA PlanEvictionOK ==
  ASSUME IInv, NEW i \in Ids, PlanEviction(i)
  PROVE  IInv'
<1>1. TypeOK /\ Row(i) /\ Live(i) /\ faults \in Nat BY Basics, Zenon DEF PlanEviction
<1>2. EnqueueIf(TRUE, i, entry[i]) BY DEF PlanEviction, EnqueueIf
<1>3. entry[i] \in Entry /\ (entry[i].present => entry[i].known) BY <1>1 DEF TypeOK, Row, Owned
<1>4. content'[i].row = content[i].row /\ content[i].row # "none"
  BY <1>1 DEF PlanEviction, Live
<1>5. Bound(i, entry[i]) BY <1>1, <1>2, <1>3, <1>4, EnqueueFacts, Zenon
<1>6. Bytes(i)' BY <1>1, <1>5, Zenon DEF Row, Bytes, Bound, PlanEviction, Referenced, Live
<1>7. Row(i)' /\ Kept(i) BY <1>4, <1>5, <1>6, BoundRow, Zenon DEF PlanEviction
<1>8. TypeOK' BY <1>1, <1>5, AccessStays DEF TypeOK, PlanEviction, Bound
<1>9. \A k \in Ids \ {i} : Untouched(k) BY <1>5 DEF Untouched, PlanEviction, Bound
<1>f. job' = job /\ access' = access /\ (Works \/ Fails)
  BY Zenon DEF PlanEviction, Works
<1> QED BY <1>1, <1>7, <1>8, <1>9, <1>f, WorldStep

-----------------------------------------------------------------------------
(* cache.local_reconcile *)

\* The reconciliation begins with a file it listed.
LEMMA ListFileOK ==
  ASSUME IInv, NEW w \in Workers, NEW i \in Ids, ListFile(w, i)
  PROVE  IInv'
<1>1. /\ TypeOK /\ faults \in Nat /\ Row(i) /\ entry[i] \in Entry /\ i \in 0 .. MaxContents
      /\ disk[i].file # "absent"
  BY ContentAssumption DEF IInv, TypeOK, Ids, ListFile
<1>2. PICK flag \in BOOLEAN : flag = Live(i) BY Zenon DEF Live
<1>3. PICK op \in 0 .. MaxEvictions : op = entry[i].op BY <1>1 DEF Entry
<1>4. PICK pres \in 0 .. MaxPresence : pres = entry[i].pres BY <1>1 DEF Entry
<1> DEFINE x == [Idle EXCEPT !.pc = "check", !.id = i, !.flag = flag, !.gen = op, !.pres = pres]
<1>5. x \in Job /\ x.pc = "check" /\ x.id = i BY <1>1, IdleJob, Zenon DEF Job, Idle, Pcs
<1>6. job' = [job EXCEPT ![w] = x] BY <1>2, <1>3, <1>4 DEF ListFile
<1> HIDE DEF x
<1>7. job' \in [Workers -> Job] /\ job'[w] = x /\ \A v \in Workers \ {w} : job'[v] = job[v]
  BY <1>1, <1>5, <1>6 DEF TypeOK
<1>8. content[i].row # "none" BY <1>1 DEF Row, Unused
<1>f. /\ UNCHANGED <<content, disk, entry, remote, evict, owed, crashes>>
      /\ scanned' \subseteq scanned /\ (Works \/ Fails) /\ access' = access
  BY <1>1, <1>5, <1>7, <1>8 DEF ListFile, Works
<1> QED BY <1>1, <1>5, <1>7, <1>8, AccessStays, <1>f, PlainStep

\* The check reads the rows again under the deletion permit.
LEMMA CheckFileOK ==
  ASSUME IInv, NEW w \in Workers, NEW i \in Ids, job[w].id = i, CheckFile(w)
  PROVE  IInv'
<1>1. TypeOK /\ faults \in Nat /\ Row(i) /\ content[i].row # "none"
  BY AtWork, Zenon DEF CheckFile, At
<1>2. faults' = faults BY Zenon DEF CheckFile
<1>3. CASE Guarded(w, i) /\ Unreferenced(i) /\ Released(i) /\ Done(w)
  <2>1. ~Referenced(i) BY <1>1, <1>3, Zenon DEF Unreferenced, Row, Bytes
  <2>2. FileGoes(i) BY <1>1, <1>2, <1>3, <2>1, UnnamedFileGoes, Zenon DEF CheckFile, Works
  <2>3. /\ job' \in [Workers -> Job] /\ job'[w].pc = "idle"
        /\ \A v \in Workers \ {w} : job'[v] = job[v]
    BY <1>1, <1>3, DoneFacts, Zenon
  <2>4. TypeOK' BY <1>1, <2>2, <2>3, AccessStays DEF TypeOK, CheckFile, FileGoes
  <2>5. Others(w) /\ Moved(w) BY <2>2, <2>3, PlainMove, Zenon DEF Others, Same, FileGoes
  <2> QED BY <2>2, <2>4, <2>5, Step DEF FileGoes
<1>4. CASE HoldRead(w, i) /\ disk[i].file = "good" /\ Goto(w, "restore")
           /\ UNCHANGED <<disk, entry, owed>>
  <2>1. /\ Lock!AccessTypeOK' /\ access'[w] = {Permit(i, "read")}
        /\ \A v \in Workers \ {w} : access'[v] = access[v]
    BY <1>1, <1>4, HoldFacts, Zenon
  <2>2. /\ job' \in [Workers -> Job] /\ job'[w].pc = "restore" /\ job'[w].id = i
        /\ \A v \in Workers \ {w} : job'[v] = job[v]
    BY <1>1, <1>4, GotoFacts, Zenon DEF Pcs
  <2>3. TypeOK' BY <1>1, <1>4, <2>1, <2>2, Zenon DEF TypeOK, CheckFile
  <2>4. Others(w) BY <2>1, <2>2, Zenon DEF Others, Same
  <2>5. Moved(w)
    <3>1. content'[i].row # "none" /\ disk'[i].file # "absent" BY <1>1, <1>4, Zenon DEF CheckFile
    <3> QED BY <2>1, <2>2, <3>1, Zenon DEF Moved, Holding, Handling, Claims, Evicting, Permit
  <2>f. UNCHANGED <<content, disk, entry, remote, evict, owed>> /\ (Works \/ Fails)
    BY <1>1, <1>2, <1>4, <2>3, <2>4, <2>5, Zenon DEF CheckFile, Works
  <2> QED BY <1>1, <1>2, <1>4, <2>3, <2>4, <2>5, <2>f, Quiet, Zenon
<1>5. CASE (Done(w) \/ Goto(w, "recheck")) /\ UNCHANGED <<disk, entry, owed, access>>
  <2>1. /\ job' \in [Workers -> Job] /\ job'[w].pc \in {"idle", "recheck"}
        /\ job'[w].pc # "idle" => job'[w].id = i
        /\ \A v \in Workers \ {w} : job'[v] = job[v]
    BY <1>1, <1>5, DoneFacts, GotoFacts, Zenon DEF Pcs
  <2>f. /\ UNCHANGED <<content, disk, entry, remote, evict, owed, crashes>>
        /\ scanned' \subseteq scanned /\ (Works \/ Fails) /\ access' = access
    BY <1>1, <1>2, <1>5, <2>1, Zenon DEF CheckFile, Works
  <2> QED BY <1>1, <1>2, <1>5, <2>1, AccessStays, <2>f, PlainStep, Zenon
<1>6. ReleaseOrphan(i) =>
        (Unreferenced(i) /\ Released(i)) \/ UNCHANGED <<disk, entry, owed>>
  BY DEF ReleaseOrphan
<1> QED BY <1>3, <1>4, <1>5, <1>6, Zenon DEF CheckFile, Guarded

\* A file that is there is recorded as present, which makes it evictable again.
LEMMA RestorePresenceOK ==
  ASSUME IInv, NEW w \in Workers, NEW i \in Ids, job[w].id = i, RestorePresence(w)
  PROVE  IInv'
<1>1. TypeOK /\ faults \in Nat /\ Row(i) /\ content[i].row # "none" /\ disk[i].file # "absent"
  BY AtWork DEF RestorePresence, At
<1>2. /\ Lock!AccessTypeOK' /\ \A v \in Workers \ {w} : access'[v] = access[v]
  BY <1>1, ReleaseFacts DEF RestorePresence
<1>3. /\ job' \in [Workers -> Job] /\ job'[w].pc = "idle"
      /\ \A v \in Workers \ {w} : job'[v] = job[v]
  BY <1>1, DoneFacts DEF RestorePresence
<1>4. Works \/ Fails BY DEF RestorePresence
<1>5. faults' \in 0 .. MaxFaults /\ faults' >= faults /\ faults' \in Nat
  BY <1>1, <1>4, FaultFacts
<1>6. CASE Restorable(w, i) /\ EnqueueIf(~LRU, i, [entry[i] EXCEPT !.present = TRUE])
  <2> DEFINE e == [entry[i] EXCEPT !.present = TRUE]
  <2>1. entry[i] \in Entry BY <1>1 DEF TypeOK
  <2>2. /\ e \in Entry /\ e.known = entry[i].known /\ e.present
        /\ e.op = entry[i].op /\ e.owner = entry[i].owner
    BY <2>1, Zenon DEF Entry
  <2>3. EnqueueIf(~LRU, i, e) BY <1>6
  <2> HIDE DEF e
  <2>4. e.known => Live(i) BY <1>1, <2>2, Zenon DEF Row, Owned
  <2>5. content'[i].row = content[i].row BY DEF RestorePresence
  <2>6. e.known BY <1>1, <1>6, <2>2 DEF Row, Bytes, Restorable
  <2>7. (~LRU) \in BOOLEAN OBVIOUS
  <2>8. Bound(i, e) BY <1>1, <2>2, <2>3, <2>4, <2>5, <2>6, <2>7, EnqueueFacts, Zenon
  <2>9. TypeOK' BY <1>1, <1>2, <1>3, <1>5, <2>8 DEF TypeOK, RestorePresence, Bound
  <2>10. Others(w) /\ Moved(w) BY <1>2, <1>3, PlainMove DEF Others, Same
  <2>11. \A k \in Ids \ {i} : Untouched(k) BY <2>8 DEF Untouched, RestorePresence, Bound
  <2>12. disk'[i].file # "absent" BY <1>1 DEF RestorePresence
  <2>13. Row(i)'
    <3>1. Bytes(i)' BY <1>1, <2>6, <2>8 DEF Row, Bytes, Bound, RestorePresence, Referenced, Live
    <3>2. Unused(i)' BY <1>1, <2>5 DEF Unused
    <3>3. Promise(i)' BY <1>1, <1>5, <2>12 DEF Row, Promise, Broken, RestorePresence, Live
    <3> QED BY <3>1, <3>2, <3>3, <2>8 DEF Row, Bound
  <2>14. Kept(i) BY <1>1, <2>5, <2>8, <2>12, Zenon DEF Kept, Bound, Broken
  <2> QED BY <1>5, <2>9, <2>10, <2>11, <2>13, <2>14, Step
<1>7. CASE UNCHANGED <<entry, evict>>
  <2>f. /\ UNCHANGED <<content, disk, entry, remote, evict, owed, crashes>>
        /\ scanned' \subseteq scanned /\ (Works \/ Fails)
    BY <1>1, <1>2, <1>3, <1>5, <1>7 DEF RestorePresence, Works
  <2> QED BY <1>1, <1>2, <1>3, <1>5, <1>7, <2>f, PlainStep, Zenon
<1> QED BY <1>6, <1>7 DEF RestorePresence

\* A file that fails its check is set aside, so that its bytes are kept.
LEMMA SetAsideOK ==
  ASSUME IInv, NEW w \in Workers, NEW i \in Ids, job[w].id = i, SetAside(w)
  PROVE  IInv'
<1>1. TypeOK /\ faults \in Nat /\ Row(i) /\ content[i].row # "none"
  BY AtWork, Zenon DEF SetAside, At
<1>2. /\ job' \in [Workers -> Job] /\ job'[w].pc = "idle"
      /\ \A v \in Workers \ {w} : job'[v] = job[v]
  BY <1>1, DoneFacts, Zenon DEF SetAside
<1>3. access' = access BY DEF SetAside, Guarded
<1>4. Others(w) /\ Moved(w) BY <1>2, <1>3, PlainMove DEF Others, Same
<1>5. CASE UNCHANGED <<disk, entry, owed, faults>>
  <2>1. TypeOK' BY <1>1, <1>2, <1>3, <1>5, AccessStays DEF TypeOK, SetAside
  <2>f. UNCHANGED <<content, disk, entry, remote, evict, owed>> /\ (Works \/ Fails)
    BY <1>1, <1>4, <1>5, <2>1, Zenon DEF SetAside, Works
  <2> QED BY <1>1, <1>4, <1>5, <2>1, <2>f, Quiet
<1>6. CASE Guarded(w, i) /\ ~Live(i) /\ Works /\ Unreferenced(i) /\ Released(i)
  <2>1. ~Referenced(i) BY <1>1, <1>6, Zenon DEF Row, Bytes
  <2>2. FileGoes(i) BY <1>1, <1>6, <2>1, UnnamedFileGoes, Zenon DEF SetAside
  <2>3. TypeOK' BY <1>1, <1>2, <1>3, <2>2, AccessStays DEF TypeOK, SetAside, FileGoes
  <2> QED BY <1>4, <2>2, <2>3, Step DEF FileGoes
<1>7. CASE /\ Guarded(w, i) /\ Live(i)
           /\ disk' = [disk EXCEPT ![i] = [file |-> "absent", aside |-> TRUE]]
           /\ \/ /\ Works /\ Forget(i)
                 /\ entry' = [entry EXCEPT ![i] = Absent(entry[i])]
              \/ Fails /\ UNCHANGED <<entry, owed>>
  <2>1. \A v \in Workers : Permit(i, "read") \notin access[v] BY <1>1, <1>7, GuardFacts
  <2>2. faults' \in 0 .. MaxFaults /\ faults' >= faults /\ faults' \in Nat
    BY <1>1, <1>7, FaultFacts
  <2>3. /\ disk' \in [Ids -> Disk] /\ disk'[i].file = "absent" /\ disk'[i].aside
        /\ \A k \in Ids \ {i} : disk'[k] = disk[k]
    BY <1>1, <1>7 DEF TypeOK, Disk
  <2>4. /\ entry' \in [Ids -> Entry] /\ \A k \in Ids \ {i} : entry'[k] = entry[k]
        /\ entry'[i].known = entry[i].known /\ (entry'[i].present => entry[i].present)
        /\ entry'[i].op = entry[i].op /\ entry'[i].owner = entry[i].owner
    <3>1. entry[i] \in Entry /\ (entry[i].present => entry[i].known) BY <1>1 DEF TypeOK, Row, Owned
    <3>2. CASE entry' = [entry EXCEPT ![i] = Absent(entry[i])]
      BY <1>1, <3>1, <3>2, AbsentFacts DEF TypeOK
    <3>3. CASE entry' = entry BY <1>1, <3>3 DEF TypeOK
    <3> QED BY <1>7, <3>2, <3>3
  <2>5. /\ owed' \in [Ids -> BOOLEAN] /\ \A k \in Ids \ {i} : owed'[k] = owed[k]
        /\ owed'[i] => owed[i] /\ faults' > faults
    <3>1. CASE Forget(i) BY <1>1, <3>1 DEF Forget, TypeOK
    <3>2. CASE Fails /\ owed' = owed
      <4>1. faults' > faults BY <1>1, <3>2 DEF Fails
      <4> QED BY <1>1, <3>2, <4>1 DEF TypeOK
    <3> QED BY <1>7, <3>1, <3>2
  <2>6. TypeOK' BY <1>1, <1>2, <1>3, <2>2, <2>3, <2>4, <2>5, AccessStays DEF TypeOK, SetAside
  <2>7. \A k \in Ids \ {i} : Untouched(k) BY <2>3, <2>4, <2>5, Zenon DEF Untouched, SetAside
  <2>8. Row(i)'
    <3>1. Bytes(i)' BY <1>1, <2>3, <2>4, Zenon DEF Row, Bytes, SetAside, Referenced, Live
    <3>2. Unused(i)' BY <1>1, Zenon DEF Unused, SetAside
    <3>3. Owned(i)' BY <1>1, <2>4, Zenon DEF Row, Owned, SetAside, Live, TaskLive
    <3>4. Promise(i)'
      <4>1. Promise(i) /\ (Live(i)' <=> Live(i)) /\ ~Broken(i)'
        BY <1>1, <2>3, Zenon DEF Row, Live, Broken, SetAside
      <4> QED BY <1>1, <2>2, <2>5, <4>1, PromiseStays, Zenon
    <3> QED BY <3>1, <3>2, <3>3, <3>4 DEF Row
  <2>9. Kept(i) BY <2>1, <2>3, <2>4, KeptSimply, Zenon DEF SetAside, Broken
  <2> QED BY <1>4, <2>2, <2>6, <2>7, <2>8, <2>9, Step
<1>8. ReleaseOrphan(i) =>
        (Unreferenced(i) /\ Released(i)) \/ UNCHANGED <<disk, entry, owed>>
  BY DEF ReleaseOrphan
<1> QED BY <1>5, <1>6, <1>7, <1>8 DEF SetAside, Works

\* A file set aside goes once the copies are durable and nobody needs it.
LEMMA ReconcileAsideOK ==
  ASSUME IInv, NEW w \in Workers, NEW i \in Ids, ReconcileAside(w, i)
  PROVE  IInv'
<1>1. TypeOK /\ faults \in Nat /\ Row(i) /\ disk[i] \in Disk /\ entry[i] \in Entry
  BY Basics DEF TypeOK
<1>2. access' = access BY DEF ReconcileAside, Guarded
<1> DEFINE keep == Live(i) /\ ~(remote[i].durable /\ ~remote[i].needed)
<1>3. PICK d \in Disk : /\ d.file = disk[i].file /\ (d.aside = keep \/ d.aside = disk[i].aside)
                        /\ disk' = [disk EXCEPT ![i] = d]
  <2> DEFINE new == [disk[i] EXCEPT !.aside = keep]
  <2>1. new \in Disk /\ new.file = disk[i].file /\ new.aside = keep
    BY <1>1, Zenon DEF Disk
  <2>2. disk' = disk \/ disk' = [disk EXCEPT ![i] = new] BY DEF ReconcileAside
  <2> HIDE DEF new, keep
  <2>3. CASE disk' = disk
    <3>1. disk' = [disk EXCEPT ![i] = disk[i]] BY <1>1, <2>3 DEF TypeOK
    <3> QED BY <1>1, <3>1
  <2> QED BY <2>1, <2>2, <2>3
<1>5. disk' \in [Ids -> Disk] /\ disk'[i] = d /\ \A k \in Ids \ {i} : disk'[k] = disk[k]
  BY <1>1, <1>3 DEF TypeOK
<1>6. /\ entry' \in [Ids -> Entry] /\ \A k \in Ids \ {i} : entry'[k] = entry[k]
      /\ entry'[i].known = entry[i].known /\ (entry'[i].present => entry[i].present)
      /\ entry'[i].op = entry[i].op /\ entry'[i].owner = entry[i].owner
      /\ disk[i].file = "absent" => ~entry'[i].present
  <2>1. entry[i].present => entry[i].known BY <1>1 DEF Row, Owned
  <2>2. CASE disk[i].file = "absent"
    <3>1. entry' = [entry EXCEPT ![i] = Absent(entry[i])] BY <2>2 DEF ReconcileAside
    <3> QED BY <1>1, <2>1, <3>1, AbsentFacts DEF TypeOK
  <2>3. CASE disk[i].file # "absent"
    <3>1. entry' = entry BY <2>3 DEF ReconcileAside
    <3> QED BY <1>1, <2>3, <3>1 DEF TypeOK
  <2> QED BY <2>2, <2>3
<1>7. /\ owed' \in [Ids -> BOOLEAN] /\ \A k \in Ids \ {i} : owed'[k] = owed[k]
      /\ owed'[i] => owed[i]
  <2>1. CASE Forget(i) BY <1>1, <2>1 DEF Forget, TypeOK
  <2>2. CASE owed' = owed BY <1>1, <2>2 DEF TypeOK
  <2> QED BY <2>1, <2>2 DEF ReconcileAside
<1>8. TypeOK' BY <1>1, <1>2, <1>5, <1>6, <1>7, AccessStays DEF TypeOK, ReconcileAside
<1>9. \A k \in Ids \ {i} : Untouched(k) BY <1>5, <1>6, <1>7 DEF Untouched, ReconcileAside
<1>10. ~Broken(i)' BY <1>3, <1>5, <1>6 DEF Broken
<1>11. Row(i)'
  <2>1. Bytes(i)'
    BY <1>1, <1>3, <1>5, <1>6, Zenon DEF Row, Bytes, ReconcileAside, Referenced, Live
  <2>2. Unused(i)'
    <3>1. CASE content[i].row # "none" BY <3>1 DEF Unused, ReconcileAside
    <3>2. CASE content[i].row = "none"
      <4>1. /\ disk[i].file = "absent" /\ ~owed[i] /\ entry[i] = NoRow
            /\ \A g \in Gens : evict[i][g] = "none"
        BY <1>1, <3>2 DEF Row, Unused
      <4>2. entry'[i] = entry[i]
        <5>1. ~entry[i].known BY <4>1 DEF NoRow
        <5>2. Absent(entry[i]) = entry[i] BY <5>1 DEF Absent
        <5>3. entry' = [entry EXCEPT ![i] = Absent(entry[i])] BY <4>1 DEF ReconcileAside
        <5> QED BY <1>1, <5>2, <5>3 DEF TypeOK
      <4> QED BY <1>3, <1>5, <1>7, <4>1, <4>2 DEF Unused, ReconcileAside
    <3> QED BY <3>1, <3>2
  <2>3. Owned(i)' BY <1>1, <1>6 DEF Row, Owned, ReconcileAside, Live, TaskLive
  <2>4. Promise(i)' BY <1>1, <1>3, <1>5, <1>7, <1>10 DEF Row, Promise, ReconcileAside, Live
  <2> QED BY <2>1, <2>2, <2>3, <2>4 DEF Row
<1>12. Kept(i) BY <1>3, <1>5, <1>6, <1>10, KeptSimply DEF ReconcileAside
<1>f. job' = job /\ access' = access /\ (Works \/ Fails)
  BY <1>2, Zenon DEF ReconcileAside, Works
<1> QED BY <1>1, <1>2, <1>8, <1>9, <1>11, <1>12, <1>f, WorldStep, Zenon

-----------------------------------------------------------------------------
(* The storage.cleanup task *)

\* A claim of storage.cleanup leaves the content alone.
LEMMA ClaimCleanupOK ==
  ASSUME IInv, NEW w \in Workers, NEW i \in Ids, ClaimCleanup(w, i)
  PROVE  IInv'
<1>1. TypeOK /\ faults \in Nat /\ content[i].row # "none"
  BY Basics DEF ClaimCleanup, Live
<1>2. /\ job' \in [Workers -> Job] /\ job'[w].pc = "clean" /\ job'[w].id = i
      /\ \A v \in Workers \ {w} : job'[v] = job[v]
  BY <1>1, BeginFacts DEF ClaimCleanup, Pcs
<1>f. /\ UNCHANGED <<content, disk, entry, remote, evict, owed, crashes>>
      /\ scanned' \subseteq scanned /\ (Works \/ Fails) /\ access' = access
  BY <1>1, <1>2 DEF ClaimCleanup, Works
<1> QED BY <1>1, <1>2, AccessStays, <1>f, PlainStep

\* The copies go once nobody names the content.
LEMMA RemoveCopiesOK ==
  ASSUME IInv, NEW w \in Workers, NEW i \in Ids, job[w].id = i, RemoveCopies(w)
  PROVE  IInv'
<1>1. TypeOK /\ faults \in Nat /\ Row(i) /\ content[i].row # "none"
  BY AtWork DEF RemoveCopies, At
<1>2. CASE Referenced(i)
  <2>1. Done(w) /\ remote' = remote BY <1>2 DEF RemoveCopies
  <2>2. /\ job' \in [Workers -> Job] /\ job'[w].pc = "idle"
        /\ \A v \in Workers \ {w} : job'[v] = job[v]
    BY <1>1, <2>1, DoneFacts
  <2>f. /\ UNCHANGED <<content, disk, entry, remote, evict, owed, crashes>>
        /\ scanned' \subseteq scanned /\ (Works \/ Fails) /\ access' = access
    BY <1>1, <2>1, <2>2 DEF RemoveCopies, Works
  <2> QED BY <1>1, <2>1, <2>2, AccessStays, <2>f, PlainStep, Zenon
<1>3. CASE ~Referenced(i)
  <2>1. Goto(w, "drop") /\ remote' = [remote EXCEPT ![i].durable = FALSE]
    BY <1>3 DEF RemoveCopies
  <2>2. /\ job' \in [Workers -> Job] /\ job'[w].pc = "drop" /\ job'[w].id = i
        /\ \A v \in Workers \ {w} : job'[v] = job[v]
    BY <1>1, <2>1, GotoFacts DEF Pcs
  <2> DEFINE r == [remote[i] EXCEPT !.durable = FALSE]
  <2>3. r \in Remote /\ r.needed = remote[i].needed BY <1>1, Zenon DEF TypeOK, Remote
  <2>4. remote' = [remote EXCEPT ![i] = r] BY <2>1
  <2> HIDE DEF r
  <2>5. remote' \in [Ids -> Remote] /\ remote'[i] = r
        /\ \A k \in Ids \ {i} : remote'[k] = remote[k]
    BY <1>1, <2>3, <2>4 DEF TypeOK
  <2>6. TypeOK' BY <1>1, <2>2, <2>5, AccessStays DEF TypeOK, RemoveCopies
  <2>7. Others(w) BY <2>2 DEF Others, Same, RemoveCopies
  <2>8. Moved(w) BY <1>1, <2>2, PlainMove DEF RemoveCopies
  <2>9. \A k \in Ids \ {i} : Untouched(k) BY <2>5 DEF Untouched, RemoveCopies
  <2>10. Row(i)'
    <3>1. Bytes(i)' BY <1>1, <1>3, <2>3, <2>5 DEF Row, Bytes, RemoveCopies, Referenced
    <3>2. Unused(i)' BY <1>1 DEF Unused, RemoveCopies
    <3>3. Owned(i)' BY <1>1 DEF Row, Owned, RemoveCopies, Live, TaskLive
    <3>4. Promise(i)' BY <1>1, <1>3 DEF Row, Promise, Broken, RemoveCopies, Live, Referenced
    <3> QED BY <3>1, <3>2, <3>3, <3>4 DEF Row
  <2>11. Kept(i) BY <1>3, KeptSimply DEF RemoveCopies, Broken, Referenced
  <2>f. faults' = faults
    BY <1>1, <2>6, <2>7, <2>8, <2>9, <2>10, <2>11 DEF RemoveCopies, Works
  <2> QED BY <1>1, <2>6, <2>7, <2>8, <2>9, <2>10, <2>11, <2>f, Step
<1> QED BY <1>2, <1>3

\* The cleanup removes the file under the deletion permit.
LEMMA DropFileOK ==
  ASSUME IInv, NEW w \in Workers, NEW i \in Ids, job[w].id = i, DropFile(w)
  PROVE  IInv'
<1>1. TypeOK /\ faults \in Nat /\ Row(i) /\ content[i].row # "none"
  BY AtWork, Zenon DEF DropFile, At
<1>2. access' = access BY DEF DropFile, Guarded
<1>3. Done(w) \/ Goto(w, "finalize") BY DEF DropFile
<1>4. /\ job' \in [Workers -> Job] /\ job'[w].pc \in {"idle", "finalize"}
      /\ job'[w].pc # "idle" => job'[w].id = i
      /\ \A v \in Workers \ {w} : job'[v] = job[v]
  BY <1>1, <1>3, DoneFacts, GotoFacts DEF Pcs
<1>5. CASE (Works \/ Fails) /\ UNCHANGED <<disk, entry, owed>>
  <2>1. faults' \in 0 .. MaxFaults /\ faults' >= faults BY <1>1, <1>5, FaultFacts
  <2>f. /\ UNCHANGED <<content, disk, entry, remote, evict, owed, crashes>>
        /\ scanned' \subseteq scanned /\ (Works \/ Fails) /\ access' = access
    BY <1>1, <1>2, <1>4, <1>5, <2>1, Zenon DEF DropFile, Works
  <2> QED BY <1>1, <1>2, <1>4, <1>5, <2>1, AccessStays, <2>f, PlainStep
<1>6. CASE /\ Guarded(w, i) /\ Unreferenced(i)
           /\ \/ Works /\ Released(i)
              \/ Fails /\ SetFile(i, "absent") /\ UNCHANGED <<entry, owed>>
  <2>1. ~Referenced(i) BY <1>1, <1>6, Zenon DEF Unreferenced, Row, Bytes
  <2>2. FileGoes(i) BY <1>1, <1>6, <2>1, UnnamedFileGoes, Zenon DEF DropFile
  <2>3. TypeOK' BY <1>1, <1>2, <1>4, <2>2, AccessStays DEF TypeOK, DropFile, FileGoes
  <2>4. Others(w) BY <1>2, <1>4 DEF Others, Same
  <2>5. Moved(w) BY <1>1, <1>4, PlainMove, Zenon DEF DropFile
  <2> QED BY <2>2, <2>3, <2>4, <2>5, Step DEF FileGoes
<1> QED BY <1>5, <1>6, Zenon DEF DropFile, BusyTooLong

\* The content row goes with its object_cache row, once nothing is left.
LEMMA FinalizeContentOK ==
  ASSUME IInv, NEW w \in Workers, NEW i \in Ids, job[w].id = i, FinalizeContent(w)
  PROVE  IInv'
<1>1. TypeOK /\ faults \in Nat /\ Row(i) /\ content[i].row # "none"
  BY AtWork DEF FinalizeContent, At
<1>2. /\ job' \in [Workers -> Job] /\ job'[w].pc = "idle"
      /\ \A v \in Workers \ {w} : job'[v] = job[v]
  BY <1>1, DoneFacts DEF FinalizeContent
<1>3. Works \/ Fails BY DEF FinalizeContent
<1>4. faults' \in 0 .. MaxFaults /\ faults' >= faults BY <1>1, <1>3, FaultFacts
<1>5. CASE /\ CleanupReady(i) /\ content' = [content EXCEPT ![i].row = "gone"]
           /\ entry' = [entry EXCEPT ![i] = NoRow]
  <2> DEFINE c == [content[i] EXCEPT !.row = "gone"]
  <2>1. c \in Content /\ c.row = "gone" /\ c.versions = content[i].versions
    BY <1>1, SMTT(30) DEF TypeOK, Content
  <2>2. content' = [content EXCEPT ![i] = c] BY <1>5
  <2> HIDE DEF c
  <2>3. content' \in [Ids -> Content] /\ content'[i] = c
        /\ \A k \in Ids \ {i} : content'[k] = content[k]
    BY <1>1, <2>1, <2>2 DEF TypeOK
  <2>4. NoRow \in Entry /\ ~NoRow.known /\ ~NoRow.present /\ NoRow.owner = 0
    BY ContentAssumption DEF NoRow, Entry
  <2>5. entry' \in [Ids -> Entry] /\ entry'[i] = NoRow
        /\ \A k \in Ids \ {i} : entry'[k] = entry[k]
    BY <1>1, <1>5, <2>4 DEF TypeOK
  <2>6. TypeOK' BY <1>1, <1>2, <1>4, <2>3, <2>5, AccessStays DEF TypeOK, FinalizeContent
  <2>7. Others(w) /\ Moved(w) BY <1>2, PlainMove DEF Others, Same, FinalizeContent
  <2>8. \A k \in Ids \ {i} : Untouched(k) BY <2>3, <2>5 DEF Untouched, FinalizeContent
  <2>9. ~Referenced(i)' /\ ~Live(i)' BY <1>5, <2>1, <2>3 DEF CleanupReady, Referenced, Live
  <2>10. Row(i)'
    <3>1. Bytes(i)' BY <1>1, <1>5, <2>9 DEF Row, Bytes, CleanupReady, FinalizeContent
    <3>2. Unused(i)' BY <2>1, <2>3 DEF Unused
    <3>3. Owned(i)' BY <2>4, <2>5, <2>9 DEF Owned
    <3>4. Promise(i)' BY <2>9 DEF Promise, Broken
    <3> QED BY <3>1, <3>2, <3>3, <3>4 DEF Row
  <2>11. Kept(i) BY <2>1, <2>3, <2>4, <2>5, <2>9, KeptSimply DEF FinalizeContent, Broken
  <2> QED BY <1>4, <2>6, <2>7, <2>8, <2>10, <2>11, Step
<1>6. CASE UNCHANGED <<content, entry>>
  <2>f. /\ UNCHANGED <<content, disk, entry, remote, evict, owed, crashes>>
        /\ scanned' \subseteq scanned /\ (Works \/ Fails) /\ access' = access
    BY <1>1, <1>2, <1>4, <1>6 DEF FinalizeContent, Works
  <2> QED BY <1>1, <1>2, <1>4, <1>6, AccessStays, <2>f, PlainStep, Zenon
<1> QED BY <1>5, <1>6 DEF FinalizeContent

-----------------------------------------------------------------------------
(* The storage pipeline and the world *)

\* A storage task begins to need the bytes while they are there.
LEMMA StoreBeginsOK ==
  ASSUME IInv, NEW i \in Ids, StoreBegins(i)
  PROVE  IInv'
<1>1. TypeOK /\ faults \in Nat /\ Row(i) /\ Live(i) /\ Referenced(i) /\ disk[i].file = "good"
  BY Basics DEF StoreBegins
<1> DEFINE r == [remote[i] EXCEPT !.needed = TRUE]
<1>2. r \in Remote /\ r.durable = remote[i].durable BY <1>1, Zenon DEF TypeOK, Remote
<1>3. remote' = [remote EXCEPT ![i] = r] BY DEF StoreBegins
<1> HIDE DEF r
<1>4. remote' \in [Ids -> Remote] /\ remote'[i] = r
      /\ \A k \in Ids \ {i} : remote'[k] = remote[k]
  BY <1>1, <1>2, <1>3 DEF TypeOK
<1>5. TypeOK' BY <1>1, <1>4, AccessStays DEF TypeOK, StoreBegins
<1>6. \A k \in Ids \ {i} : Untouched(k) BY <1>4 DEF Untouched, StoreBegins
<1>7. Row(i)'
  <2>1. Bytes(i)' BY <1>1, <1>2, <1>4 DEF Row, Bytes, StoreBegins, Referenced, Live
  <2>2. Unused(i)' BY <1>1 DEF Unused, StoreBegins, Live
  <2>3. Owned(i)' BY <1>1 DEF Row, Owned, StoreBegins, Live, TaskLive
  <2>4. Promise(i)' BY <1>1 DEF Row, Promise, Broken, StoreBegins, Live, Referenced
  <2> QED BY <2>1, <2>2, <2>3, <2>4 DEF Row
<1>8. Kept(i) BY KeptSimply DEF StoreBegins, Broken, Referenced
<1>f. job' = job /\ access' = access /\ (Works \/ Fails)
  BY Zenon DEF StoreBegins, Works
<1> QED BY <1>1, <1>5, <1>6, <1>7, <1>8, <1>f, WorldStep, Zenon

\* A storage task that ends may enqueue the eviction of what it stored.
LEMMA StoreEndsOK ==
  ASSUME IInv, NEW i \in Ids, StoreEnds(i)
  PROVE  IInv'
<1>1. /\ TypeOK /\ faults \in Nat /\ Row(i) /\ remote[i].needed
      /\ remote[i] \in Remote /\ entry[i] \in Entry
  BY Basics DEF TypeOK, StoreEnds
<1>2. Referenced(i) /\ Live(i) /\ content[i].row # "none" BY <1>1, Zenon DEF Row, Bytes, Live
<1>3. PICK d \in {TRUE, remote[i].durable} :
        /\ remote' = [remote EXCEPT ![i] = [durable |-> d, needed |-> FALSE]]
        /\ EnqueueIf(d /\ ~remote[i].durable /\ ~LRU, i, entry[i])
  BY Zenon DEF StoreEnds
<1> DEFINE r == [durable |-> d, needed |-> FALSE]
<1>4. r \in Remote /\ (remote[i].durable => r.durable) /\ ~r.needed BY <1>1, <1>3, Zenon DEF Remote
<1>5. remote' = [remote EXCEPT ![i] = r] BY <1>3
<1> HIDE DEF r
<1>6. remote' \in [Ids -> Remote] /\ remote'[i] = r
      /\ \A k \in Ids \ {i} : remote'[k] = remote[k]
  BY <1>1, <1>4, <1>5 DEF TypeOK
<1>7. (d /\ ~remote[i].durable /\ ~LRU) \in BOOLEAN OBVIOUS
<1>8. /\ entry[i].known => Live(i)
      /\ entry[i].present => entry[i].known
      /\ content'[i].row = content[i].row
  BY <1>1, Zenon DEF Row, Owned, StoreEnds
<1>9. Bound(i, entry[i]) BY <1>1, <1>3, <1>7, <1>8, EnqueueFacts, Zenon
<1>10. Bytes(i)'
  BY <1>1, <1>4, <1>6, <1>9, Zenon DEF Row, Bytes, Bound, StoreEnds, Referenced, Live
<1>11. Row(i)' /\ Kept(i) BY <1>2, <1>9, <1>10, BoundRow, Zenon DEF StoreEnds
<1>12. TypeOK' BY <1>1, <1>6, <1>9, AccessStays, Zenon DEF TypeOK, StoreEnds, Bound
<1>13. \A k \in Ids \ {i} : Untouched(k) BY <1>6, <1>9, Zenon DEF Untouched, StoreEnds, Bound
<1>f. job' = job /\ access' = access /\ (Works \/ Fails)
  BY Zenon DEF StoreEnds, Works
<1> QED BY <1>1, <1>11, <1>12, <1>13, <1>f, WorldStep

\* A durable copy may be lost while the file is there.
LEMMA LoseDurabilityOK ==
  ASSUME IInv, NEW i \in Ids, LoseDurability(i)
  PROVE  IInv'
<1>1. TypeOK /\ faults \in Nat /\ Row(i) /\ Referenced(i) /\ disk[i].file = "good"
  BY Basics DEF LoseDurability
<1> DEFINE r == [remote[i] EXCEPT !.durable = FALSE]
<1>2. r \in Remote /\ r.needed = remote[i].needed BY <1>1, Zenon DEF TypeOK, Remote
<1>3. remote' = [remote EXCEPT ![i] = r] BY DEF LoseDurability
<1> HIDE DEF r
<1>4. remote' \in [Ids -> Remote] /\ remote'[i] = r
      /\ \A k \in Ids \ {i} : remote'[k] = remote[k]
  BY <1>1, <1>2, <1>3 DEF TypeOK
<1>5. TypeOK' BY <1>1, <1>4, AccessStays DEF TypeOK, LoseDurability
<1>6. \A k \in Ids \ {i} : Untouched(k) BY <1>4 DEF Untouched, LoseDurability
<1>7. Row(i)'
  <2>1. Bytes(i)' BY <1>1, <1>2, <1>4 DEF Row, Bytes, LoseDurability, Referenced, Live
  <2>2. Unused(i)' BY <1>1 DEF Row, Unused, LoseDurability
  <2>3. Owned(i)' BY <1>1 DEF Row, Owned, LoseDurability, Live, TaskLive
  <2>4. Promise(i)' BY <1>1 DEF Row, Promise, Broken, LoseDurability, Live, Referenced
  <2> QED BY <2>1, <2>2, <2>3, <2>4 DEF Row
<1>8. Kept(i) BY KeptSimply DEF LoseDurability, Broken, Referenced
<1>f. job' = job /\ access' = access /\ (Works \/ Fails)
  BY Zenon DEF LoseDurability, Works
<1> QED BY <1>1, <1>5, <1>6, <1>7, <1>8, <1>f, WorldStep

\* A file may be damaged: it is there still.
LEMMA DamageOK ==
  ASSUME IInv, NEW i \in Ids, Damage(i)
  PROVE  IInv'
<1>1. TypeOK /\ Row(i) /\ disk[i].file = "good" BY DEF IInv, Damage
<1>2. faults' \in 0 .. MaxFaults /\ faults' >= faults /\ faults \in Nat /\ faults' \in Nat
  BY <1>1, FaultFacts DEF Damage
<1>3. /\ disk' \in [Ids -> Disk] /\ disk'[i].file = "bad" /\ disk'[i].aside = disk[i].aside
      /\ \A k \in Ids \ {i} : disk'[k] = disk[k]
  BY <1>1, FileFacts DEF Damage
<1>4. TypeOK' BY <1>1, <1>2, <1>3, AccessStays DEF TypeOK, Damage
<1>5. \A k \in Ids \ {i} : Untouched(k) BY <1>3 DEF Untouched, Damage
<1>6. Row(i)'
  <2>1. Bytes(i)' BY <1>1, <1>3, Zenon DEF Row, Bytes, Damage, Referenced, Live
  <2>2. Unused(i)' BY <1>1, Zenon DEF Row, Unused, Damage
  <2>3. Owned(i)' BY <1>1, Zenon DEF Row, Owned, Damage, Live, TaskLive
  <2>4. Promise(i)'
    <3>1. Promise(i) /\ (Live(i)' <=> Live(i)) /\ owed' = owed /\ ~Broken(i)'
      BY <1>1, <1>3, Zenon DEF Row, Live, Broken, Damage
    <3> QED BY <1>2, <1>3, <3>1, PromiseStays, Zenon
  <2> QED BY <2>1, <2>2, <2>3, <2>4 DEF Row
<1>7. Kept(i) BY <1>3, KeptSimply, Zenon DEF Damage, Broken
<1>f. job' = job /\ access' = access /\ (Works \/ Fails)
  BY Zenon DEF Damage
<1> QED BY <1>2, <1>4, <1>5, <1>6, <1>7, <1>f, WorldStep

\* The orphan scan takes up a file nobody may know of.
LEMMA ScanOrphanOK ==
  ASSUME IInv, NEW w \in Workers, NEW i \in Ids, ScanOrphan(w, i)
  PROVE  IInv'
<1>1. TypeOK /\ faults \in Nat BY Basics
<1>2. /\ job' \in [Workers -> Job] /\ job'[w].pc \in {"idle", "discard"}
      /\ job'[w].pc # "idle" => job'[w].id = i /\ content[i].row # "none"
      /\ \A v \in Workers \ {w} : job'[v] = job[v]
  <2>1. CASE Orphaned(i)
    BY <1>1, <2>1, BeginFacts, Zenon DEF ScanOrphan, Pcs, Orphaned, Live
  <2>2. CASE ~Orphaned(i) BY <1>1, <2>2 DEF ScanOrphan, At, TypeOK
  <2> QED BY <2>1, <2>2
<1>f. /\ UNCHANGED <<content, disk, entry, remote, evict, owed, crashes>>
      /\ scanned' \subseteq scanned /\ (Works \/ Fails) /\ access' = access
  BY <1>1, <1>2, Zenon DEF ScanOrphan, Works
<1> QED BY <1>1, <1>2, AccessStays, <1>f, PlainStep, Zenon

\* A crash forgets what the process held in memory: permits, handlers, debts.
LEMMA CrashOK ==
  ASSUME IInv, Crash
  PROVE  IInv'
<1>1. TypeOK /\ faults \in Nat BY Basics
<1>2. \A v \in Workers : job'[v].pc = "idle" BY IdleJob, Zenon DEF Crash
<1>3. \A i \in Ids : ~owed'[i] BY Zenon DEF Crash
<1>4. \A i \in Ids, g \in Gens :
        /\ evict'[i][g] \in {"none", "execute", "recover", "running", "done"}
        /\ evict'[i][g] # "none" <=> evict[i][g] # "none"
        /\ TaskLive(i, g)' <=> TaskLive(i, g)
  BY <1>1 DEF Crash, TaskLive, TypeOK
<1>5. TypeOK'
  <2>1. job' \in [Workers -> Job] BY IdleJob DEF Crash
  <2>2. evict' \in [Ids -> [Gens -> {"none", "execute", "recover", "running", "done"}]]
    BY <1>4 DEF Crash
  <2>3. Lock!AccessTypeOK' BY DEF Crash, Lock!AccessTypeOK
  <2>4. crashes' \in 0 .. MaxCrashes BY <1>1, ContentAssumption DEF Crash, TypeOK
  <2> QED BY <1>1, <2>1, <2>2, <2>3, <2>4 DEF Crash, TypeOK
<1>6. ASSUME NEW i \in Ids PROVE Row(i)'
  <2>1. Row(i) BY DEF IInv
  <2>2. Bytes(i)' BY <2>1, Zenon DEF Row, Bytes, Crash, Referenced, Live
  <2>3. Unused(i)' BY <1>3, <1>4, <2>1, Zenon DEF Row, Unused, Crash
  <2>4. Owned(i)'
    <3>1. entry[i].owner # 0 => entry[i].owner \in Gens BY <2>1, Zenon DEF Row, Owned, TaskLive
    <3> QED BY <1>4, <2>1, <3>1, Zenon DEF Row, Owned, Crash, Live
  <2>5. Promise(i)' BY <1>3, <2>1, Zenon DEF Row, Promise, Broken, Crash, Referenced
  <2> QED BY <2>2, <2>3, <2>4, <2>5 DEF Row
<1>7. \A v \in Workers : Holding(v)' /\ Handling(v)' /\ ~Evicting(v)'
  BY <1>2, Zenon DEF Holding, Handling, Evicting
<1> QED BY <1>5, <1>6, <1>7, Zenon DEF IInv, OneHandler

-----------------------------------------------------------------------------
(* The theorems *)

\* Before the first write there is nothing.
LEMMA InitOK == Init => IInv
<1> SUFFICES ASSUME Init PROVE IInv OBVIOUS
<1>1. TypeOK
  <2>1. job \in [Workers -> Job] BY IdleJob DEF Init
  <2>2. Lock!AccessTypeOK BY DEF Init, Lock!AccessInit, Lock!AccessTypeOK
  <2>3. NoRow \in Entry BY ContentAssumption DEF NoRow, Entry
  <2> QED BY <2>1, <2>2, <2>3, ContentAssumption
    DEF Init, TypeOK, Content, Disk, Remote
<1>2. ASSUME NEW i \in Ids PROVE Row(i)
  <2>1. /\ content[i].row = "none" /\ content[i].versions = 0 /\ disk[i].file = "absent"
        /\ entry[i] = NoRow /\ ~remote[i].needed /\ ~owed[i]
        /\ \A g \in Gens : evict[i][g] = "none"
    BY DEF Init
  <2>2. ~Referenced(i) /\ ~Live(i) BY <2>1 DEF Referenced, Live
  <2>3. ~NoRow.known /\ ~NoRow.present /\ NoRow.owner = 0 BY DEF NoRow
  <2> QED BY <2>1, <2>2, <2>3, Zenon DEF Row, Bytes, Unused, Owned, Promise, Broken
<1>3. \A v \in Workers : job[v].pc = "idle" BY IdleJob DEF Init
<1>4. \A v \in Workers : Holding(v) /\ Handling(v) /\ ~Evicting(v)
  BY <1>3 DEF Holding, Handling, Evicting
<1> QED BY <1>1, <1>2, <1>4 DEF IInv, OneHandler

\* Every step of every goroutine, of the world and a crash keep the invariant.
LEMMA NextOK == IInv /\ [Next]_vars => IInv'
<1> SUFFICES ASSUME IInv, [Next]_vars PROVE IInv' OBVIOUS
<1>1. ASSUME NEW w \in Workers, ~At(w, "idle") PROVE job[w].id \in Ids
  BY <1>1 DEF IInv, Holding, At
<1>2. ASSUME NEW w \in Clients, ClientStep(w) PROVE IInv'
  <2>1. w \in Workers BY DEF Workers
  <2>2. ASSUME NEW i \in Ids, EnsureContent(w, i) \/ DeleteVersion(w, i) \/ ScanOrphan(w, i)
        PROVE  IInv'
    BY <2>1, <2>2, EnsureContentOK, DeleteVersionOK, ScanOrphanOK
  <2>3. ASSUME NEW i \in Ids, NEW copy \in BOOLEAN, OpenVersion(w, i, copy) PROVE IInv'
    BY <2>1, <2>3, OpenVersionOK
  <2>4. CASE CommitFile(w) \/ NameContent(w) \/ Discard(w) \/ ReleaseFile(w)
    <3>1. job[w].id \in Ids
      BY <1>1, <2>1, <2>4 DEF CommitFile, NameContent, Discard, ReleaseFile, At
    <3> QED BY <2>1, <2>4, <3>1, CommitFileOK, NameContentOK, DiscardOK, ReleaseFileOK
  <2>5. CASE OpenCached(w) \/ CloseBody(w) \/ ReconcileMiss(w) \/ Download(w)
    <3>1. job[w].id \in Ids
      BY <1>1, <2>1, <2>5 DEF OpenCached, CloseBody, ReconcileMiss, Download, At
    <3> QED BY <2>1, <2>5, <3>1, OpenCachedOK, CloseBodyOK, ReconcileMissOK, DownloadOK
  <2>6. CASE Rehydrate(w) \/ Fill(w) \/ RecordFill(w)
    <3>1. job[w].id \in Ids BY <1>1, <2>1, <2>6, Zenon DEF Rehydrate, Fill, RecordFill, At
    <3> QED BY <2>1, <2>6, <3>1, RehydrateOK, FillOK, RecordFillOK
  <2> QED BY <1>2, <2>2, <2>3, <2>4, <2>5, <2>6 DEF ClientStep
<1>3. ASSUME NEW w \in Runners, RunnerStep(w) PROVE IInv'
  <2>1. w \in Workers BY DEF Workers
  <2>2. CASE TaskStep(w)
    <3>1. job[w].id \in Ids
      BY <1>1, <2>1, <2>2 DEF TaskStep, RunEviction, SettleEviction, CheckFile,
        RestorePresence, SetAside, RemoveCopies, DropFile, FinalizeContent, At
    <3> QED BY <2>1, <2>2, <3>1, RunEvictionOK, SettleEvictionOK, CheckFileOK,
          RestorePresenceOK, SetAsideOK, RemoveCopiesOK, DropFileOK, FinalizeContentOK
        DEF TaskStep
  <2>3. ASSUME NEW i \in Ids, ListFile(w, i) \/ ReconcileAside(w, i) \/ ClaimCleanup(w, i)
        PROVE  IInv'
    BY <2>1, <2>3, ListFileOK, ReconcileAsideOK, ClaimCleanupOK
  <2>4. ASSUME NEW i \in Ids, NEW g \in Gens, ClaimEviction(w, i, g) PROVE IInv'
    BY <2>1, <2>4, ClaimEvictionOK
  <2> QED BY <1>3, <2>2, <2>3, <2>4 DEF RunnerStep
<1>4. ASSUME NEW i \in Ids, World(i) PROVE IInv'
  BY <1>4, SweepAccessOK, PlanEvictionOK, StoreBeginsOK, StoreEndsOK, LoseDurabilityOK,
    DamageOK DEF World
<1>5. CASE UNCHANGED vars
  <2>1. TypeOK' BY <1>5, AccessStays DEF IInv, TypeOK, vars
  <2>2. 1 \in Ids BY ContentAssumption DEF Ids
  <2>3. \A k \in Ids : Untouched(k) BY <1>5 DEF Untouched, vars
  <2>4. faults \in Nat /\ faults' = faults BY <1>5 DEF vars, IInv, TypeOK
  <2>5. Row(1)' BY <2>2, <2>3, <2>4, RowStays DEF IInv
  <2>6. Broken(1)' => Broken(1) BY <1>5 DEF Broken, Referenced, vars
  <2>7. Kept(1) BY <1>5, <2>2, <2>6, KeptSimply DEF vars
  <2>f. job' = job /\ access' = access /\ (Works \/ Fails)
    BY <1>5 DEF vars, Works
  <2> QED BY <1>5, <2>1, <2>2, <2>3, <2>4, <2>5, <2>7, <2>f, WorldStep
<1> QED BY <1>2, <1>3, <1>4, <1>5, CrashOK DEF Next

\* The invariant the results rest on: it holds initially, and every step of every
\* goroutine, of the world, and a crash, keep it.
THEOREM ContentInductive == Spec => []IInv
BY InitOK, NextOK, PTL DEF Spec

\* No bytes are lost: whichever of eviction, failed write, last deletion, local
\* reconciliation and cleanup removes a file, a version that names the content
\* still has its bytes in the cache, set aside or on enough providers, and work
\* that has to store them finds them; for any number of clients, runners,
\* failures and crashes, and under both eviction policies.
THEOREM BytesNeverLost == Spec => []BytesKept
<1>1. IInv => BytesKept
  BY Zenon DEF IInv, Row, Bytes, BytesKept, NamedHasBytes, StoreKeepsBytes
<1> QED BY <1>1, ContentInductive, PTL

\* The rows agree with each other and with the files: a version never names a
\* content that is being cleaned up or gone, and, unless a second call failed, a
\* row that promises a file that is gone belongs to the eviction that will
\* record its deletion.
THEOREM CacheRowsAgree == Spec => []CacheInv
<1>1. ASSUME IInv PROVE CacheInv
  <2>1. CleanupUnnamed BY <1>1 DEF IInv, Row, Bytes, CleanupUnnamed
  <2>2. ASSUME ~LRU, faults < 2, NEW i \in Ids, Referenced(i), entry[i].present,
               disk[i].file = "absent", ~disk[i].aside
        PROVE  TaskLive(i, entry[i].owner)
    <3>1. Broken(i) /\ Row(i) BY <1>1, <2>2 DEF IInv, Broken
    <3>2. entry[i].owner # 0 BY <2>2, <3>1 DEF Row, Promise
    <3> QED BY <3>1, <3>2 DEF Row, Owned
  <2>3. PresenceAccountedFor BY <2>2 DEF PresenceAccountedFor
  <2> QED BY <1>1, <2>1, <2>3 DEF CacheInv, IInv
<1> QED BY <1>1, ContentInductive, PTL
=============================================================================
