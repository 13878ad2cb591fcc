------------------------- MODULE CacheContentLemmas -------------------------
(* Lemmas for the theorems of CacheContentProofs: the inductive invariant,   *)
(* what a step that leaves most of it alone keeps, the parts the actions of  *)
(* CacheContent are made of, and the actions of writes and reads.            *)
EXTENDS CacheContent, TLAPS

-----------------------------------------------------------------------------
(* The inductive invariant *)

\* Versions, bytes and copies of one content.
Bytes(i) ==
  /\ Referenced(i) => Live(i) /\ ~content[i].cleaning /\ entry[i].known
  /\ Referenced(i) => disk[i].file # "absent" \/ disk[i].aside \/ remote[i].durable
  /\ remote[i].needed => Referenced(i) /\ (disk[i].file # "absent" \/ disk[i].aside)

\* An id that has not been used yet has left nothing anywhere.
Unused(i) ==
  content[i].row = "none" =>
    /\ disk[i].file = "absent" /\ ~owed[i] /\ entry[i] = NoRow
    /\ \A g \in Gens : evict[i][g] = "none"

\* The object_cache row and the evictions: the row belongs to a content that
\* exists, its owner is the live eviction of the latest generation, and no
\* eviction is ahead of it.
Owned(i) ==
  /\ entry[i].known => Live(i)
  /\ entry[i].present => entry[i].known
  /\ entry[i].owner # 0 => entry[i].known /\ entry[i].owner = entry[i].op
                           /\ TaskLive(i, entry[i].owner)
  /\ Live(i) => \A g \in Gens : evict[i][g] # "none" => entry[i].known /\ g =< entry[i].op

\* The row promises a file that is neither there nor set aside.
Broken(i) ==
  /\ Referenced(i) /\ entry[i].present
  /\ disk[i].file = "absent" /\ ~disk[i].aside

\* While at most one call failed: a broken promise has an owner, and the tracker
\* owes the presence of files that are there.
Promise(i) ==
  /\ ~LRU /\ faults < 2 /\ Broken(i) => entry[i].owner # 0
  /\ owed[i] /\ Live(i) => faults >= 1 /\ (disk[i].file # "absent" \/ faults >= 2)

Row(i) == Bytes(i) /\ Unused(i) /\ Owned(i) /\ Promise(i)

Evicting(w) == job[w].pc \in {"evict", "settle"}

\* A goroutine that wrote or verified the file keeps a read permit on it until
\* the rows say so.
Holding(w) ==
  /\ job[w].pc # "idle" => job[w].id \in Ids /\ content[job[w].id].row # "none"
  /\ job[w].pc \in {"name", "fill", "record", "restore"} =>
       Permit(job[w].id, "read") \in access[w]
  /\ job[w].pc \in {"name", "record", "restore"} => disk[job[w].id].file # "absent"

\* A handler of cache.evict runs its own task, and knows what it gives up: a
\* completed eviction is no longer the owner, and a cancelled one leaves no
\* broken promise behind.
Handling(w) ==
  /\ Evicting(w) => job[w].gen \in Gens /\ evict[job[w].id][job[w].gen] = "running"
  /\ job[w].pc = "settle" =>
       /\ job[w].res # "none"
       /\ job[w].res = "complete" => entry[job[w].id].owner # job[w].gen
       /\ job[w].res = "cancel" /\ ~LRU /\ faults < 2
            /\ entry[job[w].id].owner = job[w].gen => ~Broken(job[w].id)

OneHandler ==
  \A v, w \in Workers :
    Evicting(v) /\ Evicting(w) /\ job[v].id = job[w].id /\ job[v].gen = job[w].gen => v = w

IInv ==
  /\ TypeOK
  /\ \A i \in Ids : Row(i)
  /\ \A w \in Workers : Holding(w) /\ Handling(w)
  /\ OneHandler

-----------------------------------------------------------------------------
(* Frames *)

Same(v) == job'[v] = job[v] /\ access'[v] = access[v]

\* All that is known of content k is as it was.
Untouched(k) ==
  /\ content'[k] = content[k] /\ disk'[k] = disk[k] /\ entry'[k] = entry[k]
  /\ remote'[k] = remote[k] /\ evict'[k] = evict[k] /\ owed'[k] = owed[k]

\* What a step on content i leaves to the goroutines that take no part in it: the
\* file only goes when none of them holds a permit, their tasks go on running,
\* the row gets no owner that ever ran, and a promise is only broken by its owner.
Kept(i) ==
  /\ content'[i].row = "none" => content[i].row = "none"
  /\ disk[i].file # "absent" /\ disk'[i].file = "absent" =>
       \A v \in Workers : Permit(i, "read") \notin access[v]
  /\ \A v \in Workers : Same(v) /\ Evicting(v) /\ job[v].id = i =>
       evict'[i][job[v].gen] = "running"
  /\ \/ entry'[i].owner \in {0, entry[i].owner}
     \/ evict[i][entry'[i].owner] = "none"
  /\ ~LRU /\ faults' < 2 /\ Broken(i)' =>
       \/ Broken(i)
       \/ \E v \in Workers : ~Same(v) /\ Evicting(v) /\ job[v].id = i
                             /\ job[v].gen = entry'[i].owner

\* A goroutine that took part goes on with its task, or took one nobody ran.
Claims(v) ==
  Evicting(v)' =>
    \/ Evicting(v) /\ job'[v].id = job[v].id /\ job'[v].gen = job[v].gen
    \/ evict[job'[v].id][job'[v].gen] # "running"

Moved(v) == Holding(v)' /\ Handling(v)' /\ Claims(v)

\* What every proof below starts from.
LEMMA Basics ==
  ASSUME IInv
  PROVE  /\ TypeOK /\ faults \in Nat /\ faults \in 0 .. MaxFaults /\ scanned \subseteq Ids
         /\ \A i \in Ids : Row(i) /\ entry[i] \in Entry
         /\ \A w \in Workers : Holding(w) /\ Handling(w)
<1>1. TypeOK /\ (\A i \in Ids : Row(i)) /\ (\A w \in Workers : Holding(w) /\ Handling(w))
  BY DEF IInv
<1>2. faults \in 0 .. MaxFaults /\ scanned \subseteq Ids BY <1>1 DEF TypeOK
<1>3. faults \in Nat BY <1>2, ContentAssumption
<1>4. \A i \in Ids : entry[i] \in Entry BY <1>1 DEF TypeOK
<1> QED BY <1>1, <1>2, <1>3, <1>4

\* What the invariant says of the content a goroutine is at work on.
LEMMA AtWork ==
  ASSUME IInv, NEW w \in Workers, NEW i \in Ids, job[w].id = i, job[w].pc # "idle"
  PROVE  /\ TypeOK /\ faults \in Nat /\ Row(i) /\ entry[i] \in Entry
         /\ content[i].row # "none"
         /\ job[w].pc \in {"name", "record", "restore"} => disk[i].file # "absent"
         /\ job[w].pc = "fill" => Permit(i, "read") \in access[w]
BY Basics DEF Holding

\* Generations count from one: an owner of 0 is no eviction.
LEMMA GenPositive ==
  ASSUME NEW g \in Gens PROVE g # 0
BY DEF Gens

\* The invariant of a content does not depend on who fails elsewhere.
LEMMA RowStays ==
  ASSUME TypeOK, faults' \in Nat, faults' >= faults, NEW k \in Ids, Row(k), Untouched(k)
  PROVE  Row(k)'
<1>1. Bytes(k)' BY DEF Row, Bytes, Untouched, Referenced, Live
<1>2. Unused(k)' BY DEF Row, Unused, Untouched
<1>3. Owned(k)' BY DEF Row, Owned, Untouched, Live, TaskLive
<1>4. Promise(k)'
  <2>1. faults \in Nat BY DEF TypeOK
  <2>2. Broken(k)' <=> Broken(k) BY DEF Broken, Untouched, Referenced
  <2>3. Live(k)' <=> Live(k) BY DEF Live, Untouched
  <2> QED BY <2>1, <2>2, <2>3 DEF Row, Promise, Untouched
<1> QED BY <1>1, <1>2, <1>3, <1>4 DEF Row

\* A goroutine that took no part in a step on content i keeps its invariant.
LEMMA WorkerStays ==
  ASSUME IInv, TypeOK', faults' >= faults, NEW i \in Ids,
         \A k \in Ids \ {i} : Untouched(k), Kept(i),
         NEW v \in Workers, Same(v),
         \A u, w \in Workers : Same(u) \/ Same(w) \/ u = w
  PROVE  Holding(v)' /\ Handling(v)'
<1>1. TypeOK /\ Holding(v) /\ Handling(v) /\ OneHandler BY DEF IInv
<1>2. faults \in Nat /\ faults' \in Nat BY <1>1 DEF TypeOK
<1>3. job'[v] = job[v] /\ access'[v] = access[v] BY DEF Same
<1>4. CASE job[v].pc = "idle"
  BY <1>1, <1>3, <1>4 DEF Holding, Handling, Evicting
<1>5. CASE job[v].pc # "idle"
  <2>1. job[v].id \in Ids /\ content[job[v].id].row # "none" BY <1>1, <1>5 DEF Holding
  <2>2. CASE job[v].id # i
    <3>1. Untouched(job[v].id) BY <2>1, <2>2
    <3>2. Holding(v)' BY <1>1, <1>3, <2>1, <3>1 DEF Holding, Untouched, Permit
    <3>3. Broken(job[v].id)' <=> Broken(job[v].id)
      BY <1>3, <3>1 DEF Broken, Untouched, Referenced
    <3>4. Handling(v)' BY <1>1, <1>2, <1>3, <3>1, <3>3 DEF Handling, Evicting, Untouched
    <3> QED BY <3>2, <3>4
  <2>3. CASE job[v].id = i
    <3>1. Holding(v)' BY <1>1, <1>3, <2>1, <2>3 DEF Holding, Kept, Permit
    <3>2. Evicting(v)' => job'[v].gen \in Gens /\ evict'[job'[v].id][job'[v].gen] = "running"
      BY <1>1, <1>3, <2>3 DEF Handling, Evicting, Kept
    <3>3. ASSUME job[v].pc = "settle" PROVE evict[i][job[v].gen] = "running" /\ job[v].gen \in Gens
      BY <1>1, <2>3, <3>3 DEF Handling, Evicting
    <3>4. ASSUME job[v].pc = "settle", entry'[i].owner = job[v].gen
          PROVE  entry[i].owner = job[v].gen
      BY <3>3, <3>4 DEF Kept, Gens
    <3>5. ASSUME job[v].pc = "settle", job[v].res = "cancel", ~LRU, faults' < 2,
                 entry'[i].owner = job[v].gen, Broken(i)'
          PROVE  FALSE
      <4>1. entry[i].owner = job[v].gen BY <3>4, <3>5
      <4>2. ~Broken(i) BY <1>1, <1>2, <2>3, <3>5, <4>1 DEF Handling
      <4>3. PICK u \in Workers : ~Same(u) /\ Evicting(u) /\ job[u].id = i
                                /\ job[u].gen = entry'[i].owner
        BY <3>5, <4>2 DEF Kept
      <4>4. u = v BY <1>1, <2>3, <3>5, <4>3 DEF OneHandler, Evicting
      <4> QED BY <4>3, <4>4
    <3>6. Handling(v)' BY <1>1, <1>3, <2>3, <3>2, <3>4, <3>5 DEF Handling
    <3> QED BY <3>1, <3>6
  <2> QED BY <2>2, <2>3
<1> QED BY <1>4, <1>5

\* A step of at most one goroutine on one content keeps the invariant when that
\* content and that goroutine keep theirs.
LEMMA Frame ==
  ASSUME IInv, TypeOK', faults' >= faults, NEW i \in Ids,
         \A k \in Ids \ {i} : Untouched(k), Kept(i), Row(i)',
         \A v \in Workers : Same(v) \/ Moved(v),
         \A u, w \in Workers : Same(u) \/ Same(w) \/ u = w
  PROVE  IInv'
<1>1. TypeOK /\ faults' \in Nat BY DEF IInv, TypeOK
<1>2. \A k \in Ids : Row(k)'
  BY <1>1, RowStays DEF IInv
<1>3. \A v \in Workers : Holding(v)' /\ Handling(v)'
  BY WorkerStays DEF Moved
<1>4. OneHandler'
  <2> SUFFICES ASSUME NEW v \in Workers, NEW w \in Workers, Evicting(v)', Evicting(w)',
                      job'[v].id = job'[w].id, job'[v].gen = job'[w].gen, v # w
               PROVE  FALSE
    BY DEF OneHandler
  <2>1. ASSUME NEW x \in Workers, NEW y \in Workers, x # y, Same(x), Same(y) \/ Moved(y),
               Evicting(x)', Evicting(y)', job'[x].id = job'[y].id, job'[x].gen = job'[y].gen
        PROVE  FALSE
    <3>1. Evicting(x) /\ job'[x] = job[x] BY <2>1 DEF Evicting, Same
    <3>2. evict[job[x].id][job[x].gen] = "running" BY <3>1 DEF IInv, Handling
    <3>3. Evicting(y) /\ job'[y].id = job[y].id /\ job'[y].gen = job[y].gen
      BY <2>1, <3>1, <3>2 DEF Moved, Claims, Same, Evicting
    <3> QED BY <2>1, <3>1, <3>3 DEF IInv, OneHandler
  <2>2. Same(v) \/ Same(w) OBVIOUS
  <2> QED BY <2>1, <2>2
<1> QED BY <1>2, <1>3, <1>4 DEF IInv

-----------------------------------------------------------------------------
(* Lemmas about the parts steps are made of *)

Others(w) == \A v \in Workers \ {w} : Same(v)

\* A goroutine that goes on changes its place only.
LEMMA GotoFacts ==
  ASSUME TypeOK, NEW w \in Workers, NEW pc \in Pcs, Goto(w, pc)
  PROVE  /\ job' \in [Workers -> Job]
         /\ job'[w].pc = pc /\ job'[w].id = job[w].id /\ job'[w].gen = job[w].gen
         /\ job'[w].res = job[w].res
         /\ \A v \in Workers \ {w} : job'[v] = job[v]
<1> DEFINE x == [job[w] EXCEPT !.pc = pc]
<1>1. job[w] \in Job BY DEF TypeOK
<1>2. x \in Job /\ x.pc = pc /\ x.id = job[w].id /\ x.gen = job[w].gen /\ x.res = job[w].res
  BY <1>1 DEF Job
<1>3. job' = [job EXCEPT ![w] = x] BY DEF Goto
<1> HIDE DEF x
<1> QED BY <1>2, <1>3 DEF TypeOK

\* An eviction handler that returns goes to its settlement with the result.
LEMMA ResultFacts ==
  ASSUME TypeOK, NEW w \in Workers, NEW r \in {"complete", "cancel", "execute", "recover"},
         Result(w, r)
  PROVE  /\ job' \in [Workers -> Job]
         /\ job'[w].pc = "settle" /\ job'[w].id = job[w].id /\ job'[w].gen = job[w].gen
         /\ job'[w].res = r
         /\ \A v \in Workers \ {w} : job'[v] = job[v]
<1> DEFINE x == [job[w] EXCEPT !.pc = "settle", !.res = r]
<1>1. job[w] \in Job BY DEF TypeOK
<1>2. x \in Job /\ x.pc = "settle" /\ x.id = job[w].id /\ x.gen = job[w].gen /\ x.res = r
  BY <1>1, Zenon DEF Job, Pcs
<1>3. job' = [job EXCEPT ![w] = x] BY Zenon DEF Result
<1> HIDE DEF x
<1> QED BY <1>2, <1>3 DEF TypeOK

\* A goroutine without work is well typed.
LEMMA IdleJob == Idle \in Job /\ Idle.pc = "idle"
BY ContentAssumption DEF Idle, Job, Pcs

\* A goroutine that ends its work has none.
LEMMA DoneFacts ==
  ASSUME TypeOK, NEW w \in Workers, Done(w)
  PROVE  /\ job' \in [Workers -> Job] /\ job'[w].pc = "idle"
         /\ \A v \in Workers \ {w} : job'[v] = job[v]
BY IdleJob DEF TypeOK, Done

\* A goroutine that begins work is at the content it begins with.
LEMMA BeginFacts ==
  ASSUME TypeOK, NEW w \in Workers, NEW pc \in Pcs, NEW i \in Ids, Begin(w, pc, i)
  PROVE  /\ job' \in [Workers -> Job] /\ job'[w].pc = pc /\ job'[w].id = i
         /\ \A v \in Workers \ {w} : job'[v] = job[v]
<1> DEFINE x == [Idle EXCEPT !.pc = pc, !.id = i]
<1>1. i \in 0 .. MaxContents BY ContentAssumption DEF Ids
<1>2. x \in Job /\ x.pc = pc /\ x.id = i BY <1>1, IdleJob, Zenon DEF Job, Idle
<1>3. job' = [job EXCEPT ![w] = x] BY DEF Begin
<1> HIDE DEF x
<1> QED BY <1>2, <1>3 DEF TypeOK

\* A permit is added to those of one goroutine.
LEMMA HoldFacts ==
  ASSUME TypeOK, NEW w \in Workers, NEW i \in Ids, HoldRead(w, i)
  PROVE  /\ Lock!AccessTypeOK' /\ access'[w] = {Permit(i, "read")}
         /\ \A v \in Workers \ {w} : access'[v] = access[v]
<1>1. Permit(i, "read") \in Lock!Permits BY DEF Permit, Lock!Permits, Lock!Modes
<1> QED BY <1>1 DEF TypeOK, HoldRead, Lock!AccessEnter, Lock!AccessTypeOK

\* The permits of one goroutine are given back.
LEMMA ReleaseFacts ==
  ASSUME TypeOK, NEW w \in Workers, Release(w)
  PROVE  /\ Lock!AccessTypeOK' /\ access'[w] = {}
         /\ \A v \in Workers \ {w} : access'[v] = access[v]
BY DEF TypeOK, Release, Lock!AccessExit, Lock!AccessTypeOK

\* Who holds the deletion permit knows that nobody reads the file.
LEMMA GuardFacts ==
  ASSUME TypeOK, NEW w \in Workers, NEW i \in Ids, Guarded(w, i)
  PROVE  access' = access /\ \A v \in Workers : Permit(i, "read") \notin access[v]
BY DEF Guarded, Lock!AccessFree, Lock!Compatible, Permit

\* The permits keep their type while nobody takes or gives one.
LEMMA AccessStays ==
  ASSUME TypeOK, access' = access
  PROVE  Lock!AccessTypeOK'
BY DEF TypeOK, Lock!AccessTypeOK

\* A call works or fails within the bound on failures, and failures are not undone.
LEMMA FaultFacts ==
  ASSUME TypeOK, Works \/ Fails
  PROVE  faults' \in 0 .. MaxFaults /\ faults' >= faults /\ faults \in Nat /\ faults' \in Nat
BY ContentAssumption DEF TypeOK, Works, Fails

\* A failure is counted once.
LEMMA FailFacts ==
  ASSUME TypeOK, Fails
  PROVE  faults' = faults + 1
BY DEF Fails

\* Writing or removing a file changes that file only.
LEMMA FileFacts ==
  ASSUME TypeOK, NEW i \in Ids, NEW f \in {"absent", "good", "bad"}, SetFile(i, f)
  PROVE  /\ disk' \in [Ids -> Disk] /\ disk'[i].file = f /\ disk'[i].aside = disk[i].aside
         /\ \A k \in Ids \ {i} : disk'[k] = disk[k]
<1> DEFINE x == [disk[i] EXCEPT !.file = f]
<1>1. disk[i] \in Disk BY DEF TypeOK
<1>2. x \in Disk /\ x.file = f /\ x.aside = disk[i].aside BY <1>1 DEF Disk
<1>3. disk' = [disk EXCEPT ![i] = x] BY DEF SetFile
<1> HIDE DEF x
<1> QED BY <1>2, <1>3 DEF TypeOK

\* Recording a file as present keeps the owner and the generation of the row.
LEMMA PresentFacts ==
  ASSUME NEW e \in Entry
  PROVE  /\ Present(e) \in Entry /\ Present(e).known /\ Present(e).present
         /\ Present(e).op = e.op /\ Present(e).owner = e.owner
BY Zenon DEF Present, Entry

\* Recording a file as absent keeps the owner and the generation of the row.
LEMMA AbsentFacts ==
  ASSUME NEW e \in Entry, e.present => e.known
  PROVE  /\ Absent(e) \in Entry /\ Absent(e).known = e.known /\ ~Absent(e).present
         /\ Absent(e).op = e.op /\ Absent(e).owner = e.owner
<1>1. Counted(e.pres) \in 0 .. MaxPresence BY ContentAssumption DEF Entry, Counted
<1> QED BY <1>1, Zenon DEF Absent, Entry

\* What keeps the promises of content i: presence is owed only as before, the
\* file goes only if the call fails, and a promise that is broken now was broken
\* before by the same owner, or has an owner.
LEMMA PromiseStays ==
  ASSUME NEW i \in Ids, Promise(i), faults \in Nat, faults' \in Nat, faults' >= faults,
         owed'[i] /\ Live(i)' =>
           /\ owed[i] /\ Live(i)
           /\ disk'[i].file = "absent" => disk[i].file = "absent" \/ faults' > faults,
         ~LRU /\ Broken(i)' =>
           entry'[i].owner # 0 \/ (Broken(i) /\ entry'[i].owner = entry[i].owner)
  PROVE  Promise(i)'
<1>1. faults' < 2 => faults < 2 OBVIOUS
<1>2. faults >= 1 => faults' >= 1 OBVIOUS
<1>3. faults >= 2 => faults' >= 2 OBVIOUS
<1>4. faults >= 1 /\ faults' > faults => faults' >= 2 OBVIOUS
<1>5. ~LRU /\ faults' < 2 /\ Broken(i)' => entry'[i].owner # 0 BY <1>1 DEF Promise
<1>6. owed'[i] /\ Live(i)' => faults' >= 1 /\ (disk'[i].file # "absent" \/ faults' >= 2)
  <2>1. SUFFICES ASSUME owed'[i], Live(i)'
                 PROVE  faults' >= 1 /\ (disk'[i].file # "absent" \/ faults' >= 2)
    OBVIOUS
  <2>2. faults >= 1 /\ (disk[i].file # "absent" \/ faults >= 2) BY <2>1 DEF Promise
  <2> QED BY <1>2, <1>3, <1>4, <2>1, <2>2
<1> QED BY <1>5, <1>6 DEF Promise

\* A step that touches no content.
LEMMA Quiet ==
  ASSUME IInv, TypeOK', Works \/ Fails, NEW w \in Workers,
         UNCHANGED <<content, disk, entry, remote, evict, owed>>, Others(w), Moved(w)
  PROVE  IInv'
<1>0. TypeOK /\ faults' >= faults /\ faults \in Nat /\ faults' \in Nat
  BY Basics, FaultFacts
<1>1. 1 \in Ids BY ContentAssumption DEF Ids
<1>2. \A k \in Ids : Untouched(k) BY DEF Untouched
<1>3. \A k \in Ids : Row(k)
  BY DEF IInv
<1>4. Row(1)' BY <1>0, <1>1, <1>2, <1>3, RowStays
<1>5. Kept(1)
  <2>2. Broken(1)' => Broken(1) BY DEF Broken, Referenced
  <2>3. \A v \in Workers : Evicting(v) => evict[job[v].id][job[v].gen] = "running"
    BY Basics DEF Handling
  <2> QED BY <1>0, <2>2, <2>3 DEF Kept
<1>6. \A v \in Workers : Same(v) \/ Moved(v) BY DEF Others
<1>7. \A u, v \in Workers : Same(u) \/ Same(v) \/ u = v BY DEF Others
<1> QED BY <1>0, <1>1, <1>2, <1>4, <1>5, <1>6, <1>7, Frame

\* A goroutine that is in the middle of nothing.
LEMMA PlainMove ==
  ASSUME NEW w \in Workers,
         job'[w].pc \notin {"evict", "settle", "name", "fill", "record", "restore"},
         job'[w].pc # "idle" => job'[w].id \in Ids /\ content'[job'[w].id].row # "none"
  PROVE  Moved(w)
BY DEF Moved, Holding, Handling, Claims, Evicting

\* A step of goroutine w on content i.
LEMMA Step ==
  ASSUME IInv, TypeOK', faults' >= faults, NEW i \in Ids, NEW w \in Workers,
         \A k \in Ids \ {i} : Untouched(k), Kept(i), Row(i)', Others(w), Moved(w)
  PROVE  IInv'
<1>1. \A v \in Workers : Same(v) \/ Moved(v) BY DEF Others
<1>2. \A u, v \in Workers : Same(u) \/ Same(v) \/ u = v BY DEF Others
<1> QED BY <1>1, <1>2, Frame

\* A step of the world on content i.
LEMMA WorldStep ==
  ASSUME IInv, TypeOK', Works \/ Fails, NEW i \in Ids,
         \A k \in Ids \ {i} : Untouched(k), Kept(i), Row(i)', job' = job, access' = access
  PROVE  IInv'
<1>1. \A v \in Workers : Same(v) BY DEF Same
<1>2. faults' >= faults BY Basics, FaultFacts
<1> QED BY <1>1, <1>2, Frame

\* A step that disturbs no eviction, takes no file from a reader and breaks no
\* promise.
LEMMA KeptSimply ==
  ASSUME IInv, NEW i \in Ids,
         content'[i].row = "none" => content[i].row = "none",
         disk[i].file # "absent" /\ disk'[i].file = "absent" =>
           \A v \in Workers : Permit(i, "read") \notin access[v],
         evict'[i] = evict[i], entry'[i].owner \in {0, entry[i].owner},
         ~LRU /\ faults' < 2 /\ Broken(i)' => Broken(i)
  PROVE  Kept(i)
<1>1. \A v \in Workers : Evicting(v) => evict[job[v].id][job[v].gen] = "running"
  BY DEF IInv, Handling
<1> QED BY <1>1 DEF Kept

-----------------------------------------------------------------------------
(* Writes *)

\* EnsureContent: the content row and its object_cache row appear together.
LEMMA EnsureContentOK ==
  ASSUME IInv, NEW w \in Workers, NEW i \in Ids, EnsureContent(w, i)
  PROVE  IInv'
<1>1. TypeOK /\ Row(i) /\ faults \in Nat BY Basics
<1>2. /\ job' \in [Workers -> Job] /\ job'[w].pc = "commit" /\ job'[w].id = i
      /\ \A v \in Workers \ {w} : job'[v] = job[v]
  BY <1>1, BeginFacts DEF EnsureContent, Pcs
<1>3. Others(w) BY <1>2 DEF Others, Same, EnsureContent
<1>4. Lock!AccessTypeOK' BY <1>1, AccessStays DEF EnsureContent
<1>5. CASE Live(i) /\ UNCHANGED content
  <2>1. TypeOK' BY <1>1, <1>2, <1>4, <1>5 DEF TypeOK, EnsureContent
  <2>2. Moved(w) BY <1>2, <1>5, PlainMove DEF Live
  <2>f. UNCHANGED <<content, disk, entry, remote, evict, owed>> /\ (Works \/ Fails)
    BY <1>1, <1>3, <1>5, <2>1, <2>2 DEF EnsureContent, Works
  <2> QED BY <1>1, <1>3, <1>5, <2>1, <2>2, <2>f, Quiet
<1>6. CASE content[i].row = "none" /\ content' = [content EXCEPT ![i].row = "live"]
  <2> DEFINE c == [content[i] EXCEPT !.row = "live"]
  <2>1. content[i] \in Content BY <1>1 DEF TypeOK
  <2>2. c \in Content /\ c.row = "live" /\ c.versions = content[i].versions
        /\ c.cleaning = content[i].cleaning
    BY <2>1 DEF Content
  <2>3. content' = [content EXCEPT ![i] = c] BY <1>6
  <2> HIDE DEF c
  <2>4. content' \in [Ids -> Content] /\ content'[i] = c
        /\ \A k \in Ids \ {i} : content'[k] = content[k]
    BY <1>1, <2>2, <2>3 DEF TypeOK
  <2>5. TypeOK' BY <1>1, <1>2, <1>4, <2>4 DEF TypeOK, EnsureContent
  <2>6. Moved(w) BY <1>2, <2>2, <2>4, PlainMove
  <2>7. \A k \in Ids \ {i} : Untouched(k) BY <2>4 DEF Untouched, EnsureContent
  <2>8. ~Referenced(i) /\ ~Referenced(i)' BY <1>1, <1>6, <2>2, <2>4 DEF Row, Bytes, Live, Referenced
  <2>9. Row(i)'
    <3>1. Bytes(i)' BY <1>1, <2>8 DEF Row, Bytes, EnsureContent
    <3>2. Unused(i)' BY <2>2, <2>4 DEF Unused
    <3>3. entry[i] = NoRow /\ ~owed[i] /\ \A g \in Gens : evict[i][g] = "none"
      BY <1>1, <1>6 DEF Row, Unused
    <3>4. Owned(i)' BY <3>3 DEF Owned, EnsureContent, NoRow
    <3>5. Promise(i)' BY <2>8, <3>3 DEF Promise, Broken, EnsureContent
    <3> QED BY <3>1, <3>2, <3>4, <3>5 DEF Row
  <2>10. Kept(i) BY <1>6, <2>8, KeptSimply DEF EnsureContent, Broken
  <2>f. faults' = faults
    BY <1>1, <1>3, <2>5, <2>6, <2>7, <2>9, <2>10 DEF EnsureContent, Works
  <2> QED BY <1>1, <1>3, <2>5, <2>6, <2>7, <2>9, <2>10, <2>f, Step
<1> QED BY <1>5, <1>6 DEF EnsureContent

\* The file is written under the read permit the write keeps until it is named.
LEMMA CommitFileOK ==
  ASSUME IInv, NEW w \in Workers, NEW i \in Ids, job[w].id = i, CommitFile(w)
  PROVE  IInv'
<1>1. TypeOK /\ faults \in Nat /\ content[i].row # "none"
  BY AtWork DEF CommitFile, At
<1>2. Row(i) BY <1>1 DEF IInv
<1>3. CASE HoldRead(w, i) /\ Works /\ SetFile(i, "good")
           /\ job' = [job EXCEPT ![w].pc = "name", ![w].flag = TRUE]
  <2> DEFINE x == [job[w] EXCEPT !.pc = "name", !.flag = TRUE]
  <2>1. job[w] \in Job BY <1>1 DEF TypeOK
  <2>2. x \in Job /\ x.pc = "name" /\ x.id = i BY <2>1, Zenon DEF Job, Pcs
  <2>3. job' = [job EXCEPT ![w] = x] BY <1>3, Zenon
  <2> HIDE DEF x
  <2>4. job' \in [Workers -> Job] /\ job'[w] = x /\ \A v \in Workers \ {w} : job'[v] = job[v]
    BY <1>1, <2>2, <2>3 DEF TypeOK
  <2>5. /\ Lock!AccessTypeOK' /\ access'[w] = {Permit(i, "read")}
        /\ \A v \in Workers \ {w} : access'[v] = access[v]
    BY <1>1, <1>3, HoldFacts
  <2>6. /\ disk' \in [Ids -> Disk] /\ disk'[i].file = "good" /\ disk'[i].aside = disk[i].aside
        /\ \A k \in Ids \ {i} : disk'[k] = disk[k]
    BY <1>1, <1>3, FileFacts
  <2>7. faults' \in 0 .. MaxFaults /\ faults' >= faults /\ faults' = faults
    BY <1>1, <1>3, FaultFacts DEF Works
  <2>8. TypeOK' BY <1>1, <2>4, <2>5, <2>6, <2>7 DEF TypeOK, CommitFile
  <2>9. Others(w) BY <2>4, <2>5 DEF Others, Same
  <2>10. Moved(w)
    <3>1. content'[i].row # "none" BY <1>1 DEF CommitFile
    <3> QED BY <1>1, <2>2, <2>4, <2>5, <2>6, <3>1 DEF Moved, Holding, Handling, Claims, Evicting, Permit
  <2>11. \A k \in Ids \ {i} : Untouched(k) BY <2>6 DEF Untouched, CommitFile
  <2>12. Row(i)'
    <3>1. Bytes(i)' BY <1>2, <2>6 DEF Row, Bytes, CommitFile, Referenced, Live
    <3>2. Unused(i)' BY <1>1 DEF Unused, CommitFile
    <3>3. Owned(i)' BY <1>2 DEF Row, Owned, CommitFile, Live, TaskLive
    <3>4. Promise(i)' BY <1>1, <1>2, <2>6, <2>7 DEF Row, Promise, Broken, CommitFile, Live
    <3> QED BY <3>1, <3>2, <3>3, <3>4 DEF Row
  <2>13. Kept(i) BY <2>6, KeptSimply DEF CommitFile, Broken
  <2> QED BY <1>1, <2>7, <2>8, <2>9, <2>10, <2>11, <2>12, <2>13, Step
<1>4. CASE Fails /\ Goto(w, "discard") /\ UNCHANGED <<disk, access>>
  <2>1. /\ job' \in [Workers -> Job] /\ job'[w].pc = "discard" /\ job'[w].id = i
        /\ \A v \in Workers \ {w} : job'[v] = job[v]
    BY <1>1, <1>4, GotoFacts DEF Pcs
  <2>2. faults' \in 0 .. MaxFaults /\ faults' >= faults BY <1>1, <1>4, FaultFacts
  <2>3. TypeOK' BY <1>1, <1>4, <2>1, <2>2, AccessStays DEF TypeOK, CommitFile
  <2>4. Moved(w) BY <1>1, <2>1, PlainMove DEF CommitFile
  <2>5. Others(w) BY <1>4, <2>1 DEF Others, Same
  <2>f. UNCHANGED <<content, disk, entry, remote, evict, owed>> /\ (Works \/ Fails)
    BY <1>4, <2>2, <2>3, <2>4, <2>5 DEF CommitFile, Works
  <2> QED BY <1>4, <2>2, <2>3, <2>4, <2>5, <2>f, Quiet
<1> QED BY <1>3, <1>4 DEF CommitFile

\* enqueueEviction on the row e that its caller leaves behind: the row stays as it
\* is, or gets a generation that no eviction has had.
Bound(i, e) ==
  /\ entry' \in [Ids -> Entry]
  /\ evict' \in [Ids -> [Gens -> {"none", "execute", "recover", "running", "done"}]]
  /\ \A k \in Ids \ {i} : entry'[k] = entry[k] /\ evict'[k] = evict[k]
  /\ entry'[i].known = e.known /\ entry'[i].present = e.present
  /\ e.owner # 0 => entry'[i].owner # 0
  /\ \A v \in Workers : Evicting(v) /\ job[v].id = i => evict'[i][job[v].gen] = "running"
  /\ \/ entry'[i].owner \in {0, entry[i].owner}
     \/ evict[i][entry'[i].owner] = "none"
  /\ Owned(i)'

\* Enqueueing an eviction binds the row to the new generation, or changes nothing.
LEMMA EnqueueFacts ==
  ASSUME IInv, NEW i \in Ids, NEW e \in Entry, NEW due \in BOOLEAN, EnqueueIf(due, i, e),
         e.op = entry[i].op, e.owner = entry[i].owner,
         e.known => Live(i), e.present => e.known, entry[i].known => e.known,
         content'[i].row = content[i].row
  PROVE  Bound(i, e)
<1>1. TypeOK /\ Owned(i) BY DEF IInv, Row
<1>2. \A v \in Workers : Evicting(v) =>
        job[v].gen \in Gens /\ evict[job[v].id][job[v].gen] = "running"
  BY DEF IInv, Handling
<1>3. CASE due /\ CanEnqueue(e)
  <2> DEFINE n == e.op + 1
             x == [e EXCEPT !.op = n, !.owner = n]
             t == [evict[i] EXCEPT ![n] = "execute"]
  <2>1. e.op \in Nat /\ n \in Gens /\ n \in 0 .. MaxEvictions /\ n \in Nat \ {0} /\ n > e.op
    BY <1>3, ContentAssumption DEF CanEnqueue, Entry, Gens
  <2>2. entry' = [entry EXCEPT ![i] = x] /\ evict' = [evict EXCEPT ![i] = t]
    BY <1>3 DEF EnqueueIf, Enqueue
  <2> HIDE DEF n
  <2>3. x \in Entry /\ x.known = e.known /\ x.present = e.present /\ x.op = n /\ x.owner = n
    BY <2>1, Zenon DEF Entry
  <2>4. evict[i] \in [Gens -> {"none", "execute", "recover", "running", "done"}]
    BY <1>1 DEF TypeOK
  <2>5. /\ t \in [Gens -> {"none", "execute", "recover", "running", "done"}]
        /\ t[n] = "execute" /\ \A g \in Gens \ {n} : t[g] = evict[i][g]
    BY <2>1, <2>4
  <2> HIDE DEF x, t
  <2>6. /\ entry' \in [Ids -> Entry] /\ entry'[i] = x
        /\ evict' \in [Ids -> [Gens -> {"none", "execute", "recover", "running", "done"}]]
        /\ evict'[i] = t
        /\ \A k \in Ids \ {i} : entry'[k] = entry[k] /\ evict'[k] = evict[k]
    BY <1>1, <2>2, <2>3, <2>5 DEF TypeOK
  <2>7. e.known /\ Live(i) BY <1>3 DEF CanEnqueue
  <2>8. \A g \in Gens : g >= n => evict[i][g] = "none"
    BY <1>1, <2>1, <2>7 DEF Owned, Gens
  <2>9. evict[i][n] = "none" BY <2>1, <2>8
  <2>10. \A v \in Workers : Evicting(v) /\ job[v].id = i => evict'[i][job[v].gen] = "running"
    BY <1>2, <2>5, <2>6, <2>9
  <2>11. Owned(i)'
    <3>1. Live(i)' /\ entry'[i].known /\ entry'[i].op = n /\ entry'[i].owner = n
      BY <2>3, <2>6, <2>7, Zenon DEF Live
    <3>2. TaskLive(i, n)' BY <2>1, <2>5, <2>6 DEF TaskLive
    <3>3. \A g \in Gens : evict'[i][g] # "none" => g =< n
      BY <2>1, <2>5, <2>6, <2>8 DEF Gens
    <3> QED BY <3>1, <3>2, <3>3 DEF Owned
  <2> QED BY <2>1, <2>3, <2>6, <2>9, <2>10, <2>11 DEF Bound
<1>4. CASE ~(due /\ CanEnqueue(e))
  <2>1. entry' = [entry EXCEPT ![i] = e] /\ evict' = evict
    BY <1>4 DEF EnqueueIf, Enqueue
  <2>2. entry' \in [Ids -> Entry] /\ entry'[i] = e /\ \A k \in Ids \ {i} : entry'[k] = entry[k]
    BY <1>1, <2>1 DEF TypeOK
  <2>3. Owned(i)' BY <1>1, <2>1, <2>2 DEF Owned, Live, TaskLive
  <2> QED BY <1>1, <1>2, <2>1, <2>2, <2>3 DEF Bound, TypeOK
<1> QED BY <1>3, <1>4

\* A version names the content while the write still holds its file.
LEMMA NameContentOK ==
  ASSUME IInv, NEW w \in Workers, NEW i \in Ids, job[w].id = i, NameContent(w)
  PROVE  IInv'
<1>1. TypeOK /\ faults \in Nat /\ Row(i) /\ content[i].row # "none" /\ disk[i].file # "absent"
  BY AtWork DEF NameContent, At
<1>2. /\ Lock!AccessTypeOK' /\ access'[w] = {}
      /\ \A v \in Workers \ {w} : access'[v] = access[v]
  BY <1>1, ReleaseFacts DEF NameContent
<1>3. /\ job' \in [Workers -> Job] /\ job'[w].pc \in {"idle", "discard"}
      /\ job'[w].pc # "idle" => job'[w].id = i
      /\ \A v \in Workers \ {w} : job'[v] = job[v]
  <2>1. Done(w) \/ Goto(w, "discard") BY DEF NameContent
  <2> QED BY <1>1, <2>1, DoneFacts, GotoFacts DEF Pcs
<1>4. faults' \in 0 .. MaxFaults /\ faults' >= faults /\ faults' \in Nat
  <2>1. Works \/ Fails BY DEF NameContent
  <2> QED BY <1>1, <2>1, FaultFacts
<1>5. Others(w) BY <1>2, <1>3 DEF Others, Same
<1>6. CASE /\ CanName(i) /\ content[i].versions < MaxVersions
           /\ content' = [content EXCEPT ![i].versions = @ + 1]
           /\ EnqueueIf(remote[i].durable /\ ~LRU, i, Present(entry[i]))
  <2> DEFINE c == [content[i] EXCEPT !.versions = content[i].versions + 1]
  <2>1. content[i] \in Content /\ entry[i] \in Entry /\ remote[i] \in Remote
    BY <1>1 DEF TypeOK
  <2>2. content[i].versions + 1 \in 1 .. MaxVersions
    BY <1>6, <2>1, ContentAssumption DEF Content
  <2>3. c \in Content /\ c.row = content[i].row /\ c.cleaning = content[i].cleaning
    BY <2>1, <2>2, ContentAssumption DEF Content
  <2>4. content' = [content EXCEPT ![i] = c] BY <1>6
  <2> HIDE DEF c
  <2>5. content' \in [Ids -> Content] /\ content'[i] = c
        /\ \A k \in Ids \ {i} : content'[k] = content[k]
    BY <1>1, <2>3, <2>4 DEF TypeOK
  <2>6. Live(i) /\ Live(i)' /\ ~content'[i].cleaning
    BY <1>6, <2>3, <2>5 DEF CanName, Live
  <2> DEFINE e == Present(entry[i])
  <2>7. /\ e \in Entry /\ e.known /\ e.present /\ e.op = entry[i].op /\ e.owner = entry[i].owner
    BY <2>1, PresentFacts
  <2>8. EnqueueIf(remote[i].durable /\ ~LRU, i, e) BY <1>6
  <2>9. (remote[i].durable /\ ~LRU) \in BOOLEAN OBVIOUS
  <2> HIDE DEF e
  <2>10. Bound(i, e) BY <2>3, <2>5, <2>6, <2>7, <2>8, <2>9, EnqueueFacts, Zenon
  <2>11. TypeOK' BY <1>1, <1>2, <1>3, <1>4, <2>5, <2>10 DEF TypeOK, NameContent, Bound
  <2>12. Moved(w) BY <1>1, <1>3, <2>3, <2>5, PlainMove
  <2>13. \A k \in Ids \ {i} : Untouched(k) BY <2>5, <2>10 DEF Untouched, NameContent, Bound
  <2>14. disk'[i].file # "absent" BY <1>1 DEF NameContent
  <2>15. Row(i)'
    <3>1. Bytes(i)'
      <4>1. Referenced(i)' BY <2>2, <2>5 DEF Referenced, c
      <4> QED BY <1>1, <2>6, <2>7, <2>10, <2>14, <4>1 DEF Bytes, Bound, Row, NameContent
    <3>2. Unused(i)' BY <1>1, <2>3, <2>5 DEF Unused
    <3>3. Promise(i)' BY <1>1, <1>4, <2>6, <2>14 DEF Row, Promise, Broken, NameContent
    <3> QED BY <3>1, <3>2, <3>3, <2>10 DEF Row, Bound
  <2>16. Kept(i) BY <1>1, <2>3, <2>5, <2>10, <2>14 DEF Kept, Bound, Broken
  <2> QED BY <1>1, <1>4, <1>5, <2>11, <2>12, <2>13, <2>15, <2>16, Step
<1>7. CASE UNCHANGED <<content, entry, evict>>
  <2>1. TypeOK' BY <1>1, <1>2, <1>3, <1>4, <1>7 DEF TypeOK, NameContent
  <2>2. Moved(w) BY <1>1, <1>3, <1>7, PlainMove
  <2>f. UNCHANGED <<content, disk, entry, remote, evict, owed>> /\ (Works \/ Fails)
    BY <1>4, <1>5, <1>7, <2>1, <2>2 DEF NameContent, Works
  <2> QED BY <1>4, <1>5, <1>7, <2>1, <2>2, <2>f, Quiet
<1> QED BY <1>6, <1>7 DEF NameContent

\* The file of a content that no version names is deleted under the deletion
\* permit, and the row and the tracker are told unless that fails.
FileGoes(i) ==
  /\ disk' \in [Ids -> Disk] /\ entry' \in [Ids -> Entry] /\ owed' \in [Ids -> BOOLEAN]
  /\ faults' \in 0 .. MaxFaults /\ faults' >= faults /\ access' = access
  /\ \A k \in Ids \ {i} : Untouched(k)
  /\ Row(i)' /\ Kept(i)

\* The file of a content nobody names may be removed under the deletion permit.
LEMMA UnnamedFileGoes ==
  ASSUME IInv, NEW w \in Workers, NEW i \in Ids, content[i].row # "none", ~Referenced(i),
         Guarded(w, i), content' = content, remote' = remote, evict' = evict,
         \/ Works /\ Released(i)
         \/ Fails /\ SetFile(i, "absent") /\ UNCHANGED <<entry, owed>>
  PROVE  FileGoes(i)
<1>1. TypeOK /\ Row(i) /\ entry[i] \in Entry BY Basics
<1>2. access' = access /\ \A v \in Workers : Permit(i, "read") \notin access[v]
  BY <1>1, GuardFacts
<1>3. /\ disk' \in [Ids -> Disk] /\ disk'[i].file = "absent" /\ disk'[i].aside = disk[i].aside
      /\ \A k \in Ids \ {i} : disk'[k] = disk[k]
  BY <1>1, FileFacts DEF Released
<1>4. /\ faults' \in 0 .. MaxFaults /\ faults' >= faults /\ faults \in Nat /\ faults' \in Nat
  BY <1>1, FaultFacts
<1>5. /\ entry' \in [Ids -> Entry] /\ \A k \in Ids \ {i} : entry'[k] = entry[k]
      /\ entry'[i].known = entry[i].known /\ (entry'[i].present => entry[i].present)
      /\ entry'[i].op = entry[i].op /\ entry'[i].owner = entry[i].owner
  <2>1. entry[i].present => entry[i].known BY <1>1 DEF Row, Owned
  <2>2. CASE Released(i)
    <3>1. entry' = [entry EXCEPT ![i] = Absent(entry[i])] BY <2>2 DEF Released
    <3> QED BY <1>1, <2>1, <3>1, AbsentFacts DEF TypeOK
  <2>3. CASE entry' = entry BY <1>1, <2>3 DEF TypeOK
  <2> QED BY <2>2, <2>3
<1>6. /\ owed' \in [Ids -> BOOLEAN] /\ \A k \in Ids \ {i} : owed'[k] = owed[k]
      /\ ~owed'[i] \/ (owed'[i] = owed[i] /\ faults' = faults + 1)
  <2>1. CASE Released(i) BY <1>1, <2>1 DEF Released, TypeOK
  <2>2. CASE Fails /\ owed' = owed BY <1>1, <2>2, FailFacts DEF TypeOK
  <2> QED BY <2>1, <2>2
<1>7. ~Referenced(i)' BY DEF Referenced
<1>8. Row(i)'
  <2>1. Bytes(i)' BY <1>1, <1>7 DEF Row, Bytes
  <2>2. Unused(i)' BY DEF Unused
  <2>3. Owned(i)' BY <1>1, <1>5 DEF Row, Owned, Live, TaskLive
  <2>4. Promise(i)' BY <1>1, <1>4, <1>6, <1>7, SMTT(30) DEF Row, Promise, Broken, Live
  <2> QED BY <2>1, <2>2, <2>3, <2>4 DEF Row
<1>9. Kept(i) BY <1>2, <1>5, <1>7, KeptSimply DEF Broken
<1> QED BY <1>2, <1>3, <1>4, <1>5, <1>6, <1>8, <1>9 DEF FileGoes, Untouched

\* A write that fails removes the file only if nobody names the content.
LEMMA DiscardOK ==
  ASSUME IInv, NEW w \in Workers, NEW i \in Ids, job[w].id = i, Discard(w)
  PROVE  IInv'
<1>1. TypeOK /\ faults \in Nat /\ Row(i) /\ content[i].row # "none"
  BY AtWork DEF Discard, At
<1>2. Done(w) \/ Goto(w, "release") BY DEF Discard
<1>3. /\ job' \in [Workers -> Job] /\ job'[w].pc \in {"idle", "release"}
      /\ job'[w].pc # "idle" => job'[w].id = i
      /\ \A v \in Workers \ {w} : job'[v] = job[v]
  BY <1>1, <1>2, DoneFacts, GotoFacts DEF Pcs
<1>4. access' = access BY DEF Discard, Guarded
<1>5. Others(w) BY <1>3, <1>4 DEF Others, Same
<1>6. CASE UNCHANGED <<content, disk, owed>> /\ (Works \/ UNCHANGED faults)
  <2>1. faults' = faults BY <1>6 DEF Works
  <2>2. TypeOK' BY <1>1, <1>3, <1>4, <1>6, <2>1, AccessStays DEF TypeOK, Discard
  <2>3. Moved(w) BY <1>1, <1>3, <1>6, PlainMove
  <2>f. UNCHANGED <<content, disk, entry, remote, evict, owed>> /\ (Works \/ Fails)
    BY <1>1, <1>5, <1>6, <2>1, <2>2, <2>3 DEF Discard, Works
  <2> QED BY <1>1, <1>5, <1>6, <2>1, <2>2, <2>3, <2>f, Quiet
<1>7. CASE /\ Guarded(w, i) /\ Orphaned(i) /\ Works /\ Done(w)
           /\ SetFile(i, "absent") /\ content' = [content EXCEPT ![i].row = "gone"]
           /\ owed' = [owed EXCEPT ![i] = FALSE]
  <2> DEFINE c == [content[i] EXCEPT !.row = "gone"]
  <2>1. content[i] \in Content BY <1>1 DEF TypeOK
  <2>2. c \in Content /\ c.row = "gone" /\ c.versions = content[i].versions
    BY <2>1 DEF Content
  <2>3. content' = [content EXCEPT ![i] = c] BY <1>7
  <2> HIDE DEF c
  <2>4. content' \in [Ids -> Content] /\ content'[i] = c
        /\ \A k \in Ids \ {i} : content'[k] = content[k]
    BY <1>1, <2>2, <2>3 DEF TypeOK
  <2>5. /\ disk' \in [Ids -> Disk] /\ disk'[i].file = "absent" /\ disk'[i].aside = disk[i].aside
        /\ \A k \in Ids \ {i} : disk'[k] = disk[k]
    BY <1>1, <1>7, FileFacts
  <2>6. owed' \in [Ids -> BOOLEAN] /\ ~owed'[i] /\ \A k \in Ids \ {i} : owed'[k] = owed[k]
    BY <1>1, <1>7 DEF TypeOK
  <2>7. faults' = faults BY <1>7 DEF Works
  <2>8. TypeOK' BY <1>1, <1>3, <1>4, <2>4, <2>5, <2>6, <2>7, AccessStays DEF TypeOK, Discard
  <2>9. \A k \in Ids \ {i} : Untouched(k) BY <2>4, <2>5, <2>6 DEF Untouched, Discard
  <2>10. ~Referenced(i) /\ ~Referenced(i)' /\ ~entry[i].known /\ ~Live(i)'
    BY <1>7, <2>2, <2>4 DEF Orphaned, Referenced, Live
  <2>11. Row(i)'
    <3>1. Bytes(i)' BY <1>1, <2>10 DEF Row, Bytes, Discard
    <3>2. Unused(i)' BY <2>2, <2>4 DEF Unused
    <3>3. Owned(i)' BY <1>1, <2>10 DEF Row, Owned, Discard
    <3>4. Promise(i)' BY <2>6, <2>10 DEF Promise, Broken
    <3> QED BY <3>1, <3>2, <3>3, <3>4 DEF Row
  <2>12. \A v \in Workers : Permit(i, "read") \notin access[v] BY <1>1, <1>7, GuardFacts
  <2>13. Kept(i) BY <2>2, <2>4, <2>10, <2>12, KeptSimply DEF Broken, Discard
  <2>14. Moved(w) BY <1>1, <1>7, DoneFacts, PlainMove
  <2> QED BY <1>1, <1>5, <2>7, <2>8, <2>9, <2>11, <2>13, <2>14, Step
<1>8. CASE /\ Guarded(w, i) /\ Orphaned(i) /\ Fails
           /\ SetFile(i, "absent") /\ UNCHANGED <<content, owed>>
  <2>1. ~Referenced(i) BY <1>8 DEF Orphaned
  <2>2. FileGoes(i) BY <1>1, <1>8, <2>1, UnnamedFileGoes DEF Discard
  <2>3. TypeOK' BY <1>1, <1>3, <1>4, <1>8, <2>2, AccessStays DEF TypeOK, Discard, FileGoes
  <2>4. Moved(w) BY <1>1, <1>3, <1>8, PlainMove
  <2> QED BY <1>5, <2>2, <2>3, <2>4, Step DEF FileGoes
<1> QED BY <1>6, <1>7, <1>8 DEF Discard

\* A write that ends gives its permit back.
LEMMA ReleaseFileOK ==
  ASSUME IInv, NEW w \in Workers, NEW i \in Ids, job[w].id = i, ReleaseFile(w)
  PROVE  IInv'
<1>1. TypeOK /\ faults \in Nat /\ Row(i) /\ content[i].row # "none"
  BY AtWork DEF ReleaseFile, At
<1>2. /\ job' \in [Workers -> Job] /\ job'[w].pc = "idle"
      /\ \A v \in Workers \ {w} : job'[v] = job[v]
  BY <1>1, DoneFacts DEF ReleaseFile
<1>3. access' = access BY DEF ReleaseFile, Guarded
<1>4. Others(w) /\ Moved(w) BY <1>2, <1>3, PlainMove DEF Others, Same
<1>5. CASE UNCHANGED <<disk, entry, owed, faults>>
  <2>1. TypeOK' BY <1>1, <1>2, <1>3, <1>5, AccessStays DEF TypeOK, ReleaseFile
  <2>f. UNCHANGED <<content, disk, entry, remote, evict, owed>> /\ (Works \/ Fails)
    BY <1>1, <1>4, <1>5, <2>1, Zenon DEF ReleaseFile, Works
  <2> QED BY <1>1, <1>4, <1>5, <2>1, <2>f, Quiet
<1>6. CASE /\ Guarded(w, i) /\ Unreferenced(i)
           /\ \/ Works /\ Released(i)
              \/ Fails /\ SetFile(i, "absent") /\ UNCHANGED <<entry, owed>>
  <2>1. ~Referenced(i) BY <1>1, <1>6, Zenon DEF Unreferenced, Row, Bytes
  <2>2. FileGoes(i) BY <1>1, <1>6, <2>1, UnnamedFileGoes DEF ReleaseFile
  <2>3. TypeOK' BY <1>1, <1>2, <1>3, <2>2, AccessStays DEF TypeOK, ReleaseFile, FileGoes
  <2> QED BY <1>4, <2>2, <2>3, Step DEF FileGoes
<1> QED BY <1>5, <1>6 DEF ReleaseFile, Works

\* The last version takes the need for the bytes with it.
LEMMA DeleteVersionOK ==
  ASSUME IInv, NEW w \in Workers, NEW i \in Ids, DeleteVersion(w, i)
  PROVE  IInv'
<1>1. TypeOK /\ faults \in Nat /\ Row(i) /\ Live(i) /\ Referenced(i)
  BY Basics DEF DeleteVersion
<1>2. content[i] \in Content /\ remote[i] \in Remote BY <1>1 DEF TypeOK
<1> DEFINE last == content[i].versions = 1
           c == [content[i] EXCEPT !.versions = content[i].versions - 1,
                                   !.cleaning = content[i].cleaning \/ last]
           r == [remote[i] EXCEPT !.needed = remote[i].needed /\ ~last]
<1>3. content[i].versions \in 1 .. MaxVersions /\ content[i].versions - 1 \in 0 .. MaxVersions
  BY <1>1, <1>2, ContentAssumption DEF Content, Referenced
<1>4. /\ c \in Content /\ c.row = content[i].row /\ c.versions = content[i].versions - 1
      /\ c.cleaning = (content[i].cleaning \/ last)
  BY <1>2, <1>3, Zenon DEF Content
<1>5. r \in Remote /\ r.durable = remote[i].durable /\ r.needed = (remote[i].needed /\ ~last)
  BY <1>2, Zenon DEF Remote
<1>6. content' = [content EXCEPT ![i] = c] /\ remote' = [remote EXCEPT ![i] = r]
  BY Zenon DEF DeleteVersion
<1> HIDE DEF c, r
<1>7. /\ content' \in [Ids -> Content] /\ content'[i] = c
      /\ \A k \in Ids \ {i} : content'[k] = content[k]
      /\ remote' \in [Ids -> Remote] /\ remote'[i] = r
      /\ \A k \in Ids \ {i} : remote'[k] = remote[k]
  BY <1>1, <1>4, <1>5, <1>6 DEF TypeOK
<1>8. /\ job' \in [Workers -> Job] /\ job'[w].pc \in {"idle", "release"}
      /\ job'[w].pc # "idle" => job'[w].id = i
      /\ \A v \in Workers \ {w} : job'[v] = job[v]
  <2>1. Begin(w, "release", i) \/ UNCHANGED job BY DEF DeleteVersion
  <2>2. CASE Begin(w, "release", i) BY <1>1, <2>2, BeginFacts DEF Pcs
  <2>3. CASE UNCHANGED job BY <1>1, <2>3 DEF DeleteVersion, At, TypeOK
  <2> QED BY <2>1, <2>2, <2>3
<1>9. faults' \in 0 .. MaxFaults /\ faults' >= faults /\ faults' \in Nat
  <2>1. Works \/ Fails BY DEF DeleteVersion
  <2> QED BY <1>1, <2>1, FaultFacts
<1>10. TypeOK' BY <1>1, <1>7, <1>8, <1>9, AccessStays DEF TypeOK, DeleteVersion
<1>11. Others(w) BY <1>8 DEF Others, Same, DeleteVersion
<1>12. Moved(w) BY <1>1, <1>4, <1>7, <1>8, PlainMove DEF Live
<1>13. \A k \in Ids \ {i} : Untouched(k) BY <1>7 DEF Untouched, DeleteVersion
<1>14. Live(i)' BY <1>1, <1>4, <1>7 DEF Live
<1>15. Referenced(i)' <=> ~last BY <1>3, <1>4, <1>7 DEF Referenced
<1>16. Row(i)'
  <2>1. Bytes(i)'
    BY <1>1, <1>4, <1>5, <1>7, <1>14, <1>15, Zenon DEF Row, Bytes, DeleteVersion
  <2>2. Unused(i)' BY <1>14 DEF Unused, Live
  <2>3. Owned(i)' BY <1>1, <1>14 DEF Row, Owned, TaskLive, DeleteVersion
  <2>4. Promise(i)' BY <1>1, <1>9 DEF Row, Promise, Broken, DeleteVersion
  <2> QED BY <2>1, <2>2, <2>3, <2>4 DEF Row
<1>17. Kept(i) BY <1>1, <1>4, <1>7, KeptSimply DEF DeleteVersion, Broken
<1> QED BY <1>9, <1>10, <1>11, <1>12, <1>13, <1>16, <1>17, Step

-----------------------------------------------------------------------------
(* Reads *)

\* A step that touches no content and leaves its goroutine in the middle of
\* nothing.
LEMMA PlainStep ==
  ASSUME IInv, NEW w \in Workers,
         UNCHANGED <<content, disk, entry, remote, evict, owed, crashes>>,
         scanned' \subseteq scanned, Works \/ Fails,
         Lock!AccessTypeOK', \A v \in Workers \ {w} : access'[v] = access[v],
         job' \in [Workers -> Job], \A v \in Workers \ {w} : job'[v] = job[v],
         job'[w].pc \notin {"evict", "settle", "name", "fill", "record", "restore"},
         job'[w].pc # "idle" => job'[w].id \in Ids /\ content[job'[w].id].row # "none"
  PROVE  IInv'
<1>0. TypeOK /\ faults' \in 0 .. MaxFaults /\ scanned' \subseteq Ids BY Basics, FaultFacts
<1>1. TypeOK' BY <1>0 DEF TypeOK
<1>2. Moved(w) BY PlainMove
<1>3. Others(w) BY DEF Others, Same
<1> QED BY <1>1, <1>2, <1>3, Quiet

\* A read begins at a content some version names.
LEMMA OpenVersionOK ==
  ASSUME IInv, NEW w \in Workers, NEW i \in Ids, NEW copy \in BOOLEAN, OpenVersion(w, i, copy)
  PROVE  IInv'
<1>1. TypeOK /\ entry[i] \in Entry /\ i \in 0 .. MaxContents
  <2>1. TypeOK BY Zenon DEF IInv
  <2>2. entry[i] \in Entry BY <2>1, Zenon DEF TypeOK
  <2>3. i \in 0 .. MaxContents BY ContentAssumption, SMTT(30) DEF Ids
  <2> QED BY <2>1, <2>2, <2>3, Zenon
<1>0. PICK flag \in BOOLEAN : flag = entry[i].present BY <1>1 DEF Entry
<1> DEFINE x == [Idle EXCEPT !.pc = "open", !.id = i, !.copy = copy, !.flag = flag]
<1>2. x \in Job /\ x.pc = "open" /\ x.id = i BY <1>1, IdleJob, Zenon DEF Job, Idle, Pcs
<1>3. job' = [job EXCEPT ![w] = x] BY <1>0 DEF OpenVersion
<1> HIDE DEF x
<1>4. job' \in [Workers -> Job] /\ job'[w] = x /\ \A v \in Workers \ {w} : job'[v] = job[v]
  BY <1>1, <1>2, <1>3 DEF TypeOK
<1>5. faults' \in 0 .. MaxFaults /\ faults' >= faults /\ scanned' \subseteq Ids
  BY <1>1 DEF TypeOK, OpenVersion
<1>6. content[i].row # "none" BY DEF OpenVersion, Live
<1>f. /\ UNCHANGED <<content, disk, entry, remote, evict, owed, crashes>>
      /\ scanned' \subseteq scanned /\ (Works \/ Fails) /\ access' = access
  BY <1>1, <1>2, <1>4, <1>5, <1>6 DEF OpenVersion, Works
<1> QED BY <1>1, <1>2, <1>4, <1>5, <1>6, AccessStays, <1>f, PlainStep

\* The presence of a file that is there is recorded, or owed.
LEMMA RecordCommitOK ==
  ASSUME IInv, NEW i \in Ids, RecordCommit(i), disk[i].file # "absent",
         content[i].row # "none", UNCHANGED <<content, disk, remote, evict>>
  PROVE  /\ entry' \in [Ids -> Entry] /\ owed' \in [Ids -> BOOLEAN]
         /\ faults' \in 0 .. MaxFaults /\ faults' >= faults
         /\ \A k \in Ids \ {i} : Untouched(k)
         /\ Row(i)' /\ Kept(i)
<1>1. TypeOK /\ Row(i) /\ entry[i] \in Entry BY Basics
<1>2. Works \/ Fails BY DEF RecordCommit
<1>3. faults' \in 0 .. MaxFaults /\ faults' >= faults /\ faults \in Nat /\ faults' \in Nat
  BY <1>1, <1>2, FaultFacts
<1>4. /\ entry' \in [Ids -> Entry] /\ \A k \in Ids \ {i} : entry'[k] = entry[k]
      /\ entry'[i].op = entry[i].op /\ entry'[i].owner = entry[i].owner
      /\ entry[i].known => entry'[i].known
      /\ entry'[i].known => Live(i)
      /\ entry'[i].present => entry'[i].known
  <2>1. CASE Live(i) /\ entry' = [entry EXCEPT ![i] = Present(entry[i])]
    BY <1>1, <2>1, PresentFacts DEF TypeOK
  <2>2. CASE entry' = entry BY <1>1, <2>2 DEF TypeOK, Row, Owned
  <2> QED BY <2>1, <2>2 DEF RecordCommit
<1>5. /\ owed' \in [Ids -> BOOLEAN] /\ \A k \in Ids \ {i} : owed'[k] = owed[k]
      /\ owed'[i] /\ Live(i) => faults' >= 1
  <2>1. CASE owed' = [owed EXCEPT ![i] = FALSE] BY <1>1, <2>1 DEF TypeOK
  <2>2. CASE owed' = [owed EXCEPT ![i] = TRUE] /\ (Live(i) => Fails)
    <3>1. Fails => faults' >= 1 BY <1>1, <1>3, FailFacts
    <3> QED BY <1>1, <2>2, <3>1 DEF TypeOK
  <2> QED BY <2>1, <2>2 DEF RecordCommit
<1>6. Row(i)'
  <2>1. Bytes(i)' BY <1>1, <1>4 DEF Row, Bytes, Referenced, Live
  <2>2. Unused(i)' BY DEF Unused
  <2>3. Owned(i)' BY <1>1, <1>4 DEF Row, Owned, Live, TaskLive
  <2>4. Promise(i)' BY <1>5 DEF Promise, Broken, Live
  <2> QED BY <2>1, <2>2, <2>3, <2>4 DEF Row
<1>7. Kept(i) BY <1>4, KeptSimply DEF Broken
<1> QED BY <1>3, <1>4, <1>5, <1>6, <1>7 DEF Untouched

\* A read opens the file under a read permit, or finds none and misses.
LEMMA OpenCachedOK ==
  ASSUME IInv, NEW w \in Workers, NEW i \in Ids, job[w].id = i, OpenCached(w)
  PROVE  IInv'
<1>1. TypeOK /\ faults \in Nat /\ content[i].row # "none"
  BY AtWork DEF OpenCached, At
<1>2. CASE disk[i].file # "absent" /\ HoldRead(w, i) /\ Goto(w, "reading")
  <2>1. /\ Lock!AccessTypeOK' /\ \A v \in Workers \ {w} : access'[v] = access[v]
    BY <1>1, <1>2, HoldFacts
  <2>2. /\ job' \in [Workers -> Job] /\ job'[w].pc = "reading" /\ job'[w].id = i
        /\ \A v \in Workers \ {w} : job'[v] = job[v]
    BY <1>1, <1>2, GotoFacts DEF Pcs
  <2>3. CASE Works /\ UNCHANGED <<entry, owed>>
    <3>1. faults' \in 0 .. MaxFaults /\ faults' >= faults BY <1>1, <2>3, FaultFacts
    <3>f. /\ UNCHANGED <<content, disk, entry, remote, evict, owed, crashes>>
          /\ scanned' \subseteq scanned /\ (Works \/ Fails)
      BY <1>1, <2>1, <2>2, <2>3, <3>1, Zenon DEF OpenCached, Works
    <3> QED BY <1>1, <2>1, <2>2, <2>3, <3>1, <3>f, PlainStep
  <2>4. CASE RecordCommit(i)
    <3>1. /\ entry' \in [Ids -> Entry] /\ owed' \in [Ids -> BOOLEAN]
          /\ faults' \in 0 .. MaxFaults /\ faults' >= faults
          /\ \A k \in Ids \ {i} : Untouched(k)
          /\ Row(i)' /\ Kept(i)
      BY <1>1, <1>2, <2>4, RecordCommitOK DEF OpenCached
    <3>2. TypeOK' BY <1>1, <2>1, <2>2, <3>1 DEF TypeOK, OpenCached
    <3>3. Others(w) BY <2>1, <2>2 DEF Others, Same
    <3>4. Moved(w) BY <1>1, <2>2, PlainMove DEF OpenCached
    <3> QED BY <3>1, <3>2, <3>3, <3>4, Step
  <2> QED BY <1>2, <2>3, <2>4 DEF OpenCached, Lock!AccessEnter, HoldRead
<1>3. CASE Goto(w, "miss") /\ Works /\ UNCHANGED <<entry, owed, access>>
  <2>1. /\ job' \in [Workers -> Job] /\ job'[w].pc = "miss" /\ job'[w].id = i
        /\ \A v \in Workers \ {w} : job'[v] = job[v]
    BY <1>1, <1>3, GotoFacts DEF Pcs
  <2>2. faults' \in 0 .. MaxFaults /\ faults' >= faults BY <1>1, <1>3, FaultFacts
  <2>f. /\ UNCHANGED <<content, disk, entry, remote, evict, owed, crashes>>
        /\ scanned' \subseteq scanned /\ (Works \/ Fails) /\ access' = access
    BY <1>1, <1>3, <2>1, <2>2 DEF OpenCached, Works
  <2> QED BY <1>1, <1>3, <2>1, <2>2, AccessStays, <2>f, PlainStep
<1> QED BY <1>2, <1>3 DEF OpenCached

\* A body that is closed gives its permit back.
LEMMA CloseBodyOK ==
  ASSUME IInv, NEW w \in Workers, NEW i \in Ids, job[w].id = i, CloseBody(w)
  PROVE  IInv'
<1>1. TypeOK /\ faults \in Nat /\ content[i].row # "none"
  BY AtWork DEF CloseBody, At
<1>2. /\ Lock!AccessTypeOK' /\ \A v \in Workers \ {w} : access'[v] = access[v]
  BY <1>1, ReleaseFacts DEF CloseBody
<1>3. Done(w) \/ Goto(w, "ensure") BY DEF CloseBody
<1>4. /\ job' \in [Workers -> Job] /\ job'[w].pc \in {"idle", "ensure"}
      /\ job'[w].pc # "idle" => job'[w].id = i
      /\ \A v \in Workers \ {w} : job'[v] = job[v]
  BY <1>1, <1>3, DoneFacts, GotoFacts DEF Pcs
<1>f. /\ UNCHANGED <<content, disk, entry, remote, evict, owed, crashes>>
      /\ scanned' \subseteq scanned /\ (Works \/ Fails)
  BY <1>1, <1>2, <1>4 DEF CloseBody, Works
<1> QED BY <1>1, <1>2, <1>4, <1>f, PlainStep

\* A miss is recorded once the file is known to be gone.
LEMMA ReconcileMissOK ==
  ASSUME IInv, NEW w \in Workers, NEW i \in Ids, job[w].id = i, ReconcileMiss(w)
  PROVE  IInv'
<1>1. TypeOK /\ faults \in Nat /\ Row(i) /\ content[i].row # "none"
  BY AtWork DEF ReconcileMiss, At
<1>2. /\ job' \in [Workers -> Job] /\ job'[w].pc = "fetch" /\ job'[w].id = i
      /\ \A v \in Workers \ {w} : job'[v] = job[v]
  BY <1>1, GotoFacts DEF ReconcileMiss, Pcs
<1>3. Works \/ Fails BY DEF ReconcileMiss
<1>4. faults' \in 0 .. MaxFaults /\ faults' >= faults /\ faults' \in Nat
  BY <1>1, <1>3, FaultFacts
<1>5. access' = access BY DEF ReconcileMiss, Guarded
<1>6. CASE entry' = [entry EXCEPT ![i].present = FALSE]
  <2> DEFINE e == [entry[i] EXCEPT !.present = FALSE]
  <2>1. entry[i] \in Entry BY <1>1 DEF TypeOK
  <2>2. /\ e \in Entry /\ e.known = entry[i].known /\ ~e.present
        /\ e.op = entry[i].op /\ e.owner = entry[i].owner
    BY <2>1, Zenon DEF Entry
  <2>3. entry' = [entry EXCEPT ![i] = e] BY <1>6
  <2> HIDE DEF e
  <2>4. entry' \in [Ids -> Entry] /\ entry'[i] = e /\ \A k \in Ids \ {i} : entry'[k] = entry[k]
    BY <1>1, <2>2, <2>3 DEF TypeOK
  <2>5. TypeOK' BY <1>1, <1>2, <1>4, <1>5, <2>4, AccessStays DEF TypeOK, ReconcileMiss
  <2>6. Others(w) BY <1>2, <1>5 DEF Others, Same
  <2>7. Moved(w) BY <1>1, <1>2, PlainMove DEF ReconcileMiss
  <2>8. \A k \in Ids \ {i} : Untouched(k) BY <2>4 DEF Untouched, ReconcileMiss
  <2>9. Row(i)'
    <3>1. Bytes(i)' BY <1>1, <2>2, <2>4 DEF Row, Bytes, ReconcileMiss, Referenced, Live
    <3>2. Unused(i)' BY <1>1 DEF Unused, ReconcileMiss
    <3>3. Owned(i)' BY <1>1, <2>2, <2>4 DEF Row, Owned, ReconcileMiss, Live, TaskLive
    <3>4. Promise(i)' BY <1>1, <1>4, <2>2, <2>4 DEF Row, Promise, Broken, ReconcileMiss, Live
    <3> QED BY <3>1, <3>2, <3>3, <3>4 DEF Row
  <2>10. Kept(i) BY <1>1, <2>2, <2>4, KeptSimply DEF Broken, ReconcileMiss
  <2> QED BY <1>1, <1>4, <2>5, <2>6, <2>7, <2>8, <2>9, <2>10, Step
<1>7. CASE entry' = entry
  <2>f. /\ UNCHANGED <<content, disk, entry, remote, evict, owed, crashes>>
        /\ scanned' \subseteq scanned /\ (Works \/ Fails) /\ access' = access
    BY <1>1, <1>2, <1>4, <1>5, <1>7 DEF ReconcileMiss, Works
  <2> QED BY <1>1, <1>2, <1>4, <1>5, <1>7, AccessStays, <2>f, PlainStep, Zenon
<1> QED BY <1>6, <1>7 DEF ReconcileMiss

\* A download touches no row and no file.
LEMMA DownloadOK ==
  ASSUME IInv, NEW w \in Workers, NEW i \in Ids, job[w].id = i, Download(w)
  PROVE  IInv'
<1>1. TypeOK /\ faults \in Nat /\ content[i].row # "none"
  BY AtWork DEF Download, At
<1>2. Done(w) \/ Goto(w, "ensure") \/ Goto(w, "rehydrate") BY DEF Download
<1>3. /\ job' \in [Workers -> Job] /\ job'[w].pc \in {"idle", "ensure", "rehydrate"}
      /\ job'[w].pc # "idle" => job'[w].id = i
      /\ \A v \in Workers \ {w} : job'[v] = job[v]
  BY <1>1, <1>2, DoneFacts, GotoFacts DEF Pcs
<1>f. /\ UNCHANGED <<content, disk, entry, remote, evict, owed, crashes>>
      /\ scanned' \subseteq scanned /\ (Works \/ Fails) /\ access' = access
  BY <1>1, <1>3 DEF Download, Works
<1> QED BY <1>1, <1>3, AccessStays, <1>f, PlainStep, Zenon

\* A fill takes the permit it keeps until the row says that the file is there.
LEMMA RehydrateOK ==
  ASSUME IInv, NEW w \in Workers, NEW i \in Ids, job[w].id = i, Rehydrate(w)
  PROVE  IInv'
<1>1. TypeOK /\ faults \in Nat /\ content[i].row # "none"
  BY AtWork DEF Rehydrate, At
<1>2. CASE HoldRead(w, i) /\ Goto(w, "fill")
  <2>1. /\ Lock!AccessTypeOK' /\ access'[w] = {Permit(i, "read")}
        /\ \A v \in Workers \ {w} : access'[v] = access[v]
    BY <1>1, <1>2, HoldFacts
  <2>2. /\ job' \in [Workers -> Job] /\ job'[w].pc = "fill" /\ job'[w].id = i
        /\ \A v \in Workers \ {w} : job'[v] = job[v]
    BY <1>1, <1>2, GotoFacts DEF Pcs
  <2>3. TypeOK' BY <1>1, <2>1, <2>2, Zenon DEF TypeOK, Rehydrate
  <2>4. Others(w) BY <2>1, <2>2 DEF Others, Same
  <2>5. Moved(w)
    <3>1. content'[i].row # "none" BY <1>1, Zenon DEF Rehydrate
    <3> QED BY <2>1, <2>2, <3>1, SMTT(30) DEF Moved, Holding, Handling, Claims, Evicting, Permit
  <2>f. UNCHANGED <<content, disk, entry, remote, evict, owed>> /\ (Works \/ Fails)
    BY <1>1, <2>3, <2>4, <2>5, Zenon DEF Rehydrate, Works
  <2> QED BY <1>1, <2>3, <2>4, <2>5, <2>f, Quiet
<1>3. CASE Done(w) /\ UNCHANGED access
  <2>1. /\ job' \in [Workers -> Job] /\ job'[w].pc = "idle"
        /\ \A v \in Workers \ {w} : job'[v] = job[v]
    BY <1>1, <1>3, DoneFacts
  <2>f. /\ UNCHANGED <<content, disk, entry, remote, evict, owed, crashes>>
        /\ scanned' \subseteq scanned /\ (Works \/ Fails) /\ access' = access
    BY <1>1, <1>3, <2>1, Zenon DEF Rehydrate, Works
  <2> QED BY <1>1, <1>3, <2>1, AccessStays, <2>f, PlainStep, Zenon
<1> QED BY <1>2, <1>3 DEF Rehydrate

\* A fill writes the file and nothing else.
LEMMA FillOK ==
  ASSUME IInv, NEW w \in Workers, NEW i \in Ids, job[w].id = i, Fill(w)
  PROVE  IInv'
<1>1. /\ TypeOK /\ faults \in Nat /\ Row(i) /\ content[i].row # "none"
      /\ Permit(i, "read") \in access[w]
  BY AtWork DEF Fill, At
<1>2. faults' = faults BY DEF Fill, Works
<1>3. CASE SetFile(i, "good") /\ Goto(w, "record") /\ UNCHANGED access
  <2>1. /\ disk' \in [Ids -> Disk] /\ disk'[i].file = "good" /\ disk'[i].aside = disk[i].aside
        /\ \A k \in Ids \ {i} : disk'[k] = disk[k]
    BY <1>1, <1>3, FileFacts
  <2>2. /\ job' \in [Workers -> Job] /\ job'[w].pc = "record" /\ job'[w].id = i
        /\ \A v \in Workers \ {w} : job'[v] = job[v]
    BY <1>1, <1>3, GotoFacts DEF Pcs
  <2>3. TypeOK' BY <1>1, <1>2, <1>3, <2>1, <2>2, AccessStays, Zenon DEF TypeOK, Fill
  <2>4. Others(w) BY <1>3, <2>2 DEF Others, Same
  <2>5. Moved(w)
    <3>1. content'[i].row # "none" BY <1>1 DEF Fill
    <3> QED BY <1>1, <1>3, <2>1, <2>2, <3>1, Zenon
      DEF Moved, Holding, Handling, Claims, Evicting, Permit
  <2>6. \A k \in Ids \ {i} : Untouched(k) BY <2>1 DEF Untouched, Fill
  <2>7. Row(i)'
    <3>1. Bytes(i)' BY <1>1, <2>1, Zenon DEF Row, Bytes, Fill, Referenced, Live
    <3>2. Unused(i)' BY <1>1, Zenon DEF Unused, Fill
    <3>3. Owned(i)' BY <1>1, Zenon DEF Row, Owned, Fill, Live, TaskLive
    <3>4. Promise(i)' BY <1>1, <1>2, <2>1, Zenon DEF Row, Promise, Broken, Fill, Live
    <3> QED BY <3>1, <3>2, <3>3, <3>4 DEF Row
  <2>8. Kept(i) BY <2>1, KeptSimply, Zenon DEF Fill, Broken
  <2> QED BY <1>1, <1>2, <2>3, <2>4, <2>5, <2>6, <2>7, <2>8, Step
<1>4. CASE Release(w) /\ Done(w) /\ UNCHANGED disk
  <2>1. /\ Lock!AccessTypeOK' /\ \A v \in Workers \ {w} : access'[v] = access[v]
    BY <1>1, <1>4, ReleaseFacts, Zenon
  <2>2. /\ job' \in [Workers -> Job] /\ job'[w].pc = "idle"
        /\ \A v \in Workers \ {w} : job'[v] = job[v]
    BY <1>1, <1>4, DoneFacts
  <2>f. /\ UNCHANGED <<content, disk, entry, remote, evict, owed, crashes>>
        /\ scanned' \subseteq scanned /\ (Works \/ Fails)
    BY <1>1, <1>2, <1>4, <2>1, <2>2 DEF Fill, Works
  <2> QED BY <1>1, <1>2, <1>4, <2>1, <2>2, <2>f, PlainStep, Zenon
<1> QED BY <1>3, <1>4 DEF Fill

\* A fill records the file it still holds.
LEMMA RecordFillOK ==
  ASSUME IInv, NEW w \in Workers, NEW i \in Ids, job[w].id = i, RecordFill(w)
  PROVE  IInv'
<1>1. TypeOK /\ content[i].row # "none" /\ disk[i].file # "absent"
  BY AtWork DEF RecordFill, At
<1>2. /\ Lock!AccessTypeOK' /\ \A v \in Workers \ {w} : access'[v] = access[v]
  BY <1>1, ReleaseFacts DEF RecordFill
<1>3. /\ job' \in [Workers -> Job] /\ job'[w].pc = "idle"
      /\ \A v \in Workers \ {w} : job'[v] = job[v]
  BY <1>1, DoneFacts DEF RecordFill
<1>4. /\ entry' \in [Ids -> Entry] /\ owed' \in [Ids -> BOOLEAN]
      /\ faults' \in 0 .. MaxFaults /\ faults' >= faults
      /\ \A k \in Ids \ {i} : Untouched(k)
      /\ Row(i)' /\ Kept(i)
  BY <1>1, RecordCommitOK DEF RecordFill
<1>5. TypeOK' BY <1>1, <1>2, <1>3, <1>4, Zenon DEF TypeOK, RecordFill
<1>6. Others(w) BY <1>2, <1>3 DEF Others, Same
<1>7. Moved(w) BY <1>3, PlainMove
<1> QED BY <1>4, <1>5, <1>6, <1>7, Step

\* The tracker pays what it owes: the presence of a file it saw.
LEMMA SweepAccessOK ==
  ASSUME IInv, NEW i \in Ids, SweepAccess(i)
  PROVE  IInv'
<1>1. TypeOK /\ faults \in Nat /\ Row(i) /\ Live(i) /\ owed[i] /\ entry[i] \in Entry
  BY Basics DEF SweepAccess
<1>2. /\ entry' \in [Ids -> Entry] /\ \A k \in Ids \ {i} : entry'[k] = entry[k]
      /\ entry'[i].known /\ entry'[i].op = entry[i].op /\ entry'[i].owner = entry[i].owner
  BY <1>1, PresentFacts DEF SweepAccess, TypeOK
<1>3. owed' \in [Ids -> BOOLEAN] /\ ~owed'[i] /\ \A k \in Ids \ {i} : owed'[k] = owed[k]
  BY <1>1 DEF SweepAccess, TypeOK
<1>4. TypeOK' BY <1>1, <1>2, <1>3, AccessStays, Zenon DEF TypeOK, SweepAccess
<1>5. \A k \in Ids \ {i} : Untouched(k) BY <1>2, <1>3 DEF Untouched, SweepAccess
<1>6. faults < 2 => disk[i].file # "absent" BY <1>1 DEF Row, Promise
<1>7. Row(i)'
  <2>1. Bytes(i)' BY <1>1, <1>2, Zenon DEF Row, Bytes, SweepAccess, Referenced, Live
  <2>2. Unused(i)' BY <1>1, Zenon DEF Unused, SweepAccess, Live
  <2>3. Owned(i)' BY <1>1, <1>2 DEF Row, Owned, SweepAccess, Live, TaskLive
  <2>4. Promise(i)' BY <1>3, <1>6 DEF Promise, Broken, SweepAccess
  <2> QED BY <2>1, <2>2, <2>3, <2>4 DEF Row
<1>8. Kept(i) BY <1>2, <1>6, KeptSimply, Zenon DEF SweepAccess, Broken
<1>f. job' = job /\ access' = access /\ (Works \/ Fails)
  BY Zenon DEF SweepAccess, Works
<1> QED BY <1>1, <1>4, <1>5, <1>7, <1>8, <1>f, WorldStep, Zenon
=============================================================================
