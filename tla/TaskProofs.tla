----------------------------- MODULE TaskProofs -----------------------------
(***************************************************************************)
(* Proofs about TaskEngine, for every number of tasks, claims, attempts,   *)
(* operation keys and operators, and about WalletOperation, for every      *)
(* limit on attempts and every number of transactions, faults and crashes. *)
(*                                                                         *)
(* That a payment is made once rests on the evidence.  The checkpoint is   *)
(* written, with broadcast_attempted_at, before the SDK is asked to sign,  *)
(* and only a task without a checkpoint asks; the operator's Retry drops   *)
(* the checkpoint of a broadcast known to be unsent and of no other.  So a *)
(* transaction that was signed keeps its checkpoint for good, and is the   *)
(* only one.                                                               *)
(***************************************************************************)
EXTENDS TaskEngine, WalletOperation, FiniteSetTheorems, TLAPS

\* A freshly inserted row is well typed.
LEMMA NewRowType ==
    ASSUME NEW i \in Idents, NEW m \in Modes, NEW c \in BOOLEAN,
           NEW p \in 0 .. MaxTasks
    PROVE  NewRow(i, m, c, p) \in Row
BY BoundsAssumption DEF NewRow, Row, Modes, Statuses, Terminal

LEMMA NoAdmission == 0 \in 0 .. MaxAttempts
BY BoundsAssumption

\* Writing one row changes that row and no other.
LEMMA SetRowEffect ==
    ASSUME tasks \in [Ids -> Row], NEW t \in Ids, NEW rw \in Row, SetRow(t, rw)
    PROVE  /\ tasks' \in [Ids -> Row]
           /\ tasks'[t] = rw
           /\ \A u \in Ids \ {t} : tasks'[u] = tasks[u]
BY DEF SetRow

\* Starting, changing or ending one invocation leaves the others alone.
LEMMA SetExecEffect ==
    ASSUME exec \in [Slots -> Invocation \cup {Nil}], NEW w \in Slots,
           NEW iv \in Invocation \cup {Nil}, SetExec(w, iv)
    PROVE  /\ exec' \in [Slots -> Invocation \cup {Nil}]
           /\ exec'[w] = iv
           /\ \A v \in Slots \ {w} : exec'[v] = exec[v]
BY DEF SetExec

\* A slot works for one task and alone: a step of slot w about task t leaves
\* the invariant of the other rows and of the other slots intact.
LEMMA Frame ==
    ASSUME EngineInv, TypeOK', NEW w \in Slots, NEW t \in Ids,
           \A v \in Slots \ {w} : exec[v] # Nil => exec[v].task # t,
           exec'[w] = Nil \/ exec'[w].task = t,
           RowInv(t)', SlotInv(w)',
           \A v \in Slots \ {w} : exec'[v] = exec[v],
           \A u \in Ids \ {t} :
             /\ tasks'[u] = tasks[u] /\ sent'[u] = sent[u]
             /\ exposed'[u] = exposed[u] /\ applied'[u] = applied[u]
    PROVE  EngineInv'
<1>1. \A u \in Ids : RowInv(u)'
  BY DEF EngineInv, RowInv
<1>2. ASSUME NEW v \in Slots \ {w}, exec'[v] # Nil PROVE SlotInv(v)'
  <2>1. /\ exec[v] # Nil /\ exec'[v] = exec[v] /\ SlotInv(v)
        /\ exec[v].task \in Ids \ {t}
    BY <1>2 DEF EngineInv, TypeOK, Invocation
  <2>2. \A x \in Slots \ {v} : exec'[x] # Nil => exec'[x].task # exec[v].task
    BY <2>1, <1>2 DEF SlotInv
  <2> QED
    BY <2>1, <2>2 DEF SlotInv
<1>3. \A v \in Slots : SlotInv(v)'
  BY <1>2 DEF SlotInv
<1> QED
  BY <1>1, <1>3 DEF EngineInv

\* A step that at most ends a lease, turns a row to recover mode or marks it
\* superseded preserves the invariant, whoever is executing the row.
LEMMA RowFrame ==
    ASSUME EngineInv, TypeOK', UNCHANGED <<exec, sent, exposed, applied>>,
           \A t \in Ids :
             /\ tasks'[t].mode \in {"recover", tasks[t].mode}
             /\ tasks'[t].status = tasks[t].status
             /\ tasks'[t].gen = tasks[t].gen /\ tasks'[t].key = tasks[t].key
             /\ tasks'[t].retry = tasks[t].retry
             /\ tasks'[t].admitted = tasks[t].admitted
             /\ tasks'[t].ckpt = tasks[t].ckpt
    PROVE  EngineInv'
<1>1. \A t \in Ids : RowInv(t)'
  BY DEF EngineInv, RowInv
<1>2. ASSUME NEW w \in Slots, exec[w] # Nil PROVE SlotInv(w)'
  <2>1. exec[w].task \in Ids /\ SlotInv(w)
    BY <1>2 DEF EngineInv, TypeOK, Invocation
  <2> QED
    BY <2>1, <1>2 DEF SlotInv
<1>3. \A w \in Slots : SlotInv(w)'
  BY <1>2 DEF SlotInv
<1> QED
  BY <1>1, <1>3 DEF EngineInv

LEMMA InitInv == Init => EngineInv
<1>1. NoRow \in Row
  <2> DEFINE i0 == CHOOSE i \in Idents : TRUE
  <2>1. i0 \in Idents
    BY NamesAssumption
  <2>2. NewRow(i0, "execute", FALSE, 0) \in Row
    <3> HIDE DEF i0
    <3> QED
      BY <2>1, BoundsAssumption DEF NewRow, Row, Modes, Statuses, Terminal
  <2> QED
    BY <2>2 DEF NoRow, Row, Statuses
<1>2. /\ NoRow.status = "absent" /\ NoRow.key = NoKey /\ NoRow.admitted = 0
      /\ NoRow.retry = 0
  BY DEF NoRow, NewRow
<1> QED
  BY <1>1, <1>2 DEF Init, EngineInv, TypeOK, RowInv, SlotInv

LEMMA ClaimNextInv ==
    ASSUME EngineInv, NEW w \in Slots, NEW t \in Ids, ClaimNext(w, t)
    PROVE  EngineInv'
<1> DEFINE rw == [tasks[t] EXCEPT !.status = "running", !.mode = ClaimMode(t),
                                   !.gen = tasks[t].gen + 1, !.live = TRUE]
           iv == [task |-> t, gen |-> tasks[t].gen + 1, mode |-> ClaimMode(t),
                   safe |-> TRUE, phase |-> "handler", key |-> NoKey,
                   admitted |-> FALSE, result |-> NoResult]
<1>1. /\ TypeOK /\ tasks[t] \in Row /\ RowInv(t)
      /\ \A v \in Slots \ {w} : exec[v] # Nil => exec[v].task # t
  BY DEF EngineInv, TypeOK, ClaimNext, ClaimExpired, ClaimPending, Active
<1>2. ClaimMode(t) \in Modes /\ tasks[t].gen + 1 \in 0 .. MaxClaims
  BY <1>1, BoundsAssumption DEF ClaimMode, ClaimNext, Row, Modes
<1>3. rw \in Row
  BY <1>1, <1>2 DEF Row, Statuses
<1>4. iv \in Invocation
  BY <1>2 DEF Invocation, NoResult, Result
<1>5. SetRow(t, rw) /\ SetExec(w, iv)
  BY DEF ClaimNext
<1>6. /\ rw.status = "running" /\ rw.gen = iv.gen /\ rw.mode = ClaimMode(t)
      /\ iv.mode = ClaimMode(t) /\ iv.phase = "handler" /\ iv.task = t
      /\ rw.key = tasks[t].key /\ rw.admitted = tasks[t].admitted
      /\ rw.retry = tasks[t].retry /\ rw.ckpt = tasks[t].ckpt
  BY <1>1 DEF Row
<1> HIDE DEF rw, iv
<1>7. /\ tasks' \in [Ids -> Row] /\ tasks'[t] = rw
      /\ \A u \in Ids \ {t} : tasks'[u] = tasks[u]
  BY <1>1, <1>3, <1>5, SetRowEffect DEF TypeOK
<1>8. /\ exec' \in [Slots -> Invocation \cup {Nil}] /\ exec'[w] = iv
      /\ \A v \in Slots \ {w} : exec'[v] = exec[v]
  BY <1>1, <1>4, <1>5, SetExecEffect DEF TypeOK
<1>9. TypeOK'
  BY <1>1, <1>7, <1>8 DEF TypeOK, ClaimNext
<1>10. RowInv(t)'
  BY <1>1, <1>6, <1>7 DEF TypeOK, RowInv, ClaimNext, ClaimMode, Row
<1>11. SlotInv(w)'
  BY <1>1, <1>6, <1>7, <1>8 DEF SlotInv, RowInv, ClaimNext, ClaimMode
<1>12. \A u \in Ids \ {t} : /\ sent'[u] = sent[u] /\ exposed'[u] = exposed[u]
                            /\ applied'[u] = applied[u]
  BY <1>1 DEF ClaimNext, TypeOK
<1> QED
  BY <1>1, <1>6, <1>7, <1>8, <1>9, <1>10, <1>11, <1>12, Frame

LEMMA LeaseExpiresInv ==
    ASSUME EngineInv, NEW t \in Ids, LeaseExpires(t)
    PROVE  EngineInv'
<1> DEFINE rw == [tasks[t] EXCEPT !.live = FALSE]
<1>1. TypeOK /\ tasks[t] \in Row
  BY DEF EngineInv, TypeOK
<1>2. /\ rw \in Row /\ rw.status = tasks[t].status /\ rw.mode = tasks[t].mode
      /\ rw.gen = tasks[t].gen /\ rw.retry = tasks[t].retry
      /\ rw.key = tasks[t].key /\ rw.admitted = tasks[t].admitted
      /\ rw.ckpt = tasks[t].ckpt
  BY <1>1 DEF Row
<1>3. SetRow(t, rw)
  BY DEF LeaseExpires
<1> HIDE DEF rw
<1>4. /\ tasks' \in [Ids -> Row] /\ tasks'[t] = rw
      /\ \A u \in Ids \ {t} : tasks'[u] = tasks[u]
  BY <1>1, <1>2, <1>3, SetRowEffect DEF TypeOK
<1>5. TypeOK'
  BY <1>1, <1>4 DEF TypeOK, LeaseExpires
<1> QED
  BY <1>2, <1>4, <1>5, RowFrame DEF LeaseExpires

LEMMA WriteCheckpointInv ==
    ASSUME EngineInv, NEW w \in Slots, NEW t \in Ids,
           WriteCheckpoint(w, t)
    PROVE  EngineInv'
<1> DEFINE rw == [tasks[t] EXCEPT !.ckpt = TRUE, !.mode = "recover"]
<1>1. /\ TypeOK /\ tasks[t] \in Row /\ RowInv(t) /\ SlotInv(w)
      /\ exec[w] \in Invocation /\ exec[w] # Nil /\ exec[w].task = t
  BY DEF EngineInv, TypeOK, WriteCheckpoint, Runs
<1>2. rw \in Row
  BY <1>1, NoAdmission DEF Row, Modes
<1>3. SetRow(t, rw)
  BY DEF WriteCheckpoint
<1>4. /\ rw.status = tasks[t].status /\ rw.mode = "recover"
      /\ rw.gen = tasks[t].gen /\ rw.retry = tasks[t].retry
      /\ rw.key = tasks[t].key /\ rw.admitted = tasks[t].admitted
      /\ rw.ckpt = TRUE
  BY <1>1 DEF Row
<1> HIDE DEF rw
<1>5. /\ tasks' \in [Ids -> Row] /\ tasks'[t] = rw
      /\ \A u \in Ids \ {t} : tasks'[u] = tasks[u]
  BY <1>1, <1>2, <1>3, SetRowEffect DEF TypeOK
<1>6. TypeOK'
  BY <1>1, <1>5 DEF TypeOK, WriteCheckpoint
<1>7. RowInv(t)'
  BY <1>1, <1>4, <1>5, NamesAssumption
  DEF WriteCheckpoint, TypeOK, RowInv, Row, ClaimValid
<1>8. SlotInv(w)'
  BY <1>1, <1>4, <1>5 DEF WriteCheckpoint, Runs, SlotInv
<1>9. \A u \in Ids \ {t} : /\ sent'[u] = sent[u] /\ exposed'[u] = exposed[u]
                           /\ applied'[u] = applied[u]
  BY <1>1 DEF WriteCheckpoint, TypeOK
<1>10. \A v \in Slots \ {w} : exec[v] # Nil => exec[v].task # t
  BY <1>1 DEF SlotInv
<1>11. exec' = exec
  BY DEF WriteCheckpoint
<1> QED
  BY <1>1, <1>5, <1>6, <1>7, <1>8, <1>9, <1>10, <1>11, Frame

LEMMA ObserveOperationInv ==
    ASSUME EngineInv, NEW w \in Slots, NEW t \in Ids, NEW k \in Keys,
           ObserveOperation(w, t, k)
    PROVE  EngineInv'
<1> DEFINE rw == [tasks[t] EXCEPT !.key = k, !.admitted = 0]
<1>1. /\ TypeOK /\ tasks[t] \in Row /\ RowInv(t) /\ SlotInv(w)
      /\ exec[w] \in Invocation /\ exec[w] # Nil /\ exec[w].task = t
  BY DEF EngineInv, TypeOK, ObserveOperation, Runs
<1>2. rw \in Row
  BY <1>1, NoAdmission DEF Row, Modes
<1>3. SetRow(t, rw)
  BY DEF ObserveOperation
<1>4. /\ rw.status = tasks[t].status /\ rw.mode = tasks[t].mode
      /\ rw.gen = tasks[t].gen /\ rw.retry = tasks[t].retry
      /\ rw.key = k /\ rw.admitted = 0
      /\ rw.ckpt = tasks[t].ckpt
  BY <1>1 DEF Row
<1> HIDE DEF rw
<1>5. /\ tasks' \in [Ids -> Row] /\ tasks'[t] = rw
      /\ \A u \in Ids \ {t} : tasks'[u] = tasks[u]
  BY <1>1, <1>2, <1>3, SetRowEffect DEF TypeOK
<1>6. TypeOK'
  BY <1>1, <1>5 DEF TypeOK, ObserveOperation
<1>7. RowInv(t)'
  BY <1>1, <1>4, <1>5, NamesAssumption
  DEF ObserveOperation, TypeOK, RowInv, Row, ClaimValid
<1>8. SlotInv(w)'
  BY <1>1, <1>4, <1>5 DEF ObserveOperation, Runs, SlotInv
<1>9. \A u \in Ids \ {t} : /\ sent'[u] = sent[u] /\ exposed'[u] = exposed[u]
                           /\ applied'[u] = applied[u]
  BY <1>1 DEF ObserveOperation, TypeOK
<1>10. \A v \in Slots \ {w} : exec[v] # Nil => exec[v].task # t
  BY <1>1 DEF SlotInv
<1>11. exec' = exec
  BY DEF ObserveOperation
<1> QED
  BY <1>1, <1>5, <1>6, <1>7, <1>8, <1>9, <1>10, <1>11, Frame

LEMMA ResolveOperationInv ==
    ASSUME EngineInv, NEW w \in Slots, NEW t \in Ids,
           ResolveOperation(w, t)
    PROVE  EngineInv'
<1> DEFINE rw == [tasks[t] EXCEPT !.key = NoKey, !.admitted = 0, !.ckpt = TRUE,
                                   !.mode = "recover"]
<1>1. /\ TypeOK /\ tasks[t] \in Row /\ RowInv(t) /\ SlotInv(w)
      /\ exec[w] \in Invocation /\ exec[w] # Nil /\ exec[w].task = t
  BY DEF EngineInv, TypeOK, ResolveOperation, Runs
<1>2. rw \in Row
  BY <1>1, NoAdmission DEF Row, Modes
<1>3. SetRow(t, rw)
  BY DEF ResolveOperation
<1>4. /\ rw.status = tasks[t].status /\ rw.mode = "recover"
      /\ rw.gen = tasks[t].gen /\ rw.retry = tasks[t].retry
      /\ rw.key = NoKey /\ rw.admitted = 0
      /\ rw.ckpt = TRUE
  BY <1>1 DEF Row
<1> HIDE DEF rw
<1>5. /\ tasks' \in [Ids -> Row] /\ tasks'[t] = rw
      /\ \A u \in Ids \ {t} : tasks'[u] = tasks[u]
  BY <1>1, <1>2, <1>3, SetRowEffect DEF TypeOK
<1>6. TypeOK'
  BY <1>1, <1>5 DEF TypeOK, ResolveOperation
<1>7. RowInv(t)'
  BY <1>1, <1>4, <1>5, NamesAssumption
  DEF ResolveOperation, TypeOK, RowInv, Row, ClaimValid
<1>8. SlotInv(w)'
  BY <1>1, <1>4, <1>5 DEF ResolveOperation, Runs, SlotInv
<1>9. \A u \in Ids \ {t} : /\ sent'[u] = sent[u] /\ exposed'[u] = exposed[u]
                           /\ applied'[u] = applied[u]
  BY <1>1 DEF ResolveOperation, TypeOK
<1>10. \A v \in Slots \ {w} : exec[v] # Nil => exec[v].task # t
  BY <1>1 DEF SlotInv
<1>11. exec' = exec
  BY DEF ResolveOperation
<1> QED
  BY <1>1, <1>5, <1>6, <1>7, <1>8, <1>9, <1>10, <1>11, Frame

LEMMA AdmitEffectInv ==
    ASSUME EngineInv, NEW w \in Slots, NEW t \in Ids, NEW k \in Keys,
           AdmitEffect(w, t, k)
    PROVE  EngineInv'
<1> DEFINE rw == [tasks[t] EXCEPT !.key = k, !.admitted = tasks[t].retry + 1,
                                   !.ckpt = TRUE, !.mode = "recover"]
           iv(a) == [exec[w] EXCEPT !.admitted = TRUE,
                                     !.key = IF a THEN k ELSE NoKey,
                                     !.phase = IF a THEN "effect" ELSE "handler"]
<1>1. /\ TypeOK /\ tasks[t] \in Row /\ RowInv(t) /\ SlotInv(w)
      /\ exec[w] \in Invocation /\ exec[w] # Nil /\ exec[w].task = t
  BY DEF EngineInv, TypeOK, AdmitEffect, Runs
<1>2. tasks[t].retry + 1 \in 0 .. MaxAttempts
  BY <1>1, BoundsAssumption DEF Row
<1>3. rw \in Row
  BY <1>1, <1>2 DEF Row, Modes
<1>4. PICK a \in BOOLEAN : SetExec(w, iv(a))
  BY DEF AdmitEffect
<1>5. iv(a) \in Invocation
  BY <1>1 DEF Invocation
<1>6. SetRow(t, rw)
  BY DEF AdmitEffect
<1>7. /\ rw.status = tasks[t].status /\ rw.mode = "recover"
      /\ rw.gen = tasks[t].gen /\ rw.retry = tasks[t].retry
      /\ rw.key = k /\ rw.admitted = tasks[t].retry + 1
      /\ rw.ckpt = TRUE
  BY <1>1 DEF Row
<1>8. /\ iv(a).gen = exec[w].gen /\ iv(a).admitted = TRUE /\ iv(a).task = t
      /\ iv(a).phase = (IF a THEN "effect" ELSE "handler")
      /\ iv(a).key = (IF a THEN k ELSE NoKey)
  BY <1>1 DEF Invocation
<1> HIDE DEF rw, iv
<1>9. /\ tasks' \in [Ids -> Row] /\ tasks'[t] = rw
      /\ \A u \in Ids \ {t} : tasks'[u] = tasks[u]
  BY <1>1, <1>3, <1>6, SetRowEffect DEF TypeOK
<1>10. /\ exec' \in [Slots -> Invocation \cup {Nil}] /\ exec'[w] = iv(a)
       /\ \A v \in Slots \ {w} : exec'[v] = exec[v]
  BY <1>1, <1>4, <1>5, SetExecEffect DEF TypeOK
<1>11. TypeOK'
  BY <1>1, <1>9, <1>10 DEF TypeOK, AdmitEffect
<1>12. sent'[t] \in Nat /\ sent'[t] < tasks[t].retry + 1 /\ tasks[t].retry \in Nat
  BY <1>1 DEF AdmitEffect, Admissible, TypeOK, RowInv, Row
<1>13. RowInv(t)'
  BY <1>1, <1>7, <1>9, <1>12, NamesAssumption
  DEF AdmitEffect, TypeOK, RowInv, ClaimValid
<1>14. SlotInv(w)'
  BY <1>1, <1>7, <1>8, <1>9, <1>10, <1>12
  DEF AdmitEffect, SlotInv, ClaimValid
<1>15. \A u \in Ids \ {t} : /\ sent'[u] = sent[u] /\ exposed'[u] = exposed[u]
                            /\ applied'[u] = applied[u]
  BY <1>1 DEF AdmitEffect, TypeOK
<1>16. \A v \in Slots \ {w} : exec[v] # Nil => exec[v].task # t
  BY <1>1 DEF SlotInv
<1> QED
  BY <1>8, <1>9, <1>10, <1>11, <1>13, <1>14, <1>15, <1>16, Frame

LEMMA CallEffectInv ==
    ASSUME EngineInv, NEW w \in Slots, NEW t \in Ids,
           CallEffect(w, t)
    PROVE  EngineInv'
<1> DEFINE iv == [exec[w] EXCEPT !.phase = "handler", !.key = NoKey]
<1>1. /\ TypeOK /\ tasks[t] \in Row /\ RowInv(t) /\ SlotInv(w)
      /\ exec[w] \in Invocation /\ exec[w] # Nil /\ exec[w].task = t
  BY DEF EngineInv, TypeOK, CallEffect, Runs
<1>2. iv \in Invocation
  BY <1>1 DEF Invocation, NoResult, Result
<1>3. SetExec(w, iv)
  BY DEF CallEffect
<1>4. /\ iv.gen = exec[w].gen /\ iv.mode = exec[w].mode /\ iv.task = t
      /\ iv.admitted = exec[w].admitted /\ iv.phase = "handler"
      /\ iv.key = NoKey
  BY <1>1 DEF Invocation
<1> HIDE DEF iv
<1>5. /\ exec' \in [Slots -> Invocation \cup {Nil}] /\ exec'[w] = iv
      /\ \A v \in Slots \ {w} : exec'[v] = exec[v]
  BY <1>1, <1>2, <1>3, SetExecEffect DEF TypeOK
<1>6. TypeOK'
  BY <1>1, <1>5 DEF TypeOK, CallEffect, dbVars
<1>7. RowInv(t)'
  BY <1>1 DEF CallEffect, dbVars, Runs, TypeOK, RowInv, SlotInv, Row
<1>8. SlotInv(w)'
  BY <1>1, <1>4, <1>5 DEF CallEffect, dbVars, Runs, SlotInv
<1>9. \A u \in Ids \ {t} :
        /\ tasks'[u] = tasks[u] /\ sent'[u] = sent[u]
        /\ exposed'[u] = exposed[u] /\ applied'[u] = applied[u]
  BY <1>1 DEF CallEffect, dbVars, TypeOK
<1>10. \A v \in Slots \ {w} : exec[v] # Nil => exec[v].task # t
  BY <1>1 DEF SlotInv
<1> QED
  BY <1>4, <1>5, <1>6, <1>7, <1>8, <1>9, <1>10, Frame

LEMMA HandlerReturnsInv ==
    ASSUME EngineInv, NEW w \in Slots, NEW t \in Ids, NEW r \in Result,
           HandlerReturns(w, t, r)
    PROVE  EngineInv'
<1> DEFINE iv == [exec[w] EXCEPT !.phase = "settling", !.result = r]
<1>1. /\ TypeOK /\ tasks[t] \in Row /\ RowInv(t) /\ SlotInv(w)
      /\ exec[w] \in Invocation /\ exec[w] # Nil /\ exec[w].task = t
  BY DEF EngineInv, TypeOK, HandlerReturns, Runs
<1>2. iv \in Invocation
  BY <1>1 DEF Invocation, NoResult, Result
<1>3. SetExec(w, iv)
  BY DEF HandlerReturns
<1>4. /\ iv.gen = exec[w].gen /\ iv.mode = exec[w].mode /\ iv.task = t
      /\ iv.admitted = exec[w].admitted /\ iv.phase = "settling"
      /\ iv.key = exec[w].key
  BY <1>1 DEF Invocation
<1> HIDE DEF iv
<1>5. /\ exec' \in [Slots -> Invocation \cup {Nil}] /\ exec'[w] = iv
      /\ \A v \in Slots \ {w} : exec'[v] = exec[v]
  BY <1>1, <1>2, <1>3, SetExecEffect DEF TypeOK
<1>6. TypeOK'
  BY <1>1, <1>5 DEF TypeOK, HandlerReturns, dbVars
<1>7. RowInv(t)'
  BY <1>1 DEF HandlerReturns, dbVars, Runs, TypeOK, RowInv, SlotInv, Row
<1>8. SlotInv(w)'
  BY <1>1, <1>4, <1>5 DEF HandlerReturns, dbVars, Runs, SlotInv
<1>9. \A u \in Ids \ {t} :
        /\ tasks'[u] = tasks[u] /\ sent'[u] = sent[u]
        /\ exposed'[u] = exposed[u] /\ applied'[u] = applied[u]
  BY <1>1 DEF HandlerReturns, dbVars, TypeOK
<1>10. \A v \in Slots \ {w} : exec[v] # Nil => exec[v].task # t
  BY <1>1 DEF SlotInv
<1> QED
  BY <1>4, <1>5, <1>6, <1>7, <1>8, <1>9, <1>10, Frame

LEMMA FailClaimInv ==
    ASSUME EngineInv, NEW w \in Slots, NEW t \in Ids,
           FailClaim(w, t)
    PROVE  EngineInv'
<1> DEFINE iv == [exec[w] EXCEPT !.phase = "settling", !.result = NoResult]
<1>1. /\ TypeOK /\ tasks[t] \in Row /\ RowInv(t) /\ SlotInv(w)
      /\ exec[w] \in Invocation /\ exec[w] # Nil /\ exec[w].task = t
  BY DEF EngineInv, TypeOK, FailClaim, Runs
<1>2. iv \in Invocation
  BY <1>1 DEF Invocation, NoResult, Result
<1>3. SetExec(w, iv)
  BY DEF FailClaim
<1>4. /\ iv.gen = exec[w].gen /\ iv.mode = exec[w].mode /\ iv.task = t
      /\ iv.admitted = exec[w].admitted /\ iv.phase = "settling"
      /\ iv.key = exec[w].key
  BY <1>1 DEF Invocation
<1> HIDE DEF iv
<1>5. /\ exec' \in [Slots -> Invocation \cup {Nil}] /\ exec'[w] = iv
      /\ \A v \in Slots \ {w} : exec'[v] = exec[v]
  BY <1>1, <1>2, <1>3, SetExecEffect DEF TypeOK
<1>6. TypeOK'
  BY <1>1, <1>5 DEF TypeOK, FailClaim, dbVars
<1>7. RowInv(t)'
  BY <1>1 DEF FailClaim, dbVars, Runs, TypeOK, RowInv, SlotInv, Row
<1>8. SlotInv(w)'
  BY <1>1, <1>4, <1>5 DEF FailClaim, dbVars, Runs, SlotInv
<1>9. \A u \in Ids \ {t} :
        /\ tasks'[u] = tasks[u] /\ sent'[u] = sent[u]
        /\ exposed'[u] = exposed[u] /\ applied'[u] = applied[u]
  BY <1>1 DEF FailClaim, dbVars, TypeOK
<1>10. \A v \in Slots \ {w} : exec[v] # Nil => exec[v].task # t
  BY <1>1 DEF SlotInv
<1> QED
  BY <1>4, <1>5, <1>6, <1>7, <1>8, <1>9, <1>10, Frame

LEMMA LeaseUnsafeInv ==
    ASSUME EngineInv, NEW w \in Slots, LeaseUnsafe(w)
    PROVE  EngineInv'
<1> DEFINE iv == [exec[w] EXCEPT !.safe = FALSE]
<1>0. PICK t \in Ids : t = exec[w].task
  BY DEF EngineInv, TypeOK, LeaseUnsafe, Invocation
<1>1. /\ TypeOK /\ SlotInv(w) /\ exec[w] \in Invocation /\ exec[w] # Nil
      /\ RowInv(t)
  BY DEF EngineInv, TypeOK, LeaseUnsafe
<1>2. iv \in Invocation
  BY <1>1 DEF Invocation
<1>3. SetExec(w, iv)
  BY DEF LeaseUnsafe
<1>4. /\ iv.gen = exec[w].gen /\ iv.mode = exec[w].mode /\ iv.task = t
      /\ iv.admitted = exec[w].admitted /\ iv.phase = exec[w].phase
      /\ iv.key = exec[w].key
  BY <1>0, <1>1 DEF Invocation
<1> HIDE DEF iv
<1>5. /\ exec' \in [Slots -> Invocation \cup {Nil}] /\ exec'[w] = iv
      /\ \A v \in Slots \ {w} : exec'[v] = exec[v]
  BY <1>1, <1>2, <1>3, SetExecEffect DEF TypeOK
<1>6. TypeOK'
  BY <1>1, <1>5 DEF TypeOK, LeaseUnsafe, dbVars
<1>7. SlotInv(w)'
  BY <1>0, <1>1, <1>4, <1>5 DEF LeaseUnsafe, dbVars, SlotInv
<1>8. \A v \in Slots \ {w} : exec[v] # Nil => exec[v].task # t
  BY <1>0, <1>1 DEF SlotInv
<1>9. RowInv(t)'
  BY <1>1 DEF RowInv, LeaseUnsafe, dbVars
<1>10. \A u \in Ids \ {t} :
         /\ tasks'[u] = tasks[u] /\ sent'[u] = sent[u]
         /\ exposed'[u] = exposed[u] /\ applied'[u] = applied[u]
  BY DEF LeaseUnsafe, dbVars
<1> QED
  BY <1>1, <1>4, <1>5, <1>6, <1>7, <1>8, <1>9, <1>10, Frame

\* ShortenLease changes nothing but the resume mode, and that to recover.
LEMMA ShortenLeaseEffect ==
    ASSUME TypeOK, NEW t \in Ids, NEW gen, ShortenLease(t, gen)
    PROVE  /\ tasks' \in [Ids -> Row]
           /\ \A u \in Ids :
                /\ tasks'[u].mode \in {"recover", tasks[u].mode}
                /\ tasks'[u].status = tasks[u].status
                /\ tasks'[u].gen = tasks[u].gen /\ tasks'[u].key = tasks[u].key
                /\ tasks'[u].retry = tasks[u].retry
                /\ tasks'[u].admitted = tasks[u].admitted
                /\ tasks'[u].ckpt = tasks[u].ckpt
<1> DEFINE rw == [tasks[t] EXCEPT !.mode = "recover"]
<1>1. tasks[t] \in Row
  BY DEF TypeOK
<1>2. CASE ClaimValid(t, gen)
  <2>1. /\ rw \in Row /\ rw.mode = "recover" /\ rw.status = tasks[t].status
        /\ rw.gen = tasks[t].gen /\ rw.retry = tasks[t].retry
        /\ rw.key = tasks[t].key /\ rw.admitted = tasks[t].admitted
        /\ rw.ckpt = tasks[t].ckpt
    BY <1>1 DEF Row, Modes
  <2>2. SetRow(t, rw)
    BY <1>2 DEF ShortenLease
  <2> HIDE DEF rw
  <2>3. /\ tasks' \in [Ids -> Row] /\ tasks'[t] = rw
        /\ \A u \in Ids \ {t} : tasks'[u] = tasks[u]
    BY <2>1, <2>2, SetRowEffect DEF TypeOK
  <2> QED
    BY <2>1, <2>3
<1>3. CASE ~ClaimValid(t, gen)
  BY <1>3 DEF ShortenLease, TypeOK
<1> QED
  BY <1>2, <1>3

\* Ending an invocation without writing its row preserves the invariant.
LEMMA ExecEnds ==
    ASSUME EngineInv, NEW w \in Slots, SetExec(w, Nil)
    PROVE  /\ exec' \in [Slots -> Invocation \cup {Nil}]
           /\ \A v \in Slots : exec'[v] # Nil => exec'[v] = exec[v]
BY SetExecEffect DEF EngineInv, TypeOK

LEMMA AbandonClaimInv ==
    ASSUME EngineInv, NEW w \in Slots, NEW t \in Ids, AbandonClaim(w, t)
    PROVE  EngineInv'
<1>1. TypeOK /\ exec[w] \in Invocation
  BY DEF EngineInv, TypeOK, AbandonClaim, Runs
<1>2. PICK gen \in 0 .. MaxClaims : gen = exec[w].gen
  BY <1>1 DEF Invocation
<1>3. /\ exec' \in [Slots -> Invocation \cup {Nil}]
      /\ \A v \in Slots : exec'[v] # Nil => exec'[v] = exec[v]
  BY ExecEnds DEF AbandonClaim
<1>4. /\ tasks' \in [Ids -> Row]
      /\ \A u \in Ids :
           /\ tasks'[u].mode \in {"recover", tasks[u].mode}
           /\ tasks'[u].status = tasks[u].status
           /\ tasks'[u].gen = tasks[u].gen /\ tasks'[u].key = tasks[u].key
           /\ tasks'[u].retry = tasks[u].retry
           /\ tasks'[u].admitted = tasks[u].admitted
           /\ tasks'[u].ckpt = tasks[u].ckpt
  <2>1. CASE ShortenLease(t, gen)
    BY <1>1, <2>1, ShortenLeaseEffect
  <2>2. CASE UNCHANGED tasks
    BY <1>1, <2>2 DEF TypeOK
  <2> QED
    BY <1>2, <2>1, <2>2 DEF AbandonClaim
<1>5. recovery' \subseteq Ids \X (0 .. MaxClaims)
  BY <1>1, <1>2 DEF AbandonClaim, TypeOK
<1>6. TypeOK'
  BY <1>1, <1>3, <1>4, <1>5 DEF TypeOK, AbandonClaim
<1>7. \A u \in Ids : RowInv(u)'
  BY <1>4 DEF EngineInv, RowInv, AbandonClaim
<1>8. ASSUME NEW v \in Slots, exec'[v] # Nil PROVE SlotInv(v)'
  <2>1. exec'[v] = exec[v] /\ SlotInv(v) /\ exec[v].task \in Ids
    BY <1>3, <1>8 DEF EngineInv, TypeOK, Invocation
  <2> QED
    BY <1>3, <1>4, <1>8, <2>1 DEF SlotInv, AbandonClaim
<1>9. \A v \in Slots : SlotInv(v)'
  BY <1>8 DEF SlotInv
<1> QED
  BY <1>6, <1>7, <1>9 DEF EngineInv

LEMMA RecoverLeaseInv ==
    ASSUME EngineInv, NEW t \in Ids, NEW gen \in 0 .. MaxClaims,
           RecoverLease(t, gen)
    PROVE  EngineInv'
<1>1. TypeOK /\ ShortenLease(t, gen)
  BY DEF EngineInv, RecoverLease
<1>2. /\ tasks' \in [Ids -> Row]
      /\ \A u \in Ids :
           /\ tasks'[u].mode \in {"recover", tasks[u].mode}
           /\ tasks'[u].status = tasks[u].status
           /\ tasks'[u].gen = tasks[u].gen /\ tasks'[u].key = tasks[u].key
           /\ tasks'[u].retry = tasks[u].retry
           /\ tasks'[u].admitted = tasks[u].admitted
           /\ tasks'[u].ckpt = tasks[u].ckpt
  BY <1>1, ShortenLeaseEffect
<1>3. TypeOK'
  BY <1>1, <1>2 DEF TypeOK, RecoverLease
<1> QED
  BY <1>2, <1>3, RowFrame DEF RecoverLease

LEMMA CommitResultInv ==
    ASSUME EngineInv, NEW w \in Slots, NEW t \in Ids, CommitResult(w, t)
    PROVE  EngineInv'
<1> DEFINE r == exec[w].result
           rw == SettledRow(t, r)
<1>1. /\ TypeOK /\ tasks[t] \in Row /\ RowInv(t) /\ SlotInv(w)
      /\ exec[w] \in Invocation /\ exec[w] # Nil /\ exec[w].task = t
      /\ exec[w].phase = "settling"
      /\ r \in Result /\ r.mode \in Modes
  BY DEF EngineInv, TypeOK, CommitResult, Runs, Invocation, Result, Modes
<1>2. /\ StatusAfter(t, r) \in Terminal \cup {"pending"}
      /\ StatusAfter(t, r) = "pending" /\ r.kind = "retry" =>
           tasks[t].retry + 1 \in 0 .. MaxAttempts - 1
  BY <1>1, BoundsAssumption DEF StatusAfter, Result, Terminal, Row
<1> HIDE DEF r
<1>3. rw \in Row
  <2> DEFINE st == StatusAfter(t, r)
             md == IF st = "pending" THEN r.mode ELSE "recover"
             rt == IF st = "pending" /\ r.kind = "retry"
                     THEN tasks[t].retry + 1 ELSE tasks[t].retry
  <2>1. rw = [tasks[t] EXCEPT !.status = st, !.live = FALSE,
                               !.mode = md, !.retry = rt]
    BY DEF SettledRow
  <2>2. st \in Terminal \cup {"pending"} /\ md \in Modes
    BY <1>1, <1>2 DEF Modes
  <2>3. tasks[t].retry \in 0 .. MaxAttempts - 1
    BY <1>1 DEF Row
  <2>4. rt \in 0 .. MaxAttempts - 1
    BY <1>2, <2>3
  <2> HIDE DEF st, md, rt
  <2> HIDE DEF rw
  <2> QED
    BY <1>1, <2>1, <2>2, <2>4 DEF Row, Statuses, Terminal
<1>4. /\ rw.status \in Terminal \cup {"pending"} /\ rw.gen = tasks[t].gen
      /\ rw.retry >= tasks[t].retry /\ rw.retry \in Nat
      /\ rw.key = tasks[t].key /\ rw.admitted = tasks[t].admitted
      /\ rw.ckpt = tasks[t].ckpt /\ rw.mode \in Modes
  BY <1>1, <1>2, <1>3, BoundsAssumption DEF SettledRow, Row, Modes
<1>5. /\ SetRow(t, rw)
      /\ exposed' = [exposed EXCEPT ![t] = exposed[t] /\ rw.mode = "recover"]
  BY DEF CommitResult, r
<1> HIDE DEF rw
<1>6. /\ tasks' \in [Ids -> Row] /\ tasks'[t] = rw
      /\ \A u \in Ids \ {t} : tasks'[u] = tasks[u]
  BY <1>1, <1>3, <1>5, SetRowEffect DEF TypeOK
<1>7. /\ exec' \in [Slots -> Invocation \cup {Nil}]
      /\ exec'[w] = Nil \/ exec'[w] = exec[w]
      /\ \A v \in Slots \ {w} : exec'[v] = exec[v]
  BY <1>1, SetExecEffect DEF TypeOK, CommitResult
<1>8. exposed' \in [Ids -> BOOLEAN] /\ applied' \in [Ids -> Nat]
  BY <1>1, <1>5 DEF TypeOK, CommitResult
<1>9. TypeOK'
  BY <1>1, <1>6, <1>7, <1>8 DEF TypeOK, CommitResult
<1>10. exposed'[t] = (exposed[t] /\ rw.mode = "recover")
  BY <1>1, <1>5 DEF TypeOK
<1>11. RowInv(t)'
  <2>1. applied'[t] = 1 /\ sent'[t] = sent[t]
    BY <1>1 DEF CommitResult, ClaimValid, TypeOK, RowInv
  <2>2. rw.admitted <= rw.retry + 1 /\ sent[t] <= rw.admitted
    BY <1>1, <1>4 DEF RowInv, TypeOK, Row
  <2>3. rw.status # "absent" /\ rw.status # "running"
    BY <1>4 DEF Terminal
  <2>4. exposed'[t] => rw.mode = "recover" /\ rw.ckpt
    BY <1>1, <1>4, <1>10 DEF RowInv
  <2>5. rw.key = NoKey => rw.admitted = 0
    BY <1>1, <1>4 DEF RowInv
  <2> QED
    BY <1>6, <2>1, <2>2, <2>3, <2>4, <2>5 DEF RowInv
<1>12. SlotInv(w)'
  <2>1. /\ rw.status # "absent" /\ rw.gen = exec[w].gen
        /\ exec[w].mode = "execute" /\ exposed'[t] => exec[w].admitted
        /\ \A v \in Slots \ {w} : exec[v] # Nil => exec[v].task # t
    BY <1>1, <1>4, <1>10 DEF SlotInv, Terminal
  <2>2. CASE exec'[w] = Nil
    BY <2>2 DEF SlotInv
  <2>3. CASE exec'[w] = exec[w]
    BY <1>1, <1>6, <1>7, <2>1, <2>3 DEF SlotInv
  <2> QED
    BY <1>7, <2>2, <2>3
<1>13. \A u \in Ids \ {t} : /\ sent'[u] = sent[u] /\ exposed'[u] = exposed[u]
                            /\ applied'[u] = applied[u]
  BY <1>1, <1>5 DEF CommitResult, TypeOK
<1>14. \A v \in Slots \ {w} : exec[v] # Nil => exec[v].task # t
  BY <1>1 DEF SlotInv
<1> QED
  BY <1>1, <1>6, <1>7, <1>9, <1>11, <1>12, <1>13, <1>14, Frame

LEMMA EnqueueInv ==
    ASSUME EngineInv, NEW i \in Idents, Enqueue(i)
    PROVE  EngineInv'
<1> DEFINE rw == NewRow(i, "execute", FALSE, 0)
<1>1. PICK n \in Ids : NextId(n) /\ SetRow(n, rw)
  BY DEF Enqueue
<1>2. TypeOK /\ RowInv(n) /\ tasks[n].status = "absent"
  BY <1>1 DEF EngineInv, NextId, Inserted
<1>3. rw \in Row
  <2>1. "execute" \in Modes /\ FALSE \in BOOLEAN /\ 0 \in 0 .. MaxTasks
    BY BoundsAssumption DEF Modes
  <2> QED
    BY <2>1, NewRowType
<1>4. /\ rw.status = "pending" /\ rw.key = NoKey /\ rw.admitted = 0
      /\ rw.retry = 0
  BY DEF NewRow
<1> HIDE DEF rw
<1>5. /\ tasks' \in [Ids -> Row] /\ tasks'[n] = rw
      /\ \A u \in Ids \ {n} : tasks'[u] = tasks[u]
  BY <1>1, <1>2, <1>3, SetRowEffect DEF TypeOK
<1>6. TypeOK'
  BY <1>2, <1>5 DEF TypeOK, Enqueue
<1>7. \A u \in Ids : RowInv(u)'
  BY <1>2, <1>4, <1>5 DEF EngineInv, Enqueue, RowInv
<1>8. ASSUME NEW w \in Slots, exec[w] # Nil PROVE SlotInv(w)'
  <2>1. SlotInv(w) /\ exec[w].task \in Ids \ {n}
    BY <1>2, <1>8 DEF EngineInv, TypeOK, Invocation, SlotInv
  <2> QED
    BY <1>5, <1>8, <2>1 DEF SlotInv, Enqueue
<1>9. \A w \in Slots : SlotInv(w)'
  BY <1>8 DEF SlotInv, Enqueue
<1> QED
  BY <1>6, <1>7, <1>9 DEF EngineInv

\* The successor of a round is consistent from the start, because evidence is
\* only ever inherited together with recover mode.
LEMMA SucceedInv ==
    ASSUME EngineInv, NEW s \in Ids, NEW i \in Idents, NEW mode \in Modes,
           NEW ckpt \in BOOLEAN, ckpt => mode = "recover",
           Succeed(s, i, mode, ckpt),
           reads' \in [Operators -> RetryRead \cup {Nil}]
    PROVE  EngineInv'
<1> DEFINE old == [tasks[s] EXCEPT !.superseded = TRUE]
           new == NewRow(i, mode, ckpt, s)
<1>1. PICK n \in Ids :
        /\ NextId(n)
        /\ tasks' = [tasks EXCEPT ![s] = old, ![n] = new]
        /\ exposed' = [exposed EXCEPT ![n] = ckpt /\ exposed[s]]
  BY DEF Succeed
<1>2. TypeOK /\ RowInv(n) /\ RowInv(s) /\ tasks[s] \in Row
  BY DEF EngineInv, TypeOK
<1>3. tasks[n].status = "absent" /\ tasks[s].status # "absent" /\ n # s
  BY <1>1 DEF NextId, Inserted, Succeed, Terminal
<1>4. new \in Row
  BY NewRowType, BoundsAssumption DEF Ids
<1>5. /\ new.status = "pending" /\ new.key = NoKey /\ new.admitted = 0
      /\ new.retry = 0 /\ new.mode = mode /\ new.ckpt = ckpt
  BY DEF NewRow
<1>6. /\ old \in Row
      /\ old.status = tasks[s].status /\ old.mode = tasks[s].mode
      /\ old.gen = tasks[s].gen /\ old.retry = tasks[s].retry
      /\ old.key = tasks[s].key /\ old.admitted = tasks[s].admitted
      /\ old.ckpt = tasks[s].ckpt
  BY <1>2 DEF Row
<1> HIDE DEF old, new
<1>7. /\ tasks' \in [Ids -> Row] /\ tasks'[n] = new /\ tasks'[s] = old
      /\ \A u \in Ids \ {n, s} : tasks'[u] = tasks[u]
  BY <1>1, <1>2, <1>3, <1>4, <1>6 DEF TypeOK
<1>8. /\ exposed' \in [Ids -> BOOLEAN] /\ exposed'[n] = (ckpt /\ exposed[s])
      /\ \A u \in Ids \ {n} : exposed'[u] = exposed[u]
  BY <1>1, <1>2 DEF TypeOK
<1>9. TypeOK'
  BY <1>2, <1>7, <1>8 DEF TypeOK, Succeed
<1>10. RowInv(n)'
  BY <1>2, <1>3, <1>5, <1>7, <1>8 DEF Succeed, TypeOK, RowInv
<1>11. RowInv(s)'
  BY <1>2, <1>3, <1>6, <1>7, <1>8 DEF Succeed, RowInv
<1>12. \A u \in Ids \ {n, s} : RowInv(u)'
  BY <1>7, <1>8 DEF EngineInv, Succeed, RowInv
<1>13. ASSUME NEW w \in Slots, exec[w] # Nil PROVE SlotInv(w)'
  <2>1. SlotInv(w) /\ exec[w].task \in Ids \ {n}
    BY <1>3, <1>13 DEF EngineInv, TypeOK, Invocation, SlotInv
  <2>2. \A u \in Ids \ {n} :
          /\ tasks'[u].status = tasks[u].status /\ tasks'[u].gen = tasks[u].gen
          /\ tasks'[u].admitted = tasks[u].admitted
          /\ tasks'[u].key = tasks[u].key /\ exposed'[u] = exposed[u]
    BY <1>6, <1>7, <1>8
  <2> QED
    BY <1>13, <2>1, <2>2 DEF SlotInv, Succeed
<1>14. \A w \in Slots : SlotInv(w)'
  BY <1>13 DEF SlotInv, Succeed
<1> QED
  BY <1>9, <1>10, <1>11, <1>12, <1>14 DEF EngineInv

LEMMA RetrySuccessorInv ==
    ASSUME EngineInv, NEW s \in Ids, NEW ckpt \in BOOLEAN,
           RetrySuccessor(s, ckpt),
           reads' \in [Operators -> RetryRead \cup {Nil}]
    PROVE  EngineInv'
<1>1. tasks[s].ident \in Idents
  BY DEF EngineInv, TypeOK, Row
<1>2. CASE Succeed(s, tasks[s].ident, "recover", ckpt)
  BY <1>1, <1>2, SucceedInv DEF Modes
<1>3. CASE Succeed(s, tasks[s].ident, "recover", FALSE)
  BY <1>1, <1>3, SucceedInv DEF Modes
<1>4. CASE \E i \in Idents \ (PlanIdents \cup {tasks[s].ident}) :
             Succeed(s, i, "execute", FALSE)
  BY <1>4, SucceedInv DEF Modes
<1> QED
  BY <1>2, <1>3, <1>4 DEF RetrySuccessor

\* Steps that only touch what Service.Retry remembers.
LEMMA ReadsInv ==
    ASSUME EngineInv, UNCHANGED <<exec, recovery, dbVars>>,
           reads' \in [Operators -> RetryRead \cup {Nil}]
    PROVE  EngineInv'
<1>1. TypeOK'
  BY DEF EngineInv, TypeOK, dbVars
<1> QED
  BY <1>1, RowFrame DEF dbVars

LEMMA CrashInv == ASSUME EngineInv, Crash PROVE EngineInv'
<1>1. TypeOK'
  BY DEF EngineInv, TypeOK, Crash, dbVars
<1>2. \A t \in Ids : RowInv(t)'
  BY DEF EngineInv, Crash, dbVars, RowInv
<1>3. \A w \in Slots : SlotInv(w)'
  BY DEF Crash, SlotInv
<1> QED
  BY <1>1, <1>2, <1>3 DEF EngineInv

LEMMA NextInv == ASSUME EngineInv, [Next]_vars PROVE EngineInv'
<1> USE DEF Modes
<1>1. CASE \E i \in Idents : Enqueue(i)
  BY <1>1, EnqueueInv
<1>2. ASSUME NEW t \in Ids, EnqueueOrReplaceTerminal(t) PROVE EngineInv'
  <2>1. /\ tasks[t].ident \in Idents /\ Succeed(t, tasks[t].ident, "execute", FALSE)
        /\ reads' \in [Operators -> RetryRead \cup {Nil}]
    BY <1>2 DEF EngineInv, TypeOK, Row, EnqueueOrReplaceTerminal
  <2> QED
    BY <2>1, SucceedInv
<1>3. ASSUME NEW t \in Ids, RetryInTransaction(t) PROVE EngineInv'
  <2> DEFINE ckpt == tasks[t].ckpt
  <2>1. /\ ckpt \in BOOLEAN /\ RetrySuccessor(t, ckpt)
        /\ reads' \in [Operators -> RetryRead \cup {Nil}]
    BY <1>3 DEF EngineInv, TypeOK, Row, RetryInTransaction
  <2> HIDE DEF ckpt
  <2> QED
    BY <2>1, RetrySuccessorInv
<1>4. ASSUME NEW o \in Operators, RetryCommits(o) PROVE EngineInv'
  <2> DEFINE s == reads[o].source
             ckpt == reads[o].ckpt
  <2>1. /\ s \in Ids /\ ckpt \in BOOLEAN /\ RetrySuccessor(s, ckpt)
        /\ reads' \in [Operators -> RetryRead \cup {Nil}]
    BY <1>4 DEF EngineInv, TypeOK, RetryRead, RetryCommits
  <2> HIDE DEF s, ckpt
  <2> QED
    BY <2>1, RetrySuccessorInv
<1>5. ASSUME NEW o \in Operators, RetryEnds(o) PROVE EngineInv'
  BY <1>5, ReadsInv DEF RetryEnds, EngineInv, TypeOK
<1>6. ASSUME NEW o \in Operators, NEW s \in Ids, RetryReads(o, s) PROVE EngineInv'
  <2>1. reads' \in [Operators -> RetryRead \cup {Nil}]
    BY <1>6 DEF RetryReads, RetryRead, EngineInv, TypeOK, Row
  <2> QED
    BY <1>6, <2>1, ReadsInv DEF RetryReads
<1>7. CASE Crash
  BY <1>7, CrashInv
<1>8. CASE UNCHANGED vars
  BY <1>8, ReadsInv DEF vars, dbVars, EngineInv, TypeOK
<1> QED
  BY <1>1, <1>2, <1>3, <1>4, <1>5, <1>6, <1>7, <1>8, LeaseExpiresInv,
     ClaimNextInv, LeaseUnsafeInv, WriteCheckpointInv, CallEffectInv,
     ResolveOperationInv, AbandonClaimInv, FailClaimInv, CommitResultInv,
     AdmitEffectInv, ObserveOperationInv, HandlerReturnsInv, RecoverLeaseInv
  DEF Next

\* The invariant the engine maintains: through every interleaving of claims,
\* expiries, lost answers, retries and crashes, an invocation's claim, the
\* admission ledger and the resume mode of its row agree (engine.go, task_repo.go).
THEOREM EngineInvariant == Spec => []EngineInv
<1> QED
  BY InitInv, NextInv, PTL DEF Spec

\* An effect that may have left the process is looked into, in recover mode,
\* before anything is executed again (WithCheckpointedEffect, ClaimNext).
THEOREM RecoverBeforeReexecuting == Spec => []RecoverFirst
<1>1. EngineInv => RecoverFirst
  BY DEF EngineInv, TypeOK, Invocation, RowInv, SlotInv, RecoverFirst
<1> QED
  BY <1>1, EngineInvariant, PTL

\* The retry budget bounds the effects called for one operation (AdmitEffect).
THEOREM EffectsWithinBudget == Spec => []EffectBudget
<1>1. EngineInv => EffectBudget
  BY DEF EngineInv, TypeOK, Row, RowInv, EffectBudget
<1> QED
  BY <1>1, EngineInvariant, PTL

\* No effect is called for a claim another invocation has taken over.
THEOREM EffectsFenced == Spec => []EffectFenced
<1>1. EngineInv => EffectFenced
  BY DEF EngineInv, SlotInv, Runs, EffectFenced
<1> QED
  BY <1>1, EngineInvariant, PTL

\* A claim's settlement is applied at most once (commitResult, Settle).
THEOREM SettlementsOnce == Spec => []SettledOnce
<1>1. EngineInv => SettledOnce
  BY DEF EngineInv, RowInv, SettledOnce
<1> QED
  BY <1>1, EngineInvariant, PTL

-----------------------------------------------------------------------------
(***************************************************************************)
(* Rounds.  A successor's id is new and the ids in use have no gap, so no  *)
(* row can have been the parent of another before it was inserted.         *)
(***************************************************************************)

NoGap == \A t \in Inserted : 1 .. t - 1 \subseteq Inserted

RoundsInv == Rounds /\ NoGap

\* What every step but an insertion does to the rows: parents, identities and
\* supersession stay, and only unfinished rows change their status.
Moves ==
    \A t \in Ids :
        /\ tasks'[t].parent = tasks[t].parent /\ tasks'[t].superseded = tasks[t].superseded
        /\ tasks'[t].ident = tasks[t].ident
        /\ \/ tasks'[t].status = tasks[t].status
           \/ tasks[t].status \in {"pending", "running"} /\ tasks'[t].status # "absent"

\* Such a step keeps the rounds.
LEMMA MovesRounds == ASSUME RoundsInv, Moves PROVE RoundsInv'
<1>1. Inserted' = Inserted
  BY DEF Moves, Inserted
<1>2. \A t \in Ids : Current(t)' <=> Current(t)
  BY DEF Moves, Current
<1>3. \A t \in Ids : Successors(t)' = Successors(t)
  <2>1. \A u \in Inserted : tasks'[u].parent = tasks[u].parent
    BY DEF Moves, Inserted
  <2> QED  BY <1>1, <2>1 DEF Successors
<1>4. NoGap'
  BY <1>1 DEF RoundsInv, NoGap
<1>5. Inserted \subseteq Ids
  BY DEF Inserted
<1>6. \A t, u \in Inserted :
         /\ Current(t)' /\ Current(u)' /\ tasks'[t].ident = tasks'[u].ident => t = u
         /\ tasks'[t].parent = tasks'[u].parent /\ tasks'[t].parent # 0 => t = u
  BY <1>2, <1>5 DEF RoundsInv, Rounds, Moves
<1>7. \A t \in Inserted :
         /\ tasks'[t].superseded <=> Successors(t)' # {}
         /\ tasks'[t].superseded => tasks'[t].status \in Terminal
         /\ tasks'[t].parent < t
  BY <1>3, <1>5 DEF RoundsInv, Rounds, Moves, Terminal
<1> QED  BY <1>1, <1>4, <1>6, <1>7 DEF RoundsInv, Rounds

\* One row is written without touching its place among the rounds.
LEMMA RowMoves ==
    ASSUME EngineInv, NEW t \in Ids, NEW rw, SetRow(t, rw),
           rw.parent = tasks[t].parent, rw.superseded = tasks[t].superseded,
           rw.ident = tasks[t].ident,
           \/ rw.status = tasks[t].status
           \/ tasks[t].status \in {"pending", "running"} /\ rw.status # "absent"
    PROVE  Moves
<1>1. \A u \in Ids : tasks'[u] = IF u = t THEN rw ELSE tasks[u]
  BY DEF EngineInv, TypeOK, SetRow
<1> QED  BY <1>1 DEF Moves

\* The steps of the dispatcher, the handlers and the engine are of this kind.
LEMMA EngineMoves ==
    ASSUME EngineInv, NEW w \in Slots, NEW t \in Ids,
           \/ ClaimNext(w, t) \/ WriteCheckpoint(w, t) \/ CallEffect(w, t)
           \/ ResolveOperation(w, t) \/ AbandonClaim(w, t) \/ FailClaim(w, t)
           \/ CommitResult(w, t)
           \/ \E k \in Keys : AdmitEffect(w, t, k) \/ ObserveOperation(w, t, k)
           \/ \E r \in Result : HandlerReturns(w, t, r)
    PROVE  Moves
<1> DEFINE x == tasks[t]
<1>1. x \in Row
  BY DEF EngineInv, TypeOK
<1>2. ASSUME tasks' = tasks PROVE Moves
  BY <1>2 DEF Moves
<1>3. CASE ClaimNext(w, t)
  <2> DEFINE rw == [x EXCEPT !.status = "running", !.mode = ClaimMode(t), !.gen = x.gen + 1,
                              !.live = TRUE]
  <2>1. SetRow(t, rw) /\ x.status \in {"pending", "running"}
    BY <1>3 DEF ClaimNext, ClaimExpired, ClaimPending
  <2>2. /\ rw.parent = x.parent /\ rw.superseded = x.superseded /\ rw.ident = x.ident
        /\ rw.status = "running"
    BY <1>1 DEF Row
  <2> HIDE DEF rw
  <2> QED  BY <2>1, <2>2, RowMoves
<1>4. CASE WriteCheckpoint(w, t)
  <2> DEFINE rw == [x EXCEPT !.ckpt = TRUE, !.mode = "recover"]
  <2>1. SetRow(t, rw)
    BY <1>4 DEF WriteCheckpoint
  <2>2. /\ rw.parent = x.parent /\ rw.superseded = x.superseded /\ rw.ident = x.ident
        /\ rw.status = x.status
    BY <1>1 DEF Row
  <2> HIDE DEF rw
  <2> QED  BY <2>1, <2>2, RowMoves
<1>5. CASE ResolveOperation(w, t)
  <2> DEFINE rw == [x EXCEPT !.key = NoKey, !.admitted = 0, !.ckpt = TRUE, !.mode = "recover"]
  <2>1. SetRow(t, rw)
    BY <1>5 DEF ResolveOperation
  <2>2. /\ rw.parent = x.parent /\ rw.superseded = x.superseded /\ rw.ident = x.ident
        /\ rw.status = x.status
    BY <1>1 DEF Row
  <2> HIDE DEF rw
  <2> QED  BY <2>1, <2>2, RowMoves
<1>6. ASSUME NEW gen, ShortenLease(t, gen) PROVE Moves
  <2> DEFINE rw == [x EXCEPT !.mode = "recover"]
  <2>1. SetRow(t, rw) \/ tasks' = tasks
    BY <1>6 DEF ShortenLease
  <2>2. /\ rw.parent = x.parent /\ rw.superseded = x.superseded /\ rw.ident = x.ident
        /\ rw.status = x.status
    BY <1>1 DEF Row
  <2> HIDE DEF rw
  <2> QED  BY <1>2, <2>1, <2>2, RowMoves
<1>7. CASE CommitResult(w, t)
  <2> DEFINE rw == SettledRow(t, exec[w].result)
  <2>1. SetRow(t, rw) /\ x.status = "running"
    BY <1>7 DEF CommitResult, ClaimValid
  <2>2. exec[w].result \in Result
    BY <1>7 DEF CommitResult, Runs, EngineInv, TypeOK, Invocation
  <2>3. rw.status = StatusAfter(t, exec[w].result)
    BY <1>1 DEF SettledRow, Row
  <2>4. StatusAfter(t, exec[w].result) # "absent"
    BY <2>2 DEF StatusAfter, Result
  <2>5. rw.parent = x.parent /\ rw.superseded = x.superseded /\ rw.ident = x.ident
    BY <1>1 DEF SettledRow, Row
  <2> HIDE DEF rw
  <2> QED  BY <2>1, <2>3, <2>4, <2>5, RowMoves
<1>8. ASSUME NEW k \in Keys, AdmitEffect(w, t, k) PROVE Moves
  <2> DEFINE rw == [x EXCEPT !.key = k, !.admitted = x.retry + 1, !.ckpt = TRUE, !.mode = "recover"]
  <2>1. SetRow(t, rw)
    BY <1>8 DEF AdmitEffect
  <2>2. /\ rw.parent = x.parent /\ rw.superseded = x.superseded /\ rw.ident = x.ident
        /\ rw.status = x.status
    BY <1>1 DEF Row
  <2> HIDE DEF rw
  <2> QED  BY <2>1, <2>2, RowMoves
<1>9. ASSUME NEW k \in Keys, ObserveOperation(w, t, k) PROVE Moves
  <2> DEFINE rw == [x EXCEPT !.key = k, !.admitted = 0]
  <2>1. SetRow(t, rw)
    BY <1>9 DEF ObserveOperation
  <2>2. /\ rw.parent = x.parent /\ rw.superseded = x.superseded /\ rw.ident = x.ident
        /\ rw.status = x.status
    BY <1>1 DEF Row
  <2> HIDE DEF rw
  <2> QED  BY <2>1, <2>2, RowMoves
<1>10. CASE AbandonClaim(w, t)
  BY <1>2, <1>6, <1>10 DEF AbandonClaim
<1>11. CASE CallEffect(w, t) \/ FailClaim(w, t) \/ \E r \in Result : HandlerReturns(w, t, r)
  BY <1>2, <1>11 DEF CallEffect, FailClaim, HandlerReturns, dbVars
<1> QED
  BY <1>3, <1>4, <1>5, <1>7, <1>8, <1>9, <1>10, <1>11

\* A new id is above every id in use, and no row names it as its parent.
LEMMA NewIdUnused ==
    ASSUME EngineInv, RoundsInv, NEW n \in Ids, NextId(n)
    PROVE  /\ \A t \in Inserted : t < n /\ tasks[t].parent # n
           /\ \A t \in 1 .. n - 1 : t \in Inserted
<1>1. n \notin Inserted /\ \A t \in 1 .. n - 1 : t \in Inserted
  BY DEF NextId
<1>2. ASSUME NEW t \in Inserted PROVE t < n /\ tasks[t].parent # n
  <2>1. t \in Nat /\ n \in Nat /\ n >= 1 /\ t # n
    BY <1>1, BoundsAssumption DEF Inserted, Ids
  <2>2. ~(n < t)
    <3> SUFFICES ASSUME n < t PROVE FALSE
      OBVIOUS
    <3>1. n \in 1 .. t - 1
      BY <2>1
    <3> QED  BY <1>1, <3>1 DEF RoundsInv, NoGap
  <2>3. tasks[t].parent < t /\ tasks[t].parent \in Nat
    <3>1. t \in Ids /\ tasks[t] \in Row
      BY DEF Inserted, EngineInv, TypeOK
    <3>2. tasks[t].parent \in 0 .. MaxTasks
      BY <3>1 DEF Row
    <3> QED  BY <3>2, BoundsAssumption DEF RoundsInv, Rounds
  <2> QED  BY <2>1, <2>2, <2>3
<1> QED  BY <1>1, <1>2

\* Service.Enqueue starts the only round of an identity nobody holds.
LEMMA EnqueueRounds ==
    ASSUME EngineInv, RoundsInv, NEW i \in Idents, Enqueue(i) PROVE RoundsInv'
<1> DEFINE rw == NewRow(i, "execute", FALSE, 0)
<1>1. PICK n \in Ids : NextId(n) /\ SetRow(n, rw)
  BY DEF Enqueue
<1>2. rw.parent = 0 /\ rw.superseded = FALSE /\ rw.ident = i /\ rw.status = "pending"
  BY DEF NewRow
<1> HIDE DEF rw
<1>3. tasks'[n] = rw /\ \A t \in Ids \ {n} : tasks'[t] = tasks[t]
  BY <1>1 DEF SetRow, EngineInv, TypeOK
<1>4. Inserted' = Inserted \cup {n} /\ n \notin Inserted /\ Inserted \subseteq Ids
  BY <1>1, <1>2, <1>3 DEF Inserted, NextId
<1>5. \A t \in Inserted : tasks'[t] = tasks[t] /\ t < n /\ tasks[t].parent # n
  BY <1>1, <1>3, <1>4, NewIdUnused
<1>6. Successors(n)' = {} /\ \A t \in Inserted : Successors(t)' = Successors(t)
  <2>1. \A t \in Inserted : t # 0
    BY <1>4, BoundsAssumption DEF Ids
  <2>2. n # 0
    BY BoundsAssumption DEF Ids
  <2> QED  BY <1>2, <1>3, <1>4, <1>5, <2>1, <2>2 DEF Successors
<1>7. NoGap'
  <2>1. 1 .. n - 1 \subseteq Inserted
    BY <1>1 DEF NextId
  <2> QED  BY <1>4, <2>1 DEF RoundsInv, NoGap
<1>8. \A t \in Inserted : ~(Current(t) /\ tasks[t].ident = i)
  BY <1>4 DEF Enqueue, Holds
<1>9. \A t, u \in Inserted' :
         /\ Current(t)' /\ Current(u)' /\ tasks'[t].ident = tasks'[u].ident => t = u
         /\ tasks'[t].parent = tasks'[u].parent /\ tasks'[t].parent # 0 => t = u
  BY <1>2, <1>3, <1>4, <1>5, <1>8 DEF RoundsInv, Rounds, Current
<1>10. 0 < n
  BY BoundsAssumption DEF Ids
<1>11. \A t \in Inserted' :
         /\ tasks'[t].superseded <=> Successors(t)' # {}
         /\ tasks'[t].superseded => tasks'[t].status \in Terminal
         /\ tasks'[t].parent < t
  BY <1>2, <1>3, <1>4, <1>5, <1>6, <1>10 DEF RoundsInv, Rounds
<1> QED  BY <1>7, <1>9, <1>11 DEF RoundsInv, Rounds

\* SupersedeTerminal and the INSERT of the successor extend one chain of rounds.
LEMMA SucceedRounds ==
    ASSUME EngineInv, RoundsInv, NEW s \in Ids, NEW i \in Idents, NEW mode, NEW ckpt,
           Succeed(s, i, mode, ckpt)
    PROVE  RoundsInv'
<1> DEFINE rw == NewRow(i, mode, ckpt, s)
           old == [tasks[s] EXCEPT !.superseded = TRUE]
<1>1. PICK n \in Ids : NextId(n) /\ tasks' = [tasks EXCEPT ![s] = old, ![n] = rw]
  BY DEF Succeed
<1>2. rw.parent = s /\ rw.superseded = FALSE /\ rw.ident = i /\ rw.status = "pending"
  BY DEF NewRow
<1>3. /\ old.superseded = TRUE /\ old.parent = tasks[s].parent /\ old.ident = tasks[s].ident
      /\ old.status = tasks[s].status
  BY DEF EngineInv, TypeOK, Row
<1> HIDE DEF rw, old
<1>4. s \in Inserted /\ tasks[s].status \in Terminal /\ ~tasks[s].superseded /\ Successors(s) = {}
  BY DEF Succeed, Inserted, Terminal
<1>5. n \notin Inserted /\ s # n
  BY <1>1, <1>4 DEF NextId
<1>6. /\ tasks'[n] = rw /\ tasks'[s] = old
      /\ \A t \in Ids \ {n, s} : tasks'[t] = tasks[t]
  BY <1>1, <1>5 DEF EngineInv, TypeOK
<1>7. Inserted' = Inserted \cup {n} /\ Inserted \subseteq Ids
  BY <1>2, <1>3, <1>4, <1>5, <1>6 DEF Inserted, Terminal
<1>8. \A t \in Inserted :
         /\ t < n /\ tasks[t].parent # n /\ tasks'[t].parent = tasks[t].parent
         /\ tasks'[t].ident = tasks[t].ident /\ tasks'[t].status = tasks[t].status
         /\ (t # s => tasks'[t] = tasks[t])
  BY <1>1, <1>3, <1>5, <1>6, <1>7, NewIdUnused
<1>9. /\ Successors(n)' = {} /\ n \in Successors(s)'
      /\ \A t \in Inserted \ {s} : Successors(t)' = Successors(t)
  BY <1>2, <1>5, <1>6, <1>7, <1>8 DEF Successors
<1>10. NoGap'
  <2>1. 1 .. n - 1 \subseteq Inserted
    BY <1>1 DEF NextId
  <2> QED  BY <1>7, <2>1 DEF RoundsInv, NoGap
<1>11. \A t \in Inserted : Current(t)' /\ tasks'[t].ident = i => FALSE
  <2> SUFFICES ASSUME NEW t \in Inserted, Current(t)', tasks'[t].ident = i PROVE FALSE
    OBVIOUS
  <2>1. CASE t = s
    BY <1>3, <1>6, <2>1 DEF Current
  <2>2. CASE t # s
    BY <1>7, <1>8, <2>2 DEF Succeed, Holds, Current
  <2> QED  BY <2>1, <2>2
<1>12. \A t \in Inserted : tasks[t].parent # s
  BY <1>4 DEF Successors
<1>13. \A t \in Inserted : Current(t)' => Current(t)
  BY <1>3, <1>6, <1>8 DEF Current
<1>14. \A t, u \in Inserted' :
         /\ Current(t)' /\ Current(u)' /\ tasks'[t].ident = tasks'[u].ident => t = u
         /\ tasks'[t].parent = tasks'[u].parent /\ tasks'[t].parent # 0 => t = u
  <2> SUFFICES ASSUME NEW t \in Inserted', NEW u \in Inserted'
               PROVE  /\ Current(t)' /\ Current(u)' /\ tasks'[t].ident = tasks'[u].ident => t = u
                      /\ tasks'[t].parent = tasks'[u].parent /\ tasks'[t].parent # 0 => t = u
    OBVIOUS
  <2>1. CASE t \in Inserted /\ u \in Inserted
    BY <1>8, <1>13, <2>1 DEF RoundsInv, Rounds
  <2>2. CASE t = n /\ u \in Inserted
    BY <1>2, <1>6, <1>8, <1>11, <1>12, <2>2
  <2>3. CASE u = n /\ t \in Inserted
    BY <1>2, <1>6, <1>8, <1>11, <1>12, <2>3
  <2> QED  BY <1>7, <2>1, <2>2, <2>3
<1>15. s < n
  BY <1>4, <1>8
<1>16. \A t \in Inserted' :
         /\ tasks'[t].superseded <=> Successors(t)' # {}
         /\ tasks'[t].superseded => tasks'[t].status \in Terminal
         /\ tasks'[t].parent < t
  <2> SUFFICES ASSUME NEW t \in Inserted'
               PROVE  /\ tasks'[t].superseded <=> Successors(t)' # {}
                      /\ tasks'[t].superseded => tasks'[t].status \in Terminal
                      /\ tasks'[t].parent < t
    OBVIOUS
  <2>1. CASE t = n
    BY <1>2, <1>6, <1>9, <1>15, <2>1
  <2>2. CASE t = s
    BY <1>3, <1>4, <1>6, <1>9, <2>2 DEF RoundsInv, Rounds
  <2>3. CASE t \in Inserted \ {s}
    BY <1>8, <1>9, <2>3 DEF RoundsInv, Rounds
  <2> QED  BY <1>7, <2>1, <2>2, <2>3
<1> QED  BY <1>10, <1>14, <1>16 DEF RoundsInv, Rounds

\* Retries, plan replacements and recovery rounds are successions.
LEMMA RetrySuccessorRounds ==
    ASSUME EngineInv, RoundsInv, NEW s \in Ids, NEW ckpt, RetrySuccessor(s, ckpt)
    PROVE  RoundsInv'
<1>1. tasks[s].ident \in Idents
  BY DEF EngineInv, TypeOK, Row
<1> QED  BY <1>1, SucceedRounds DEF RetrySuccessor

\* Every step keeps the rounds.
LEMMA NextRounds == ASSUME EngineInv, RoundsInv, [Next]_vars PROVE RoundsInv'
<1>1. CASE \E i \in Idents : Enqueue(i)
  BY <1>1, EnqueueRounds
<1>2. ASSUME NEW t \in Ids, EnqueueOrReplaceTerminal(t) PROVE RoundsInv'
  <2>1. tasks[t].ident \in Idents
    BY DEF EngineInv, TypeOK, Row
  <2> QED  BY <1>2, <2>1, SucceedRounds DEF EnqueueOrReplaceTerminal
<1>3. ASSUME NEW t \in Ids, RetryInTransaction(t) PROVE RoundsInv'
  BY <1>3, RetrySuccessorRounds DEF RetryInTransaction
<1>4. ASSUME NEW o \in Operators, RetryCommits(o) PROVE RoundsInv'
  <2>1. reads[o].source \in Ids
    BY <1>4 DEF RetryCommits, EngineInv, TypeOK, RetryRead
  <2>2. RetrySuccessor(reads[o].source, reads[o].ckpt)
    BY <1>4 DEF RetryCommits
  <2> QED  BY <2>1, <2>2, RetrySuccessorRounds
<1>5. ASSUME tasks' = tasks PROVE RoundsInv'
  BY <1>5, MovesRounds DEF Moves
<1>6. CASE \/ \E o \in Operators : RetryEnds(o)
           \/ \E o \in Operators, s \in Ids : RetryReads(o, s)
           \/ \E w \in Slots : LeaseUnsafe(w)
           \/ Crash \/ UNCHANGED vars
  BY <1>5, <1>6 DEF RetryEnds, RetryReads, LeaseUnsafe, Crash, vars, dbVars
<1>7. ASSUME NEW w \in Slots, NEW t \in Ids,
             \/ ClaimNext(w, t) \/ WriteCheckpoint(w, t) \/ CallEffect(w, t)
             \/ ResolveOperation(w, t) \/ AbandonClaim(w, t) \/ FailClaim(w, t)
             \/ CommitResult(w, t)
             \/ \E k \in Keys : AdmitEffect(w, t, k) \/ ObserveOperation(w, t, k)
             \/ \E r \in Result : HandlerReturns(w, t, r)
      PROVE  RoundsInv'
  BY <1>7, EngineMoves, MovesRounds
<1>8. ASSUME NEW t \in Ids, LeaseExpires(t) PROVE RoundsInv'
  <2> DEFINE rw == [tasks[t] EXCEPT !.live = FALSE]
  <2>1. SetRow(t, rw) /\ tasks[t] \in Row
    BY <1>8 DEF LeaseExpires, EngineInv, TypeOK
  <2>2. /\ rw.parent = tasks[t].parent /\ rw.superseded = tasks[t].superseded
        /\ rw.ident = tasks[t].ident /\ rw.status = tasks[t].status
    BY <2>1 DEF Row
  <2> HIDE DEF rw
  <2> QED  BY <2>1, <2>2, RowMoves, MovesRounds
<1>9. ASSUME NEW t \in Ids, NEW gen \in 0 .. MaxClaims, RecoverLease(t, gen) PROVE RoundsInv'
  <2> DEFINE rw == [tasks[t] EXCEPT !.mode = "recover"]
  <2>1. (SetRow(t, rw) \/ tasks' = tasks) /\ tasks[t] \in Row
    BY <1>9 DEF RecoverLease, ShortenLease, EngineInv, TypeOK
  <2>2. /\ rw.parent = tasks[t].parent /\ rw.superseded = tasks[t].superseded
        /\ rw.ident = tasks[t].ident /\ rw.status = tasks[t].status
    BY <2>1 DEF Row
  <2> HIDE DEF rw
  <2> QED  BY <1>5, <2>1, <2>2, RowMoves, MovesRounds
<1> QED
  BY <1>1, <1>2, <1>3, <1>4, <1>6, <1>7, <1>8, <1>9 DEF Next

\* The rounds of an identity form one chain: one of them is current, each has one
\* successor at most, and only a terminal one has any, whatever enqueues, retries,
\* replacements and settlements race (Enqueue, SupersedeTerminal, Service.Retry).
THEOREM RoundsFormChains == Spec => []Rounds
<1>1. Init => RoundsInv
  BY DEF Init, NoRow, NewRow, RoundsInv, Rounds, NoGap, Inserted
<1>2. EngineInv /\ RoundsInv /\ [Next]_vars => RoundsInv'
  BY NextRounds
<1>3. RoundsInv => Rounds
  BY DEF RoundsInv
<1> QED  BY <1>1, <1>2, <1>3, EngineInvariant, PTL DEF Spec

-----------------------------------------------------------------------------
(***************************************************************************)
(* WalletOperation.                                                        *)
(***************************************************************************)

Bounds ==
    /\ WalletAttempts \in Nat \ {0}
    /\ MaxTxs \in Nat /\ MaxFaults \in Nat /\ MaxCrashes \in Nat
    /\ None \notin Checkpoint

\* At most one transaction, and one that is included has used its nonce.
TxInv ==
    /\ txs \in Seq(Transaction) /\ Len(txs) <= 1
    /\ \A i \in DOMAIN txs : txs[i].st \in {"landed", "reverted"} => txs[i].nonce # "free"

\* What the checkpoint and the row know of it.
Evidence ==
    /\ op.attempted <=> row.cp # None
    /\ row.cp # None => row.cp.tx = op.tx /\ (row.cp.notSent => txs = <<>> /\ row.status = "failed")
    /\ txs # <<>> => row.cp # None
    /\ op.tx # 0 => row.cp # None /\ op.tx = 1 /\ Len(txs) = 1
    /\ row.status \in {"pending", "running"} => op.owned
    /\ op.owned => op.status \in {"pending", "submitted"}
    /\ op.status = "none" => row.status = "none" /\ row.cp = None
    /\ op.status = "submitted" => op.tx # 0
    /\ op.status = "pending" => op.tx = 0

\* What an invocation has established when it comes to a step.
Position ==
    /\ At("admit") => row.cp = None
    /\ At("send") => row.cp # None /\ txs = <<>>
    /\ At("record") => row.cp # None /\ inv.tx = 1 /\ Len(txs) = 1 /\ op.tx = 0
    /\ row.status = "running"
         /\ inv.pc \in {"observe", "receipt", "readmit", "visible", "final", "latest", "resend"}
       => op.tx # 0
    /\ At("latest") /\ inv.dead => txs[op.tx].permit = "dead"

\* A transaction behind a failed operation has failed itself, or its permit is over.
Outcome ==
    /\ op.status = "failed" =>
          \A i \in DOMAIN txs :
              \/ txs[i].st = "reverted"
              \/ txs[i].permit = "dead" /\ txs[i].st # "landed"
    /\ op.status = "confirmed" =>
          IF op.tx = 0 THEN kind = "approve" /\ txs = <<>> ELSE txs[op.tx].st = "landed"
    /\ op.status = "unknown" /\ op.tx # 0 => txs[op.tx].nonce = "final"

IInv == WalletTypeOK /\ TxInv /\ Evidence /\ Position /\ Outcome

-----------------------------------------------------------------------------
(* The rows a settlement leaves.                                           *)

\* A row with another status, mode or window keeps its checkpoint.
LEMMA Settlements ==
    ASSUME Bounds, row \in WalletTask
    PROVE  /\ \A m \in {"execute", "recover"} :
                  /\ Waits(m) \in WalletTask /\ Waits(m).cp = row.cp /\ Waits(m).status = "pending"
                  /\ Retries(m) \in WalletTask /\ Retries(m).cp = row.cp
                  /\ Retries(m).status \in {"pending", "failed"}
           /\ \A f \in BOOLEAN :
                  Fails(f) \in WalletTask /\ Fails(f).cp = row.cp /\ Fails(f).status = "failed"
<1>1. row.retry \in Nat /\ (row.retry + 1 < WalletAttempts => row.retry + 1 \in 0..(WalletAttempts - 1))
  BY DEF Bounds, WalletTask
<1>2. ASSUME NEW m \in {"execute", "recover"}
      PROVE  /\ Waits(m) \in WalletTask /\ Waits(m).cp = row.cp /\ Waits(m).status = "pending"
             /\ Retries(m) \in WalletTask /\ Retries(m).cp = row.cp
             /\ Retries(m).status \in {"pending", "failed"}
  BY <1>1 DEF Waits, Retries, WalletTask
<1>3. ASSUME NEW f \in BOOLEAN
      PROVE  Fails(f) \in WalletTask /\ Fails(f).cp = row.cp /\ Fails(f).status = "failed"
  BY DEF Fails, WalletTask
<1> QED  BY <1>2, <1>3

\* Another admission of the same or a new checkpoint.
LEMMA Admissions ==
    ASSUME Bounds, row \in WalletTask, NEW cp \in Checkpoint \union {None}
    PROVE  /\ Admitted(cp) \in WalletTask /\ Admitted(cp).cp = cp /\ Admitted(cp).status = row.status
           /\ row.retry + 1 \in 0..WalletAttempts
<1>1. row.retry + 1 \in 0..WalletAttempts
  BY DEF Bounds, WalletTask
<1> QED  BY <1>1 DEF Admitted, WalletTask

\* walletObservation keeps the checkpoint it was given.
LEMMA Observations ==
    ASSUME Bounds, row \in WalletTask, NEW r \in WalletTask, NEW s \in BOOLEAN
    PROVE  /\ Observed(r, s) \in WalletTask /\ Observed(r, s).cp = r.cp
           /\ Observed(r, s).status \in {"pending", "failed"}
<1> DEFINE m == IF s THEN "execute" ELSE "recover"
<1>1. Retries(m) \in WalletTask /\ Retries(m).status \in {"pending", "failed"}
  BY Settlements
<1>2. r.cp \in Checkpoint \union {None}
  BY DEF WalletTask
<1> DEFINE x == Retries(m)
<1>3. x \in WalletTask /\ x.status \in {"pending", "failed"}
  BY <1>1
<1> HIDE DEF x
<1>4. [x EXCEPT !.cp = r.cp] \in WalletTask /\ [x EXCEPT !.cp = r.cp].cp = r.cp
      /\ [x EXCEPT !.cp = r.cp].status \in {"pending", "failed"}
  BY <1>2, <1>3 DEF WalletTask
<1>5. CASE r.watch = "over"
  BY <1>4, <1>5 DEF Observed, x
<1>6. CASE r.watch # "over"
  BY <1>6 DEF Observed, WalletTask
<1> QED  BY <1>5, <1>6

\* A fault or a crash is taken from what is left of them.
LEMMA SpendTyped ==
    ASSUME Bounds, WalletTypeOK, NEW b \in {"faults", "crashes"}, Spend(b)
    PROVE  left' \in [faults : 0..MaxFaults, crashes : 0..MaxCrashes]
<1>1. left.faults \in 0..MaxFaults /\ left.crashes \in 0..MaxCrashes
      /\ left \in [faults : 0..MaxFaults, crashes : 0..MaxCrashes]
  BY DEF WalletTypeOK
<1>2. CASE b = "faults"
  <2>1. left.faults - 1 \in 0..MaxFaults
    BY <1>1, <1>2 DEF Spend, Bounds
  <2> QED  BY <1>1, <1>2, <2>1 DEF Spend
<1>3. CASE b = "crashes"
  <2>1. left.crashes - 1 \in 0..MaxCrashes
    BY <1>1, <1>3 DEF Spend, Bounds
  <2> QED  BY <1>1, <1>3, <2>1 DEF Spend
<1> QED  BY <1>2, <1>3

\* Between two invocations.
LEMMA IdleTyped == ASSUME Bounds PROVE Idle \in WalletInvocation /\ Idle.pc = "idle"
BY DEF Bounds, Idle, WalletInvocation

-----------------------------------------------------------------------------
(* Steps of one kind.                                                      *)

\* An invocation that only ends: nothing of the evidence moves.
LEMMA EndsQuietly ==
    ASSUME Bounds, IInv, row.status \in {"pending", "running"}, row' \in WalletTask, row'.cp = row.cp,
           row'.status \in {"pending", "failed"}, inv' = Idle, UNCHANGED <<kind, op, txs>>,
           left' \in [faults : 0..MaxFaults, crashes : 0..MaxCrashes]
    PROVE  IInv'
<1>1. WalletTypeOK'
  BY IdleTyped DEF IInv, WalletTypeOK
<1>2. TxInv' /\ Outcome'
  BY DEF IInv, TxInv, Outcome
<1>3. Evidence'
  BY DEF IInv, Evidence
<1>4. Position'
  BY DEF Position, At, Idle
<1> QED  BY <1>1, <1>2, <1>3, <1>4 DEF IInv

\* An invocation that goes on to another step and changes nothing else.
LEMMA GoesOn ==
    ASSUME Bounds, IInv, row.status = "running", inv' \in WalletInvocation,
           UNCHANGED <<kind, op, row, txs, left>>, Position'
    PROVE  IInv'
BY DEF IInv, WalletTypeOK, TxInv, Evidence, Outcome

\* A settlement that ends the operation.
LEMMA EndsOperation ==
    ASSUME Bounds, IInv, row.status = "running", row' \in WalletTask, row'.status \in {"done", "failed"},
           row'.cp = row.cp, inv' = Idle, UNCHANGED <<kind, txs, left>>,
           op' \in {MarkConfirmed(op), MarkFailed(op), MarkUnknown(op)}, Outcome'
    PROVE  IInv'
<1>1. /\ op' \in Operation /\ op'.tx = op.tx /\ op'.attempted = op.attempted /\ ~op'.owned
      /\ op'.status \in {"confirmed", "failed", "unknown"}
  BY DEF IInv, WalletTypeOK, Operation, MarkConfirmed, MarkFailed, MarkUnknown
<1>2. WalletTypeOK'
  BY <1>1, IdleTyped DEF IInv, WalletTypeOK
<1>3. TxInv'
  BY DEF IInv, TxInv
<1>4. Evidence'
  BY <1>1 DEF IInv, Evidence
<1>5. Position'
  BY DEF Position, At, Idle
<1> QED  BY <1>2, <1>3, <1>4, <1>5 DEF IInv

-----------------------------------------------------------------------------
(* The engine and the operator.                                            *)

\* The rows of a running task, for the steps that follow.
LEMMA Running ==
    ASSUME IInv, row.status = "running"
    PROVE  /\ row \in WalletTask /\ op \in Operation /\ inv \in WalletInvocation /\ op.owned
           /\ op.status \in {"pending", "submitted"}
           /\ row.cp # None => ~row.cp.notSent
           /\ left \in [faults : 0..MaxFaults, crashes : 0..MaxCrashes]
BY DEF IInv, WalletTypeOK, Evidence, WalletTask, Checkpoint

\* handleAPIWalletOperation creates the operation without evidence.
LEMMA RequestKeeps == ASSUME Bounds, IInv, Request PROVE IInv'
<1>1. op.status = "none" /\ row.cp = None /\ ~op.attempted /\ txs = <<>> /\ op.tx = 0
  BY DEF Request, IInv, Evidence
<1>2. /\ op' \in Operation /\ op'.status = "pending" /\ op'.owned /\ ~op'.attempted /\ op'.tx = 0
  BY <1>1 DEF Request, IInv, WalletTypeOK, Operation
<1>3. row' \in WalletTask /\ row'.cp = None /\ row'.status = "pending"
  BY DEF Request, FreshRow, WalletTask, Bounds
<1>4. UNCHANGED <<kind, inv, txs, left>>
  BY DEF Request
<1>5. WalletTypeOK' /\ TxInv'
  BY <1>2, <1>3, <1>4 DEF IInv, WalletTypeOK, TxInv
<1>6. Evidence' /\ Outcome'
  BY <1>1, <1>2, <1>3, <1>4 DEF Evidence, Outcome
<1>7. Position'
  BY <1>3 DEF Position, At
<1> QED  BY <1>5, <1>6, <1>7 DEF IInv

\* A claim starts an invocation that has established nothing.
LEMMA ClaimKeeps == ASSUME Bounds, IInv, ClaimOperation PROVE IInv'
<1>1. /\ row.status = "pending" /\ row \in WalletTask /\ inv' = [Idle EXCEPT !.pc = "run", !.mode = row.mode]
      /\ row' = [row EXCEPT !.status = "running"] /\ UNCHANGED <<kind, op, txs, left>>
  BY DEF ClaimOperation, IInv, WalletTypeOK
<1>2. row' \in WalletTask /\ row'.cp = row.cp /\ row'.status = "running"
  BY <1>1 DEF WalletTask
<1>3. inv' \in WalletInvocation /\ inv'.pc = "run"
  BY <1>1, IdleTyped DEF WalletInvocation, WalletTask, Idle
<1>4. WalletTypeOK' /\ TxInv' /\ Outcome'
  BY <1>1, <1>2, <1>3 DEF IInv, WalletTypeOK, TxInv, Outcome
<1>5. Evidence'
  BY <1>1, <1>2 DEF IInv, Evidence
<1>6. Position'
  BY <1>3 DEF Position, At
<1> QED  BY <1>4, <1>5, <1>6 DEF IInv

\* taskengine.Retry after a failing call.
LEMMA FaultRetriesKeeps ==
    ASSUME Bounds, IInv, row.status = "running", FaultRetries PROVE IInv'
<1>1. row \in WalletTask /\ left' \in [faults : 0..MaxFaults, crashes : 0..MaxCrashes]
  BY SpendTyped DEF IInv, WalletTypeOK, FaultRetries
<1>2. row' = Retries("recover") /\ inv' = Idle /\ UNCHANGED <<kind, op, txs>>
  BY DEF FaultRetries, End
<1>3. row' \in WalletTask /\ row'.cp = row.cp /\ row'.status \in {"pending", "failed"}
  BY <1>1, <1>2, Settlements
<1> QED  BY <1>1, <1>2, <1>3, EndsQuietly

\* A crash loses the invocation and keeps the rows.
LEMMA CrashKeeps == ASSUME Bounds, IInv, WalletCrash PROVE IInv'
<1>1. row \in WalletTask /\ left' \in [faults : 0..MaxFaults, crashes : 0..MaxCrashes]
  BY SpendTyped DEF IInv, WalletTypeOK, WalletCrash
<1>2. /\ row.status = "running" /\ row' = Waits("recover") /\ inv' = Idle
      /\ UNCHANGED <<kind, op, txs>>
  BY DEF WalletCrash, End
<1>3. row' \in WalletTask /\ row'.cp = row.cp /\ row'.status \in {"pending", "failed"}
  BY <1>1, <1>2, Settlements
<1> QED  BY <1>1, <1>2, <1>3, EndsQuietly

\* walletObservation ends an invocation.
LEMMA ObserveKeeps ==
    ASSUME Bounds, IInv, row.status = "running", Observe, txs' = txs,
           left' \in [faults : 0..MaxFaults, crashes : 0..MaxCrashes]
    PROVE  IInv'
<1>1. row \in WalletTask /\ op.signed \in BOOLEAN
  BY DEF IInv, WalletTypeOK, Operation
<1>2. row' = Observed(row, op.signed) /\ inv' = Idle /\ UNCHANGED <<kind, op>>
  BY DEF Observe, End
<1>3. row' \in WalletTask /\ row'.cp = row.cp /\ row'.status \in {"pending", "failed"}
  BY <1>1, <1>2, Observations
<1> QED  BY <1>2, <1>3, EndsQuietly

\* The observation window says nothing of the evidence.
LEMMA WindowKeeps == ASSUME Bounds, IInv, WindowElapses PROVE IInv'
<1>1. /\ row.status = "pending" /\ row \in WalletTask /\ row' = [row EXCEPT !.watch = "over"]
      /\ UNCHANGED <<kind, op, inv, txs, left>>
  BY DEF WindowElapses, IInv, WalletTypeOK
<1>2. row' \in WalletTask /\ row'.cp = row.cp /\ row'.status = row.status
  BY <1>1 DEF WalletTask
<1> QED  BY <1>1, <1>2 DEF IInv, WalletTypeOK, TxInv, Evidence, Position, Outcome, At

\* The operator's Retry drops only the checkpoint of a broadcast that was not sent.
LEMMA RetryKeeps == ASSUME Bounds, IInv, Retry PROVE IInv'
<1>1. /\ row.status = "failed" /\ row \in WalletTask /\ op \in Operation /\ UNCHANGED <<kind, inv, txs, left>>
      /\ row' = [FreshRow EXCEPT !.mode = "recover", !.cp = RetryCheckpoint]
  BY DEF Retry, IInv, WalletTypeOK
<1>2. RetryCheckpoint \in Checkpoint \union {None}
  BY <1>1 DEF RetryCheckpoint, WalletTask
<1>3. row' \in WalletTask /\ row'.cp = RetryCheckpoint /\ row'.status = "pending"
  <2>1. FreshRow \in WalletTask /\ FreshRow.status = "pending"
    BY DEF FreshRow, WalletTask, Bounds
  <2> DEFINE f == FreshRow
             c == RetryCheckpoint
  <2> HIDE DEF f, c
  <2>2. /\ [f EXCEPT !.mode = "recover", !.cp = c] \in WalletTask
        /\ [f EXCEPT !.mode = "recover", !.cp = c].cp = c
        /\ [f EXCEPT !.mode = "recover", !.cp = c].status = "pending"
    BY <1>2, <2>1 DEF f, c, WalletTask
  <2> QED  BY <1>1, <2>2 DEF f, c
<1>4. Position'
  BY <1>3 DEF Position, At
<1>5. CASE KnownUnsent
  <2>1. row.cp # None /\ row.cp.notSent /\ txs = <<>>
    BY <1>5 DEF KnownUnsent, IInv, Evidence
  <2>2. op' = [op EXCEPT !.status = "pending", !.owned = TRUE, !.attempted = FALSE] /\ op.tx = 0
    BY <1>5 DEF Retry, ReopenUnsent, TransferOwner
  <2>3. op' \in Operation /\ op'.status = "pending" /\ op'.owned /\ ~op'.attempted /\ op'.tx = 0
    BY <1>1, <2>2 DEF Operation
  <2>4. row'.cp = None
    BY <1>3, <1>5 DEF RetryCheckpoint
  <2>5. WalletTypeOK' /\ TxInv'
    BY <1>1, <1>3, <2>3 DEF IInv, WalletTypeOK, TxInv
  <2>6. Evidence' /\ Outcome'
    BY <1>1, <1>3, <2>1, <2>3, <2>4 DEF Evidence, Outcome
  <2> QED  BY <1>4, <2>5, <2>6 DEF IInv
<1>6. CASE ~KnownUnsent
  <2>1. op' = op /\ op.owned
    BY <1>6 DEF Retry, ReopenUnsent, TransferOwner
  <2>2. row'.cp = row.cp /\ (row.cp # None => ~row.cp.notSent)
    BY <1>3, <1>6 DEF RetryCheckpoint, KnownUnsent
  <2>3. WalletTypeOK' /\ TxInv' /\ Outcome'
    BY <1>1, <1>3, <2>1 DEF IInv, WalletTypeOK, TxInv, Outcome
  <2>4. Evidence'
    BY <1>1, <1>3, <2>1, <2>2 DEF IInv, Evidence
  <2> QED  BY <1>4, <2>3, <2>4 DEF IInv
<1> QED  BY <1>5, <1>6

-----------------------------------------------------------------------------
(* processWalletOperation.                                                 *)

\* The branches of processWalletOperation before a receipt is read.
LEMMA RunKeeps ==
    ASSUME Bounds, IInv, LoadFails \/ RunFresh \/ RunUnknown \/ RunKnown PROVE IInv'
<1>1. row.status = "running" /\ inv.pc = "run" /\ row \in WalletTask /\ inv \in WalletInvocation
  BY DEF LoadFails, RunFresh, RunUnknown, RunKnown, At, IInv, WalletTypeOK
<1>2. CASE LoadFails
  BY <1>1, <1>2, FaultRetriesKeeps DEF LoadFails
<1>3. CASE RunFresh
  <2>1. row.cp = None /\ UNCHANGED <<kind, op, txs, left>>
    BY <1>3 DEF RunFresh, NeverAttempted
  <2>2. CASE End(Waits("execute"))
    <3>1. row' = Waits("execute") /\ inv' = Idle
      BY <2>2 DEF End
    <3>2. row' \in WalletTask /\ row'.cp = row.cp /\ row'.status = "pending"
      BY <1>1, <3>1, Settlements
    <3>3. left' \in [faults : 0..MaxFaults, crashes : 0..MaxCrashes]
      BY <2>1 DEF IInv, WalletTypeOK
    <3> QED  BY <1>1, <2>1, <3>1, <3>2, <3>3, EndsQuietly
  <2>3. CASE Goes("admit") /\ UNCHANGED row
    <3>1. inv' \in WalletInvocation /\ inv'.pc = "admit"
      BY <1>1, <2>3 DEF Goes, WalletInvocation
    <3>2. Position'
      BY <2>1, <2>3, <3>1 DEF Position, At
    <3> QED  BY <1>1, <2>1, <2>3, <3>1, <3>2, GoesOn
  <2> QED  BY <1>3, <2>2, <2>3 DEF RunFresh
<1>4. CASE RunUnknown
  <2>1. row' = Fails(TRUE) /\ inv' = Idle /\ op' = MarkUnknown(op) /\ op.tx = 0 /\ UNCHANGED <<kind, txs, left>>
    BY <1>4 DEF RunUnknown, End
  <2>2. row' \in WalletTask /\ row'.cp = row.cp /\ row'.status = "failed"
    BY <1>1, <2>1, Settlements
  <2>3. op'.status = "unknown" /\ op'.tx = 0
    BY <2>1, <1>1, Running DEF MarkUnknown, Operation
  <2>4. Outcome'
    BY <2>3 DEF Outcome
  <2> QED  BY <1>1, <2>1, <2>2, <2>4, EndsOperation
<1>5. CASE RunKnown
  <2>1. inv' \in WalletInvocation /\ inv'.pc = "receipt" /\ op.tx # 0 /\ UNCHANGED <<kind, op, row, txs, left>>
    BY <1>1, <1>5 DEF RunKnown, Goes, WalletInvocation
  <2>2. Position'
    BY <2>1 DEF Position, At
  <2> QED  BY <1>1, <2>1, <2>2, GoesOn
<1> QED  BY <1>2, <1>3, <1>4, <1>5

\* The receipt decides the outcome of the one transaction.
LEMMA ReceiptKeeps == ASSUME Bounds, IInv, Receipt PROVE IInv'
<1>1. row.status = "running" /\ inv.pc = "receipt" /\ row \in WalletTask /\ inv \in WalletInvocation /\ op.tx # 0
      /\ op \in Operation
  BY DEF Receipt, At, IInv, WalletTypeOK, Position
<1>2. Len(txs) = 1 /\ op.tx = 1 /\ txs \in Seq(Transaction) /\ UNCHANGED <<kind, txs, left>>
  BY <1>1 DEF IInv, Evidence, TxInv, Receipt
<1>3. CASE txs[op.tx].st = "landed"
  <2>1. row' = [row EXCEPT !.status = "done"] /\ inv' = Idle /\ op' = MarkConfirmed(op)
    BY <1>3 DEF Receipt, End
  <2>2. row' \in WalletTask /\ row'.cp = row.cp /\ row'.status = "done"
    BY <1>1, <2>1 DEF WalletTask
  <2>3. op'.status = "confirmed" /\ op'.tx = op.tx
    BY <1>1, <2>1 DEF MarkConfirmed, Operation
  <2>4. Outcome'
    BY <1>1, <1>2, <1>3, <2>3 DEF Outcome
  <2> QED  BY <1>1, <1>2, <2>1, <2>2, <2>4, EndsOperation
<1>4. CASE txs[op.tx].st = "reverted"
  <2>1. row' = Fails(TRUE) /\ inv' = Idle /\ op' = MarkFailed(op)
    BY <1>4 DEF Receipt, End
  <2>2. row' \in WalletTask /\ row'.cp = row.cp /\ row'.status = "failed"
    BY <1>1, <2>1, Settlements
  <2>3. op'.status = "failed" /\ op'.tx = op.tx
    BY <1>1, <2>1 DEF MarkFailed, Operation
  <2>4. \A i \in DOMAIN txs : i = op.tx
    BY <1>2
  <2>5. Outcome'
    BY <1>2, <1>4, <2>3, <2>4 DEF Outcome
  <2> QED  BY <1>1, <1>2, <2>1, <2>2, <2>5, EndsOperation
<1>5. CASE Observe
  BY <1>1, <1>2, <1>5, ObserveKeeps DEF IInv, WalletTypeOK
<1>6. CASE Goes("readmit") /\ UNCHANGED <<op, row>>
  <2>1. inv' \in WalletInvocation /\ inv'.pc = "readmit"
    BY <1>1, <1>6 DEF Goes, WalletInvocation
  <2>2. Position'
    BY <1>1, <1>6, <2>1 DEF Position, At
  <2> QED  BY <1>1, <1>2, <1>6, <2>1, <2>2, GoesOn
<1> QED  BY <1>3, <1>4, <1>5, <1>6 DEF Receipt

-----------------------------------------------------------------------------
(* broadcastWalletOperation.                                               *)

\* The admission writes the evidence before anything is signed.
LEMMA AdmitKeeps == ASSUME Bounds, IInv, Admit \/ AdmitFails PROVE IInv'
<1> DEFINE new == [tx |-> 0, notSent |-> FALSE]
<1>1. row.status = "running" /\ inv.pc = "admit" /\ row \in WalletTask /\ inv \in WalletInvocation /\ op \in Operation
  BY DEF Admit, AdmitFails, At, IInv, WalletTypeOK
<1>2. row.cp = None /\ txs = <<>> /\ op.tx = 0 /\ op.owned /\ op.status = "pending"
  BY <1>1 DEF IInv, Evidence, Position, At
<1>3. new \in Checkpoint /\ new # None /\ new.tx = 0 /\ ~new.notSent
  <2>1. 0 \in 0..MaxTxs
    BY DEF Bounds
  <2>2. new \in Checkpoint
    BY <2>1 DEF Checkpoint
  <2> QED  BY <2>2 DEF Bounds
<1>4. /\ MarkBroadcastAttempted(op) \in Operation /\ MarkBroadcastAttempted(op).tx = 0
      /\ MarkBroadcastAttempted(op).attempted /\ MarkBroadcastAttempted(op).owned
      /\ MarkBroadcastAttempted(op).status = "pending"
  BY <1>1, <1>2 DEF MarkBroadcastAttempted, Operation
<1> HIDE DEF new
<1>5. UNCHANGED <<kind, txs>>
  BY DEF Admit, AdmitFails
<1>6. left' \in [faults : 0..MaxFaults, crashes : 0..MaxCrashes]
  BY SpendTyped DEF Admit, AdmitFails, IInv, WalletTypeOK
<1>7. CASE Admit
  <2>1. row' = Admitted(new) /\ op' = MarkBroadcastAttempted(op) /\ Goes("send")
    BY <1>7 DEF Admit, new
  <2>2. row' \in WalletTask /\ row'.cp = new /\ row'.status = "running"
    BY <1>1, <1>3, <2>1, Admissions
  <2>3. inv' \in WalletInvocation /\ inv'.pc = "send"
    BY <1>1, <2>1 DEF Goes, WalletInvocation
  <2>4. WalletTypeOK' /\ TxInv'
    BY <1>4, <1>5, <1>6, <2>1, <2>2, <2>3 DEF IInv, WalletTypeOK, TxInv
  <2>5. Evidence' /\ Outcome'
    BY <1>2, <1>3, <1>4, <1>5, <2>1, <2>2 DEF Evidence, Outcome
  <2>6. Position'
    BY <1>2, <1>3, <1>5, <2>2, <2>3 DEF Position, At
  <2> QED  BY <2>4, <2>5, <2>6 DEF IInv
<1>8. CASE AdmitFails /\ op' = op /\ row' = Retries("recover")
  <2>1. row' \in WalletTask /\ row'.cp = row.cp /\ row'.status \in {"pending", "failed"} /\ inv' = Idle
    BY <1>1, <1>8, Settlements DEF AdmitFails, End
  <2> QED  BY <1>1, <1>5, <1>6, <1>8, <2>1, EndsQuietly
<1>9. CASE /\ AdmitFails /\ op' = MarkBroadcastAttempted(op)
           /\ row' = [Retries("recover") EXCEPT !.admitted = row.retry + 1, !.cp = new]
  <2> DEFINE x == Retries("recover")
             a == row.retry + 1
  <2>1. x \in WalletTask /\ x.status \in {"pending", "failed"} /\ a \in 0..WalletAttempts
    BY <1>1, <1>3, Settlements, Admissions
  <2> HIDE DEF x, a
  <2>2. /\ [x EXCEPT !.admitted = a, !.cp = new] \in WalletTask
        /\ [x EXCEPT !.admitted = a, !.cp = new].cp = new
        /\ [x EXCEPT !.admitted = a, !.cp = new].status \in {"pending", "failed"}
    BY <1>3, <2>1 DEF WalletTask
  <2>3. row' \in WalletTask /\ row'.cp = new /\ row'.status \in {"pending", "failed"} /\ inv' = Idle
    BY <1>9, <2>2 DEF x, a, AdmitFails, End
  <2>4. WalletTypeOK' /\ TxInv'
    BY <1>4, <1>5, <1>6, <1>9, <2>3, IdleTyped DEF IInv, WalletTypeOK, TxInv
  <2>5. Evidence' /\ Outcome'
    BY <1>2, <1>3, <1>4, <1>5, <1>9, <2>3 DEF Evidence, Outcome
  <2>6. Position'
    BY <2>3 DEF Position, At
  <2> QED  BY <2>4, <2>5, <2>6 DEF IInv
<1> QED  BY <1>7, <1>8, <1>9 DEF AdmitFails, End, new

\* A transaction is signed only while there is none.
LEMMA SignsFirst ==
    ASSUME Bounds, IInv, At("send"), NEW st \in {"away", "pooled"}, Signs(st)
    PROVE  /\ txs = <<>> /\ row.cp # None /\ op.tx = 0 /\ Len(txs) + 1 = 1 /\ 1 \in 0..MaxTxs
           /\ txs' \in Seq(Transaction) /\ Len(txs') = 1 /\ DOMAIN txs' = {1}
           /\ txs'[1].st = st /\ TxInv'
<1>1. txs = <<>> /\ row.cp # None /\ op.tx = 0
  BY DEF IInv, Position, Evidence
<1>2. Len(txs) = 0 /\ 1 \in 0..MaxTxs
  BY <1>1 DEF Signs, Bounds
<1> DEFINE t == [st |-> st, nonce |-> "free", permit |-> "valid"]
<1>3. t \in Transaction /\ t.st = st
  BY DEF Transaction
<1> HIDE DEF t
<1>4. txs' = Append(<<>>, t)
  BY <1>1 DEF Signs, t
<1>5. txs' \in Seq(Transaction) /\ Len(txs') = 1 /\ DOMAIN txs' = {1} /\ txs'[1] = t
  BY <1>3, <1>4
<1>6. TxInv'
  BY <1>3, <1>5 DEF TxInv
<1> QED  BY <1>1, <1>2, <1>3, <1>5, <1>6

\* Signing and sending: the transaction is the first, whatever is learnt of it.
LEMMA SentKeeps == ASSUME Bounds, IInv, Sent \/ SendFails PROVE IInv'
<1>1. row.status = "running" /\ inv.pc = "send" /\ row \in WalletTask /\ inv \in WalletInvocation /\ At("send")
      /\ op \in Operation
  BY DEF Sent, SendFails, At, IInv, WalletTypeOK
<1>2. /\ txs = <<>> /\ row.cp # None /\ op.tx = 0 /\ Len(txs) + 1 = 1 /\ 1 \in 0..MaxTxs
      /\ txs' \in Seq(Transaction) /\ Len(txs') = 1 /\ DOMAIN txs' = {1} /\ TxInv'
  BY <1>1, SignsFirst DEF Sent, SendFails
<1>3. left' \in [faults : 0..MaxFaults, crashes : 0..MaxCrashes] /\ kind' = kind
  BY SpendTyped DEF Sent, SendFails, IInv, WalletTypeOK
<1>4. ~row.cp.notSent /\ row.cp.tx = 0 /\ op.attempted /\ op.owned /\ op.status = "pending"
  BY <1>1, <1>2, Running DEF IInv, Evidence
<1>5. \A i \in DOMAIN txs' : txs'[i] \in Transaction
  BY <1>2, SMTT(30)
<1>6. CASE UNCHANGED <<op, row>> /\ \E s \in BOOLEAN :
             inv' = [inv EXCEPT !.pc = "record", !.tx = Len(txs) + 1, !.signed = s]
  <2>1. inv' \in WalletInvocation /\ inv'.pc = "record" /\ inv'.tx = 1
    BY <1>1, <1>2, <1>6 DEF WalletInvocation
  <2>2. WalletTypeOK'
    BY <1>1, <1>2, <1>3, <1>5, <1>6, <2>1 DEF IInv, WalletTypeOK, Bounds
  <2>3. Evidence'
    BY <1>1, <1>2, <1>4, <1>6 DEF Evidence
  <2>4. Position' /\ Outcome'
    BY <1>2, <1>4, <1>6, <2>1 DEF Position, Outcome, At
  <2> QED  BY <1>2, <2>2, <2>3, <2>4 DEF IInv
<1>7. CASE End(Fails(TRUE)) /\ op' = MarkUnknown(op)
  <2>1. row' \in WalletTask /\ row'.cp = row.cp /\ row'.status = "failed" /\ inv' = Idle
    BY <1>1, <1>7, Settlements DEF End
  <2>2. /\ op' \in Operation /\ op'.tx = 0 /\ op'.attempted /\ ~op'.owned /\ op'.status = "unknown"
    BY <1>1, <1>2, <1>4, <1>7 DEF MarkUnknown, Operation
  <2>3. WalletTypeOK'
    BY <1>2, <1>3, <1>5, <2>1, <2>2, IdleTyped DEF IInv, WalletTypeOK, Bounds
  <2>4. Evidence' /\ Outcome'
    BY <1>2, <1>4, <2>1, <2>2 DEF Evidence, Outcome
  <2>5. Position'
    BY <2>1 DEF Position, At
  <2> QED  BY <1>2, <2>3, <2>4, <2>5 DEF IInv
<1>8. CASE Sent
  <2>1. inv' = [inv EXCEPT !.pc = "record", !.tx = Len(txs) + 1, !.signed = inv.signed]
    BY <1>1, <1>8 DEF Sent, WalletInvocation
  <2>2. inv.signed \in BOOLEAN
    BY <1>1 DEF WalletInvocation
  <2> QED  BY <1>6, <1>8, <2>1, <2>2 DEF Sent
<1> QED  BY <1>6, <1>7, <1>8 DEF SendFails

\* The broadcasts that send nothing.
LEMMA SendEndsKeeps == ASSUME Bounds, IInv, AlreadyApproved \/ NotSent PROVE IInv'
<1>1. row.status = "running" /\ inv.pc = "send" /\ row \in WalletTask /\ inv \in WalletInvocation /\ At("send")
      /\ op \in Operation
  BY DEF AlreadyApproved, NotSent, At, IInv, WalletTypeOK
<1>2. row.cp # None /\ txs = <<>> /\ op.tx = 0 /\ op.attempted /\ row.cp.tx = 0 /\ row.cp \in Checkpoint
  BY <1>1 DEF IInv, Position, Evidence, WalletTask
<1>3. UNCHANGED <<kind, txs>> /\ inv' = Idle
  BY DEF AlreadyApproved, NotSent, End
<1>4. CASE AlreadyApproved
  <2>1. row' = [row EXCEPT !.status = "done"] /\ op' = MarkConfirmed(op) /\ kind = "approve" /\ left' = left
    BY <1>4 DEF AlreadyApproved, End
  <2>2. row' \in WalletTask /\ row'.cp = row.cp /\ row'.status = "done"
    BY <1>1, <2>1 DEF WalletTask
  <2>3. op'.status = "confirmed" /\ op'.tx = 0
    BY <1>1, <1>2, <2>1 DEF MarkConfirmed, Operation
  <2>4. Outcome'
    BY <1>2, <1>3, <2>1, <2>3 DEF Outcome
  <2> QED  BY <1>1, <1>3, <2>1, <2>2, <2>4, EndsOperation
<1>5. CASE NotSent
  <2> DEFINE x == Fails(FALSE)
  <2>1. /\ x \in WalletTask /\ x.cp = row.cp /\ x.status = "failed"
    BY <1>1, Settlements
  <2>2. row' = [x EXCEPT !.cp = [x.cp EXCEPT !.notSent = TRUE]] /\ op' = MarkFailed(op)
    BY <1>5 DEF NotSent, End
  <2> HIDE DEF x
  <2> DEFINE y == [row.cp EXCEPT !.notSent = TRUE]
  <2>3. y \in Checkpoint /\ y.tx = 0 /\ y.notSent /\ y # None
    BY <1>2 DEF Checkpoint, Bounds
  <2> HIDE DEF y
  <2>4. row' \in WalletTask /\ row'.cp = y /\ row'.status = "failed"
    <3>1. row' = [x EXCEPT !.cp = y]
      BY <2>1, <2>2 DEF y
    <3> QED  BY <2>1, <2>3, <3>1 DEF WalletTask
  <2>5. op' \in Operation /\ op'.tx = 0 /\ op'.attempted /\ ~op'.owned /\ op'.status = "failed"
    BY <1>1, <1>2, <2>2 DEF MarkFailed, Operation
  <2>6. left' \in [faults : 0..MaxFaults, crashes : 0..MaxCrashes]
    BY <1>5, SpendTyped DEF NotSent, IInv
  <2>7. WalletTypeOK' /\ TxInv'
    BY <1>3, <2>4, <2>5, <2>6, IdleTyped DEF IInv, WalletTypeOK, TxInv
  <2>8. Evidence' /\ Outcome'
    BY <1>2, <1>3, <2>3, <2>4, <2>5 DEF Evidence, Outcome
  <2>9. Position'
    BY <2>4 DEF Position, At
  <2> QED  BY <2>7, <2>8, <2>9 DEF IInv
<1> QED  BY <1>4, <1>5

\* RecordEffectEvidence writes one hash into both rows.
LEMMA RecordKeeps == ASSUME Bounds, IInv, Record \/ RecordFails PROVE IInv'
<1>1. row.status = "running" /\ inv.pc = "record" /\ row \in WalletTask /\ inv \in WalletInvocation /\ op \in Operation
  BY DEF Record, RecordFails, At, IInv, WalletTypeOK
<1>2. /\ row.cp # None /\ inv.tx = 1 /\ Len(txs) = 1 /\ op.tx = 0 /\ op.attempted /\ op.owned
      /\ row.cp \in Checkpoint /\ ~row.cp.notSent /\ inv.tx \in 0..MaxTxs /\ inv.signed \in BOOLEAN
  BY <1>1, Running DEF IInv, Evidence, Position, At, WalletTask, WalletInvocation
<1> DEFINE y == [row.cp EXCEPT !.tx = inv.tx]
           r == [row EXCEPT !.cp = y]
<1>3. y \in Checkpoint /\ y.tx = 1 /\ ~y.notSent /\ y # None
  BY <1>2 DEF Checkpoint, Bounds
<1>4. UNCHANGED <<kind, txs>> /\ op' = RecordSubmission(op, inv.tx, inv.signed)
  BY DEF Record, RecordFails
<1>5. /\ op' \in Operation /\ op'.status = "submitted" /\ op'.tx = 1 /\ op'.attempted /\ op'.owned
  BY <1>1, <1>2, <1>4 DEF RecordSubmission, Operation
<1>6. \/ row' = r /\ inv' = [inv EXCEPT !.pc = "observe"] /\ left' = left
      \/ row' = Observed(r, inv.signed) /\ inv' = Idle /\ Spend("faults")
  BY DEF Record, RecordFails, Goes, End
<1> HIDE DEF y
<1>7. r \in WalletTask /\ r.cp = y /\ r.status = "running"
  BY <1>1, <1>3 DEF WalletTask
<1> HIDE DEF r
<1>8. row' \in WalletTask /\ row'.cp = y /\ row'.status # "none"
  BY <1>1, <1>2, <1>6, <1>7, Observations
<1>9. inv' \in WalletInvocation /\ inv'.pc \in {"observe", "idle"}
  BY <1>1, <1>6, IdleTyped DEF WalletInvocation
<1>10. left' \in [faults : 0..MaxFaults, crashes : 0..MaxCrashes]
  BY <1>6, SpendTyped DEF IInv, WalletTypeOK
<1>11. WalletTypeOK' /\ TxInv'
  BY <1>4, <1>5, <1>8, <1>9, <1>10 DEF IInv, WalletTypeOK, TxInv
<1>12. Evidence' /\ Outcome'
  BY <1>2, <1>3, <1>4, <1>5, <1>8, SMTT(30) DEF Evidence, Outcome
<1>13. Position'
  BY <1>5, <1>9 DEF Position, At
<1> QED  BY <1>11, <1>12, <1>13 DEF IInv

\* The invocation that sent goes on to wait.
LEMMA ObserveSentKeeps == ASSUME Bounds, IInv, ObserveSent PROVE IInv'
BY ObserveKeeps DEF ObserveSent, At, IInv, WalletTypeOK

-----------------------------------------------------------------------------
(* RebroadcastSignedTransaction.                                           *)

\* The transaction a replay is about is the only one.
LEMMA Replaying ==
    ASSUME Bounds, IInv, row.status = "running",
           inv.pc \in {"readmit", "visible", "final", "latest", "resend"}
    PROVE  /\ row \in WalletTask /\ inv \in WalletInvocation /\ op \in Operation /\ op.tx = 1
           /\ txs \in Seq(Transaction) /\ DOMAIN txs = {1} /\ txs[1] \in Transaction
           /\ left \in [faults : 0..MaxFaults, crashes : 0..MaxCrashes]
<1>1. op.tx # 0 /\ row \in WalletTask /\ inv \in WalletInvocation /\ op \in Operation
      /\ left \in [faults : 0..MaxFaults, crashes : 0..MaxCrashes]
  BY DEF IInv, WalletTypeOK, Position
<1>2. op.tx = 1 /\ Len(txs) = 1 /\ txs \in Seq(Transaction)
  BY <1>1 DEF IInv, Evidence, TxInv
<1>3. DOMAIN txs = {1}
  BY <1>2
<1>4. txs[1] \in Transaction
  BY <1>2, SMTT(30)
<1> QED  BY <1>1, <1>2, <1>3, <1>4

\* An admission of the replay keeps the checkpoint.
LEMMA ReadmitKeeps == ASSUME Bounds, IInv, Readmit \/ ReadmitFails PROVE IInv'
<1>1. /\ row.status = "running" /\ inv.pc = "readmit" /\ row \in WalletTask /\ inv \in WalletInvocation
      /\ op.tx = 1 /\ row.cp \in Checkpoint \union {None} /\ UNCHANGED <<kind, op, txs>>
  BY Replaying DEF Readmit, ReadmitFails, At, WalletTask
<1>2. CASE Readmit
  <2>1. row' = Admitted(row.cp) /\ inv' = [inv EXCEPT !.pc = "visible"] /\ left' = left
    BY <1>2 DEF Readmit, Goes
  <2>2. row' \in WalletTask /\ row'.cp = row.cp /\ row'.status = "running"
    BY <1>1, <2>1, Admissions
  <2>3. inv' \in WalletInvocation /\ inv'.pc = "visible"
    BY <1>1, <2>1 DEF WalletInvocation
  <2>4. WalletTypeOK' /\ TxInv' /\ Outcome'
    BY <1>1, <2>1, <2>2, <2>3 DEF IInv, WalletTypeOK, TxInv, Outcome
  <2>5. Evidence'
    BY <1>1, <2>2 DEF IInv, Evidence
  <2>6. Position'
    BY <1>1, <2>2, <2>3 DEF Position, At
  <2> QED  BY <2>4, <2>5, <2>6 DEF IInv
<1>3. CASE ReadmitFails
  <2>1. PICK a \in {row.admitted, row.retry + 1} :
            row' = [Retries("recover") EXCEPT !.admitted = a] /\ inv' = Idle
    BY <1>3 DEF ReadmitFails, End
  <2> DEFINE x == Retries("recover")
  <2>2. x \in WalletTask /\ x.cp = row.cp /\ x.status \in {"pending", "failed"}
    BY <1>1, Settlements
  <2>3. row.retry + 1 \in 0..WalletAttempts /\ row.admitted \in 0..WalletAttempts
    BY <1>1, Admissions DEF WalletTask
  <2> HIDE DEF x
  <2>4. row' \in WalletTask /\ row'.cp = row.cp /\ row'.status \in {"pending", "failed"}
    <3>1. row' = [x EXCEPT !.admitted = a] /\ a \in 0..WalletAttempts
      BY <2>1, <2>3 DEF x
    <3> QED  BY <2>2, <3>1 DEF WalletTask
  <2>5. left' \in [faults : 0..MaxFaults, crashes : 0..MaxCrashes]
    BY <1>3, SpendTyped DEF ReadmitFails, IInv
  <2> QED  BY <1>1, <2>1, <2>4, <2>5, EndsQuietly
<1> QED  BY <1>2, <1>3

\* A transaction the node shows is only observed.
LEMMA VisibleKeeps == ASSUME Bounds, IInv, Visible PROVE IInv'
<1>1. /\ row.status = "running" /\ inv.pc = "visible" /\ inv \in WalletInvocation /\ op.tx = 1
      /\ left \in [faults : 0..MaxFaults, crashes : 0..MaxCrashes] /\ UNCHANGED <<txs, left>>
  BY Replaying DEF Visible, At
<1>2. CASE Observe
  BY <1>1, <1>2, ObserveKeeps
<1>3. CASE Goes("final") /\ UNCHANGED <<kind, op, row>>
  <2>1. inv' \in WalletInvocation /\ inv'.pc = "final"
    BY <1>1, <1>3 DEF Goes, WalletInvocation
  <2>2. Position'
    BY <1>1, <1>3, <2>1 DEF Position, At
  <2> QED  BY <1>1, <1>3, <2>1, <2>2, GoesOn
<1> QED  BY <1>2, <1>3 DEF Visible

\* A transaction is given up as displaced on a nonce that is finalized.
LEMMA FinalKeeps == ASSUME Bounds, IInv, Final PROVE IInv'
<1>1. /\ row.status = "running" /\ inv.pc = "final" /\ inv \in WalletInvocation /\ op.tx = 1
      /\ row \in WalletTask /\ op \in Operation /\ UNCHANGED <<kind, txs, left>>
  BY Replaying DEF Final, At
<1>2. CASE txs[op.tx].nonce = "final"
  <2>1. row' = Fails(TRUE) /\ inv' = Idle /\ op' = MarkUnknown(op)
    BY <1>2 DEF Final, End
  <2>2. row' \in WalletTask /\ row'.cp = row.cp /\ row'.status = "failed"
    BY <1>1, <2>1, Settlements
  <2>3. op'.status = "unknown" /\ op'.tx = op.tx
    BY <1>1, <2>1 DEF MarkUnknown, Operation
  <2>4. Outcome'
    BY <1>1, <1>2, <2>3 DEF Outcome
  <2> QED  BY <1>1, <2>1, <2>2, <2>4, EndsOperation
<1>3. CASE txs[op.tx].nonce # "final"
  <2> DEFINE d == PermitExpired(txs[op.tx])
  <2>1. inv' = [inv EXCEPT !.pc = "latest", !.dead = d] /\ UNCHANGED <<op, row>>
    BY <1>3 DEF Final
  <2>2. d \in BOOLEAN /\ (d => txs[op.tx].permit = "dead")
    BY DEF PermitExpired
  <2> HIDE DEF d
  <2>3. inv' \in WalletInvocation /\ inv'.pc = "latest" /\ (inv'.dead => txs[op.tx].permit = "dead")
    BY <1>1, <2>1, <2>2 DEF WalletInvocation
  <2>4. Position'
    BY <1>1, <2>1, <2>3 DEF Position, At
  <2> QED  BY <1>1, <2>1, <2>3, <2>4, GoesOn
<1> QED  BY <1>2, <1>3

\* A fund operation fails for its permit only when nothing can include it any more.
LEMMA LatestKeeps == ASSUME Bounds, IInv, Latest PROVE IInv'
<1>1. /\ row.status = "running" /\ inv.pc = "latest" /\ inv \in WalletInvocation /\ op.tx = 1
      /\ row \in WalletTask /\ op \in Operation /\ UNCHANGED <<kind, txs, left>> /\ DOMAIN txs = {1}
      /\ left \in [faults : 0..MaxFaults, crashes : 0..MaxCrashes]
  BY Replaying DEF Latest, At
<1>2. CASE Observe
  BY <1>1, <1>2, ObserveKeeps
<1>3. CASE txs[op.tx].st = "away" /\ inv.dead /\ End(Fails(TRUE)) /\ op' = MarkFailed(op)
  <2>1. row' = Fails(TRUE) /\ inv' = Idle /\ op' = MarkFailed(op)
    BY <1>3 DEF End
  <2>2. row' \in WalletTask /\ row'.cp = row.cp /\ row'.status = "failed"
    BY <1>1, <2>1, Settlements
  <2>3. op'.status = "failed" /\ op'.tx = op.tx
    BY <1>1, <2>1 DEF MarkFailed, Operation
  <2>4. txs[1].permit = "dead" /\ txs[1].st = "away"
    BY <1>1, <1>3 DEF IInv, Position, At
  <2>5. Outcome'
    BY <1>1, <2>3, <2>4 DEF Outcome
  <2> QED  BY <1>1, <2>1, <2>2, <2>5, EndsOperation
<1>4. CASE Goes("resend") /\ UNCHANGED <<op, row>>
  <2>1. inv' \in WalletInvocation /\ inv'.pc = "resend"
    BY <1>1, <1>4 DEF Goes, WalletInvocation
  <2>2. Position'
    BY <1>1, <1>4, <2>1 DEF Position, At
  <2> QED  BY <1>1, <1>4, <2>1, <2>2, GoesOn
<1> QED  BY <1>2, <1>3, <1>4 DEF Latest

-----------------------------------------------------------------------------
(* The chain.                                                              *)

\* What no step of the chain or of the node takes back.
Permanent(t, u) ==
    /\ u \in Transaction
    /\ u.st \in {"landed", "reverted"} => u.nonce # "free"
    /\ t.st = "landed" => u.st = "landed"
    /\ t.st = "reverted" => u.st = "reverted"
    /\ t.nonce = "final" => u.nonce = "final"
    /\ t.permit = "dead" => u.permit = "dead" /\ (u.st = "landed" => t.st = "landed")

\* A transaction that moves on so leaves the evidence and the outcome as they are.
LEMMA TransactionMoves ==
    ASSUME Bounds, IInv, UNCHANGED <<kind, op, row, inv, left>>, NEW i \in DOMAIN txs,
           NEW u, Permanent(txs[i], u), txs' = [txs EXCEPT ![i] = u]
    PROVE  IInv'
<1>1. txs \in Seq(Transaction) /\ Len(txs) = 1 /\ i = 1 /\ DOMAIN txs = {1} /\ u \in Transaction
  <2>1. txs \in Seq(Transaction) /\ Len(txs) <= 1 /\ u \in Transaction
    BY DEF IInv, TxInv, Permanent
  <2>2. Len(txs) = 1 /\ i = 1
    <3>1. DOMAIN txs = 1..Len(txs) /\ Len(txs) \in Nat
      BY <2>1
    <3>2. i \in 1..Len(txs)
      BY <3>1
    <3> QED  BY <2>1, <3>1, <3>2
  <2>3. DOMAIN txs = {1}
    BY <2>1, <2>2
  <2> QED  BY <2>1, <2>2, <2>3
<1>2. txs' \in Seq(Transaction) /\ Len(txs') = 1 /\ DOMAIN txs' = {1} /\ txs'[1] = u
  BY <1>1, SMTT(30)
<1>3. WalletTypeOK'
  BY <1>1, <1>2 DEF IInv, WalletTypeOK
<1>4. TxInv'
  BY <1>1, <1>2 DEF TxInv, Permanent
<1>5. txs # <<>> /\ txs' # <<>>
  BY <1>1, <1>2
<1>6. Evidence'
  BY <1>1, <1>2, <1>5 DEF IInv, Evidence
<1>7. op.tx # 0 => op.tx = 1
  BY DEF IInv, Evidence
<1>8. Position'
  BY <1>1, <1>2, <1>5, <1>7 DEF IInv, Position, Permanent, At
<1>9. Outcome'
  BY <1>1, <1>2, <1>5, <1>7 DEF IInv, Outcome, Permanent
<1> QED  BY <1>3, <1>4, <1>6, <1>8, <1>9 DEF IInv

\* The chain, transaction by transaction.
LEMMA ChainKeeps == ASSUME Bounds, IInv, Chain PROVE IInv'
<1>1. PICK i \in DOMAIN txs :
          \/ Included(i) \/ Displaced(i) \/ Reorganized(i) \/ Arrives(i) \/ Dropped(i)
          \/ Finalized(i) \/ PermitPasses(i) \/ PermitDies(i)
  BY DEF Chain
<1>2. UNCHANGED <<kind, op, row, inv, left>>
  BY DEF Chain
<1> DEFINE t == txs[i]
<1>3. t \in Transaction /\ txs \in Seq(Transaction) /\ (t.st \in {"landed", "reverted"} => t.nonce # "free")
  BY DEF IInv, TxInv
<1>4. ASSUME NEW u, Permanent(t, u), txs' = [txs EXCEPT ![i] = u] PROVE IInv'
  BY <1>2, <1>4, TransactionMoves
<1>5. CASE Included(i)
  <2>1. PICK st \in {"landed", "reverted"} :
            /\ st = "landed" => t.permit # "dead"
            /\ txs' = [txs EXCEPT ![i] = [t EXCEPT !.st = st, !.nonce = "used"]]
    BY <1>5, <1>3 DEF Included
  <2>2. Permanent(t, [t EXCEPT !.st = st, !.nonce = "used"])
    BY <1>3, <1>5, <2>1 DEF Included, Permanent, Transaction
  <2> QED  BY <1>4, <2>1, <2>2
<1>6. CASE Displaced(i)
  <2>1. txs' = [txs EXCEPT ![i] = [t EXCEPT !.st = "away", !.nonce = "used"]]
    BY <1>6, <1>3 DEF Displaced
  <2>2. Permanent(t, [t EXCEPT !.st = "away", !.nonce = "used"])
    BY <1>3, <1>6 DEF Displaced, Permanent, Transaction
  <2> QED  BY <1>4, <2>1, <2>2
<1>7. CASE Reorganized(i)
  <2>1. txs' = [txs EXCEPT ![i] = [t EXCEPT !.nonce = "free"]]
    BY <1>7 DEF Reorganized
  <2>2. Permanent(t, [t EXCEPT !.nonce = "free"])
    BY <1>3, <1>7 DEF Reorganized, Permanent, Transaction
  <2> QED  BY <1>4, <2>1, <2>2
<1>8. CASE Arrives(i)
  <2>1. txs' = [txs EXCEPT ![i] = [t EXCEPT !.st = "pooled"]]
    BY <1>8 DEF Arrives
  <2>2. Permanent(t, [t EXCEPT !.st = "pooled"])
    BY <1>3, <1>8 DEF Arrives, Permanent, Transaction
  <2> QED  BY <1>4, <2>1, <2>2
<1>9. CASE Dropped(i)
  <2>1. txs' = [txs EXCEPT ![i] = [t EXCEPT !.st = "away"]]
    BY <1>9 DEF Dropped
  <2>2. Permanent(t, [t EXCEPT !.st = "away"])
    BY <1>3, <1>9 DEF Dropped, Permanent, Transaction
  <2> QED  BY <1>4, <2>1, <2>2
<1>10. CASE Finalized(i)
  <2>1. txs' = [txs EXCEPT ![i] = [t EXCEPT !.nonce = "final"]]
    BY <1>10 DEF Finalized
  <2>2. Permanent(t, [t EXCEPT !.nonce = "final"])
    BY <1>3 DEF Permanent, Transaction
  <2> QED  BY <1>4, <2>1, <2>2
<1>11. CASE PermitPasses(i)
  <2>1. txs' = [txs EXCEPT ![i] = [t EXCEPT !.permit = "late"]]
    BY <1>11 DEF PermitPasses
  <2>2. Permanent(t, [t EXCEPT !.permit = "late"])
    BY <1>3, <1>11 DEF PermitPasses, Permanent, Transaction
  <2> QED  BY <1>4, <2>1, <2>2
<1>12. CASE PermitDies(i)
  <2> DEFINE n == IF t.st = "landed" THEN "final" ELSE t.nonce
  <2>1. txs' = [txs EXCEPT ![i] = [t EXCEPT !.permit = "dead", !.nonce = n]]
    BY <1>3, <1>12 DEF PermitDies
  <2>2. Permanent(t, [t EXCEPT !.permit = "dead", !.nonce = n])
    BY <1>3, <1>12 DEF PermitDies, Permanent, Transaction
  <2> QED  BY <1>4, <2>1, <2>2
<1> QED  BY <1>1, <1>5, <1>6, <1>7, <1>8, <1>9, <1>10, <1>11, <1>12

\* Resending is a step of the observation and one of the transaction.
LEMMA ResendKeeps == ASSUME Bounds, IInv, Resend \/ ResendFails PROVE IInv'
<1>1. /\ row.status = "running" /\ inv.pc = "resend" /\ op.tx = 1 /\ row \in WalletTask /\ op \in Operation
      /\ txs \in Seq(Transaction) /\ DOMAIN txs = {1} /\ txs[1] \in Transaction
      /\ left \in [faults : 0..MaxFaults, crashes : 0..MaxCrashes] /\ Observe
  BY Replaying DEF Resend, ResendFails, At
<1>2. CASE ResendFails \/ (Resend /\ txs' = txs)
  <2>1. left' \in [faults : 0..MaxFaults, crashes : 0..MaxCrashes] /\ txs' = txs
    BY <1>1, <1>2, SpendTyped DEF ResendFails, Resend, IInv
  <2> QED  BY <1>1, <2>1, ObserveKeeps
<1>3. CASE Resend /\ txs' # txs
  <2> DEFINE u == [txs[1] EXCEPT !.st = "pooled"]
  <2>1. txs[1].st = "away" /\ txs' = [txs EXCEPT ![1] = u] /\ left' = left
    BY <1>1, <1>3 DEF Resend, Repeated
  <2>2. u \in Transaction /\ u.st = "pooled" /\ u.nonce = txs[1].nonce /\ u.permit = txs[1].permit
    BY <1>1 DEF Transaction
  <2> HIDE DEF u
  <2>3. txs' \in Seq(Transaction) /\ Len(txs') = 1 /\ DOMAIN txs' = {1} /\ txs'[1] = u
    BY <1>1, <2>1, <2>2
  <2>4. row' = Observed(row, op.signed) /\ inv' = Idle /\ UNCHANGED <<kind, op>> /\ op.signed \in BOOLEAN
    BY <1>1 DEF Observe, End, Operation
  <2>5. row' \in WalletTask /\ row'.cp = row.cp /\ row'.status \in {"pending", "failed"}
    BY <1>1, <2>4, Observations
  <2>6. WalletTypeOK'
    BY <1>1, <2>1, <2>2, <2>3, <2>4, <2>5, IdleTyped DEF IInv, WalletTypeOK
  <2>7. TxInv'
    BY <2>2, <2>3 DEF TxInv
  <2>8. txs # <<>> /\ Len(txs) = 1
    <3>1. txs \in Seq(Transaction) /\ DOMAIN txs = {1}
      BY <1>1
    <3>2. Len(txs) \in Nat /\ DOMAIN txs = 1..Len(txs)
      BY <3>1
    <3>3. Len(txs) = 1
      BY <3>1, <3>2
    <3> QED  BY <3>3
  <2>9. Evidence'
    BY <1>1, <2>3, <2>4, <2>5, <2>8 DEF IInv, Evidence
  <2>10. Position'
    BY <2>4, <2>5 DEF Position, At
  <2>11. op.status \in {"pending", "submitted"}
    BY <1>1, Running
  <2>12. Outcome'
    BY <2>4, <2>11 DEF Outcome
  <2> QED  BY <2>6, <2>7, <2>9, <2>10, <2>12 DEF IInv
<1> QED  BY <1>2, <1>3

-----------------------------------------------------------------------------
(* The theorems.                                                           *)

\* Before the request there is no evidence at all.
LEMMA WalletStarts == ASSUME Bounds, WalletInit PROVE IInv
<1>1. row.cp = None /\ row.status = "none" /\ row \in WalletTask
  <2>1. FreshRow \in WalletTask /\ FreshRow.cp = None
    BY DEF FreshRow, WalletTask, Bounds
  <2> QED  BY <2>1 DEF WalletInit, WalletTask
<1>2. op \in Operation /\ op.status = "none" /\ ~op.owned /\ ~op.attempted /\ op.tx = 0
  BY DEF WalletInit, Operation, Bounds
<1>3. txs = <<>> /\ Len(txs) = 0 /\ DOMAIN txs = {} /\ txs \in Seq(Transaction)
  BY DEF WalletInit
<1>4. left \in [faults : 0..MaxFaults, crashes : 0..MaxCrashes]
  BY DEF WalletInit, Bounds
<1>5. WalletTypeOK
  BY <1>1, <1>2, <1>3, <1>4, IdleTyped DEF WalletInit, WalletTypeOK, Bounds
<1>6. TxInv /\ Outcome
  BY <1>2, <1>3 DEF TxInv, Outcome
<1>7. Evidence /\ Position
  BY <1>1, <1>2, <1>3 DEF Evidence, Position, At
<1> QED  BY <1>5, <1>6, <1>7 DEF IInv

\* Every step keeps the invariant.
LEMMA WalletStep == ASSUME Bounds, IInv, [WalletNext]_walletVars PROVE IInv'
<1>1. CASE Handler
  <2>1. CASE LoadFails \/ RunFresh \/ RunUnknown \/ RunKnown
    BY <2>1, RunKeeps
  <2>2. CASE ReceiptFails \/ ReadFails
    BY <2>2, FaultRetriesKeeps DEF ReceiptFails, ReadFails, At
  <2>3. CASE Receipt \/ Visible \/ Final \/ Latest
    BY <2>3, ReceiptKeeps, VisibleKeeps, FinalKeeps, LatestKeeps
  <2>4. CASE Admit \/ AdmitFails \/ AlreadyApproved \/ NotSent \/ Sent \/ SendFails
    BY <2>4, AdmitKeeps, SendEndsKeeps, SentKeeps
  <2>5. CASE Record \/ RecordFails \/ ObserveSent
    BY <2>5, RecordKeeps, ObserveSentKeeps
  <2>6. CASE Readmit \/ ReadmitFails \/ Resend \/ ResendFails
    BY <2>6, ReadmitKeeps, ResendKeeps
  <2> QED  BY <1>1, <2>1, <2>2, <2>3, <2>4, <2>5, <2>6 DEF Handler
<1>2. CASE UNCHANGED walletVars
  BY <1>2 DEF walletVars, IInv, WalletTypeOK, TxInv, Evidence, Position, Outcome, At
<1> QED
  BY <1>1, <1>2, RequestKeeps, ClaimKeeps, CrashKeeps, RetryKeeps, WindowKeeps, ChainKeeps DEF WalletNext

\* The inductive invariant of the operation, its task and its transactions: every
\* step of Spec keeps IInv, for all bounds.
THEOREM WalletInductive == ASSUME Bounds PROVE WalletSpec => []IInv
<1>1. WalletInit => IInv
  BY WalletStarts
<1>2. IInv /\ [WalletNext]_walletVars => IInv'
  BY WalletStep
<1> QED  BY <1>1, <1>2, PTL DEF WalletSpec

\* One transaction at most means one payment at most.
LEMMA OneLands == ASSUME IInv PROVE LandedOnce
<1>1. DOMAIN txs \subseteq {1}
  BY DEF IInv, TxInv
<1> DEFINE L == {i \in DOMAIN txs : txs[i].st = "landed"}
<1>2. CASE L = {}
  BY <1>2, FS_EmptySet DEF LandedOnce
<1>3. CASE L # {}
  <2>1. L = {1}
    BY <1>1, <1>3
  <2>2. Cardinality(L) = 1
    BY <2>1, FS_Singleton
  <2> QED  BY <2>2 DEF LandedOnce
<1> QED  BY <1>2, <1>3

\* A failed operation has no transaction that landed.
LEMMA TrueOutcome == ASSUME IInv PROVE OutcomeTrue
BY DEF IInv, Outcome, OutcomeTrue

\* The evidence, as a claim or a Retry compares it.
LEMMA AgreeingEvidence == ASSUME IInv PROVE EvidenceAgrees
<1>1. op.attempted \in BOOLEAN
  BY DEF IInv, WalletTypeOK, Operation
<1>2. (row.cp # None) = op.attempted
  BY <1>1 DEF IInv, Evidence
<1> QED  BY <1>2 DEF IInv, Evidence, EvidenceAgrees

\* However often the task of processWalletOperation is interrupted, retried or
\* reopened, at most one transaction of its operation lands (LandedOnce), the status
\* in the row says what happened to it (OutcomeTrue), and the checkpoint and the
\* row never disagree (EvidenceAgrees), so that the branches for conflicting
\* evidence are dead code.
THEOREM PaymentMadeOnce ==
    ASSUME Bounds PROVE WalletSpec => []PaidOnce
<1>1. IInv => PaidOnce
  BY OneLands, TrueOutcome, AgreeingEvidence DEF PaidOnce
<1> QED  BY <1>1, WalletInductive, PTL

=============================================================================
