---------------------------- MODULE DataSetRetire ----------------------------
(***************************************************************************)
(* The retire task of one data set: it has the storage service ended on    *)
(* chain, through the provider's relay or from the payer wallet, and then  *)
(* retires the row (internal/task/dataset/retire.go, the termination       *)
(* ledger of storage_replacement_repo.go, the gates of                     *)
(* storage_replacement_gate.go and synapse/terminate.go).                  *)
(*                                                                         *)
(* A termination from the wallet is paid, so it is never sent while an     *)
(* earlier request may still land, unless an operator's Retry allows it.   *)
(* What each attempt put on chain is kept in the task's checkpoint and in  *)
(* a ledger of attempts that outlives the task.                            *)
(***************************************************************************)
EXTENDS Naturals, Sequences, FiniteSets

CONSTANTS
    MaxAttempts,  \* ExecutionPolicy.MaxAttempts of the retire task
    MaxSends,     \* bound: requests and transactions
    MaxFaults,    \* bound: failing calls, lost answers, reverted transactions
    MaxCrashes,   \* bound: crashes of the process
    MaxHolds      \* bound: times the gate closes

VARIABLES
    role,    \* the data set is a replacement's source, or its abandoned target
    row,     \* the retire task that owns the data set
    inv,     \* the invocation that runs it
    ds,      \* the storage_data_sets row: draining or retired
    rep,     \* status of the replacement
    ledger,  \* storage_data_set_terminations and its attempts
    tx,      \* what was sent: relay requests and wallet transactions, in order
    chain,   \* the service on chain
    gate,    \* whether the data set may stop existing
    left     \* what remains of the bounds, and what operators allowed (grants)

vars == <<role, row, inv, ds, rep, ledger, tx, chain, gate, left>>

\* retirementCheckpoint.  tx is the transaction whose hash is known, again is
\* RetryFailedTransaction, resume is RetryUnresolvedRelay.
Checkpoint ==
    [no : 0..MaxSends, tx : 0..MaxSends, receipt : {"none", "failed", "ok"}, epoch : BOOLEAN,
     again : BOOLEAN, resume : BOOLEAN, relayOnly : BOOLEAN, unsent : BOOLEAN]

\* watch is the ObservationWindow: not begun, running, or over.
Row ==
    [status : {"pending", "running", "failed", "done"}, mode : {"execute", "recover"},
     retry : 0..(MaxAttempts - 1), admitted : 0..MaxAttempts, cp : Checkpoint, watch : {"off", "on", "over"},
     reason : {"", "gate", "conflict", "reverted", "blocked", "exhausted"}]

\* fresh and resumed name what allows the admission, skip is skipProvider and
\* never says that the relay request never left.
Invocation ==
    [pc : {"idle", "run", "observe", "provider", "admit", "send", "direct", "wallet", "record",
           "result", "epoch"},
     mode : {"execute", "recover"}, cp : Checkpoint, fresh : BOOLEAN, resumed : BOOLEAN,
     skip : BOOLEAN, never : BOOLEAN]

\* mine: the attempt's task is the one that owns the data set now.
Attempt ==
    [mine : BOOLEAN, tx : 0..MaxSends, receipt : {"none", "failed", "ok"}, unsent : BOOLEAN]

\* A relay request is held by the provider until it is a transaction.  waived is
\* history: an operator allowed another transaction beside this one.
Sent ==
    [via : {"relay", "wallet"}, no : 1..MaxSends, waived : BOOLEAN,
     st : {"held", "pooled", "landed", "reverted", "dropped"}]

TypeOK ==
    /\ role \in {"source", "target"} /\ ds \in {"draining", "retired"}
    /\ rep \in {"retiring", "cleanup_attention", "completed", "superseded"}
    /\ row \in Row /\ inv \in Invocation
    /\ ledger.epoch \in BOOLEAN /\ ledger.att \in Seq(Attempt) /\ Len(ledger.att) <= MaxSends
    /\ tx \in Seq(Sent) /\ Len(tx) <= MaxSends
    /\ chain \in [ended : BOOLEAN, reached : BOOLEAN] /\ gate \in {"open", "held", "lost"}
    /\ left \in [faults : 0..MaxFaults, crashes : 0..MaxCrashes, holds : 0..MaxHolds,
                 grants : 0..2 * MaxSends]

NoCheckpoint ==
    [no |-> 0, tx |-> 0, receipt |-> "none", epoch |-> FALSE, again |-> FALSE, resume |-> FALSE,
     relayOnly |-> FALSE, unsent |-> FALSE]

Idle ==
    [pc |-> "idle", mode |-> "execute", cp |-> NoCheckpoint, fresh |-> FALSE, resumed |-> FALSE,
     skip |-> FALSE, never |-> FALSE]

\* The RetireDataSet message enqueues the task and binds it to the row.
Init ==
    /\ role \in {"source", "target"} /\ ds = "draining"
    /\ rep = IF role = "source" THEN "retiring" ELSE "superseded"
    /\ row = [status |-> "pending", mode |-> "execute", retry |-> 0, admitted |-> 0,
              cp |-> NoCheckpoint, watch |-> "off", reason |-> ""]
    /\ inv = Idle /\ tx = <<>> /\ ledger = [epoch |-> FALSE, att |-> <<>>]
    /\ chain = [ended |-> FALSE, reached |-> FALSE] /\ gate = "open"
    /\ left = [faults |-> MaxFaults, crashes |-> MaxCrashes, holds |-> MaxHolds, grants |-> 0]

-----------------------------------------------------------------------------
(* What a checkpoint says of its attempt *)

Live(i) == tx[i].st \in {"held", "pooled"}

\* attemptMayLand
MayLand(cp) == cp.tx # 0 \/ (~cp.unsent /\ cp.no # 0)

\* relayUnresolved
RelayUnresolved(cp) == cp.relayOnly /\ MayLand(cp) /\ cp.tx = 0 /\ cp.receipt = "none"

Latest == ledger.att[Len(ledger.att)]

\* mergeRetirementEvidence, of the checkpoint and the ledger
Conflicts(cp) ==
    /\ ledger.att # <<>>
    /\ \/ cp.no \notin {0, Len(ledger.att)}
       \/ cp.tx # 0 /\ Latest.tx # 0 /\ cp.tx # Latest.tx
       \/ cp.receipt # "none" /\ Latest.receipt # "none" /\ cp.receipt # Latest.receipt

Merged(cp) ==
    IF ledger.att = <<>> THEN cp
    ELSE [cp EXCEPT !.no = Len(ledger.att), !.epoch = @ \/ ledger.epoch,
                    !.tx = IF Latest.tx # 0 THEN Latest.tx ELSE @,
                    !.receipt = IF Latest.receipt # "none" THEN Latest.receipt ELSE @]

-----------------------------------------------------------------------------
(* The ledger *)

\* RecordTerminationEvidence with mergeTerminationAttempt: what an attempt has
\* recorded stays.
RecordTerminationEvidence(cp) ==
    LET n == Len(ledger.att)
        evidence == [Latest EXCEPT !.tx = IF @ = 0 THEN cp.tx ELSE @,
                                   !.receipt = IF @ = "none" THEN cp.receipt ELSE @]
    IN [epoch |-> ledger.epoch \/ cp.epoch,
        att |-> IF n = 0 \/ (cp.tx = 0 /\ cp.receipt = "none") THEN ledger.att
                ELSE [ledger.att EXCEPT ![n] = IF evidence = Latest THEN @
                                               ELSE [evidence EXCEPT !.unsent = FALSE]]]

\* RecordTerminationUnsent
RecordTerminationUnsent ==
    ledger' = [ledger EXCEPT !.att[Len(ledger.att)].unsent = TRUE]

\* BeginTerminationAttempt of attempt n after attempt previous.
Repeats(n, resumed) ==
    /\ Len(ledger.att) = n
    /\ Latest.unsent \/ (resumed /\ ~Latest.mine /\ Latest.tx = 0 /\ Latest.receipt = "none")

Follows(n, previous) ==
    /\ previous = Len(ledger.att) /\ n = previous + 1
    /\ ledger.att # <<>> => Latest.receipt = "failed" /\ ~Latest.mine

BeginTerminationAttempt(n, previous, resumed) ==
    \/ /\ Len(ledger.att) = n
       /\ Latest.mine \/ Repeats(n, resumed)
       /\ ledger' = IF Repeats(n, resumed)
                    THEN [ledger EXCEPT !.att[n] = [@ EXCEPT !.mine = TRUE, !.unsent = FALSE]]
                    ELSE ledger
    \/ /\ Follows(n, previous)
       /\ ledger' = [ledger EXCEPT !.att =
            Append(@, [mine |-> TRUE, tx |-> 0, receipt |-> "none", unsent |-> FALSE])]

-----------------------------------------------------------------------------
(* Settlements and the engine, as in TaskEngine *)

Spend(b) == left[b] > 0 /\ left' = [left EXCEPT ![b] = @ - 1]

Goes(pc) == inv' = [inv EXCEPT !.pc = pc] /\ UNCHANGED <<row, rep, ledger>>

End(r) == row' = r /\ inv' = Idle

Attention == rep' = IF role = "source" THEN "cleanup_attention" ELSE rep

Waits(m, cp) ==
    End([row EXCEPT !.status = "pending", !.mode = m, !.cp = cp]) /\ UNCHANGED rep

\* taskengine.RetryInMode: transitionFor counts the attempt; out of attempts,
\* the task fails.
RetriesIn(m, cp) ==
    IF row.retry < MaxAttempts - 1
    THEN End([row EXCEPT !.status = "pending", !.mode = m, !.retry = @ + 1, !.cp = cp, !.watch = "off"])
    ELSE End([row EXCEPT !.status = "failed", !.cp = cp, !.reason = "exhausted"])

\* retryTask, which leaves the checkpoint as it is stored
Retries == RetriesIn("recover", row.cp) /\ UNCHANGED <<rep, ledger>>

Fails(reason, cp) == End([row EXCEPT !.status = "failed", !.cp = cp, !.reason = reason])

\* waitForRetirementEvidence: the task waits until the observation window has
\* passed, then spends an attempt; out of attempts the replacement needs attention.
WaitForRetirementEvidence(cp) ==
    /\ ledger' = RecordTerminationEvidence(cp)
    /\ \/ /\ row.watch # "over" /\ UNCHANGED rep
          /\ End([row EXCEPT !.status = "pending", !.mode = "recover", !.cp = cp, !.watch = "on"])
       \/ /\ row.watch = "over" /\ RetriesIn("recover", cp)
          /\ IF row'.status = "failed" THEN Attention ELSE UNCHANGED rep

\* stopRetirement, with the evidence settlement
StopRetirement(reason, cp) ==
    Fails(reason, cp) /\ ledger' = RecordTerminationEvidence(cp) /\ Attention

\* retirementReleaseSettlement: the checkpoint and the ledger say together that
\* nothing was sent.
Released(cp) == [cp EXCEPT !.unsent = TRUE]

Release(cp) ==
    RecordTerminationUnsent /\ RetriesIn("execute", Released(cp)) /\ UNCHANGED rep

Claim ==
    /\ inv.pc = "idle"
    /\ \/ row.status = "pending" /\ inv' = [Idle EXCEPT !.pc = "run", !.mode = row.mode]
       \/ row.status = "running" /\ inv' = [Idle EXCEPT !.pc = "run", !.mode = "recover"]
    /\ row' = [row EXCEPT !.status = "running", !.mode = inv'.mode]
    /\ UNCHANGED <<role, ds, rep, ledger, tx, chain, gate, left>>

\* The process dies, or loses its lease and drops what it was doing.
Crash ==
    /\ inv.pc # "idle" /\ Spend("crashes")
    /\ inv' = Idle
    /\ UNCHANGED <<role, row, ds, rep, ledger, tx, chain, gate>>

-----------------------------------------------------------------------------
(* runDataSetRetirement: the gate, then what is known of earlier attempts *)

\* A blocked source waits, a lost slot and an abandoned target that holds the
\* only copy of something stop the task.
RunDataSetRetirement ==
    /\ inv.pc = "run"
    /\ \/ /\ gate = "open" /\ UNCHANGED left
          /\ IF Conflicts(row.cp) THEN Fails("conflict", row.cp) /\ Attention
             ELSE /\ inv' = [inv EXCEPT !.cp = Merged(row.cp),
                                        !.pc = IF ledger.epoch THEN "epoch" ELSE "observe"]
                  /\ UNCHANGED <<row, rep>>
          /\ UNCHANGED ledger
       \/ /\ gate = "held" /\ role = "source"
          /\ Waits("recover", row.cp) /\ UNCHANGED <<ledger, left>>
       \/ /\ gate = "lost" \/ (gate = "held" /\ role = "target")
          /\ Fails("gate", row.cp) /\ Attention /\ UNCHANGED <<ledger, left>>
       \/ Spend("faults") /\ Retries
    /\ UNCHANGED <<role, ds, tx, chain, gate>>

-----------------------------------------------------------------------------
(* observeTermination: the chain first, then the provider and the receipt *)

\* ObserveTerminationDirect leaves out a provider whose request is not the one
\* this attempt rests on.
ObservesDirect(cp) == cp.no > 1 \/ (cp.resume /\ ~cp.relayOnly)

\* The relay requests the provider has a record of, and the hash it reports.
Held == {i \in DOMAIN tx : tx[i].via = "relay" /\ tx[i].st # "dropped"}

Reported(cp) ==
    IF ObservesDirect(cp) THEN {}
    ELSE {i \in Held : tx[i].st # "held" /\ \A j \in Held : j <= i}

\* Everything the observation adds to the checkpoint.
Observed(cp) ==
    LET known == IF cp.tx = 0 /\ Reported(cp) # {} THEN CHOOSE i \in Reported(cp) : TRUE ELSE cp.tx
    IN [cp EXCEPT !.tx = known,
                  !.receipt = IF cp.tx # 0 /\ tx[cp.tx].st = "reverted" THEN "failed"
                              ELSE IF cp.tx # 0 /\ tx[cp.tx].st = "landed" THEN "ok" ELSE @]

\* Without a known attempt the request is sent, by an execution that may.
Proceed(cp, fresh, resumed) ==
    IF inv.mode = "recover"
    THEN /\ Waits("execute", IF fresh THEN cp ELSE row.cp)
         /\ ledger' = IF fresh THEN RecordTerminationEvidence(cp) ELSE ledger
    ELSE /\ inv' = [inv EXCEPT !.pc = "admit", !.cp = cp, !.fresh = fresh, !.resumed = resumed]
         /\ UNCHANGED <<row, rep, ledger>>

\* The operator allowed the wallet to act on an unresolved relay request.
Allowed(cp) == cp.resume /\ RelayUnresolved(cp)

\* A failed read is no evidence: a known attempt is waited for, unless the wallet
\* was allowed to act beside it.
Unread(cp) ==
    \/ MayLand(cp) /\ ~Allowed(cp) /\ WaitForRetirementEvidence(cp)
    \/ MayLand(cp) /\ Allowed(cp) /\ Proceed(cp, FALSE, TRUE)
    \/ ~MayLand(cp) /\ Retries

\* The recorded end of the service is written to the ledger before anything else.
RecordEpoch(cp) ==
    /\ ledger' = RecordTerminationEvidence([cp EXCEPT !.epoch = TRUE])
    /\ Waits("recover", [cp EXCEPT !.epoch = TRUE])

\* The chain shows the service ended, or the read fails.
ObserveChain ==
    /\ inv.pc = "observe"
    /\ \/ chain.ended /\ RecordEpoch(inv.cp) /\ UNCHANGED left
       \/ ~chain.ended /\ Goes("provider") /\ UNCHANGED left
       \/ Spend("faults") /\ Unread(inv.cp)
    /\ UNCHANGED <<role, ds, tx, chain, gate>>

\* Mutant: a request the provider holds without a hash is taken for none.
AbsentWithoutHash(cp) ==
    /\ ~ObservesDirect(cp) /\ Reported(cp) = {}
    /\ MayLand(cp) /\ cp.relayOnly /\ cp.tx = 0

\* The provider answers that it has no request, and nothing else was sent.
Absent(cp) ==
    /\ ~ObservesDirect(cp) /\ Held = {}
    /\ MayLand(cp) /\ cp.relayOnly /\ cp.tx = 0

\* What the task does with the provider's and the chain's answer.
Answers ==
    LET cp == Observed(inv.cp)
        unknown == cp.receipt = "none"
    IN IF inv.cp.tx # 0 /\ Reported(inv.cp) \ {inv.cp.tx} # {} THEN StopRetirement("conflict", inv.cp)
       ELSE \/ cp.receipt = "ok" /\ RecordEpoch(cp)
            \/ cp.receipt = "failed" /\ ~cp.again /\ StopRetirement("reverted", cp)
            \/ cp.receipt = "failed" /\ cp.again /\ Proceed(cp, TRUE, FALSE)
            \/ unknown /\ Absent(cp) /\ Release(cp)
            \/ unknown /\ ~Absent(cp) /\ Allowed(cp) /\ Proceed(cp, FALSE, TRUE)
            \/ unknown /\ ~Absent(cp) /\ ~Allowed(cp) /\ MayLand(cp) /\ WaitForRetirementEvidence(cp)
            \/ unknown /\ ~MayLand(cp) /\ Proceed(cp, FALSE, FALSE)

\* Only a first request goes on without the provider's word
\* (ErrTerminationObservationUnavailable).
ObserveProvider ==
    /\ inv.pc = "provider"
    /\ \/ Answers /\ UNCHANGED left
       \/ Spend("faults") /\ Unread(inv.cp)
       \/ Spend("faults") /\ ~MayLand(inv.cp) /\ Proceed(inv.cp, FALSE, FALSE)
    /\ UNCHANGED <<role, ds, tx, chain, gate>>

-----------------------------------------------------------------------------
(* The admission and the request *)

\* The attempt is a new one only after a reverted transaction.
NextAttempt == IF inv.cp.no = 0 THEN 1 ELSE IF inv.fresh THEN inv.cp.no + 1 ELSE inv.cp.no

AdmittedCheckpoint ==
    LET resume == inv.cp.resume /\ ~inv.fresh
        direct == inv.fresh \/ NextAttempt > 1 \/ resume
    IN [NoCheckpoint EXCEPT !.no = NextAttempt, !.resume = resume, !.relayOnly = ~direct]

\* WithCheckpointedEffect("retire:<id>"): the checkpoint, the attempt in the
\* ledger and the admission are one transaction.
Admit ==
    /\ inv.pc = "admit" /\ NextAttempt <= MaxSends
    /\ \/ /\ row.admitted < row.retry + 1 /\ UNCHANGED <<rep, left>>
          /\ BeginTerminationAttempt(NextAttempt, inv.cp.no, inv.resumed)
          /\ row' = [row EXCEPT !.admitted = row.retry + 1, !.mode = "recover",
                                !.cp = AdmittedCheckpoint]
          /\ inv' = [inv EXCEPT !.pc = "send", !.cp = AdmittedCheckpoint,
                                !.skip = ~AdmittedCheckpoint.relayOnly]
       \/ row.admitted = row.retry + 1 /\ Retries /\ UNCHANGED left
       \/ Spend("faults") /\ Retries                            \* VerifyServicePayer
    /\ UNCHANGED <<role, ds, tx, chain, gate>>

Send(via, st) ==
    /\ Len(tx) < MaxSends
    /\ tx' = Append(tx, [via |-> via, no |-> inv.cp.no, waived |-> FALSE, st |-> st])

\* TerminationBlockedError, such as payment debt, stops the task, with the attempt
\* released when nothing has left the process; otherwise its evidence is kept.
Blocked(cp) == RecordTerminationUnsent /\ Fails("blocked", Released(cp)) /\ Attention

\* Mutant: any relay error makes the wallet act.
TerminateFallsBack ==
    /\ inv.pc = "send" /\ ~chain.ended
    /\ \/ inv.skip /\ Goes("direct") /\ UNCHANGED <<tx, left>>
       \/ /\ ~inv.skip /\ Spend("faults") /\ Goes("direct")
          /\ Send("relay", "held") \/ UNCHANGED tx
    /\ UNCHANGED <<role, ds, chain, gate>>

\* TerminateService: the chain is read once more, then the provider is asked to
\* relay.  The wallet goes on only when the relay holds no request of this call.
TerminateService ==
    /\ inv.pc = "send"
    /\ LET cp == inv.cp
       IN \/ /\ chain.ended /\ RecordEpoch(cp) /\ UNCHANGED <<tx, left>>
          \/ /\ Spend("faults") /\ UNCHANGED tx                 \* recordedTermination
             /\ Release(cp)
          \/ /\ ~chain.ended /\ inv.skip /\ Goes("direct") /\ UNCHANGED <<tx, left>>
          \/ /\ ~chain.ended /\ ~inv.skip /\ UNCHANGED left     \* relayed
             /\ Send("relay", "pooled")
             /\ inv' = [inv EXCEPT !.pc = "record", !.cp.tx = Len(tx) + 1]
             /\ UNCHANGED <<row, rep, ledger>>
          \/ /\ ~chain.ended /\ ~inv.skip /\ UNCHANGED left     \* accepted, not yet published
             /\ Send("relay", "held") /\ WaitForRetirementEvidence(cp)
          \/ /\ ~chain.ended /\ ~inv.skip /\ Spend("faults")    \* the outcome is unknown
             /\ Send("relay", "held") \/ Send("relay", "pooled") \/ UNCHANGED tx
             /\ WaitForRetirementEvidence(cp)
          \/ /\ ~chain.ended /\ ~inv.skip /\ Spend("faults")    \* relayRequestAbsent
             /\ Goes("direct") /\ UNCHANGED tx
          \/ /\ ~chain.ended /\ ~inv.skip /\ Spend("faults")    \* relayNeverConnected
             /\ inv' = [inv EXCEPT !.pc = "direct", !.never = TRUE]
             /\ UNCHANGED <<row, rep, ledger, tx>>
          \/ /\ ~chain.ended /\ ~inv.skip /\ Spend("faults")
             /\ \/ UNCHANGED tx /\ Blocked(cp)
                \/ (Send("relay", "held") \/ UNCHANGED tx) /\ StopRetirement("blocked", cp)
    /\ UNCHANGED <<role, ds, chain, gate>>

\* After a relay error the chain is read again.  BeforeDirect then records that
\* the provider's word no longer covers the attempt.
BeforeDirect ==
    /\ inv.pc = "direct"
    /\ \/ ~inv.skip /\ chain.ended /\ RecordEpoch(inv.cp) /\ UNCHANGED left
       \/ /\ inv.skip \/ ~chain.ended
          /\ row' = [row EXCEPT !.cp.relayOnly = FALSE]
          /\ inv' = [inv EXCEPT !.pc = "wallet", !.cp.relayOnly = FALSE]
          /\ UNCHANGED <<rep, ledger, left>>
       \/ /\ ~inv.skip /\ Spend("faults")
          /\ IF inv.never THEN Release(inv.cp) ELSE WaitForRetirementEvidence(inv.cp)
    /\ UNCHANGED <<role, ds, tx, chain, gate>>

\* The payer wallet broadcasts.  A call that failed in preparation sent nothing:
\* with a relay request that never left either, the attempt is released.
TerminateDirect ==
    /\ inv.pc = "wallet"
    /\ LET unsent == [inv.cp EXCEPT !.relayOnly = ~inv.skip]
       IN \/ /\ Send("wallet", "pooled") /\ UNCHANGED left
             /\ inv' = [inv EXCEPT !.pc = "record", !.cp.tx = Len(tx) + 1]
             /\ UNCHANGED <<row, rep, ledger>>
          \/ /\ Spend("faults") /\ UNCHANGED tx
             /\ IF inv.skip \/ inv.never THEN Release(unsent) ELSE WaitForRetirementEvidence(unsent)
          \/ /\ inv.skip /\ Spend("faults")
             /\ \/ UNCHANGED tx /\ Blocked(inv.cp)
                \/ (Send("wallet", "pooled") \/ UNCHANGED tx) /\ StopRetirement("blocked", inv.cp)
          \/ /\ Spend("faults")
             /\ Send("wallet", "pooled") \/ UNCHANGED tx
             /\ WaitForRetirementEvidence(inv.cp)
    /\ UNCHANGED <<role, ds, chain, gate>>

\* OnSubmitted: RecordEffectEvidence; when it fails the settlement writes the hash.
OnSubmitted ==
    /\ inv.pc = "record"
    /\ \/ /\ row' = [row EXCEPT !.cp = inv.cp]
          /\ ledger' = RecordTerminationEvidence(inv.cp)
          /\ inv' = [inv EXCEPT !.pc = "result"] /\ UNCHANGED <<rep, left>>
       \/ Spend("faults") /\ WaitForRetirementEvidence(inv.cp)
    /\ UNCHANGED <<role, ds, tx, chain, gate>>

\* The call returns: the service has ended, or the request stays unconfirmed.
TerminateReturns ==
    /\ inv.pc = "result"
    /\ \/ chain.ended /\ RecordEpoch(inv.cp)
       \/ WaitForRetirementEvidence(inv.cp)
    /\ UNCHANGED <<role, ds, tx, chain, gate, left>>

-----------------------------------------------------------------------------
(* The recorded end of term *)

\* The service's end is reached: BeginRetirement takes a replacement back from
\* attention and CompleteRetirement (or CompleteAbandonedTargetTermination) runs
\* the gate again in its own transaction.  A gate that closed meanwhile fails the
\* settlement, and the claim is abandoned.
CompleteRetirement ==
    /\ inv.pc = "epoch"
    /\ \/ ~chain.reached /\ Waits("recover", row.cp) /\ UNCHANGED <<ds, left>>
       \/ /\ chain.reached /\ gate = "open" /\ UNCHANGED left
          /\ ds' = "retired" /\ End([row EXCEPT !.status = "done"])
          /\ rep' = IF role = "source" THEN "completed" ELSE rep
       \/ /\ chain.reached /\ gate # "open"
          /\ inv' = Idle /\ UNCHANGED <<row, ds, rep, left>>
       \/ Spend("faults") /\ RetriesIn("recover", row.cp) /\ UNCHANGED <<ds, rep>>
    /\ UNCHANGED <<role, ledger, tx, chain, gate>>

-----------------------------------------------------------------------------
(* The operator *)

\* PrepareRetry: a failed receipt allows a new transaction, exhausted attempts
\* allow the wallet to act beside an unresolved relay request.
Grant(cp) ==
    [cp EXCEPT !.again = @ \/ row.reason = "reverted",
               !.resume = @ \/ (row.reason = "exhausted" /\ RelayUnresolved(cp))]

\* Retry: a successor takes over the data set and recovers from the checkpoint.
RetryRound ==
    /\ row.status = "failed"
    /\ LET cp == Grant(row.cp)
       IN /\ row' = [status |-> "pending", mode |-> "recover", retry |-> 0, admitted |-> 0,
                     cp |-> cp, watch |-> "off", reason |-> ""]
          /\ left' = IF cp = row.cp THEN left ELSE [left EXCEPT !.grants = @ + 1]
          /\ tx' = IF cp.resume /\ ~row.cp.resume
                   THEN [i \in DOMAIN tx |-> [tx[i] EXCEPT !.waived = @ \/ tx[i].via = "relay"]]
                   ELSE tx
    /\ ledger' = [ledger EXCEPT !.att = [i \in DOMAIN @ |-> [@[i] EXCEPT !.mine = FALSE]]]
    /\ UNCHANGED <<role, inv, ds, rep, chain, gate>>

-----------------------------------------------------------------------------
(* The provider, the chain, the clock, and the rest of the system *)

\* The provider publishes a request it holds; nothing makes it do so.
Publish(i) ==
    /\ tx[i].st = "held" /\ tx' = [tx EXCEPT ![i].st = "pooled"]
    /\ UNCHANGED <<role, row, inv, ds, rep, ledger, chain, gate, left>>

\* A transaction ends the service; on an ended service it reverts.
Land(i) ==
    /\ tx[i].st = "pooled"
    /\ tx' = [tx EXCEPT ![i].st = IF chain.ended THEN "reverted" ELSE "landed"]
    /\ chain' = [chain EXCEPT !.ended = TRUE]
    /\ UNCHANGED <<role, row, inv, ds, rep, ledger, gate, left>>

\* A transaction reverts, or is lost before the chain executes it.
Revert(i) ==
    /\ tx[i].st = "pooled" /\ Spend("faults")
    /\ \E st \in {"reverted", "dropped"} : tx' = [tx EXCEPT ![i].st = st]
    /\ UNCHANGED <<role, row, inv, ds, rep, ledger, chain, gate>>

\* The provider ends the service on its own.
EndElsewhere ==
    /\ ~chain.ended /\ chain' = [chain EXCEPT !.ended = TRUE]
    /\ UNCHANGED <<role, row, inv, ds, rep, ledger, tx, gate, left>>

EpochPasses ==
    /\ chain.ended /\ ~chain.reached /\ chain' = [chain EXCEPT !.reached = TRUE]
    /\ UNCHANGED <<role, row, inv, ds, rep, ledger, tx, gate, left>>

WindowPasses ==
    /\ row.watch = "on" /\ row' = [row EXCEPT !.watch = "over"]
    /\ UNCHANGED <<role, inv, ds, rep, ledger, tx, chain, gate, left>>

\* evaluateRetirementGate and CountAbandonedTargetSoleCopies: other work adds to
\* what the data set alone holds, or the slot is taken from the target.
CloseGate ==
    /\ gate = "open" /\ ds # "retired" /\ Spend("holds")
    /\ gate' \in {"held"} \union (IF role = "source" THEN {"lost"} ELSE {})
    /\ UNCHANGED <<role, row, inv, ds, rep, ledger, tx, chain>>

OpenGate ==
    /\ gate = "held" /\ gate' = "open"
    /\ UNCHANGED <<role, row, inv, ds, rep, ledger, tx, chain, left>>

-----------------------------------------------------------------------------

Steps ==
    Claim \/ RunDataSetRetirement \/ ObserveChain \/ ObserveProvider \/ Admit \/ TerminateService
    \/ BeforeDirect \/ TerminateDirect \/ OnSubmitted \/ TerminateReturns \/ CompleteRetirement

Lands == \E i \in DOMAIN tx : Land(i)

Next ==
    Steps \/ RetryRound \/ Lands \/ EndElsewhere \/ EpochPasses \/ WindowPasses \/ CloseGate
    \/ OpenGate \/ Crash \/ \E i \in DOMAIN tx : Publish(i) \/ Revert(i)

Spec == Init /\ [][Next]_vars

\* The engine runs what is due and an operator keeps retrying; and the chain
\* executes what it holds, time passes, and what closes the gate is worked off.
Surroundings == Lands \/ EpochPasses \/ WindowPasses \/ OpenGate
FairSpec == Spec /\ WF_vars(Steps \/ RetryRound) /\ WF_vars(Surroundings)

-----------------------------------------------------------------------------
(* Properties *)

\* No two requests race to end the service: when the wallet sends, every earlier
\* request is settled or an operator's Retry allowed it to be passed by, and the
\* provider is never asked again while anything may still land.
SendAllowed ==
    \A i \in DOMAIN tx' \ DOMAIN tx : \A j \in DOMAIN tx :
       Live(j) => tx'[i].via = "wallet" /\ tx[j].waived
SendsNeverRace == [][SendAllowed]_vars

\* A paid termination is sent once per attempt, and every attempt after the first
\* is one that an operator's Retry allowed.
PaidOncePerGrant ==
    /\ Len(ledger.att) <= 1 + left.grants
    /\ \A i, j \in DOMAIN tx : i # j /\ tx[i].no = tx[j].no =>
         \E k \in {i, j} : tx[k].via = "relay" \/ tx[k].st = "dropped"

\* An attempt the ledger shows as unsent (unsent_at in the admin API) has nothing
\* that can still land, apart from a relay request an operator set aside.
UnsentCannotLand ==
    \A n \in DOMAIN ledger.att : ledger.att[n].unsent =>
        \A i \in DOMAIN tx : tx[i].no = n /\ Live(i) => tx[i].waived

\* A data set is retired only when its service has ended on chain, its term is
\* over and the gate holds at that moment.
RetireAllowed == ds' # ds => chain.ended /\ chain.reached /\ gate = "open"
RetiredIsOver == [][RetireAllowed]_vars

\* No sequence of crashes, lost answers and retries makes the task and the ledger
\* disagree on a transaction, which no Retry could repair.
EvidenceAgrees == row.reason # "conflict" /\ ~Conflicts(row.cp)

\* What the ledger, the task and the chain say of the attempts agrees.
LedgerInv == TypeOK /\ PaidOncePerGrant /\ UnsentCannotLand /\ EvidenceAgrees

\* However the request ended, a service the chain shows as ended is retired by
\* an operator who keeps retrying, unless the slot was lost.
EndedAndRetired == chain.ended => ds = "retired" \/ gate = "lost"
EndedIsRetired == []<>EndedAndRetired
=============================================================================
