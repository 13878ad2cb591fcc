------------------------------ MODULE SpeedTests ------------------------------
(***************************************************************************)
(* Upload speed tests of a provider.                                       *)
(*                                                                         *)
(* One row holds the provider's last result and the task that tests it     *)
(* now.  Tests are begun by the recurring refresh when one is due, by an   *)
(* administrator, and by the retry of a failed task; each reads first and  *)
(* begins later, together with its task, in one transaction.  The task     *)
(* probes the provider's address behind a checkpoint and settles the row.  *)
(***************************************************************************)
EXTENDS Integers, FiniteSets, FiniteSetsExt

CONSTANTS
    Addresses,     \* service URLs of the provider; 0 stands for not eligible
    Starters,      \* who begins tests: subset of auto, manual, retry
    MaxTests,
    SpeedBounds    \* budgets: moves of the provider, ageing of a result, faults

VARIABLES
    url,           \* where the provider is observed now
    row,           \* its provider_upload_speed_tests row
    tests,         \* task -> status, progress, address, checkpoint
    asks,          \* starter -> what it has read
    left

vars == <<url, row, tests, asks, left>>

Tests == 1..MaxTests
NoRow == [state |-> "none", hash |-> 0, speed |-> 0, code |-> "none", tested |-> FALSE, old |-> FALSE, task |-> 0]
NoTest == [status |-> "none", pc |-> "none", hash |-> 0, chk |-> "none", speed |-> 0, code |-> "none"]
NoAsk == [hash |-> 0, of |-> 0]

Live == {t \in Tests : tests[t].status \in {"pending", "running"}}
Made == {t \in Tests : tests[t].status # "none"}
Latest == IF Made = {} THEN 0 ELSE Max(Made)

Init ==
    /\ url \in Addresses
    /\ row = NoRow
    /\ tests = [t \in Tests |-> NoTest]
    /\ asks = [s \in Starters |-> NoAsk]
    /\ left \in SpeedBounds

Spend(k) == left[k] > 0 /\ left' = [left EXCEPT ![k] = @ - 1]

ProviderMoves ==
    /\ Spend("moves") /\ url' \in (Addresses \cup {0}) \ {url}
    /\ UNCHANGED <<row, tests, asks>>

ResultAges ==
    /\ Spend("ages") /\ row.tested /\ ~row.old
    /\ row' = [row EXCEPT !.old = TRUE]
    /\ UNCHANGED <<url, tests, asks>>

(***************************************************************************)
(* Beginning a test.                                                       *)
(***************************************************************************)
MeasuredFailure(code) == code = "upload_failed"

Due(hash) ==
    \/ row = NoRow
    \/ /\ row.state \in {"succeeded", "failed"}
       /\ \/ row.hash # hash \/ ~row.tested
          \/ row.code # "none" /\ ~MeasuredFailure(row.code)
          \/ row.old

\* What a starter reads before its transaction.
Ask(s) ==
    /\ asks[s] = NoAsk /\ url # 0 /\ Latest < MaxTests
    /\ s = "auto" => Due(url)
    /\ s = "retry" => Latest # 0 /\ tests[Latest].status = "failed" /\ row.state # "testing"
    /\ asks' = [asks EXCEPT ![s] = [hash |-> url, of |-> IF s = "retry" THEN Latest ELSE 0]]
    /\ UNCHANGED <<url, row, tests, left>>

\* A result is kept while its address is tested again.
Retained(hash) == IF row.hash = hash THEN row ELSE [NoRow EXCEPT !.hash = hash]

\* begin: the row admits one test at a time.
Begin(s) ==
    /\ asks[s] # NoAsk
    /\ asks' = [asks EXCEPT ![s] = NoAsk]
    /\ LET h == asks[s].hash
           t == Latest + 1
       IN  IF row.state # "testing" /\ (s = "auto" => Due(h)) /\ (s = "retry" => asks[s].of = Latest) /\ t \in Tests
           THEN /\ tests' = [tests EXCEPT ![t] = [NoTest EXCEPT !.status = "pending", !.hash = h]]
                /\ row' = [Retained(h) EXCEPT !.state = "testing", !.task = t]
           ELSE UNCHANGED <<tests, row>>
    /\ UNCHANGED <<url, left>>

(***************************************************************************)
(* The task.                                                               *)
(***************************************************************************)
\* One test runs at a time; one whose probe may have begun is recovered.
Claim(t) ==
    /\ tests[t].status = "pending" /\ ~\E o \in Tests : tests[o].status = "running"
    /\ tests' = [tests EXCEPT ![t].status = "running", ![t].pc = IF tests[t].chk = "none" THEN "execute" ELSE "recover"]
    /\ UNCHANGED <<url, row, asks, left>>

Decide(t, pc, code, speed) == tests' = [tests EXCEPT ![t].pc = pc, ![t].code = code, ![t].speed = speed]

Execute(t) ==
    /\ tests[t].pc = "execute"
    /\ IF url # tests[t].hash THEN Decide(t, "settle", "provider_changed", 0) /\ UNCHANGED left
       ELSE \/ tests' = [tests EXCEPT ![t].pc = "probe", ![t].chk = "attempted"] /\ UNCHANGED left
            \/ Spend("faults") /\ Decide(t, "settle", "record_failed", 0)
    /\ UNCHANGED <<url, row, asks>>

\* The probe goes to the address that was compared, wherever the provider is
\* by now; what it measured is checkpointed before it is settled.
Probe(t) ==
    /\ tests[t].pc = "probe"
    /\ \/ /\ tests' = [tests EXCEPT ![t].pc = "settle", ![t].chk = "measured", ![t].speed = tests[t].hash]
          /\ UNCHANGED left
       \/ Spend("faults") /\ \E c \in {"upload_failed", "record_failed"} : Decide(t, "settle", c, 0)
    /\ UNCHANGED <<url, row, asks>>

Recover(t) ==
    /\ tests[t].pc = "recover"
    /\ IF tests[t].chk = "measured" THEN Decide(t, "settle", "none", tests[t].hash)
       ELSE Decide(t, "settle", "interrupted", 0)
    /\ UNCHANGED <<url, row, asks, left>>

Owned(t) == row.task = t /\ row.state = "testing"

Settled(code, speed) ==
    [row EXCEPT !.state = IF code = "none" THEN "succeeded" ELSE "failed", !.task = 0,
                !.tested = TRUE, !.old = FALSE, !.speed = speed, !.code = code]

\* Finish, in the transaction that ends the task.
Settle(t) ==
    /\ tests[t].pc = "settle" /\ Owned(t)
    /\ row' = Settled(tests[t].code, tests[t].speed)
    /\ tests' = [tests EXCEPT ![t] = [NoTest EXCEPT !.status = IF tests[t].code = "none" THEN "completed" ELSE "failed"]]
    /\ UNCHANGED <<url, asks, left>>

\* The process dies; the task is claimed again.
Dies ==
    /\ Spend("faults")
    /\ \E t \in Tests : /\ tests[t].status = "running"
                        /\ tests' = [tests EXCEPT ![t].status = "pending", ![t].pc = "none", ![t].code = "none", ![t].speed = 0]
    /\ UNCHANGED <<url, row, asks>>

FailActiveTask(t) == IF Owned(t) THEN Settled("handler_panic", 0) ELSE row

\* The engine fails the task by itself.
EngineFails(t) ==
    /\ tests[t].status = "running" /\ Spend("faults")
    /\ row' = FailActiveTask(t)
    /\ tests' = [tests EXCEPT ![t] = [NoTest EXCEPT !.status = "failed"]]
    /\ UNCHANGED <<url, asks>>

TestSteps(t) == Claim(t) \/ Execute(t) \/ Probe(t) \/ Recover(t) \/ Settle(t)

Next ==
    \/ ProviderMoves \/ ResultAges \/ Dies
    \/ \E s \in Starters : Ask(s) \/ Begin(s)
    \/ \E t \in Tests : TestSteps(t) \/ EngineFails(t)

Spec == Init /\ [][Next]_vars

\* The engine claims pending tasks, and a probe ends by its timeout.
FairSpec == Spec /\ WF_vars(\E t \in Tests : TestSteps(t))

(***************************************************************************)
(* Properties.                                                             *)
(***************************************************************************)
TypeOK ==
    /\ url \in Addresses \cup {0}
    /\ row.state \in {"none", "testing", "succeeded", "failed"} /\ row.task \in 0..MaxTests
    /\ \A t \in Tests : tests[t].status \in {"none", "pending", "running", "completed", "failed"}

\* "the provider's speed test row admits one at a time" (upload_speed.go):
\* however a refresh, an administrator and a retry interleave, and wherever a
\* task dies, the row is testing exactly while the one task it names is
\* alive, so it can always be tested again; and the speed it shows, also
\* while a new test runs, was measured at the address it is shown for.
SpeedInv ==
    /\ TypeOK
    /\ Live = IF row.state = "testing" THEN {row.task} ELSE {}
    /\ row.speed \in {0, row.hash}
    /\ row.tested => (row.speed = 0) = (row.code # "none")

\* A test that was begun is settled: the row does not stay in testing.
Idle == row.state # "testing"
TestsSettle == []<>Idle
===============================================================================
