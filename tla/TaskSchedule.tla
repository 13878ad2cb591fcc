---------------------------- MODULE TaskSchedule ----------------------------
(***************************************************************************)
(* One recurring system task (internal/worker/periodic.go over             *)
(* task_schedule_repo.go): the dispatcher starts a cycle when the schedule *)
(* is due, the settlement of the cycle plans the next one and clears the   *)
(* failures of earlier cycles, and operators may retry the failed head.    *)
(*                                                                         *)
(* The transactions of the dispatcher and of a settlement lock the         *)
(* schedule row first; Service.Retry locks the task row first and the      *)
(* schedule row later, so it is modelled in two steps.                     *)
(***************************************************************************)
EXTENDS Naturals

CONSTANTS MaxTasks,   \* bound: cycles and retry rounds ever inserted
          Operators,  \* concurrent callers of Service.Retry
          Nil         \* an operator without a request

Ids == 1 .. MaxTasks
Unfinished == {"pending", "running"}
Ended == {"completed", "failed"}
Row == [status : {"absent", "cancelled"} \cup Unfinished \cup Ended,
        cycle : Nat, superseded : BOOLEAN]

VARIABLES rows,   \* Ids -> Row: the tasks of the recurring type
          head,   \* task_schedules.latest_task_id, 0 for NULL
          gen,    \* task_schedules.generation
          due,    \* next_run_at has been reached
          ops     \* Operators -> Nil, or the source and whether it is locked

scheduleVars == <<rows, head, gen, due, ops>>

Inserted == {t \in Ids : rows[t].status # "absent"}
NextId(n) == n \in Ids \ Inserted /\ 1 .. n - 1 \subseteq Inserted

CurrentFailed(t) == rows[t].status = "failed" /\ ~rows[t].superseded
Locked(t) == \E o \in Operators : ops[o] # Nil /\ ops[o].source = t /\ ops[o].locked

\* bootstrap: Ensure inserts a schedule that is due at once.
ScheduleInit == /\ rows = [t \in Ids |-> [status |-> "absent", cycle |-> 0,
                                          superseded |-> FALSE]]
                /\ head = 0 /\ gen = 0 /\ due = TRUE
                /\ ops = [o \in Operators |-> Nil]

\* next_run_at is reached.
BecomesDue == ~due /\ due' = TRUE /\ UNCHANGED <<rows, head, gen, ops>>

\* dispatchSchedules: a due schedule whose latest task has ended starts the
\* next cycle.
Dispatch ==
    /\ due
    /\ \A t \in Ids : head = t => rows[t].status \notin Unfinished
    /\ \E n \in Ids :
         /\ NextId(n)
         /\ rows' = [rows EXCEPT ![n] = [status |-> "pending", cycle |-> gen + 1,
                                         superseded |-> FALSE]]
         /\ head' = n
    /\ gen' = gen + 1
    /\ UNCHANGED <<due, ops>>

\* The engine claims the task.
Claim(t) ==
    /\ rows[t].status = "pending"
    /\ rows' = [rows EXCEPT ![t].status = "running"]
    /\ UNCHANGED <<head, gen, due, ops>>

\* A wait or a retry with budget left settles the task as pending again.
SettlePending(t) ==
    /\ rows[t].status = "running"
    /\ rows' = [rows EXCEPT ![t].status = "pending"]
    /\ UNCHANGED <<head, gen, due, ops>>

\* Mutant: a cancelled cycle clears earlier failures as well.
ClearedByAny(t, status) == {u \in Ids : u < t /\ CurrentFailed(u)}

\* The earlier failures a cycle that ends with status supersedes.
Cleared(t, status) ==
    {u \in Ids : status # "cancelled" /\ u < t /\ CurrentFailed(u)}

\* settleSchedule, in the settlement that ends task t.  It waits for a
\* Service.Retry that has locked one of the failures to clear.
SettleEnd(t, status) ==
    /\ rows[t].status = "running"
    /\ head = t
    /\ \A u \in Cleared(t, status) : ~Locked(u)
    /\ rows' = [u \in Ids |->
         IF u = t THEN [rows[t] EXCEPT !.status = status]
         ELSE IF u \in Cleared(t, status) THEN [rows[u] EXCEPT !.superseded = TRUE]
         ELSE rows[u]]
    /\ due' = FALSE
    /\ UNCHANGED <<head, gen, ops>>

\* Service.Retry reads a failed task outside any transaction.
RetryReads(o, s) ==
    /\ ops[o] = Nil /\ CurrentFailed(s)
    /\ ops' = [ops EXCEPT ![o] = [source |-> s, locked |-> FALSE]]
    /\ UNCHANGED <<rows, head, gen, due>>

\* Its transaction locks the task row and finds the schedule by its head.
RetryLocks(o) ==
    /\ ops[o] # Nil /\ ~ops[o].locked /\ ~Locked(ops[o].source)
    /\ CurrentFailed(ops[o].source) /\ head = ops[o].source
    /\ ops' = [ops EXCEPT ![o].locked = TRUE]
    /\ UNCHANGED <<rows, head, gen, due>>

\* The successor of s becomes the head of the same cycle, to run now.
Replace(o, s) ==
    /\ \E n \in Ids :
         /\ NextId(n)
         /\ rows' = [rows EXCEPT ![s].superseded = TRUE,
                                 ![n] = [status |-> "pending", superseded |-> FALSE,
                                         cycle |-> rows[s].cycle]]
         /\ head' = n
    /\ due' = TRUE
    /\ ops' = [ops EXCEPT ![o] = Nil]
    /\ UNCHANGED gen

\* Mutant: the head is not compared again once the schedule is locked.
RetryCommitsUnchecked(o) == ops[o] # Nil /\ ops[o].locked /\ Replace(o, ops[o].source)

\* With the schedule row locked too, the head is compared again.
RetryCommits(o) ==
    /\ ops[o] # Nil /\ ops[o].locked /\ head = ops[o].source
    /\ Replace(o, ops[o].source)

\* The retry is refused, returns an existing successor, fails, or is the victim
\* of the database's deadlock detection; or the process dies.
RetryEnds(o) ==
    /\ ops[o] # Nil
    /\ ops' = [ops EXCEPT ![o] = Nil]
    /\ UNCHANGED <<rows, head, gen, due>>

ScheduleNext ==
    \/ BecomesDue \/ Dispatch
    \/ \E t \in Ids : \/ Claim(t) \/ SettlePending(t)
                      \/ \E status \in Ended \cup {"cancelled"} : SettleEnd(t, status)
    \/ \E o \in Operators : \/ RetryLocks(o) \/ RetryCommits(o) \/ RetryEnds(o)
                            \/ \E s \in Ids : RetryReads(o, s)

ScheduleSpec == ScheduleInit /\ [][ScheduleNext]_scheduleVars

\* Time passes, the dispatcher polls, the engine claims and ends what it claims
\* (the attempts of a task are bounded), and no request waits for ever for a
\* lock: the database breaks the cycle of a retry and a settlement.
Settles == \E t \in Ids, status \in Ended \cup {"cancelled"} : SettleEnd(t, status)
ScheduleFairness ==
    /\ WF_scheduleVars(BecomesDue) /\ WF_scheduleVars(Dispatch)
    /\ WF_scheduleVars(\E t \in Ids : Claim(t))
    /\ SF_scheduleVars(Settles)
    /\ \A o \in Operators : WF_scheduleVars(RetryEnds(o) \/ RetryCommits(o))

ScheduleFairSpec == ScheduleSpec /\ ScheduleFairness

-----------------------------------------------------------------------------

ScheduleTypeOK == /\ rows \in [Ids -> Row]
                  /\ head \in 0 .. MaxTasks /\ gen \in 0 .. MaxTasks /\ due \in BOOLEAN
                  /\ ops \in [Operators -> {Nil} \cup [source : Ids, locked : BOOLEAN]]

\* The unfinished task of a schedule is its head, whatever retries and
\* dispatches race: settleSchedule never meets the conflict that would leave a
\* claim unsettled for ever, and two cycles never run at once.
UnfinishedIsHead == \A t \in Ids : rows[t].status \in Unfinished => head = t

\* Once a cycle has ended without being cancelled, no failure of an earlier
\* task is left for an operator.
StaleFailuresCleared ==
    \A t, u \in Ids : CurrentFailed(t) /\ t < u => rows[u].status \notin Ended

\* The head is the only unfinished task and earlier failures are gone, after every
\* interleaving of dispatches, settlements and retries.
ScheduleInv == ScheduleTypeOK /\ UnfinishedIsHead /\ StaleFailuresCleared

\* "Earlier failures remain actionable until a subsequent cycle ends"
\* (periodic.go:145): a failure leaves the current ones in a step that ends a
\* later task as completed or failed, or by its own retry.
FailureActionable ==
    \A t \in Ids : CurrentFailed(t) /\ ~CurrentFailed(t)' =>
       \/ \E u \in Ids : u > t /\ rows[u].status = "running" /\ rows'[u].status \in Ended
       \/ head = t /\ head' # t /\ rows'[head'].cycle = rows[t].cycle
FailuresActionable == [][FailureActionable]_scheduleVars

\* The recurring work does not stop: a further cycle starts after every one.
LastInserted == MaxTasks \in Inserted
CyclesContinue == <>LastInserted
=============================================================================
