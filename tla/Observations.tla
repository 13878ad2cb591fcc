----------------------------- MODULE Observations -----------------------------
(***************************************************************************)
(* What the gateway knows of its providers: refreshes shared by concurrent *)
(* callers, and the table of observations they write.                      *)
(*                                                                         *)
(* Recurring tasks and administrators ask for a complete refresh; callers  *)
(* that overlap share one call, and the call is cancelled once all of them *)
(* have gone.  An administrator may also refresh one provider, beside a    *)
(* complete refresh.  An observation carries the time its check began and  *)
(* replaces an older one only; a stored time the clock has moved away from *)
(* does not count.                                                         *)
(***************************************************************************)
EXTENDS Integers, FiniteSets, FiniteSetsExt

CONSTANTS
    Callers,     \* requests for a complete refresh
    Singles,     \* requests to refresh one provider
    Providers,   \* known providers
    Bound,       \* providers that hold local data sets
    Skew,        \* how far ahead of the clock a stored time may be
    MaxClock,
    ObsBounds    \* budgets: calls, singles, ticks, changes of a provider, clock set back, failures, callers that go; and the detached callers

VARIABLES
    clock,
    truth,       \* provider -> its status
    lastTrue,    \* history: provider -> status -> latest time it had it
    rows,        \* provider -> its stored observation
    coll,        \* time of the stored complete snapshot, 0 before the first
    group,       \* the call in flight: id, waiters, whether cancelled, phase, check time, findings
    ended,       \* call -> how it ended
    callers,     \* caller -> progress
    singles,     \* single refresh -> progress
    best,        \* history: provider -> time of its newest stored observation
    behind,      \* history: the clock was set back
    left

vars == <<clock, truth, lastTrue, rows, coll, group, ended, callers, singles, best, behind, left>>

Statuses == {"available", "unavailable"}
NoRow == [st |-> "none", chk |-> 0, att |-> 0]
NoCall == [id |-> 0, live |-> {}, detached |-> {}, cancelled |-> FALSE, phase |-> "none", at |-> 0, found |-> {}]
Calls == 1..Cardinality(Callers)
Fresh(d) == [pc |-> "idle", call |-> 0, detach |-> d, gone |-> FALSE, res |-> "none"]
NoSingle == [pc |-> "idle", p |-> 0, at |-> 0, st |-> "none"]

Init ==
    /\ clock = 1
    /\ truth = [p \in Providers |-> "available"]
    /\ lastTrue = [p \in Providers |-> [s \in Statuses |-> IF s = "available" THEN 1 ELSE 0]]
    /\ rows = [p \in Providers |-> NoRow] /\ coll = 0
    /\ group = NoCall /\ ended = [i \in Calls |-> "none"]
    /\ left \in ObsBounds
    /\ callers = [c \in Callers |-> Fresh(c \in left.detached)]
    /\ singles = [s \in Singles |-> NoSingle]
    /\ best = [p \in Providers |-> 0] /\ behind = FALSE

Spend(k) == left[k] > 0 /\ left' = [left EXCEPT ![k] = @ - 1]

(***************************************************************************)
(* Time and the providers.                                                 *)
(***************************************************************************)
Seen(t, m) == [p \in Providers |-> [lastTrue[p] EXCEPT ![t[p]] = m]]

Tick ==
    /\ Spend("ticks") /\ clock < MaxClock /\ clock' = clock + 1
    /\ lastTrue' = Seen(truth, clock + 1)
    /\ UNCHANGED <<truth, rows, coll, group, ended, callers, singles, best, behind>>

ClockSetBack ==
    /\ Spend("back") /\ clock > 1 /\ clock' = 1 /\ behind' = TRUE
    /\ UNCHANGED <<truth, lastTrue, rows, coll, group, ended, callers, singles, best>>

ProviderChanges(p) ==
    /\ Spend("changes")
    /\ truth' = [truth EXCEPT ![p] = IF @ = "available" THEN "unavailable" ELSE "available"]
    /\ lastTrue' = Seen(truth', clock)
    /\ UNCHANGED <<clock, rows, coll, group, ended, callers, singles, best, behind>>

(***************************************************************************)
(* The table.                                                              *)
(***************************************************************************)
LatestPlausibleObservationTime == clock + Skew

\* Mutant of UpsertTimestampGuard: the last writer wins.
LastWriterWins(stored, at) == TRUE

UpsertTimestampGuard(stored, at) == stored <= at \/ stored > LatestPlausibleObservationTime

SnapshotTimestampGuard(stored, at) == stored < at \/ stored > LatestPlausibleObservationTime

\* upsertProviderState: a check that failed moves only the time of the attempt.
UpsertProviderState(row, at, st) ==
    CASE row = NoRow -> [st |-> st, chk |-> at, att |-> at]
      [] row # NoRow /\ ~UpsertTimestampGuard(row.att, at) -> row
      [] row # NoRow /\ UpsertTimestampGuard(row.att, at) ->
            IF st = "unknown" THEN [row EXCEPT !.att = at] ELSE [st |-> st, chk |-> at, att |-> at]

\* A row that a later snapshot deletes starts again.
Newest(p, at) ==
    IF rows'[p] = NoRow /\ coll' > best[p] THEN 0
    ELSE IF rows'[p].att = at THEN Max({best[p], at}) ELSE best[p]

\* ReplaceProviderStates: the snapshot is claimed, its rows are written, and
\* older rows it does not name are deleted.
ReplaceProviderStates(at, found) ==
    LET named == {o.p : o \in found}
        Of(p) == (CHOOSE o \in found : o.p = p).st
    IN  IF coll = 0 \/ SnapshotTimestampGuard(coll, at)
        THEN /\ coll' = at
             /\ rows' = [p \in Providers |->
                    IF p \in named THEN UpsertProviderState(rows[p], at, Of(p))
                    ELSE IF rows[p].att < at \/ rows[p].att > LatestPlausibleObservationTime THEN NoRow
                    ELSE rows[p]]
        ELSE UNCHANGED <<coll, rows>>

(***************************************************************************)
(* A shared call: local data sets, checks, store.                          *)
(***************************************************************************)
RefreshStarts ==
    /\ group.phase = "list"
    /\ group' = [group EXCEPT !.phase = "check", !.at = clock]
    /\ UNCHANGED <<clock, truth, lastTrue, rows, coll, ended, callers, singles, best, behind, left>>

\* CheckProviders: the registry lists active providers, those bound locally
\* are looked up by themselves, and the health of each is probed.
CheckProviders ==
    /\ group.phase = "check"
    /\ \E lost \in SUBSET Providers :
        /\ IF lost = {} THEN UNCHANGED left ELSE Spend("failures")
        /\ LET named == {p \in Providers : truth[p] = "available"} \cup Bound
           IN  group' = [group EXCEPT !.phase = "store",
                    !.found = {[p |-> p, st |-> IF p \in lost THEN "unknown" ELSE truth[p]] : p \in named}]
    /\ UNCHANGED <<clock, truth, lastTrue, rows, coll, ended, callers, singles, best, behind>>

RefreshEnds(how) ==
    /\ ended' = [ended EXCEPT ![group.id] = how]
    /\ group' = NoCall

RefreshStores ==
    /\ group.phase = "store"
    /\ ReplaceProviderStates(group.at, group.found)
    /\ best' = [p \in Providers |-> Newest(p, group.at)]
    /\ RefreshEnds("ok")
    /\ UNCHANGED <<clock, truth, lastTrue, callers, singles, behind, left>>

\* An error, the timeout, or the cancellation of the call.
RefreshFails ==
    /\ group.phase # "none"
    /\ IF group.cancelled THEN RefreshEnds("cancelled") /\ UNCHANGED left
       ELSE Spend("failures") /\ RefreshEnds("error")
    /\ UNCHANGED <<clock, truth, lastTrue, rows, coll, callers, singles, best, behind>>

(***************************************************************************)
(* Callers: refreshGroup.do.                                               *)
(***************************************************************************)
Waiters(c) == IF callers[c].detach THEN "detached" ELSE "live"

Return(c, r) == callers' = [callers EXCEPT ![c].pc = "back", ![c].res = r]

Call(c) ==
    /\ callers[c].pc = "idle" /\ Spend("calls")
    /\ \A d \in Callers : d < c => callers[d].pc # "idle"
    /\ callers' = [callers EXCEPT ![c].pc = "enter"]
    /\ UNCHANGED <<clock, truth, lastTrue, rows, coll, group, ended, singles, best, behind>>

Enter(c) ==
    /\ callers[c].pc = "enter"
    /\ \/ /\ callers[c].gone /\ (~callers[c].detach \/ callers[c].call = 0)
          /\ Return(c, "gone")
          /\ UNCHANGED group
       \/ /\ ~callers[c].gone \/ (callers[c].detach /\ callers[c].call # 0)
          /\ \/ /\ group = NoCall
                /\ LET i == Cardinality({k \in Calls : ended[k] # "none"}) + 1
                   IN  /\ group' = [NoCall EXCEPT !.id = i, !.phase = "list", ![Waiters(c)] = {c}]
                       /\ callers' = [callers EXCEPT ![c].pc = "wait", ![c].call = i]
             \/ /\ group # NoCall /\ group.cancelled
                /\ callers' = [callers EXCEPT ![c].pc = "retired", ![c].call = group.id]
                /\ UNCHANGED group
             \/ /\ group # NoCall /\ ~group.cancelled
                /\ group' = [group EXCEPT ![Waiters(c)] = @ \cup {c}]
                /\ callers' = [callers EXCEPT ![c].pc = "wait", ![c].call = group.id]
    /\ UNCHANGED <<clock, truth, lastTrue, rows, coll, ended, singles, best, behind, left>>

Gone(c) ==
    /\ callers[c].pc \notin {"idle", "back"} /\ ~callers[c].gone
    /\ Spend("gone")
    /\ callers' = [callers EXCEPT ![c].gone = TRUE]
    /\ UNCHANGED <<clock, truth, lastTrue, rows, coll, group, ended, singles, best, behind>>

Delivered(c) ==
    /\ callers[c].pc = "wait" /\ ended[callers[c].call] # "none"
    /\ Return(c, ended[callers[c].call])
    /\ UNCHANGED <<clock, truth, lastTrue, rows, coll, group, ended, singles, best, behind, left>>

NobodyWaits(live) == live = {} /\ group.detached = {}

\* release: the last one to go cancels the call, and waits for it.
Release(c) ==
    /\ callers[c].pc = "wait" /\ callers[c].gone /\ ~callers[c].detach
    /\ LET live == group.live \ {c}
           current == group.id = callers[c].call /\ ~group.cancelled
       IN  IF current /\ NobodyWaits(live)
           THEN /\ group' = [group EXCEPT !.live = live, !.cancelled = TRUE]
                /\ callers' = [callers EXCEPT ![c].pc = "drain"]
           ELSE /\ group' = IF current THEN [group EXCEPT !.live = live] ELSE group
                /\ Return(c, "gone")
    /\ UNCHANGED <<clock, truth, lastTrue, rows, coll, ended, singles, best, behind, left>>

Drained(c) ==
    /\ callers[c].pc = "drain" /\ ended[callers[c].call] # "none"
    /\ Return(c, "gone")
    /\ UNCHANGED <<clock, truth, lastTrue, rows, coll, group, ended, singles, best, behind, left>>

\* waitForRetiredRefresh
Retired(c) ==
    /\ callers[c].pc = "retired"
    /\ \/ /\ ended[callers[c].call] # "none"
          /\ callers' = [callers EXCEPT ![c].pc = "enter"]
       \/ /\ callers[c].gone /\ ~callers[c].detach
          /\ Return(c, "gone")
    /\ UNCHANGED <<clock, truth, lastTrue, rows, coll, group, ended, singles, best, behind, left>>

(***************************************************************************)
(* One provider: RefreshProvider, one at a time for each of them.          *)
(***************************************************************************)
SingleStarts(s) ==
    /\ singles[s].pc = "idle" /\ Spend("singles")
    /\ \A o \in Singles : o < s => singles[o].pc # "idle"
    /\ \E p \in Providers :
        singles' = [singles EXCEPT ![s] =
            IF \E o \in Singles : singles[o].p = p /\ singles[o].pc \in {"check", "store"}
            THEN [NoSingle EXCEPT !.pc = "over"]
            ELSE [NoSingle EXCEPT !.pc = "check", !.p = p, !.at = clock]]
    /\ UNCHANGED <<clock, truth, lastTrue, rows, coll, group, ended, callers, best, behind>>

CheckProvider(s) ==
    /\ singles[s].pc = "check"
    /\ \E st \in {truth[singles[s].p], "unknown"} :
        /\ IF st = "unknown" THEN Spend("failures") ELSE UNCHANGED left
        /\ singles' = [singles EXCEPT ![s].pc = "store", ![s].st = st]
    /\ UNCHANGED <<clock, truth, lastTrue, rows, coll, group, ended, callers, best, behind>>

UpsertProviderObservation(s) ==
    /\ singles[s].pc = "store"
    /\ LET p == singles[s].p
       IN  /\ rows' = [rows EXCEPT ![p] = UpsertProviderState(@, singles[s].at, singles[s].st)]
           /\ best' = [best EXCEPT ![p] = IF rows'[p].att = singles[s].at THEN Max({@, singles[s].at}) ELSE @]
    /\ singles' = [singles EXCEPT ![s] = [NoSingle EXCEPT !.pc = "over"]]
    /\ UNCHANGED <<clock, truth, lastTrue, coll, group, ended, callers, behind, left>>

CallerSteps(c) == Enter(c) \/ Delivered(c) \/ Release(c) \/ Drained(c) \/ Retired(c)
RefreshSteps == RefreshStarts \/ CheckProviders \/ RefreshStores \/ RefreshFails
SingleSteps(s) == SingleStarts(s) \/ CheckProvider(s) \/ UpsertProviderObservation(s)

Next ==
    \/ Tick \/ ClockSetBack \/ \E p \in Providers : ProviderChanges(p)
    \/ RefreshSteps
    \/ \E c \in Callers : Call(c) \/ CallerSteps(c) \/ Gone(c)
    \/ \E s \in Singles : SingleSteps(s)

Spec == Init /\ [][Next]_vars

\* A refresh ends by its timeout at the latest; goroutines are scheduled.
Fairness == WF_vars(RefreshSteps) /\ \A c \in Callers : WF_vars(CallerSteps(c))

FairSpec == Spec /\ Fairness

(***************************************************************************)
(* Properties.                                                             *)
(***************************************************************************)
TypeOK ==
    /\ clock \in 1..MaxClock /\ coll \in 0..MaxClock /\ behind \in BOOLEAN
    /\ truth \in [Providers -> Statuses]
    /\ \A p \in Providers : rows[p].st \in Statuses \cup {"unknown", "none"} /\ rows[p].chk <= rows[p].att
    /\ \A c \in Callers : callers[c].pc \in {"idle", "enter", "wait", "drain", "retired", "back"}

\* Overlapping refreshes do not mislead selection and the overview: while
\* the clock runs forward a provider's row is never older than an observation
\* stored for it before, whichever refresh committed last, and it goes only
\* when a later complete snapshot does not name it; a status is never shown
\* as checked at a time after which the provider no longer had it, also when
\* later checks failed; and no caller sees the cancellation of another:
\* "joins or starts a fresh call" (service.go), the shared call being
\* cancelled only when nobody waits for it.
ObservationsInv ==
    /\ TypeOK
    /\ ~behind => \A p \in Providers :
        /\ rows[p].att >= best[p]
        /\ rows[p].st \in Statuses => lastTrue[p][rows[p].st] >= rows[p].chk
    /\ group.cancelled => group.live = {} /\ group.detached = {}
    /\ \A c \in Callers : callers[c].res # "cancelled" /\ (callers[c].res = "gone" => callers[c].gone)
    /\ \A c \in Callers : callers[c].pc = "wait" /\ group.id = callers[c].call => c \in group[Waiters(c)]

\* Every caller of a refresh returns, also those that meet a cancelled call.
Returned(c) == callers[c].pc \in {"idle", "back"}
CallersReturn == []<>(\A c \in Callers : Returned(c))
===============================================================================
