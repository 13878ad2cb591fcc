---------------------------- MODULE MCSmallParts ----------------------------
(***************************************************************************)
(* Small components for TLC: CacheGate, WalletOperation, TaskSchedule,     *)
(* CacheContent under the lru policy, Observations and SpeedTests.  They   *)
(* share no state, so that a behaviour of all is one of each: part says    *)
(* which of them moves, and the others are at rest.                        *)
(***************************************************************************)
EXTENDS CacheGate, WalletOperation, TaskSchedule

CONSTANTS
    u1, u2, u3, k1, k2, e1, e2, c1, r1,
    op1, op2,
    Clients, Runners, MaxContents, MaxVersions,        \* of CacheContent
    MaxEvictions, MaxPresence, CacheFaults, CacheCrashes, LRU,
    Callers, Singles, Providers, Bound, Skew,          \* of Observations
    MaxClock, ObsBounds,
    Addresses, Starters, MaxTests, SpeedBounds         \* of SpeedTests

ASSUME SizesAssumption ==
    /\ {WalletAttempts, MaxTxs, MaxTasks} \subseteq Nat \ {0}
    /\ {MaxFaults, MaxCrashes} \subseteq Nat

VARIABLES content, disk, entry, remote, evict, owed, scanned, job, access,  \* of CacheContent
          faults, crashes,
          clock, truth, lastTrue, obs, coll, group, ended, callers,         \* of Observations
          singles, best, behind, oleft,
          url, speed, tests, asks, sleft,                                   \* of SpeedTests
          part

Content == INSTANCE CacheContent WITH MaxFaults <- CacheFaults, MaxCrashes <- CacheCrashes
Overview == INSTANCE Observations WITH rows <- obs, left <- oleft
Speed == INSTANCE SpeedTests WITH row <- speed, left <- sleft

contentVars == <<content, disk, entry, remote, evict, owed, scanned, job, access, faults, crashes>>
overviewVars == <<clock, truth, lastTrue, obs, coll, group, ended, callers, singles, best, behind,
                  oleft>>
speedVars == <<url, speed, tests, asks, sleft>>

all == <<vars, walletVars, scheduleVars, contentVars, overviewVars, speedVars, part>>

OfGate(A) ==
    /\ part = "gate" /\ A
    /\ UNCHANGED <<walletVars, scheduleVars, contentVars, overviewVars, speedVars, part>>
OfWallet(A) ==
    /\ part = "wallet" /\ A
    /\ UNCHANGED <<vars, scheduleVars, contentVars, overviewVars, speedVars, part>>
OfSchedule(A) ==
    /\ part = "schedule" /\ A
    /\ UNCHANGED <<vars, walletVars, contentVars, overviewVars, speedVars, part>>
OfContent(A) ==
    /\ part = "content" /\ A
    /\ UNCHANGED <<vars, walletVars, scheduleVars, overviewVars, speedVars, part>>
OfOverview(A) ==
    /\ part = "overview" /\ A
    /\ UNCHANGED <<vars, walletVars, scheduleVars, contentVars, speedVars, part>>
OfSpeed(A) ==
    /\ part = "speed" /\ A
    /\ UNCHANGED <<vars, walletVars, scheduleVars, contentVars, overviewVars, part>>

\* Refreshes that overlap, that fail or meet changes, that are left by their
\* callers, and a clock that is set back.
ObsBound(n, s, t, c, b, f, g, d) ==
    [calls |-> n, singles |-> s, ticks |-> t, changes |-> c, back |-> b, failures |-> f,
     gone |-> g, detached |-> d]
MCObsBounds ==
    {ObsBound(1, 1, 1, 1, 0, 1, 0, {}), ObsBound(2, 1, 1, 1, 0, 0, 0, {}),
     ObsBound(3, 0, 0, 0, 0, 0, 2, {}), ObsBound(3, 0, 0, 0, 0, 0, 2, {2}),
     ObsBound(2, 0, 3, 0, 1, 0, 0, {}), ObsBound(0, 2, 1, 0, 0, 0, 0, {})}

SpeedBound(m, a, f) == [moves |-> m, ages |-> a, faults |-> f]
MCSpeedBounds == {SpeedBound(1, 1, 1)}

\* The variables of a part at rest.  CacheGate, WalletOperation and TaskSchedule are
\* extended: at rest they stay in an initial state.
Off == 0
ContentOff ==
    /\ content = Off /\ disk = Off /\ entry = Off /\ remote = Off /\ evict = Off /\ owed = Off
    /\ scanned = Off /\ job = Off /\ access = Off /\ faults = Off /\ crashes = Off
OverviewOff ==
    /\ clock = Off /\ truth = Off /\ lastTrue = Off /\ obs = Off /\ coll = Off /\ group = Off
    /\ ended = Off /\ callers = Off /\ singles = Off /\ best = Off /\ behind = Off
    /\ oleft = Off
SpeedOff ==
    /\ url = Off /\ speed = Off /\ tests = Off /\ asks = Off /\ sleft = Off

MCInit ==
    /\ part \in {"gate", "wallet", "schedule", "content", "overview", "speed"}
    /\ Init /\ ScheduleInit
    /\ WalletInit /\ (part # "wallet" => kind = "fund")
    /\ IF part = "content" THEN Content!Init ELSE ContentOff
    /\ IF part = "overview" THEN Overview!Init ELSE OverviewOff
    /\ IF part = "speed" THEN Speed!Init ELSE SpeedOff

MCNext ==
    \/ OfGate(Next) \/ OfWallet(WalletNext) \/ OfSchedule(ScheduleNext)
    \/ OfContent(Content!Next) \/ OfOverview(Overview!Next)
    \/ OfSpeed(Speed!Next)

Acts(u) == TryHold(u) \/ Hold(u) \/ Wake(u) \/ ReleasePermit(u) \/ Release(u)
RetryProceeds(o) == RetryEnds(o) \/ RetryCommits(o)

\* The fairness of the specifications.  No step of one part is enabled in a
\* behaviour of another, so that a disjunction is fair when its disjuncts are.
MCFairness ==
    /\ WF_all(\/ OfGate(Acts(u1)) \/ OfWallet(ClaimOperation) \/ OfSchedule(BecomesDue)
              \/ OfContent(Content!Continues(c1)) \/ OfOverview(Overview!RefreshSteps)
              \/ OfSpeed(\E t \in Speed!Tests : Speed!TestSteps(t)))
    /\ WF_all(\/ OfGate(Acts(u2)) \/ OfWallet(Handler) \/ OfSchedule(Dispatch)
              \/ OfContent(Content!Continues(r1)) \/ OfOverview(Overview!CallerSteps(1)))
    /\ WF_all(\/ OfGate(Acts(u3)) \/ OfWallet(Retry)
              \/ OfSchedule(\E t \in Ids : Claim(t))
              \/ OfOverview(Overview!CallerSteps(2)))
    /\ WF_all(OfSchedule(RetryProceeds(op1)) \/ OfOverview(Overview!CallerSteps(3)))
    /\ WF_all(OfSchedule(RetryProceeds(op2)))
    /\ SF_all(OfSchedule(Settles) \/ OfContent(Content!DropFile(r1)))
    /\ SF_all(OfContent(Content!RunEviction(r1)))
    /\ SF_all(OfContent(Content!ClaimCleanup(r1, 1)))
    /\ SF_all(OfContent(Content!ListFile(r1, 1)))
    /\ \A g \in Content!Gens : SF_all(OfContent(Content!ClaimEviction(r1, 1, g)))

MCSpec == MCInit /\ [][MCNext]_all /\ MCFairness

\* What is recorded of a provider is true.  Overlapping refreshes leave its newest
\* observation, and no caller sees the cancellation of another.  The row of its
\* speed test is testing exactly while the task it names is alive, and shows a
\* speed only for the address it was measured at.
ProviderInv ==
    /\ part = "overview" => Overview!ObservationsInv
    /\ part = "speed" => Speed!SpeedInv

\* Whoever queues at the gate is served: the users are interchangeable, and one of
\* them is watched.  A payment that landed is recorded (wallet/handler.go): the
\* operation ends confirmed, or unknown where its hash was never learnt.  The
\* recurring work does not stop: cycle follows cycle up to the bound.  Content
\* without a version loses its rows and its file.  Every caller of a refresh
\* returns, and a speed test that was begun is settled.
WorkProceeds ==
    []<>(CASE part = "gate" -> Served(u1)
           [] part = "wallet" -> LandedAndRecorded
           [] part = "schedule" -> LastInserted
           [] part = "content" -> Content!NoGarbage
           [] part = "overview" -> \A c \in Callers : Overview!Returned(c)
           [] part = "speed" -> Speed!Idle)
=============================================================================
