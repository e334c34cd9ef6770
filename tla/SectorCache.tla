----------------------------- MODULE SectorCache -----------------------------
(***************************************************************************)
(* How a poll of the scheduler turns the chain into a WindowPoSt decision: *)
(* the per-deadline sector cache, the look-ahead to the next deadline with *)
(* sectors, the policy and the completed-proof check (checkWindowPost,     *)
(* evaluateAndApply, deadlineHasNoSectors, refreshFullSectorCache,         *)
(* findNextSectorDeadline in scheduler.go).                                *)
(*                                                                         *)
(* The cache is touched by the poll goroutine alone, so a poll is one      *)
(* step; Scheduler.tla models how its writes interleave with wins.  Time   *)
(* is the chain epoch.  Any number of polls happen in an epoch, or none.   *)
(***************************************************************************)
EXTENDS YieldPolicy, FiniteSets, FiniteSetsExt

CONSTANTS
    WPoStPeriodDeadlines,       \* deadlines per proving period (48)
    WPoStChallengeWindow,       \* epochs per deadline (60)
    SectorCacheRefreshEpochs,
    FailSafeOnDisconnect,
    InitialSectors,             \* the sector layouts the chain may start from
    Sealing,                    \* the deadlines that may gain sectors later
    StartEpoch,                 \* the epoch at which the scheduler starts
    MaxEpoch,                   \* bound: the epoch at which the chain stops
    NONE                        \* a nil pointer, or no value yet

ASSUME ChainAssumption ==
    /\ WPoStPeriodDeadlines \in Nat \ {0}
    /\ WPoStChallengeWindow \in Nat \ {0}
    /\ SectorCacheRefreshEpochs \in Nat \ {0}
    /\ FailSafeOnDisconnect \in BOOLEAN
    /\ StartEpoch \in Nat
    /\ MaxEpoch \in Nat

Deadlines == 0 .. WPoStPeriodDeadlines - 1

ASSUME LayoutAssumption ==
    /\ InitialSectors \subseteq [Deadlines -> {0, 1}]
    /\ Sealing \subseteq Deadlines

ASSUME NoneAssumption == NONE \notin Int

WPoStProvingPeriod == WPoStPeriodDeadlines * WPoStChallengeWindow

VARIABLES
    epoch,              \* the chain's epoch
    sectors,            \* the chain's sectors per deadline (0, or 1 for some)
    sectorCache,        \* Scheduler.sectorCache: a function on the cached deadlines
    sectorCacheEpoch,
    gpu,                \* StateMachine.current
    latestDecision,     \* state and SecondsUntilNextChange
    monitor,            \* the deadline whose proof is awaited, or NONE
    completedProofs,    \* proofKey values
    evaluated,          \* the deadline the decision in force was made for, or NONE
    okAt,               \* history: epoch of the last poll, if no query of it failed
    fullAt,             \* history: when the cache was last completed or all queried
    provedOpens         \* history: opening epochs of the windows proved

vars == <<epoch, sectors, sectorCache, sectorCacheEpoch, gpu, latestDecision,
          monitor, completedProofs, evaluated, okAt, fullAt, provedOpens>>

ProofKey(info) == [period |-> info.periodStart, deadline |-> info.index]

DeadlineInfo(now, periodStart, index, open) ==
    [currentEpoch |-> now, periodStart |-> periodStart, index |-> index,
     open |-> open, close |-> open + WPoStChallengeWindow]

\* Lotus: the deadline of epoch now; its window is open.
ProvingDeadline(now) ==
    LET start == (now \div WPoStProvingPeriod) * WPoStProvingPeriod
        index == (now - start) \div WPoStChallengeWindow
    IN  DeadlineInfo(now, start, index, start + index * WPoStChallengeWindow)

Stale(now, cacheEpoch) == now - cacheEpoch > SectorCacheRefreshEpochs

\* cache with the deadlines ds queried from the chain.
Queried(cache, ds) ==
    [d \in DOMAIN cache \cup ds |-> IF d \in ds THEN sectors[d] ELSE cache[d]]

Init ==
    /\ epoch = StartEpoch
    /\ sectors \in InitialSectors
    /\ sectorCache = [d \in {} |-> 0]
    /\ sectorCacheEpoch = 0
    /\ gpu = "UNKNOWN"
    /\ latestDecision = NONE
    /\ monitor = NONE
    /\ completedProofs = {}
    /\ evaluated = NONE
    /\ okAt = NONE
    /\ fullAt = NONE
    /\ provedOpens = {}

-----------------------------------------------------------------------------
(* The cache and the look-ahead.                                           *)

\* deadlineHasNoSectors asks the chain when the current deadline is not cached
\* or the cache is stale.
NeedsRefresh(info) ==
    info.index \notin DOMAIN sectorCache \/ Stale(info.currentEpoch, sectorCacheEpoch)

CurrentQuery(info, failed) == IF NeedsRefresh(info) THEN {info.index} \ failed ELSE {}

\* A failed query counts as "has sectors", the safe default.
DeadlineHasNoSectors(info, failed) ==
    /\ NeedsRefresh(info) => info.index \notin failed
    /\ Queried(sectorCache, CurrentQuery(info, failed))[info.index] = 0

\* Mutant: an incomplete cache is not completed.
MissingEntriesNever(cache) == {}

\* A cache that does not cover every deadline is incomplete.
MissingEntries(cache) == Deadlines \ DOMAIN cache

\* refreshFullSectorCache, after deadlineHasNoSectors left cache and cacheEpoch:
\* everything when stale, the missing entries when incomplete.
FullQuery(now, cache, cacheEpoch) ==
    IF Stale(now, cacheEpoch) THEN Deadlines ELSE MissingEntries(cache)

\* Mutant: the search does not wrap around the end of the proving period.
SearchOrderNoWrap(index) == (index + 1) .. (WPoStPeriodDeadlines - 1)

\* The deadlines after index, as distances: the search wraps around.
SearchOrder(index) == (index + 1) .. (index + WPoStPeriodDeadlines - 1)

\* The cached deadlines with sectors, as positions of the search.
Candidates(info, cache) ==
    {n \in SearchOrder(info.index) :
        LET d == n % WPoStPeriodDeadlines IN d \in DOMAIN cache /\ cache[d] > 0}

\* Mutant: the index is not reduced modulo the number of deadlines.
FindNextUnreduced(info, cache) == Min(Candidates(info, cache))

FindNextSectorDeadline(info, cache) ==
    Min(Candidates(info, cache)) % WPoStPeriodDeadlines

\* The period of the target: it wraps into the next one.
TargetPeriodStart(info, target) ==
    IF target <= info.index THEN info.periodStart + WPoStProvingPeriod
                            ELSE info.periodStart

NextDeadlineOpenEpoch(info, target) ==
    (IF target > info.index THEN info.periodStart
                            ELSE info.periodStart + WPoStProvingPeriod)
      + target * WPoStChallengeWindow

\* The virtual DeadlineInfo of the look-ahead.
VirtualInfo(info, target) ==
    DeadlineInfo(info.currentEpoch, TargetPeriodStart(info, target), target,
                 NextDeadlineOpenEpoch(info, target))

-----------------------------------------------------------------------------
(* Applying a decision; without wins every transition is accepted.         *)

Resume == Decide("AVAILABLE", 0)

ApplyDecision(d) == gpu' = d.state /\ latestDecision' = d

\* evaluateAndApply, with the monitor launched on entering WINDOW_POST.
EvaluateAndApply(info) ==
    LET d == EvaluateWindowPost(info)
        done == d.state # "AVAILABLE" /\ ProofKey(info) \in completedProofs
    IN  /\ ApplyDecision(IF done THEN Resume ELSE d)
        /\ monitor' = IF ~done /\ d.state = "WINDOW_POST" /\ gpu # "WINDOW_POST"
                        THEN info ELSE monitor
        /\ evaluated' = info

\* History: a poll queried the deadlines in asked and left cache.
FillHistory(asked, cache) ==
    fullAt' = IF \/ asked = Deadlines
                 \/ DOMAIN cache = Deadlines /\ DOMAIN sectorCache # Deadlines
                THEN epoch ELSE fullAt

\* checkWindowPost with Lotus answering, except for the deadlines in failed.
Poll(failed) ==
    LET info == ProvingDeadline(epoch)
        current == CurrentQuery(info, failed)
        cache1 == Queried(sectorCache, current)
        epoch1 == IF current # {} THEN epoch ELSE sectorCacheEpoch
        full == FullQuery(epoch, cache1, epoch1)
        cache2 == Queried(cache1, full \ failed)
    IN  /\ monitor = NONE
        /\ IF ~DeadlineHasNoSectors(info, failed)
             THEN /\ sectorCache' = cache1
                  /\ sectorCacheEpoch' = epoch1
                  /\ FillHistory(current, cache1)
                  /\ EvaluateAndApply(info)
             ELSE /\ sectorCache' = cache2
                  /\ sectorCacheEpoch' = IF full # {} THEN epoch ELSE epoch1
                  /\ FillHistory(current \cup (full \ failed), cache2)
                  /\ IF Candidates(info, cache2) = {}
                       THEN /\ ApplyDecision(Resume)
                            /\ evaluated' = NONE
                            /\ UNCHANGED monitor
                       ELSE EvaluateAndApply(
                              VirtualInfo(info, FindNextSectorDeadline(info, cache2)))
        /\ okAt' = IF failed = {} THEN epoch ELSE NONE
        /\ UNCHANGED <<epoch, sectors, completedProofs, provedOpens>>

\* GetProvingDeadline fails.
PollDisconnected ==
    /\ monitor = NONE
    /\ FailSafeOnDisconnect
    /\ ApplyDecision(Decide("WINDOW_POST", 0))
    /\ evaluated' = NONE
    /\ UNCHANGED <<epoch, sectors, sectorCache, sectorCacheEpoch, monitor,
                   completedProofs, okAt, fullAt, provedOpens>>

\* Mutant: the key has the period in which the wait began.
MarkedKeyOldPeriod(info) ==
    [ProofKey(info) EXCEPT !.period = ProvingDeadline(info.currentEpoch).periodStart]

\* markProofCompleted(info.PeriodStart, info.Index)
MarkedKey(info) == ProofKey(info)

\* waitForProofAndResume: the proof is detected, or the wait times out.
ProofDone ==
    /\ monitor # NONE
    /\ completedProofs' = completedProofs \cup {MarkedKey(monitor)}
    /\ provedOpens' = provedOpens \cup {monitor.open}
    /\ ApplyDecision(Resume)
    /\ monitor' = NONE
    /\ evaluated' = NONE
    /\ UNCHANGED <<epoch, sectors, sectorCache, sectorCacheEpoch, okAt, fullAt>>

-----------------------------------------------------------------------------
(* The chain.                                                              *)

NextEpoch ==
    /\ epoch < MaxEpoch
    /\ epoch' = epoch + 1
    /\ UNCHANGED <<sectors, sectorCache, sectorCacheEpoch, gpu, latestDecision,
                   monitor, completedProofs, evaluated, okAt, fullAt, provedOpens>>

\* A sector is sealed into deadline d.
Seal(d) ==
    /\ sectors[d] = 0
    /\ sectors' = [sectors EXCEPT ![d] = 1]
    /\ UNCHANGED <<epoch, sectorCache, sectorCacheEpoch, gpu, latestDecision,
                   monitor, completedProofs, evaluated, okAt, fullAt, provedOpens>>

Next ==
    \/ \E failed \in SUBSET Deadlines : Poll(failed)
    \/ PollDisconnected
    \/ ProofDone
    \/ NextEpoch
    \/ \E d \in Sealing : Seal(d)

Spec == Init /\ [][Next]_vars
-----------------------------------------------------------------------------
(* Properties.                                                             *)

Info == [currentEpoch : Nat, periodStart : Nat, index : Deadlines,
         open : Nat, close : Nat]

\* Every variable keeps its type, and latestDecision follows the state machine.
TypeOK ==
    /\ epoch \in Nat
    /\ sectors \in [Deadlines -> {0, 1}]
    /\ DOMAIN sectorCache \subseteq Deadlines
    /\ \A d \in DOMAIN sectorCache : sectorCache[d] \in {0, 1}
    /\ sectorCacheEpoch \in 0 .. epoch
    /\ gpu \in {"UNKNOWN", "AVAILABLE", "YIELDING", "WINDOW_POST"}
    /\ latestDecision = NONE \/ latestDecision.state = gpu
    /\ monitor \in Info \cup {NONE}
    /\ completedProofs \subseteq [period : Nat, deadline : Deadlines]
    /\ evaluated \in Info \cup {NONE}
    /\ fullAt = NONE <=> DOMAIN sectorCache # Deadlines

\* The decision in force was made by looking ahead of the current deadline.
LookedAhead == evaluated # NONE /\ evaluated.open > evaluated.currentEpoch

\* The look-ahead evaluates the very deadline Lotus will report when its window
\* opens (same period start, index and window), across the end of a proving
\* period too; and when all queries were answered, every window that opens
\* earlier is known to have no sectors (findNextSectorDeadline,
\* nextDeadlineOpenEpoch, refreshFullSectorCache).
LookAheadMatchesChain ==
    LookedAhead =>
        /\ [evaluated EXCEPT !.currentEpoch = evaluated.open]
             = ProvingDeadline(evaluated.open)
        /\ okAt = evaluated.currentEpoch =>
             \A e \in evaluated.currentEpoch .. evaluated.open - 1 :
                 LET d == ProvingDeadline(e).index
                 IN  d \in DOMAIN sectorCache /\ sectorCache[d] = 0

\* A window that was proved is not yielded for again, whether the proof came
\* during the look-ahead or while the window was open: the key the monitor
\* marks is the key the later polls look up.
ProvedWindowNotYielded ==
    evaluated # NONE /\ evaluated.open \in provedOpens => gpu = "AVAILABLE"

\* A window with sectors that follows a deadline without sectors finds the GPU
\* already yielded when it opens, if the polls of the epoch before got their
\* answers (hard stop of at least one epoch), or its proof is already done.
YieldedBeforeOpen ==
    LET info == ProvingDeadline(epoch)
        before == ProvingDeadline(epoch - 1)
    IN  /\ epoch = info.open
        /\ okAt = epoch - 1
        /\ sectorCache[before.index] = 0
        /\ info.index \in DOMAIN sectorCache
        /\ sectorCache[info.index] > 0
        => gpu = "WINDOW_POST" \/ info.open \in provedOpens

\* "graceful yield starts 5 minutes before the proving window, hard stop at 2
\* minutes": a window with sectors that follows another one with sectors also
\* finds the GPU yielded.
YieldedBeforeBackToBack ==
    LET info == ProvingDeadline(epoch)
    IN  /\ epoch = info.open
        /\ okAt = epoch - 1
        /\ evaluated # NONE
        /\ info.index \in DOMAIN sectorCache
        /\ sectorCache[info.index] > 0
        => gpu = "WINDOW_POST" \/ info.open \in provedOpens

\* The countdown of a decision is exact: evaluated n epochs later, the policy
\* decides the same state as long as n epochs are less than the countdown, and
\* another one from then on (SecondsUntilNextChange of EvaluateWindowPost).
CountdownExact ==
    evaluated # NONE =>
        LET d == EvaluateWindowPost(evaluated)
            later(n) == EvaluateWindowPost(
                          [evaluated EXCEPT !.currentEpoch = @ + n]).state
        IN  d.state # "WINDOW_POST" =>
              \A n \in 0 .. WPoStProvingPeriod :
                  later(n) = d.state <=> n * EpochDuration < d.until

\* "while AVAILABLE this is seconds until the graceful yield begins"
\* (handleReady): a poll that leaves the GPU available with a deadline to
\* watch leaves a countdown.
AvailableHasCountdown ==
    evaluated # NONE /\ gpu = "AVAILABLE" => latestDecision.until > 0

\* "How often (in chain epochs) to refresh the full per-deadline sector cache":
\* a look-ahead whose queries were answered relies on a cache filled or fully
\* queried within the refresh interval.
CacheAgeBounded ==
    LookedAhead /\ okAt = evaluated.currentEpoch =>
        evaluated.currentEpoch - fullAt <= SectorCacheRefreshEpochs
=============================================================================
