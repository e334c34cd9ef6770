------------------------------ MODULE Scheduler ------------------------------
(***************************************************************************)
(* The Go scheduler's goroutines and the state they share                  *)
(* (src/go-scheduler/internal/scheduler).  Four kinds of process run:      *)
(*                                                                         *)
(*   Poll          the poll loop: checkWindowPost every poll interval      *)
(*   k \in ProofKeys   the proof monitor waitForProofAndResume spawned for *)
(*                 the deadline k (a pair periodStart, index)              *)
(*   w \in Wins    one call of triggerWinningYield and the resume timer    *)
(*                 goroutine it starts                                     *)
(*                                                                         *)
(* Every access to the state machine, to latestDecision, to an atomic or   *)
(* to the subscriber list is a step of its own, because another goroutine  *)
(* can run between any two of them.  The chain is abstracted to what a     *)
(* Lotus answer makes the policy decide; SectorCache.tla models how the    *)
(* answer becomes that decision.                                           *)
(***************************************************************************)
EXTENDS Naturals, FiniteSets

CONSTANTS
    Poll,                   \* the poll goroutine
    MonitorWins,            \* wins that monitorWinningPost detects
    DebugWins,              \* wins triggered through the debug endpoint
    ProofKeys,              \* proofKey values; also the proof monitor run for each
    FailSafeOnDisconnect,   \* policy.FailSafeOnDisconnect
    ProofDetectionEnabled,  \* proofMonitor # nil and proof detection enabled
    MaxCompletedProofs      \* size at which completedProofs is reset (128)

Wins == MonitorWins \cup DebugWins

Proc == {Poll} \cup ProofKeys \cup Wins

ASSUME ProcessesAreDistinct ==
    /\ Poll \notin ProofKeys
    /\ Poll \notin Wins
    /\ ProofKeys \cap Wins = {}
    /\ MonitorWins \cap DebugWins = {}

ASSUME ConfigAssumption ==
    /\ FailSafeOnDisconnect \in BOOLEAN
    /\ ProofDetectionEnabled \in BOOLEAN
    /\ MaxCompletedProofs \in Nat

GpuState == {"UNKNOWN", "AVAILABLE", "YIELDING", "WINDOW_POST", "WINNING_POST"}

NONE == "NONE"      \* a nil decision, or a field that is not set yet

\* Where a process stands in applyDecision or applyDecisionUnlessWinning.
ApplyLabel ==
    {"transition", "transitionUnless", "recheck", "refresh", "record", "broadcast"}

Label == ApplyLabel \cup
    {"idle", "checkState", "lotus", "evaluate", "sample", "launch",   \* Poll
     "waitProof", "markProof", "release",                             \* ProofKeys
     "claim", "armed", "checkProof", "done"}                          \* Wins

VARIABLES
    sm,                  \* StateMachine.current
    latestDecision,      \* the State of Scheduler.latestDecision
    lastEvent,           \* the newest event queued for the subscribers
    proofMonitorActive,
    winningGen,
    completedProofs,     \* the keys of the map completedProofs
    pc,                  \* where each process stands
    decision,            \* the State of the decision each process applies
    ret,                 \* where a process goes on when the apply returns
    target,              \* Poll: the (virtual) deadline under evaluation
    prevState,           \* Poll: evaluateAndApply's prevState
    gen                  \* Wins: the generation each resume timer claimed

vars == <<sm, latestDecision, lastEvent, proofMonitorActive, winningGen,
          completedProofs, pc, decision, ret, target, prevState, gen>>

Goto(p, label) == pc' = [pc EXCEPT ![p] = label]

\* Process p applies a decision for state s, entering at label, and goes on at
\* label back when that returns.
Call(p, label, s, back) ==
    /\ Goto(p, label)
    /\ decision' = [decision EXCEPT ![p] = s]
    /\ ret' = [ret EXCEPT ![p] = back]

Init ==
    /\ sm = "UNKNOWN"
    /\ latestDecision = NONE
    /\ lastEvent = NONE
    /\ proofMonitorActive = FALSE
    /\ winningGen = 0
    /\ completedProofs = {}
    /\ pc = [p \in Proc |-> "idle"]
    /\ decision = [p \in Proc |-> NONE]
    /\ ret = [p \in Proc |-> "idle"]
    /\ target = NONE
    /\ prevState = NONE
    /\ gen = [w \in Wins |-> 0]

-----------------------------------------------------------------------------
(* applyDecision and applyDecisionUnlessWinning, run by any process.       *)

\* sm.Transition: permissive; a change is recorded and then broadcast.
Transition(p) ==
    /\ pc[p] = "transition"
    /\ sm' = decision[p]
    /\ Goto(p, IF sm = decision[p] THEN "refresh" ELSE "record")
    /\ UNCHANGED <<latestDecision, lastEvent, proofMonitorActive, winningGen,
                   completedProofs, decision, ret, target, prevState, gen>>

\* Mutant: the state machine blocks nothing.
RefusedUnblocked(p) == sm = decision[p]

\* sm.TransitionUnless(state, WINNING_POST) changes nothing.
Refused(p) == sm \in {"WINNING_POST", decision[p]}

\* Check and set under one lock.
TransitionUnless(p) ==
    /\ pc[p] = "transitionUnless"
    /\ IF Refused(p)
         THEN sm' = sm /\ Goto(p, "recheck")
         ELSE sm' = decision[p] /\ Goto(p, "record")
    /\ UNCHANGED <<latestDecision, lastEvent, proofMonitorActive, winningGen,
                   completedProofs, decision, ret, target, prevState, gen>>

\* Mutant: a same-state no-op leaves latestDecision alone.
AfterRefusalNoRefresh(p) == ret[p]

\* A refused transition reads the state again: blocked by a win, or a
\* same-state no-op that still refreshes latestDecision.
AfterRefusal(p) == IF sm = "WINNING_POST" THEN ret[p] ELSE "refresh"

Recheck(p) ==
    /\ pc[p] = "recheck"
    /\ Goto(p, AfterRefusal(p))
    /\ UNCHANGED <<sm, latestDecision, lastEvent, proofMonitorActive, winningGen,
                   completedProofs, decision, ret, target, prevState, gen>>

\* latestDecision = decision, without a broadcast (nothing changed) ...
Refresh(p) ==
    /\ pc[p] = "refresh"
    /\ latestDecision' = decision[p]
    /\ Goto(p, ret[p])
    /\ UNCHANGED <<sm, lastEvent, proofMonitorActive, winningGen, completedProofs,
                   decision, ret, target, prevState, gen>>

\* ... or with one.
Record(p) ==
    /\ pc[p] = "record"
    /\ latestDecision' = decision[p]
    /\ Goto(p, "broadcast")
    /\ UNCHANGED <<sm, lastEvent, proofMonitorActive, winningGen, completedProofs,
                   decision, ret, target, prevState, gen>>

\* broadcastEvent and onStateChange.
Broadcast(p) ==
    /\ pc[p] = "broadcast"
    /\ lastEvent' = decision[p]
    /\ Goto(p, ret[p])
    /\ UNCHANGED <<sm, latestDecision, proofMonitorActive, winningGen,
                   completedProofs, decision, ret, target, prevState, gen>>

Apply(p) ==
    \/ Transition(p)
    \/ TransitionUnless(p)
    \/ Recheck(p)
    \/ Refresh(p)
    \/ Record(p)
    \/ Broadcast(p)

-----------------------------------------------------------------------------
(* The poll goroutine.                                                     *)

\* Mutant: the poll does not look at the proof monitor.
TickNeverSkipped == FALSE

\* A tick is skipped while a proof monitor waits.
TickSkipped == proofMonitorActive

PollTick ==
    /\ pc[Poll] = "idle"
    /\ Goto(Poll, IF TickSkipped THEN "idle" ELSE "checkState")
    /\ UNCHANGED <<sm, latestDecision, lastEvent, proofMonitorActive, winningGen,
                   completedProofs, decision, ret, target, prevState, gen>>

\* Nor is an active WINNING_POST evaluated.
PollCheckState ==
    /\ pc[Poll] = "checkState"
    /\ Goto(Poll, IF sm = "WINNING_POST" THEN "idle" ELSE "lotus")
    /\ UNCHANGED <<sm, latestDecision, lastEvent, proofMonitorActive, winningGen,
                   completedProofs, decision, ret, target, prevState, gen>>

\* GetProvingDeadline failed: the fail-safe applies unconditionally.
LotusError ==
    /\ pc[Poll] = "lotus"
    /\ IF FailSafeOnDisconnect
         THEN Call(Poll, "transition", "WINDOW_POST", "idle")
         ELSE Goto(Poll, "idle") /\ UNCHANGED <<decision, ret>>
    /\ UNCHANGED <<sm, latestDecision, lastEvent, proofMonitorActive, winningGen,
                   completedProofs, target, prevState, gen>>

\* No deadline of the miner has sectors.
LotusNoSectors ==
    /\ pc[Poll] = "lotus"
    /\ Call(Poll, "transitionUnless", "AVAILABLE", "idle")
    /\ UNCHANGED <<sm, latestDecision, lastEvent, proofMonitorActive, winningGen,
                   completedProofs, target, prevState, gen>>

\* Deadline k is the current or the next one with sectors, and the policy
\* decides s for it (EvaluateWindowPost).
LotusDeadline(k, s) ==
    /\ pc[Poll] = "lotus"
    /\ target' = k
    /\ decision' = [decision EXCEPT ![Poll] = s]
    /\ Goto(Poll, "evaluate")
    /\ UNCHANGED <<sm, latestDecision, lastEvent, proofMonitorActive, winningGen,
                   completedProofs, ret, prevState, gen>>

\* Mutant: a graceful yield does not consult the completed proofs.
NoYieldDueHardStopOnly ==
    decision[Poll] = "WINDOW_POST" /\ target \in completedProofs

\* The policy yields for a deadline whose proof is already complete.
NoYieldDue ==
    decision[Poll] \in {"YIELDING", "WINDOW_POST"} /\ target \in completedProofs

\* evaluateAndApply: such a yield becomes AVAILABLE, and nothing is launched.
PollEvaluate ==
    /\ pc[Poll] = "evaluate"
    /\ IF NoYieldDue
         THEN Call(Poll, "transitionUnless", "AVAILABLE", "idle")
         ELSE Goto(Poll, "sample") /\ UNCHANGED <<decision, ret>>
    /\ UNCHANGED <<sm, latestDecision, lastEvent, proofMonitorActive, winningGen,
                   completedProofs, target, prevState, gen>>

PollSample ==
    /\ pc[Poll] = "sample"
    /\ prevState' = sm
    /\ Call(Poll, "transitionUnless", decision[Poll], "launch")
    /\ UNCHANGED <<sm, latestDecision, lastEvent, proofMonitorActive, winningGen,
                   completedProofs, target, gen>>

\* Entering WINDOW_POST starts the proof monitor of the target deadline.
PollLaunch ==
    /\ pc[Poll] = "launch"
    /\ IF /\ decision[Poll] = "WINDOW_POST"
          /\ prevState # "WINDOW_POST"
          /\ ProofDetectionEnabled
         THEN /\ proofMonitorActive' = TRUE
              /\ pc' = [pc EXCEPT ![Poll] = "idle", ![target] = "waitProof"]
         ELSE Goto(Poll, "idle") /\ UNCHANGED proofMonitorActive
    /\ UNCHANGED <<sm, latestDecision, lastEvent, winningGen, completedProofs,
                   decision, ret, target, prevState, gen>>

-----------------------------------------------------------------------------
(* The proof monitor of deadline k: waitForProofAndResume.                 *)

\* WaitForProofComplete returns: detected, timed out or cancelled, all alike.
ProofWaitEnds(k) ==
    /\ pc[k] = "waitProof"
    /\ Goto(k, "markProof")
    /\ UNCHANGED <<sm, latestDecision, lastEvent, proofMonitorActive, winningGen,
                   completedProofs, decision, ret, target, prevState, gen>>

\* Mutant: the set is never reset.
ProofsWithUnbounded(k) == completedProofs \cup {k}

\* completedProofs with k marked; a set that has grown too large is reset first.
ProofsWith(k) ==
    IF Cardinality(completedProofs) > MaxCompletedProofs
      THEN {k}
      ELSE completedProofs \cup {k}

\* markProofCompleted, then the resume unless a win is active.
MarkProofCompleted(k) ==
    /\ pc[k] = "markProof"
    /\ completedProofs' = ProofsWith(k)
    /\ Call(k, "transitionUnless", "AVAILABLE", "release")
    /\ UNCHANGED <<sm, latestDecision, lastEvent, proofMonitorActive, winningGen,
                   target, prevState, gen>>

\* Mutant: the flag is cleared only when the resume was not blocked by a win.
FlagAfterMonitorIfResumed == sm = "WINNING_POST"

FlagAfterMonitor == FALSE

\* The deferred proofMonitorActive.Store(false).
ReleaseMonitor(k) ==
    /\ pc[k] = "release"
    /\ proofMonitorActive' = FlagAfterMonitor
    /\ Goto(k, "idle")
    /\ UNCHANGED <<sm, latestDecision, lastEvent, winningGen, completedProofs,
                   decision, ret, target, prevState, gen>>

-----------------------------------------------------------------------------
(* Wins: triggerWinningYield and its resume timer.                         *)

\* w's triggerWinningYield has begun and has not started the timer yet.
Triggering(w) ==
    \/ pc[w] = "claim"
    \/ pc[w] \in ApplyLabel /\ ret[w] = "claim"

\* monitorWinningPost is one goroutine: it triggers one win at a time.
WinMonitorFree == \A w \in MonitorWins : ~Triggering(w)

TriggerWinningYield(w) == Call(w, "transition", "WINNING_POST", "claim")

\* A line of the Curio log, or a call of the debug endpoint.
WinDetected(w) ==
    /\ pc[w] = "idle"
    /\ w \in MonitorWins => WinMonitorFree
    /\ TriggerWinningYield(w)
    /\ UNCHANGED <<sm, latestDecision, lastEvent, proofMonitorActive, winningGen,
                   completedProofs, target, prevState, gen>>

\* A row of the Curio database: skipped while already yielding.
WinInDatabase(w) ==
    /\ pc[w] = "idle"
    /\ WinMonitorFree
    /\ IF sm = "WINNING_POST"
         THEN Goto(w, "done") /\ UNCHANGED <<decision, ret>>
         ELSE TriggerWinningYield(w)
    /\ UNCHANGED <<sm, latestDecision, lastEvent, proofMonitorActive, winningGen,
                   completedProofs, target, prevState, gen>>

\* gen := winningGen.Add(1), and the timer starts.
ClaimGeneration(w) ==
    /\ pc[w] = "claim"
    /\ winningGen' = winningGen + 1
    /\ gen' = [gen EXCEPT ![w] = winningGen + 1]
    /\ Goto(w, "armed")
    /\ UNCHANGED <<sm, latestDecision, lastEvent, proofMonitorActive,
                   completedProofs, decision, ret, target, prevState>>

\* The timer fires; a superseded one gives up.
TimerFires(w) ==
    /\ pc[w] = "armed"
    /\ Goto(w, IF winningGen # gen[w] THEN "done" ELSE "checkProof")
    /\ UNCHANGED <<sm, latestDecision, lastEvent, proofMonitorActive, winningGen,
                   completedProofs, decision, ret, target, prevState, gen>>

\* Mutant: the timer gives up while a proof is active.
WhileProofActiveGiveUp == "done"

\* timer.Reset: the timer is armed again while a proof is active.
WhileProofActive == "armed"

\* It is re-armed while a WindowPoSt proof is being computed, else it resumes.
TimerResumes(w) ==
    /\ pc[w] = "checkProof"
    /\ IF proofMonitorActive
         THEN Goto(w, WhileProofActive) /\ UNCHANGED <<decision, ret>>
         ELSE Call(w, "transition", "AVAILABLE", "done")
    /\ UNCHANGED <<sm, latestDecision, lastEvent, proofMonitorActive, winningGen,
                   completedProofs, target, prevState, gen>>

-----------------------------------------------------------------------------
LotusAnswers ==
    \/ LotusNoSectors
    \/ \E k \in ProofKeys, s \in {"AVAILABLE", "YIELDING", "WINDOW_POST"} :
         LotusDeadline(k, s)

PollStep ==
    \/ PollTick
    \/ PollCheckState
    \/ LotusError
    \/ LotusAnswers
    \/ PollEvaluate
    \/ PollSample
    \/ PollLaunch
    \/ Apply(Poll)

MonitorStep(k) ==
    \/ ProofWaitEnds(k)
    \/ MarkProofCompleted(k)
    \/ ReleaseMonitor(k)
    \/ Apply(k)

\* Every step of a win but its arrival.
WinStep(w) ==
    \/ ClaimGeneration(w)
    \/ TimerFires(w)
    \/ TimerResumes(w)
    \/ Apply(w)

Next ==
    \/ PollStep
    \/ \E k \in ProofKeys : MonitorStep(k)
    \/ \E w \in Wins : WinDetected(w) \/ WinStep(w)
    \/ \E w \in MonitorWins : WinInDatabase(w)

Spec == Init /\ [][Next]_vars

\* Goroutines run, timers fire, WaitForProofComplete is bounded by MaxWait, the
\* Lotus call by its timeout; Lotus does not fail for ever.  No fairness on the
\* arrival of wins.
Fairness ==
    /\ WF_vars(PollStep)
    /\ SF_vars(LotusAnswers)
    /\ \A k \in ProofKeys : WF_vars(MonitorStep(k))
    /\ \A w \in Wins : WF_vars(WinStep(w))

FairSpec == Spec /\ Fairness
-----------------------------------------------------------------------------
(* Properties.                                                             *)

MonitorLive(k) == pc[k] # "idle"

\* w's resume timer runs and has not applied its resume yet.
TimerPending(w) ==
    \/ pc[w] \in {"armed", "checkProof"}
    \/ pc[w] = "transition" /\ ret[w] = "done"

\* w has set WINNING_POST and its timer is not running yet.
TimerToCome(w) ==
    \/ pc[w] = "claim"
    \/ pc[w] \in {"refresh", "record", "broadcast"} /\ ret[w] = "claim"

\* Every variable keeps its type, and completedProofs stays within its bound
\* (markProofCompleted resets the set once it holds more than 128 keys).
TypeOK ==
    /\ sm \in GpuState
    /\ latestDecision \in GpuState \cup {NONE}
    /\ lastEvent \in GpuState \cup {NONE}
    /\ proofMonitorActive \in BOOLEAN
    /\ winningGen \in Nat
    /\ completedProofs \subseteq ProofKeys
    /\ IsFiniteSet(completedProofs)
    /\ Cardinality(completedProofs) <= MaxCompletedProofs + 1
    /\ pc \in [Proc -> Label]
    /\ decision \in [Proc -> GpuState \cup {NONE}]
    /\ ret \in [Proc -> Label]
    /\ target \in ProofKeys \cup {NONE}
    /\ prevState \in GpuState \cup {NONE}
    /\ gen \in [Wins -> Nat]

\* The poll evaluation and the proof monitor exclude each other: the flag
\* proofMonitorActive is up exactly while a monitor runs, at most one runs, and
\* the poll loop is between two ticks meanwhile.  checkWindowPost's first test
\* is all that keeps a second monitor from being started.
MonitorExclusion ==
    /\ proofMonitorActive <=> \E k \in ProofKeys : MonitorLive(k)
    /\ \A j, k \in ProofKeys : MonitorLive(j) /\ MonitorLive(k) => j = k
    /\ proofMonitorActive => pc[Poll] = "idle"

\* WINNING_POST always has an owner that will end it: a trigger that has still
\* to start its timer, or a running timer of the current generation.  A timer
\* that gave up (superseded, or because a proof was active) without another
\* one taking over would leave the GPU yielded for ever.
WinningHasOwner ==
    sm = "WINNING_POST" =>
        \E w \in Wins : \/ TimerToCome(w)
                        \/ TimerPending(w) /\ gen[w] = winningGen

\* evaluateAndApply tests isProofAlreadyCompleted before it yields; the answer
\* still holds when the yield is applied and when the monitor is launched, so
\* the GPU is never yielded again for a proof that is already complete.
YieldIsStillDue ==
    /\ \/ pc[Poll] = "sample"
       \/ ret[Poll] = "launch" /\ pc[Poll] \in ApplyLabel \cup {"launch"}
    /\ decision[Poll] # "AVAILABLE"
    => target \notin completedProofs

\* The poll applies its Lotus fail-safe, the one decision it applies without
\* looking at the state again.
FailSafeApplies == FailSafeOnDisconnect /\ pc[Poll] = "transition"

\* But for the fail-safe, only a step of a resume timer that is still pending
\* ends WINNING_POST: no evaluated decision and no finished proof "can ever
\* clobber an in-progress block-production yield" (applyDecisionUnlessWinning).
OnlyTimersEndWinning ==
    [][sm = "WINNING_POST" /\ sm' # "WINNING_POST"
         => \/ FailSafeApplies /\ pc'[Poll] # pc[Poll]
            \/ \E w \in Wins : TimerPending(w) /\ pc'[w] # pc[w]]_vars

\* The poll never ends WINNING_POST: "checkWindowPost refuses to override an
\* active WINNING_POST" (state.go).  The fail-safe path does override it.
PollRespectsWinning ==
    [][sm = "WINNING_POST" /\ sm' # "WINNING_POST" => pc'[Poll] = pc[Poll]]_vars

\* From the transition of a win until its timer fires, the GPU is in
\* WINNING_POST: "an earlier timer cannot resume during a later, still-active
\* win" (winningGen in scheduler.go).
WinWindowHeld ==
    \A w \in Wins : TimerToCome(w) \/ pc[w] = "armed" => sm = "WINNING_POST"

\* While the proof monitor waits for a proof, the GPU stays with mining: "A
\* WindowPoSt proof is still being computed - the GPU must stay yielded"
\* (the resume timer in scheduler.go).
ProofKeepsGpu ==
    \A k \in ProofKeys :
        pc[k] = "waitProof" => sm \in {"WINDOW_POST", "WINNING_POST"}

\* While a win's window runs, the newest event the subscribers got is its
\* WINNING_POST: the other paths "can never clobber an in-progress
\* block-production yield" (applyDecisionUnlessWinning).
SubscribersSeeWin ==
    \A w \in Wins : pc[w] = "armed" => lastEvent = "WINNING_POST"

\* Every WINNING_POST comes to an end (finitely many wins): the resume timer
\* re-arms while a proof is active and is never abandoned.
WinningEnds == sm = "WINNING_POST" ~> sm # "WINNING_POST"

\* The wait for a proof comes to an end, so that polling is resumed.
MonitorEnds == proofMonitorActive ~> ~proofMonitorActive

\* latestDecision, which /ready serves, agrees with the state machine again and
\* again: a stale decision is healed by a later write (the same-state refresh
\* in applyDecisionUnlessWinning).
DecisionHeals == []<>(latestDecision = sm)
=============================================================================
