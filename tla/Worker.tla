------------------------------- MODULE Worker -------------------------------
(***************************************************************************)
(* The inference worker: the scheduler listener (scheduler_client/         *)
(* listener.py) drives one engine from what the scheduler says it polls.   *)
(*                                                                         *)
(* The listener is a thread.  It starts pause and resume as tasks on the   *)
(* event loop: it waits for a pause, at most _pause_timeout, and does not  *)
(* wait for a resume.  Reading the schedule and acting on it is one step:  *)
(* nothing but the listener reads what it has read.                        *)
(***************************************************************************)
EXTENDS Engine

CONSTANTS
    Links,          \* how the scheduler may be reached
    MaxFaults,      \* bound: pauses that outlast _pause_timeout and crashes, together
    MaxChanges      \* bound: changes of the scheduler's state

ASSUME WorkerAssumption ==
    /\ "up" \in Links
    /\ Links \subseteq {"up", "refused", "silent"}
    /\ MaxFaults \in Nat
    /\ MaxChanges \in Nat
    /\ Switchers = {}

\* Mutant: WINNING_POST is an unknown state.
YieldStatesNoWinning == {"YIELDING", "WINDOW_POST"}

YieldStates == {"YIELDING", "WINDOW_POST", "WINNING_POST"}

GpuStates == {"AVAILABLE", "YIELDING", "WINDOW_POST", "WINNING_POST"}

VARIABLES
    sched,          \* the state the scheduler answers with
    link,           \* "up", "refused" (RPCs raise) or "silent" (no answer)
    lastState,      \* _last_state
    connected,      \* _connected
    overdue,        \* _disconnect_since lies _failsafe_timeout back
    failsafe,       \* _failsafe_triggered
    lpc,            \* the listener: "sleep", "poll" (in the RPC) or "pausing"
    applying,       \* the state that _apply_state applies
    pauseTask,      \* the task of the pause the listener waits for
    timeouts,
    changes

listener == <<lastState, connected, overdue, failsafe, lpc, applying, pauseTask>>
bounds == <<timeouts, changes>>
wvars == <<vars, sched, link, listener, bounds>>

\* The process starts, and the listener with it.
ListenerStarts ==
    /\ lastState' = NONE
    /\ connected' = TRUE
    /\ overdue' = FALSE
    /\ failsafe' = FALSE
    /\ lpc' = "sleep"
    /\ applying' = NONE
    /\ pauseTask' = NONE

\* Whether the model is loaded at the start was decided by a schedule read before
\* the model's download, and may be out of date (Init).
WInit ==
    /\ Init
    /\ sched \in GpuStates
    /\ link \in Links
    /\ lastState = NONE
    /\ connected = TRUE
    /\ overdue = FALSE
    /\ failsafe = FALSE
    /\ lpc = "sleep"
    /\ applying = NONE
    /\ pauseTask = NONE
    /\ timeouts = 0
    /\ changes = 0

-----------------------------------------------------------------------------
(* The scheduler and the way to it.                                        *)

SchedulerChanges ==
    /\ changes < MaxChanges
    /\ \/ sched' \in GpuStates \ {sched} /\ UNCHANGED link
       \/ link' \in Links \ {link} /\ UNCHANGED sched
    /\ changes' = changes + 1
    /\ UNCHANGED <<vars, listener, timeouts>>

\* Sixty seconds have passed since the first poll that failed.
OutageLasts ==
    /\ ~connected
    /\ ~overdue
    /\ overdue' = TRUE
    /\ UNCHANGED <<vars, sched, link, lastState, connected, failsafe, lpc,
                   applying, pauseTask, bounds>>

-----------------------------------------------------------------------------
(* _poll and _apply_state.                                                 *)

\* request_pause, and a pause on the event loop that the listener waits for.
ApplyYield(t, s) ==
    /\ PauseCalled(t, IF s = "YIELDING" THEN "NORMAL" ELSE "IMMEDIATE")
    /\ lpc' = "pausing"
    /\ applying' = s
    /\ pauseTask' = t

\* Mutant: the outage is timed from the latest failed poll.
FailsafeDueNever == FALSE

FailsafeDue == ~failsafe /\ overdue

\* The RPC raises.
PollFails ==
    /\ lpc \in {"sleep", "poll"}
    /\ link = "refused"
    /\ connected' = FALSE
    /\ IF FailsafeDue
         THEN \E t \in Callers : ApplyYield(t, "WINDOW_POST")
         ELSE lpc' = "sleep" /\ UNCHANGED <<vars, applying, pauseTask>>
    /\ UNCHANGED <<sched, link, lastState, overdue, failsafe, bounds>>

\* The RPC is sent and not answered.
PollHangs ==
    /\ lpc = "sleep"
    /\ link = "silent"
    /\ lpc' = "poll"
    /\ UNCHANGED <<vars, sched, link, lastState, connected, overdue, failsafe,
                   applying, pauseTask, bounds>>

\* A reconnection clears the fail-safe and forces the state to be applied.
LastStateRead == IF ~connected /\ failsafe THEN NONE ELSE lastState

\* Mutant: _disconnect_since survives a reconnection.
OverdueAfterReadKept == overdue

OverdueAfterRead == FALSE

\* The scheduler's state is read, and applied unless it is the last one.
PollReads ==
    /\ lpc \in {"sleep", "poll"}
    /\ link = "up"
    /\ connected' = TRUE
    /\ overdue' = OverdueAfterRead
    /\ failsafe' = (connected /\ failsafe)
    /\ \/ /\ sched = LastStateRead \/ sched \notin YieldStates \cup {"AVAILABLE"}
          /\ lastState' = LastStateRead
          /\ lpc' = "sleep"
          /\ UNCHANGED <<vars, applying, pauseTask>>
       \/ /\ sched = "AVAILABLE"
          /\ sched # LastStateRead
          /\ \E t \in Callers : ResumeCalled(t)
          /\ lastState' = "AVAILABLE"
          /\ lpc' = "sleep"
          /\ UNCHANGED <<applying, pauseTask>>
       \/ /\ sched \in YieldStates
          /\ sched # LastStateRead
          /\ \E t \in Callers : ApplyYield(t, sched)
          /\ lastState' = LastStateRead
    /\ UNCHANGED <<sched, link, bounds>>

\* Mutant: the state that was applied is not recorded.
LastStateAppliedNot == lastState

LastStateApplied == applying

\* The pause has returned: it was successful.
PauseReturns ==
    /\ lpc = "pausing"
    /\ pc[pauseTask] = "idle"
    /\ lastState' = LastStateApplied
    /\ failsafe' = (failsafe \/ ~connected)
    /\ lpc' = "sleep"
    /\ UNCHANGED <<vars, sched, link, connected, overdue, applying, pauseTask, bounds>>

\* future.result raises TimeoutError; the pause goes on.
PauseTimesOut ==
    /\ lpc = "pausing"
    /\ pc[pauseTask] # "idle"
    /\ timeouts + crashes < MaxFaults
    /\ timeouts' = timeouts + 1
    /\ lpc' = "sleep"
    /\ UNCHANGED <<vars, sched, link, lastState, connected, overdue, failsafe,
                   applying, pauseTask, changes>>

-----------------------------------------------------------------------------
(* The engine's own steps.                                                 *)

EngineStep ==
    /\ \/ \E t \in Callers : PauseStep(t)
       \/ \E t \in Tasks : LoadStep(t)
       \/ RecoveryStep
       \/ Generate
       \/ RequestEnds
       \/ timeouts + crashes < MaxFaults /\ Crash
       \/ RequestDies
    /\ UNCHANGED <<sched, link, listener, bounds>>

\* main: available is what the schedule was when it was read.
WorkerRestarts(t, available) ==
    /\ Restart(t, available)
    /\ want' = IF available THEN "run" ELSE "yield"
    /\ ListenerStarts
    /\ UNCHANGED <<sched, link, bounds>>

Poll == PollFails \/ PollReads

WNext ==
    \/ SchedulerChanges
    \/ OutageLasts
    \/ Poll
    \/ PollHangs
    \/ PauseReturns
    \/ PauseTimesOut
    \/ EngineStep
    \/ \E t \in Tasks, available \in BOOLEAN : WorkerRestarts(t, available)

WSpec == WInit /\ [][WNext]_wvars

\* The event loop runs its tasks as in Engine, the listener polls, and time
\* passes during an outage.
WFairness ==
    /\ \A t \in Callers : SF_wvars(PauseStep(t) /\ EngineStep)
    /\ \A t \in Tasks : SF_wvars(\/ LoadStep(t) /\ EngineStep
                                 \/ \E available \in BOOLEAN : WorkerRestarts(t, available))
    /\ SF_wvars(RecoveryStep /\ EngineStep)
    /\ SF_wvars(Poll)
    /\ WF_wvars(PauseReturns)
    /\ WF_wvars(OutageLasts)

WFairSpec == WSpec /\ WFairness

-----------------------------------------------------------------------------
(* Properties.                                                             *)

\* The domains of the listener's state; it waits only for a pause it called, and
\* a connected listener times no outage.
WTypeOK ==
    /\ TypeOK
    /\ sched \in GpuStates
    /\ link \in Links
    /\ lastState \in GpuStates \cup {NONE}
    /\ connected \in BOOLEAN
    /\ overdue \in BOOLEAN
    /\ overdue => ~connected
    /\ failsafe \in BOOLEAN
    /\ lpc \in {"sleep", "poll", "pausing"}
    /\ applying \in YieldStates \cup {NONE}
    /\ pauseTask \in Callers \cup {NONE}
    /\ lpc = "pausing" => pauseTask # NONE /\ applying # NONE
    /\ timeouts \in 0..MaxFaults
    /\ changes \in 0..MaxChanges

\* If the scheduler keeps the GPU for mining, the worker gives it back for good,
\* whatever loads, drains, timeouts and polls were under way.  (A core's crash
\* lets _recover_dead_engine load the model again.)
YieldReleasesGpu ==
    <>[](sched \in {"YIELDING", "WINDOW_POST", "WINNING_POST"} /\ link = "up" /\ crashes = 0)
        => <>[](cores = 0)

\* If the scheduler refuses all connections from now on, the fail-safe gives the
\* GPU back.
FailSafePauses == <>[](link = "refused" /\ crashes = 0) => <>[](cores = 0)

\* The same for a scheduler that cannot be reached for whatever reason: "pause
\* inference after 60s of disconnect" (_check_failsafe's timeout).
OutagePauses == <>[](link # "up" /\ crashes = 0) => <>[](cores = 0)

\* While the scheduler has the GPU available, a pause is not the listener's last
\* word: it calls resume.
PauseNeglected == link = "up" /\ sched = "AVAILABLE" /\ want = "yield"

PauseIsUndone == PauseNeglected ~> ~PauseNeglected

\* That holds as long as no pause has outlasted _pause_timeout.
PromptPauseIsUndone ==
    PauseNeglected /\ timeouts = 0 ~> ~(PauseNeglected /\ timeouts = 0)

\* A yield counts as applied only when the engine's VRAM is free.
AppliedIsReleased == lastState \in YieldStates => cores = 0
=============================================================================
