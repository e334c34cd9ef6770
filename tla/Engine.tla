------------------------------- MODULE Engine -------------------------------
(***************************************************************************)
(* The life cycle of one VLLMEngine (py-inference/src/inference/engine.py) *)
(* under concurrent calls of pause, resume and switch_model, requests and  *)
(* crashes of the engine core.                                             *)
(*                                                                         *)
(* Every call is an asyncio task.  A task runs without interruption until  *)
(* it suspends: at a sleep (draining, waiting for VRAM, between retries,   *)
(* while a core is killed), or at _transition_lock when the lock is taken  *)
(* or has waiters (asyncio.Lock is first in, first out).  running is the   *)
(* task that goes on without having suspended, if any.  _create_engine     *)
(* does not suspend: constructing the vLLM engine blocks the event loop.   *)
(***************************************************************************)
EXTENDS Naturals, Sequences, FiniteSets

CONSTANTS
    Callers,        \* tasks in which the scheduler listener calls pause and resume
    Switchers,      \* tasks in which the API calls switch_model (one at most)
    Recovery,       \* the task of _recover_dead_engine
    Models,
    ConfiguredModel,\* the model the process starts with
    MaxRequests,    \* bound: requests in flight
    MaxAttempts,    \* max_attempts of _do_reload
    MaxCrashes,     \* bound: crashes of the engine core
    NONE

ASSUME EngineAssumption ==
    /\ Recovery \notin Callers \cup Switchers
    /\ Callers \cap Switchers = {}
    /\ NONE \notin Callers \cup Switchers \cup {Recovery} \cup Models
    /\ ConfiguredModel \in Models
    /\ MaxRequests \in Nat
    /\ MaxAttempts \in Nat \ {0}
    /\ MaxCrashes \in Nat

Tasks == Callers \cup Switchers \cup {Recovery}

EngineState == {"RUNNING", "UNLOADING", "PAUSED", "LOADING", "DEAD"}

Urgency == {"NORMAL", "IMMEDIATE"}

VARIABLES
    state,          \* _state
    engine,         \* the model of _engine, or NONE
    model,          \* _model
    accepting,      \* _accepting
    pendingPause,   \* _pending_pause is not None
    pendingResume,  \* _pending_resume
    recovering,     \* _recovering
    active,         \* _active_requests
    doomed,         \* those among them whose core has died
    cores,          \* live core processes: they hold the VRAM
    coreDead,       \* the core of _engine has crashed
    lock,           \* the holder of _transition_lock across a suspension
    waiters,        \* its queue
    running,
    pc,
    ret,            \* where a task goes on when pause, resume or a reload returns
    urgency,        \* pause's argument
    attempt,        \* _do_reload's loop counter
    goal,           \* switch_model's argument
    want,           \* history: the listener's last call
    crashes         \* crashes so far

engineVars == <<engine, model, cores, coreDead>>
flags == <<accepting, pendingPause, pendingResume, recovering>>
requests == <<active, doomed>>
sync == <<lock, waiters, running>>
locals == <<ret, urgency, attempt, goal>>
env == <<want, crashes>>
vars == <<state, engineVars, flags, requests, sync, pc, locals, env>>

-----------------------------------------------------------------------------
(* Tasks and the transition lock.                                          *)

\* A task that _transition_lock has woken is next in the event loop.
Woken == lock = NONE /\ waiters # << >>

\* A sleep of t ends, or a call of it starts: its wake-up comes through a timer
\* or another thread, behind the woken task.
Resumes(t, label) == running = NONE /\ ~Woken /\ pc[t] = label

\* Labels at which a task sleeps, or its call has returned.
Suspension == {"idle", "drain", "switchDrain", "vram", "exit"}

\* t goes on at label, or sleeps there.
Goto(t, label) ==
    /\ pc' = [pc EXCEPT ![t] = label]
    /\ running' = IF label \in Suspension THEN NONE ELSE t

\* t, with q waiting, reaches the block at label under "async with
\* _transition_lock": it goes on at once only if the lock is free and q empty.
Enter(t, label, q) ==
    /\ pc' = [pc EXCEPT ![t] = label]
    /\ IF lock = NONE /\ q = << >>
         THEN running' = t /\ waiters' = q
         ELSE running' = NONE /\ waiters' = Append(q, t)
    /\ UNCHANGED lock

Acquire(t, label) == Enter(t, label, waiters)

\* t runs the block at label with the lock.
Locked(t, label) ==
    /\ pc[t] = label
    /\ lock = NONE
    /\ running = t \/ (running = NONE /\ waiters # << >> /\ Head(waiters) = t)

Queue(t) == IF running = t THEN waiters ELSE Tail(waiters)

\* The block ends and t goes on at label, ...
Leave(t, label) == Goto(t, label) /\ waiters' = Queue(t) /\ UNCHANGED lock

\* ... or at another block, ...
LeaveAndAcquire(t, label) == Enter(t, label, Queue(t))

\* ... or it suspends at label inside the block,
Hold(t, label) ==
    /\ pc' = [pc EXCEPT ![t] = label]
    /\ running' = NONE
    /\ waiters' = Queue(t)
    /\ lock' = t

\* and when it wakes up it leaves the block for label.
Unlock(t, label) == Goto(t, label) /\ lock' = NONE /\ UNCHANGED waiters

-----------------------------------------------------------------------------
Init ==
    /\ model = ConfiguredModel
    /\ \/ state = "RUNNING" /\ engine = model /\ cores = 1
       \/ state = "PAUSED" /\ engine = NONE /\ cores = 0     \* started paused
    /\ coreDead = FALSE
    /\ accepting = TRUE
    /\ pendingPause = FALSE
    /\ pendingResume = FALSE
    /\ recovering = FALSE
    /\ active = 0
    /\ doomed = 0
    /\ lock = NONE
    /\ waiters = << >>
    /\ running = NONE
    /\ pc = [t \in Tasks |-> "idle"]
    /\ ret = [t \in Tasks |-> "idle"]
    /\ urgency = [t \in Tasks |-> "NORMAL"]
    /\ attempt = [t \in Tasks |-> 1]
    /\ goal = [t \in Tasks |-> NONE]
    /\ want = IF state = "RUNNING" THEN "run" ELSE "yield"
    /\ crashes = 0

-----------------------------------------------------------------------------
(* _destroy_engine: abort the requests in flight, shut down, and kill the  *)
(* core after a while.  Without an engine nothing happens and the caller   *)
(* does not suspend.                                                       *)

\* An aborted request no longer raises EngineDeadError.
DestroyBegins ==
    /\ engine' = NONE
    /\ doomed' = 0
    /\ UNCHANGED <<model, cores, coreDead, active>>

\* Mutant: a core that lingers after shutdown is not killed.
DestroyEndsLingers == coreDead' = FALSE /\ UNCHANGED <<engine, model, cores>>

\* The core of the engine that was destroyed is gone.
DestroyEnds ==
    /\ cores' = IF coreDead THEN cores ELSE cores - 1
    /\ coreDead' = FALSE
    /\ UNCHANGED <<engine, model>>

-----------------------------------------------------------------------------
(* pause.                                                                  *)

\* The first block of pause, for urgency u; pause returns to back.
CallPause(t, u, back) ==
    /\ urgency' = [urgency EXCEPT ![t] = u]
    /\ ret' = [ret EXCEPT ![t] = back]
    /\ Acquire(t, "pause")

PauseCalled(t, u) ==
    /\ Resumes(t, "idle")
    /\ want' = "yield"
    /\ CallPause(t, u, "idle")
    /\ UNCHANGED <<state, engineVars, flags, requests, attempt, goal, crashes>>

\* Mutant: a pause that arrives during a load is dropped.
PauseFlagDropped == pendingPause

\* A pause that arrives during a load is flagged for the loader.
PauseFlag == state = "LOADING" \/ pendingPause

\* NORMAL refuses new requests and stays RUNNING through the drain, which does
\* not sleep without requests; IMMEDIATE unloads at once.
Pause(t) ==
    /\ Locked(t, "pause")
    /\ pendingPause' = PauseFlag
    /\ IF state # "RUNNING"
         THEN Leave(t, ret[t]) /\ UNCHANGED <<state, accepting>>
         ELSE IF urgency[t] = "NORMAL"
         THEN /\ accepting' = FALSE
              /\ IF active > 0 THEN Leave(t, "drain")
                               ELSE LeaveAndAcquire(t, "drained")
              /\ UNCHANGED state
         ELSE /\ state' = "UNLOADING"
              /\ LeaveAndAcquire(t, "destroy")
              /\ UNCHANGED accepting
    /\ UNCHANGED <<engineVars, pendingResume, recovering, requests, locals, env>>

\* Mutant: a drain has no timeout.
DrainOverOnlyEmpty == active = 0

\* _drain_requests returns with nothing in flight, or at its timeout at any moment.
DrainOver == TRUE

DrainEnds(t) ==
    /\ Resumes(t, "drain")
    /\ DrainOver
    /\ Acquire(t, "drained")
    /\ UNCHANGED <<state, engineVars, flags, requests, locals, env>>

\* An immediate pause may have taken over mid-drain.
Drained(t) ==
    /\ Locked(t, "drained")
    /\ IF state # "RUNNING"
         THEN Leave(t, ret[t]) /\ UNCHANGED state
         ELSE state' = "UNLOADING" /\ LeaveAndAcquire(t, "destroy")
    /\ UNCHANGED <<engineVars, flags, requests, locals, env>>

PauseDestroys(t) ==
    /\ Locked(t, "destroy")
    /\ engine # NONE
    /\ DestroyBegins
    /\ Hold(t, "destroying")
    /\ UNCHANGED <<state, flags, locals, env>>

\* Mutant: the drain gate stays shut.
AcceptingAfterPauseShut == accepting

\* Availability is gated by the state until resume.
AcceptingAfterPause == TRUE

\* The engine is destroyed: PAUSED, or straight into a pending resume.
PauseUnloaded(t) ==
    /\ IF pc[t] = "destroying"
         THEN /\ Resumes(t, "destroying")
              /\ DestroyEnds
              /\ Unlock(t, IF pendingResume THEN "vram" ELSE ret[t])
         ELSE /\ Locked(t, "destroy")
              /\ engine = NONE
              /\ Leave(t, IF pendingResume THEN "vram" ELSE ret[t])
              /\ UNCHANGED engineVars
    /\ accepting' = AcceptingAfterPause
    /\ pendingResume' = FALSE
    /\ state' = IF pendingResume THEN "LOADING" ELSE "PAUSED"
    /\ attempt' = [attempt EXCEPT ![t] = 1]
    /\ UNCHANGED <<pendingPause, recovering, requests, ret, urgency, goal, env>>

-----------------------------------------------------------------------------
(* resume and _do_reload.                                                  *)

ResumeCalled(t) ==
    /\ Resumes(t, "idle")
    /\ want' = "run"
    /\ ret' = [ret EXCEPT ![t] = "idle"]
    /\ Acquire(t, "resume")
    /\ UNCHANGED <<state, engineVars, flags, requests, urgency, attempt, goal, crashes>>

\* Mutant: an engine that is loading is loaded once more.
ResumableLoading == state \in {"PAUSED", "LOADING"}

\* Only a PAUSED engine is loaded.
Resumable == state = "PAUSED"

Resume(t) ==
    /\ Locked(t, "resume")
    /\ pendingResume' = (state = "UNLOADING" \/ pendingResume)
    /\ IF Resumable
         THEN /\ state' = "LOADING"
              /\ attempt' = [attempt EXCEPT ![t] = 1]
              /\ Leave(t, "vram")
         ELSE Leave(t, ret[t]) /\ UNCHANGED <<state, attempt>>
    /\ UNCHANGED <<engineVars, accepting, pendingPause, recovering, requests,
                   ret, urgency, goal, env>>

\* Mutant: the model of the start is loaded again.
LoadedModelConfigured == ConfiguredModel

\* The path _create_engine_inner reads.
LoadedModel == model

\* VRAM is free (or no longer waited for) and the engine is created.
EngineCreated(t) ==
    /\ Resumes(t, "vram")
    /\ engine' = LoadedModel
    /\ cores' = cores + 1
    /\ coreDead' = FALSE
    /\ Acquire(t, "loaded")
    /\ UNCHANGED <<state, model, flags, requests, locals, env>>

\* Mutant: one attempt too many.
RetriesLeftOneMore(t) == attempt[t] <= MaxAttempts

RetriesLeft(t) == attempt[t] < MaxAttempts

\* The creation fails: try again after a sleep, or give up.
CreateFails(t) ==
    /\ Resumes(t, "vram")
    /\ IF RetriesLeft(t)
         THEN /\ attempt' = [attempt EXCEPT ![t] = @ + 1]
              /\ engine' = NONE
              /\ Goto(t, "vram")
              /\ UNCHANGED <<lock, waiters>>
         ELSE Acquire(t, "giveUp") /\ UNCHANGED <<attempt, engine>>
    /\ UNCHANGED <<state, model, cores, coreDead, flags, requests, ret, urgency,
                   goal, env>>

\* A pause that came during the load unloads the engine again.
Loaded(t) ==
    /\ Locked(t, "loaded")
    /\ pendingPause' = FALSE
    /\ IF pendingPause /\ engine # NONE
         THEN DestroyBegins /\ Hold(t, "unloading") /\ UNCHANGED state
         ELSE /\ state' = IF pendingPause THEN "PAUSED" ELSE "RUNNING"
              /\ Leave(t, ret[t])
              /\ UNCHANGED <<engineVars, requests>>
    /\ UNCHANGED <<accepting, pendingResume, recovering, locals, env>>

UnloadedAgain(t) ==
    /\ Resumes(t, "unloading")
    /\ DestroyEnds
    /\ state' = "PAUSED"
    /\ Unlock(t, ret[t])
    /\ UNCHANGED <<flags, requests, locals, env>>

GiveUp(t) ==
    /\ Locked(t, "giveUp")
    /\ pendingPause' = FALSE
    /\ state' = "PAUSED"
    /\ Leave(t, "exit")
    /\ UNCHANGED <<engineVars, accepting, pendingResume, recovering, requests,
                   locals, env>>

\* os._exit(1): the container restarts the process, which loads the configured
\* model if the scheduler has the GPU available.
Restart(t, available) ==
    /\ Resumes(t, "exit")
    /\ state' = IF available THEN "RUNNING" ELSE "PAUSED"
    /\ engine' = IF available THEN ConfiguredModel ELSE NONE
    /\ cores' = IF available THEN 1 ELSE 0
    /\ coreDead' = FALSE
    /\ model' = ConfiguredModel
    /\ accepting' = TRUE
    /\ pendingPause' = FALSE
    /\ pendingResume' = FALSE
    /\ recovering' = FALSE
    /\ active' = 0
    /\ doomed' = 0
    /\ lock' = NONE
    /\ waiters' = << >>
    /\ running' = NONE
    /\ pc' = [u \in Tasks |-> "idle"]
    /\ UNCHANGED <<locals, crashes>>

Exit(t) == Restart(t, want = "run") /\ UNCHANGED want

-----------------------------------------------------------------------------
(* switch_model.                                                           *)

\* New requests are refused, and those in flight drained.
SwitchCalled(t, m) ==
    /\ Resumes(t, "idle")
    /\ model # m         \* _ensure_model does not switch to the current model
    /\ accepting' = FALSE
    /\ goal' = [goal EXCEPT ![t] = m]
    /\ IF active > 0
         THEN Goto(t, "switchDrain") /\ UNCHANGED <<lock, waiters, ret, urgency>>
         ELSE CallPause(t, "NORMAL", "switchPaused")
    /\ UNCHANGED <<state, engineVars, pendingPause, pendingResume, recovering,
                   requests, attempt, env>>

SwitchDrained(t) ==
    /\ Resumes(t, "switchDrain")
    /\ DrainOver
    /\ CallPause(t, "NORMAL", "switchPaused")
    /\ UNCHANGED <<state, engineVars, flags, requests, attempt, goal, env>>

\* pause has returned, whether or not the engine is paused now.
SwitchPaused(t) ==
    /\ pc[t] = "switchPaused"
    /\ running = t
    /\ model' = goal[t]
    /\ ret' = [ret EXCEPT ![t] = "switchDone"]
    /\ Acquire(t, "resume")
    /\ UNCHANGED <<state, engine, cores, coreDead, flags, requests, urgency,
                   attempt, goal, env>>

SwitchDone(t) ==
    /\ pc[t] = "switchDone"
    /\ running = t
    /\ accepting' = TRUE
    /\ Goto(t, "idle")
    /\ UNCHANGED <<state, engineVars, pendingPause, pendingResume, recovering,
                   requests, lock, waiters, locals, env>>

-----------------------------------------------------------------------------
(* Requests: generate and generate_stream.                                 *)

Generate ==
    /\ running = NONE
    /\ state = "RUNNING"
    /\ accepting
    /\ active < MaxRequests
    /\ active' = active + 1
    /\ doomed' = IF coreDead THEN doomed + 1 ELSE doomed
    /\ UNCHANGED <<state, engineVars, flags, sync, pc, locals, env>>

\* A request completes, is aborted by an unload or fails on a stall.
RequestEnds ==
    /\ running = NONE
    /\ active > 0
    /\ active' = active - 1
    /\ doomed' \in {doomed, doomed - 1} \cap 0..(active - 1)
    /\ UNCHANGED <<state, engineVars, flags, sync, pc, locals, env>>

-----------------------------------------------------------------------------
(* Crashes of the core, _mark_dead and _recover_dead_engine.               *)

\* The core process dies and the requests it served will raise.
Crash ==
    /\ running = NONE
    /\ engine # NONE
    /\ ~coreDead
    /\ crashes < MaxCrashes
    /\ coreDead' = TRUE
    /\ cores' = cores - 1
    /\ doomed' = active
    /\ crashes' = crashes + 1
    /\ UNCHANGED <<state, engine, model, flags, active, sync, pc, locals, want>>

\* A request raises EngineDeadError: DEAD in whatever state, and one recovery,
\* which starts before any sleep ends or call arrives.
RequestDies ==
    /\ running = NONE
    /\ doomed > 0
    /\ active' = active - 1
    /\ doomed' = doomed - 1
    /\ state' = "DEAD"
    /\ recovering' = TRUE
    /\ IF recovering
         THEN UNCHANGED <<pc, sync, ret>>
         ELSE /\ ret' = [ret EXCEPT ![Recovery] = "recoverDone"]
              /\ Acquire(Recovery, "reap")
    /\ UNCHANGED <<engineVars, accepting, pendingPause, pendingResume, urgency,
                   attempt, goal, env>>

\* Mutant: an engine that is being drained is left to whoever drains it.
StillDeadAccepting == state = "DEAD" /\ accepting

StillDead == state = "DEAD"

\* Someone else may have moved the engine on; otherwise reap the dead core.
Recover ==
    /\ Locked(Recovery, "reap")
    /\ IF StillDead /\ engine # NONE
         THEN DestroyBegins /\ Hold(Recovery, "reaping") /\ UNCHANGED <<state, attempt>>
         ELSE /\ state' = IF StillDead THEN "LOADING" ELSE state
              /\ attempt' = [attempt EXCEPT ![Recovery] = 1]
              /\ Leave(Recovery, IF StillDead THEN "vram" ELSE "recoverDone")
              /\ UNCHANGED <<engineVars, requests>>
    /\ UNCHANGED <<flags, ret, urgency, goal, env>>

RecoverReaped ==
    /\ Resumes(Recovery, "reaping")
    /\ DestroyEnds
    /\ state' = "LOADING"
    /\ attempt' = [attempt EXCEPT ![Recovery] = 1]
    /\ Unlock(Recovery, "vram")
    /\ UNCHANGED <<flags, requests, ret, urgency, goal, env>>

RecoverDone ==
    /\ pc[Recovery] = "recoverDone"
    /\ running = Recovery
    /\ recovering' = FALSE
    /\ Goto(Recovery, "idle")
    /\ UNCHANGED <<state, engineVars, accepting, pendingPause, pendingResume,
                   requests, lock, waiters, locals, env>>

-----------------------------------------------------------------------------
PauseStep(t) ==
    \/ Pause(t)
    \/ DrainEnds(t)
    \/ Drained(t)
    \/ PauseDestroys(t)
    \/ PauseUnloaded(t)

LoadStep(t) ==
    \/ Resume(t)
    \/ EngineCreated(t)
    \/ CreateFails(t)
    \/ Loaded(t)
    \/ UnloadedAgain(t)
    \/ GiveUp(t)

SwitchStep(t) ==
    \/ SwitchDrained(t)
    \/ SwitchPaused(t)
    \/ SwitchDone(t)

RecoveryStep ==
    \/ Recover
    \/ RecoverReaped
    \/ RecoverDone

Next ==
    \/ \E t \in Callers : ResumeCalled(t) \/ \E u \in Urgency : PauseCalled(t, u)
    \/ \E t \in Switchers : SwitchStep(t) \/ \E m \in Models : SwitchCalled(t, m)
    \/ \E t \in Callers \cup Switchers : PauseStep(t)
    \/ \E t \in Tasks : LoadStep(t) \/ Exit(t)
    \/ RecoveryStep
    \/ Generate
    \/ RequestEnds
    \/ Crash
    \/ RequestDies

Spec == Init /\ [][Next]_vars

\* The event loop runs every task that is ready, sleeps end, and vLLM's
\* constructor returns or raises.  Requests end (_iter_outputs bounds each
\* token), but a drain does not need them to: it has a timeout.
Fairness ==
    /\ \A t \in Callers \cup Switchers : SF_vars(PauseStep(t))
    /\ \A t \in Tasks : SF_vars(LoadStep(t) \/ Exit(t))
    /\ \A t \in Switchers : SF_vars(SwitchStep(t))
    /\ SF_vars(RecoveryStep)

FairSpec == Spec /\ Fairness

-----------------------------------------------------------------------------
(* Properties.                                                             *)

Labels == {"idle", "pause", "drain", "drained", "destroy", "destroying",
           "resume", "vram", "loaded", "unloading", "giveUp", "exit",
           "switchDrain", "switchPaused", "switchDone", "reap",
           "reaping", "recoverDone"}

\* The domains of the state, and _transition_lock's queue holds each waiter once.
TypeOK ==
    /\ state \in EngineState
    /\ engine \in Models \cup {NONE}
    /\ model \in Models
    /\ accepting \in BOOLEAN
    /\ pendingPause \in BOOLEAN
    /\ pendingResume \in BOOLEAN
    /\ recovering \in BOOLEAN
    /\ active \in 0..MaxRequests
    /\ doomed \in 0..active
    /\ cores \in Nat
    /\ coreDead \in BOOLEAN
    /\ lock \in Tasks \cup {NONE}
    /\ waiters \in Seq(Tasks)
    /\ \A i, j \in DOMAIN waiters : waiters[i] = waiters[j] => i = j
    /\ running \in Tasks \cup {NONE}
    /\ pc \in [Tasks -> Labels]
    /\ ret \in [Tasks -> Labels]
    /\ urgency \in [Tasks -> Urgency]
    /\ attempt \in [Tasks -> 1..MaxAttempts]
    /\ goal \in [Tasks -> Models \cup {NONE}]
    /\ want \in {"yield", "run"}
    /\ crashes \in 0..MaxCrashes

Idle == \A t \in Tasks : pc[t] = "idle"

\* However calls interleave, at most one engine core holds the GPU.
SingleCore == cores <= 1

\* A RUNNING engine has its core unless that crashed, and a PAUSED one has given
\* its VRAM back: what the heartbeat tells the scheduler is true of the GPU.
StateTellsVram ==
    /\ state = "RUNNING" => engine # NONE /\ cores = IF coreDead THEN 0 ELSE 1
    /\ state = "PAUSED" => engine = NONE /\ cores = 0

\* When every call has returned and the listener's last call was a pause, the
\* GPU is free ("Mining always wins"): no pause is lost.
YieldEndsUnloaded == Idle /\ want = "yield" => cores = 0

\* That holds, even for a pause that arrives during a load, as long as there has
\* been no switch_model and no crash.
LoneYieldEndsUnloaded ==
    crashes = 0 /\ (\A t \in Switchers : goal[t] = NONE) => YieldEndsUnloaded

\* When every call has returned, a RUNNING engine takes requests again: "re-arm
\* accepting so the engine serves again once it is RUNNING" (pause).
AcceptingRestored == Idle /\ state = "RUNNING" => accepting

\* That holds, whatever switches and pauses overlap, as long as no core crashes.
UncrashedAccepts == crashes = 0 => AcceptingRestored

\* When every call has returned and the listener's last call was a resume, the
\* engine is loaded.
ResumeEndsRunning == Idle /\ want = "run" => state = "RUNNING"

\* The engine keeps the promises of EngineContract.
Contract == INSTANCE EngineContract WITH
    core <- engine,
    name <- model,
    open <- (state = "RUNNING" /\ accepting),
    vram <- (cores > 0)

\* Whatever calls and crashes overlap, every step of the engine is a step of the
\* contract: it is available only with the model it names loaded, and it loads
\* only onto a GPU that every earlier core has left.
ImplementsContract == Contract!CSpec

\* Every call of the listener and every recovery returns: no task waits for the lock
\* forever.  One caller stands for all, which are interchangeable.
CallsReturn ==
    \A t \in {CHOOSE c \in Callers : TRUE, Recovery} : pc[t] # "idle" ~> pc[t] = "idle"

\* Every switch_model returns as well.
SwitchesReturn == \A t \in Switchers : pc[t] # "idle" ~> pc[t] = "idle"

\* An engine marked DEAD never stays DEAD.
DeadRecovers == state = "DEAD" ~> state # "DEAD"
=============================================================================
