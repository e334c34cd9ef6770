----------------------------- MODULE EnginePool -----------------------------
(***************************************************************************)
(* A multi_instance pool (inference/engine_pool.py): the listener thread   *)
(* dispatches pause and resume to the event loop, chat requests switch the *)
(* model of all engines and are routed to one of them.                     *)
(*                                                                         *)
(* An engine is what module Engine makes of it: UNLOADING stands for every *)
(* stretch in which it holds its own transition lock and ends PAUSED, and  *)
(* loads succeed.  A coroutine runs until it awaits: running is the one    *)
(* that goes on.  Only the listener thread interferes with it.             *)
(***************************************************************************)
EXTENDS Naturals, Sequences, FiniteSets, Functions

CONSTANTS
    N,              \* engines, one per device
    Coroutines,     \* bound: coroutines of the listener at a time
    Switch,         \* the coroutine that holds _model_switch_lock
    Models,
    Configured,
    MaxDispatched,  \* bound: coroutines dispatched and not started
    NONE

ASSUME PoolAssumption ==
    /\ N \in Nat \ {0}
    /\ Switch \notin Coroutines
    /\ NONE \notin Coroutines \cup Models \cup {Switch, "run", "yield", "queued"}
    /\ Configured \in Models
    /\ MaxDispatched \in Nat

Engines == 1..N
Tasks == Coroutines \cup {Switch}

VARIABLES
    est,            \* the engines' _state
    emodel,         \* the engines' _model
    loaded,         \* the model in an engine's VRAM, or NONE
    accepting,      \* the engines' _accepting
    flagged,        \* the engines' _pending_pause
    holder,         \* the coroutine that unloads an engine and has its lock
    waiters,        \* the queues of the engines' locks
    pauseRequested, \* _pause_requested
    switching,      \* _switching
    applied,        \* the listener's _last_state: "run", "yield" or NONE
    waiting,        \* the pause it waits for: NONE, "queued" or its coroutine
    dispatched,     \* coroutines the loop has yet to start, in order
    running,
    pc,
    at,             \* the engine a loop is at
    goal,           \* switch_model's argument
    want,           \* history: what the listener called last
    served,         \* history: the model last asked for and the one that served
    switched        \* history: whether a switch has begun

locks == <<holder, waiters>>
engineVars == <<est, emodel, loaded, accepting, flagged, locks>>
poolVars == <<pauseRequested, switching>>
listener == <<applied, waiting>>
tasks == <<dispatched, running, pc, at, goal>>
history == <<want, served, switched>>
vars == <<engineVars, poolVars, listener, tasks, history>>

Init ==
    /\ \/ est = [e \in Engines |-> "RUNNING"] /\ loaded = [e \in Engines |-> Configured]
       \/ est = [e \in Engines |-> "PAUSED"] /\ loaded = [e \in Engines |-> NONE]
    /\ emodel = [e \in Engines |-> Configured]
    /\ accepting = [e \in Engines |-> TRUE]
    /\ flagged = [e \in Engines |-> FALSE]
    /\ holder = [e \in Engines |-> NONE]
    /\ waiters = [e \in Engines |-> << >>]
    /\ pauseRequested = FALSE
    /\ switching = FALSE
    /\ applied = NONE
    /\ waiting = NONE
    /\ dispatched = << >>
    /\ running = NONE
    /\ pc = [t \in Tasks |-> "idle"]
    /\ at = [t \in Tasks |-> 1]
    /\ goal = Configured
    /\ want = IF est[1] = "RUNNING" THEN "run" ELSE "yield"
    /\ served = <<Configured, Configured>>
    /\ switched = FALSE

\* t awaits or returns at label, ...
Await(t, label) == pc' = [pc EXCEPT ![t] = label] /\ running' = NONE

\* ... goes on at the next engine of its loop,
GoOn(t, label) ==
    /\ pc' = [pc EXCEPT ![t] = label]
    /\ at' = [at EXCEPT ![t] = @ + 1]
    /\ running' = t

\* and what t awaited is there.
Awakes(t, label) == running = NONE /\ pc[t] = label

\* A call that needs the lock of e queues up, ...
Busy(e) == est[e] = "UNLOADING" \/ waiters[e] # << >>

\* ... and t is the first in the queue of e when the lock is free.
Granted(t, e) ==
    /\ running = NONE
    /\ est[e] # "UNLOADING"
    /\ waiters[e] # << >> /\ Head(waiters[e]) = t

Queue(t, e) == waiters' = [waiters EXCEPT ![e] = Append(@, t)]

-----------------------------------------------------------------------------
(* The listener thread.                                                    *)

DispatchResume ==
    /\ waiting = NONE
    /\ applied # "run"
    /\ Len(dispatched) < MaxDispatched
    /\ dispatched' = Append(dispatched, "resume")
    /\ applied' = "run"
    /\ want' = "run"
    /\ UNCHANGED <<engineVars, poolVars, waiting, running, pc, at, goal, served, switched>>

\* request_pause, and then the pause, which the listener waits for.
DispatchPause ==
    /\ waiting = NONE
    /\ Len(dispatched) < MaxDispatched
    /\ pauseRequested' = TRUE
    /\ dispatched' = Append(dispatched, "pause")
    /\ waiting' = "queued"
    /\ want' = "yield"
    /\ UNCHANGED <<engineVars, switching, applied, running, pc, at, goal, served, switched>>

\* future.result raises TimeoutError; the pause goes on.
PauseTimesOut ==
    /\ waiting # NONE
    /\ waiting' = NONE
    /\ UNCHANGED <<engineVars, poolVars, applied, tasks, history>>

-----------------------------------------------------------------------------
(* pause.                                                                  *)

\* Mutant: a pause passes over an engine that is loading.
PauseFlagsNone(e) == flagged[e]

PauseFlags(e) == flagged[e] \/ est[e] = "LOADING"

\* All engines at once: a running one is unloaded, a loading one flagged without
\* waiting, and one whose lock is taken waited for.
PauseStarts(t) ==
    /\ Awakes(t, "idle")
    /\ dispatched # << >> /\ Head(dispatched) = "pause"
    /\ dispatched' = Tail(dispatched)
    /\ pauseRequested' = TRUE
    /\ flagged' = [e \in Engines |-> IF Busy(e) THEN flagged[e] ELSE PauseFlags(e)]
    /\ waiters' = [e \in Engines |-> IF Busy(e) THEN Append(waiters[e], t) ELSE waiters[e]]
    /\ LET unloads == {e \in Engines : ~Busy(e) /\ est[e] = "RUNNING"}
       IN  /\ est' = [e \in Engines |-> IF e \in unloads THEN "UNLOADING" ELSE est[e]]
           /\ holder' = [e \in Engines |-> IF e \in unloads THEN t ELSE holder[e]]
    /\ waiting' = IF waiting = "queued" /\ "pause" \notin Range(Tail(dispatched))
                    THEN t ELSE waiting
    /\ Await(t, "pausing")
    /\ UNCHANGED <<emodel, loaded, accepting, switching, applied, at, goal, history>>

\* t's pause of e: unload it if it runs.
PauseEngine(t, e) ==
    /\ flagged' = [flagged EXCEPT ![e] = PauseFlags(e)]
    /\ est' = [est EXCEPT ![e] = IF @ = "RUNNING" THEN "UNLOADING" ELSE @]
    /\ holder' = [holder EXCEPT ![e] = IF est[e] = "RUNNING" THEN t ELSE @]

PauseLocks(t, e) ==
    /\ Granted(t, e)
    /\ pc[t] = "pausing"
    /\ waiters' = [waiters EXCEPT ![e] = Tail(@)]
    /\ PauseEngine(t, e)
    /\ UNCHANGED <<emodel, loaded, accepting, poolVars, listener, tasks, history>>

\* The engine e is unloaded and PAUSED.
Unload(e) ==
    /\ est' = [est EXCEPT ![e] = "PAUSED"]
    /\ loaded' = [loaded EXCEPT ![e] = NONE]
    /\ holder' = [holder EXCEPT ![e] = NONE]

PauseUnloads(t, e) ==
    /\ Awakes(t, "pausing")
    /\ holder[e] = t
    /\ Unload(e)
    /\ UNCHANGED <<emodel, accepting, flagged, waiters, poolVars, listener, tasks, history>>

PauseReturns(t) ==
    /\ Awakes(t, "pausing")
    /\ \A e \in Engines : holder[e] # t /\ t \notin Range(waiters[e])
    /\ Await(t, "idle")
    /\ IF waiting = t THEN applied' = "yield" /\ waiting' = NONE ELSE UNCHANGED listener
    /\ UNCHANGED <<engineVars, poolVars, dispatched, at, goal, history>>

-----------------------------------------------------------------------------
(* resume.                                                                 *)

ResumeStarts(t) ==
    /\ Awakes(t, "idle")
    /\ dispatched # << >> /\ Head(dispatched) = "resume"
    /\ dispatched' = Tail(dispatched)
    /\ pauseRequested' = FALSE
    /\ pc' = [pc EXCEPT ![t] = "resume"]
    /\ at' = [at EXCEPT ![t] = 1]
    /\ running' = t
    /\ UNCHANGED <<engineVars, switching, listener, goal, history>>

\* The loop of t goes on at its next engine; a switch opens the engine first.
NextEngine(t) ==
    /\ GoOn(t, IF t = Switch THEN "switch" ELSE "resume")
    /\ accepting' = IF t = Switch THEN [accepting EXCEPT ![at[t]] = TRUE] ELSE accepting

\* Mutant: an engine that is loading is loaded once more.
ResumableLoading(e) == est[e] \in {"PAUSED", "LOADING"}

Resumable(e) == est[e] = "PAUSED"

\* e.resume with the lock of t's engine: only a PAUSED one is loaded.
ResumeEngine(t) ==
    IF Resumable(at[t])
      THEN /\ est' = [est EXCEPT ![at[t]] = "LOADING"]
           /\ Await(t, "load")
           /\ UNCHANGED <<at, accepting>>
      ELSE NextEngine(t) /\ UNCHANGED est

\* What the loops look at between two engines.
Aborts == pauseRequested

ResumeNext(t) ==
    /\ running = t
    /\ pc[t] = "resume"
    /\ IF at[t] > N \/ Aborts
         THEN Await(t, "idle") /\ UNCHANGED <<est, at, accepting, waiters>>
       ELSE IF Busy(at[t])
         THEN Queue(t, at[t]) /\ Await(t, "lock") /\ UNCHANGED <<est, at, accepting>>
         ELSE ResumeEngine(t) /\ UNCHANGED waiters
    /\ UNCHANGED <<emodel, loaded, flagged, holder, poolVars, listener, dispatched, goal, history>>

ResumeLocks(t) ==
    /\ pc[t] = "lock"
    /\ Granted(t, at[t])
    /\ waiters' = [waiters EXCEPT ![at[t]] = Tail(@)]
    /\ ResumeEngine(t)
    /\ UNCHANGED <<emodel, loaded, flagged, holder, poolVars, listener, dispatched, goal, history>>

\* The load of t's engine ends: it serves, or the flagged pause unloads it again.
ResumeLoaded(t) ==
    LET e == at[t]
    IN  /\ Awakes(t, "load")
        /\ loaded' = [loaded EXCEPT ![e] = emodel[e]]
        /\ flagged' = [flagged EXCEPT ![e] = FALSE]
        /\ IF flagged[e]
             THEN /\ est' = [est EXCEPT ![e] = "UNLOADING"]
                  /\ holder' = [holder EXCEPT ![e] = t]
                  /\ Await(t, "drop")
                  /\ UNCHANGED <<at, accepting>>
             ELSE /\ est' = [est EXCEPT ![e] = "RUNNING"]
                  /\ NextEngine(t)
                  /\ UNCHANGED holder
        /\ UNCHANGED <<emodel, waiters, poolVars, listener, dispatched, goal, history>>

\* The engine that t loaded in vain is PAUSED.
ResumeDropped(t) ==
    /\ Awakes(t, "drop")
    /\ Unload(at[t])
    /\ NextEngine(t)
    /\ UNCHANGED <<emodel, flagged, waiters, poolVars, listener, dispatched, goal, history>>

-----------------------------------------------------------------------------
(* Chat requests: _ensure_model_loaded, switch_model and _pick_engine.     *)

Available(e) == est[e] = "RUNNING" /\ accepting[e]

\* current_model
CurrentModel == emodel[1]

\* A request for m is served by some available engine, or refused (503).  Which
\* one the sessions and the load balancer pick is left open.
Serve(m) ==
    IF \E e \in Engines : Available(e)
      THEN \E e \in Engines : Available(e) /\ served' = <<m, loaded[e]>>
      ELSE UNCHANGED served

Request(m) ==
    /\ running = NONE
    /\ m = CurrentModel
    /\ Serve(m)
    /\ UNCHANGED <<engineVars, poolVars, listener, tasks, want, switched>>

\* Mutant: status does not show that a switch is under way.
SwitchShownNever == FALSE

SwitchShown == TRUE

\* A request for another model takes _model_switch_lock and has the model ready.
SwitchStarts(m) ==
    /\ Awakes(Switch, "idle")
    /\ m # CurrentModel
    /\ switching' = SwitchShown
    /\ goal' = m
    /\ pc' = [pc EXCEPT ![Switch] = "switch"]
    /\ at' = [at EXCEPT ![Switch] = 1]
    /\ running' = Switch
    /\ switched' = TRUE
    /\ UNCHANGED <<engineVars, pauseRequested, listener, dispatched, want, served>>

Switched(e) == emodel[e] = goal /\ est[e] = "RUNNING"

\* After the last engine, or at a pause, the request goes on to be served.
SwitchNext ==
    LET e == at[Switch]
    IN  /\ running = Switch
        /\ pc[Switch] = "switch"
        /\ IF e > N \/ Aborts
             THEN /\ switching' = FALSE
                  /\ Await(Switch, "idle")
                  /\ Serve(goal)
                  /\ UNCHANGED <<accepting, at>>
             ELSE /\ IF Switched(e)
                       THEN GoOn(Switch, "switch") /\ UNCHANGED accepting
                       ELSE /\ accepting' = [accepting EXCEPT ![e] = FALSE]
                            /\ Await(Switch, "drain")
                            /\ UNCHANGED at
                  /\ UNCHANGED <<switching, served>>
        /\ UNCHANGED <<est, emodel, loaded, flagged, locks, pauseRequested, listener, dispatched, goal, want,
                       switched>>

\* e.pause of a switch, with the lock of e, unloads it if it is running.  If it
\* is not, the model is set and e.resume called right away.
SwitchPauseEngine(e) ==
    /\ PauseEngine(Switch, e)
    /\ pc' = [pc EXCEPT ![Switch] = IF est[e] = "RUNNING" THEN "unload" ELSE "set"]
    /\ running' = IF est[e] = "RUNNING" THEN NONE ELSE Switch

\* The engine is drained and e.pause called.
SwitchPauses ==
    LET e == at[Switch]
    IN  /\ Awakes(Switch, "drain")
        /\ IF Busy(e)
             THEN Queue(Switch, e) /\ Await(Switch, "pause") /\ UNCHANGED <<est, flagged, holder>>
             ELSE SwitchPauseEngine(e) /\ UNCHANGED waiters
        /\ UNCHANGED <<emodel, loaded, accepting, poolVars, listener, dispatched, at, goal, history>>

SwitchLocks ==
    LET e == at[Switch]
    IN  /\ pc[Switch] = "pause"
        /\ Granted(Switch, e)
        /\ waiters' = [waiters EXCEPT ![e] = Tail(@)]
        /\ SwitchPauseEngine(e)
        /\ UNCHANGED <<emodel, loaded, accepting, poolVars, listener, dispatched, at, goal, history>>

SwitchUnloads ==
    LET e == at[Switch]
    IN  /\ Awakes(Switch, "unload")
        /\ Unload(e)
        /\ accepting' = [accepting EXCEPT ![e] = TRUE]
        /\ pc' = [pc EXCEPT ![Switch] = "set"]
        /\ running' = Switch
        /\ UNCHANGED <<emodel, flagged, waiters, poolVars, listener, dispatched, at, goal, history>>

\* The pause has returned: the model is set and e.resume called.
SwitchSets ==
    LET e == at[Switch]
    IN  /\ running = Switch
        /\ pc[Switch] = "set"
        /\ emodel' = [emodel EXCEPT ![e] = goal]
        /\ IF Busy(e)
             THEN Queue(Switch, e) /\ Await(Switch, "lock") /\ UNCHANGED <<est, at, accepting>>
             ELSE ResumeEngine(Switch) /\ UNCHANGED waiters
        /\ UNCHANGED <<loaded, flagged, holder, poolVars, listener, dispatched, goal, history>>

-----------------------------------------------------------------------------
TaskStep(t) ==
    \/ ResumeLocks(t)
    \/ ResumeLoaded(t)
    \/ ResumeDropped(t)

ListenerStep(t) ==
    \/ PauseStarts(t)
    \/ \E e \in Engines : PauseLocks(t, e) \/ PauseUnloads(t, e)
    \/ PauseReturns(t)
    \/ ResumeStarts(t)
    \/ ResumeNext(t)

SwitchStep ==
    \/ SwitchNext
    \/ SwitchPauses
    \/ SwitchLocks
    \/ SwitchUnloads
    \/ SwitchSets

Next ==
    \/ DispatchResume
    \/ DispatchPause
    \/ PauseTimesOut
    \/ \E t \in Coroutines : ListenerStep(t)
    \/ \E t \in Tasks : TaskStep(t)
    \/ \E m \in Models : Request(m) \/ SwitchStarts(m)
    \/ SwitchStep

Spec == Init /\ [][Next]_vars

-----------------------------------------------------------------------------
(* Properties.                                                             *)

Labels == {"idle", "pausing", "resume", "lock", "load", "drop", "switch",
           "drain", "pause", "unload", "set"}

\* status().state, as far as RUNNING and LOADING go.
PoolStatus ==
    IF switching THEN "LOADING"
    ELSE IF \E e \in Engines : est[e] = "RUNNING" THEN "RUNNING" ELSE "OTHER"

Quiet == dispatched = << >> /\ \A t \in Tasks : pc[t] = "idle"

\* The domains of the state.
Domains ==
    /\ est \in [Engines -> {"RUNNING", "UNLOADING", "PAUSED", "LOADING"}]
    /\ emodel \in [Engines -> Models]
    /\ loaded \in [Engines -> Models \cup {NONE}]
    /\ accepting \in [Engines -> BOOLEAN]
    /\ flagged \in [Engines -> BOOLEAN]
    /\ holder \in [Engines -> Tasks \cup {NONE}]
    /\ waiters \in [Engines -> Seq(Tasks)]
    /\ pauseRequested \in BOOLEAN
    /\ switching \in BOOLEAN
    /\ applied \in {"run", "yield", NONE}
    /\ waiting \in Coroutines \cup {NONE, "queued"}
    /\ dispatched \in Seq({"pause", "resume"})
    /\ running \in Tasks \cup {NONE}
    /\ pc \in [Tasks -> Labels]
    /\ at \in [Tasks -> 1..(N + 1)]
    /\ goal \in Models
    /\ want \in {"yield", "run"}
    /\ switched \in BOOLEAN

\* The state has its domains; each unloading engine is held, and each loading one
\* has exactly one coroutine that loads it.
TypeOK ==
    /\ Domains
    /\ \A e \in Engines : (holder[e] # NONE) = (est[e] = "UNLOADING")
    /\ \A e \in Engines : est[e] = "LOADING"
            => Cardinality({t \in Tasks : pc[t] = "load" /\ at[t] = e}) = 1

\* When every coroutine has returned and the listener's last call was a pause, no
\* engine holds VRAM, however resumes and pauses overlapped.
YieldUnloadsAll == Quiet /\ want = "yield" => \A e \in Engines : loaded[e] = NONE

\* That holds as long as no switch has begun.
LoneYieldUnloadsAll == ~switched => YieldUnloadsAll

\* A pool that reports RUNNING serves the model it reports, with each engine.
StatusIsHonest ==
    PoolStatus = "RUNNING" =>
        \A e \in Engines : Available(e) => loaded[e] = CurrentModel

\* That holds, while requests switch the model at will, as long as the listener has
\* not called pause or resume.
SteadyStatusIsHonest ==
    applied = NONE /\ ~pauseRequested /\ dispatched = << >> => StatusIsHonest

\* A request is served by the model it asks for.
ServedAsAsked == served[1] = served[2]

\* After a switch that a pause cut short, the engines left behind switch on the next
\* request: in a resumed pool at rest a request is served by the model it asks for.
RestSwitches ==
    [][Quiet /\ want = "run" /\ served' # served => served'[1] = served'[2]]_vars

\* From the moment a yield is detected no further engine starts to load.
YieldStopsLoading ==
    [][want = "yield" => \A e \in Engines : est[e] = "PAUSED" => est'[e] # "LOADING"]_vars
=============================================================================
