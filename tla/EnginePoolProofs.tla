--------------------------- MODULE EnginePoolProofs ---------------------------
(***************************************************************************)
(* Proofs about EnginePool.tla for any number of engines, of models and of *)
(* coroutines under way: as long as no request switches the model, a pause *)
(* that the listener calls last leaves no engine in VRAM, and as long as   *)
(* the listener interferes with no switch, the pool serves the model that  *)
(* it reports.                                                             *)
(*                                                                         *)
(* The argument for the pause: once no call is left to start, every engine *)
(* that is not unloaded yet has a pause ahead of it, in the queue of its   *)
(* lock or in its _pending_pause flag, and every resume that still waits   *)
(* for a lock has a pause behind it.                                       *)
(***************************************************************************)
EXTENDS EnginePool, FiniteSetTheorems, SequenceTheorems, TLAPS

\* A coroutine at one of these labels works on the engine it is at.
Working == {"lock", "load", "drop", "drain", "pause", "unload", "set"}

Located == \A t \in Tasks : pc[t] \in Working => at[t] \in Engines

\* The lock of an engine that unloads is held by the pause that unloads it, or by the
\* coroutine that drops the load or switches the model of this very engine.
Locks ==
    /\ \A e \in Engines : holder[e] # NONE <=> est[e] = "UNLOADING"
    /\ \A e \in Engines : \A t \in Tasks :
         holder[e] = t => \/ pc[t] = "pausing"
                          \/ pc[t] \in {"drop", "unload"} /\ at[t] = e
    /\ \A t \in Tasks : pc[t] \in {"drop", "unload"} => holder[at[t]] = t

\* Exactly one coroutine loads an engine that is loading.
Loads ==
    /\ \A t \in Tasks : pc[t] = "load" => est[at[t]] = "LOADING"
    /\ \A e \in Engines : est[e] = "LOADING" => \E t \in Tasks : pc[t] = "load" /\ at[t] = e
    /\ \A t, u \in Tasks : pc[t] = "load" /\ pc[u] = "load" /\ at[t] = at[u] => t = u

\* An engine that is paused, or not loaded yet, has no model in VRAM.
Empty == \A e \in Engines : est[e] \in {"PAUSED", "LOADING"} => loaded[e] = NONE

\* A pause waits for the lock of e.
PauseWaits(e) == \E j \in 1..Len(waiters[e]) : pc[waiters[e][j]] = "pausing"

\* In the queue of e a pause comes after each resume.
Covered(e) ==
    \A i \in 1..Len(waiters[e]) :
        pc[waiters[e][i]] = "lock" =>
            \E j \in 1..Len(waiters[e]) : i < j /\ pc[waiters[e][j]] = "pausing"

\* A pause is ahead of e, or e is unloaded or about to be.
Subsides(e) ==
    /\ est[e] = "RUNNING" => PauseWaits(e)
    /\ est[e] = "LOADING" => flagged[e] \/ PauseWaits(e)
    /\ Covered(e)

\* No resume goes on to another engine.
Aborted == pauseRequested \/ \A t \in Tasks : pc[t] = "idle"

\* While no switch has begun: after a yield the call dispatched last is a pause, and
\* once it has started every engine subsides.
Lone ==
    ~switched =>
        /\ pc[Switch] = "idle"
        /\ want = "yield" /\ dispatched # << >> => dispatched[Len(dispatched)] = "pause"
        /\ want = "yield" /\ dispatched = << >> =>
               Aborted /\ \A e \in Engines : Subsides(e)

\* Until the listener has called resume, no resume is dispatched.
NoResume ==
    applied = NONE => \A i \in 1..Len(dispatched) : dispatched[i] = "pause"

\* Only the switch is at work: the engines it has passed serve goal, and each engine
\* that runs has the model it is set to.
Serving ==
    /\ dispatched = << >>
    /\ \A t \in Coroutines : pc[t] = "idle"
    /\ \A e \in Engines : waiters[e] = << >> /\ ~flagged[e]
    /\ pc[Switch] \in {"idle", "switch", "drain", "unload", "set", "load"}
    /\ ~switching => pc[Switch] = "idle"
    /\ pc[Switch] # "idle" =>
           \A e \in Engines : e < at[Switch] => est[e] = "RUNNING" /\ emodel[e] = goal
    /\ pc[Switch] = "idle" =>
           \A e \in Engines : est[e] = "RUNNING" => emodel[e] = CurrentModel
    /\ \A e \in Engines : est[e] = "RUNNING" => loaded[e] = emodel[e]
    /\ pc[Switch] = "set" => est[at[Switch]] = "PAUSED"
    /\ pc[Switch] = "load" => emodel[at[Switch]] = goal

\* That is so while the listener has called nothing.
Untouched == applied = NONE /\ ~pauseRequested

Steady == Untouched => Serving

IInv == Domains /\ Located /\ Locks /\ Loads /\ Empty /\ Lone /\ NoResume /\ Steady

-----------------------------------------------------------------------------
(* Types.                                                                  *)

\* What the operators on a sequence give, element by element.
LEMMA SeqFacts ==
    ASSUME NEW S, NEW s \in Seq(S)
    PROVE  /\ Len(s) \in Nat
           /\ \A i \in 1..Len(s) : s[i] \in S
           /\ \A x \in S : /\ Append(s, x) \in Seq(S) /\ Append(s, x) # << >>
                           /\ Len(Append(s, x)) = Len(s) + 1
                           /\ Append(s, x)[Len(s) + 1] = x
                           /\ \A i \in 1..Len(s) : Append(s, x)[i] = s[i]
           /\ s # << >> => /\ Len(s) > 0
                           /\ Head(s) = s[1]
                           /\ Tail(s) \in Seq(S)
                           /\ Len(Tail(s)) = Len(s) - 1
                           /\ \A i \in 1..(Len(s) - 1) : Tail(s)[i] = s[i + 1]
<1>1. Len(s) \in Nat /\ \A i \in 1..Len(s) : s[i] \in S
  BY LenProperties, ElementOfSeq
<1>2. \A x \in S : /\ Append(s, x) \in Seq(S) /\ Append(s, x) # << >>
                   /\ Len(Append(s, x)) = Len(s) + 1
                   /\ Append(s, x)[Len(s) + 1] = x
                   /\ \A i \in 1..Len(s) : Append(s, x)[i] = s[i]
  BY <1>1, AppendProperties
<1>3. ASSUME s # << >>
      PROVE  /\ Len(s) > 0 /\ Head(s) = s[1]
             /\ Tail(s) \in Seq(S)
             /\ Len(Tail(s)) = Len(s) - 1
             /\ \A i \in 1..(Len(s) - 1) : Tail(s)[i] = s[i + 1]
  BY <1>1, <1>3, HeadTailProperties, EmptySeq
<1> QED
  BY <1>1, <1>2, <1>3
EngineStates == {"RUNNING", "UNLOADING", "PAUSED", "LOADING"}

\* What a coroutine does to itself when it awaits or goes on.
LEMMA TaskTypes ==
    ASSUME Domains, NEW t \in Tasks, NEW l \in Labels
    PROVE  /\ Await(t, l) => pc' \in [Tasks -> Labels] /\ running' \in Tasks \cup {NONE}
           /\ GoOn(t, l) /\ at[t] \in Engines =>
                  /\ pc' \in [Tasks -> Labels] /\ running' \in Tasks \cup {NONE}
                  /\ at' \in [Tasks -> 1..(N + 1)]
           /\ NextEngine(t) /\ at[t] \in Engines =>
                  /\ pc' \in [Tasks -> Labels] /\ running' \in Tasks \cup {NONE}
                  /\ at' \in [Tasks -> 1..(N + 1)]
                  /\ accepting' \in [Engines -> BOOLEAN]
<1>1. at[t] \in Engines => at[t] + 1 \in 1..(N + 1)
  BY PoolAssumption DEF Engines
<1>2. Await(t, l) => pc' \in [Tasks -> Labels] /\ running' \in Tasks \cup {NONE}
  BY DEF Await, Domains
<1>3. ASSUME at[t] \in Engines, NEW m \in Labels, GoOn(t, m)
      PROVE  /\ pc' \in [Tasks -> Labels] /\ running' \in Tasks \cup {NONE}
             /\ at' \in [Tasks -> 1..(N + 1)]
  BY <1>1, <1>3 DEF GoOn, Domains
<1>4. ASSUME NextEngine(t) PROVE accepting' \in [Engines -> BOOLEAN]
  <2>1. CASE t = Switch
    BY <1>4, <2>1 DEF Domains, NextEngine
  <2>2. CASE t # Switch
    BY <1>4, <2>2 DEF Domains, NextEngine
  <2> QED
    BY <2>1, <2>2
<1>5. "switch" \in Labels /\ "resume" \in Labels
  BY DEF Labels
<1>6. ASSUME NextEngine(t), at[t] \in Engines
      PROVE  /\ pc' \in [Tasks -> Labels] /\ running' \in Tasks \cup {NONE}
             /\ at' \in [Tasks -> 1..(N + 1)]
  BY <1>3, <1>5, <1>6 DEF NextEngine
<1> QED
  BY <1>2, <1>3, <1>4, <1>6

\* The queue of e with t in it, and without its head.
LEMMA QueueTypes ==
    ASSUME Domains, NEW t \in Tasks, NEW e \in Engines
    PROVE  /\ Queue(t, e) => waiters' \in [Engines -> Seq(Tasks)]
           /\ waiters[e] # << >> => [waiters EXCEPT ![e] = Tail(@)] \in [Engines -> Seq(Tasks)]
<1>1. waiters[e] \in Seq(Tasks)
  BY DEF Domains
<1>2. Append(waiters[e], t) \in Seq(Tasks)
  BY <1>1, SeqFacts
<1>3. Queue(t, e) => waiters' \in [Engines -> Seq(Tasks)]
  BY <1>2 DEF Queue, Domains
<1>4. ASSUME waiters[e] # << >>
      PROVE  [waiters EXCEPT ![e] = Tail(@)] \in [Engines -> Seq(Tasks)]
  BY <1>1, <1>4, SeqFacts DEF Domains
<1> QED
  BY <1>3, <1>4

\* An engine that is paused, unloaded or loaded stays in its domain.
LEMMA EngineTypes ==
    ASSUME Domains, NEW t \in Tasks, NEW e \in Engines
    PROVE  /\ Unload(e) => /\ est' \in [Engines -> EngineStates]
                           /\ loaded' \in [Engines -> Models \cup {NONE}]
                           /\ holder' \in [Engines -> Tasks \cup {NONE}]
           /\ PauseEngine(t, e) => /\ est' \in [Engines -> EngineStates]
                                   /\ flagged' \in [Engines -> BOOLEAN]
                                   /\ holder' \in [Engines -> Tasks \cup {NONE}]
           /\ SwitchPauseEngine(e) => /\ est' \in [Engines -> EngineStates]
                                      /\ flagged' \in [Engines -> BOOLEAN]
                                      /\ holder' \in [Engines -> Tasks \cup {NONE}]
                                      /\ pc' \in [Tasks -> Labels]
                                      /\ running' \in Tasks \cup {NONE}
           /\ ResumeEngine(t) /\ at[t] = e => /\ est' \in [Engines -> EngineStates]
                                              /\ pc' \in [Tasks -> Labels]
                                              /\ at' \in [Tasks -> 1..(N + 1)]
                                              /\ running' \in Tasks \cup {NONE}
                                              /\ accepting' \in [Engines -> BOOLEAN]
<1>1. Unload(e) => /\ est' \in [Engines -> EngineStates]
                   /\ loaded' \in [Engines -> Models \cup {NONE}]
                   /\ holder' \in [Engines -> Tasks \cup {NONE}]
  BY DEF Unload, Domains, EngineStates
<1>2. ASSUME NEW u \in Tasks, PauseEngine(u, e)
      PROVE  /\ est' \in [Engines -> EngineStates]
             /\ flagged' \in [Engines -> BOOLEAN]
             /\ holder' \in [Engines -> Tasks \cup {NONE}]
  BY <1>2 DEF PauseEngine, PauseFlags, Domains, EngineStates
<1>3. Switch \in Tasks
  BY DEF Tasks
<1>4. ASSUME SwitchPauseEngine(e)
      PROVE  pc' \in [Tasks -> Labels] /\ running' \in Tasks \cup {NONE}
  BY <1>3, <1>4 DEF SwitchPauseEngine, Domains, Labels
<1>5. ASSUME ResumeEngine(t), at[t] = e
      PROVE  /\ est' \in [Engines -> EngineStates]
             /\ pc' \in [Tasks -> Labels]
             /\ at' \in [Tasks -> 1..(N + 1)]
             /\ running' \in Tasks \cup {NONE}
             /\ accepting' \in [Engines -> BOOLEAN]
  <2>1. CASE Resumable(at[t])
    BY <1>5, <2>1 DEF ResumeEngine, Await, Domains, Labels, EngineStates
  <2>2. CASE ~Resumable(at[t])
    <3>1. NextEngine(t) /\ UNCHANGED est
      BY <1>5, <2>2 DEF ResumeEngine
    <3> QED
      BY <1>5, <3>1, TaskTypes DEF Domains, EngineStates, Labels
  <2> QED
    BY <2>1, <2>2
<1> QED
  BY <1>1, <1>2, <1>3, <1>4, <1>5 DEF SwitchPauseEngine

\* No step leaves the domains of the state.
LEMMA DomainsNext == IInv /\ [Next]_vars => Domains'
<1> SUFFICES ASSUME IInv, [Next]_vars PROVE Domains'
  OBVIOUS
<1>a. /\ Domains /\ NONE \notin Tasks
      /\ 1 \in 1..(N + 1)
      /\ \A i \in 1..(N + 1) : ~(i > N) => i \in Engines
  BY PoolAssumption DEF IInv, Engines, Tasks
<1>b. Coroutines \subseteq Tasks /\ Switch \in Tasks
  BY DEF Tasks
<1>c. /\ \A e \in Engines, t \in Tasks : Append(waiters[e], t) \in Seq(Tasks)
      /\ \A c \in {"pause", "resume"} : Append(dispatched, c) \in Seq({"pause", "resume"})
      /\ dispatched # << >> => Tail(dispatched) \in Seq({"pause", "resume"})
  BY <1>a, SeqFacts DEF Domains
<1>d. {"idle", "pausing", "resume", "lock", "load", "drop", "switch", "drain", "pause", "unload",
       "set"} = Labels
  BY DEF Labels
<1>e. \A t \in Tasks : pc[t] \in {"lock", "load", "drop", "drain", "pause", "unload", "set"} =>
                         at[t] \in Engines
  BY <1>a DEF IInv, Located, Working
<1>1. CASE UNCHANGED vars
  BY <1>1, <1>a DEF Domains, vars, engineVars, locks, poolVars, listener, tasks, history
<1>2. CASE DispatchResume
  BY <1>2, <1>a DEF Domains, DispatchResume, engineVars, locks, poolVars
<1>3. CASE DispatchPause
  BY <1>3, <1>a DEF Domains, DispatchPause, engineVars, locks
<1>4. CASE PauseTimesOut
  BY <1>4, <1>a DEF Domains, PauseTimesOut, engineVars, locks, poolVars, tasks, history
<1>5. ASSUME NEW t \in Coroutines, PauseStarts(t) PROVE Domains'
  BY <1>5, <1>a, <1>b, <1>c, <1>d, TaskTypes DEF Domains, PauseStarts, PauseFlags, history
<1>6. ASSUME NEW t \in Coroutines, NEW e \in Engines, PauseLocks(t, e) PROVE Domains'
  BY <1>6, <1>a, EngineTypes
     DEF Domains, EngineStates, PauseLocks, Granted, poolVars, listener, tasks, history
<1>7. ASSUME NEW t \in Coroutines, NEW e \in Engines, PauseUnloads(t, e) PROVE Domains'
  BY <1>7, <1>a, <1>b, EngineTypes
     DEF Domains, EngineStates, PauseUnloads, poolVars, listener, tasks, history
<1>8. ASSUME NEW t \in Coroutines, PauseReturns(t) PROVE Domains'
  BY <1>8, <1>a, <1>b, <1>d, TaskTypes
     DEF Domains, PauseReturns, engineVars, locks, poolVars, listener, history
<1>9. ASSUME NEW t \in Coroutines, ResumeStarts(t) PROVE Domains'
  BY <1>9, <1>a, <1>b, <1>c, <1>d DEF Domains, ResumeStarts, engineVars, locks, listener, history
<1>10. ASSUME NEW t \in Coroutines, ResumeNext(t) PROVE Domains'
  BY <1>10, <1>a, <1>b, <1>d, TaskTypes, QueueTypes, EngineTypes
     DEF Domains, EngineStates, ResumeNext, poolVars, listener, history
<1>11. ASSUME NEW t \in Tasks, ResumeLocks(t) PROVE Domains'
  BY <1>11, <1>a, <1>e, EngineTypes
     DEF Domains, EngineStates, ResumeLocks, Granted, poolVars, listener, history
<1>12. ASSUME NEW t \in Tasks, ResumeLoaded(t) PROVE Domains'
  <2>1. CASE flagged[at[t]]
    <3>1. /\ est' = [est EXCEPT ![at[t]] = "UNLOADING"]
          /\ holder' = [holder EXCEPT ![at[t]] = t]
          /\ loaded' = [loaded EXCEPT ![at[t]] = emodel[at[t]]]
          /\ flagged' = [flagged EXCEPT ![at[t]] = FALSE]
          /\ Await(t, "drop")
          /\ UNCHANGED <<at, accepting, emodel, waiters, poolVars, listener, dispatched, goal, history>>
      BY <1>12, <2>1 DEF ResumeLoaded
    <3>2. pc' \in [Tasks -> Labels] /\ running' \in Tasks \cup {NONE}
      BY <3>1, <1>a, <1>12, TaskTypes DEF Labels
    <3>3. at[t] \in Engines
      BY <1>12, <1>e DEF ResumeLoaded, Awakes
    <3> QED
      BY <3>1, <3>2, <3>3, <1>a DEF Domains, poolVars, listener, history
  <2>2. CASE ~flagged[at[t]]
    BY <1>12, <2>2, <1>a, <1>e, TaskTypes
       DEF Domains, ResumeLoaded, Awakes, poolVars, listener, history
  <2> QED
    BY <2>1, <2>2
<1>13. ASSUME NEW t \in Tasks, ResumeDropped(t) PROVE Domains'
  BY <1>13, <1>a, <1>e, TaskTypes, EngineTypes
     DEF Domains, EngineStates, ResumeDropped, Awakes, poolVars, listener, history
<1>14. ASSUME NEW m \in Models, Request(m) PROVE Domains'
  BY <1>14, <1>a DEF Domains, Request, engineVars, locks, poolVars, listener, tasks
<1>15. ASSUME NEW m \in Models, SwitchStarts(m) PROVE Domains'
  BY <1>15, <1>a, <1>b, <1>d DEF Domains, SwitchStarts, SwitchShown, engineVars, locks, listener
<1>16. CASE SwitchNext
  BY <1>16, <1>a, <1>b, <1>d, TaskTypes DEF Domains, SwitchNext, locks, listener
<1>17. CASE SwitchPauses
  BY <1>17, <1>a, <1>b, <1>d, <1>e, TaskTypes, QueueTypes, EngineTypes
     DEF Domains, EngineStates, SwitchPauses, Awakes, poolVars, listener, history
<1>18. CASE SwitchLocks
  BY <1>18, <1>a, <1>b, <1>e, EngineTypes
     DEF Domains, EngineStates, SwitchLocks, Granted, poolVars, listener, history
<1>19. CASE SwitchUnloads
  BY <1>19, <1>a, <1>b, <1>d, <1>e, EngineTypes
     DEF Domains, EngineStates, SwitchUnloads, Awakes, poolVars, listener, history
<1>20. CASE SwitchSets
  BY <1>20, <1>a, <1>b, <1>d, <1>e, TaskTypes, QueueTypes, EngineTypes
     DEF Domains, EngineStates, SwitchSets, poolVars, listener, history
<1> QED
  BY <1>1, <1>2, <1>3, <1>4, <1>5, <1>6, <1>7, <1>8, <1>9, <1>10, <1>11, <1>12, <1>13, <1>14,
     <1>15, <1>16, <1>17, <1>18, <1>19, <1>20
     DEF Next, ListenerStep, TaskStep, SwitchStep

-----------------------------------------------------------------------------
(* The locks, the loads and what is in VRAM.                               *)

\* Only t moves, to label l.
Moves(t, l) ==
    /\ pc'[t] = l
    /\ \A u \in Tasks \ {t} : pc'[u] = pc[u] /\ at'[u] = at[u]

\* Of the engines only e changes its state.
Only(e) ==
    \A d \in Engines \ {e} : est'[d] = est[d] /\ holder'[d] = holder[d] /\ loaded'[d] = loaded[d]

\* What the steps of a coroutine do, label by label and engine by engine.
LEMMA TaskMoves ==
    ASSUME Domains, NEW t \in Tasks
    PROVE  /\ \A l \in Labels : Await(t, l) /\ UNCHANGED at => Moves(t, l) /\ at'[t] = at[t]
           /\ \A l \in Labels : GoOn(t, l) => Moves(t, l)
           /\ NextEngine(t) => Moves(t, IF t = Switch THEN "switch" ELSE "resume")
<1>1. \A l \in Labels : Await(t, l) /\ UNCHANGED at => Moves(t, l) /\ at'[t] = at[t]
  BY DEF Await, Moves, Domains
<1>2. \A l \in Labels : GoOn(t, l) => Moves(t, l)
  BY DEF GoOn, Moves, Domains
<1>3. "switch" \in Labels /\ "resume" \in Labels
  BY DEF Labels
<1> QED
  BY <1>1, <1>2, <1>3 DEF NextEngine

\* What a step of a pause does to the engine e it is at; the others are left alone.
LEMMA EngineMoves ==
    ASSUME Domains, NEW t \in Tasks, NEW e \in Engines
    PROVE  /\ Unload(e) => Only(e) /\ est'[e] = "PAUSED" /\ loaded'[e] = NONE /\ holder'[e] = NONE
           /\ PauseEngine(t, e) /\ UNCHANGED loaded =>
                /\ Only(e) /\ loaded'[e] = loaded[e]
                /\ est[e] = "RUNNING" => est'[e] = "UNLOADING" /\ holder'[e] = t
                /\ est[e] # "RUNNING" => est'[e] = est[e] /\ holder'[e] = holder[e]
           /\ SwitchPauseEngine(e) /\ UNCHANGED <<loaded, at>> =>
                /\ Only(e) /\ loaded'[e] = loaded[e] /\ at'[Switch] = at[Switch]
                /\ est[e] = "RUNNING" =>
                     est'[e] = "UNLOADING" /\ holder'[e] = Switch /\ Moves(Switch, "unload")
                /\ est[e] # "RUNNING" =>
                     est'[e] = est[e] /\ holder'[e] = holder[e] /\ Moves(Switch, "set")
           /\ ResumeEngine(t) /\ at[t] = e /\ UNCHANGED <<loaded, holder>> =>
                /\ Only(e) /\ loaded'[e] = loaded[e] /\ holder'[e] = holder[e]
                /\ est[e] = "PAUSED" =>
                     est'[e] = "LOADING" /\ Moves(t, "load") /\ at'[t] = at[t]
                /\ est[e] # "PAUSED" =>
                     est'[e] = est[e] /\ Moves(t, IF t = Switch THEN "switch" ELSE "resume")
<1>1. Unload(e) => Only(e) /\ est'[e] = "PAUSED" /\ loaded'[e] = NONE /\ holder'[e] = NONE
  BY DEF Unload, Only, Domains
<1>2. ASSUME NEW u \in Tasks, PauseEngine(u, e), UNCHANGED loaded
      PROVE  /\ Only(e) /\ loaded'[e] = loaded[e]
             /\ est[e] = "RUNNING" => est'[e] = "UNLOADING" /\ holder'[e] = u
             /\ est[e] # "RUNNING" => est'[e] = est[e] /\ holder'[e] = holder[e]
  BY <1>2 DEF PauseEngine, Only, Domains
<1>3. Switch \in Tasks
  BY DEF Tasks
<1>4. ASSUME SwitchPauseEngine(e), UNCHANGED at
      PROVE  /\ at'[Switch] = at[Switch]
             /\ est[e] = "RUNNING" => Moves(Switch, "unload")
             /\ est[e] # "RUNNING" => Moves(Switch, "set")
  BY <1>3, <1>4 DEF SwitchPauseEngine, Moves, Domains
<1>5. ASSUME ResumeEngine(t), at[t] = e, UNCHANGED <<loaded, holder>>
      PROVE  /\ Only(e) /\ loaded'[e] = loaded[e] /\ holder'[e] = holder[e]
             /\ est[e] = "PAUSED" =>
                  est'[e] = "LOADING" /\ Moves(t, "load") /\ at'[t] = at[t]
             /\ est[e] # "PAUSED" =>
                  est'[e] = est[e] /\ Moves(t, IF t = Switch THEN "switch" ELSE "resume")
  <2>1. CASE est[e] = "PAUSED"
    <3>1. est' = [est EXCEPT ![e] = "LOADING"] /\ Await(t, "load") /\ UNCHANGED at
      BY <1>5, <2>1 DEF ResumeEngine, Resumable
    <3>2. est'[e] = "LOADING" /\ Only(e)
      BY <1>5, <3>1 DEF Only, Domains
    <3> QED
      BY <1>5, <2>1, <3>1, <3>2, TaskMoves DEF Labels
  <2>2. CASE est[e] # "PAUSED"
    <3>1. NextEngine(t) /\ UNCHANGED est
      BY <1>5, <2>2 DEF ResumeEngine, Resumable
    <3> QED
      BY <1>5, <2>2, <3>1, TaskMoves DEF Only
  <2> QED
    BY <2>1, <2>2
<1> QED
  BY <1>1, <1>2, <1>3, <1>4, <1>5 DEF SwitchPauseEngine

\* A load ends: the engine runs, or is unloaded at once for its pending pause.
LEMMA LoadedMoves ==
    ASSUME Domains, Located, NEW t \in Tasks, ResumeLoaded(t)
    PROVE  /\ at[t] \in Engines /\ pc[t] = "load" /\ Only(at[t])
           /\ loaded'[at[t]] = emodel[at[t]]
           /\ flagged[at[t]] => /\ est'[at[t]] = "UNLOADING" /\ holder'[at[t]] = t
                                /\ Moves(t, "drop") /\ at'[t] = at[t]
           /\ ~flagged[at[t]] => /\ est'[at[t]] = "RUNNING" /\ holder' = holder
                                 /\ Moves(t, IF t = Switch THEN "switch" ELSE "resume")
<1>1. at[t] \in Engines /\ pc[t] = "load" /\ loaded' = [loaded EXCEPT ![at[t]] = emodel[at[t]]]
  BY DEF ResumeLoaded, Awakes, Located, Working
<1>2. CASE flagged[at[t]]
  <2>1. /\ est' = [est EXCEPT ![at[t]] = "UNLOADING"] /\ holder' = [holder EXCEPT ![at[t]] = t]
        /\ Await(t, "drop") /\ UNCHANGED at
    BY <1>2 DEF ResumeLoaded
  <2>2. Moves(t, "drop") /\ at'[t] = at[t]
    BY <2>1, TaskMoves DEF Labels
  <2>3. Only(at[t]) /\ est'[at[t]] = "UNLOADING" /\ holder'[at[t]] = t
    BY <1>1, <2>1 DEF Only, Domains
  <2> QED
    BY <1>1, <1>2, <2>2, <2>3 DEF Domains
<1>3. CASE ~flagged[at[t]]
  <2>1. /\ est' = [est EXCEPT ![at[t]] = "RUNNING"] /\ holder' = holder /\ NextEngine(t)
    BY <1>3 DEF ResumeLoaded
  <2>2. Only(at[t]) /\ est'[at[t]] = "RUNNING"
    BY <1>1, <2>1 DEF Only, Domains
  <2> QED
    BY <1>1, <1>3, <2>1, <2>2, TaskMoves DEF Domains
<1> QED
  BY <1>2, <1>3

\* The pause that starts: every engine whose lock is free is unloaded or flagged, and
\* in the queue of every other the pause is the last.
LEMMA PauseMoves ==
    ASSUME Domains, NEW t \in Coroutines, PauseStarts(t)
    PROVE  /\ pc[t] = "idle" /\ Moves(t, "pausing") /\ loaded' = loaded
           /\ \A e \in Engines :
                /\ Busy(e) =>
                     /\ est'[e] = est[e] /\ holder'[e] = holder[e] /\ flagged'[e] = flagged[e]
                     /\ waiters'[e] = Append(waiters[e], t)
                /\ ~Busy(e) =>
                     /\ est[e] = "RUNNING" => est'[e] = "UNLOADING" /\ holder'[e] = t
                     /\ est[e] # "RUNNING" => est'[e] = est[e] /\ holder'[e] = holder[e]
                     /\ est[e] = "LOADING" => flagged'[e]
                     /\ waiters'[e] = waiters[e]
<1>1. t \in Tasks
  BY DEF Tasks
<1>2. pc[t] = "idle" /\ Moves(t, "pausing") /\ loaded' = loaded
  BY <1>1, TaskMoves DEF PauseStarts, Awakes, Labels
<1>3. ASSUME NEW e \in Engines
      PROVE  /\ Busy(e) =>
                  est'[e] = est[e] /\ holder'[e] = holder[e] /\ waiters'[e] = Append(waiters[e], t)
             /\ ~Busy(e) =>
                  /\ est[e] = "RUNNING" => est'[e] = "UNLOADING" /\ holder'[e] = t
                  /\ est[e] # "RUNNING" => est'[e] = est[e] /\ holder'[e] = holder[e]
                  /\ waiters'[e] = waiters[e]
  BY DEF PauseStarts
<1>4. ASSUME NEW e \in Engines
      PROVE  /\ Busy(e) => flagged'[e] = flagged[e]
             /\ ~Busy(e) /\ est[e] = "LOADING" => flagged'[e]
  <2>1. flagged'[e] = IF Busy(e) THEN flagged[e] ELSE PauseFlags(e)
    BY DEF PauseStarts
  <2> QED
    BY <2>1 DEF PauseFlags
<1> QED
  BY <1>2, <1>3, <1>4

\* The switch has unloaded the engine it is at.
LEMMA SwitchUnloadMoves ==
    ASSUME Domains, SwitchUnloads
    PROVE  pc[Switch] = "unload" /\ Moves(Switch, "set") /\ at' = at /\ Unload(at[Switch])
<1>1. Switch \in Tasks
  BY DEF Tasks
<1> QED
  BY <1>1 DEF SwitchUnloads, Awakes, Moves, Domains

\* A coroutine that works on an engine is at one.
LEMMA LocatedNext == IInv /\ [Next]_vars => Located'
<1> SUFFICES ASSUME IInv, [Next]_vars PROVE Located'
  OBVIOUS
<1>a. /\ Domains /\ \A i \in 1..(N + 1) : ~(i > N) => i \in Engines
  BY PoolAssumption DEF IInv, Engines
<1>b. Coroutines \subseteq Tasks /\ Switch \in Tasks
  BY DEF Tasks
<1>d. {"idle", "pausing", "resume", "lock", "load", "drop", "switch", "drain", "pause", "unload",
       "set"} = Labels
  BY DEF Labels
<1>e. /\ \A t \in Tasks : pc[t] \in {"lock", "load", "drop", "drain", "pause", "unload", "set"} =>
                         at[t] \in Engines
      /\ \A t \in Tasks : at[t] \in 1..(N + 1) 
  BY <1>a DEF IInv, Located, Working, Domains
<1>1. CASE UNCHANGED vars
  BY <1>1, <1>e DEF Located, Working, vars, tasks
<1>2. CASE DispatchResume
  BY <1>2, <1>e DEF Located, Working, DispatchResume
<1>3. CASE DispatchPause
  BY <1>3, <1>e DEF Located, Working, DispatchPause
<1>4. CASE PauseTimesOut
  BY <1>4, <1>e DEF Located, Working, PauseTimesOut, tasks
<1>5. ASSUME NEW t \in Coroutines, PauseStarts(t) PROVE Located'
  BY <1>5, <1>a, <1>b, <1>d, <1>e, TaskMoves DEF Located, Working, Moves, PauseStarts
<1>6. ASSUME NEW t \in Coroutines, NEW e \in Engines, PauseLocks(t, e) PROVE Located'
  BY <1>6, <1>e DEF Located, Working, PauseLocks, tasks
<1>7. ASSUME NEW t \in Coroutines, NEW e \in Engines, PauseUnloads(t, e) PROVE Located'
  BY <1>7, <1>e DEF Located, Working, PauseUnloads, tasks
<1>8. ASSUME NEW t \in Coroutines, PauseReturns(t) PROVE Located'
  BY <1>8, <1>a, <1>b, <1>d, <1>e, TaskMoves DEF Located, Working, Moves, PauseReturns
<1>9. ASSUME NEW t \in Coroutines, ResumeStarts(t) PROVE Located'
  BY <1>9, <1>e DEF Located, Working, ResumeStarts, Awakes
<1>10. ASSUME NEW t \in Coroutines, ResumeNext(t) PROVE Located'
  BY <1>10, <1>a, <1>b, <1>d, <1>e, TaskMoves, EngineMoves DEF Located, Working, Moves, ResumeNext
<1>11. ASSUME NEW t \in Tasks, ResumeLocks(t) PROVE Located'
  BY <1>11, <1>a, <1>e, EngineMoves DEF Located, Working, Moves, ResumeLocks
<1>12. ASSUME NEW t \in Tasks, ResumeLoaded(t) PROVE Located'
  BY <1>12, <1>a, <1>d, <1>e, TaskMoves DEF Located, Working, Moves, ResumeLoaded, Awakes
<1>13. ASSUME NEW t \in Tasks, ResumeDropped(t) PROVE Located'
  BY <1>13, <1>a, <1>e, TaskMoves DEF Located, Working, Moves, ResumeDropped
<1>14. ASSUME NEW m \in Models, Request(m) PROVE Located'
  BY <1>14, <1>e DEF Located, Working, Request, tasks
<1>15. ASSUME NEW m \in Models, SwitchStarts(m) PROVE Located'
  BY <1>15, <1>e DEF Located, Working, SwitchStarts, Awakes
<1>16. CASE SwitchNext
  BY <1>16, <1>a, <1>b, <1>d, <1>e, TaskMoves DEF Located, Working, Moves, SwitchNext
<1>17. CASE SwitchPauses
  BY <1>17, <1>a, <1>b, <1>d, <1>e, TaskMoves, EngineMoves
     DEF Located, Working, Moves, SwitchPauses, Awakes
<1>18. CASE SwitchLocks
  BY <1>18, <1>a, <1>b, <1>e, EngineMoves DEF Located, Working, Moves, SwitchLocks
<1>19. CASE SwitchUnloads
  BY <1>19, <1>e DEF Located, Working, SwitchUnloads, Awakes
<1>20. CASE SwitchSets
  BY <1>20, <1>a, <1>b, <1>d, <1>e, TaskMoves, EngineMoves DEF Located, Working, Moves, SwitchSets
<1> QED
  BY <1>1, <1>2, <1>3, <1>4, <1>5, <1>6, <1>7, <1>8, <1>9, <1>10, <1>11, <1>12, <1>13, <1>14,
     <1>15, <1>16, <1>17, <1>18, <1>19, <1>20
     DEF Next, ListenerStep, TaskStep, SwitchStep

\* Every lock keeps the coroutine that it belongs to.
LEMMA LocksNext == IInv /\ [Next]_vars => Locks'
<1> SUFFICES ASSUME IInv, [Next]_vars PROVE Locks'
  OBVIOUS
<1>a. /\ Domains /\ Locks /\ Loads /\ Empty /\ Located
      /\ \A i \in 1..(N + 1) : ~(i > N) => i \in Engines
  BY PoolAssumption DEF IInv, Engines
<1>b. Coroutines \subseteq Tasks /\ Switch \in Tasks \ Coroutines /\ NONE \notin Tasks
  BY PoolAssumption DEF Tasks
<1>d. {"idle", "pausing", "resume", "lock", "load", "drop", "switch", "drain", "pause", "unload",
       "set"} = Labels
  BY DEF Labels
<1>e. /\ \A t \in Tasks : pc[t] \in {"lock", "load", "drop", "drain", "pause", "unload", "set"} =>
                         at[t] \in Engines
      /\ \A t \in Tasks : at[t] \in 1..(N + 1)
      /\ \A e \in Engines : holder[e] \in Tasks \cup {NONE}
  BY <1>a DEF Located, Working, Domains
<1>1. CASE UNCHANGED vars
  BY <1>1, <1>a DEF Locks, vars, engineVars, locks, tasks
<1>2. CASE DispatchResume
  BY <1>2, <1>a DEF Locks, DispatchResume, engineVars, locks
<1>3. CASE DispatchPause
  BY <1>3, <1>a DEF Locks, DispatchPause, engineVars, locks
<1>4. CASE PauseTimesOut
  BY <1>4, <1>a DEF Locks, PauseTimesOut, engineVars, locks, tasks
<1>5. ASSUME NEW t \in Coroutines, PauseStarts(t) PROVE Locks'
  <2>1. /\ pc[t] = "idle" /\ Moves(t, "pausing") /\ t \in Tasks
        /\ \A e \in Engines :
             \/ est'[e] = est[e] /\ holder'[e] = holder[e]
             \/ est[e] = "RUNNING" /\ est'[e] = "UNLOADING" /\ holder'[e] = t
    BY <1>5, <1>a, <1>b, PauseMoves
  <2>4. \A e \in Engines : holder'[e] # NONE <=> est'[e] = "UNLOADING"
    BY <2>1, <1>a, <1>b DEF Locks, Moves, Only, Located, Working
  <2>5. \A e \in Engines : \A u \in Tasks :
             holder'[e] = u => pc'[u] = "pausing" \/ (pc'[u] \in {"drop", "unload"} /\ at'[u] = e)
    BY <2>1, <1>a, <1>b DEF Locks, Moves, Only, Located, Working
  <2>6. \A u \in Tasks : pc'[u] \in {"drop", "unload"} => holder'[at'[u]] = u
    BY <2>1, <1>a, <1>b DEF Locks, Moves, Only, Located, Working
  <2> QED
    BY <2>4, <2>5, <2>6 DEF Locks
<1>6. ASSUME NEW t \in Coroutines, NEW e \in Engines, PauseLocks(t, e) PROVE Locks'
  BY <1>6, <1>a, <1>b, <1>e, EngineMoves DEF Locks, Only, PauseLocks, tasks
<1>7. ASSUME NEW t \in Coroutines, NEW e \in Engines, PauseUnloads(t, e) PROVE Locks'
  BY <1>7, <1>a, <1>b, <1>e, EngineMoves DEF Locks, Only, PauseUnloads, Awakes, tasks
<1>8. ASSUME NEW t \in Coroutines, PauseReturns(t) PROVE Locks'
  BY <1>8, <1>a, <1>b, <1>d, TaskMoves DEF Locks, Moves, PauseReturns, engineVars, locks
<1>9. ASSUME NEW t \in Coroutines, ResumeStarts(t) PROVE Locks'
  BY <1>9, <1>a DEF Locks, ResumeStarts, Awakes, engineVars, locks
<1>10. ASSUME NEW t \in Coroutines, ResumeNext(t) PROVE Locks'
  BY <1>10, <1>a, <1>b, <1>d, <1>e, TaskMoves, EngineMoves DEF Locks, Moves, Only, ResumeNext
<1>11. ASSUME NEW t \in Tasks, ResumeLocks(t) PROVE Locks'
  BY <1>11, <1>a, <1>e, EngineMoves DEF Locks, Moves, Only, ResumeLocks
<1>12. ASSUME NEW t \in Tasks, ResumeLoaded(t) PROVE Locks'
  <2>1. /\ at[t] \in Engines /\ pc[t] = "load" /\ Only(at[t]) /\ est[at[t]] = "LOADING"
        /\ flagged[at[t]] => /\ est'[at[t]] = "UNLOADING" /\ holder'[at[t]] = t
                             /\ Moves(t, "drop") /\ at'[t] = at[t]
        /\ ~flagged[at[t]] => /\ est'[at[t]] = "RUNNING" /\ holder' = holder
                              /\ Moves(t, IF t = Switch THEN "switch" ELSE "resume")
    BY <1>12, <1>a, LoadedMoves DEF Loads
  <2>2. holder[at[t]] = NONE
    BY <2>1, <1>a DEF Locks
  <2>3. CASE flagged[at[t]]
    <3>4. \A e \in Engines : holder'[e] # NONE <=> est'[e] = "UNLOADING"
      BY <2>1, <2>2, <2>3, <1>a, <1>b DEF Locks, Moves, Only, Located, Working
    <3>5. \A e \in Engines : \A u \in Tasks :
             holder'[e] = u => pc'[u] = "pausing" \/ (pc'[u] \in {"drop", "unload"} /\ at'[u] = e)
      BY <2>1, <2>2, <2>3, <1>a, <1>b DEF Locks, Moves, Only, Located, Working
    <3>6. \A u \in Tasks : pc'[u] \in {"drop", "unload"} => holder'[at'[u]] = u
      BY <2>1, <2>2, <2>3, <1>a, <1>b DEF Locks, Moves, Only, Located, Working
    <3> QED
      BY <3>4, <3>5, <3>6 DEF Locks
  <2>4. CASE ~flagged[at[t]]
    <3>4. \A e \in Engines : holder'[e] # NONE <=> est'[e] = "UNLOADING"
      BY <2>1, <2>2, <2>4, <1>a, <1>b DEF Locks, Moves, Only, Located, Working
    <3>5. \A e \in Engines : \A u \in Tasks :
             holder'[e] = u => pc'[u] = "pausing" \/ (pc'[u] \in {"drop", "unload"} /\ at'[u] = e)
      BY <2>1, <2>2, <2>4, <1>a, <1>b DEF Locks, Moves, Only, Located, Working
    <3>6. \A u \in Tasks : pc'[u] \in {"drop", "unload"} => holder'[at'[u]] = u
      BY <2>1, <2>2, <2>4, <1>a, <1>b DEF Locks, Moves, Only, Located, Working
    <3> QED
      BY <3>4, <3>5, <3>6 DEF Locks
  <2> QED
    BY <2>3, <2>4
<1>13. ASSUME NEW t \in Tasks, ResumeDropped(t) PROVE Locks'
  BY <1>13, <1>a, <1>b, <1>e, TaskMoves, EngineMoves DEF Locks, Moves, Only, ResumeDropped, Awakes
<1>14. ASSUME NEW m \in Models, Request(m) PROVE Locks'
  BY <1>14, <1>a DEF Locks, Request, engineVars, locks, tasks
<1>15. ASSUME NEW m \in Models, SwitchStarts(m) PROVE Locks'
  BY <1>15, <1>a DEF Locks, SwitchStarts, Awakes, engineVars, locks
<1>16. CASE SwitchNext
  BY <1>16, <1>a, <1>b, <1>d, TaskMoves DEF Locks, Moves, SwitchNext, locks
<1>17. CASE SwitchPauses
  BY <1>17, <1>a, <1>b, <1>d, <1>e, TaskMoves, EngineMoves
     DEF Locks, Moves, Only, SwitchPauses, Awakes
<1>18. CASE SwitchLocks
  BY <1>18, <1>a, <1>b, <1>e, EngineMoves DEF Locks, Moves, Only, SwitchLocks
<1>19. CASE SwitchUnloads
  BY <1>19, <1>a, <1>b, <1>e, SwitchUnloadMoves, EngineMoves DEF Locks, Moves, Only
<1>20. CASE SwitchSets
  BY <1>20, <1>a, <1>b, <1>d, <1>e, TaskMoves, EngineMoves DEF Locks, Moves, Only, SwitchSets
<1> QED
  BY <1>1, <1>2, <1>3, <1>4, <1>5, <1>6, <1>7, <1>8, <1>9, <1>10, <1>11, <1>12, <1>13, <1>14,
     <1>15, <1>16, <1>17, <1>18, <1>19, <1>20
     DEF Next, ListenerStep, TaskStep, SwitchStep

\* No second coroutine loads an engine, and none stops loading without a result.
LEMMA LoadsNext == IInv /\ [Next]_vars => Loads'
<1> SUFFICES ASSUME IInv, [Next]_vars PROVE Loads'
  OBVIOUS
<1>a. /\ Domains /\ Locks /\ Loads /\ Empty /\ Located
      /\ \A i \in 1..(N + 1) : ~(i > N) => i \in Engines
  BY PoolAssumption DEF IInv, Engines
<1>b. Coroutines \subseteq Tasks /\ Switch \in Tasks \ Coroutines /\ NONE \notin Tasks
  BY PoolAssumption DEF Tasks
<1>d. {"idle", "pausing", "resume", "lock", "load", "drop", "switch", "drain", "pause", "unload",
       "set"} = Labels
  BY DEF Labels
<1>e. /\ \A t \in Tasks : pc[t] \in {"lock", "load", "drop", "drain", "pause", "unload", "set"} =>
                         at[t] \in Engines
      /\ \A t \in Tasks : at[t] \in 1..(N + 1)
      /\ \A e \in Engines : holder[e] \in Tasks \cup {NONE}
  BY <1>a DEF Located, Working, Domains
<1>1. CASE UNCHANGED vars
  BY <1>1, <1>a DEF Loads, vars, engineVars, tasks
<1>2. CASE DispatchResume
  BY <1>2, <1>a DEF Loads, DispatchResume, engineVars
<1>3. CASE DispatchPause
  BY <1>3, <1>a DEF Loads, DispatchPause, engineVars
<1>4. CASE PauseTimesOut
  BY <1>4, <1>a DEF Loads, PauseTimesOut, engineVars, tasks
<1>5. ASSUME NEW t \in Coroutines, PauseStarts(t) PROVE Loads'
  <2>1. /\ pc[t] = "idle" /\ Moves(t, "pausing") /\ t \in Tasks
        /\ \A e \in Engines :
             \/ est'[e] = est[e] /\ holder'[e] = holder[e]
             \/ est[e] = "RUNNING" /\ est'[e] = "UNLOADING" /\ holder'[e] = t
    BY <1>5, <1>a, <1>b, PauseMoves
  <2>4. \A u \in Tasks : pc'[u] = "load" => est'[at'[u]] = "LOADING"
    BY <2>1, <1>a, <1>b DEF Loads, Moves, Only, Located, Working
  <2>5. \A e \in Engines : est'[e] = "LOADING" => \E u \in Tasks : pc'[u] = "load" /\ at'[u] = e
    BY <2>1, <1>a, <1>b DEF Loads, Moves, Only, Located, Working
  <2>6. \A u, v \in Tasks : pc'[u] = "load" /\ pc'[v] = "load" /\ at'[u] = at'[v] => u = v
    BY <2>1, <1>a, <1>b DEF Loads, Moves, Only, Located, Working
  <2> QED
    BY <2>4, <2>5, <2>6 DEF Loads
<1>6. ASSUME NEW t \in Coroutines, NEW e \in Engines, PauseLocks(t, e) PROVE Loads'
  BY <1>6, <1>a, <1>b, <1>e, EngineMoves DEF Loads, Only, PauseLocks, tasks
<1>7. ASSUME NEW t \in Coroutines, NEW e \in Engines, PauseUnloads(t, e) PROVE Loads'
  BY <1>7, <1>a, <1>b, <1>e, EngineMoves DEF Loads, Only, Locks, PauseUnloads, tasks
<1>8. ASSUME NEW t \in Coroutines, PauseReturns(t) PROVE Loads'
  BY <1>8, <1>a, <1>b, <1>d, TaskMoves DEF Loads, Moves, PauseReturns, Awakes, engineVars
<1>9. ASSUME NEW t \in Coroutines, ResumeStarts(t) PROVE Loads'
  BY <1>9, <1>a DEF Loads, ResumeStarts, Awakes, engineVars
<1>10. ASSUME NEW t \in Coroutines, ResumeNext(t) PROVE Loads'
  BY <1>10, <1>a, <1>b, <1>d, <1>e, TaskMoves, EngineMoves DEF Loads, Moves, Only, ResumeNext
<1>11. ASSUME NEW t \in Tasks, ResumeLocks(t) PROVE Loads'
  BY <1>11, <1>a, <1>e, EngineMoves DEF Loads, Moves, Only, ResumeLocks
<1>12. ASSUME NEW t \in Tasks, ResumeLoaded(t) PROVE Loads'
  <2>1. /\ at[t] \in Engines /\ pc[t] = "load" /\ Only(at[t]) /\ est[at[t]] = "LOADING"
        /\ flagged[at[t]] => /\ est'[at[t]] = "UNLOADING" /\ holder'[at[t]] = t
                             /\ Moves(t, "drop") /\ at'[t] = at[t]
        /\ ~flagged[at[t]] => /\ est'[at[t]] = "RUNNING" /\ holder' = holder
                              /\ Moves(t, IF t = Switch THEN "switch" ELSE "resume")
    BY <1>12, <1>a, LoadedMoves DEF Loads
  <2>3. CASE flagged[at[t]]
    <3>4. \A u \in Tasks : pc'[u] = "load" => est'[at'[u]] = "LOADING"
      BY <2>1, <2>3, <1>a, <1>b DEF Loads, Moves, Only, Located, Working
    <3>5. \A e \in Engines : est'[e] = "LOADING" => \E u \in Tasks : pc'[u] = "load" /\ at'[u] = e
      BY <2>1, <2>3, <1>a, <1>b DEF Loads, Moves, Only, Located, Working
    <3>6. \A u, v \in Tasks : pc'[u] = "load" /\ pc'[v] = "load" /\ at'[u] = at'[v] => u = v
      BY <2>1, <2>3, <1>a, <1>b DEF Loads, Moves, Only, Located, Working
    <3> QED
      BY <3>4, <3>5, <3>6 DEF Loads
  <2>4. CASE ~flagged[at[t]]
    <3>4. \A u \in Tasks : pc'[u] = "load" => est'[at'[u]] = "LOADING"
      BY <2>1, <2>4, <1>a, <1>b DEF Loads, Moves, Only, Located, Working
    <3>5. \A e \in Engines : est'[e] = "LOADING" => \E u \in Tasks : pc'[u] = "load" /\ at'[u] = e
      BY <2>1, <2>4, <1>a, <1>b DEF Loads, Moves, Only, Located, Working
    <3>6. \A u, v \in Tasks : pc'[u] = "load" /\ pc'[v] = "load" /\ at'[u] = at'[v] => u = v
      BY <2>1, <2>4, <1>a, <1>b DEF Loads, Moves, Only, Located, Working
    <3> QED
      BY <3>4, <3>5, <3>6 DEF Loads
  <2> QED
    BY <2>3, <2>4
<1>13. ASSUME NEW t \in Tasks, ResumeDropped(t) PROVE Loads'
  BY <1>13, <1>a, <1>b, <1>e, TaskMoves, EngineMoves
     DEF Loads, Moves, Only, Locks, ResumeDropped, Awakes
<1>14. ASSUME NEW m \in Models, Request(m) PROVE Loads'
  BY <1>14, <1>a DEF Loads, Request, engineVars, tasks
<1>15. ASSUME NEW m \in Models, SwitchStarts(m) PROVE Loads'
  BY <1>15, <1>a DEF Loads, SwitchStarts, Awakes, engineVars
<1>16. CASE SwitchNext
  BY <1>16, <1>a, <1>b, <1>d, TaskMoves DEF Loads, Moves, SwitchNext
<1>17. CASE SwitchPauses
  BY <1>17, <1>a, <1>b, <1>d, <1>e, TaskMoves, EngineMoves
     DEF Loads, Moves, Only, SwitchPauses, Awakes
<1>18. CASE SwitchLocks
  BY <1>18, <1>a, <1>b, <1>e, EngineMoves DEF Loads, Moves, Only, SwitchLocks
<1>19. CASE SwitchUnloads
  BY <1>19, <1>a, <1>b, <1>e, SwitchUnloadMoves, EngineMoves DEF Locks, Loads, Moves, Only
<1>20. CASE SwitchSets
  BY <1>20, <1>a, <1>b, <1>d, <1>e, TaskMoves, EngineMoves DEF Loads, Moves, Only, SwitchSets
<1> QED
  BY <1>1, <1>2, <1>3, <1>4, <1>5, <1>6, <1>7, <1>8, <1>9, <1>10, <1>11, <1>12, <1>13, <1>14,
     <1>15, <1>16, <1>17, <1>18, <1>19, <1>20
     DEF Next, ListenerStep, TaskStep, SwitchStep

\* Only a load fills an engine.
LEMMA EmptyNext == IInv /\ [Next]_vars => Empty'
<1> SUFFICES ASSUME IInv, [Next]_vars PROVE Empty'
  OBVIOUS
<1>a. /\ Domains /\ Locks /\ Loads /\ Empty /\ Located
      /\ \A i \in 1..(N + 1) : ~(i > N) => i \in Engines
  BY PoolAssumption DEF IInv, Engines
<1>b. Coroutines \subseteq Tasks /\ Switch \in Tasks \ Coroutines /\ NONE \notin Tasks
  BY PoolAssumption DEF Tasks
<1>d. {"idle", "pausing", "resume", "lock", "load", "drop", "switch", "drain", "pause", "unload",
       "set"} = Labels
  BY DEF Labels
<1>e. /\ \A t \in Tasks : pc[t] \in {"lock", "load", "drop", "drain", "pause", "unload", "set"} =>
                         at[t] \in Engines
      /\ \A t \in Tasks : at[t] \in 1..(N + 1)
      /\ \A e \in Engines : holder[e] \in Tasks \cup {NONE}
  BY <1>a DEF Located, Working, Domains
<1>1. CASE UNCHANGED vars
  BY <1>1, <1>a DEF Empty, Loads, vars, engineVars
<1>2. CASE DispatchResume
  BY <1>2, <1>a DEF Empty, Loads, DispatchResume, engineVars
<1>3. CASE DispatchPause
  BY <1>3, <1>a DEF Empty, Loads, DispatchPause, engineVars
<1>4. CASE PauseTimesOut
  BY <1>4, <1>a DEF Empty, Loads, PauseTimesOut, engineVars
<1>5. ASSUME NEW t \in Coroutines, PauseStarts(t) PROVE Empty'
  BY <1>5, <1>a, <1>b, PauseMoves DEF Empty, Loads, Moves, Only
<1>6. ASSUME NEW t \in Coroutines, NEW e \in Engines, PauseLocks(t, e) PROVE Empty'
  BY <1>6, <1>a, <1>b, EngineMoves DEF Empty, Loads, Only, PauseLocks
<1>7. ASSUME NEW t \in Coroutines, NEW e \in Engines, PauseUnloads(t, e) PROVE Empty'
  BY <1>7, <1>a, <1>b, EngineMoves DEF Empty, Loads, Only, PauseUnloads
<1>8. ASSUME NEW t \in Coroutines, PauseReturns(t) PROVE Empty'
  BY <1>8, <1>a DEF Empty, Loads, PauseReturns, engineVars
<1>9. ASSUME NEW t \in Coroutines, ResumeStarts(t) PROVE Empty'
  BY <1>9, <1>a DEF Empty, Loads, ResumeStarts, engineVars
<1>10. ASSUME NEW t \in Coroutines, ResumeNext(t) PROVE Empty'
  BY <1>10, <1>a, <1>b, <1>e, EngineMoves DEF Empty, Loads, Only, ResumeNext
<1>11. ASSUME NEW t \in Tasks, ResumeLocks(t) PROVE Empty'
  BY <1>11, <1>a, <1>e, EngineMoves DEF Empty, Loads, Only, ResumeLocks
<1>12. ASSUME NEW t \in Tasks, ResumeLoaded(t) PROVE Empty'
  BY <1>12, <1>a, <1>b, LoadedMoves DEF Empty, Loads, Moves, Only
<1>13. ASSUME NEW t \in Tasks, ResumeDropped(t) PROVE Empty'
  BY <1>13, <1>a, <1>e, EngineMoves DEF Empty, Loads, Only, ResumeDropped, Awakes
<1>14. ASSUME NEW m \in Models, Request(m) PROVE Empty'
  BY <1>14, <1>a DEF Empty, Loads, Request, engineVars
<1>15. ASSUME NEW m \in Models, SwitchStarts(m) PROVE Empty'
  BY <1>15, <1>a DEF Empty, Loads, SwitchStarts, engineVars
<1>16. CASE SwitchNext
  BY <1>16, <1>a DEF Empty, Loads, SwitchNext
<1>17. CASE SwitchPauses
  BY <1>17, <1>a, <1>b, <1>e, EngineMoves DEF Empty, Loads, Only, SwitchPauses, Awakes
<1>18. CASE SwitchLocks
  BY <1>18, <1>a, <1>b, <1>e, EngineMoves DEF Empty, Loads, Only, SwitchLocks
<1>19. CASE SwitchUnloads
  BY <1>19, <1>a, <1>b, <1>e, SwitchUnloadMoves, EngineMoves DEF Empty, Loads, Moves, Only
<1>20. CASE SwitchSets
  BY <1>20, <1>a, <1>b, <1>e, EngineMoves DEF Empty, Loads, Only, SwitchSets
<1> QED
  BY <1>1, <1>2, <1>3, <1>4, <1>5, <1>6, <1>7, <1>8, <1>9, <1>10, <1>11, <1>12, <1>13, <1>14,
     <1>15, <1>16, <1>17, <1>18, <1>19, <1>20
     DEF Next, ListenerStep, TaskStep, SwitchStep

\* Only a call of resume dispatches one.
LEMMA NoResumeNext == IInv /\ [Next]_vars => NoResume'
<1> SUFFICES ASSUME IInv, [Next]_vars PROVE NoResume'
  OBVIOUS
<1>a. /\ Domains /\ NoResume /\ NONE \notin {"run", "yield", "queued"}
  BY PoolAssumption DEF IInv, Engines
<1>b. /\ Len(dispatched) \in Nat
      /\ Len(Append(dispatched, "pause")) = Len(dispatched) + 1
      /\ Append(dispatched, "pause")[Len(dispatched) + 1] = "pause"
      /\ \A i \in 1..Len(dispatched) : Append(dispatched, "pause")[i] = dispatched[i]
      /\ dispatched # << >> =>
           /\ Len(Tail(dispatched)) = Len(dispatched) - 1
           /\ \A i \in 1..(Len(dispatched) - 1) : Tail(dispatched)[i] = dispatched[i + 1]
  BY <1>a, SeqFacts DEF Domains
<1>1. CASE UNCHANGED vars
  BY <1>1, <1>a, <1>b DEF NoResume, vars, engineVars, locks, poolVars, listener, tasks, history
<1>2. CASE DispatchResume
  BY <1>2, <1>a DEF NoResume, DispatchResume
<1>3. CASE DispatchPause
  BY <1>3, <1>a DEF NoResume, DispatchPause
<1>4. CASE PauseTimesOut
  BY <1>4, <1>a DEF NoResume, PauseTimesOut, tasks
<1>5. ASSUME NEW t \in Coroutines, PauseStarts(t) PROVE NoResume'
  BY <1>5, <1>a DEF NoResume, PauseStarts
<1>6. ASSUME NEW t \in Coroutines, NEW e \in Engines, PauseLocks(t, e) PROVE NoResume'
  BY <1>6, <1>a DEF NoResume, PauseLocks, listener, tasks
<1>7. ASSUME NEW t \in Coroutines, NEW e \in Engines, PauseUnloads(t, e) PROVE NoResume'
  BY <1>7, <1>a DEF NoResume, PauseUnloads, listener, tasks
<1>8. ASSUME NEW t \in Coroutines, PauseReturns(t) PROVE NoResume'
  BY <1>8, <1>a DEF NoResume, PauseReturns, listener
<1>9. ASSUME NEW t \in Coroutines, ResumeStarts(t) PROVE NoResume'
  BY <1>9, <1>a DEF NoResume, ResumeStarts, listener
<1>10. ASSUME NEW t \in Coroutines, ResumeNext(t) PROVE NoResume'
  BY <1>10, <1>a DEF NoResume, ResumeNext, listener
<1>11. ASSUME NEW t \in Tasks, ResumeLocks(t) PROVE NoResume'
  BY <1>11, <1>a DEF NoResume, ResumeLocks, listener
<1>12. ASSUME NEW t \in Tasks, ResumeLoaded(t) PROVE NoResume'
  BY <1>12, <1>a DEF NoResume, ResumeLoaded, listener
<1>13. ASSUME NEW t \in Tasks, ResumeDropped(t) PROVE NoResume'
  BY <1>13, <1>a DEF NoResume, ResumeDropped, listener
<1>14. ASSUME NEW m \in Models, Request(m) PROVE NoResume'
  BY <1>14, <1>a DEF NoResume, Request, listener, tasks
<1>15. ASSUME NEW m \in Models, SwitchStarts(m) PROVE NoResume'
  BY <1>15, <1>a DEF NoResume, SwitchStarts, listener
<1>16. CASE SwitchNext
  BY <1>16, <1>a DEF NoResume, SwitchNext, listener
<1>17. CASE SwitchPauses
  BY <1>17, <1>a DEF NoResume, SwitchPauses, listener
<1>18. CASE SwitchLocks
  BY <1>18, <1>a DEF NoResume, SwitchLocks, listener
<1>19. CASE SwitchUnloads
  BY <1>19, <1>a DEF NoResume, SwitchUnloads, listener
<1>20. CASE SwitchSets
  BY <1>20, <1>a DEF NoResume, SwitchSets, listener
<1> QED
  BY <1>1, <1>2, <1>3, <1>4, <1>5, <1>6, <1>7, <1>8, <1>9, <1>10, <1>11, <1>12, <1>13, <1>14,
     <1>15, <1>16, <1>17, <1>18, <1>19, <1>20
     DEF Next, ListenerStep, TaskStep, SwitchStep

-----------------------------------------------------------------------------
(* Without a switch: what a yield leaves behind.                           *)

\* A queue in which no pause goes away and no resume comes covers its resumes as before.
LEMMA QueueStays ==
    ASSUME Domains, NEW e \in Engines, NEW t \in Tasks, NEW l \in Labels, Moves(t, l),
           waiters'[e] = waiters[e], l # "lock",
           l = "pausing" \/ pc[t] # "pausing" \/ t \notin Range(waiters[e])
    PROVE  /\ Covered(e) => Covered(e)'
           /\ PauseWaits(e) => PauseWaits(e)'
<1> DEFINE q == waiters[e]
<1>1. \A i \in 1..Len(q) : q[i] \in Tasks /\ q[i] \in Range(q)
  <2>1. q \in Seq(Tasks)
    BY DEF Domains
  <2> QED
    BY <2>1, LenProperties, ElementOfSeq DEF Range
<1>2. \A i \in 1..Len(q) : /\ pc[q[i]] = "pausing" => pc'[q[i]] = "pausing"
                           /\ pc'[q[i]] = "lock" => pc[q[i]] = "lock"
  BY <1>1 DEF Moves
<1> QED
  BY <1>2 DEF Covered, PauseWaits

\* The head of a queue gets the lock: behind a resume there is still a pause.
LEMMA QueueMoves ==
    ASSUME Domains, NEW e \in Engines, waiters[e] # << >>, waiters'[e] = Tail(waiters[e]),
           \A u \in Tasks : /\ pc[u] = "pausing" => pc'[u] = "pausing"
                            /\ pc'[u] = "lock" => pc[u] = "lock",
           Covered(e)
    PROVE  /\ Covered(e)'
           /\ pc[Head(waiters[e])] = "lock" => PauseWaits(e)'
<1> DEFINE q == waiters[e]
           n == Len(q)
<1>1. /\ n \in Nat /\ n > 0 /\ Head(q) = q[1] /\ Len(waiters'[e]) = n - 1
      /\ \A i \in 1..n : q[i] \in Tasks
      /\ \A i \in 1..(n - 1) : waiters'[e][i] = q[i + 1]
  <2>1. q \in Seq(Tasks)
    BY DEF Domains
  <2> QED
    BY <2>1, SeqFacts
<1> HIDE DEF n
<1>2. \A i \in 1..n : pc[q[i]] = "lock" => \E j \in 1..n : i < j /\ pc[q[j]] = "pausing"
  BY DEF Covered, n
<1>3. ASSUME NEW i \in 1..n, pc[q[i]] = "lock"
      PROVE  \E j \in 1..(n - 1) : i <= j /\ pc'[waiters'[e][j]] = "pausing"
  <2>1. PICK j \in 1..n : i < j /\ pc[q[j]] = "pausing"
    BY <1>2, <1>3
  <2>2. j - 1 \in 1..(n - 1) /\ i <= j - 1 /\ (j - 1) + 1 = j
    BY <1>1, <2>1
  <2>3. waiters'[e][j - 1] = q[j]
    BY <1>1, <2>2
  <2> QED
    BY <1>1, <2>1, <2>2, <2>3
<1>4. ASSUME NEW i \in 1..(n - 1), pc'[waiters'[e][i]] = "lock"
      PROVE  \E j \in 1..(n - 1) : i < j /\ pc'[waiters'[e][j]] = "pausing"
  <2>1. i + 1 \in 1..n /\ pc[q[i + 1]] = "lock"
    BY <1>1, <1>4
  <2>2. PICK j \in 1..(n - 1) : i + 1 <= j /\ pc'[waiters'[e][j]] = "pausing"
    BY <1>3, <2>1
  <2> QED
    BY <1>1, <2>2
<1>5. Covered(e)'
  BY <1>1, <1>4 DEF Covered
<1>6. ASSUME pc[Head(q)] = "lock" PROVE PauseWaits(e)'
  <2>1. 1 \in 1..n /\ pc[q[1]] = "lock"
    BY <1>1, <1>6
  <2> QED
    BY <1>1, <1>3, <2>1 DEF PauseWaits
<1> QED
  BY <1>5, <1>6

\* A pause at the end of a queue is behind every resume in it.
LEMMA QueueEnds ==
    ASSUME Domains, NEW e \in Engines, NEW t \in Tasks, Moves(t, "pausing"),
           waiters'[e] = Append(waiters[e], t)
    PROVE  Covered(e)' /\ PauseWaits(e)'
<1> DEFINE q == waiters[e]
           n == Len(q)
<1>1. /\ n \in Nat /\ Len(waiters'[e]) = n + 1 /\ waiters'[e][n + 1] = t
  <2>1. q \in Seq(Tasks)
    BY DEF Domains
  <2> QED
    BY <2>1, SeqFacts
<1> HIDE DEF n
<1>2. n + 1 \in 1..(n + 1) /\ pc'[waiters'[e][n + 1]] = "pausing"
  BY <1>1 DEF Moves
<1>3. \A i \in 1..(n + 1) : pc'[waiters'[e][i]] = "lock" => i < n + 1
  <2> SUFFICES ASSUME NEW i \in 1..(n + 1), pc'[waiters'[e][i]] = "lock" PROVE i < n + 1
    OBVIOUS
  <2>1. i # n + 1
    BY <1>2
  <2> QED
    BY <1>1, <2>1
<1> QED
  BY <1>1, <1>2, <1>3 DEF Covered, PauseWaits

\* An engine subsides as long as nothing starts it.
LEMMA SubsidesStays ==
    ASSUME Domains, NEW e \in Engines, NEW t \in Tasks, NEW l \in Labels, Moves(t, l),
           waiters'[e] = waiters[e], flagged'[e] = flagged[e], l # "lock",
           l = "pausing" \/ pc[t] # "pausing" \/ t \notin Range(waiters[e]),
           est'[e] = est[e] \/ est'[e] \in {"PAUSED", "UNLOADING"},
           Subsides(e)
    PROVE  Subsides(e)'
<1>1. Covered(e)' /\ (PauseWaits(e) => PauseWaits(e)')
  BY QueueStays DEF Subsides
<1> QED
  BY <1>1 DEF Subsides

\* The premise of Lone: a yield, and no call left to start.
Yielded == ~switched /\ want = "yield" /\ dispatched = << >>

\* What leaves the listener's calls alone has to see to it that the engines subside.
LEMMA LoneStays ==
    ASSUME Lone, UNCHANGED <<switched, want, dispatched>>, ~switched => pc'[Switch] = "idle",
           Yielded /\ Aborted /\ (\A e \in Engines : Subsides(e)) =>
               Aborted' /\ \A e \in Engines : Subsides(e)'
    PROVE  Lone'
BY DEF Lone, Yielded

\* As long as no switch has begun, the switch coroutine does not move.
LEMMA SwitchRests ==
    ASSUME Domains, Lone, ~switched
    PROVE  /\ pc[Switch] = "idle"
           /\ ~SwitchStep /\ ~TaskStep(Switch)
BY DEF Lone, SwitchStep, SwitchNext, SwitchPauses, SwitchLocks, SwitchUnloads, SwitchSets,
       Awakes, TaskStep, ResumeLocks, ResumeLoaded, ResumeDropped

\* A pause starts: it queues at every engine, behind whatever waits there.
LEMMA PauseStartsLone ==
    ASSUME IInv, NEW t \in Coroutines, PauseStarts(t)
    PROVE  Lone'
<1>1. /\ Domains /\ Lone /\ t \in Tasks /\ t # Switch /\ Switch \in Tasks
      /\ dispatched # << >> /\ dispatched' = Tail(dispatched) /\ pauseRequested'
      /\ UNCHANGED <<switched, want>>
  BY PoolAssumption DEF IInv, PauseStarts, Tasks, history
<1>2. /\ Len(dispatched) \in Nat /\ Len(dispatched') = Len(dispatched) - 1
      /\ \A i \in 1..(Len(dispatched) - 1) : dispatched'[i] = dispatched[i + 1]
      /\ dispatched' # << >> => Len(dispatched') > 0
  <2>1. dispatched \in Seq({"pause", "resume"}) /\ Tail(dispatched) \in Seq({"pause", "resume"})
    BY <1>1, SeqFacts DEF Domains
  <2> QED
    BY <1>1, <2>1, SeqFacts
<1>3. /\ Moves(t, "pausing") /\ pc[t] = "idle"
      /\ \A e \in Engines :
           /\ Busy(e) => est'[e] = est[e] /\ waiters'[e] = Append(waiters[e], t)
           /\ ~Busy(e) =>
                /\ est[e] = "RUNNING" => est'[e] = "UNLOADING"
                /\ est[e] # "RUNNING" => est'[e] = est[e]
                /\ est[e] = "LOADING" => flagged'[e]
                /\ waiters'[e] = waiters[e]
  BY <1>1, PauseMoves
<1>4. ASSUME NEW e \in Engines PROVE Subsides(e)'
  <2>1. CASE Busy(e)
    BY <1>1, <1>3, <2>1, QueueEnds DEF Subsides
  <2>2. CASE ~Busy(e)
    <3>1. waiters'[e] = << >>
      BY <1>3, <2>2 DEF Busy
    <3>2. Covered(e)'
      BY <3>1 DEF Covered
    <3>3. /\ est'[e] # "RUNNING"
          /\ est'[e] = "LOADING" => flagged'[e]
      BY <1>3, <2>2
    <3> QED
      BY <3>2, <3>3 DEF Subsides
  <2> QED
    BY <2>1, <2>2
<1>5. ~switched => pc'[Switch] = "idle"
  BY <1>1, <1>3 DEF Lone, Moves
<1>6. ASSUME ~switched, want = "yield", dispatched' # << >>
      PROVE  dispatched'[Len(dispatched')] = "pause"
  <2>1. dispatched[Len(dispatched)] = "pause"
    BY <1>1, <1>6 DEF Lone
  <2>2. /\ Len(dispatched') \in 1..(Len(dispatched) - 1)
        /\ Len(dispatched') + 1 = Len(dispatched)
    BY <1>2, <1>6
  <2> QED
    BY <1>2, <2>1, <2>2
<1> QED
  BY <1>1, <1>4, <1>5, <1>6 DEF Lone, Aborted

\* A resume starts: the call that was dispatched last is still to come.
LEMMA ResumeStartsLone ==
    ASSUME IInv, NEW t \in Coroutines, ResumeStarts(t)
    PROVE  Lone'
<1>1. /\ Domains /\ Lone /\ t \in Tasks /\ t # Switch /\ Switch \in Tasks
      /\ dispatched # << >> /\ Head(dispatched) = "resume" /\ dispatched' = Tail(dispatched)
      /\ pc' = [pc EXCEPT ![t] = "resume"]
      /\ UNCHANGED <<switched, want>>
  BY PoolAssumption DEF IInv, ResumeStarts, Tasks, history
<1>2. /\ Len(dispatched) \in Nat /\ Len(dispatched) > 0 /\ Len(dispatched') = Len(dispatched) - 1
      /\ \A i \in 1..(Len(dispatched) - 1) : dispatched'[i] = dispatched[i + 1]
      /\ dispatched' # << >> <=> Len(dispatched') > 0
      /\ dispatched[1] = "resume"
  <2>1. dispatched \in Seq({"pause", "resume"}) /\ Tail(dispatched) \in Seq({"pause", "resume"})
    BY <1>1, SeqFacts DEF Domains
  <2>2. dispatched' = << >> <=> Len(dispatched') = 0
    BY <1>1, <2>1, EmptySeq
  <2> QED
    BY <1>1, <2>1, <2>2, SeqFacts
<1>3. ~switched => pc'[Switch] = "idle"
  BY <1>1 DEF Lone, Domains
<1>4. ASSUME ~switched, want = "yield"
      PROVE  dispatched' # << >> /\ dispatched'[Len(dispatched')] = "pause"
  <2>1. dispatched[Len(dispatched)] = "pause"
    BY <1>1, <1>4 DEF Lone
  <2>2. Len(dispatched) # 1
    BY <1>2, <2>1
  <2>3. /\ Len(dispatched') \in 1..(Len(dispatched) - 1)
        /\ Len(dispatched') + 1 = Len(dispatched)
    BY <1>2, <2>2
  <2> QED
    BY <1>2, <2>1, <2>3
<1> QED
  BY <1>1, <1>3, <1>4 DEF Lone

\* A pause that takes an engine's lock unloads it or leaves its flag.
LEMMA PauseLocksLone ==
    ASSUME IInv, NEW t \in Coroutines, NEW e \in Engines, PauseLocks(t, e)
    PROVE  Lone'
<1>1. /\ Domains /\ Lone /\ t \in Tasks /\ Head(waiters[e]) = t /\ pc[t] = "pausing"
      /\ waiters[e] # << >>
      /\ UNCHANGED <<pc, pauseRequested, switched, want, dispatched>>
      /\ waiters' = [waiters EXCEPT ![e] = Tail(waiters[e])]
      /\ flagged' = [flagged EXCEPT ![e] = PauseFlags(e)]
      /\ est' = [est EXCEPT ![e] = IF est[e] = "RUNNING" THEN "UNLOADING" ELSE est[e]]
  BY DEF IInv, PauseLocks, Granted, PauseEngine, Tasks, poolVars, tasks, history
<1>2. ASSUME NEW d \in Engines, Subsides(d) PROVE Subsides(d)'
  <2>1. CASE d = e
    <3>1. /\ waiters'[e] = Tail(waiters[e])
          /\ flagged'[e] = PauseFlags(e)
          /\ est'[e] = IF est[e] = "RUNNING" THEN "UNLOADING" ELSE est[e]
      BY <1>1 DEF Domains
    <3>2. Covered(e)'
      BY <1>1, <1>2, <2>1, <3>1, QueueMoves DEF Subsides
    <3>3. est'[e] # "RUNNING" /\ (est'[e] = "LOADING" => flagged'[e])
      BY <3>1 DEF PauseFlags
    <3> QED
      BY <2>1, <3>2, <3>3 DEF Subsides
  <2>2. CASE d # e
    <3>1. waiters'[d] = waiters[d] /\ flagged'[d] = flagged[d] /\ est'[d] = est[d]
      BY <1>1, <2>2 DEF Domains
    <3>2. Moves(t, "pausing")
      BY <1>1 DEF Moves, PauseLocks, tasks
    <3> QED
      BY <1>1, <1>2, <3>1, <3>2, SubsidesStays DEF Labels
  <2> QED
    BY <2>1, <2>2
<1>3. Aborted => Aborted'
  BY <1>1 DEF Aborted
<1>4. ~switched => pc'[Switch] = "idle"
  BY <1>1 DEF Lone
<1> QED
  BY <1>1, <1>2, <1>3, <1>4, LoneStays

\* An engine that a pause has unloaded is PAUSED.
LEMMA PauseUnloadsLone ==
    ASSUME IInv, NEW t \in Coroutines, NEW e \in Engines, PauseUnloads(t, e)
    PROVE  Lone'
<1>1. /\ Domains /\ Lone
      /\ UNCHANGED <<pc, pauseRequested, switched, want, dispatched, waiters, flagged>>
      /\ est' = [est EXCEPT ![e] = "PAUSED"]
  BY DEF IInv, PauseUnloads, Unload, Tasks, poolVars, tasks, history
<1>2. ASSUME NEW d \in Engines, Subsides(d) PROVE Subsides(d)'
  <2>1. est'[d] = est[d] \/ est'[d] = "PAUSED"
    BY <1>1 DEF Domains
  <2> QED
    BY <1>1, <1>2, <2>1 DEF Subsides, PauseWaits, Covered
<1>3. Aborted => Aborted'
  BY <1>1 DEF Aborted
<1>4. ~switched => pc'[Switch] = "idle"
  BY <1>1 DEF Lone
<1> QED
  BY <1>1, <1>2, <1>3, <1>4, LoneStays

\* A pause returns when it waits at no engine any more.
LEMMA PauseReturnsLone ==
    ASSUME IInv, NEW t \in Coroutines, PauseReturns(t)
    PROVE  Lone'
<1>1. /\ Domains /\ Lone /\ t \in Tasks /\ t # Switch /\ Switch \in Tasks /\ Moves(t, "idle")
      /\ \A e \in Engines : t \notin Range(waiters[e])
      /\ UNCHANGED <<pauseRequested, switched, want, dispatched, waiters, flagged, est>>
  BY PoolAssumption, TaskMoves
     DEF IInv, PauseReturns, Tasks, Labels, engineVars, locks, poolVars, history
<1>2. ASSUME NEW d \in Engines, Subsides(d) PROVE Subsides(d)'
  BY <1>1, <1>2, SubsidesStays DEF Labels
<1>3. Aborted => Aborted'
  BY <1>1 DEF Aborted, Moves
<1>4. ~switched => pc'[Switch] = "idle"
  BY <1>1 DEF Lone, Moves
<1> QED
  BY <1>1, <1>2, <1>3, <1>4, LoneStays

\* No resume under way goes on to another engine.
LEMMA ResumeNextLone ==
    ASSUME IInv, NEW t \in Coroutines, ResumeNext(t)
    PROVE  Lone'
<1>1. /\ Domains /\ Lone /\ t \in Tasks /\ t # Switch /\ Switch \in Tasks /\ pc[t] = "resume"
      /\ UNCHANGED <<pauseRequested, switched, want, dispatched, flagged>>
  BY PoolAssumption DEF IInv, ResumeNext, Tasks, poolVars, history
<1>2. ~switched => pc'[Switch] = "idle"
  <2>1. pc'[Switch] = pc[Switch]
    BY <1>1 DEF ResumeNext, Await, ResumeEngine, NextEngine, GoOn, Domains
  <2> QED
    BY <1>1, <2>1 DEF Lone
<1>3. ASSUME Yielded, Aborted, \A e \in Engines : Subsides(e)
      PROVE  Aborted' /\ \A e \in Engines : Subsides(e)'
  <2>1. pauseRequested
    BY <1>1, <1>3 DEF Aborted
  <2>2. Moves(t, "idle") /\ UNCHANGED <<est, waiters>>
    BY <1>1, <2>1, TaskMoves DEF ResumeNext, Aborts, Labels
  <2>3. \A e \in Engines : Subsides(e)'
    BY <1>1, <1>3, <2>2, SubsidesStays DEF Labels
  <2> QED
    BY <1>1, <2>1, <2>3 DEF Aborted
<1> QED
  BY <1>1, <1>2, <1>3, LoneStays

\* A resume that gets a lock has a pause behind it, which will find the engine loading.
LEMMA ResumeLocksLone ==
    ASSUME IInv, NEW t \in Coroutines, ResumeLocks(t)
    PROVE  Lone'
<1>e. PICK e \in Engines : e = at[t]
  BY DEF IInv, Located, Working, ResumeLocks, Tasks
<1>1. /\ Domains /\ Lone /\ t \in Tasks /\ t # Switch /\ Switch \in Tasks /\ pc[t] = "lock"
      /\ waiters[e] # << >> /\ Head(waiters[e]) = t
      /\ waiters' = [waiters EXCEPT ![e] = Tail(waiters[e])]
      /\ UNCHANGED <<pauseRequested, switched, want, dispatched, flagged, loaded, holder>>
  BY <1>e, PoolAssumption DEF IInv, ResumeLocks, Granted, Tasks, poolVars, history
<1>2. e \in Engines /\ at[t] = e
  BY <1>e
<1>3. /\ est[e] = "PAUSED" => est'[e] = "LOADING" /\ Moves(t, "load")
      /\ est[e] # "PAUSED" => est'[e] = est[e] /\ Moves(t, "resume")
      /\ Only(e)
  BY <1>1, <1>2, EngineMoves DEF ResumeLocks
<1>4. PICK l \in {"load", "resume"} : Moves(t, l)
  BY <1>3
<1>5. \A u \in Tasks : /\ pc[u] = "pausing" => pc'[u] = "pausing"
                       /\ pc'[u] = "lock" => pc[u] = "lock"
  BY <1>1, <1>4 DEF Moves
<1>6. ASSUME \A d \in Engines : Subsides(d), NEW d \in Engines PROVE Subsides(d)'
  <2>1. CASE d = e
    <3>1. waiters'[e] = Tail(waiters[e])
      BY <1>1, <1>2 DEF Domains
    <3>2. Covered(e)' /\ PauseWaits(e)'
      BY <1>1, <1>2, <1>5, <1>6, <3>1, QueueMoves DEF Subsides
    <3> QED
      BY <2>1, <3>2 DEF Subsides
  <2>2. CASE d # e
    <3>1. waiters'[d] = waiters[d] /\ flagged'[d] = flagged[d] /\ est'[d] = est[d]
      BY <1>1, <1>3, <2>2 DEF Domains, Only
    <3> QED
      BY <1>1, <1>4, <1>6, <3>1, SubsidesStays DEF Labels
  <2> QED
    BY <2>1, <2>2
<1>7. ~switched => pc'[Switch] = "idle"
  BY <1>1, <1>4 DEF Lone, Moves
<1>8. Aborted => Aborted'
  BY <1>1 DEF Aborted
<1> QED
  BY <1>1, <1>6, <1>7, <1>8, LoneStays

\* A load that ends is unloaded again, or a pause waits for the engine.
LEMMA ResumeLoadedLone ==
    ASSUME IInv, NEW t \in Coroutines, ResumeLoaded(t)
    PROVE  Lone'
<1>e. PICK e \in Engines : e = at[t]
  BY DEF IInv, Located, Working, ResumeLoaded, Awakes, Tasks
<1>1. /\ Domains /\ Lone /\ t \in Tasks /\ t # Switch /\ Switch \in Tasks
      /\ flagged' = [flagged EXCEPT ![e] = FALSE]
      /\ UNCHANGED <<pauseRequested, switched, want, dispatched, waiters>>
  BY <1>e, PoolAssumption DEF IInv, ResumeLoaded, Tasks, poolVars, history
<1>2. /\ e \in Engines /\ pc[t] = "load" /\ Only(e) /\ est[e] = "LOADING"
      /\ flagged[e] => est'[e] = "UNLOADING" /\ Moves(t, "drop")
      /\ ~flagged[e] => est'[e] = "RUNNING" /\ Moves(t, "resume")
  BY <1>e, <1>1, LoadedMoves DEF IInv, Loads
<1>3. PICK l \in {"drop", "resume"} : Moves(t, l)
  BY <1>2
<1>4. ASSUME NEW d \in Engines, Subsides(d) PROVE Subsides(d)'
  <2>1. CASE d = e
    <3>1. Covered(e)' /\ (PauseWaits(e) => PauseWaits(e)')
      BY <1>1, <1>2, <1>3, <1>4, <2>1, QueueStays DEF Subsides, Labels
    <3> QED
      BY <1>2, <1>4, <2>1, <3>1 DEF Subsides
  <2>2. CASE d # e
    <3>1. waiters'[d] = waiters[d] /\ flagged'[d] = flagged[d] /\ est'[d] = est[d]
      BY <1>1, <1>2, <2>2 DEF Domains, Only
    <3> QED
      BY <1>1, <1>2, <1>3, <1>4, <3>1, SubsidesStays DEF Labels
  <2> QED
    BY <2>1, <2>2
<1>5. ~switched => pc'[Switch] = "idle"
  BY <1>1, <1>3 DEF Lone, Moves
<1>6. Aborted => Aborted'
  BY <1>1, <1>2 DEF Aborted
<1> QED
  BY <1>1, <1>4, <1>5, <1>6, LoneStays

\* The engine loaded for nothing is PAUSED.
LEMMA ResumeDroppedLone ==
    ASSUME IInv, NEW t \in Coroutines, ResumeDropped(t)
    PROVE  Lone'
<1>e. PICK e \in Engines : e = at[t]
  BY DEF IInv, Located, Working, ResumeDropped, Awakes, Tasks
<1>1. /\ Domains /\ Lone /\ t \in Tasks /\ t # Switch /\ Switch \in Tasks
      /\ pc[t] = "drop" /\ e \in Engines
      /\ UNCHANGED <<pauseRequested, switched, want, dispatched, waiters, flagged>>
  BY <1>e, PoolAssumption DEF IInv, ResumeDropped, Awakes, Tasks, poolVars, history
<1>2. /\ Only(e) /\ est'[e] = "PAUSED" /\ Moves(t, "resume")
  BY <1>e, <1>1, EngineMoves, TaskMoves DEF ResumeDropped
<1>3. ASSUME NEW d \in Engines, Subsides(d) PROVE Subsides(d)'
  <2>1. est'[d] = est[d] \/ est'[d] = "PAUSED"
    BY <1>2 DEF Only
  <2> QED
    BY <1>1, <1>2, <1>3, <2>1, SubsidesStays DEF Labels
<1>4. ~switched => pc'[Switch] = "idle"
  BY <1>1, <1>2 DEF Lone, Moves
<1>5. Aborted => Aborted'
  BY <1>1 DEF Aborted
<1> QED
  BY <1>1, <1>3, <1>4, <1>5, LoneStays

\* As long as no switch begins, a yield takes its effect on every engine.
LEMMA LoneNext == IInv /\ [Next]_vars => Lone'
<1> SUFFICES ASSUME IInv, [Next]_vars PROVE Lone'
  OBVIOUS
<1>a. Domains /\ Lone
  BY DEF IInv
<1>1. CASE UNCHANGED vars
  BY <1>a, <1>1
     DEF Lone, Aborted, Subsides, PauseWaits, Covered, vars, engineVars, locks, poolVars,
                    tasks, history
<1>2. CASE DispatchResume
  BY <1>a, <1>2 DEF Lone, DispatchResume
<1>3. CASE DispatchPause
  <2>1. /\ dispatched' # << >> /\ dispatched'[Len(dispatched')] = "pause"
    <3>1. dispatched \in Seq({"pause", "resume"}) /\ dispatched' = Append(dispatched, "pause")
      BY <1>a, <1>3 DEF Domains, DispatchPause
    <3> QED
      BY <3>1, SeqFacts
  <2> QED
    BY <1>a, <1>3, <2>1 DEF Lone, DispatchPause
<1>4. CASE PauseTimesOut \/ \E m \in Models : Request(m)
  <2>1. UNCHANGED <<est, flagged, waiters, pauseRequested, pc, dispatched, want, switched>>
    BY <1>4 DEF PauseTimesOut, Request, engineVars, locks, poolVars, tasks, history
  <2> QED
    BY <1>a, <2>1 DEF Lone, Aborted, Subsides, PauseWaits, Covered
<1>5. ASSUME NEW t \in Coroutines, ListenerStep(t) PROVE Lone'
  BY <1>5, PauseStartsLone, PauseLocksLone, PauseUnloadsLone, PauseReturnsLone, ResumeStartsLone,
     ResumeNextLone DEF ListenerStep
<1>6. ASSUME NEW t \in Tasks, TaskStep(t) PROVE Lone'
  <2>1. CASE t \in Coroutines
    BY <1>6, <2>1, ResumeLocksLone, ResumeLoadedLone, ResumeDroppedLone DEF TaskStep
  <2>2. CASE t = Switch
    <3>1. switched
      BY <1>a, <1>6, <2>2, SwitchRests
    <3>2. switched' = switched
      BY <1>6 DEF TaskStep, ResumeLocks, ResumeLoaded, ResumeDropped, history
    <3> QED
      BY <3>1, <3>2 DEF Lone
  <2> QED
    BY <2>1, <2>2 DEF Tasks
<1>7. ASSUME NEW m \in Models, SwitchStarts(m) PROVE Lone'
  BY <1>7 DEF Lone, SwitchStarts
<1>8. CASE SwitchStep
  <2>1. switched
    BY <1>a, <1>8, SwitchRests
  <2>2. switched' = switched
    BY <1>8
       DEF SwitchStep, SwitchNext, SwitchPauses, SwitchLocks, SwitchUnloads, SwitchSets, history
  <2> QED
    BY <2>1, <2>2 DEF Lone
<1> QED
  BY <1>1, <1>2, <1>3, <1>4, <1>5, <1>6, <1>7, <1>8 DEF Next

-----------------------------------------------------------------------------
(* Without the listener: what a switch does.                               *)

\* The engines are running or paused, except the one that the switch is at.
LEMMA AtMostOneMoves ==
    ASSUME IInv, Untouched
    PROVE  /\ Domains /\ Serving /\ Switch \in Tasks
           /\ pc[Switch] \in Working => at[Switch] \in Engines
           /\ \A t \in Coroutines : ~ListenerStep(t) /\ ~TaskStep(t)
           /\ \A e \in Engines : /\ est[e] = "UNLOADING" => pc[Switch] = "unload" /\ at[Switch] = e
                                 /\ est[e] = "LOADING" => pc[Switch] = "load" /\ at[Switch] = e
           /\ pc[Switch] \notin {"unload", "load"} =>
                \A e \in Engines : ~Busy(e) /\ est[e] \in {"RUNNING", "PAUSED"}
<1>1. /\ Domains /\ Serving /\ Switch \in Tasks /\ Locks /\ Loads
      /\ pc[Switch] \in Working => at[Switch] \in Engines
  BY DEF IInv, Steady, Located, Tasks
<1>2. ASSUME NEW t \in Coroutines PROVE ~ListenerStep(t) /\ ~TaskStep(t)
  <2>1. pc[t] = "idle" /\ dispatched = << >>
    BY <1>1 DEF Serving
  <2> QED
    BY <2>1 DEF ListenerStep, TaskStep, PauseStarts, PauseLocks, PauseUnloads, PauseReturns,
                ResumeStarts, ResumeNext, ResumeLocks, ResumeLoaded, ResumeDropped, Awakes
<1>3. ASSUME NEW e \in Engines, est[e] = "UNLOADING"
      PROVE  pc[Switch] = "unload" /\ at[Switch] = e
  <2>1. holder[e] \in Tasks
    BY <1>1, <1>3 DEF Locks, Domains
  <2>2. pc[holder[e]] = "pausing" \/ (pc[holder[e]] \in {"drop", "unload"} /\ at[holder[e]] = e)
    BY <1>1, <2>1 DEF Locks
  <2>3. holder[e] = Switch
    BY <1>1, <2>1, <2>2 DEF Serving, Tasks
  <2> QED
    BY <1>1, <2>2, <2>3 DEF Serving
<1>4. ASSUME NEW e \in Engines, est[e] = "LOADING"
      PROVE  pc[Switch] = "load" /\ at[Switch] = e
  <2>1. PICK t \in Tasks : pc[t] = "load" /\ at[t] = e
    BY <1>1, <1>4 DEF Loads
  <2> QED
    BY <1>1, <2>1 DEF Serving, Tasks
<1>5. ASSUME pc[Switch] \notin {"unload", "load"}, NEW e \in Engines
      PROVE  ~Busy(e) /\ est[e] \in {"RUNNING", "PAUSED"}
  <2>1. est[e] \in {"RUNNING", "UNLOADING", "PAUSED", "LOADING"} /\ waiters[e] = << >>
    BY <1>1 DEF Domains, Serving
  <2> QED
    BY <1>3, <1>4, <1>5, <2>1 DEF Busy
<1> QED
  BY <1>1, <1>2, <1>3, <1>4, <1>5

\* Nothing but a resume takes back what the listener has called.
LEMMA UntouchedBefore == IInv /\ [Next]_vars /\ Untouched' => Untouched
<1> SUFFICES ASSUME IInv, [Next]_vars, Untouched' PROVE Untouched
  OBVIOUS
<1>1. NoResume /\ Domains /\ NONE \notin {"run", "yield"}
  BY PoolAssumption DEF IInv
<1>2. applied = NONE
  <2>1. applied' \in {applied, "run", "yield"}
    BY DEF Next, DispatchResume, DispatchPause, PauseTimesOut, ListenerStep, TaskStep, SwitchStep,
           PauseStarts, PauseLocks, PauseUnloads, PauseReturns, ResumeStarts, ResumeNext, ResumeLocks,
           ResumeLoaded, ResumeDropped, Request, SwitchStarts, SwitchNext, SwitchPauses, SwitchLocks,
           SwitchUnloads, SwitchSets, vars, listener
  <2> QED
    BY <1>1, <2>1 DEF Untouched
<1>3. ~pauseRequested
  <2>1. ASSUME NEW t \in Coroutines PROVE ~ResumeStarts(t)
    <3>1. dispatched # << >> => dispatched[1] = "pause" /\ Head(dispatched) = dispatched[1]
      <4>1. dispatched \in Seq({"pause", "resume"})
        BY <1>1 DEF Domains
      <4>2. dispatched # << >> => Len(dispatched) \in Nat /\ Len(dispatched) > 0
                                  /\ Head(dispatched) = dispatched[1]
        BY <4>1, SeqFacts
      <4> QED
        BY <1>1, <1>2, <4>2 DEF NoResume
    <3> QED
      BY <3>1 DEF ResumeStarts
  <2>2. pauseRequested' = pauseRequested \/ pauseRequested' = TRUE
    BY <2>1
       DEF Next, DispatchResume, DispatchPause, PauseTimesOut, ListenerStep, TaskStep, SwitchStep,
           PauseStarts, PauseLocks, PauseUnloads, PauseReturns, ResumeNext, ResumeLocks,
           ResumeLoaded, ResumeDropped, Request, SwitchStarts, SwitchNext, SwitchPauses, SwitchLocks,
           SwitchUnloads, SwitchSets, vars, poolVars
  <2> QED
    BY <2>2 DEF Untouched
<1> QED
  BY <1>2, <1>3 DEF Untouched

\* The first engine is the one whose model the pool reports.
LEMMA FirstEngine == 1 \in Engines
BY PoolAssumption DEF Engines

\* A switch starts at the first engine; it has passed none.
LEMMA SwitchStartsServes ==
    ASSUME IInv, Untouched, NEW m \in Models, SwitchStarts(m)
    PROVE  Serving'
<1>1. Domains /\ Serving /\ Switch \in Tasks /\ Switch \notin Coroutines
  BY AtMostOneMoves, PoolAssumption
<1>2. /\ pc'[Switch] = "switch" /\ at'[Switch] = 1 /\ switching'
      /\ \A t \in Coroutines : pc'[t] = pc[t]
      /\ UNCHANGED <<dispatched, waiters, flagged, est, emodel, loaded>>
  BY <1>1 DEF SwitchStarts, SwitchShown, Domains, Tasks, engineVars, locks
<1>3. \A e \in Engines : ~(e < 1)
  BY DEF Engines
<1> QED
  BY <1>1, <1>2, <1>3 DEF Serving

\* The loop's next round: the switch is done, passes an engine or drains it.
LEMMA SwitchNextServes ==
    ASSUME IInv, Untouched, SwitchNext
    PROVE  Serving'
<1> DEFINE e == at[Switch]
<1>1. /\ Domains /\ Serving /\ Switch \in Tasks /\ Switch \notin Coroutines /\ ~Aborts
      /\ pc[Switch] = "switch" /\ switching
      /\ UNCHANGED <<dispatched, waiters, flagged, est, emodel, loaded, goal>>
      /\ e \in Nat /\ \A d \in Engines : d \in Nat
  BY AtMostOneMoves, PoolAssumption
     DEF SwitchNext, Aborts, Untouched, Serving, locks, Domains, Engines
<1>2. CASE e > N
  <2>1. /\ Moves(Switch, "idle") /\ switching' = FALSE
    BY <1>1, <1>2, TaskMoves DEF SwitchNext, Labels
  <2>2. \A d \in Engines : d < e
    BY <1>1, <1>2, PoolAssumption DEF Engines
  <2>3. \A d \in Engines : emodel[d] = goal
    BY <1>1, <2>2 DEF Serving
  <2>4. \A d \in Engines : emodel[d] = CurrentModel
    BY <2>3, FirstEngine DEF CurrentModel
  <2> QED
    BY <1>1, <2>1, <2>4 DEF Serving, Moves, Tasks, CurrentModel
<1>3. CASE ~(e > N) /\ Switched(e)
  <2>1. /\ GoOn(Switch, "switch") /\ switching' = switching
    BY <1>1, <1>3 DEF SwitchNext
  <2>2. Moves(Switch, "switch") /\ at'[Switch] = e + 1
    BY <1>1, <2>1, TaskMoves DEF Labels, GoOn, Domains
  <2>3. \A d \in Engines : d < e + 1 => est[d] = "RUNNING" /\ emodel[d] = goal
    <3> SUFFICES ASSUME NEW d \in Engines, d < e + 1 PROVE est[d] = "RUNNING" /\ emodel[d] = goal
      OBVIOUS
    <3>1. d < e \/ d = e
      BY <1>1
    <3> QED
      BY <1>1, <1>3, <3>1 DEF Serving, Switched
  <2> QED
    BY <1>1, <2>1, <2>2, <2>3 DEF Serving, Moves, Tasks, CurrentModel
<1>4. CASE ~(e > N) /\ ~Switched(e)
  <2>1. /\ Await(Switch, "drain") /\ switching' = switching /\ UNCHANGED at
    BY <1>1, <1>4 DEF SwitchNext
  <2>2. Moves(Switch, "drain")
    BY <1>1, <2>1, TaskMoves DEF Labels
  <2> QED
    BY <1>1, <2>1, <2>2 DEF Serving, Moves, Tasks, CurrentModel
<1> QED
  BY <1>2, <1>3, <1>4

\* The engine is unloaded, or set to the model at once.
LEMMA SwitchPausesServes ==
    ASSUME IInv, Untouched, SwitchPauses
    PROVE  Serving'
<1> DEFINE e == at[Switch]
<1>1. /\ Domains /\ Serving /\ Switch \in Tasks /\ Switch \notin Coroutines
      /\ pc[Switch] = "drain" /\ e \in Engines
      /\ UNCHANGED <<dispatched, emodel, loaded, goal, switching, at>>
      /\ \A d \in Engines : d \in Nat
  BY AtMostOneMoves, PoolAssumption
     DEF SwitchPauses, Awakes, Serving, poolVars, Working, Engines
<1>2. ~Busy(e) /\ est[e] \in {"RUNNING", "PAUSED"}
  BY <1>1, AtMostOneMoves
<1>3. SwitchPauseEngine(e) /\ UNCHANGED waiters
  BY <1>2 DEF SwitchPauses
<1>4. /\ Only(e)
      /\ est[e] = "RUNNING" => est'[e] = "UNLOADING" /\ Moves(Switch, "unload")
      /\ est[e] = "PAUSED" => est'[e] = "PAUSED" /\ Moves(Switch, "set")
  BY <1>1, <1>3, EngineMoves
<1>5. \A d \in Engines : ~flagged'[d]
  <2>1. flagged' = [flagged EXCEPT ![e] = PauseFlags(e)]
    BY <1>3 DEF SwitchPauseEngine, PauseEngine
  <2>2. ~PauseFlags(e)
    BY <1>1, <1>2 DEF PauseFlags, Serving
  <2> QED
    BY <1>1, <2>1, <2>2 DEF Serving, Domains
<1>6. \A d \in Engines : /\ est'[d] = "RUNNING" => est[d] = "RUNNING"
                         /\ d < e => est'[d] = est[d]
  BY <1>1, <1>2, <1>4 DEF Only
<1>7. PICK l \in {"unload", "set"} : Moves(Switch, l) /\ (l = "set" => est'[e] = "PAUSED")
  BY <1>2, <1>4
<1> QED
  BY <1>1, <1>3, <1>5, <1>6, <1>7 DEF Serving, Moves, Tasks

\* The engine that the switch unloads no longer runs.
LEMMA SwitchUnloadsServes ==
    ASSUME IInv, Untouched, SwitchUnloads
    PROVE  Serving'
<1> DEFINE e == at[Switch]
<1>1. /\ Domains /\ Serving /\ Switch \in Tasks /\ Switch \notin Coroutines
      /\ pc[Switch] = "unload" /\ e \in Engines
      /\ UNCHANGED <<dispatched, emodel, flagged, waiters, goal, switching, at>>
      /\ \A d \in Engines : d \in Nat
  BY AtMostOneMoves, PoolAssumption
     DEF SwitchUnloads, Awakes, Serving, poolVars, Working, Engines
<1>2. Moves(Switch, "set") /\ Only(e) /\ est'[e] = "PAUSED"
  BY <1>1, SwitchUnloadMoves, EngineMoves
<1>3. \A d \in Engines : /\ est'[d] = "RUNNING" => est[d] = "RUNNING" /\ loaded'[d] = loaded[d]
                         /\ d < e => est'[d] = est[d]
  BY <1>1, <1>2 DEF Only
<1> QED
  BY <1>1, <1>2, <1>3 DEF Serving, Moves, Tasks

\* The model is set while the engine has none in VRAM, and it is loaded.
LEMMA SwitchSetsServes ==
    ASSUME IInv, Untouched, SwitchSets
    PROVE  Serving'
<1> DEFINE e == at[Switch]
<1>1. /\ Domains /\ Serving /\ Switch \in Tasks /\ Switch \notin Coroutines
      /\ pc[Switch] = "set" /\ e \in Engines /\ est[e] = "PAUSED" /\ ~Busy(e)
      /\ emodel' = [emodel EXCEPT ![e] = goal]
      /\ UNCHANGED <<dispatched, loaded, flagged, holder, goal, switching>>
      /\ \A d \in Engines : d \in Nat
  BY AtMostOneMoves, PoolAssumption
     DEF SwitchSets, Serving, poolVars, Working, Engines
<1>2. ResumeEngine(Switch) /\ UNCHANGED waiters
  BY <1>1 DEF SwitchSets
<1>3. Only(e) /\ est'[e] = "LOADING" /\ Moves(Switch, "load") /\ at'[Switch] = e
  BY <1>1, <1>2, EngineMoves
<1>4. \A d \in Engines : /\ est'[d] = "RUNNING" => est[d] = "RUNNING" /\ emodel'[d] = emodel[d]
                         /\ d < e => est'[d] = est[d] /\ emodel'[d] = emodel[d]
                         /\ d = e => emodel'[d] = goal
  BY <1>1, <1>3 DEF Only, Domains
<1> QED
  BY <1>1, <1>2, <1>3, <1>4 DEF Serving, Moves, Tasks

\* The engine serves what it was set to, and the switch goes on.
LEMMA SwitchLoadedServes ==
    ASSUME IInv, Untouched, ResumeLoaded(Switch)
    PROVE  Serving'
<1> DEFINE e == at[Switch]
<1>1. /\ Domains /\ Serving /\ Located /\ Switch \in Tasks /\ Switch \notin Coroutines
      /\ pc[Switch] = "load" /\ e \in Engines /\ ~flagged[e] /\ emodel[e] = goal
      /\ flagged' = [flagged EXCEPT ![e] = FALSE]
      /\ UNCHANGED <<dispatched, emodel, waiters, goal, switching>>
      /\ \A d \in Engines : d \in Nat
  BY AtMostOneMoves, PoolAssumption
     DEF IInv, ResumeLoaded, Awakes, Serving, poolVars, Working, Engines
<1>2. Only(e) /\ est'[e] = "RUNNING" /\ Moves(Switch, "switch") /\ loaded'[e] = emodel[e]
  BY <1>1, LoadedMoves
<1>3. at'[Switch] = e + 1
  BY <1>1 DEF ResumeLoaded, NextEngine, GoOn, Domains
<1>4. \A d \in Engines : ~flagged'[d]
  BY <1>1 DEF Serving, Domains
<1>5. \A d \in Engines : est'[d] = "RUNNING" => loaded'[d] = emodel[d]
  BY <1>1, <1>2 DEF Only, Serving
<1>6. \A d \in Engines : d < e + 1 => est'[d] = "RUNNING" /\ emodel[d] = goal
  <2> SUFFICES ASSUME NEW d \in Engines, d < e + 1 PROVE est'[d] = "RUNNING" /\ emodel[d] = goal
    OBVIOUS
  <2>1. d < e \/ d = e
    BY <1>1
  <2> QED
    BY <1>1, <1>2, <2>1 DEF Serving, Only
<1> QED
  BY <1>1, <1>2, <1>3, <1>4, <1>5, <1>6 DEF Serving, Moves, Tasks

\* While the listener calls nothing, what the pool serves is what it reports.
LEMMA SteadyNext == IInv /\ [Next]_vars => Steady'
<1> SUFFICES ASSUME IInv, [Next]_vars, Untouched' PROVE Serving'
  BY DEF Steady
<1>1. Untouched /\ Domains /\ Serving
  BY UntouchedBefore, AtMostOneMoves
<1>2. CASE UNCHANGED vars \/ PauseTimesOut \/ \E m \in Models : Request(m)
  <2>1. UNCHANGED <<engineVars, poolVars, dispatched, pc, at, goal>>
    BY <1>2 DEF vars, PauseTimesOut, Request, engineVars, locks, poolVars, tasks
  <2> QED
    BY <1>1, <2>1 DEF Serving, CurrentModel, engineVars, locks, poolVars
<1>3. ~DispatchResume /\ ~DispatchPause
  BY PoolAssumption DEF DispatchResume, DispatchPause, Untouched
<1>4. ASSUME NEW m \in Models, SwitchStarts(m) PROVE Serving'
  BY <1>1, <1>4, SwitchStartsServes
<1>5. CASE SwitchStep
  <2>1. ~SwitchLocks
    BY <1>1 DEF SwitchLocks, Serving
  <2> QED
    BY <1>1, <1>5, <2>1, SwitchNextServes, SwitchPausesServes, SwitchUnloadsServes,
       SwitchSetsServes
       DEF SwitchStep
<1>6. ASSUME NEW t \in Tasks, TaskStep(t) PROVE Serving'
  <2>1. t = Switch
    BY <1>1, <1>6, AtMostOneMoves DEF Tasks
  <2>2. ~ResumeLocks(Switch) /\ ~ResumeDropped(Switch)
    BY <1>1 DEF ResumeLocks, ResumeDropped, Awakes, Serving
  <2> QED
    BY <1>1, <1>6, <2>1, <2>2, SwitchLoadedServes DEF TaskStep
<1>7. \A t \in Coroutines : ~ListenerStep(t)
  BY <1>1, AtMostOneMoves
<1> QED
  BY <1>2, <1>3, <1>4, <1>5, <1>6, <1>7 DEF Next

-----------------------------------------------------------------------------
(* The theorems.                                                           *)

\* A worker starts with all its engines loaded, or with none.
LEMMA InitIInv == Init => IInv
<1> SUFFICES ASSUME Init PROVE IInv
  OBVIOUS
<1>1. /\ 1 \in Engines /\ 1 \in 1..(N + 1) /\ Switch \in Tasks /\ NONE \notin Tasks
      /\ Configured \in Models
  BY PoolAssumption, FirstEngine DEF Tasks
<1>2. << >> \in Seq(Tasks) /\ << >> \in Seq({"pause", "resume"}) /\ Len(<< >>) = 0
  BY EmptySeq
<1>3. Domains
  BY <1>1, <1>2 DEF Init, Domains, Labels
<1>4. Located /\ Locks /\ Loads /\ Empty
  BY <1>1 DEF Init, Located, Working, Locks, Loads, Empty
<1>5. Lone
  <2>1. want = "yield" => \A e \in Engines : est[e] = "PAUSED"
    BY <1>1 DEF Init
  <2>2. \A e \in Engines : Covered(e)
    BY <1>2 DEF Init, Covered
  <2>3. want = "yield" => \A e \in Engines : Subsides(e)
    BY <2>1, <2>2 DEF Subsides
  <2> QED
    BY <1>1, <2>3 DEF Init, Lone, Aborted
<1>6. NoResume
  BY <1>2 DEF Init, NoResume
<1>7. Steady
  <2>1. \A e \in Engines : est[e] = "RUNNING" => loaded[e] = Configured
    BY DEF Init
  <2> QED
    BY <1>1, <2>1 DEF Init, Steady, Serving, CurrentModel, Tasks
<1> QED
  BY <1>3, <1>4, <1>5, <1>6, <1>7 DEF IInv

\* Every step keeps the invariant.
LEMMA NextIInv == IInv /\ [Next]_vars => IInv'
BY DomainsNext, LocatedNext, LocksNext, LoadsNext, EmptyNext, LoneNext, NoResumeNext, SteadyNext
   DEF IInv

\* The invariant holds in every reachable state.
LEMMA SpecIInv == Spec => []IInv
BY InitIInv, NextIInv, PTL DEF Spec

\* The state keeps its types: an engine holds its lock exactly while it unloads, and one
\* that is loading has exactly one coroutine that loads it.
THEOREM TypeCorrect == Spec => []TypeOK
<1>1. IInv => TypeOK
  <2> SUFFICES ASSUME IInv PROVE TypeOK
    OBVIOUS
  <2>1. Domains /\ Locks /\ Loads
    BY DEF IInv
  <2>2. \A e \in Engines : (holder[e] # NONE) = (est[e] = "UNLOADING")
    BY <2>1 DEF Locks
  <2>3. ASSUME NEW e \in Engines, est[e] = "LOADING"
        PROVE  Cardinality({t \in Tasks : pc[t] = "load" /\ at[t] = e}) = 1
    <3>1. PICK t \in Tasks : pc[t] = "load" /\ at[t] = e
      BY <2>1, <2>3 DEF Loads
    <3>2. {u \in Tasks : pc[u] = "load" /\ at[u] = e} = {t}
      BY <2>1, <3>1 DEF Loads
    <3> QED
      BY <3>2, FS_Singleton
  <2> QED
    BY <2>1, <2>2, <2>3 DEF TypeOK
<1> QED
  BY <1>1, SpecIInv, PTL

\* However many pauses and resumes overlap, and on however many engines: when all have
\* returned and the last call was a pause, no engine holds VRAM, unless a request has
\* switched the model.
THEOREM LoneYieldUnloads == Spec => []LoneYieldUnloadsAll
<1>1. IInv => LoneYieldUnloadsAll
  <2> SUFFICES ASSUME IInv, ~switched, Quiet, want = "yield", NEW e \in Engines
               PROVE  loaded[e] = NONE
    BY DEF LoneYieldUnloadsAll, YieldUnloadsAll
  <2>1. /\ Domains /\ Locks /\ Loads /\ Empty
        /\ \A t \in Tasks : pc[t] = "idle"
        /\ Subsides(e)
    BY DEF IInv, Lone, Quiet
  <2>2. ~PauseWaits(e)
    <3>1. \A i \in 1..Len(waiters[e]) : waiters[e][i] \in Tasks
      BY <2>1, SeqFacts DEF Domains
    <3> QED
      BY <2>1, <3>1 DEF PauseWaits
  <2>3. est[e] # "RUNNING"
    BY <2>1, <2>2 DEF Subsides
  <2>4. est[e] # "LOADING"
    BY <2>1 DEF Loads
  <2>5. est[e] # "UNLOADING"
    <3>1. ASSUME est[e] = "UNLOADING" PROVE FALSE
      <4>1. holder[e] \in Tasks
        BY <2>1, <3>1 DEF Locks, Domains
      <4> QED
        BY <2>1, <4>1 DEF Locks
    <3> QED
      BY <3>1
  <2> QED
    BY <2>1, <2>3, <2>4, <2>5 DEF Domains, Empty
<1> QED
  BY <1>1, SpecIInv, PTL

\* As long as the listener has called neither pause nor resume, a pool that reports
\* RUNNING serves the model it reports with every engine that takes requests, through
\* any number of switches to any models.
THEOREM SteadyPoolIsHonest == Spec => []SteadyStatusIsHonest
<1>1. IInv => SteadyStatusIsHonest
  <2> SUFFICES ASSUME IInv, Untouched, ~switching, NEW e \in Engines, est[e] = "RUNNING"
               PROVE  loaded[e] = CurrentModel
    BY DEF SteadyStatusIsHonest, StatusIsHonest, PoolStatus, Available, Untouched
  <2>1. Serving
    BY DEF IInv, Steady
  <2> QED
    BY <2>1 DEF Serving
<1> QED
  BY <1>1, SpecIInv, PTL
=============================================================================
