---------------------------- MODULE EngineProofs ----------------------------
(***************************************************************************)
(* Proofs about Engine.tla for any number of callers, switchers, models,   *)
(* requests, retries and crashes: its types and invariants, and that it    *)
(* implements EngineContract.                                              *)
(*                                                                         *)
(* The argument rests on _transition_lock being first in, first out: a     *)
(* queue forms only while a core is being destroyed, and it is worked off  *)
(* before the event loop does anything else.  So no block of an unload, a  *)
(* load or a recovery but the first ever waits for the lock.               *)
(***************************************************************************)
EXTENDS Engine, TLAPS

\* Where a task sleeps with the lock: it waits for a core to be gone.
Holding == {"destroying", "unloading", "reaping"}

\* Where a task may be queued for the lock.
Queueing == {"pause", "drained", "resume"}

\* Where a task always goes on at once.
Immediate == {"destroy", "loaded", "giveUp", "reap", "switchPaused", "switchDone",
              "recoverDone"}

Returns == {"idle", "switchPaused", "switchDone", "recoverDone"}

Loading == {"vram", "loaded", "unloading", "giveUp"}

Unloading == {"destroy", "destroying"}

InQueue(t, s) == \E i \in DOMAIN s : s[i] = t

Distinct(s) == \A i, j \in DOMAIN s : s[i] = s[j] => i = j

\* The lock has at most one holder, nobody goes on while it is held, and a queued
\* task is at the block it waits for.
Sync ==
    /\ \A t \in Tasks : pc[t] \in Holding <=> lock = t
    /\ running # NONE => lock = NONE
    /\ running # NONE => pc[running] \notin Suspension \cup Holding
    /\ \A t \in Tasks : InQueue(t, waiters) => pc[t] \in Queueing /\ running # t
    /\ \A t \in Tasks : pc[t] \in Immediate => running = t

\* Whose doing the state is.
Owned ==
    /\ \A t \in Tasks : pc[t] \in Loading => state = "LOADING"
    /\ \A t, u \in Tasks : pc[t] \in Loading /\ pc[u] \in Loading => t = u
    /\ \A t \in Tasks : pc[t] \in Unloading => state = "UNLOADING"
    /\ state = "UNLOADING" => \E t \in Tasks : pc[t] \in Unloading
    /\ \A t \in Tasks : pc[t] \in {"reap", "reaping"} => state = "DEAD"
    /\ ~pendingResume

\* What the state and the places of the tasks say of the engine.
EngineKnown ==
    /\ state = "RUNNING" => engine = model
    /\ state = "PAUSED" => engine = NONE
    /\ engine # NONE => lock = NONE /\ waiters = << >>
    /\ waiters # << >> /\ lock = NONE => state \in {"PAUSED", "LOADING"}
    /\ \A t \in Tasks : pc[t] \in {"destroy", "reap"} => engine # NONE
    /\ \A t \in Tasks : pc[t] = "loaded" => engine = model
    /\ \A t \in Tasks : pc[t] \in {"vram", "giveUp"} => engine = NONE

\* A core lives from its creation to the end of its destruction, or its crash.
CoreCounted ==
    /\ cores = IF (engine # NONE \/ lock # NONE) /\ ~coreDead THEN 1 ELSE 0
    /\ coreDead => engine # NONE \/ lock # NONE
    /\ doomed > 0 => engine # NONE /\ coreDead

\* Where pause and resume return to, and what a switch is for.
Returning ==
    /\ \A t \in Tasks : ret[t] \in Returns
    /\ \A t \in Tasks :
         pc[t] \in Loading \cup {"resume", "reap", "reaping"} => ret[t] # "switchPaused"
    /\ \A t \in Tasks :
         ret[t] = "switchPaused" \/ pc[t] \in {"switchDrain", "switchPaused"}
            => goal[t] \in Models
    /\ \A t \in Tasks : pc[t] = "switchPaused" => state # "RUNNING"

IInv == TypeOK /\ Sync /\ Owned /\ EngineKnown /\ CoreCounted /\ Returning

-----------------------------------------------------------------------------
(* The lock.                                                               *)

\* A queue of tasks that do not occur in it twice takes one more.
LEMMA AppendQueue ==
    ASSUME NEW S, NEW s \in Seq(S), NEW e \in S, Distinct(s), ~InQueue(e, s)
    PROVE  /\ Append(s, e) \in Seq(S)
           /\ Append(s, e) # << >>
           /\ Distinct(Append(s, e))
           /\ \A x : InQueue(x, Append(s, e)) => InQueue(x, s) \/ x = e
<1>1. /\ Append(s, e) \in Seq(S) /\ Append(s, e) # << >>
      /\ DOMAIN Append(s, e) = DOMAIN s \cup {Len(s) + 1}
      /\ \A i \in DOMAIN s : Append(s, e)[i] = s[i]
      /\ Append(s, e)[Len(s) + 1] = e
  OBVIOUS
<1>2. Distinct(Append(s, e))
  <2> SUFFICES ASSUME NEW i \in DOMAIN Append(s, e), NEW j \in DOMAIN Append(s, e),
                      Append(s, e)[i] = Append(s, e)[j]
               PROVE  i = j
    BY DEF Distinct
  <2>1. CASE i \in DOMAIN s /\ j \in DOMAIN s
    BY <1>1, <2>1 DEF Distinct
  <2>2. CASE i \notin DOMAIN s \/ j \notin DOMAIN s
    BY <1>1, <2>2 DEF InQueue
  <2> QED
    BY <2>1, <2>2
<1> QED
  BY <1>1, <1>2 DEF InQueue

\* Its head leaves a queue of the others.
LEMMA TailQueue ==
    ASSUME NEW S, NEW s \in Seq(S), s # << >>, Distinct(s)
    PROVE  /\ Tail(s) \in Seq(S) /\ Distinct(Tail(s))
           /\ Head(s) \in S /\ InQueue(Head(s), s)
           /\ \A x : InQueue(x, Tail(s)) => InQueue(x, s) /\ x # Head(s)
<1>1. /\ Tail(s) \in Seq(S) /\ Head(s) \in S /\ Head(s) = s[1] /\ 1 \in DOMAIN s
      /\ \A i \in DOMAIN Tail(s) : i + 1 \in DOMAIN s /\ Tail(s)[i] = s[i + 1] /\ i + 1 # 1
      /\ \A i \in DOMAIN Tail(s) : i \in Nat
  OBVIOUS
<1>2. \A i, j \in DOMAIN Tail(s) : i + 1 = j + 1 => i = j
  BY <1>1
<1>3. Distinct(Tail(s))
  BY <1>1, <1>2 DEF Distinct
<1> QED
  BY <1>1, <1>3 DEF InQueue, Distinct

\* The domains of what the lock's operations change.
SyncTypes ==
    /\ lock \in Tasks \cup {NONE}
    /\ waiters \in Seq(Tasks)
    /\ Distinct(waiters)
    /\ running \in Tasks \cup {NONE}
    /\ pc \in [Tasks -> Labels]

\* NONE stands for nobody.
LEMMA NoneIsNoTask == NONE \notin Tasks
  BY EngineAssumption DEF Tasks

\* A task that is neither queued nor holds the lock comes to a block, which is one
\* where it may have to queue, unless the lock is free.
LEMMA AcquireKeeps ==
    ASSUME SyncTypes, Sync, NEW t \in Tasks, NEW label \in Queueing \cup Immediate,
           ~InQueue(t, waiters), pc[t] \notin Holding, running \in {NONE, t},
           label \in Queueing \/ (lock = NONE /\ waiters = << >>),
           Acquire(t, label)
    PROVE  /\ SyncTypes' /\ Sync'
           /\ pc' = [pc EXCEPT ![t] = label]
           /\ lock' = lock
           /\ lock = NONE /\ waiters = << >> => waiters' = << >> /\ running' = t
<1> DEFINE Free == lock = NONE /\ waiters = << >>
<1>1. /\ pc' = [pc EXCEPT ![t] = label] /\ lock' = lock
      /\ Free => running' = t /\ waiters' = waiters
      /\ ~Free => running' = NONE /\ waiters' = Append(waiters, t)
  BY DEF Acquire, Enter
<1>2. label \in Labels /\ label \notin Suspension \cup Holding
  BY DEF Queueing, Immediate, Labels, Suspension, Holding
<1>3. /\ Append(waiters, t) \in Seq(Tasks) /\ Distinct(Append(waiters, t))
      /\ \A x : InQueue(x, Append(waiters, t)) => InQueue(x, waiters) \/ x = t
  BY AppendQueue DEF SyncTypes
<1>4. SyncTypes'
  BY <1>1, <1>2, <1>3 DEF SyncTypes
<1>5. Sync'
  <2>1. \A u \in Tasks : pc'[u] \in Holding <=> lock' = u
    BY <1>1, <1>2 DEF Sync, SyncTypes
  <2>2. running' # NONE => lock' = NONE /\ pc'[running'] \notin Suspension \cup Holding
    BY <1>1, <1>2 DEF SyncTypes
  <2>3. \A u \in Tasks : InQueue(u, waiters') => pc'[u] \in Queueing /\ running' # u
    <3>1. CASE Free
      BY <1>1, <3>1 DEF SyncTypes, InQueue
    <3>2. CASE ~Free
      BY <1>1, <1>3, <3>2, NoneIsNoTask DEF Sync, SyncTypes
    <3> QED
      BY <3>1, <3>2
  <2>4. \A u \in Tasks : pc'[u] \in Immediate => running' = u
    BY <1>1, NoneIsNoTask DEF Sync, SyncTypes, Queueing, Immediate
  <2> QED
    BY <2>1, <2>2, <2>3, <2>4 DEF Sync
<1> QED
  BY <1>1, <1>4, <1>5

\* What a task that has the lock knows, and what it leaves behind.
LEMMA LockedQueue ==
    ASSUME SyncTypes, Sync, NEW t \in Tasks, NEW l, Locked(t, l)
    PROVE  /\ lock = NONE /\ pc[t] = l /\ running \in {NONE, t}
           /\ Queue(t) \in Seq(Tasks) /\ Distinct(Queue(t))
           /\ \A x : InQueue(x, Queue(t)) => InQueue(x, waiters) /\ x # t
           /\ waiters = << >> => running = t /\ Queue(t) = << >>
           /\ l \notin Queueing => running = t
<1>1. /\ lock = NONE /\ pc[t] = l
      /\ running = t \/ (running = NONE /\ waiters # << >> /\ Head(waiters) = t)
  BY DEF Locked
<1>2. CASE running = t
  BY <1>1, <1>2 DEF Queue, SyncTypes, Sync, InQueue
<1>3. CASE running # t
  BY <1>1, <1>3, TailQueue DEF Queue, SyncTypes, Sync
<1> QED
  BY <1>1, <1>2, <1>3

\* A block ends, ...
LEMMA LeaveKeeps ==
    ASSUME SyncTypes, Sync, NEW t \in Tasks, NEW l, Locked(t, l),
           NEW label \in Labels \ (Holding \cup Queueing), Leave(t, label)
    PROVE  /\ SyncTypes' /\ Sync'
           /\ pc' = [pc EXCEPT ![t] = label]
           /\ lock' = NONE
           /\ waiters = << >> => waiters' = << >>
<1>1. /\ pc' = [pc EXCEPT ![t] = label] /\ lock' = lock /\ waiters' = Queue(t)
      /\ running' = IF label \in Suspension THEN NONE ELSE t
  BY DEF Leave, Goto
<1>2. /\ lock = NONE /\ pc[t] = l /\ running \in {NONE, t}
      /\ Queue(t) \in Seq(Tasks) /\ Distinct(Queue(t))
      /\ \A x : InQueue(x, Queue(t)) => InQueue(x, waiters) /\ x # t
      /\ waiters = << >> => Queue(t) = << >>
  BY LockedQueue
<1>3. SyncTypes'
  BY <1>1, <1>2 DEF SyncTypes
<1>4. Sync'
  <2>1. \A u \in Tasks : pc'[u] \in Holding <=> lock' = u
    BY <1>1, <1>2, NoneIsNoTask DEF Sync, SyncTypes
  <2>2. running' # NONE => lock' = NONE /\ pc'[running'] \notin Suspension \cup Holding
    BY <1>1, <1>2 DEF SyncTypes
  <2>3. \A u \in Tasks : InQueue(u, waiters') => pc'[u] \in Queueing /\ running' # u
    BY <1>1, <1>2, NoneIsNoTask DEF Sync, SyncTypes
  <2>4. \A u \in Tasks : pc'[u] \in Immediate => running' = u
    BY <1>1, <1>2, NoneIsNoTask DEF Sync, SyncTypes, Immediate, Suspension
  <2> QED
    BY <2>1, <2>2, <2>3, <2>4 DEF Sync
<1> QED
  BY <1>1, <1>2, <1>3, <1>4

\* ... is followed by another one at once, if nobody is queued, ...
LEMMA LeaveAndAcquireKeeps ==
    ASSUME SyncTypes, Sync, NEW t \in Tasks, NEW l, Locked(t, l), waiters = << >>,
           NEW label \in Queueing \cup Immediate, LeaveAndAcquire(t, label)
    PROVE  /\ SyncTypes' /\ Sync'
           /\ pc' = [pc EXCEPT ![t] = label]
           /\ lock' = NONE /\ waiters' = << >>
<1>1. /\ lock = NONE /\ pc[t] = l /\ running = t /\ Queue(t) = << >>
  BY LockedQueue
<1>2. Acquire(t, label)
  BY <1>1 DEF LeaveAndAcquire, Acquire
<1>3. ~InQueue(t, waiters)
  BY DEF InQueue
<1>4. pc[t] \notin Holding
  BY <1>1, NoneIsNoTask DEF Sync
<1> QED
  BY <1>1, <1>2, <1>3, <1>4, AcquireKeeps

\* ... or sleeps with the lock, ...
LEMMA HoldKeeps ==
    ASSUME SyncTypes, Sync, NEW t \in Tasks, NEW l, Locked(t, l),
           NEW label \in Holding, Hold(t, label)
    PROVE  /\ SyncTypes' /\ Sync'
           /\ pc' = [pc EXCEPT ![t] = label]
           /\ lock' = t
<1>1. /\ pc' = [pc EXCEPT ![t] = label] /\ lock' = t /\ waiters' = Queue(t)
      /\ running' = NONE
  BY DEF Hold
<1>2. /\ lock = NONE /\ pc[t] = l /\ running \in {NONE, t}
      /\ Queue(t) \in Seq(Tasks) /\ Distinct(Queue(t))
      /\ \A x : InQueue(x, Queue(t)) => InQueue(x, waiters) /\ x # t
  BY LockedQueue
<1>3. label \in Labels /\ label \notin Immediate
  BY DEF Holding, Labels, Immediate
<1>4. SyncTypes'
  BY <1>1, <1>2, <1>3 DEF SyncTypes
<1>5. Sync'
  <2>1. \A u \in Tasks : pc'[u] \in Holding <=> lock' = u
    BY <1>1, <1>2, NoneIsNoTask DEF Sync, SyncTypes
  <2>2. \A u \in Tasks : InQueue(u, waiters') => pc'[u] \in Queueing /\ running' # u
    BY <1>1, <1>2, NoneIsNoTask DEF Sync, SyncTypes
  <2>3. \A u \in Tasks : pc'[u] \in Immediate => running' = u
    BY <1>1, <1>2, <1>3, NoneIsNoTask DEF Sync, SyncTypes
  <2> QED
    BY <1>1, <2>1, <2>2, <2>3 DEF Sync
<1> QED
  BY <1>1, <1>4, <1>5

\* ... until it gives it back.
LEMMA UnlockKeeps ==
    ASSUME SyncTypes, Sync, NEW t \in Tasks, NEW l \in Holding, Resumes(t, l),
           NEW label \in Labels \ (Holding \cup Queueing), Unlock(t, label)
    PROVE  /\ SyncTypes' /\ Sync'
           /\ pc' = [pc EXCEPT ![t] = label]
           /\ lock = t /\ lock' = NONE
<1>1. /\ pc' = [pc EXCEPT ![t] = label] /\ lock' = NONE /\ waiters' = waiters
      /\ running' = IF label \in Suspension THEN NONE ELSE t
  BY DEF Unlock, Goto
<1>2. pc[t] = l /\ lock = t /\ running = NONE
  BY DEF Resumes, Sync
<1>3. ~InQueue(t, waiters)
  BY <1>2 DEF Sync, Holding, Queueing
<1>4. SyncTypes'
  BY <1>1 DEF SyncTypes
<1>5. Sync'
  <2>1. \A u \in Tasks : pc'[u] \in Holding <=> lock' = u
    BY <1>1, <1>2, NoneIsNoTask DEF Sync, SyncTypes
  <2>2. running' # NONE => lock' = NONE /\ pc'[running'] \notin Suspension \cup Holding
    BY <1>1 DEF SyncTypes
  <2>3. \A u \in Tasks : InQueue(u, waiters') => pc'[u] \in Queueing /\ running' # u
    BY <1>1, <1>2, <1>3, NoneIsNoTask DEF Sync, SyncTypes
  <2>4. \A u \in Tasks : pc'[u] \in Immediate => running' = u
    BY <1>1, <1>2, NoneIsNoTask DEF Sync, SyncTypes, Immediate, Suspension
  <2> QED
    BY <2>1, <2>2, <2>3, <2>4 DEF Sync
<1> QED
  BY <1>1, <1>2, <1>4, <1>5

\* A task goes on without the lock.
LEMMA GotoKeeps ==
    ASSUME SyncTypes, Sync, NEW t \in Tasks, NEW label \in Labels \ (Holding \cup Queueing),
           ~InQueue(t, waiters), pc[t] \notin Holding, running \in {NONE, t},
           lock = NONE \/ label \in Suspension,
           Goto(t, label), UNCHANGED <<lock, waiters>>
    PROVE  /\ SyncTypes' /\ Sync'
           /\ pc' = [pc EXCEPT ![t] = label]
<1>1. /\ pc' = [pc EXCEPT ![t] = label] /\ lock' = lock /\ waiters' = waiters
      /\ running' = IF label \in Suspension THEN NONE ELSE t
  BY DEF Goto
<1>2. SyncTypes'
  BY <1>1 DEF SyncTypes
<1>3. Sync'
  <2>1. \A u \in Tasks : pc'[u] \in Holding <=> lock' = u
    BY <1>1, NoneIsNoTask DEF Sync, SyncTypes
  <2>2. running' # NONE => lock' = NONE /\ pc'[running'] \notin Suspension \cup Holding
    BY <1>1 DEF SyncTypes
  <2>3. \A u \in Tasks : InQueue(u, waiters') => pc'[u] \in Queueing /\ running' # u
    BY <1>1, NoneIsNoTask DEF Sync, SyncTypes
  <2>4. \A u \in Tasks : pc'[u] \in Immediate => running' = u
    BY <1>1, NoneIsNoTask DEF Sync, SyncTypes, Immediate, Suspension
  <2> QED
    BY <2>1, <2>2, <2>3, <2>4 DEF Sync
<1> QED
  BY <1>1, <1>2, <1>3

-----------------------------------------------------------------------------
(* Steps that leave the engine and its state alone.                        *)

\* The domains of what the lock's operations leave alone.
Domains ==
    /\ state \in EngineState
    /\ engine \in Models \cup {NONE}
    /\ model \in Models
    /\ accepting \in BOOLEAN
    /\ pendingPause \in BOOLEAN
    /\ pendingResume \in BOOLEAN
    /\ recovering \in BOOLEAN
    /\ active \in 0..MaxRequests
    /\ doomed \in 0..active
    /\ coreDead \in BOOLEAN
    /\ ret \in [Tasks -> Labels]
    /\ urgency \in [Tasks -> Urgency]
    /\ attempt \in [Tasks -> 1..MaxAttempts]
    /\ goal \in [Tasks -> Models \cup {NONE}]
    /\ want \in {"yield", "run"}
    /\ crashes \in 0..MaxCrashes

\* The types are those of the lock, the number of cores and the others.
LEMMA TypesSplit == TypeOK => Domains /\ SyncTypes
  BY DEF TypeOK, Domains, SyncTypes, Distinct

\* A state with all the parts has the invariant.
LEMMA InvariantJoins ==
    ASSUME Domains', SyncTypes', Sync', Owned', EngineKnown', CoreCounted', Returning'
    PROVE  IInv'
<1>1. TypeOK'
  BY DEF TypeOK, Domains, SyncTypes, CoreCounted, Distinct
<1> QED
  BY <1>1 DEF IInv

\* The invariant part by part.
LEMMA InvariantParts ==
    ASSUME IInv
    PROVE  Domains /\ SyncTypes /\ Sync /\ Owned /\ EngineKnown /\ CoreCounted /\ Returning
  BY TypesSplit DEF IInv

\* Where a task has nothing to do with the engine.
Neutral == Labels \ (Loading \cup Unloading \cup {"reap", "reaping"})

\* A step of one task that stays neutral.
LEMMA QuietKeeps ==
    ASSUME IInv, NEW t \in Tasks, NEW label \in Neutral, pc[t] \in Neutral,
           SyncTypes', Sync', pc' = [pc EXCEPT ![t] = label],
           UNCHANGED <<state, engineVars, pendingResume, doomed, lock>>,
           lock = NONE /\ waiters = << >> => waiters' = << >>,
           Domains', Returning'
    PROVE  IInv'
<1>1. Owned'
  BY InvariantParts DEF Owned, Neutral, engineVars, SyncTypes
<1>2. EngineKnown'
  <2>1. label \notin {"destroy", "reap", "loaded", "vram", "giveUp"}
    BY DEF Neutral, Loading, Unloading
  <2> QED
    BY <2>1, InvariantParts DEF EngineKnown, engineVars, SyncTypes
<1>3. CoreCounted'
  BY InvariantParts DEF CoreCounted, engineVars
<1> QED
  BY <1>1, <1>2, <1>3, InvariantJoins

\* A task that is idle, drains or goes on is not queued.
LEMMA NotQueued ==
    ASSUME IInv, NEW t \in Tasks, pc[t] \notin Queueing
    PROVE  ~InQueue(t, waiters)
  BY DEF IInv, Sync

\* A call or a drain's end: the first block of pause.
LEMMA CallPauseKeeps ==
    ASSUME IInv, NEW t \in Tasks, NEW u \in Urgency, NEW back \in {"idle", "switchPaused"},
           pc[t] \in {"idle", "drain", "switchDrain"}, running = NONE,
           CallPause(t, u, back),
           UNCHANGED <<state, engineVars, pendingPause, pendingResume, recovering, requests,
                       attempt, crashes>>,
           accepting' \in BOOLEAN,
           want' \in {"yield", "run"},
           goal' \in [Tasks -> Models \cup {NONE}],
           \A s \in Tasks : goal[s] \in Models => goal'[s] \in Models,
           back = "switchPaused" => goal'[t] \in Models
    PROVE  IInv'
<1>1. /\ Acquire(t, "pause")
      /\ ret' = [ret EXCEPT ![t] = back]
      /\ urgency' = [urgency EXCEPT ![t] = u]
  BY DEF CallPause
<1>2. /\ SyncTypes' /\ Sync' /\ pc' = [pc EXCEPT ![t] = "pause"] /\ lock' = lock
      /\ lock = NONE /\ waiters = << >> => waiters' = << >>
  <2>1. /\ ~InQueue(t, waiters) /\ pc[t] \notin Holding /\ running \in {NONE, t}
        /\ "pause" \in Queueing
    BY NotQueued DEF Queueing, Holding
  <2> QED
    BY <1>1, <2>1, InvariantParts, AcquireKeeps
<1>3. Domains'
  BY <1>1, InvariantParts DEF Domains, engineVars, requests, Labels
<1>4. Returning'
  <2>1. "pause" \notin Loading \cup {"resume", "reap", "reaping", "switchDrain", "switchPaused"}
    BY DEF Loading
  <2>2. back \in Returns
    BY DEF Returns
  <2> QED
    BY <1>1, <1>2, <2>1, <2>2, InvariantParts DEF Returning, SyncTypes, Domains
<1>5. "pause" \in Neutral /\ pc[t] \in Neutral
  BY DEF Neutral, Labels, Loading, Unloading
<1> QED
  BY <1>2, <1>3, <1>4, <1>5, QuietKeeps DEF requests

\* The listener calls pause.
LEMMA PauseCalledKeeps ==
    ASSUME IInv, NEW t \in Tasks, NEW u \in Urgency, PauseCalled(t, u)
    PROVE  IInv'
  BY CallPauseKeeps, InvariantParts DEF PauseCalled, Resumes, flags, Domains

\* The listener calls resume.
LEMMA ResumeCalledKeeps ==
    ASSUME IInv, NEW t \in Tasks, ResumeCalled(t)
    PROVE  IInv'
<1>1. /\ pc[t] = "idle" /\ running = NONE
      /\ Acquire(t, "resume")
      /\ ret' = [ret EXCEPT ![t] = "idle"] /\ want' = "run"
      /\ UNCHANGED <<state, engineVars, flags, requests, urgency, attempt, goal, crashes>>
  BY DEF ResumeCalled, Resumes
<1>2. /\ SyncTypes' /\ Sync' /\ pc' = [pc EXCEPT ![t] = "resume"] /\ lock' = lock
      /\ lock = NONE /\ waiters = << >> => waiters' = << >>
  <2>1. /\ ~InQueue(t, waiters) /\ pc[t] \notin Holding /\ running \in {NONE, t}
        /\ "resume" \in Queueing
    BY <1>1, NotQueued DEF Queueing, Holding
  <2> QED
    BY <1>1, <2>1, InvariantParts, AcquireKeeps
<1>3. Domains'
  BY <1>1, InvariantParts DEF Domains, engineVars, flags, requests, Labels
<1>4. Returning'
  BY <1>1, <1>2, InvariantParts DEF Returning, Returns, SyncTypes, Domains
<1>5. "resume" \in Neutral /\ pc[t] \in Neutral
  BY <1>1 DEF Neutral, Labels, Loading, Unloading
<1> QED
  BY <1>1, <1>2, <1>3, <1>4, <1>5, QuietKeeps DEF requests, flags

\* A drain of pause ends.
LEMMA DrainEndsKeeps ==
    ASSUME IInv, NEW t \in Tasks, DrainEnds(t)
    PROVE  IInv'
<1>1. /\ pc[t] = "drain" /\ running = NONE
      /\ Acquire(t, "drained")
      /\ UNCHANGED <<state, engineVars, flags, requests, locals, env>>
  BY DEF DrainEnds, Resumes
<1>2. /\ SyncTypes' /\ Sync' /\ pc' = [pc EXCEPT ![t] = "drained"] /\ lock' = lock
      /\ lock = NONE /\ waiters = << >> => waiters' = << >>
  <2>1. /\ ~InQueue(t, waiters) /\ pc[t] \notin Holding /\ running \in {NONE, t}
        /\ "drained" \in Queueing
    BY <1>1, NotQueued DEF Queueing, Holding
  <2> QED
    BY <1>1, <2>1, InvariantParts, AcquireKeeps
<1>3. Domains'
  BY <1>1, InvariantParts DEF Domains, engineVars, flags, requests, locals, env
<1>4. Returning'
  BY <1>1, <1>2, InvariantParts DEF Returning, Loading, locals, SyncTypes
<1>5. "drained" \in Neutral /\ pc[t] \in Neutral
  BY <1>1 DEF Neutral, Labels, Loading, Unloading
<1> QED
  BY <1>1, <1>2, <1>3, <1>4, <1>5, QuietKeeps DEF requests, flags

\* switch_model is called: it drains, or pauses at once.
LEMMA SwitchCalledKeeps ==
    ASSUME IInv, NEW t \in Tasks, NEW m \in Models, SwitchCalled(t, m)
    PROVE  IInv'
<1>1. /\ pc[t] = "idle" /\ running = NONE /\ accepting' = FALSE
      /\ goal' = [goal EXCEPT ![t] = m]
      /\ UNCHANGED <<state, engineVars, pendingPause, pendingResume, recovering, requests,
                     attempt, env>>
  BY DEF SwitchCalled, Resumes
<1>2. /\ goal' \in [Tasks -> Models \cup {NONE}] /\ goal'[t] \in Models
      /\ \A s \in Tasks : goal[s] \in Models => goal'[s] \in Models
  BY <1>1, InvariantParts DEF Domains
<1>3. CASE active > 0
  <2>1. Goto(t, "switchDrain") /\ UNCHANGED <<lock, waiters, ret, urgency>>
    BY <1>3 DEF SwitchCalled
  <2>2. SyncTypes' /\ Sync' /\ pc' = [pc EXCEPT ![t] = "switchDrain"]
    <3>1. /\ ~InQueue(t, waiters) /\ pc[t] \notin Holding /\ running \in {NONE, t}
          /\ "switchDrain" \in Suspension
          /\ "switchDrain" \in Labels \ (Holding \cup Queueing)
      BY <1>1, NotQueued DEF Queueing, Holding, Suspension, Labels
    <3> QED
      BY <2>1, <3>1, InvariantParts, GotoKeeps
  <2>3. Domains'
    BY <1>1, <1>2, <2>1, InvariantParts DEF Domains, engineVars, requests, env
  <2>4. Returning'
    BY <1>1, <1>2, <2>1, <2>2, InvariantParts DEF Returning, Loading, SyncTypes
  <2>5. "switchDrain" \in Neutral /\ pc[t] \in Neutral
    BY <1>1 DEF Neutral, Labels, Loading, Unloading
  <2> QED
    BY <1>1, <2>1, <2>2, <2>3, <2>4, <2>5, QuietKeeps DEF requests
<1>4. CASE ~(active > 0)
  <2>1. CallPause(t, "NORMAL", "switchPaused") /\ "NORMAL" \in Urgency
    BY <1>4 DEF SwitchCalled, Urgency
  <2>2. want' \in {"yield", "run"} /\ crashes' = crashes
    BY <1>1, InvariantParts DEF Domains, env
  <2> QED
    BY <1>1, <1>2, <2>1, <2>2, CallPauseKeeps
<1> QED
  BY <1>3, <1>4

\* The drain of switch_model ends, and its pause begins.
LEMMA SwitchDrainedKeeps ==
    ASSUME IInv, NEW t \in Tasks, SwitchDrained(t)
    PROVE  IInv'
<1>1. /\ pc[t] = "switchDrain" /\ running = NONE
      /\ CallPause(t, "NORMAL", "switchPaused") /\ "NORMAL" \in Urgency
      /\ UNCHANGED <<state, engineVars, flags, requests, attempt, goal, env>>
  BY DEF SwitchDrained, Resumes, Urgency
<1>2. /\ goal' \in [Tasks -> Models \cup {NONE}] /\ goal'[t] \in Models
      /\ accepting' \in BOOLEAN /\ want' \in {"yield", "run"} /\ crashes' = crashes
  BY <1>1, InvariantParts DEF Domains, Returning, flags, env
<1> QED
  BY <1>1, <1>2, CallPauseKeeps DEF flags

\* switch_model returns.
LEMMA SwitchDoneKeeps ==
    ASSUME IInv, NEW t \in Tasks, SwitchDone(t)
    PROVE  IInv'
<1>1. /\ pc[t] = "switchDone" /\ running = t /\ Goto(t, "idle") /\ accepting' = TRUE
      /\ UNCHANGED <<state, engineVars, pendingPause, pendingResume, recovering, requests,
                     lock, waiters, locals, env>>
  BY DEF SwitchDone
<1>2. SyncTypes' /\ Sync' /\ pc' = [pc EXCEPT ![t] = "idle"]
  <2>1. /\ ~InQueue(t, waiters) /\ pc[t] \notin Holding /\ "idle" \in Suspension
        /\ "idle" \in Labels \ (Holding \cup Queueing)
    BY <1>1, NotQueued DEF Queueing, Holding, Suspension, Labels
  <2> QED
    BY <1>1, <2>1, InvariantParts, GotoKeeps
<1>3. Domains'
  BY <1>1, InvariantParts DEF Domains, engineVars, requests, locals, env
<1>4. Returning'
  BY <1>1, <1>2, InvariantParts DEF Returning, Loading, locals, SyncTypes
<1>5. "idle" \in Neutral /\ pc[t] \in Neutral
  BY <1>1 DEF Neutral, Labels, Loading, Unloading
<1> QED
  BY <1>1, <1>2, <1>3, <1>4, <1>5, QuietKeeps DEF requests

\* _recover_dead_engine returns.
LEMMA RecoverDoneKeeps ==
    ASSUME IInv, RecoverDone
    PROVE  IInv'
<1> DEFINE t == Recovery
<1>1. /\ t \in Tasks /\ pc[t] = "recoverDone" /\ running = t /\ Goto(t, "idle")
      /\ recovering' = FALSE
      /\ UNCHANGED <<state, engineVars, accepting, pendingPause, pendingResume, requests,
                     lock, waiters, locals, env>>
  BY DEF RecoverDone, Tasks
<1> HIDE DEF t
<1>2. SyncTypes' /\ Sync' /\ pc' = [pc EXCEPT ![t] = "idle"]
  <2>1. /\ ~InQueue(t, waiters) /\ pc[t] \notin Holding /\ "idle" \in Suspension
        /\ "idle" \in Labels \ (Holding \cup Queueing)
    BY <1>1, NotQueued DEF Queueing, Holding, Suspension, Labels
  <2> QED
    BY <1>1, <2>1, InvariantParts, GotoKeeps
<1>3. Domains'
  BY <1>1, InvariantParts DEF Domains, engineVars, requests, locals, env
<1>4. Returning'
  BY <1>1, <1>2, InvariantParts DEF Returning, Loading, locals, SyncTypes
<1>5. "idle" \in Neutral /\ pc[t] \in Neutral
  BY <1>1 DEF Neutral, Labels, Loading, Unloading
<1> QED
  BY <1>1, <1>2, <1>3, <1>4, <1>5, QuietKeeps DEF requests

-----------------------------------------------------------------------------
(* pause.                                                                  *)

\* Nobody waits for, loads or destroys an engine that is RUNNING.
LEMMA RunningIsQuiet ==
    ASSUME IInv, state = "RUNNING"
    PROVE  /\ engine = model /\ engine # NONE /\ lock = NONE /\ waiters = << >>
           /\ \A t \in Tasks : pc[t] \in Neutral
<1>1. engine = model /\ model \in Models
  BY InvariantParts DEF EngineKnown, Domains
<1>2. engine # NONE
  BY <1>1, EngineAssumption
<1>3. \A t \in Tasks : pc[t] \in Neutral
  BY InvariantParts DEF Owned, Neutral, SyncTypes
<1> QED
  BY <1>1, <1>2, <1>3, InvariantParts DEF EngineKnown

\* A pause that finds nothing (more) to do returns.
LEMMA PauseReturnsKeeps ==
    ASSUME IInv, NEW t \in Tasks, NEW l \in {"pause", "drained"}, Locked(t, l),
           state # "RUNNING", Leave(t, ret[t]),
           UNCHANGED <<state, engineVars, accepting, pendingResume, recovering, requests,
                       locals, env>>,
           pendingPause' \in BOOLEAN
    PROVE  IInv'
<1>1. lock = NONE /\ pc[t] = l
  BY DEF Locked
<1>2. ret[t] \in Labels \ (Holding \cup Queueing)
  BY InvariantParts DEF Returning, Returns, Labels, Holding, Queueing
<1>3. /\ SyncTypes' /\ Sync' /\ pc' = [pc EXCEPT ![t] = ret[t]] /\ lock' = NONE
      /\ waiters = << >> => waiters' = << >>
  BY <1>2, InvariantParts, LeaveKeeps
<1>4. Domains'
  BY InvariantParts DEF Domains, engineVars, requests, locals, env
<1>5. Returning'
  <2>1. ret[t] \notin Loading \cup {"resume", "reap", "reaping", "switchDrain"}
    BY InvariantParts DEF Returning, Returns, Loading
  <2> QED
    BY <1>3, <2>1, InvariantParts DEF Returning, locals, SyncTypes
<1>6. ret[t] \in Neutral /\ pc[t] \in Neutral
  BY <1>1, InvariantParts DEF Returning, Returns, Neutral, Labels, Loading, Unloading
<1> QED
  BY <1>1, <1>3, <1>4, <1>5, <1>6, QuietKeeps DEF requests

\* The unload of a RUNNING engine begins, and goes on at once.
LEMMA UnloadKeeps ==
    ASSUME IInv, NEW t \in Tasks, NEW l \in {"pause", "drained"}, Locked(t, l),
           state = "RUNNING", state' = "UNLOADING", LeaveAndAcquire(t, "destroy"),
           UNCHANGED <<engineVars, accepting, pendingResume, recovering, requests,
                       locals, env>>,
           pendingPause' \in BOOLEAN
    PROVE  IInv'
<1>1. lock = NONE /\ pc[t] = l
  BY DEF Locked
<1>2. /\ engine = model /\ engine # NONE /\ waiters = << >>
      /\ \A u \in Tasks : pc[u] \in Neutral
  BY RunningIsQuiet
<1>3. /\ SyncTypes' /\ Sync' /\ pc' = [pc EXCEPT ![t] = "destroy"] /\ lock' = NONE
      /\ waiters' = << >>
  <2>1. "destroy" \in Queueing \cup Immediate
    BY DEF Immediate
  <2> QED
    BY <1>2, <2>1, InvariantParts, LeaveAndAcquireKeeps
<1>4. Domains'
  BY InvariantParts DEF Domains, engineVars, requests, locals, env, EngineState
<1>5. Owned'
  BY <1>2, <1>3, InvariantParts DEF Owned, Neutral, Loading, Unloading, SyncTypes
<1>6. EngineKnown'
  BY <1>2, <1>3, InvariantParts DEF EngineKnown, Neutral, Loading, Unloading, engineVars, SyncTypes
<1>7. CoreCounted'
  BY <1>1, <1>3, InvariantParts DEF CoreCounted, engineVars, requests
<1>8. Returning'
  BY <1>3, InvariantParts DEF Returning, Loading, locals, SyncTypes
<1> QED
  BY <1>3, <1>4, <1>5, <1>6, <1>7, <1>8, InvariantJoins

\* The first block of pause.
LEMMA PauseKeeps ==
    ASSUME IInv, NEW t \in Tasks, Pause(t)
    PROVE  IInv'
<1>1. /\ Locked(t, "pause") /\ lock = NONE /\ pc[t] = "pause"
      /\ pendingPause' \in BOOLEAN
      /\ UNCHANGED <<engineVars, pendingResume, recovering, requests, locals, env>>
  BY InvariantParts DEF Pause, Locked, PauseFlag, Domains
<1>2. CASE state # "RUNNING"
  BY <1>1, <1>2, PauseReturnsKeeps DEF Pause
<1>3. CASE state = "RUNNING" /\ urgency[t] = "NORMAL"
  <2>1. /\ accepting' = FALSE /\ state' = state
        /\ IF active > 0 THEN Leave(t, "drain") ELSE LeaveAndAcquire(t, "drained")
    BY <1>3 DEF Pause
  <2>2. /\ engine = model /\ engine # NONE /\ waiters = << >>
    BY <1>3, RunningIsQuiet
  <2>3. PICK label \in {"drain", "drained"} :
            /\ SyncTypes' /\ Sync' /\ pc' = [pc EXCEPT ![t] = label] /\ lock' = NONE
            /\ waiters' = << >>
    <3>1. "drain" \in Labels \ (Holding \cup Queueing) /\ "drained" \in Queueing
      BY DEF Labels, Holding, Queueing
    <3>2. CASE active > 0
      BY <1>1, <2>1, <2>2, <3>1, <3>2, InvariantParts, LeaveKeeps
    <3>3. CASE ~(active > 0)
      BY <1>1, <2>1, <2>2, <3>1, <3>3, InvariantParts, LeaveAndAcquireKeeps
    <3> QED
      BY <3>2, <3>3
  <2>4. Domains'
    BY <1>1, <2>1, InvariantParts DEF Domains, engineVars, requests, locals, env
  <2>5. Returning'
    BY <1>1, <2>1, <2>3, InvariantParts DEF Returning, Loading, locals, SyncTypes
  <2>6. label \in Neutral /\ pc[t] \in Neutral
    BY <1>1 DEF Neutral, Labels, Loading, Unloading
  <2> QED
    BY <1>1, <2>1, <2>3, <2>4, <2>5, <2>6, QuietKeeps DEF requests
<1>4. CASE state = "RUNNING" /\ urgency[t] # "NORMAL"
  BY <1>1, <1>4, UnloadKeeps DEF Pause
<1> QED
  BY <1>2, <1>3, <1>4

\* The block of pause after its drain.
LEMMA DrainedKeeps ==
    ASSUME IInv, NEW t \in Tasks, Drained(t)
    PROVE  IInv'
<1>1. /\ Locked(t, "drained")
      /\ UNCHANGED <<engineVars, flags, requests, locals, env>>
      /\ pendingPause' \in BOOLEAN
  BY InvariantParts DEF Drained, flags, Domains
<1>2. CASE state # "RUNNING"
  BY <1>1, <1>2, PauseReturnsKeeps DEF Drained, flags
<1>3. CASE state = "RUNNING"
  BY <1>1, <1>3, UnloadKeeps DEF Drained, flags
<1> QED
  BY <1>2, <1>3

\* _destroy_engine takes the engine out of the way of requests.
LEMMA DestroyBeginsKeeps ==
    ASSUME IInv, NEW t \in Tasks, NEW l \in {"destroy", "loaded", "reap"}, Locked(t, l),
           engine # NONE, DestroyBegins,
           NEW label \in Holding, Hold(t, label),
           <<l, label>> \in {<<"destroy", "destroying">>, <<"loaded", "unloading">>,
                             <<"reap", "reaping">>},
           UNCHANGED <<state, accepting, pendingResume, recovering, locals, env>>,
           pendingPause' \in BOOLEAN
    PROVE  IInv'
<1>1. /\ lock = NONE /\ pc[t] = l
      /\ engine' = NONE /\ doomed' = 0 /\ UNCHANGED <<model, cores, coreDead, active>>
  BY DEF Locked, DestroyBegins
<1>2. SyncTypes' /\ Sync' /\ pc' = [pc EXCEPT ![t] = label] /\ lock' = t
  BY InvariantParts, HoldKeeps
<1>3. Domains'
  BY <1>1, InvariantParts DEF Domains, locals, env
<1>4. Owned'
  BY <1>1, <1>2, InvariantParts DEF Owned, Loading, Unloading, SyncTypes
<1>5. EngineKnown'
  <2>1. state # "RUNNING"
    BY <1>1, InvariantParts DEF Owned, Loading, Unloading
  <2>2. \A u \in Tasks : u # t => pc[u] \notin {"destroy", "reap", "loaded"}
    BY <1>1, InvariantParts, NoneIsNoTask DEF Sync, Immediate
  <2> QED
    BY <1>1, <1>2, <2>1, <2>2, InvariantParts, NoneIsNoTask DEF EngineKnown, SyncTypes
<1>6. CoreCounted'
  BY <1>1, <1>2, NoneIsNoTask, InvariantParts DEF CoreCounted
<1>7. Returning'
  BY <1>1, <1>2, InvariantParts DEF Returning, Loading, locals, SyncTypes
<1> QED
  BY <1>2, <1>3, <1>4, <1>5, <1>6, <1>7, InvariantJoins

\* The block of pause that unloads begins.
LEMMA PauseDestroysKeeps ==
    ASSUME IInv, NEW t \in Tasks, PauseDestroys(t)
    PROVE  IInv'
<1>1. "destroying" \in Holding /\ pendingPause' \in BOOLEAN
  BY InvariantParts DEF Holding, PauseDestroys, flags, Domains
<1> QED
  BY <1>1, DestroyBeginsKeeps DEF PauseDestroys, flags

\* The core is gone and the lock given back: nobody loads, destroys or reaps.
LEMMA DestroyEndsKeeps ==
    ASSUME IInv, NEW t \in Tasks, NEW l \in Holding, Resumes(t, l), DestroyEnds,
           NEW label \in Returns \cup {"vram"}, Unlock(t, label),
           \/ state' = "PAUSED" /\ label = ret[t]
           \/ l = "reaping" /\ state' = "LOADING" /\ label = "vram",
           UNCHANGED <<ret, urgency, goal, requests, env>>,
           pendingPause' = pendingPause, recovering' = recovering,
           pendingResume' = FALSE, accepting' \in BOOLEAN,
           attempt' \in [Tasks -> 1..MaxAttempts]
    PROVE  IInv'
<1>1. /\ pc[t] = l /\ running = NONE /\ engine' = engine /\ model' = model
      /\ coreDead' = FALSE /\ cores' = IF coreDead THEN cores ELSE cores - 1
  BY DEF Resumes, DestroyEnds
<1>2. /\ SyncTypes' /\ Sync' /\ pc' = [pc EXCEPT ![t] = label] /\ lock = t /\ lock' = NONE
  <2>1. label \in Labels \ (Holding \cup Queueing)
    BY DEF Returns, Labels, Holding, Queueing
  <2> QED
    BY <2>1, InvariantParts, UnlockKeeps
<1>3. engine = NONE /\ doomed = 0
  BY <1>2, NoneIsNoTask, InvariantParts DEF EngineKnown, CoreCounted, Domains
<1>4. \A u \in Tasks : u # t => pc[u] \notin Loading \cup Unloading \cup {"reap", "reaping"}
  <2>1. \A u \in Tasks : u # t => pc[u] \notin Holding \cup Immediate
    BY <1>1, <1>2, NoneIsNoTask, InvariantParts DEF Sync
  <2>2. \A u \in Tasks : u # t => pc[u] # "vram"
    BY <1>1, InvariantParts DEF Owned, Loading, Unloading, Holding
  <2> QED
    BY <2>1, <2>2 DEF Loading, Unloading, Holding, Immediate
<1>5. Domains'
  BY <1>1, InvariantParts DEF Domains, requests, env, EngineState
<1>6. Owned'
  <2>1. ret[t] \in Returns
    BY InvariantParts DEF Returning
  <2> QED
    BY <1>2, <1>4, <2>1, InvariantParts DEF Owned, Loading, Unloading, Returns, SyncTypes
<1>7. EngineKnown'
  BY <1>1, <1>2, <1>3, <1>4, InvariantParts DEF EngineKnown, Loading, Unloading, Returns, SyncTypes
<1>8. CoreCounted'
  BY <1>1, <1>2, <1>3, NoneIsNoTask, InvariantParts DEF CoreCounted, requests
<1>9. Returning'
  BY <1>1, <1>2, InvariantParts DEF Returning, Returns, Loading, Holding, SyncTypes
<1> QED
  BY <1>2, <1>5, <1>6, <1>7, <1>8, <1>9, InvariantJoins

\* It ends: no resume is pending, since none sees an engine UNLOADING.
LEMMA PauseUnloadedKeeps ==
    ASSUME IInv, NEW t \in Tasks, PauseUnloaded(t)
    PROVE  IInv'
<1>1. /\ ~pendingResume
      /\ accepting' = TRUE /\ pendingResume' = FALSE /\ state' = "PAUSED"
      /\ attempt' = [attempt EXCEPT ![t] = 1]
      /\ UNCHANGED <<pendingPause, recovering, requests, ret, urgency, goal, env>>
  BY InvariantParts DEF PauseUnloaded, AcceptingAfterPause, Owned
<1>2. pc[t] = "destroying"
  BY InvariantParts DEF PauseUnloaded, Locked, EngineKnown
<1>3. Resumes(t, "destroying") /\ DestroyEnds /\ Unlock(t, ret[t])
  BY <1>1, <1>2 DEF PauseUnloaded
<1>4. attempt' \in [Tasks -> 1..MaxAttempts]
  BY <1>1, EngineAssumption, InvariantParts DEF Domains
<1>5. "destroying" \in Holding /\ ret[t] \in Returns
  BY InvariantParts DEF Holding, Returning
<1> QED
  BY <1>1, <1>3, <1>4, <1>5, DestroyEndsKeeps

-----------------------------------------------------------------------------
(* resume and the load.                                                    *)

\* A resume finds an engine to load, or nothing to do; never one that is UNLOADING.
LEMMA ResumeKeeps ==
    ASSUME IInv, NEW t \in Tasks, Resume(t)
    PROVE  IInv'
<1>1. /\ Locked(t, "resume") /\ lock = NONE /\ pc[t] = "resume" /\ running \in {NONE, t}
      /\ pendingResume' = (state = "UNLOADING" \/ pendingResume)
      /\ UNCHANGED <<engineVars, accepting, pendingPause, recovering, requests, ret, urgency,
                     goal, env>>
  BY DEF Resume, Locked
<1>2. state # "UNLOADING"
  <2>1. SUFFICES ASSUME NEW u \in Tasks, pc[u] \in Unloading
                 PROVE  FALSE
    BY InvariantParts DEF Owned
  <2> QED
    BY <1>1, <2>1, NoneIsNoTask, InvariantParts DEF Sync, Unloading, Holding, Immediate
<1>3. pendingResume' = pendingResume
  BY <1>1, <1>2, InvariantParts DEF Owned, Domains
<1>4. ret[t] \in Returns \ {"switchPaused"}
  BY <1>1, InvariantParts DEF Returning
<1>5. CASE state # "PAUSED"
  <2>1. Leave(t, ret[t]) /\ UNCHANGED <<state, attempt>>
    BY <1>5 DEF Resume, Resumable
  <2>2. /\ SyncTypes' /\ Sync' /\ pc' = [pc EXCEPT ![t] = ret[t]] /\ lock' = NONE
        /\ waiters = << >> => waiters' = << >>
    <3>1. ret[t] \in Labels \ (Holding \cup Queueing)
      BY <1>4 DEF Returns, Labels, Holding, Queueing
    <3> QED
      BY <1>1, <2>1, <3>1, InvariantParts, LeaveKeeps
  <2>3. Domains'
    BY <1>1, <1>3, <2>1, InvariantParts DEF Domains, engineVars, requests, env
  <2>4. Returning'
    BY <1>1, <1>4, <2>1, <2>2, InvariantParts DEF Returning, Returns, Loading, SyncTypes
  <2>5. ret[t] \in Neutral /\ pc[t] \in Neutral
    BY <1>1, <1>4 DEF Returns, Neutral, Labels, Loading, Unloading
  <2> QED
    BY <1>1, <1>3, <2>1, <2>2, <2>3, <2>4, <2>5, QuietKeeps DEF requests
<1>6. CASE state = "PAUSED"
  <2>1. /\ Leave(t, "vram") /\ state' = "LOADING" /\ attempt' = [attempt EXCEPT ![t] = 1]
    BY <1>6 DEF Resume, Resumable
  <2>2. /\ SyncTypes' /\ Sync' /\ pc' = [pc EXCEPT ![t] = "vram"] /\ lock' = NONE
        /\ waiters = << >> => waiters' = << >>
    <3>1. "vram" \in Labels \ (Holding \cup Queueing)
      BY DEF Labels, Holding, Queueing
    <3> QED
      BY <1>1, <2>1, <3>1, InvariantParts, LeaveKeeps
  <2>3. engine = NONE /\ \A u \in Tasks : pc[u] \in Neutral
    BY <1>6, InvariantParts DEF EngineKnown, Owned, Neutral, SyncTypes
  <2>4. Domains'
    BY <1>1, <1>3, <2>1, EngineAssumption, InvariantParts
       DEF Domains, engineVars, requests, env, EngineState
  <2>5. Owned'
    BY <1>3, <2>1, <2>2, <2>3, InvariantParts DEF Owned, Neutral, Loading, Unloading, SyncTypes
  <2>6. EngineKnown'
    BY <1>1, <2>1, <2>2, <2>3, InvariantParts
       DEF EngineKnown, Neutral, Loading, Unloading, engineVars, SyncTypes
  <2>7. CoreCounted'
    BY <1>1, <2>2, InvariantParts DEF CoreCounted, engineVars, requests
  <2>8. Returning'
    BY <1>1, <1>4, <2>1, <2>2, InvariantParts DEF Returning, Loading, SyncTypes
  <2> QED
    BY <2>2, <2>4, <2>5, <2>6, <2>7, <2>8, InvariantJoins
<1> QED
  BY <1>5, <1>6

\* A task that waits for VRAM is alone with an engine that is LOADING.
LEMMA LoaderIsAlone ==
    ASSUME IInv, NEW t \in Tasks, Resumes(t, "vram")
    PROVE  /\ pc[t] = "vram" /\ running = NONE /\ lock = NONE /\ waiters = << >>
           /\ engine = NONE /\ state = "LOADING" /\ doomed = 0
           /\ \A u \in Tasks : u # t => pc[u] \in Neutral
<1>1. pc[t] = "vram" /\ running = NONE /\ ~Woken
  BY DEF Resumes
<1>2. engine = NONE /\ state = "LOADING"
  BY <1>1, InvariantParts DEF EngineKnown, Owned, Loading
<1>3. \A u \in Tasks : u # t => pc[u] \in Neutral
  BY <1>1, <1>2, InvariantParts DEF Owned, Neutral, Loading, SyncTypes
<1>4. lock = NONE
  BY <1>1, <1>3, InvariantParts DEF Sync, SyncTypes, Neutral, Loading, Unloading, Holding
<1>5. waiters = << >>
  BY <1>1, <1>4 DEF Woken
<1>6. doomed = 0
  BY <1>2, InvariantParts DEF CoreCounted, Domains
<1> QED
  BY <1>1, <1>2, <1>3, <1>4, <1>5, <1>6

\* The engine is created, and its loader goes on at once.
LEMMA EngineCreatedKeeps ==
    ASSUME IInv, NEW t \in Tasks, EngineCreated(t)
    PROVE  IInv'
<1>1. /\ Resumes(t, "vram") /\ Acquire(t, "loaded")
      /\ engine' = model /\ cores' = cores + 1 /\ coreDead' = FALSE
      /\ UNCHANGED <<state, model, flags, requests, locals, env>>
  BY DEF EngineCreated, LoadedModel
<1>2. /\ pc[t] = "vram" /\ running = NONE /\ lock = NONE /\ waiters = << >>
      /\ engine = NONE /\ state = "LOADING" /\ doomed = 0
      /\ \A u \in Tasks : u # t => pc[u] \in Neutral
  BY <1>1, LoaderIsAlone
<1>3. /\ SyncTypes' /\ Sync' /\ pc' = [pc EXCEPT ![t] = "loaded"]
      /\ lock' = NONE /\ waiters' = << >>
  <2>1. /\ ~InQueue(t, waiters) /\ pc[t] \notin Holding /\ "loaded" \in Immediate
    BY <1>2, NotQueued DEF Queueing, Holding, Immediate
  <2> QED
    BY <1>1, <1>2, <2>1, InvariantParts, AcquireKeeps
<1>4. Domains'
  BY <1>1, InvariantParts DEF Domains, flags, requests, locals, env
<1>5. Owned'
  BY <1>1, <1>2, <1>3, InvariantParts DEF Owned, Neutral, Loading, Unloading, flags, SyncTypes
<1>6. EngineKnown'
  BY <1>1, <1>2, <1>3, InvariantParts DEF EngineKnown, Neutral, Loading, Unloading, SyncTypes
<1>7. CoreCounted'
  <2>1. engine' # NONE
    BY <1>1, EngineAssumption, InvariantParts DEF Domains
  <2> QED
    BY <1>1, <1>2, <1>3, <2>1, InvariantParts DEF CoreCounted, requests
<1>8. Returning'
  BY <1>1, <1>2, <1>3, InvariantParts DEF Returning, Loading, locals, SyncTypes
<1> QED
  BY <1>3, <1>4, <1>5, <1>6, <1>7, <1>8, InvariantJoins

\* The creation fails.
LEMMA CreateFailsKeeps ==
    ASSUME IInv, NEW t \in Tasks, CreateFails(t)
    PROVE  IInv'
<1>1. /\ Resumes(t, "vram")
      /\ UNCHANGED <<state, model, cores, coreDead, flags, requests, ret, urgency, goal, env>>
  BY DEF CreateFails
<1>2. /\ pc[t] = "vram" /\ running = NONE /\ lock = NONE /\ waiters = << >>
      /\ engine = NONE /\ state = "LOADING" /\ doomed = 0
      /\ \A u \in Tasks : u # t => pc[u] \in Neutral
  BY <1>1, LoaderIsAlone
<1>3. /\ engine' = NONE /\ attempt' \in [Tasks -> 1..MaxAttempts]
  BY <1>2, EngineAssumption, InvariantParts DEF CreateFails, RetriesLeft, Domains
<1>4. PICK label \in {"vram", "giveUp"} :
          /\ SyncTypes' /\ Sync' /\ pc' = [pc EXCEPT ![t] = label]
          /\ lock' = NONE /\ waiters' = << >>
  <2>1. ~InQueue(t, waiters) /\ pc[t] \notin Holding
    BY <1>2, NotQueued DEF Queueing, Holding
  <2>2. "giveUp" \in Immediate /\ "vram" \in Labels \ (Holding \cup Queueing)
    BY DEF Immediate, Labels, Holding, Queueing
  <2>3. CASE RetriesLeft(t)
    <3>1. Goto(t, "vram") /\ UNCHANGED <<lock, waiters>>
      BY <2>3 DEF CreateFails
    <3> QED
      BY <1>2, <2>1, <2>2, <3>1, InvariantParts, GotoKeeps
  <2>4. CASE ~RetriesLeft(t)
    <3>1. Acquire(t, "giveUp")
      BY <2>4 DEF CreateFails
    <3> QED
      BY <1>2, <2>1, <2>2, <3>1, InvariantParts, AcquireKeeps
  <2> QED
    BY <2>3, <2>4
<1>5. Domains'
  BY <1>1, <1>3, InvariantParts DEF Domains, flags, requests, env
<1>6. Owned'
  BY <1>1, <1>2, <1>4, InvariantParts DEF Owned, Neutral, Loading, Unloading, flags, SyncTypes
<1>7. EngineKnown'
  BY <1>1, <1>2, <1>3, <1>4, InvariantParts DEF EngineKnown, Neutral, Loading, Unloading, SyncTypes
<1>8. CoreCounted'
  BY <1>1, <1>2, <1>3, <1>4, InvariantParts DEF CoreCounted, requests
<1>9. Returning'
  BY <1>1, <1>2, <1>4, InvariantParts DEF Returning, Loading, SyncTypes
<1> QED
  BY <1>4, <1>5, <1>6, <1>7, <1>8, <1>9, InvariantJoins

\* A task at the end of its load is alone with the engine, too.
LEMMA LoadedIsAlone ==
    ASSUME IInv, NEW t \in Tasks, NEW l \in {"loaded", "giveUp"}, Locked(t, l)
    PROVE  /\ pc[t] = l /\ running = t /\ lock = NONE /\ state = "LOADING"
           /\ l = "loaded" => engine = model /\ engine # NONE /\ waiters = << >>
           /\ l = "giveUp" => engine = NONE
           /\ \A u \in Tasks : u # t => pc[u] \in Neutral
<1>1. pc[t] = l /\ lock = NONE
  BY DEF Locked
<1>2. running = t
  BY <1>1, InvariantParts DEF Sync, Immediate
<1>3. state = "LOADING"
  BY <1>1, InvariantParts DEF Owned, Loading
<1>4. \A u \in Tasks : u # t => pc[u] \in Neutral
  BY <1>1, <1>3, InvariantParts DEF Owned, Neutral, Loading, SyncTypes
<1>5. /\ l = "loaded" => engine = model /\ engine # NONE /\ waiters = << >>
      /\ l = "giveUp" => engine = NONE
  BY <1>1, EngineAssumption, InvariantParts DEF EngineKnown, Domains
<1> QED
  BY <1>1, <1>2, <1>3, <1>4, <1>5

\* A load ends with the engine RUNNING, or a pause has come and it is unloaded.
LEMMA LoadedKeeps ==
    ASSUME IInv, NEW t \in Tasks, Loaded(t)
    PROVE  IInv'
<1>1. /\ Locked(t, "loaded") /\ pendingPause' = FALSE
      /\ UNCHANGED <<accepting, pendingResume, recovering, locals, env>>
  BY DEF Loaded
<1>2. /\ pc[t] = "loaded" /\ running = t /\ lock = NONE /\ state = "LOADING"
      /\ engine = model /\ engine # NONE /\ waiters = << >>
      /\ \A u \in Tasks : u # t => pc[u] \in Neutral
  BY <1>1, LoadedIsAlone
<1>3. CASE pendingPause
  <2>1. DestroyBegins /\ Hold(t, "unloading") /\ UNCHANGED state /\ "unloading" \in Holding
    BY <1>2, <1>3 DEF Loaded, Holding
  <2> QED
    BY <1>1, <1>2, <2>1, DestroyBeginsKeeps
<1>4. CASE ~pendingPause
  <2>1. /\ state' = "RUNNING" /\ Leave(t, ret[t]) /\ UNCHANGED <<engineVars, requests>>
    BY <1>4 DEF Loaded
  <2>2. ret[t] \in Returns \ {"switchPaused"}
    BY <1>2, InvariantParts DEF Returning, Loading
  <2>3. /\ SyncTypes' /\ Sync' /\ pc' = [pc EXCEPT ![t] = ret[t]] /\ lock' = NONE
        /\ waiters' = << >>
    <3>1. ret[t] \in Labels \ (Holding \cup Queueing)
      BY <2>2 DEF Returns, Labels, Holding, Queueing
    <3> QED
      BY <1>1, <1>2, <2>1, <3>1, InvariantParts, LeaveKeeps
  <2>4. \A u \in Tasks : pc'[u] \in Neutral
    BY <1>2, <2>2, <2>3, InvariantParts
       DEF SyncTypes, Returns, Neutral, Labels, Loading, Unloading
  <2>5. Domains'
    BY <1>1, <2>1, InvariantParts DEF Domains, engineVars, requests, locals, env, EngineState
  <2>6. Owned'
    BY <1>1, <2>1, <2>4, InvariantParts DEF Owned, Neutral
  <2>7. EngineKnown'
    BY <1>2, <2>1, <2>3, <2>4, InvariantParts DEF EngineKnown, Neutral, Loading, Unloading, engineVars
  <2>8. CoreCounted'
    BY <1>2, <2>1, <2>3, InvariantParts DEF CoreCounted, engineVars, requests
  <2>9. Returning'
    <3>1. \A u \in Tasks : pc[u] # "switchPaused"
      BY <1>2, InvariantParts, NoneIsNoTask DEF Sync, Immediate
    <3> QED
      BY <1>1, <1>2, <2>2, <2>3, <3>1, InvariantParts DEF Returning, Returns, Loading, locals, SyncTypes
  <2> QED
    BY <2>3, <2>5, <2>6, <2>7, <2>8, <2>9, InvariantJoins
<1> QED
  BY <1>3, <1>4

\* The engine that was loaded for nothing is gone.
LEMMA UnloadedAgainKeeps ==
    ASSUME IInv, NEW t \in Tasks, UnloadedAgain(t)
    PROVE  IInv'
<1>1. /\ Resumes(t, "unloading") /\ DestroyEnds /\ state' = "PAUSED" /\ Unlock(t, ret[t])
      /\ UNCHANGED <<flags, requests, locals, env>>
  BY DEF UnloadedAgain
<1>2. /\ "unloading" \in Holding /\ ret[t] \in Returns /\ pendingResume' = FALSE
      /\ accepting' \in BOOLEAN /\ attempt' \in [Tasks -> 1..MaxAttempts]
  BY <1>1, InvariantParts DEF Holding, Returning, Owned, Domains, flags, locals
<1> QED
  BY <1>1, <1>2, DestroyEndsKeeps DEF flags, locals

\* A load gives up, and its task is about to exit the process.
LEMMA GiveUpKeeps ==
    ASSUME IInv, NEW t \in Tasks, GiveUp(t)
    PROVE  IInv'
<1>1. /\ Locked(t, "giveUp") /\ pendingPause' = FALSE /\ state' = "PAUSED"
      /\ Leave(t, "exit")
      /\ UNCHANGED <<engineVars, accepting, pendingResume, recovering, requests, locals, env>>
  BY DEF GiveUp
<1>2. /\ pc[t] = "giveUp" /\ lock = NONE /\ engine = NONE
      /\ \A u \in Tasks : u # t => pc[u] \in Neutral
  BY <1>1, LoadedIsAlone
<1>3. /\ SyncTypes' /\ Sync' /\ pc' = [pc EXCEPT ![t] = "exit"] /\ lock' = NONE
  <2>1. "exit" \in Labels \ (Holding \cup Queueing)
    BY DEF Labels, Holding, Queueing
  <2> QED
    BY <1>1, <2>1, InvariantParts, LeaveKeeps
<1>4. \A u \in Tasks : pc'[u] \in Neutral
  BY <1>2, <1>3, InvariantParts DEF SyncTypes, Neutral, Labels, Loading, Unloading
<1>5. Domains'
  BY <1>1, InvariantParts DEF Domains, engineVars, requests, locals, env, EngineState
<1>6. Owned'
  BY <1>1, <1>4, InvariantParts DEF Owned, Neutral
<1>7. EngineKnown'
  BY <1>1, <1>2, <1>4, InvariantParts DEF EngineKnown, Neutral, Loading, Unloading, engineVars
<1>8. CoreCounted'
  BY <1>1, <1>2, <1>3, InvariantParts DEF CoreCounted, engineVars, requests
<1>9. Returning'
  BY <1>1, <1>2, <1>3, InvariantParts DEF Returning, Loading, locals, SyncTypes
<1> QED
  BY <1>3, <1>5, <1>6, <1>7, <1>8, <1>9, InvariantJoins

-----------------------------------------------------------------------------
(* The rest: restarts, switches, requests, crashes and recovery.           *)

\* A process starts, with the engine loaded or paused.
LEMMA InitIInv ==
    ASSUME Init
    PROVE  IInv
<1>1. \A t \in Tasks : pc[t] = "idle" /\ ret[t] = "idle"
  BY DEF Init
<1>2. TypeOK
  <2>1. /\ state \in EngineState /\ engine \in Models \cup {NONE} /\ model \in Models
        /\ cores \in Nat /\ want \in {"yield", "run"}
    BY EngineAssumption DEF Init, EngineState
  <2>2. /\ accepting \in BOOLEAN /\ pendingPause \in BOOLEAN /\ pendingResume \in BOOLEAN
        /\ recovering \in BOOLEAN /\ coreDead \in BOOLEAN
    BY DEF Init
  <2>3. /\ active \in 0..MaxRequests /\ doomed \in 0..active /\ crashes \in 0..MaxCrashes
        /\ 1 \in 1..MaxAttempts
    BY EngineAssumption DEF Init
  <2>4. /\ lock \in Tasks \cup {NONE} /\ running \in Tasks \cup {NONE}
        /\ waiters \in Seq(Tasks) /\ \A i, j \in DOMAIN waiters : waiters[i] = waiters[j] => i = j
    BY DEF Init
  <2>5. /\ pc \in [Tasks -> Labels] /\ ret \in [Tasks -> Labels]
        /\ urgency \in [Tasks -> Urgency] /\ attempt \in [Tasks -> 1..MaxAttempts]
        /\ goal \in [Tasks -> Models \cup {NONE}]
    BY <2>3 DEF Init, Labels, Urgency
  <2> QED
    BY <2>1, <2>2, <2>3, <2>4, <2>5 DEF TypeOK
<1>3. Sync
  BY <1>1, NoneIsNoTask DEF Init, Sync, InQueue, Holding, Immediate
<1>4. Owned
  BY <1>1 DEF Init, Owned, Loading, Unloading
<1>5. EngineKnown
  BY <1>1 DEF Init, EngineKnown
<1>6. CoreCounted
  BY EngineAssumption DEF Init, CoreCounted
<1>7. Returning
  BY <1>1 DEF Init, Returning, Returns, Loading
<1> QED
  BY <1>2, <1>3, <1>4, <1>5, <1>6, <1>7 DEF IInv

\* os._exit, and the next process.
LEMMA ExitKeeps ==
    ASSUME IInv, NEW t \in Tasks, Exit(t)
    PROVE  IInv'
<1>1. PICK available \in BOOLEAN : Restart(t, available) /\ UNCHANGED want
  BY DEF Exit
<1>2. /\ lock' = NONE /\ waiters' = << >> /\ running' = NONE
      /\ pc' = [u \in Tasks |-> "idle"]
      /\ UNCHANGED <<ret, urgency, attempt, goal, crashes, want>>
      /\ pendingResume' = FALSE /\ doomed' = 0 /\ active' = 0 /\ coreDead' = FALSE
      /\ recovering' = FALSE /\ pendingPause' = FALSE /\ accepting' = TRUE
      /\ model' = ConfiguredModel
      /\ \/ state' = "RUNNING" /\ engine' = model' /\ cores' = 1
         \/ state' = "PAUSED" /\ engine' = NONE /\ cores' = 0
  BY <1>1 DEF Restart, locals
<1>3. SyncTypes'
  BY <1>2 DEF SyncTypes, Distinct, Labels
<1>4. Sync'
  BY <1>2, NoneIsNoTask DEF Sync, InQueue, Holding, Immediate
<1>5. Domains'
  <2>1. /\ state' \in EngineState /\ engine' \in Models \cup {NONE} /\ model' \in Models
        /\ active' \in 0..MaxRequests /\ doomed' \in 0..active'
    BY <1>2, EngineAssumption DEF EngineState
  <2> QED
    BY <1>2, <2>1, InvariantParts DEF Domains
<1>6. Owned'
  BY <1>2 DEF Owned, Loading, Unloading
<1>7. EngineKnown'
  BY <1>2 DEF EngineKnown
<1>8. CoreCounted'
  BY <1>2, EngineAssumption DEF CoreCounted
<1>9. Returning'
  BY <1>2, InvariantParts DEF Returning, Loading
<1> QED
  BY <1>3, <1>4, <1>5, <1>6, <1>7, <1>8, <1>9, InvariantJoins

\* The switch names its model, while the engine is not RUNNING.
LEMMA SwitchPausedKeeps ==
    ASSUME IInv, NEW t \in Tasks, SwitchPaused(t)
    PROVE  IInv'
<1>1. /\ pc[t] = "switchPaused" /\ running = t /\ model' = goal[t]
      /\ ret' = [ret EXCEPT ![t] = "switchDone"] /\ Acquire(t, "resume")
      /\ UNCHANGED <<state, engine, cores, coreDead, flags, requests, urgency, attempt,
                     goal, env>>
  BY DEF SwitchPaused
<1>2. /\ SyncTypes' /\ Sync' /\ pc' = [pc EXCEPT ![t] = "resume"] /\ lock' = lock
      /\ lock = NONE /\ waiters = << >> => waiters' = << >>
  <2>1. /\ ~InQueue(t, waiters) /\ pc[t] \notin Holding /\ "resume" \in Queueing
    BY <1>1, NotQueued DEF Queueing, Holding
  <2> QED
    BY <1>1, <2>1, InvariantParts, AcquireKeeps
<1>3. state # "RUNNING" /\ goal[t] \in Models
  BY <1>1, InvariantParts DEF Returning
<1>4. \A u \in Tasks : pc[u] # "loaded"
  BY <1>1, InvariantParts DEF Sync, Immediate
<1>5. Domains'
  BY <1>1, <1>3, InvariantParts DEF Domains, flags, requests, env, Labels
<1>6. Owned'
  BY <1>1, <1>2, InvariantParts DEF Owned, Loading, Unloading, flags, SyncTypes
<1>7. EngineKnown'
  BY <1>1, <1>2, <1>3, <1>4, InvariantParts DEF EngineKnown, SyncTypes
<1>8. CoreCounted'
  BY <1>1, <1>2, InvariantParts DEF CoreCounted, requests
<1>9. Returning'
  BY <1>1, <1>2, InvariantParts DEF Returning, Returns, Loading, SyncTypes, Domains
<1> QED
  BY <1>2, <1>5, <1>6, <1>7, <1>8, <1>9, InvariantJoins

\* Requests start, end and die, and the core crashes.
LEMMA RequestsKeep ==
    ASSUME IInv, Generate \/ RequestEnds \/ Crash
    PROVE  IInv'
<1>1. UNCHANGED <<state, engine, model, flags, sync, pc, locals, want>>
  BY DEF Generate, RequestEnds, Crash, engineVars, env
<1>2. SyncTypes' /\ Sync' /\ Owned' /\ EngineKnown' /\ Returning'
  BY <1>1, InvariantParts
     DEF SyncTypes, Sync, Owned, EngineKnown, Returning, sync, flags, locals
<1>3. Domains' /\ CoreCounted'
  <2>1. CASE Generate
    BY <1>1, <2>1, EngineAssumption, InvariantParts
       DEF Generate, Domains, CoreCounted, EngineKnown, engineVars, flags, sync, locals, env
  <2>2. CASE RequestEnds
    BY <1>1, <2>2, EngineAssumption, InvariantParts
       DEF RequestEnds, Domains, CoreCounted, engineVars, flags, sync, locals, env
  <2>3. CASE Crash
    BY <1>1, <2>3, EngineAssumption, InvariantParts
       DEF Crash, Domains, CoreCounted, flags, sync, locals
  <2> QED
    BY <2>1, <2>2, <2>3
<1> QED
  BY <1>2, <1>3, InvariantJoins

\* A request finds the core dead: a recovery starts and goes on at once.
LEMMA RequestDiesKeeps ==
    ASSUME IInv, RequestDies
    PROVE  IInv'
<1>1. /\ running = NONE /\ doomed > 0 /\ active' = active - 1 /\ doomed' = doomed - 1
      /\ state' = "DEAD" /\ recovering' = TRUE
      /\ UNCHANGED <<engineVars, accepting, pendingPause, pendingResume, urgency, attempt,
                     goal, env>>
  BY DEF RequestDies
<1>2. engine # NONE /\ coreDead /\ lock = NONE /\ waiters = << >>
  BY <1>1, InvariantParts DEF CoreCounted, EngineKnown
<1>3. \A u \in Tasks : pc[u] \notin Immediate \cup Holding \cup Loading \cup Unloading
  <2>1. \A u \in Tasks : pc[u] \notin Immediate \cup Holding
    BY <1>1, <1>2, NoneIsNoTask, InvariantParts DEF Sync
  <2>2. \A u \in Tasks : pc[u] # "vram"
    BY <1>2, InvariantParts DEF EngineKnown
  <2> QED
    BY <2>1, <2>2 DEF Immediate, Holding, Loading, Unloading
<1>4. Recovery \in Tasks
  BY DEF Tasks
<1>5. /\ SyncTypes' /\ Sync' /\ lock' = NONE /\ waiters' = << >>
      /\ \/ pc' = pc /\ ret' = ret
         \/ /\ pc' = [pc EXCEPT ![Recovery] = "reap"]
            /\ ret' = [ret EXCEPT ![Recovery] = "recoverDone"]
  <2>1. CASE recovering
    <3>1. UNCHANGED <<pc, sync, ret>>
      BY <2>1 DEF RequestDies
    <3> QED
      BY <1>2, <3>1, InvariantParts DEF sync, SyncTypes, Sync
  <2>2. CASE ~recovering
    <3>1. ret' = [ret EXCEPT ![Recovery] = "recoverDone"] /\ Acquire(Recovery, "reap")
      BY <2>2 DEF RequestDies
    <3>2. ~InQueue(Recovery, waiters) /\ "reap" \in Immediate
      BY <1>2 DEF InQueue, Immediate
    <3> QED
      BY <1>1, <1>2, <1>3, <1>4, <3>1, <3>2, InvariantParts, AcquireKeeps
  <2> QED
    BY <2>1, <2>2
<1>6. Domains'
  BY <1>1, <1>4, <1>5, EngineAssumption, InvariantParts
     DEF Domains, engineVars, env, EngineState, Labels
<1>7. Owned'
  <2>1. state # "UNLOADING"
    BY <1>3, InvariantParts DEF Owned
  <2> QED
    BY <1>1, <1>3, <1>5, <2>1, InvariantParts DEF Owned, Loading, Unloading, SyncTypes
<1>8. EngineKnown'
  BY <1>1, <1>2, <1>3, <1>5, InvariantParts
     DEF EngineKnown, Immediate, Loading, engineVars, SyncTypes
<1>9. CoreCounted'
  BY <1>1, <1>2, <1>5, InvariantParts DEF CoreCounted, engineVars, Domains
<1>10. Returning'
  BY <1>1, <1>4, <1>5, InvariantParts DEF Returning, Returns, Loading, SyncTypes, Domains
<1> QED
  BY <1>5, <1>6, <1>7, <1>8, <1>9, <1>10, InvariantJoins

\* The recovery finds the engine DEAD, always: it reaps the dead core.
LEMMA RecoverKeeps ==
    ASSUME IInv, Recover
    PROVE  IInv'
<1>1. /\ Recovery \in Tasks /\ Locked(Recovery, "reap") /\ pc[Recovery] = "reap"
      /\ UNCHANGED <<flags, ret, urgency, goal, env>>
  BY DEF Recover, Locked, Tasks
<1>2. state = "DEAD" /\ engine # NONE
  BY <1>1, InvariantParts DEF Owned, EngineKnown
<1>3. /\ DestroyBegins /\ Hold(Recovery, "reaping") /\ UNCHANGED <<state, attempt>>
      /\ "reaping" \in Holding /\ pendingPause' \in BOOLEAN
  BY <1>1, <1>2, InvariantParts DEF Recover, StillDead, Holding, flags, Domains
<1> QED
  BY <1>1, <1>2, <1>3, DestroyBeginsKeeps DEF flags, locals

\* The dead core is gone, and the recovery loads the engine.
LEMMA RecoverReapedKeeps ==
    ASSUME IInv, RecoverReaped
    PROVE  IInv'
<1>1. /\ Recovery \in Tasks /\ Resumes(Recovery, "reaping") /\ DestroyEnds
      /\ state' = "LOADING" /\ attempt' = [attempt EXCEPT ![Recovery] = 1]
      /\ Unlock(Recovery, "vram")
      /\ UNCHANGED <<flags, requests, ret, urgency, goal, env>>
  BY DEF RecoverReaped, Tasks
<1>2. /\ "reaping" \in Holding /\ pendingResume' = FALSE /\ accepting' \in BOOLEAN
      /\ attempt' \in [Tasks -> 1..MaxAttempts]
  BY <1>1, EngineAssumption, InvariantParts DEF Holding, Owned, Domains, flags
<1> QED
  BY <1>1, <1>2, DestroyEndsKeeps DEF flags

\* Every step of the engine keeps the invariant.
LEMMA NextIInv ==
    ASSUME IInv, [Next]_vars
    PROVE  IInv'
<1>1. ASSUME NEW t \in Callers, ResumeCalled(t) \/ \E u \in Urgency : PauseCalled(t, u)
      PROVE  IInv'
  BY <1>1, ResumeCalledKeeps, PauseCalledKeeps DEF Tasks
<1>2. ASSUME NEW t \in Switchers, SwitchStep(t) \/ \E m \in Models : SwitchCalled(t, m)
      PROVE  IInv'
  BY <1>2, SwitchCalledKeeps, SwitchDrainedKeeps, SwitchPausedKeeps, SwitchDoneKeeps
     DEF Tasks, SwitchStep
<1>3. ASSUME NEW t \in Callers \cup Switchers, PauseStep(t)
      PROVE  IInv'
  BY <1>3, PauseKeeps, DrainEndsKeeps, DrainedKeeps, PauseDestroysKeeps, PauseUnloadedKeeps
     DEF Tasks, PauseStep
<1>4. ASSUME NEW t \in Tasks, LoadStep(t) \/ Exit(t)
      PROVE  IInv'
  BY <1>4, ResumeKeeps, EngineCreatedKeeps, CreateFailsKeeps, LoadedKeeps, UnloadedAgainKeeps,
     GiveUpKeeps, ExitKeeps DEF LoadStep
<1>5. CASE RecoveryStep
  BY <1>5, RecoverKeeps, RecoverReapedKeeps, RecoverDoneKeeps DEF RecoveryStep
<1>6. CASE Generate \/ RequestEnds \/ Crash \/ RequestDies
  BY <1>6, RequestsKeep, RequestDiesKeeps
<1>7. CASE UNCHANGED vars
  BY <1>7 DEF vars, engineVars, flags, requests, sync, locals, env, IInv, TypeOK, Sync, Owned,
     EngineKnown, CoreCounted, Returning
<1> QED
  BY <1>1, <1>2, <1>3, <1>4, <1>5, <1>6, <1>7 DEF Next

\* The invariant holds in every behaviour.
LEMMA SpecIInv == Spec => []IInv
  BY InitIInv, NextIInv, PTL DEF Spec

-----------------------------------------------------------------------------
(* The theorems.                                                           *)

\* The state keeps its types, and _transition_lock queues no task twice.
THEOREM TypeCorrect == Spec => []TypeOK
<1>1. IInv => TypeOK
  BY DEF IInv
<1> QED
  BY <1>1, SpecIInv, PTL

\* For any number of callers, switches and crashes, at most one engine core holds
\* the GPU.
THEOREM OneCore == Spec => []SingleCore
<1>1. IInv => SingleCore
  BY DEF IInv, CoreCounted, SingleCore
<1> QED
  BY <1>1, SpecIInv, PTL

\* For any number of them, a RUNNING engine has its core unless that crashed, and
\* a PAUSED one has given its VRAM back.
THEOREM StateIsTrue == Spec => []StateTellsVram
<1>1. ASSUME IInv
      PROVE  StateTellsVram
  <2>1. CASE state = "RUNNING"
    BY <1>1, <2>1, RunningIsQuiet, InvariantParts DEF StateTellsVram, CoreCounted
  <2>2. CASE state = "PAUSED"
    <3>1. engine = NONE
      BY <1>1, <2>2, InvariantParts DEF EngineKnown
    <3>2. lock = NONE
      BY <1>1, <2>2, InvariantParts
         DEF Sync, SyncTypes, Owned, Loading, Unloading, Holding
    <3> QED
      BY <1>1, <2>2, <3>1, <3>2, InvariantParts DEF StateTellsVram, CoreCounted
  <2> QED
    BY <2>1, <2>2 DEF StateTellsVram
<1> QED
  BY <1>1, SpecIInv, PTL

\* What the contract knows of a destruction that ends.
LEMMA DestroyEndsMaps ==
    ASSUME IInv, NEW t \in Tasks, NEW l \in Holding, Resumes(t, l), DestroyEnds,
           state' \in {"PAUSED", "LOADING"}
    PROVE  [Contract!CoreExits]_(Contract!contract)
<1>1. /\ engine' = engine /\ model' = model
      /\ cores' = IF coreDead THEN cores ELSE cores - 1
  BY DEF DestroyEnds
<1>2. lock = t /\ pc[t] = l
  BY InvariantParts DEF Resumes, Sync
<1>3. state # "RUNNING"
  BY <1>2, InvariantParts DEF Owned, Loading, Unloading, Holding
<1>4. cores = IF coreDead THEN 0 ELSE 1
  BY <1>2, NoneIsNoTask, InvariantParts DEF CoreCounted
<1> QED
  BY <1>1, <1>3, <1>4 DEF Contract!CoreExits, Contract!contract

\* A step that only moves a task, or closes the engine.
LEMMA ClosesMaps ==
    ASSUME UNCHANGED engineVars,
           state' = "RUNNING" /\ accepting' => state = "RUNNING" /\ accepting
    PROVE  [Contract!Close]_(Contract!contract)
  BY DEF engineVars, Contract!Close, Contract!contract

\* The engine is let go of only while it is not RUNNING.
LEMMA DestroyBeginsMaps ==
    ASSUME engine # NONE, DestroyBegins, state # "RUNNING", state' = state
    PROVE  Contract!Detach
  BY DEF DestroyBegins, Contract!Detach

\* Each step of the engine is a step of the contract, or none at all.
LEMMA StepMaps ==
    ASSUME IInv, [Next]_vars
    PROVE  [Contract!CNext]_(Contract!contract)
<1>1. ASSUME NEW t \in Callers, ResumeCalled(t) \/ \E u \in Urgency : PauseCalled(t, u)
      PROVE  [Contract!CNext]_(Contract!contract)
  BY <1>1, ClosesMaps DEF ResumeCalled, PauseCalled, flags, Contract!CNext
<1>2. ASSUME NEW t \in Switchers, SwitchStep(t)
      PROVE  [Contract!CNext]_(Contract!contract)
  <2> t \in Tasks
    BY <1>2 DEF Tasks
  <2>1. CASE SwitchDrained(t)
    BY <2>1, ClosesMaps DEF SwitchDrained, flags, Contract!CNext
  <2>2. CASE SwitchPaused(t)
    <3>1. state # "RUNNING" /\ goal[t] \in Models
      BY <2>2, InvariantParts DEF SwitchPaused, Returning
    <3> QED
      BY <2>2, <3>1 DEF SwitchPaused, flags, Contract!CNext, Contract!Rename
  <2>3. CASE SwitchDone(t)
    <3>1. state = "RUNNING" => engine = model
      BY InvariantParts DEF EngineKnown
    <3> QED
      BY <2>3, <3>1 DEF SwitchDone, engineVars, Contract!CNext, Contract!Open,
         Contract!contract
  <2> QED
    BY <1>2, <2>1, <2>2, <2>3 DEF SwitchStep
<1>3. ASSUME NEW t \in Switchers, NEW m \in Models, SwitchCalled(t, m)
      PROVE  [Contract!CNext]_(Contract!contract)
  BY <1>3, ClosesMaps DEF SwitchCalled, Contract!CNext
<1>4. ASSUME NEW t \in Callers \cup Switchers, PauseStep(t)
      PROVE  [Contract!CNext]_(Contract!contract)
  <2> t \in Tasks
    BY <1>4 DEF Tasks
  <2>1. CASE Pause(t) \/ DrainEnds(t) \/ Drained(t)
    BY <2>1, ClosesMaps DEF Pause, DrainEnds, Drained, flags, Contract!CNext
  <2>2. CASE PauseDestroys(t)
    <3>1. state # "RUNNING"
      BY <2>2, RunningIsQuiet DEF PauseDestroys, Locked, Neutral, Unloading
    <3> QED
      BY <2>2, <3>1, DestroyBeginsMaps DEF PauseDestroys, Contract!CNext
  <2>3. CASE PauseUnloaded(t)
    <3>1. pc[t] = "destroying"
      BY <2>3, InvariantParts DEF PauseUnloaded, Locked, EngineKnown
    <3>2. /\ Resumes(t, "destroying") /\ DestroyEnds /\ state' \in {"PAUSED", "LOADING"}
          /\ "destroying" \in Holding
      BY <2>3, <3>1 DEF PauseUnloaded, Holding
    <3> QED
      BY <3>2, DestroyEndsMaps DEF Contract!CNext
  <2> QED
    BY <1>4, <2>1, <2>2, <2>3 DEF PauseStep
<1>5. ASSUME NEW t \in Tasks, LoadStep(t)
      PROVE  [Contract!CNext]_(Contract!contract)
  <2>1. CASE Resume(t)
    BY <2>1, ClosesMaps DEF Resume, Resumable, Contract!CNext
  <2>2. CASE EngineCreated(t)
    <3>1. /\ engine = NONE /\ lock = NONE /\ state = "LOADING"
      BY <2>2, LoaderIsAlone DEF EngineCreated
    <3>2. cores = 0
      BY <3>1, InvariantParts DEF CoreCounted
    <3> QED
      BY <2>2, <3>1, <3>2 DEF EngineCreated, LoadedModel, flags, Contract!CNext, Contract!Load
  <2>3. CASE CreateFails(t)
    <3>1. engine = NONE
      BY <2>3, LoaderIsAlone DEF CreateFails
    <3>2. UNCHANGED <<engine, model, cores, coreDead, state, accepting>>
      BY <2>3, <3>1 DEF CreateFails, flags
    <3> QED
      BY <3>2, ClosesMaps DEF engineVars, Contract!CNext
  <2>4. CASE Loaded(t)
    <3>1. /\ state = "LOADING" /\ engine = model /\ engine # NONE
      BY <2>4, LoadedIsAlone DEF Loaded
    <3>2. CASE pendingPause
      BY <2>4, <3>1, <3>2, DestroyBeginsMaps DEF Loaded, Contract!CNext
    <3>3. CASE ~pendingPause
      BY <2>4, <3>1, <3>3 DEF Loaded, engineVars, Contract!CNext, Contract!Open,
         Contract!contract
    <3> QED
      BY <3>2, <3>3
  <2>5. CASE UnloadedAgain(t)
    BY <2>5, DestroyEndsMaps DEF UnloadedAgain, Holding, Contract!CNext
  <2>6. CASE GiveUp(t)
    BY <2>6, ClosesMaps DEF GiveUp, Contract!CNext
  <2> QED
    BY <1>5, <2>1, <2>2, <2>3, <2>4, <2>5, <2>6 DEF LoadStep
<1>6. ASSUME NEW t \in Tasks, Exit(t)
      PROVE  [Contract!CNext]_(Contract!contract)
  <2>1. /\ model' = ConfiguredModel /\ accepting' = TRUE
        /\ \/ state' = "RUNNING" /\ engine' = model' /\ cores' = 1
           \/ state' = "PAUSED" /\ engine' = NONE /\ cores' = 0
    BY <1>6 DEF Exit, Restart
  <2>2. Contract!ProcessRestarts
    BY <2>1 DEF Contract!ProcessRestarts, Contract!Started
  <2> QED
    BY <2>2 DEF Contract!CNext
<1>7. CASE RecoveryStep
  <2>1. CASE Recover
    <3>1. pc[Recovery] = "reap" /\ Recovery \in Tasks
      BY <2>1 DEF Recover, Locked, Tasks
    <3>2. state = "DEAD" /\ engine # NONE
      BY <3>1, InvariantParts DEF Owned, EngineKnown
    <3> QED
      BY <2>1, <3>2, DestroyBeginsMaps DEF Recover, StillDead, Contract!CNext
  <2>2. CASE RecoverReaped
    BY <2>2, DestroyEndsMaps DEF RecoverReaped, Holding, Tasks, Contract!CNext
  <2>3. CASE RecoverDone
    BY <2>3, ClosesMaps DEF RecoverDone, Contract!CNext
  <2> QED
    BY <1>7, <2>1, <2>2, <2>3 DEF RecoveryStep
<1>8. CASE Generate \/ RequestEnds \/ RequestDies
  BY <1>8, ClosesMaps DEF Generate, RequestEnds, RequestDies, flags, Contract!CNext
<1>9. CASE Crash
  <2>1. cores = 1
    BY <1>9, InvariantParts DEF Crash, CoreCounted
  <2> QED
    BY <1>9, <2>1 DEF Crash, flags, Contract!CNext, Contract!CoreExits
<1>10. CASE UNCHANGED vars
  BY <1>10 DEF vars, engineVars, flags, Contract!contract
<1> QED
  BY <1>1, <1>2, <1>3, <1>4, <1>5, <1>6, <1>7, <1>8, <1>9, <1>10 DEF Next

\* The engine implements the contract that the API server is built on.
THEOREM EngineImplementsContract == Spec => ImplementsContract
<1>1. Init => Contract!CInit
  BY DEF Init, Contract!CInit, Contract!Started
<1> QED
  BY <1>1, SpecIInv, StepMaps, PTL DEF Spec, ImplementsContract, Contract!CSpec

-----------------------------------------------------------------------------
(* Without a crash, whoever closes the engine for a drain opens it again.  *)

\* t is in switch_model, ...
SwitchGoesOn(t) ==
    \/ pc[t] \in {"switchDrain", "switchPaused", "switchDone"}
    \/ pc[t] # "idle" /\ ret[t] \in {"switchPaused", "switchDone"}

\* ... or unloads the engine, or drains it while it is RUNNING.
Rearms(t) ==
    \/ SwitchGoesOn(t)
    \/ pc[t] \in Unloading
    \/ state = "RUNNING" /\ pc[t] \in {"drain", "drained"}

NoCrash ==
    /\ ~coreDead
    /\ state # "DEAD"
    /\ \A t \in Tasks : pc[t] # "recoverDone" /\ ret[t] # "recoverDone"

RInv ==
    /\ crashes = 0 => NoCrash
    /\ crashes = 0 /\ ~accepting => \E t \in Tasks : Rearms(t)

\* Whoever else is to open the engine is not disturbed by a step of t.
LEMMA RearmsStays ==
    ASSUME IInv, RInv, NEW t \in Tasks, NEW label, pc' = [pc EXCEPT ![t] = label],
           \A u \in Tasks : u # t => ret'[u] = ret[u],
           crashes' = crashes, coreDead' = coreDead \/ coreDead' = FALSE,
           state = "RUNNING" => state' = "RUNNING",
           crashes = 0 => state' # "DEAD" /\ label # "recoverDone" /\ ret'[t] # "recoverDone",
           accepting' = TRUE \/ (accepting' = accepting /\ (Rearms(t) => Rearms(t)')) \/ Rearms(t)'
    PROVE  RInv'
<1>1. /\ pc'[t] = label /\ \A u \in Tasks : u # t => pc'[u] = pc[u]
      /\ accepting \in BOOLEAN /\ coreDead \in BOOLEAN
  BY InvariantParts DEF SyncTypes, Domains
<1>2. crashes' = 0 => NoCrash'
  BY <1>1 DEF RInv, NoCrash
<1>3. \A u \in Tasks : u # t /\ Rearms(u) => Rearms(u)'
  BY <1>1 DEF Rearms, SwitchGoesOn
<1>4. crashes' = 0 /\ ~accepting' => \E u \in Tasks : Rearms(u)'
  BY <1>1, <1>3 DEF RInv
<1> QED
  BY <1>2, <1>4 DEF RInv

\* A step that leaves the tasks alone, or where there has been a crash.
LEMMA RearmsUntouched ==
    ASSUME RInv, UNCHANGED <<state, accepting, coreDead, pc, ret, crashes>> \/ crashes' > 0
    PROVE  RInv'
  BY DEF RInv, NoCrash, Rearms, SwitchGoesOn

\* The calls and drains.
LEMMA CallsRearm ==
    ASSUME IInv, RInv, NEW t \in Tasks,
           \/ ResumeCalled(t)
           \/ \E u \in Urgency : PauseCalled(t, u)
           \/ DrainEnds(t)
           \/ \E m \in Models : SwitchCalled(t, m)
           \/ SwitchDrained(t)
           \/ SwitchPaused(t)
           \/ SwitchDone(t)
    PROVE  RInv'
<1>1. crashes = 0 => state # "DEAD" /\ ret[t] # "recoverDone"
  BY DEF RInv, NoCrash
<1>2. ret \in [Tasks -> Labels]
  BY InvariantParts DEF Domains
<1>3. CASE ResumeCalled(t)
  BY <1>1, <1>2, <1>3, RearmsStays
     DEF ResumeCalled, Resumes, Acquire, Enter, flags, engineVars, Rearms, SwitchGoesOn, Unloading
<1>4. CASE \E u \in Urgency : PauseCalled(t, u)
  BY <1>1, <1>2, <1>4, RearmsStays
     DEF PauseCalled, CallPause, Resumes, Acquire, Enter, flags, engineVars, Rearms, SwitchGoesOn,
         Unloading
<1>5. CASE DrainEnds(t)
  <2>1. /\ pc[t] = "drain" /\ pc' = [pc EXCEPT ![t] = "drained"]
        /\ UNCHANGED <<state, engineVars, flags, locals, env>>
    BY <1>5 DEF DrainEnds, Resumes, Acquire, Enter
  <2>2. Rearms(t) => Rearms(t)'
    BY <2>1, InvariantParts DEF Rearms, SwitchGoesOn, Unloading, SyncTypes, locals
  <2> QED
    BY <1>1, <2>1, <2>2, RearmsStays DEF flags, engineVars, locals, env
<1>6. CASE \E m \in Models : SwitchCalled(t, m)
  <2>1. PICK label \in {"switchDrain", "pause"} :
            /\ pc' = [pc EXCEPT ![t] = label]
            /\ \/ label = "switchDrain" /\ ret' = ret
               \/ label = "pause" /\ ret' = [ret EXCEPT ![t] = "switchPaused"]
    <3>0. PICK m \in Models : SwitchCalled(t, m)
      BY <1>6
    <3>1. CASE active > 0
      <4>1. pc' = [pc EXCEPT ![t] = "switchDrain"] /\ ret' = ret
        BY <3>0, <3>1 DEF SwitchCalled, Goto
      <4> QED
        BY <4>1
    <3>2. CASE ~(active > 0)
      BY <3>0, <3>2 DEF SwitchCalled, CallPause, Acquire, Enter
    <3> QED
      BY <3>1, <3>2
  <2>2. pc'[t] = label
    BY <2>1, InvariantParts DEF SyncTypes
  <2>3. Rearms(t)'
    BY <1>2, <2>1, <2>2 DEF Rearms, SwitchGoesOn
  <2> QED
    BY <1>1, <1>2, <1>6, <2>1, <2>3, RearmsStays DEF SwitchCalled, engineVars, env
<1>7. CASE SwitchDrained(t)
  <2>1. /\ pc' = [pc EXCEPT ![t] = "pause"] /\ ret' = [ret EXCEPT ![t] = "switchPaused"]
    BY <1>7 DEF SwitchDrained, CallPause, Acquire, Enter
  <2>2. Rearms(t)'
    BY <1>2, <2>1, InvariantParts DEF Rearms, SwitchGoesOn, SyncTypes
  <2> QED
    BY <1>1, <1>2, <1>7, <2>1, <2>2, RearmsStays DEF SwitchDrained, flags, engineVars, env
<1>8. CASE SwitchPaused(t)
  <2>1. /\ pc' = [pc EXCEPT ![t] = "resume"] /\ ret' = [ret EXCEPT ![t] = "switchDone"]
    BY <1>8 DEF SwitchPaused, Acquire, Enter
  <2>2. Rearms(t)'
    BY <1>2, <2>1, InvariantParts DEF Rearms, SwitchGoesOn, SyncTypes
  <2> QED
    BY <1>1, <1>2, <1>8, <2>1, <2>2, RearmsStays DEF SwitchPaused, flags, env
<1>9. CASE SwitchDone(t)
  BY <1>1, <1>9, RearmsStays DEF SwitchDone, Goto, engineVars, locals, env
<1> QED
  BY <1>3, <1>4, <1>5, <1>6, <1>7, <1>8, <1>9

\* pause: its drain and its unload are what it opens the engine after.
LEMMA PauseRearms ==
    ASSUME IInv, RInv, NEW t \in Tasks, Pause(t) \/ Drained(t) \/ PauseDestroys(t) \/ PauseUnloaded(t)
    PROVE  RInv'
<1>1. crashes = 0 => state # "DEAD" /\ ret[t] # "recoverDone"
  BY DEF RInv, NoCrash
<1>2. ret[t] \in Returns /\ pc \in [Tasks -> Labels]
  BY InvariantParts DEF Returning, SyncTypes
<1>3. CASE Pause(t) \/ Drained(t)
  <2>1. /\ pc[t] \in {"pause", "drained"}
        /\ UNCHANGED <<engineVars, ret, crashes>>
    BY <1>3 DEF Pause, Drained, Locked, locals, env
  <2>2. CASE state # "RUNNING"
    <3>1. /\ pc' = [pc EXCEPT ![t] = ret[t]] /\ UNCHANGED <<state, accepting>>
      BY <1>3, <2>2 DEF Pause, Drained, Leave, Goto, flags
    <3>2. Rearms(t) => Rearms(t)'
      BY <1>2, <2>1, <2>2, <3>1 DEF Rearms, SwitchGoesOn, Unloading
    <3> QED
      BY <1>1, <2>1, <3>1, <3>2, RearmsStays DEF engineVars
  <2>3. CASE state = "RUNNING"
    <3>1. PICK label \in {"drain", "drained", "destroy"} :
              /\ pc' = [pc EXCEPT ![t] = label]
              /\ state' = IF label = "destroy" THEN "UNLOADING" ELSE "RUNNING"
      BY <1>3, <2>3 DEF Pause, Drained, Leave, LeaveAndAcquire, Goto, Enter
    <3>2. Rearms(t)'
      BY <1>2, <3>1 DEF Rearms, Unloading
    <3>3. crashes' = 0 => NoCrash'
      BY <1>2, <2>1, <3>1, InvariantParts DEF RInv, NoCrash, engineVars
    <3> QED
      BY <3>2, <3>3 DEF RInv
  <2> QED
    BY <2>2, <2>3
<1>4. CASE PauseDestroys(t)
  <2>1. pc' = [pc EXCEPT ![t] = "destroying"]
    BY <1>4 DEF PauseDestroys, Hold
  <2>2. Rearms(t)'
    BY <1>2, <2>1 DEF Rearms, Unloading
  <2> QED
    BY <1>1, <1>4, <2>1, <2>2, RearmsStays
       DEF PauseDestroys, DestroyBegins, flags, locals, env
<1>5. CASE PauseUnloaded(t)
  <2>1. pc[t] = "destroying" /\ ~pendingResume
    BY <1>5, InvariantParts DEF PauseUnloaded, Locked, EngineKnown, Owned
  <2>2. /\ pc' = [pc EXCEPT ![t] = ret[t]] /\ state' = "PAUSED" /\ accepting' = TRUE
        /\ coreDead' = FALSE /\ UNCHANGED <<ret, crashes>>
    BY <1>5, <2>1 DEF PauseUnloaded, Unlock, Goto, DestroyEnds, AcceptingAfterPause, env
  <2>3. state # "RUNNING"
    BY <2>1, InvariantParts DEF Owned, Unloading
  <2> QED
    BY <1>1, <2>2, <2>3, RearmsStays
<1> QED
  BY <1>3, <1>4, <1>5

\* A load is no one's business but its own.
LEMMA LoadRearms ==
    ASSUME IInv, RInv, NEW t \in Tasks, LoadStep(t)
    PROVE  RInv'
<1>1. crashes = 0 => state # "DEAD" /\ ret[t] # "recoverDone"
  BY DEF RInv, NoCrash
<1>2. ret[t] \in Returns \ {"switchPaused"}
  BY InvariantParts
     DEF LoadStep, Resume, EngineCreated, CreateFails, Loaded, UnloadedAgain, GiveUp, Locked,
         Resumes, Returning, Loading
<1>3. /\ pc[t] \in {"resume", "vram", "loaded", "unloading", "giveUp"}
      /\ state = "RUNNING" => state' = "RUNNING"
      /\ state' \in {state, "LOADING", "RUNNING", "PAUSED"}
      /\ coreDead' = coreDead \/ coreDead' = FALSE
      /\ UNCHANGED <<accepting, ret, crashes>>
  <2>1. pc[t] \in {"resume", "vram", "loaded", "unloading", "giveUp"}
    BY DEF LoadStep, Resume, EngineCreated, CreateFails, Loaded, UnloadedAgain, GiveUp, Locked,
       Resumes
  <2>2. pc[t] # "resume" => state = "LOADING"
    BY <2>1, InvariantParts DEF Owned, Loading
  <2>3. CASE Resume(t)
    BY <2>1, <2>3 DEF Resume, Resumable, engineVars, env
  <2>4. CASE EngineCreated(t) \/ CreateFails(t)
    BY <2>1, <2>4 DEF EngineCreated, CreateFails, flags, locals, env
  <2>5. CASE Loaded(t)
    BY <2>1, <2>2, <2>5 DEF Loaded, Locked, DestroyBegins, engineVars, locals, env
  <2>6. CASE UnloadedAgain(t) \/ GiveUp(t)
    BY <2>1, <2>2, <2>6
       DEF UnloadedAgain, GiveUp, Locked, Resumes, DestroyEnds, engineVars, flags, locals, env
  <2> QED
    BY <2>3, <2>4, <2>5, <2>6 DEF LoadStep
<1>4. PICK label \in {ret[t], "vram", "loaded", "unloading", "giveUp", "exit"} :
          pc' = [pc EXCEPT ![t] = label]
  BY DEF LoadStep, Resume, EngineCreated, CreateFails, Loaded, UnloadedAgain, GiveUp,
     Leave, Hold, Unlock, Goto, Acquire, Enter
<1>5. Rearms(t) => Rearms(t)'
  BY <1>2, <1>3, <1>4, InvariantParts DEF Rearms, SwitchGoesOn, Unloading, SyncTypes
<1>6. crashes = 0 => state' # "DEAD" /\ label # "recoverDone" /\ ret'[t] # "recoverDone"
  BY <1>1, <1>2, <1>3, <1>4
<1> QED
  BY <1>3, <1>4, <1>5, <1>6, RearmsStays

\* Every step keeps it.
LEMMA NextRInv ==
    ASSUME IInv, RInv, [Next]_vars
    PROVE  RInv'
<1>1. ASSUME NEW t \in Callers, ResumeCalled(t) \/ \E u \in Urgency : PauseCalled(t, u)
      PROVE  RInv'
  BY <1>1, CallsRearm DEF Tasks
<1>2. ASSUME NEW t \in Switchers, SwitchStep(t) \/ \E m \in Models : SwitchCalled(t, m)
      PROVE  RInv'
  BY <1>2, CallsRearm DEF Tasks, SwitchStep
<1>3. ASSUME NEW t \in Callers \cup Switchers, PauseStep(t)
      PROVE  RInv'
  BY <1>3, CallsRearm, PauseRearms DEF Tasks, PauseStep
<1>4. ASSUME NEW t \in Tasks, LoadStep(t)
      PROVE  RInv'
  BY <1>4, LoadRearms
<1>5. ASSUME NEW t \in Tasks, Exit(t)
      PROVE  RInv'
  <2>1. /\ accepting' = TRUE /\ coreDead' = FALSE /\ state' \in {"RUNNING", "PAUSED"}
        /\ pc' = [u \in Tasks |-> "idle"] /\ UNCHANGED <<ret, crashes>>
    BY <1>5 DEF Exit, Restart, locals
  <2> QED
    BY <2>1 DEF RInv, NoCrash
<1>6. CASE RecoveryStep \/ RequestDies
  <2>1. crashes # 0
    <3>1. Recovery \in Tasks
      BY DEF Tasks
    <3>2. CASE RecoveryStep
      BY <3>1, <3>2, InvariantParts
         DEF RecoveryStep, Recover, RecoverReaped, RecoverDone, Locked, Resumes, Owned, RInv, NoCrash
    <3>3. CASE RequestDies
      BY <3>3, InvariantParts DEF RequestDies, CoreCounted, RInv, NoCrash
    <3> QED
      BY <1>6, <3>2, <3>3
  <2>2. crashes' = crashes
    BY <1>6 DEF RecoveryStep, Recover, RecoverReaped, RecoverDone, RequestDies, env
  <2> QED
    BY <2>1, <2>2 DEF RInv
<1>7. CASE Generate \/ RequestEnds \/ UNCHANGED vars
  BY <1>7, RearmsUntouched DEF Generate, RequestEnds, vars, engineVars, flags, locals, env
<1>8. CASE Crash
  <2>1. crashes' > 0
    BY <1>8, EngineAssumption, InvariantParts DEF Crash, Domains
  <2> QED
    BY <2>1, RearmsUntouched
<1> QED
  BY <1>1, <1>2, <1>3, <1>4, <1>5, <1>6, <1>7, <1>8 DEF Next

\* However calls and switches overlap, as long as no core crashes, an engine that
\* is RUNNING takes requests again when every call has returned.
THEOREM Accepts == Spec => []UncrashedAccepts
<1>1. Init => RInv
  BY DEF Init, RInv, NoCrash
<1>2. IInv /\ RInv => UncrashedAccepts
  BY InvariantParts
     DEF RInv, Rearms, SwitchGoesOn, Unloading, UncrashedAccepts, AcceptingRestored, Idle
<1> QED
  BY <1>1, <1>2, SpecIInv, NextRInv, PTL DEF Spec

-----------------------------------------------------------------------------
(* Without a crash and a switch, a yield that is called last unloads: the  *)
(* queue that runs pauses and resumes in the order of their calls, and     *)
(* _pending_pause, leave a pause ahead of every engine that runs or loads. *)

\* The premise: only the listener has called.
Alone == crashes = 0 /\ \A t \in Switchers : goal[t] = NONE

\* A call that waits for the lock goes on at once, or is in the queue.
Lined == \A t \in Tasks : pc[t] \in {"pause", "resume"} => running = t \/ InQueue(t, waiters)

\* In the queue a pause comes after each resume.
Covered ==
    \A i \in DOMAIN waiters : pc[waiters[i]] = "resume" =>
        \E j \in DOMAIN waiters : i < j /\ pc[waiters[j]] = "pause"

\* A running engine has a pause ahead of it, and so has one that loads, in the queue or
\* in _pending_pause; no resume goes on without waiting for the lock.
Yielding ==
    /\ state = "RUNNING" => \E t \in Tasks : pc[t] \in {"pause", "drain", "drained"}
    /\ state = "LOADING" => pendingPause \/ \E t \in Tasks : pc[t] \in {"pause", "unloading"}
    /\ running # NONE => pc[running] # "resume"
    /\ Covered

\* What holds under the premise, at every step.
LInv ==
    Alone =>
        /\ \A t \in Switchers \cup {Recovery} : pc[t] = "idle"
        /\ Lined
        /\ state = "LOADING" => \E t \in Tasks : pc[t] \in Loading
        /\ want = "yield" => Yielding

\* A task that is not queued moves: the queue is what it was.
LEMMA CoverStays ==
    ASSUME SyncTypes, NEW t \in Tasks, NEW label, pc' = [pc EXCEPT ![t] = label],
           ~InQueue(t, waiters), waiters' = waiters
    PROVE  Covered => Covered'
  BY DEF Covered, InQueue, SyncTypes

\* A task with the lock moves on: whoever it leaves behind is still in line, and behind
\* a resume there was a pause.
LEMMA CoverMoves ==
    ASSUME SyncTypes, Sync, NEW t \in Tasks, NEW l, Locked(t, l), NEW label, label # "resume",
           pc' = [pc EXCEPT ![t] = label], waiters' = Queue(t)
    PROVE  /\ Covered => Covered'
           /\ Covered /\ l = "resume" /\ running # t => \E u \in Tasks : pc'[u] = "pause"
           /\ \A u \in Tasks \ {t} : InQueue(u, waiters) => InQueue(u, waiters')
<1>1. CASE running = t
  <2>1. waiters' = waiters /\ ~InQueue(t, waiters)
    BY <1>1 DEF Queue, Sync
  <2> QED
    BY <1>1, <2>1, CoverStays
<1>2. CASE running # t
  <2> DEFINE n == Len(waiters)
  <2>1. /\ waiters # << >> /\ Head(waiters) = t /\ waiters' = Tail(waiters) /\ pc[t] = l
    BY <1>2 DEF Locked, Queue
  <2>2. /\ n \in Nat /\ n > 0 /\ waiters[1] = t /\ DOMAIN waiters = 1..n
        /\ DOMAIN waiters' = 1..(n - 1)
        /\ \A i \in 1..n : waiters[i] \in Tasks
        /\ \A i \in 1..(n - 1) : waiters'[i] = waiters[i + 1]
    BY <2>1 DEF SyncTypes
  <2> HIDE DEF n
  <2>3. \A i \in 2..n : waiters[i] # t
    <3>1. \A i, j \in 1..n : waiters[i] = waiters[j] => i = j
      BY <2>2 DEF SyncTypes, Distinct
    <3>2. 1 \in 1..n /\ \A i \in 2..n : i \in 1..n /\ i # 1
      BY <2>2
    <3> QED
      BY <2>2, <3>1, <3>2
  <2>4. \A i \in 2..n : pc'[waiters[i]] = pc[waiters[i]]
    BY <2>2, <2>3 DEF SyncTypes
  <2>5. ASSUME Covered, NEW i \in 1..n, pc[waiters[i]] = "resume"
        PROVE  \E j \in 1..(n - 1) : i <= j /\ pc'[waiters'[j]] = "pause" /\ waiters'[j] \in Tasks
    <3>1. PICK j \in 1..n : i < j /\ pc[waiters[j]] = "pause"
      BY <2>2, <2>5 DEF Covered
    <3>2. j \in 2..n /\ j - 1 \in 1..(n - 1) /\ i <= j - 1 /\ (j - 1) + 1 = j
      BY <2>2, <3>1
    <3>3. waiters'[j - 1] = waiters[j]
      BY <2>2, <3>2
    <3> QED
      BY <2>2, <2>4, <3>1, <3>2, <3>3
  <2>6. ASSUME Covered, NEW i \in 1..(n - 1), pc'[waiters'[i]] = "resume"
        PROVE  \E j \in 1..(n - 1) : i < j /\ pc'[waiters'[j]] = "pause"
    <3>1. i + 1 \in 2..n /\ i + 1 \in 1..n /\ waiters'[i] = waiters[i + 1]
      BY <2>2
    <3>2. pc[waiters[i + 1]] = "resume"
      BY <2>4, <2>6, <3>1
    <3>3. PICK j \in 1..(n - 1) : i + 1 <= j /\ pc'[waiters'[j]] = "pause"
      BY <2>5, <2>6, <3>1, <3>2
    <3> QED
      BY <2>2, <3>3
  <2>7. Covered => Covered'
    BY <2>2, <2>6 DEF Covered
  <2>8. ASSUME Covered, l = "resume" PROVE \E u \in Tasks : pc'[u] = "pause"
    <3>1. 1 \in 1..n /\ pc[waiters[1]] = "resume"
      BY <2>1, <2>2, <2>8
    <3> QED
      BY <2>5, <2>8, <3>1
  <2>9. ASSUME NEW u \in Tasks \ {t}, InQueue(u, waiters) PROVE InQueue(u, waiters')
    <3>1. PICK i \in 1..n : waiters[i] = u
      BY <2>2, <2>9 DEF InQueue
    <3>2. i # 1 /\ i - 1 \in 1..(n - 1) /\ (i - 1) + 1 = i
      BY <2>2, <2>9, <3>1
    <3>3. waiters'[i - 1] = u
      BY <2>2, <3>1, <3>2
    <3> QED
      BY <2>2, <3>2, <3>3 DEF InQueue
  <2> QED
    BY <2>7, <2>8, <2>9
<1> QED
  BY <1>1, <1>2

\* A task comes to a block: it goes on at once, or is the last in the queue.
LEMMA CoverGrows ==
    ASSUME SyncTypes, Sync, NEW t \in Tasks, NEW label, Acquire(t, label), ~InQueue(t, waiters),
           running \in {NONE, t}
    PROVE  /\ running' = t \/ (running' = NONE /\ InQueue(t, waiters'))
           /\ \A u \in Tasks : InQueue(u, waiters) => InQueue(u, waiters')
           /\ label = "pause" => Covered'
           /\ label \notin {"pause", "resume"} /\ Covered => Covered'
<1> DEFINE n == Len(waiters)
<1>1. CASE lock = NONE /\ waiters = << >>
  <2>1. running' = t /\ waiters' = << >>
    BY <1>1 DEF Acquire, Enter
  <2> QED
    BY <1>1, <2>1 DEF Covered, InQueue
<1>2. CASE ~(lock = NONE /\ waiters = << >>)
  <2>1. /\ running' = NONE /\ waiters' = Append(waiters, t) /\ pc' = [pc EXCEPT ![t] = label]
    BY <1>2 DEF Acquire, Enter
  <2>2. /\ n \in Nat /\ DOMAIN waiters = 1..n /\ DOMAIN waiters' = 1..(n + 1)
        /\ \A i \in 1..n : waiters[i] \in Tasks /\ waiters'[i] = waiters[i]
        /\ waiters'[n + 1] = t
    BY <2>1 DEF SyncTypes
  <2> HIDE DEF n
  <2>3. \A i \in 1..n : waiters[i] # t /\ pc'[waiters'[i]] = pc[waiters[i]]
    BY <2>1, <2>2 DEF SyncTypes, InQueue
  <2>4. n + 1 \in 1..(n + 1) /\ pc'[waiters'[n + 1]] = label /\ \A i \in 1..n : i \in 1..(n + 1)
    BY <2>1, <2>2 DEF SyncTypes
  <2>5. InQueue(t, waiters') /\ \A u \in Tasks : InQueue(u, waiters) => InQueue(u, waiters')
    BY <2>2, <2>4 DEF InQueue
  <2>6. \A i \in 1..(n + 1) : i # n + 1 => i \in 1..n /\ i < n + 1
    BY <2>2
  <2>7. ASSUME label = "pause" PROVE Covered'
    BY <2>2, <2>4, <2>6, <2>7 DEF Covered
  <2>8. ASSUME label \notin {"pause", "resume"}, Covered PROVE Covered'
    <3> SUFFICES ASSUME NEW i \in 1..(n + 1), pc'[waiters'[i]] = "resume"
                 PROVE  \E j \in 1..(n + 1) : i < j /\ pc'[waiters'[j]] = "pause"
      BY <2>2 DEF Covered
    <3>1. i \in 1..n /\ pc[waiters[i]] = "resume"
      BY <2>3, <2>4, <2>6, <2>8
    <3>2. PICK j \in 1..n : i < j /\ pc[waiters[j]] = "pause"
      BY <2>2, <2>8, <3>1 DEF Covered
    <3> QED
      BY <2>3, <2>4, <3>2
  <2> QED
    BY <2>1, <2>5, <2>7, <2>8
<1> QED
  BY <1>1, <1>2

\* A step of a caller keeps the invariant if it keeps what depends on that caller.
LEMMA CallerMoves ==
    ASSUME IInv, LInv, Alone, NEW t \in Callers, NEW label, pc' = [pc EXCEPT ![t] = label],
           UNCHANGED <<goal, crashes>>, running \in {NONE, t},
           label \in {"pause", "resume"} => running' = t \/ InQueue(t, waiters'),
           \A u \in Tasks \ {t} : InQueue(u, waiters) => InQueue(u, waiters'),
           state' = "LOADING" =>
               label \in Loading \/ (state = "LOADING" /\ pc[t] \notin Loading),
           want' = "yield" => Yielding'
    PROVE  LInv'
<1>1. /\ t \in Tasks /\ pc'[t] = label /\ \A u \in Tasks \ {t} : pc'[u] = pc[u]
      /\ t \notin Switchers \cup {Recovery} /\ Switchers \cup {Recovery} \subseteq Tasks
  BY EngineAssumption, InvariantParts DEF SyncTypes, Tasks
<1>2. \A u \in Switchers \cup {Recovery} : pc'[u] = "idle"
  BY <1>1 DEF LInv
<1>3. Lined'
  <2>1. Lined
    BY DEF LInv
  <2>2. ASSUME NEW u \in Tasks, u # t, pc'[u] \in {"pause", "resume"}
        PROVE  InQueue(u, waiters')
    <3>1. running = u \/ InQueue(u, waiters)
      BY <1>1, <2>1, <2>2 DEF Lined
    <3>2. running # u
      BY <2>2, NoneIsNoTask
    <3> QED
      BY <2>2, <3>1, <3>2
  <2> QED
    BY <1>1, <2>2 DEF Lined
<1>4. state' = "LOADING" => \E u \in Tasks : pc'[u] \in Loading
  BY <1>1 DEF LInv
<1> QED
  BY <1>2, <1>3, <1>4 DEF LInv

\* The same of the yield that was called last.
LEMMA YieldMoves ==
    ASSUME IInv, Yielding, NEW t \in Tasks, NEW label, pc' = [pc EXCEPT ![t] = label],
           label # "resume", running' \in {NONE, t}, Covered',
           state' = "RUNNING" =>
               \/ label \in {"pause", "drain", "drained"}
               \/ state = "RUNNING" /\ pc[t] \notin {"pause", "drain", "drained"},
           state' = "LOADING" =>
               \/ pendingPause' \/ label \in {"pause", "unloading"}
               \/ \E u \in Tasks : pc'[u] = "pause"
               \/ state = "LOADING" /\ ~pendingPause /\ pc[t] \notin {"pause", "unloading"}
    PROVE  Yielding'
<1>1. pc'[t] = label /\ \A u \in Tasks \ {t} : pc'[u] = pc[u]
  BY InvariantParts DEF SyncTypes
<1>2. state' = "RUNNING" => \E u \in Tasks : pc'[u] \in {"pause", "drain", "drained"}
  BY <1>1 DEF Yielding
<1>3. state' = "LOADING" => pendingPause' \/ \E u \in Tasks : pc'[u] \in {"pause", "unloading"}
  BY <1>1 DEF Yielding
<1>4. running' # NONE => pc'[running'] # "resume"
  BY <1>1
<1> QED
  BY <1>2, <1>3, <1>4 DEF Yielding

\* The calls, and the end of a drain: the caller joins the queue.
LEMMA CallsYield ==
    ASSUME IInv, LInv, Alone, NEW t \in Callers,
           ResumeCalled(t) \/ (\E u \in Urgency : PauseCalled(t, u)) \/ DrainEnds(t)
    PROVE  LInv'
<1>1. t \in Tasks /\ SyncTypes /\ Sync
  BY InvariantParts DEF Tasks
<1>2. /\ running = NONE /\ pc[t] \in {"idle", "drain"} /\ UNCHANGED <<goal, crashes, state>>
      /\ pendingPause' = pendingPause
  BY DEF ResumeCalled, PauseCalled, DrainEnds, Resumes, flags, locals, env
<1>3. ~InQueue(t, waiters)
  BY <1>1, <1>2, NotQueued DEF Queueing
<1>4. PICK label \in {"pause", "resume", "drained"} :
          /\ Acquire(t, label)
          /\ label = "pause" => pc[t] = "idle" /\ want' = "yield"
          /\ label = "resume" => want' = "run"
          /\ label = "drained" => pc[t] = "drain" /\ want' = want
  BY DEF ResumeCalled, PauseCalled, DrainEnds, CallPause, Resumes, env
<1>5. pc' = [pc EXCEPT ![t] = label]
  BY <1>4 DEF Acquire, Enter
<1>6. /\ running' = t \/ (running' = NONE /\ InQueue(t, waiters'))
      /\ \A u \in Tasks : InQueue(u, waiters) => InQueue(u, waiters')
      /\ label = "pause" => Covered'
      /\ label \notin {"pause", "resume"} /\ Covered => Covered'
  BY <1>1, <1>2, <1>3, <1>4, CoverGrows
<1>7. pc[t] \notin Loading
  BY <1>2 DEF Loading
<1>8. ASSUME want' = "yield" PROVE Yielding'
  <2>1. CASE label = "pause"
    <3>1. pc'[t] = "pause"
      BY <1>1, <1>5, <2>1 DEF SyncTypes
    <3>2. running' # NONE => pc'[running'] # "resume"
      BY <1>6, <3>1
    <3> QED
      BY <1>1, <1>6, <2>1, <3>1, <3>2 DEF Yielding
  <2>2. CASE label = "drained"
    <3>1. Yielding
      BY <1>4, <1>8, <2>2 DEF LInv
    <3>2. Covered'
      BY <1>6, <2>2, <3>1 DEF Yielding
    <3>3. running' \in {NONE, t}
      BY <1>6
    <3>4. state' = "LOADING" => pendingPause' \/ (state = "LOADING" /\ ~pendingPause)
      BY <1>2, <1>1
    <3> QED
      BY <1>1, <1>2, <1>4, <1>5, <2>2, <3>1, <3>2, <3>3, <3>4, YieldMoves
  <2> QED
    BY <1>4, <1>8, <2>1, <2>2
<1>9. state' = "LOADING" => state = "LOADING" /\ pc[t] \notin Loading
  BY <1>2, <1>7
<1> QED
  BY <1>2, <1>5, <1>6, <1>8, <1>9, CallerMoves

\* A block of pause that a caller runs with the lock: the pause is done with, or leaves
\* its mark on the engine.
LEMMA PauseYields ==
    ASSUME IInv, LInv, Alone, NEW t \in Callers, Pause(t) \/ Drained(t) \/ PauseDestroys(t)
    PROVE  LInv'
<1>1. t \in Tasks /\ SyncTypes /\ Sync
  BY InvariantParts DEF Tasks
<1>2. PICK l \in {"pause", "drained", "destroy"} :
          /\ Locked(t, l)
          /\ l = "pause" => Pause(t)
          /\ l = "drained" => Drained(t)
          /\ l = "destroy" => PauseDestroys(t)
  BY DEF Pause, Drained, PauseDestroys
<1>3. /\ running \in {NONE, t} /\ pc[t] = l /\ UNCHANGED <<goal, crashes, want>>
  BY <1>2 DEF Locked, Pause, Drained, PauseDestroys, locals, env
<1>4. ret[t] \in Returns /\ pendingPause \in BOOLEAN
  BY <1>1, InvariantParts DEF Returning, Domains
<1>5. PICK label \in {ret[t], "drain", "drained", "destroy", "destroying"} :
          /\ pc' = [pc EXCEPT ![t] = label] /\ waiters' = Queue(t) /\ running' \in {NONE, t}
          /\ state' = "RUNNING" => state = "RUNNING" /\ label \in {"drain", "drained"}
          /\ state' = "LOADING" => state = "LOADING"
          /\ pendingPause' = IF l = "pause" THEN PauseFlag ELSE pendingPause
  <2>1. CASE l = "pause"
    <3>1. CASE state # "RUNNING"
      BY <1>2, <2>1, <3>1 DEF Pause, Leave, Goto
    <3>2. CASE state = "RUNNING" /\ urgency[t] = "NORMAL"
      <4>1. waiters = << >> /\ lock = NONE
        BY <3>2, RunningIsQuiet
      <4>2. running = t
        BY <1>2, <4>1 DEF Locked
      <4>3. Queue(t) = << >>
        BY <4>1, <4>2 DEF Queue
      <4>4. CASE active > 0
        BY <1>2, <2>1, <3>2, <4>4 DEF Pause, Leave, Goto
      <4>5. CASE ~(active > 0)
        BY <1>2, <2>1, <3>2, <4>1, <4>3, <4>5 DEF Pause, LeaveAndAcquire, Enter
      <4> QED
        BY <4>4, <4>5
    <3>3. CASE state = "RUNNING" /\ urgency[t] # "NORMAL"
      <4>1. waiters = << >> /\ lock = NONE
        BY <3>3, RunningIsQuiet
      <4>2. running = t
        BY <1>2, <4>1 DEF Locked
      <4>3. Queue(t) = << >>
        BY <4>1, <4>2 DEF Queue
      <4> QED
        BY <1>2, <2>1, <3>3, <4>1, <4>3 DEF Pause, LeaveAndAcquire, Enter
    <3> QED
      BY <3>1, <3>2, <3>3
  <2>2. CASE l = "drained"
    <3>1. CASE state # "RUNNING"
      BY <1>2, <2>2, <3>1 DEF Drained, Leave, Goto, flags
    <3>2. CASE state = "RUNNING"
      <4>1. waiters = << >> /\ lock = NONE
        BY <3>2, RunningIsQuiet
      <4>2. running = t
        BY <1>2, <4>1 DEF Locked
      <4>3. Queue(t) = << >>
        BY <4>1, <4>2 DEF Queue
      <4> QED
        BY <1>2, <2>2, <3>2, <4>1, <4>3 DEF Drained, LeaveAndAcquire, Enter, flags
    <3> QED
      BY <3>1, <3>2
  <2>3. CASE l = "destroy"
    <3>1. state = "UNLOADING"
      BY <1>1, <1>3, <2>3, InvariantParts DEF Owned, Unloading
    <3> QED
      BY <1>2, <2>3, <3>1 DEF PauseDestroys, Hold, flags
  <2> QED
    BY <2>1, <2>2, <2>3
<1>6. label \notin {"pause", "resume"}
  BY <1>4, <1>5 DEF Returns
<1>7. /\ Covered => Covered'
      /\ \A u \in Tasks \ {t} : InQueue(u, waiters) => InQueue(u, waiters')
  BY <1>1, <1>2, <1>5, <1>6, CoverMoves
<1>8. ASSUME want' = "yield" PROVE Yielding'
  <2>1. Yielding /\ Covered'
    BY <1>3, <1>7, <1>8 DEF LInv, Yielding
  <2>2. state' = "LOADING" => pendingPause' \/ (state = "LOADING" /\ ~pendingPause /\ l # "pause")
    BY <1>5 DEF PauseFlag
  <2> QED
    BY <1>1, <1>3, <1>5, <1>6, <2>1, <2>2, YieldMoves
<1>9. pc[t] \notin Loading
  BY <1>3 DEF Loading
<1>10. state' = "LOADING" => state = "LOADING" /\ pc[t] \notin Loading
  BY <1>5, <1>9
<1> QED
  BY <1>3, <1>5, <1>6, <1>7, <1>8, <1>10, CallerMoves

\* The engine that a caller destroyed is gone.
LEMMA UnloadsYield ==
    ASSUME IInv, LInv, Alone, NEW t \in Callers, PauseUnloaded(t) \/ UnloadedAgain(t)
    PROVE  LInv'
<1>1. t \in Tasks /\ SyncTypes /\ Sync
  BY InvariantParts DEF Tasks
<1>2. ~pendingResume /\ ret[t] \in Returns
  BY <1>1, InvariantParts DEF Owned, Returning
<1>3. PICK l \in Holding : Resumes(t, l) /\ Unlock(t, ret[t]) /\ state' = "PAUSED"
  <2>1. CASE PauseUnloaded(t)
    <3>1. pc[t] = "destroying"
      BY <1>1, <2>1, InvariantParts DEF PauseUnloaded, Locked, EngineKnown
    <3> QED
      BY <1>2, <2>1, <3>1 DEF PauseUnloaded, Holding
  <2>2. CASE UnloadedAgain(t)
    BY <2>2 DEF UnloadedAgain, Holding
  <2> QED
    BY <2>1, <2>2
<1>4. UNCHANGED <<goal, crashes, want>>
  BY DEF PauseUnloaded, UnloadedAgain, locals, env
<1>5. /\ running = NONE /\ pc' = [pc EXCEPT ![t] = ret[t]] /\ running' \in {NONE, t}
      /\ waiters' = waiters /\ pc[t] \in Holding
  BY <1>3 DEF Resumes, Unlock, Goto
<1>6. ret[t] \notin {"pause", "resume"} /\ pc[t] \notin Queueing
  BY <1>2, <1>5 DEF Returns, Holding, Queueing
<1>7. ~InQueue(t, waiters)
  BY <1>1, <1>6, NotQueued
<1>8. Covered => Covered'
  BY <1>1, <1>5, <1>7, CoverStays
<1>9. ASSUME want' = "yield" PROVE Yielding'
  <2>1. Yielding /\ Covered'
    BY <1>4, <1>8, <1>9 DEF LInv, Yielding
  <2> QED
    BY <1>1, <1>3, <1>5, <1>6, <2>1, YieldMoves
<1> QED
  BY <1>3, <1>4, <1>5, <1>6, <1>9, CallerMoves

\* A resume takes the lock only in front of a pause that was called after it.
LEMMA ResumeYields ==
    ASSUME IInv, LInv, Alone, NEW t \in Callers, Resume(t)
    PROVE  LInv'
<1>1. t \in Tasks /\ SyncTypes /\ Sync
  BY InvariantParts DEF Tasks
<1>2. /\ Locked(t, "resume") /\ running \in {NONE, t} /\ pc[t] = "resume"
      /\ UNCHANGED <<goal, crashes, want, pendingPause>>
  BY DEF Resume, Locked, env
<1>3. ret[t] \in Returns
  BY <1>1, InvariantParts DEF Returning
<1>4. PICK label \in {ret[t], "vram"} :
          /\ pc' = [pc EXCEPT ![t] = label] /\ waiters' = Queue(t) /\ running' \in {NONE, t}
          /\ \/ label = "vram" /\ state' = "LOADING"
             \/ state' = state
  <2>1. CASE Resumable
    BY <2>1 DEF Resume, Leave, Goto
  <2>2. CASE ~Resumable
    BY <2>2 DEF Resume, Leave, Goto
  <2> QED
    BY <2>1, <2>2
<1>5. label \notin {"pause", "resume"}
  BY <1>3, <1>4 DEF Returns
<1>6. /\ Covered => Covered'
      /\ Covered /\ running # t => \E u \in Tasks : pc'[u] = "pause"
      /\ \A u \in Tasks \ {t} : InQueue(u, waiters) => InQueue(u, waiters')
  BY <1>1, <1>2, <1>4, <1>5, CoverMoves
<1>7. ASSUME want' = "yield" PROVE Yielding'
  <2>1. Yielding /\ Covered /\ Covered'
    BY <1>2, <1>6, <1>7 DEF LInv, Yielding
  <2>2. running # t
    BY <1>1, <1>2, <2>1, NoneIsNoTask DEF Yielding
  <2>3. \E u \in Tasks : pc'[u] = "pause"
    BY <1>6, <2>1, <2>2
  <2>4. state' = "RUNNING" => state = "RUNNING" /\ pc[t] \notin {"pause", "drain", "drained"}
    BY <1>2, <1>4
  <2> QED
    BY <1>1, <1>4, <1>5, <2>1, <2>3, <2>4, YieldMoves
<1>8. state' = "LOADING" => label \in Loading \/ (state = "LOADING" /\ pc[t] \notin Loading)
  BY <1>2, <1>4 DEF Loading
<1> QED
  BY <1>2, <1>4, <1>5, <1>6, <1>7, <1>8, CallerMoves

\* A load goes on, and fails or not; who waits for VRAM waits alone.
LEMMA CreationYields ==
    ASSUME IInv, LInv, Alone, NEW t \in Callers, EngineCreated(t) \/ CreateFails(t)
    PROVE  LInv'
<1>1. t \in Tasks /\ SyncTypes /\ pendingPause \in BOOLEAN
  BY InvariantParts DEF Tasks, Domains
<1>2. Resumes(t, "vram") /\ UNCHANGED <<goal, crashes, want, pendingPause, state>>
  BY DEF EngineCreated, CreateFails, flags, locals, env
<1>3. /\ pc[t] = "vram" /\ running = NONE /\ lock = NONE /\ waiters = << >>
      /\ state = "LOADING"
  BY <1>1, <1>2, LoaderIsAlone
<1>4. PICK label \in {"vram", "loaded", "giveUp"} :
          pc' = [pc EXCEPT ![t] = label] /\ waiters' = << >> /\ running' \in {NONE, t}
  <2>1. CASE EngineCreated(t)
    BY <1>3, <2>1 DEF EngineCreated, Acquire, Enter
  <2>2. CASE CreateFails(t) /\ RetriesLeft(t)
    BY <1>3, <2>2 DEF CreateFails, Goto
  <2>3. CASE CreateFails(t) /\ ~RetriesLeft(t)
    BY <1>3, <2>3 DEF CreateFails, Acquire, Enter
  <2> QED
    BY <2>1, <2>2, <2>3
<1>5. ASSUME want' = "yield" PROVE Yielding'
  <2>1. Yielding
    BY <1>2, <1>5 DEF LInv
  <2>2. Covered'
    BY <1>4 DEF Covered
  <2>3. pendingPause' \/ (state = "LOADING" /\ ~pendingPause /\ pc[t] \notin {"pause", "unloading"})
    BY <1>1, <1>2, <1>3
  <2> QED
    BY <1>1, <1>2, <1>3, <1>4, <2>1, <2>2, <2>3, YieldMoves
<1>6. label \in Loading
  BY <1>4 DEF Loading
<1> QED
  BY <1>2, <1>3, <1>4, <1>5, <1>6, CallerMoves

\* A load that ends under a yield finds _pending_pause: no pause is still on its way.
LEMMA LoadedYields ==
    ASSUME IInv, LInv, Alone, NEW t \in Callers, Loaded(t) \/ GiveUp(t)
    PROVE  LInv'
<1>1. t \in Tasks /\ SyncTypes /\ Sync /\ ret[t] \in Returns
  BY InvariantParts DEF Tasks, Returning
<1>2. PICK l \in {"loaded", "giveUp"} :
          /\ Locked(t, l)
          /\ l = "loaded" => Loaded(t)
          /\ l = "giveUp" => GiveUp(t)
  BY DEF Loaded, GiveUp
<1>3. UNCHANGED <<goal, crashes, want>>
  BY DEF Loaded, GiveUp, locals, env
<1>4. /\ pc[t] = l /\ running = t /\ lock = NONE /\ state = "LOADING"
      /\ l = "loaded" => engine # NONE /\ waiters = << >>
      /\ \A u \in Tasks : u # t => pc[u] \in Neutral
  BY <1>1, <1>2, LoadedIsAlone
<1>5. ASSUME want = "yield", l = "loaded" PROVE pendingPause
  <2>1. SUFFICES ASSUME NEW u \in Tasks, pc[u] \in {"pause", "unloading"}
                 PROVE  FALSE
    BY <1>3, <1>4, <1>5 DEF LInv, Yielding
  <2>2. u # t /\ pc[u] = "pause" /\ ~InQueue(u, waiters)
    BY <1>4, <1>5, <2>1 DEF Neutral, Loading, InQueue
  <2>3. running = u
    BY <2>1, <2>2 DEF LInv, Lined
  <2> QED
    BY <1>4, <2>2, <2>3
<1>6. PICK label \in {ret[t], "unloading", "exit"} :
          /\ pc' = [pc EXCEPT ![t] = label] /\ waiters' = Queue(t) /\ running' \in {NONE, t}
          /\ \/ state' = "LOADING" /\ label = "unloading"
             \/ state' = "PAUSED"
             \/ state' = "RUNNING" /\ ~pendingPause /\ l = "loaded"
  <2>1. CASE l = "loaded" /\ pendingPause
    BY <1>2, <1>4, <2>1 DEF Loaded, Hold
  <2>2. CASE l = "loaded" /\ ~pendingPause
    BY <1>2, <1>4, <2>2 DEF Loaded, Leave, Goto
  <2>3. CASE l = "giveUp"
    BY <1>2, <2>3 DEF GiveUp, Leave, Goto
  <2> QED
    BY <1>2, <2>1, <2>2, <2>3
<1>7. label \notin {"pause", "resume"}
  BY <1>1, <1>6 DEF Returns
<1>8. /\ Covered => Covered'
      /\ \A u \in Tasks \ {t} : InQueue(u, waiters) => InQueue(u, waiters')
  BY <1>1, <1>2, <1>6, <1>7, CoverMoves
<1>9. ASSUME want' = "yield" PROVE Yielding'
  <2>1. Yielding /\ Covered'
    BY <1>3, <1>8, <1>9 DEF LInv, Yielding
  <2>2. state' # "RUNNING"
    BY <1>3, <1>5, <1>6, <1>9
  <2>3. state' = "LOADING" => label = "unloading"
    BY <1>6
  <2> QED
    BY <1>1, <1>6, <1>7, <2>1, <2>2, <2>3, YieldMoves
<1>10. state' = "LOADING" => label \in Loading
  BY <1>6 DEF Loading
<1> QED
  BY <1>3, <1>4, <1>6, <1>7, <1>8, <1>9, <1>10, CallerMoves

\* The process restarts: no call is left.
LEMMA ExitYields ==
    ASSUME IInv, LInv, NEW t \in Tasks, Exit(t)
    PROVE  LInv'
<1>1. /\ pc' = [u \in Tasks |-> "idle"] /\ waiters' = << >> /\ running' = NONE
      /\ want' = want /\ state' = IF want = "run" THEN "RUNNING" ELSE "PAUSED"
  BY DEF Exit, Restart
<1>2. \A u \in Tasks : pc'[u] = "idle"
  BY <1>1
<1>3. want' = "yield" => Yielding'
  BY <1>1 DEF Yielding, Covered
<1> QED
  BY <1>1, <1>2, <1>3 DEF LInv, Lined, Tasks

\* Every step keeps it: a switch, a crash and what follows a crash end the premise.
LEMMA NextLInv ==
    ASSUME IInv, RInv, LInv, [Next]_vars
    PROVE  LInv'
<1>1. SUFFICES ASSUME Alone'
               PROVE  LInv'
  BY DEF LInv
<1>2. crashes \in Nat /\ goal \in [Tasks -> Models \cup {NONE}] /\ Switchers \subseteq Tasks
  BY EngineAssumption, InvariantParts DEF Domains, Tasks
<1>3. ASSUME NEW t \in Switchers, NEW m \in Models, SwitchCalled(t, m)
      PROVE  FALSE
  <2>1. goal'[t] = m
    BY <1>2, <1>3 DEF SwitchCalled
  <2> QED
    BY <1>1, <1>3, <2>1, EngineAssumption DEF Alone
<1>4. ~Crash
  BY <1>1, <1>2 DEF Crash, Alone
<1>5. Alone
  <2>1. UNCHANGED <<goal, crashes>>
    BY <1>3, <1>4
       DEF Next, SwitchStep, PauseStep, LoadStep, RecoveryStep, ResumeCalled, PauseCalled,
           SwitchDrained, SwitchPaused, SwitchDone, Pause, DrainEnds, Drained, PauseDestroys,
           PauseUnloaded, Resume, EngineCreated, CreateFails, Loaded, UnloadedAgain, GiveUp,
           Exit, Restart, Recover, RecoverReaped, RecoverDone, Generate, RequestEnds,
           RequestDies, vars, locals, env
  <2> QED
    BY <1>1, <2>1 DEF Alone
<1>6. NoCrash /\ \A t \in Switchers \cup {Recovery} : pc[t] = "idle"
  BY <1>5 DEF Alone, RInv, LInv
<1>7. ASSUME NEW t \in Tasks,
             \/ PauseStep(t) /\ t \in Callers \cup Switchers
             \/ LoadStep(t)
      PROVE  LInv'
  <2>1. CASE DrainEnds(t) /\ t \in Callers
    BY <1>5, <2>1, CallsYield
  <2>2. CASE (Pause(t) \/ Drained(t) \/ PauseDestroys(t)) /\ t \in Callers
    BY <1>5, <2>2, PauseYields
  <2>3. CASE (PauseUnloaded(t) \/ UnloadedAgain(t)) /\ t \in Callers
    BY <1>5, <2>3, UnloadsYield
  <2>4. CASE Resume(t) /\ t \in Callers
    BY <1>5, <2>4, ResumeYields
  <2>5. CASE (EngineCreated(t) \/ CreateFails(t)) /\ t \in Callers
    BY <1>5, <2>5, CreationYields
  <2>6. CASE (Loaded(t) \/ GiveUp(t)) /\ t \in Callers
    BY <1>5, <2>6, LoadedYields
  <2>7. t \in Callers
    <3>1. pc[t] # "idle"
      BY <1>7
         DEF PauseStep, Pause, DrainEnds, Drained, PauseDestroys, PauseUnloaded, LoadStep,
             Resume, EngineCreated, CreateFails, Loaded, UnloadedAgain, GiveUp, Locked, Resumes
    <3> QED
      BY <1>6, <3>1 DEF Tasks
  <2> QED
    BY <1>7, <2>1, <2>2, <2>3, <2>4, <2>5, <2>6, <2>7 DEF PauseStep, LoadStep
<1>8. ASSUME NEW t \in Switchers PROVE ~SwitchStep(t)
  BY <1>6 DEF SwitchStep, SwitchDrained, SwitchPaused, SwitchDone, Resumes
<1>9. ~RecoveryStep
  BY <1>6 DEF RecoveryStep, Recover, RecoverReaped, RecoverDone, Locked, Resumes
<1>10. ~RequestDies
  BY <1>6, InvariantParts DEF RequestDies, CoreCounted, NoCrash
<1>11. CASE Generate \/ RequestEnds \/ UNCHANGED vars
  <2>1. UNCHANGED <<state, pc, running, waiters, pendingPause, want>>
    BY <1>11 DEF Generate, RequestEnds, vars, flags, sync, env
  <2> QED
    BY <1>5, <2>1 DEF LInv, Lined, Yielding, Covered, InQueue
<1>12. ASSUME NEW t \in Callers, ResumeCalled(t) \/ \E u \in Urgency : PauseCalled(t, u)
       PROVE  LInv'
  BY <1>5, <1>12, CallsYield
<1>13. ASSUME NEW t \in Callers \cup Switchers, PauseStep(t)
       PROVE  LInv'
  BY <1>7, <1>13 DEF Tasks
<1>14. ASSUME NEW t \in Tasks, LoadStep(t) \/ Exit(t)
       PROVE  LInv'
  BY <1>7, <1>14, ExitYields
<1> QED
  BY <1>3, <1>4, <1>8, <1>9, <1>10, <1>11, <1>12, <1>13, <1>14 DEF Next

\* Without a switch and a crash, however many pauses, resumes, retries and requests
\* overlap: when every call has returned and the last one was a pause, no core holds the GPU.
THEOREM LoneYieldUnloads == Spec => []LoneYieldEndsUnloaded
<1>1. Init => RInv
  BY DEF Init, RInv, NoCrash
<1>2. Init => LInv
  <2> SUFFICES ASSUME Init PROVE LInv
    OBVIOUS
  <2>1. \A t \in Tasks : pc[t] = "idle"
    BY DEF Init
  <2>2. want = "yield" => Yielding
    BY DEF Init, Yielding, Covered
  <2> QED
    BY <2>1, <2>2 DEF Init, LInv, Lined, Tasks
<1>3. IInv /\ RInv /\ LInv => LoneYieldEndsUnloaded
  <2> SUFFICES ASSUME IInv, RInv, LInv, Alone, Idle, want = "yield"
               PROVE  cores = 0
    BY DEF LoneYieldEndsUnloaded, YieldEndsUnloaded, Alone
  <2>1. state \notin {"RUNNING", "LOADING", "UNLOADING"}
    BY InvariantParts DEF LInv, Yielding, Idle, Loading, Owned, Unloading
  <2>2. state = "PAUSED"
    BY <2>1, InvariantParts DEF RInv, NoCrash, Alone, Domains, EngineState
  <2>3. engine = NONE
    BY <2>2, InvariantParts DEF EngineKnown
  <2>4. lock = NONE
    BY InvariantParts DEF Sync, SyncTypes, Idle, Holding
  <2> QED
    BY <2>3, <2>4, InvariantParts DEF CoreCounted
<1> QED
  BY <1>1, <1>2, <1>3, SpecIInv, NextRInv, NextLInv, PTL DEF Spec
=============================================================================
