------------------------------ MODULE ApiServer ------------------------------
(***************************************************************************)
(* The handlers of /v1/chat/completions and /v1/completions                *)
(* (py-inference/src/inference/api_server.py) over one engine, which is    *)
(* what EngineContract promises of it (a tensor_parallel pool).            *)
(*                                                                         *)
(* A handler runs without interruption until it suspends: at               *)
(* _model_switch_lock, in ensure_model and switch_model, while tokens      *)
(* come, and, for a stream, between its StreamingResponse and the first    *)
(* run of the generator behind it.                                         *)
(***************************************************************************)
EXTENDS EngineContract, Sequences

CONSTANTS
    Requests,
    MaxCrashes,     \* bound: crashes of the engine core
    MaxYields,      \* bound: pauses of the scheduler listener
    MaxRestarts     \* bound: restarts of the process

ASSUME ApiAssumption ==
    /\ "default" \notin Models
    /\ MaxCrashes \in Nat
    /\ MaxYields \in Nat
    /\ MaxRestarts \in Nat

Kinds == {"plain", "stream"}

Outcomes == {"ok",          \* answer and receipt, or final chunk, receipt, [DONE]
             "unavailable", \* 503, or an error frame and [DONE]
             "rejected",    \* 400, or an error frame and [DONE]
             "failed",      \* 500
             "cut",         \* the connection ends without an answer or [DONE]
             "left"}        \* the client has gone

VARIABLES
    pc,         \* how far a request has come, or its outcome
    asked,      \* its model
    kind,
    by,         \* the model of the core that generates for it
    queue,      \* _model_switch_lock: its holder, then the waiters in order
    mining,     \* the listener has paused the engine and not resumed it
    crashes, yields, restarts

requests == <<pc, asked, kind, by>>
bounds == <<crashes, yields, restarts>>
vars == <<contract, requests, queue, mining, bounds>>

Init ==
    /\ CInit
    /\ pc = [r \in Requests |-> "new"]
    /\ asked = [r \in Requests |-> "default"]
    /\ kind = [r \in Requests |-> "plain"]
    /\ by = [r \in Requests |-> NONE]
    /\ queue = << >>
    /\ mining = (core = NONE)       \* start_paused
    /\ crashes = 0
    /\ yields = 0
    /\ restarts = 0

Ends(r, outcome) == pc' = [pc EXCEPT ![r] = outcome]

-----------------------------------------------------------------------------
(* generate and generate_stream, and the handler around them.              *)

\* The core takes the request; one that has crashed takes it too.
Generates(r) ==
    /\ pc' = [pc EXCEPT ![r] = IF vram THEN "live" ELSE "dead"]
    /\ by' = [by EXCEPT ![r] = core]

\* The availability check of a request of kind k, with is_available being
\* available, and what follows it without a suspension.
Proceeds(r, k, available) ==
    IF ~available THEN Ends(r, "unavailable") /\ UNCHANGED by
    ELSE IF k = "stream" THEN Ends(r, "accepted") /\ UNCHANGED by
    ELSE Generates(r)

\* The generator of a stream runs for the first time.
StreamStarts(r) ==
    /\ pc[r] = "accepted"
    /\ IF open THEN Generates(r) ELSE Ends(r, "unavailable") /\ UNCHANGED by
    /\ UNCHANGED <<contract, asked, kind, queue, mining, bounds>>

GenerationEnds(r, outcome) ==
    /\ Ends(r, outcome)
    /\ UNCHANGED <<contract, asked, kind, by, queue, mining, bounds>>

Finishes(r) == pc[r] = "live" /\ GenerationEnds(r, "ok")

\* Mutant: outputs are passed on whatever the state.
PausedMidGenerationUnchecked == FALSE

\* "_state != RUNNING" when an aborted request's last output comes: an engine
\* without a core is not RUNNING.
PausedMidGeneration == core = NONE

\* The abort has woken the request.
LastOutput(r) ==
    /\ pc[r] = "aborted"
    /\ GenerationEnds(r, IF PausedMidGeneration THEN "unavailable" ELSE "ok")

\* Mutant: the wait for an output is not bounded.
StallsNever(r) == FALSE

\* _iter_outputs: no output for _GEN_STALL_TIMEOUT.
Stalls(r) == pc[r] \in {"live", "dead"}

StallFails(r) == Stalls(r) /\ GenerationEnds(r, "unavailable")

\* EngineDeadError: _mark_dead takes the engine out of service.
CoreFoundDead(r) ==
    /\ pc[r] = "dead"
    /\ Close \/ (~open /\ UNCHANGED contract)
    /\ Ends(r, "unavailable")
    /\ UNCHANGED <<asked, kind, by, queue, mining, bounds>>

\* A ValueError (the prompt is too long), or an error nobody foresees: the latter
\* ends a stream without [DONE].
GenerationFails(r) ==
    /\ pc[r] = "live"
    /\ \/ GenerationEnds(r, "rejected")
       \/ GenerationEnds(r, IF kind[r] = "stream" THEN "cut" ELSE "failed")

\* The response task of a stream whose client disconnects is cancelled.
ClientLeaves(r) ==
    /\ kind[r] = "stream"
    /\ pc[r] \in {"accepted", "live", "dead", "aborted"}
    /\ GenerationEnds(r, "left")

-----------------------------------------------------------------------------
(* _ensure_model_loaded.                                                   *)

\* Mutant: while another request switches the model, the current one will do.
IsLoadedOrBusy(m) == m \in {"default", name} \/ queue # << >>

IsLoaded(m) == m \in {"default", name}

\* An asyncio.Lock that is free and has no waiters is taken at once.
Arrives(r, m, k) ==
    /\ pc[r] = "new"
    /\ asked' = [asked EXCEPT ![r] = m]
    /\ kind' = [kind EXCEPT ![r] = k]
    /\ IF IsLoaded(m)
         THEN Proceeds(r, k, open) /\ UNCHANGED queue
         ELSE /\ Ends(r, IF queue = << >> THEN "download" ELSE "queued")
              /\ queue' = Append(queue, r)
              /\ UNCHANGED by
    /\ UNCHANGED <<contract, mining, bounds>>

Holds(r) == queue # << >> /\ Head(queue) = r

\* The lock comes to r, which looks at the model once more.
TakesLock(r) ==
    /\ pc[r] = "queued"
    /\ Holds(r)
    /\ IF asked[r] = name
         THEN Proceeds(r, kind[r], open) /\ queue' = Tail(queue)
         ELSE Ends(r, "download") /\ UNCHANGED <<by, queue>>
    /\ UNCHANGED <<contract, asked, kind, mining, bounds>>

\* Mutant: the lock is not released when ensure_model raises.
QueueAfterFailureKept == queue

QueueAfterFailure == Tail(queue)

DownloadFails(r) ==
    /\ pc[r] = "download"
    /\ Ends(r, "failed")
    /\ queue' = QueueAfterFailure
    /\ UNCHANGED <<contract, asked, kind, by, mining, bounds>>

\* ensure_model has returned a path, and switch_model refuses new requests.
SwitchBegins(r) ==
    /\ pc[r] = "download"
    /\ Close \/ (~open /\ UNCHANGED contract)
    /\ Ends(r, "switch")
    /\ UNCHANGED <<asked, kind, by, queue, mining, bounds>>

\* An immediate pause and a resume have come in between: its pause starts over.
SwitchPauses(r) ==
    /\ pc[r] = "switch"
    /\ Close
    /\ UNCHANGED <<requests, queue, mining, bounds>>

\* Its drain and its pause have ended, and its resume begins.
SwitchRenames(r) ==
    /\ pc[r] = "switch"
    /\ Rename(asked[r])
    /\ Ends(r, "switched")
    /\ UNCHANGED <<asked, kind, by, queue, mining, bounds>>

\* Its resume has returned, with an engine that runs or does not.
SwitchReturns(r) ==
    /\ pc[r] = "switched"
    /\ Open \/ UNCHANGED contract
    /\ Proceeds(r, kind[r], open')
    /\ queue' = Tail(queue)
    /\ UNCHANGED <<asked, kind, mining, bounds>>

-----------------------------------------------------------------------------
(* The engine and the listener.                                            *)

\* Pauses, drains and recoveries close the engine, resumes and recoveries open it.
Gates == (Close \/ Open) /\ UNCHANGED <<requests, queue, mining, bounds>>

\* _destroy_engine aborts what is in flight, and what it wakes runs long before
\* the core is gone.
EngineDetaches ==
    /\ Detach
    /\ pc' = [r \in Requests |-> IF pc[r] \in {"live", "dead"} THEN "aborted" ELSE pc[r]]
    /\ UNCHANGED <<asked, kind, by, queue, mining, bounds>>

AbortsHandled == \A r \in Requests : pc[r] # "aborted"

\* The core exits after its engine let go of it, or crashes.
CoreGone ==
    /\ AbortsHandled
    /\ CoreExits
    /\ crashes' = IF core = NONE THEN crashes ELSE crashes + 1
    /\ crashes' <= MaxCrashes
    /\ pc' = [r \in Requests |-> IF pc[r] = "live" THEN "dead" ELSE pc[r]]
    /\ UNCHANGED <<asked, kind, by, queue, mining, yields, restarts>>

Switching == \E r \in Requests : pc[r] = "switched"

\* The listener's resume, a recovery, or the resume of switch_model, which does
\* not ask whether the listener has paused the engine.
EngineLoads ==
    /\ AbortsHandled
    /\ ~mining \/ Switching
    /\ Load
    /\ UNCHANGED <<requests, queue, mining, bounds>>

\* A pause of the listener has unloaded the engine and nobody is loading it, ...
MiningBegins ==
    /\ ~mining
    /\ core = NONE
    /\ ~vram
    /\ ~Switching
    /\ yields < MaxYields
    /\ yields' = yields + 1
    /\ mining' = TRUE
    /\ UNCHANGED <<contract, requests, queue, crashes, restarts>>

\* ... until the listener calls resume.
MiningEnds ==
    /\ mining
    /\ mining' = FALSE
    /\ UNCHANGED <<contract, requests, queue, bounds>>

\* os._exit, after reloads that failed: every connection is cut.
Exits ==
    /\ restarts < MaxRestarts
    /\ restarts' = restarts + 1
    /\ ProcessRestarts
    /\ pc' = [r \in Requests |-> IF pc[r] \in Outcomes \cup {"new"} THEN pc[r] ELSE "cut"]
    /\ queue' = << >>
    /\ mining' = (core' = NONE)
    /\ UNCHANGED <<asked, kind, by, crashes, yields>>

-----------------------------------------------------------------------------
Generation(r) == Finishes(r) \/ LastOutput(r) \/ StallFails(r) \/ CoreFoundDead(r)

RequestStep(r) ==
    \/ \E m \in Models \cup {"default"}, k \in Kinds : Arrives(r, m, k)
    \/ TakesLock(r)
    \/ DownloadFails(r)
    \/ SwitchBegins(r)
    \/ SwitchPauses(r)
    \/ SwitchRenames(r)
    \/ SwitchReturns(r)
    \/ StreamStarts(r)
    \/ Generation(r)
    \/ GenerationFails(r)
    \/ ClientLeaves(r)

EngineStep ==
    \/ Gates
    \/ EngineDetaches
    \/ CoreGone
    \/ EngineLoads
    \/ MiningBegins
    \/ MiningEnds
    \/ Exits

Next == EngineStep \/ \E r \in Requests : RequestStep(r)

Spec == Init /\ [][Next]_vars

\* The event loop runs what is ready, ensure_model returns or raises, and
\* switch_model returns (its pause and its resume do: CallsReturn of Engine).  No
\* core has to answer, and none has to be loaded.
Fairness == \A r \in Requests :
    /\ WF_vars(TakesLock(r))
    /\ WF_vars(DownloadFails(r) \/ SwitchBegins(r))
    /\ WF_vars(SwitchPauses(r))
    /\ SF_vars(SwitchRenames(r))
    /\ WF_vars(SwitchReturns(r))
    /\ WF_vars(StreamStarts(r))
    /\ WF_vars(LastOutput(r))
    /\ WF_vars(StallFails(r))

FairSpec == Spec /\ Fairness

-----------------------------------------------------------------------------
(* Properties.                                                             *)

Bound(r) == asked[r] # "default" /\ pc[r] \in {"live", "dead", "aborted", "ok"}

\* Whatever switches, pauses and crashes come between, a request that named a
\* model is generated by that model, and its receipt says so ("silently serve the
\* wrong model", _model_matches).  For a stream see StreamFromModelAsked.
AnswerFromModelAsked ==
    \A r \in Requests : Bound(r) /\ kind[r] = "plain" => by[r] = asked[r]

\* The same for a stream, whose checks and generator run apart.
StreamFromModelAsked ==
    \A r \in Requests : Bound(r) /\ kind[r] = "stream" => by[r] = asked[r]

\* An answer, and the receipt that is settled on-chain, is only given for a
\* generation its core has finished, never for one that a yield, a switch or a
\* crash has broken off.
ReceiptForWholeGeneration ==
    [][\A r \in Requests : pc'[r] = "ok" /\ pc[r] # "ok" => pc[r] = "live" /\ vram]_vars

\* Every request is answered, whatever happens to the core that serves it and to
\* the requests queued before it for a switch.
RequestsAnswered ==
    \A r \in Requests : pc[r] # "new" ~> pc[r] \in Outcomes

\* While the listener keeps the engine paused, the GPU is mining's ("Mining always
\* wins": while yielded, the API answers 503).
YieldedGpuStaysFree == mining => ~vram
=============================================================================
