--------------------------- MODULE ApiServerProofs ---------------------------
(***************************************************************************)
(* Proofs about ApiServer.tla for every set of requests and of models and  *)
(* any number of crashes, yields and restarts.                             *)
(***************************************************************************)
EXTENDS ApiServer, TLAPS

\* What the holder of _model_switch_lock does.
SwitchLabel == {"download", "switch", "switched"}

Label == {"new", "queued", "accepted", "live", "dead", "aborted"} \cup SwitchLabel

\* The domains of the state.
TypeOK ==
    /\ core \in Models \cup {NONE}
    /\ name \in Models
    /\ open \in BOOLEAN
    /\ vram \in BOOLEAN
    /\ pc \in [Requests -> Label \cup Outcomes]
    /\ asked \in [Requests -> Models \cup {"default"}]
    /\ kind \in [Requests -> Kinds]
    /\ by \in [Requests -> Models \cup {NONE}]
    /\ queue \in Seq(Requests)

\* An engine is open only with a core of the model it names.
OpenIsNamed == open => core = name

\* Only the holder of the lock downloads and switches, for a model it has asked
\* for, which the engine has from the renaming on.
SwitchLocked ==
    /\ \A r \in Requests : pc[r] \in SwitchLabel => Holds(r)
    /\ \A r \in Requests : pc[r] \in SwitchLabel \cup {"queued"} => asked[r] \in Models
    /\ \A r \in Requests : pc[r] = "switched" => name = asked[r]

\* A live request has a core, an aborted one has lost it, and only a stream waits
\* for its generator.
Attached ==
    /\ \A r \in Requests : pc[r] = "live" => vram
    /\ \A r \in Requests : pc[r] = "aborted" => core = NONE
    /\ \A r \in Requests : pc[r] = "accepted" => kind[r] = "stream"

IInv == TypeOK /\ OpenIsNamed /\ SwitchLocked /\ Attached /\ AnswerFromModelAsked

-----------------------------------------------------------------------------
(* The queue of the lock.                                                  *)

\* A request that queues goes to the end: the holder stays.
LEMMA AppendKeepsHead ==
    ASSUME NEW S, NEW s \in Seq(S), NEW e \in S
    PROVE  /\ Append(s, e) \in Seq(S)
           /\ Append(s, e) # << >>
           /\ s # << >> => Head(Append(s, e)) = Head(s)
           /\ s = << >> => Head(Append(s, e)) = e
  OBVIOUS

\* Releasing the lock leaves a queue.
LEMMA TailIsQueue ==
    ASSUME NEW S, NEW s \in Seq(S), s # << >>
    PROVE  Tail(s) \in Seq(S)
  OBVIOUS

-----------------------------------------------------------------------------
\* The API server starts with no request, no switch and no core.
LEMMA InitIInv == Init => IInv
<1> SUFFICES ASSUME Init PROVE IInv
  OBVIOUS
<1>1. name \in Models /\ core \in Models \cup {NONE} /\ open \in BOOLEAN /\ vram \in BOOLEAN
  BY ContractAssumption DEF Init, CInit, Started
<1>2. OpenIsNamed
  BY DEF Init, CInit, Started, OpenIsNamed
<1>3. TypeOK
  BY <1>1 DEF Init, TypeOK, Label, Kinds
<1>4. \A r \in Requests : pc[r] = "new"
  BY DEF Init
<1>5. SwitchLocked /\ Attached /\ AnswerFromModelAsked
  BY <1>4 DEF SwitchLocked, SwitchLabel, Attached, AnswerFromModelAsked, Bound
<1> QED
  BY <1>2, <1>3, <1>5 DEF IInv

\* A request that passes the availability check of an engine with a core of the
\* model it has asked for keeps the invariant, whatever it becomes: a stream, a
\* generation or a refusal.
LEMMA ProceedsKeeps ==
    ASSUME NEW r \in Requests, NEW k \in Kinds, NEW available \in BOOLEAN,
           TypeOK,
           Proceeds(r, k, available)
    PROVE  /\ pc' \in [Requests -> Label \cup Outcomes]
           /\ by' \in [Requests -> Models \cup {NONE}]
           /\ \A q \in Requests \ {r} : pc'[q] = pc[q] /\ by'[q] = by[q]
           /\ pc'[r] \in {"unavailable", "accepted", "live", "dead"}
           /\ pc'[r] = "accepted" => k = "stream"
           /\ pc'[r] = "live" => vram
           /\ pc'[r] \in {"live", "dead"} => available /\ by'[r] = core
  BY DEF Proceeds, Generates, Ends, TypeOK, Label, Outcomes

\* A request comes in, by the gates of the chat endpoint.
LEMMA ArrivesKeeps ==
    ASSUME NEW r \in Requests, NEW m \in Models \cup {"default"}, NEW k \in Kinds,
           IInv, Arrives(r, m, k)
    PROVE  IInv'
<1> USE DEF IInv
<1>0. /\ pc[r] = "new"
      /\ asked' = [asked EXCEPT ![r] = m] /\ kind' = [kind EXCEPT ![r] = k]
      /\ asked'[r] = m /\ kind'[r] = k
      /\ \A q \in Requests \ {r} : asked'[q] = asked[q] /\ kind'[q] = kind[q]
      /\ asked' \in [Requests -> Models \cup {"default"}]
      /\ kind' \in [Requests -> Kinds]
      /\ UNCHANGED contract
  BY DEF Arrives, TypeOK
<1>1. CASE IsLoaded(m)
  <2>1. Proceeds(r, k, open) /\ UNCHANGED queue
    BY <1>1 DEF Arrives
  <2>2. /\ pc' \in [Requests -> Label \cup Outcomes]
        /\ by' \in [Requests -> Models \cup {NONE}]
        /\ \A q \in Requests \ {r} : pc'[q] = pc[q] /\ by'[q] = by[q]
        /\ pc'[r] \in {"unavailable", "accepted", "live", "dead"}
        /\ pc'[r] = "accepted" => k = "stream"
        /\ pc'[r] = "live" => vram
        /\ pc'[r] \in {"live", "dead"} => open /\ by'[r] = core
    BY <2>1, ProceedsKeeps DEF TypeOK
  <2>3. TypeOK' /\ OpenIsNamed'
    BY <1>0, <2>1, <2>2 DEF TypeOK, OpenIsNamed, contract
  <2>4. SwitchLocked'
    BY <1>0, <2>1, <2>2 DEF SwitchLocked, SwitchLabel, Holds, contract
  <2>5. Attached'
    BY <1>0, <2>1, <2>2 DEF Attached, contract
  <2>6. pc'[r] \in {"live", "dead"} /\ m # "default" => by'[r] = m
    BY <1>1, <2>2 DEF IsLoaded, OpenIsNamed
  <2>7. AnswerFromModelAsked'
    BY <1>0, <2>2, <2>6 DEF AnswerFromModelAsked, Bound
  <2> QED
    BY <2>3, <2>4, <2>5, <2>7
<1>2. CASE ~IsLoaded(m)
  <2>1. /\ pc' = [pc EXCEPT ![r] = IF queue = << >> THEN "download" ELSE "queued"]
        /\ queue' = Append(queue, r)
        /\ UNCHANGED by
    BY <1>2 DEF Arrives, Ends
  <2>2. /\ queue' \in Seq(Requests) /\ queue' # << >>
        /\ queue # << >> => Head(queue') = Head(queue)
        /\ queue = << >> => Head(queue') = r
    BY <2>1, AppendKeepsHead DEF TypeOK
  <2>3. m \in Models
    BY <1>2 DEF IsLoaded
  <2>4. /\ pc' \in [Requests -> Label \cup Outcomes]
        /\ \A q \in Requests \ {r} : pc'[q] = pc[q]
        /\ pc'[r] = IF queue = << >> THEN "download" ELSE "queued"
    BY <2>1 DEF TypeOK, Label, SwitchLabel
  <2>5. TypeOK' /\ OpenIsNamed'
    BY <1>0, <2>1, <2>2, <2>4 DEF TypeOK, OpenIsNamed, contract
  <2>6. SwitchLocked'
    BY <1>0, <2>2, <2>3, <2>4 DEF SwitchLocked, SwitchLabel, Holds, contract
  <2>7. Attached' /\ AnswerFromModelAsked'
    BY <1>0, <2>1, <2>4 DEF Attached, AnswerFromModelAsked, Bound, contract
  <2> QED
    BY <2>5, <2>6, <2>7
<1> QED
  BY <1>1, <1>2
\* A request that only moves on to another label or ends, with nothing else
\* changed: what the label needs is what the invariant asks.
LEMMA EndsKeeps ==
    ASSUME NEW r \in Requests, NEW label \in Label \cup Outcomes,
           IInv, Ends(r, label),
           UNCHANGED <<core, name, vram, asked, kind, by, queue>>,
           open' \in BOOLEAN, open' => open,
           label \notin {"switched", "live", "aborted", "accepted", "queued"},
           label \in {"dead", "ok"} => pc[r] \in {"live", "dead", "aborted"},
           label \in SwitchLabel => Holds(r) /\ asked[r] \in Models
    PROVE  IInv'
<1>1. /\ pc' = [pc EXCEPT ![r] = label]
      /\ pc' \in [Requests -> Label \cup Outcomes]
      /\ pc'[r] = label
      /\ \A q \in Requests \ {r} : pc'[q] = pc[q]
  BY DEF Ends, IInv, TypeOK
<1>2. TypeOK' /\ OpenIsNamed'
  BY <1>1 DEF IInv, TypeOK, OpenIsNamed
<1>3. SwitchLocked'
  BY <1>1 DEF IInv, SwitchLocked, SwitchLabel, Holds
<1>4. Attached' /\ AnswerFromModelAsked'
  BY <1>1 DEF IInv, Attached, AnswerFromModelAsked, Bound
<1> QED
  BY <1>2, <1>3, <1>4 DEF IInv

\* The holder of the lock leaves it, with its request ended or under way.
LEMMA TailKeepsLocked ==
    ASSUME NEW r \in Requests, IInv, Holds(r), queue' = Tail(queue),
           pc[r] \in SwitchLabel \cup {"queued"},
           UNCHANGED <<name, asked>>,
           \A q \in Requests \ {r} : pc'[q] = pc[q],
           pc'[r] \notin SwitchLabel \cup {"queued"}
    PROVE  SwitchLocked' /\ queue' \in Seq(Requests)
<1>1. \A q \in Requests : pc'[q] \notin SwitchLabel
  BY DEF IInv, SwitchLocked, Holds
<1>2. queue' \in Seq(Requests)
  BY TailIsQueue DEF IInv, TypeOK, Holds
<1>3. SwitchLocked'
  BY <1>1 DEF IInv, SwitchLocked, SwitchLabel
<1> QED
  BY <1>2, <1>3

\* The head of the queue takes _model_switch_lock and looks at the model again.
LEMMA TakesLockKeeps ==
    ASSUME NEW r \in Requests, IInv, TakesLock(r)
    PROVE  IInv'
<1>1. /\ pc[r] = "queued" /\ Holds(r)
      /\ UNCHANGED <<core, name, open, vram, asked, kind>>
      /\ asked[r] \in Models
      /\ kind[r] \in Kinds /\ open \in BOOLEAN
  BY DEF TakesLock, contract, IInv, SwitchLocked, TypeOK
<1>2. CASE asked[r] = name
  <2>1. Proceeds(r, kind[r], open) /\ queue' = Tail(queue)
    BY <1>2 DEF TakesLock
  <2>2. /\ pc' \in [Requests -> Label \cup Outcomes]
        /\ by' \in [Requests -> Models \cup {NONE}]
        /\ \A q \in Requests \ {r} : pc'[q] = pc[q] /\ by'[q] = by[q]
        /\ pc'[r] \in {"unavailable", "accepted", "live", "dead"}
        /\ pc'[r] = "accepted" => kind[r] = "stream"
        /\ pc'[r] = "live" => vram
        /\ pc'[r] \in {"live", "dead"} => open /\ by'[r] = core
    BY <1>1, <2>1, ProceedsKeeps DEF IInv
  <2>3. SwitchLocked' /\ queue' \in Seq(Requests)
    BY <1>1, <2>1, <2>2, TailKeepsLocked DEF SwitchLabel
  <2>4. TypeOK' /\ OpenIsNamed'
    BY <1>1, <2>2, <2>3 DEF IInv, TypeOK, OpenIsNamed
  <2>5. Attached'
    BY <1>1, <2>2 DEF IInv, Attached
  <2>6. AnswerFromModelAsked'
    BY <1>1, <1>2, <2>2 DEF IInv, AnswerFromModelAsked, Bound, OpenIsNamed
  <2> QED
    BY <2>3, <2>4, <2>5, <2>6 DEF IInv
<1>3. CASE asked[r] # name
  <2>1. Ends(r, "download") /\ UNCHANGED <<by, queue>>
    BY <1>3 DEF TakesLock
  <2>2. open' \in BOOLEAN /\ (open' => open)
    BY <1>1
  <2> QED
    BY <1>1, <2>1, <2>2, EndsKeeps DEF Label, SwitchLabel
<1> QED
  BY <1>2, <1>3

\* A streaming response's generator starts, on the engine as it is by then.
LEMMA StreamStartsKeeps ==
    ASSUME NEW r \in Requests, IInv, StreamStarts(r)
    PROVE  IInv'
<1>1. /\ pc[r] = "accepted" /\ kind[r] = "stream"
      /\ UNCHANGED <<core, name, open, vram, asked, kind, queue>>
  BY DEF StreamStarts, contract, IInv, Attached
<1>2. CASE open
  <2>1. /\ pc' \in [Requests -> Label \cup Outcomes]
        /\ by' \in [Requests -> Models \cup {NONE}]
        /\ \A q \in Requests \ {r} : pc'[q] = pc[q] /\ by'[q] = by[q]
        /\ pc'[r] = IF vram THEN "live" ELSE "dead"
    BY <1>2 DEF StreamStarts, Generates, IInv, TypeOK, Label
  <2>2. TypeOK' /\ OpenIsNamed'
    BY <1>1, <2>1 DEF IInv, TypeOK, OpenIsNamed
  <2>3. SwitchLocked'
    BY <1>1, <2>1 DEF IInv, SwitchLocked, SwitchLabel, Holds
  <2>4. Attached' /\ AnswerFromModelAsked'
    BY <1>1, <2>1 DEF IInv, Attached, AnswerFromModelAsked, Bound
  <2> QED
    BY <2>2, <2>3, <2>4 DEF IInv
<1>3. CASE ~open
  <2>1. Ends(r, "unavailable") /\ UNCHANGED by
    BY <1>3 DEF StreamStarts
  <2>2. open' \in BOOLEAN /\ (open' => open)
    BY <1>1 DEF IInv, TypeOK
  <2> QED
    BY <1>1, <2>1, <2>2, EndsKeeps DEF Outcomes, SwitchLabel
<1> QED
  BY <1>2, <1>3

\* How a generation ends.
LEMMA GenerationKeeps ==
    ASSUME NEW r \in Requests, IInv,
           \/ Generation(r)
           \/ GenerationFails(r)
           \/ ClientLeaves(r)
    PROVE  IInv'
<1>1. ASSUME NEW outcome \in Outcomes,
             GenerationEnds(r, outcome),
             pc[r] \in {"accepted", "live", "dead", "aborted"},
             outcome = "ok" => pc[r] # "accepted"
      PROVE  IInv'
  <2>1. /\ Ends(r, outcome)
        /\ UNCHANGED <<core, name, open, vram, asked, kind, by, queue>>
    BY <1>1 DEF GenerationEnds, contract
  <2>2. open' \in BOOLEAN /\ (open' => open)
    BY <2>1 DEF IInv, TypeOK
  <2> QED
    BY <1>1, <2>1, <2>2, EndsKeeps DEF Outcomes, SwitchLabel
<1>2. CASE Finishes(r)
  BY <1>1, <1>2 DEF Finishes, Outcomes
<1>3. CASE LastOutput(r)
  BY <1>1, <1>3 DEF LastOutput, Outcomes
<1>4. CASE StallFails(r)
  BY <1>1, <1>4 DEF StallFails, Stalls, Outcomes
<1>5. CASE CoreFoundDead(r)
  <2>1. /\ Ends(r, "unavailable") /\ pc[r] = "dead"
        /\ UNCHANGED <<core, name, vram, asked, kind, by, queue>>
    BY <1>5 DEF CoreFoundDead, Close, contract
  <2>2. open' = FALSE \/ (~open /\ open' = open)
    BY <1>5 DEF CoreFoundDead, Close, contract
  <2>3. open \in BOOLEAN
    BY DEF IInv, TypeOK
  <2>4. open' \in BOOLEAN /\ (open' => open)
    <3>1. CASE open' = FALSE
      BY <3>1
    <3>2. CASE ~open /\ open' = open
      BY <3>2, <2>3
    <3> QED
      BY <2>2, <3>1, <3>2
  <2> QED
    BY <2>1, <2>4, EndsKeeps DEF Outcomes, SwitchLabel
<1>6. CASE GenerationFails(r)
  BY <1>1, <1>6 DEF GenerationFails, Outcomes
<1>7. CASE ClientLeaves(r)
  BY <1>1, <1>7 DEF ClientLeaves, Outcomes
<1> QED
  BY <1>2, <1>3, <1>4, <1>5, <1>6, <1>7 DEF Generation

\* A switch that fails in its download releases the lock, one that begins closes
\* the engine, and a pause that comes in between starts over.
LEMMA SwitchStartsKeeps ==
    ASSUME NEW r \in Requests, IInv,
           \/ DownloadFails(r)
           \/ SwitchBegins(r)
           \/ SwitchPauses(r)
    PROVE  IInv'
<1>1. CASE DownloadFails(r)
  <2>1. /\ pc[r] = "download" /\ Holds(r)
        /\ pc' = [pc EXCEPT ![r] = "failed"]
        /\ queue' = Tail(queue)
        /\ UNCHANGED <<core, name, open, vram, asked, kind, by>>
    BY <1>1 DEF DownloadFails, Ends, QueueAfterFailure, contract, IInv, SwitchLocked, SwitchLabel
  <2>2. /\ pc' \in [Requests -> Label \cup Outcomes]
        /\ pc'[r] = "failed"
        /\ \A q \in Requests \ {r} : pc'[q] = pc[q]
    BY <2>1 DEF IInv, TypeOK, Outcomes
  <2>3. SwitchLocked' /\ queue' \in Seq(Requests)
    BY <2>1, <2>2, TailKeepsLocked DEF SwitchLabel
  <2>4. TypeOK' /\ OpenIsNamed'
    BY <2>1, <2>2, <2>3 DEF IInv, TypeOK, OpenIsNamed
  <2>5. Attached' /\ AnswerFromModelAsked'
    BY <2>1, <2>2 DEF IInv, Attached, AnswerFromModelAsked, Bound
  <2> QED
    BY <2>3, <2>4, <2>5 DEF IInv
<1>2. CASE SwitchBegins(r)
  <2>1. /\ pc[r] = "download" /\ Holds(r) /\ asked[r] \in Models
        /\ Ends(r, "switch")
        /\ UNCHANGED <<core, name, vram, asked, kind, by, queue>>
    BY <1>2 DEF SwitchBegins, Close, contract, IInv, SwitchLocked, SwitchLabel
  <2>2. open' = FALSE \/ (~open /\ open' = open)
    BY <1>2 DEF SwitchBegins, Close, contract
  <2>3. open \in BOOLEAN
    BY DEF IInv, TypeOK
  <2>4. open' \in BOOLEAN /\ (open' => open)
    <3>1. CASE open' = FALSE
      BY <3>1
    <3>2. CASE ~open /\ open' = open
      BY <3>2, <2>3
    <3> QED
      BY <2>2, <3>1, <3>2
  <2> QED
    BY <2>1, <2>4, EndsKeeps DEF Label, SwitchLabel
<1>3. CASE SwitchPauses(r)
  <2>1. /\ open' = FALSE
        /\ UNCHANGED <<core, name, vram, pc, asked, kind, by, queue>>
    BY <1>3 DEF SwitchPauses, Close, requests
  <2> QED
    BY <2>1 DEF IInv, TypeOK, OpenIsNamed, SwitchLocked, Attached, Holds,
       AnswerFromModelAsked, Bound
<1> QED
  BY <1>1, <1>2, <1>3

\* The engine takes the name only while it is closed, and only from the one
\* request that holds the lock.
LEMMA SwitchRenamesKeeps ==
    ASSUME NEW r \in Requests, IInv, SwitchRenames(r)
    PROVE  IInv'
<1>1. /\ pc[r] = "switch" /\ Holds(r) /\ asked[r] \in Models
      /\ ~open /\ name' = asked[r]
      /\ pc' = [pc EXCEPT ![r] = "switched"]
      /\ UNCHANGED <<core, open, vram, asked, kind, by, queue>>
  BY DEF SwitchRenames, Rename, Ends, IInv, SwitchLocked, SwitchLabel
<1>2. /\ pc' \in [Requests -> Label \cup Outcomes]
      /\ pc'[r] = "switched"
      /\ \A q \in Requests \ {r} : pc'[q] = pc[q]
  BY <1>1 DEF IInv, TypeOK, Label, SwitchLabel
<1>3. \A q \in Requests \ {r} : pc[q] \notin SwitchLabel
  BY <1>1 DEF IInv, SwitchLocked, Holds
<1>4. TypeOK' /\ OpenIsNamed'
  BY <1>1, <1>2 DEF IInv, TypeOK, OpenIsNamed
<1>5. SwitchLocked'
  BY <1>1, <1>2, <1>3 DEF IInv, SwitchLocked, SwitchLabel, Holds
<1>6. Attached' /\ AnswerFromModelAsked'
  BY <1>1, <1>2 DEF IInv, Attached, AnswerFromModelAsked, Bound
<1> QED
  BY <1>4, <1>5, <1>6 DEF IInv

\* An engine that runs after the switch runs the model of its request.
LEMMA SwitchReturnsKeeps ==
    ASSUME NEW r \in Requests, IInv, SwitchReturns(r)
    PROVE  IInv'
<1>1. /\ pc[r] = "switched" /\ Holds(r) /\ asked[r] = name
      /\ queue' = Tail(queue)
      /\ UNCHANGED <<core, name, vram, asked, kind>>
      /\ kind[r] \in Kinds
  BY DEF SwitchReturns, Open, contract, IInv, SwitchLocked, SwitchLabel, TypeOK
<1>2. open' \in BOOLEAN
  <2>1. open' = TRUE \/ open' = open
    BY DEF SwitchReturns, Open, contract
  <2>2. open \in BOOLEAN
    BY DEF IInv, TypeOK
  <2> QED
    BY <2>1, <2>2
<1>3. open' => core = name
  BY DEF SwitchReturns, Open, contract, IInv, OpenIsNamed
<1>4. Proceeds(r, kind[r], open')
  BY DEF SwitchReturns
<1>5. /\ pc' \in [Requests -> Label \cup Outcomes]
      /\ by' \in [Requests -> Models \cup {NONE}]
      /\ \A q \in Requests \ {r} : pc'[q] = pc[q] /\ by'[q] = by[q]
      /\ pc'[r] \in {"unavailable", "accepted", "live", "dead"}
      /\ pc'[r] = "accepted" => kind[r] = "stream"
      /\ pc'[r] = "live" => vram
      /\ pc'[r] \in {"live", "dead"} => open' /\ by'[r] = core
  BY <1>1, <1>2, <1>4, ProceedsKeeps DEF IInv
<1>6. SwitchLocked' /\ queue' \in Seq(Requests)
  BY <1>1, <1>5, TailKeepsLocked DEF SwitchLabel
<1>7. TypeOK' /\ OpenIsNamed'
  BY <1>1, <1>2, <1>3, <1>5, <1>6 DEF IInv, TypeOK, OpenIsNamed
<1>8. Attached'
  BY <1>1, <1>5 DEF IInv, Attached
<1>9. AnswerFromModelAsked'
  BY <1>1, <1>3, <1>5 DEF IInv, AnswerFromModelAsked, Bound
<1> QED
  BY <1>6, <1>7, <1>8, <1>9 DEF IInv

-----------------------------------------------------------------------------
(* The engine's own steps.                                                 *)

\* The engine opens and closes its gate for requests.
LEMMA GatesKeeps ==
    ASSUME IInv, Gates
    PROVE  IInv'
<1>1. /\ UNCHANGED <<core, name, vram, pc, asked, kind, by, queue>>
      /\ open' = FALSE \/ (open' = TRUE /\ core = name)
  BY DEF Gates, Close, Open, requests
<1> QED
  BY <1>1 DEF IInv, TypeOK, OpenIsNamed, SwitchLocked, Attached, Holds,
     AnswerFromModelAsked, Bound

\* No core is let go of by an open engine, and what it served is aborted.
LEMMA EngineDetachesKeeps ==
    ASSUME IInv, EngineDetaches
    PROVE  IInv'
<1>1. /\ ~open /\ core' = NONE
      /\ UNCHANGED <<name, open, vram, asked, kind, by, queue>>
      /\ pc' = [r \in Requests |-> IF pc[r] \in {"live", "dead"} THEN "aborted" ELSE pc[r]]
  BY DEF EngineDetaches, Detach
<1>2. TypeOK' /\ OpenIsNamed'
  BY <1>1 DEF IInv, TypeOK, OpenIsNamed, Label
<1>3. SwitchLocked'
  BY <1>1 DEF IInv, SwitchLocked, SwitchLabel, Holds
<1>4. Attached' /\ AnswerFromModelAsked'
  BY <1>1 DEF IInv, Attached, AnswerFromModelAsked, Bound
<1> QED
  BY <1>2, <1>3, <1>4 DEF IInv

\* A core's memory is gone after it was let go of.
LEMMA CoreGoneKeeps ==
    ASSUME IInv, CoreGone
    PROVE  IInv'
<1>1. /\ vram' = FALSE
      /\ UNCHANGED <<core, name, open, asked, kind, by, queue>>
      /\ pc' = [r \in Requests |-> IF pc[r] = "live" THEN "dead" ELSE pc[r]]
  BY DEF CoreGone, CoreExits
<1>2. TypeOK' /\ OpenIsNamed'
  BY <1>1 DEF IInv, TypeOK, OpenIsNamed, Label
<1>3. SwitchLocked'
  BY <1>1 DEF IInv, SwitchLocked, SwitchLabel, Holds
<1>4. Attached' /\ AnswerFromModelAsked'
  BY <1>1 DEF IInv, Attached, AnswerFromModelAsked, Bound
<1> QED
  BY <1>2, <1>3, <1>4 DEF IInv

\* A core is created under the current name, and when no abort is pending.
LEMMA EngineLoadsKeeps ==
    ASSUME IInv, EngineLoads
    PROVE  IInv'
<1>1. /\ core' = name /\ vram' = TRUE
      /\ UNCHANGED <<name, open, pc, asked, kind, by, queue>>
      /\ AbortsHandled
  BY DEF EngineLoads, Load, requests
<1>2. TypeOK' /\ OpenIsNamed'
  BY <1>1 DEF IInv, TypeOK, OpenIsNamed
<1>3. SwitchLocked' /\ Attached' /\ AnswerFromModelAsked'
  BY <1>1 DEF IInv, SwitchLocked, Holds, Attached, AnswerFromModelAsked, Bound, AbortsHandled
<1> QED
  BY <1>2, <1>3 DEF IInv

\* The listener's pauses and resumes touch no request.
LEMMA MiningKeeps ==
    ASSUME IInv, MiningBegins \/ MiningEnds
    PROVE  IInv'
<1>1. UNCHANGED <<core, name, open, vram, pc, asked, kind, by, queue>>
  BY DEF MiningBegins, MiningEnds, contract, requests
<1> QED
  BY <1>1 DEF IInv, TypeOK, OpenIsNamed, SwitchLocked, Attached, Holds,
     AnswerFromModelAsked, Bound

\* A process that starts knows nothing of the requests of the one before.
LEMMA ExitsKeeps ==
    ASSUME IInv, Exits
    PROVE  IInv'
<1>1. /\ UNCHANGED <<asked, kind, by>> /\ queue' = << >>
      /\ pc' = [r \in Requests |->
                   IF pc[r] \in Outcomes \cup {"new"} THEN pc[r] ELSE "cut"]
      /\ Started(core', name', open', vram')
  BY DEF Exits, ProcessRestarts
<1>2. /\ name' \in Models /\ core' \in Models \cup {NONE}
      /\ open' \in BOOLEAN /\ vram' \in BOOLEAN
      /\ open' => core' = name'
  BY <1>1, ContractAssumption DEF Started
<1>3. /\ pc' \in [Requests -> Label \cup Outcomes]
      /\ \A r \in Requests : pc'[r] \in Outcomes \cup {"new"}
      /\ \A r \in Requests : pc'[r] = "ok" => pc[r] = "ok"
  BY <1>1 DEF IInv, TypeOK, Outcomes, Label
<1>4. TypeOK' /\ OpenIsNamed'
  BY <1>1, <1>2, <1>3 DEF IInv, TypeOK, OpenIsNamed
<1>5. SwitchLocked' /\ Attached'
  BY <1>3 DEF SwitchLocked, SwitchLabel, Attached, Outcomes
<1>6. AnswerFromModelAsked'
  BY <1>1, <1>3 DEF IInv, AnswerFromModelAsked, Bound, Outcomes
<1> QED
  BY <1>4, <1>5, <1>6 DEF IInv

-----------------------------------------------------------------------------
\* Every step of the composition keeps the invariant: one step per action.
LEMMA NextIInv ==
    ASSUME IInv, [Next]_vars
    PROVE  IInv'
<1>1. ASSUME NEW r \in Requests, RequestStep(r)
      PROVE  IInv'
  BY <1>1, ArrivesKeeps, TakesLockKeeps, SwitchStartsKeeps, SwitchRenamesKeeps,
     SwitchReturnsKeeps, StreamStartsKeeps, GenerationKeeps DEF RequestStep
<1>2. CASE EngineStep
  BY <1>2, GatesKeeps, EngineDetachesKeeps, CoreGoneKeeps, EngineLoadsKeeps, MiningKeeps,
     ExitsKeeps DEF EngineStep
<1>3. CASE UNCHANGED vars
  <2>1. UNCHANGED <<core, name, open, vram, pc, asked, kind, by, queue>>
    BY <1>3 DEF vars, contract, requests
  <2> QED
    BY <2>1 DEF IInv, TypeOK, OpenIsNamed, SwitchLocked, Attached, Holds,
       AnswerFromModelAsked, Bound
<1> QED
  BY <1>1, <1>2, <1>3 DEF Next

\* The invariant holds in every behaviour.
LEMMA SpecIInv == Spec => []IInv
  BY InitIInv, NextIInv, PTL DEF Spec

\* For any number of requests, models, crashes, yields and restarts, a plain
\* request that names a model is served by a core of that model, or not at all.
THEOREM ModelAskedAnswers == Spec => []AnswerFromModelAsked
<1>1. IInv => AnswerFromModelAsked
  BY DEF IInv
<1> QED
  BY <1>1, SpecIInv, PTL

\* For any number of them too, an answer and its receipt are given only for a
\* generation that its core has finished.
THEOREM ReceiptsAreForWholeGenerations == Spec => ReceiptForWholeGeneration
<1> DEFINE Whole(r) == pc'[r] = "ok" /\ pc[r] # "ok" => pc[r] = "live" /\ vram
<1>1. ASSUME IInv, [Next]_vars
      PROVE  [\A r \in Requests : Whole(r)]_vars
  <2> SUFFICES ASSUME NEW r \in Requests, pc'[r] = "ok", pc[r] # "ok"
               PROVE  pc[r] = "live" /\ vram
    OBVIOUS
  <2>1. ASSUME NEW q \in Requests, RequestStep(q)
        PROVE  pc[r] = "live" /\ vram
    <3>1. ASSUME NEW label, Ends(q, label), label # "ok"
          PROVE  FALSE
      BY <3>1, <1>1 DEF Ends, IInv, TypeOK
    <3>2. CASE Finishes(q)
      BY <3>2, <1>1 DEF Finishes, GenerationEnds, Ends, IInv, TypeOK, Attached
    <3>3. CASE LastOutput(q)
      BY <3>1, <3>3, <1>1 DEF LastOutput, GenerationEnds, PausedMidGeneration, IInv,
         Attached
    <3>4. CASE StallFails(q) \/ CoreFoundDead(q) \/ GenerationFails(q) \/ ClientLeaves(q)
      BY <3>1, <3>4 DEF StallFails, CoreFoundDead, GenerationFails, ClientLeaves,
         GenerationEnds
    <3>5. CASE DownloadFails(q) \/ SwitchBegins(q) \/ SwitchRenames(q)
      BY <3>1, <3>5 DEF DownloadFails, SwitchBegins, SwitchRenames
    <3>6. CASE SwitchPauses(q)
      BY <3>6 DEF SwitchPauses, requests
    <3>7. ASSUME NEW k, NEW available, Proceeds(q, k, available)
          PROVE  FALSE
      <4>1. CASE Generates(q)
        BY <4>1, <1>1 DEF Generates, IInv, TypeOK
      <4> QED
        BY <3>1, <3>7, <4>1 DEF Proceeds
    <3>8. CASE StreamStarts(q)
      <4>1. CASE Generates(q)
        BY <4>1, <1>1 DEF Generates, IInv, TypeOK
      <4> QED
        BY <3>1, <3>8, <4>1 DEF StreamStarts
    <3>9. CASE TakesLock(q) \/ SwitchReturns(q)
      BY <3>1, <3>7, <3>9 DEF TakesLock, SwitchReturns
    <3>10. ASSUME NEW m \in Models \cup {"default"}, NEW k \in Kinds, Arrives(q, m, k)
           PROVE  FALSE
      BY <3>1, <3>7, <3>10 DEF Arrives
    <3> QED
      BY <2>1, <3>2, <3>3, <3>4, <3>5, <3>6, <3>8, <3>9, <3>10 DEF RequestStep, Generation
  <2>2. CASE EngineStep
    BY <2>2, <1>1 DEF EngineStep, Gates, EngineDetaches, CoreGone, EngineLoads,
       MiningBegins, MiningEnds, Exits, requests, IInv, TypeOK
  <2>3. CASE UNCHANGED vars
    BY <2>3 DEF vars, requests
  <2> QED
    BY <1>1, <2>1, <2>2, <2>3 DEF Next
<1> QED
  BY <1>1, SpecIInv, PTL DEF Spec, ReceiptForWholeGeneration
=============================================================================
