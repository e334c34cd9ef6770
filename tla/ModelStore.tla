----------------------------- MODULE ModelStore -----------------------------
(***************************************************************************)
(* How a worker gets its model at startup: main.py reads the GPU schedule, *)
(* ensure_model (model/manager.py) looks into the cache directory on the   *)
(* shared volume, and download_weights (model/foc_real.py) has the         *)
(* foc-bridge (foc-bridge/server.js) assemble the archive from the storage *)
(* providers' parts, extracts it beside the cache directory and renames.   *)
(* The worker and the bridge are separate containers that restart on their *)
(* own; a download job of the bridge outlives the caller it works for.     *)
(***************************************************************************)
EXTENDS Naturals, FiniteSets

CONSTANTS
    Parts,          \* number of parts of the archive
    Files,          \* files in it
    Config,         \* config.json
    Weights,        \* the files that match a weight pattern
    Pinnings,       \* whether the registry pins the digest of the archive: the cases
    Holders,        \* the providers that hold the pieces
    Alterations,    \* the cases of what the providers serve: those with other bytes
    MaxFaults       \* bound: crashes, timeouts and unanswered fetches

SPs == {"primary", "secondary"}

ASSUME ModelStoreAssumption ==
    /\ Parts \in Nat \ {0}
    /\ IsFiniteSet(Files) /\ Config \in Files
    /\ Weights \subseteq Files \ {Config} /\ Weights # {}
    /\ Pinnings \subseteq BOOLEAN /\ Pinnings # {}
    /\ Holders \subseteq SPs /\ Alterations \subseteq SUBSET SPs /\ Alterations # {}
    /\ MaxFaults \in Nat

\* The bridge runs one job for a destination; a second one is there for the
\* mutant that lets it in.
Jobs == {1, 2}

VARIABLES
    pinned,         \* a setting: the registry pins the archive's digest
    altered,        \* the providers that serve bytes other than the uploaded ones
    client,         \* where the worker's startup is
    gpuFree,        \* the scheduler says AVAILABLE
    seenFree,       \* gpu_available, as read at startup
    loaded,         \* the engine was started with the model
    dest,           \* the cache directory: its files, and whether they are intact
    staging,        \* files in <dest>.extracting
    tar,            \* the archive's path: [there, parts, intact]
    inFlight,       \* the destination is in the bridge's inFlight set
    job,            \* the bridge's jobs: [part, linked, intact], part 0 when idle
    caller,         \* the job whose answer the worker waits for, 0 for none
    reply,          \* an answer on its way to the worker
    faults

worker == <<client, gpuFree, seenFree, loaded>>
volume == <<dest, staging, tar>>
settings == <<pinned, altered>>
bridge == <<inFlight, job, caller, reply>>
vars == <<worker, volume, bridge, faults, settings>>

NoFile == [there |-> FALSE, parts |-> {}, intact |-> TRUE]
Idle == [part |-> 0, linked |-> FALSE, intact |-> TRUE]
EmptyDir == [files |-> {}, intact |-> TRUE]

Init ==
    /\ pinned \in Pinnings
    /\ altered \in Alterations
    /\ client = "down"
    /\ gpuFree \in BOOLEAN
    /\ seenFree = FALSE
    /\ loaded = FALSE
    /\ dest = EmptyDir
    /\ staging = {}
    /\ tar = NoFile
    /\ inFlight = FALSE
    /\ job = [j \in Jobs |-> Idle]
    /\ caller = 0
    /\ reply = "none"
    /\ faults = 0

Fault(n) == faults + n <= MaxFaults /\ faults' = faults + n

\* The file at the archive's path goes; a job that writes it writes on unseen.
Unlink(jobs) ==
    /\ tar' = NoFile
    /\ job' = [j \in Jobs |-> [jobs[j] EXCEPT !.linked = FALSE]]

-----------------------------------------------------------------------------
(* The worker: main, ModelManager.ensure_model.                            *)

MiningChanges ==
    /\ client \notin {"down", "started"}
    /\ gpuFree' = ~gpuFree
    /\ UNCHANGED <<client, seenFree, loaded, volume, bridge, faults>>

\* get_gpu_schedule; a scheduler that cannot be reached counts as not available.
Boot ==
    /\ client = "down"
    /\ client' = "checking"
    /\ seenFree' \in {FALSE, gpuFree}
    /\ UNCHANGED <<gpuFree, loaded, volume, bridge, faults>>

IsModelComplete(files) == Config \in files /\ files \cap Weights # {}

EnsureModel ==
    /\ client = "checking"
    /\ client' = (IF IsModelComplete(dest.files) THEN "ready" ELSE "resolving")
    /\ dest' = (IF IsModelComplete(dest.files) THEN dest ELSE EmptyDir)
    /\ UNCHANGED <<gpuFree, seenFree, loaded, staging, tar, bridge, faults>>

\* A fetch from the providers of `answering`, the primary first: who serves it.
Served(answering, sp) ==
    /\ sp \in answering
    /\ "primary" \in answering => sp = "primary"

Answering(up) == up \subseteq Holders /\ Fault(Cardinality(Holders \ up))

\* check_availability by /resolve; what it does not find is left to HuggingFace.
CheckAvailability ==
    /\ client = "resolving"
    /\ \E up \in SUBSET Holders :
        /\ Answering(up)
        /\ client' = (IF up = {} THEN "ready" ELSE "posting")
    /\ UNCHANGED <<gpuFree, seenFree, loaded, volume, bridge>>

\* download_weights raises: _cleanup_partial, the archive is unlinked, and main
\* ends (the container restarts).
Raise(jobs) ==
    /\ client' = "down"
    /\ dest' = EmptyDir
    /\ staging' = {}
    /\ Unlink(jobs)
    /\ caller' = 0
    /\ reply' = "none"
    /\ UNCHANGED <<gpuFree, seenFree, loaded>>

\* The read timeout of 30 minutes; the bridge's job goes on.
ClientTimeout ==
    /\ client = "asking"
    /\ Fault(1)
    /\ Raise(job)
    /\ UNCHANGED inFlight

TakeError ==
    /\ client = "asking" /\ reply = "error"
    /\ Raise(job)
    /\ UNCHANGED <<inFlight, faults>>

TakeSuccess ==
    /\ client = "asking" /\ reply = "ok"
    /\ client' = "extracting"
    /\ staging' = {}
    /\ caller' = 0
    /\ reply' = "none"
    /\ UNCHANGED <<gpuFree, seenFree, loaded, dest, tar, inFlight, job, faults>>

\* Mutant: the archive is extracted in place.
ExtractedInPlace(f) ==
    dest' = [dest EXCEPT !.files = @ \cup {f}] /\ staging' = staging \cup {f}

\* extractall writes into a directory beside the destination.
Extracted(f) == staging' = staging \cup {f} /\ UNCHANGED dest

ExtractFile ==
    /\ client = "extracting"
    /\ \E f \in Files \ staging : Extracted(f)
    /\ UNCHANGED <<worker, tar, bridge, faults>>

TarWhole == tar.there /\ tar.parts = 1..Parts

ExtractFails ==
    /\ client = "extracting"
    /\ ~TarWhole \/ ~tar.intact
    /\ Raise(job)
    /\ UNCHANGED <<inFlight, faults>>

\* rmtree(dest), rename, unlink. An altered archive may lack files.
Swap ==
    /\ client = "extracting"
    /\ staging = Files \/ ~tar.intact
    /\ dest' = [files |-> staging, intact |-> tar.intact]
    /\ staging' = {}
    /\ client' = "unlinking"
    /\ UNCHANGED <<gpuFree, seenFree, loaded, tar, bridge, faults>>

UnlinkTar ==
    /\ client = "unlinking"
    /\ Unlink(job)
    /\ client' = "ready"
    /\ UNCHANGED <<gpuFree, seenFree, loaded, dest, staging, inFlight, caller, reply,
                   faults>>

\* engine.start when the GPU was available, start_paused otherwise.
StartEngine ==
    /\ client = "ready"
    /\ client' = "started"
    /\ loaded' = seenFree
    /\ UNCHANGED <<gpuFree, seenFree, volume, bridge, faults>>

\* The process dies: what is on the volume stays, and so does the bridge's job.
Crash ==
    /\ client # "down"
    /\ Fault(1)
    /\ client' = "down"
    /\ loaded' = FALSE
    /\ caller' = 0
    /\ reply' = "none"
    /\ UNCHANGED <<gpuFree, seenFree, volume, inFlight, job>>

-----------------------------------------------------------------------------
(* The bridge: POST /download-model.                                       *)

\* Mutant: any number of downloads to one destination.
AnyDownload == FALSE

\* A download to the destination is already in progress.
InProgress == inFlight

Conflict ==
    /\ client = "posting"
    /\ InProgress
    /\ Raise(job)
    /\ UNCHANGED <<inFlight, faults>>

\* createWriteStream opens the path for writing and truncates what is there.
Accept(j) ==
    /\ client = "posting"
    /\ ~InProgress
    /\ job[j].part = 0
    /\ inFlight' = TRUE
    /\ tar' = [there |-> TRUE, parts |-> {}, intact |-> TRUE]
    /\ job' = [job EXCEPT ![j] = [part |-> 1, linked |-> TRUE, intact |-> TRUE]]
    /\ client' = "asking"
    /\ caller' = j
    /\ UNCHANGED <<gpuFree, seenFree, loaded, dest, staging, reply, faults>>

Answer(j, r) == reply' = (IF caller = j THEN r ELSE reply) /\ UNCHANGED caller

\* Mutant: only a successful download leaves the inFlight set.
ReleasedOnSuccess(r) == inFlight' = (IF r = "ok" THEN FALSE ELSE inFlight)

\* The finally block.
Released(r) == inFlight' = FALSE

\* 422 and 500: the file goes before the answer is sent.
JobFails(j) ==
    /\ Unlink([job EXCEPT ![j] = Idle])
    /\ Answer(j, "error")
    /\ Released("error")
    /\ UNCHANGED <<worker, dest, staging>>

\* Mutant: one part too many.
PartsLeftOneMore(p) == p \in 1..(Parts + 1)

PartsLeft(p) == p \in 1..Parts

\* What is intact stays so unless sp adds other bytes.
StaysIntact(intact, sp) == intact /\ sp \notin altered

\* The job j with one more part, from sp.
Fetched(j, sp) == [job[j] EXCEPT !.part = @ + 1, !.intact = StaysIntact(@, sp)]

FetchPart(j) ==
    /\ PartsLeft(job[j].part)
    /\ \E up \in SUBSET Holders, sp \in SPs :
        /\ Answering(up)
        /\ Served(up, sp)
        /\ job' = [job EXCEPT ![j] = Fetched(j, sp)]
        /\ tar' = (IF job[j].linked
                   THEN [tar EXCEPT !.parts = @ \cup {job[j].part},
                                    !.intact = StaysIntact(@, sp)]
                   ELSE tar)
    /\ UNCHANGED <<worker, dest, staging, inFlight, caller, reply>>

\* No provider answers, or the body breaks off after the headers.
PartFails(j) ==
    /\ PartsLeft(job[j].part)
    /\ \/ Answering({})
       \/ Fault(1)
    /\ JobFails(j)

\* stat finds no file, or the digest does not match.
DownloadRefused(j) == ~job[j].linked \/ (pinned /\ ~job[j].intact)

Finish(j) ==
    /\ job[j].part # 0 /\ ~PartsLeft(job[j].part)
    /\ IF DownloadRefused(j)
       THEN JobFails(j)
       ELSE /\ job' = [job EXCEPT ![j] = Idle]
            /\ Answer(j, "ok")
            /\ Released("ok")
            /\ UNCHANGED <<worker, volume>>
    /\ UNCHANGED faults

\* The bridge restarts: its jobs are gone, a caller's connection breaks.
BridgeCrash ==
    /\ \E j \in Jobs : job[j].part # 0
    /\ Fault(1)
    /\ inFlight' = FALSE
    /\ IF client = "asking" /\ reply = "none"
       THEN Raise([j \in Jobs |-> Idle])
       ELSE /\ job' = [j \in Jobs |-> Idle]
            /\ UNCHANGED <<worker, volume, caller, reply>>

-----------------------------------------------------------------------------
Download == \E j \in Jobs : Accept(j) \/ FetchPart(j) \/ PartFails(j) \/ Finish(j)

Step ==
    \/ MiningChanges \/ Boot \/ EnsureModel \/ CheckAvailability
    \/ ClientTimeout \/ TakeError \/ TakeSuccess
    \/ ExtractFile \/ ExtractFails \/ Swap \/ UnlinkTar \/ StartEngine \/ Crash
    \/ Conflict \/ Download \/ BridgeCrash

\* The registry is not edited meanwhile, and the providers stay as they are.
Settled(A) == A /\ UNCHANGED settings

Next == Settled(Step)

Spec == Init /\ [][Next]_vars

\* The containers restart (restart: unless-stopped) and neither program stands
\* still: a part's transfer ends, in the end by undici's body timeout.
WorkerMoves ==
    \/ Boot \/ EnsureModel \/ CheckAvailability \/ TakeError \/ TakeSuccess
    \/ ExtractFile \/ ExtractFails \/ Swap \/ UnlinkTar \/ StartEngine
    \/ Conflict \/ \E j \in Jobs : Accept(j)

BridgeMoves(j) == FetchPart(j) \/ PartFails(j) \/ Finish(j)

FairSpec ==
    /\ Spec
    /\ WF_vars(Settled(WorkerMoves))
    /\ \A j \in Jobs : WF_vars(Settled(BridgeMoves(j)))

-----------------------------------------------------------------------------
(* Properties.                                                             *)

\* Every variable stays in its range: a job never goes past the last part.
TypeOK ==
    /\ pinned \in BOOLEAN
    /\ altered \subseteq SPs
    /\ client \in {"down", "checking", "resolving", "posting", "asking", "extracting",
                   "unlinking", "ready", "started"}
    /\ {gpuFree, seenFree, loaded, inFlight} \subseteq BOOLEAN
    /\ dest \in [files : SUBSET Files, intact : BOOLEAN]
    /\ staging \in SUBSET Files
    /\ tar \in [there : BOOLEAN, parts : SUBSET (1..Parts), intact : BOOLEAN]
    /\ job \in [Jobs -> [part : 0..Parts + 1, linked : BOOLEAN, intact : BOOLEAN]]
    /\ caller \in Jobs \cup {0}
    /\ reply \in {"none", "ok", "error"}
    /\ faults \in 0..MaxFaults

\* A directory that is_model_complete accepts has every file of the archive, and
\* with a pinned digest the bytes of the pinned archive, whatever crashed when.
CompleteIsWhole ==
    IsModelComplete(dest.files) /\ (pinned \/ dest.intact)
        => dest.files = Files /\ dest.intact

\* The worker extracts an archive only when all its parts are in the file: no job
\* of an earlier caller has truncated, unlinked or mixed it.
SuccessMeansWhole == client = "extracting" => TarWhole /\ (pinned => tar.intact)

\* After finitely many faults the worker has a model and starts: no failed or
\* abandoned download blocks the destination for good.  (The primary provider is
\* asked first, so altered bytes there may fail every download.)
ModelArrives == altered # {} \/ <>[](client = "started")

\* The engine is loaded at startup only while the GPU is available.
StartRespectsMining ==
    [][client = "ready" /\ client' = "started" /\ loaded' => gpuFree]_vars
=============================================================================
