-------------------------- MODULE ModelStoreProofs --------------------------
(***************************************************************************)
(* Proofs about ModelStore.tla for any archive, any providers and any      *)
(* number of crashes, timeouts and unanswered fetches: whatever of the     *)
(* worker and the bridge dies when, the cache never accepts less than the  *)
(* uploaded archive.                                                       *)
(*                                                                         *)
(* The argument: the bridge has one job at a time, and it is the only      *)
(* writer of the file at the archive's path; once it has answered, no job  *)
(* is left that could change the file before the worker has extracted it.  *)
(***************************************************************************)
EXTENDS ModelStore, FiniteSetTheorems, TLAPS

\* A job is under way exactly while the destination is in the inFlight set, and
\* there is one at most.
OneJob ==
    /\ \A j \in Jobs : job[j].part # 0 => inFlight
    /\ \A i, j \in Jobs : job[i].part # 0 /\ job[j].part # 0 => i = j
    /\ \A j \in Jobs : job[j].linked => job[j].part # 0

\* The worker waits for the job that it started, which has the path, until there
\* is an answer; from then on until its next start no job is under way.
Waiting ==
    /\ client = "asking" <=> caller # 0
    /\ reply # "none" => client = "asking"
    /\ caller # 0 /\ reply = "none" => job[caller].linked
    /\ reply # "none" \/ client = "extracting" => \A j \in Jobs : job[j].part = 0

\* The file at the path holds what the job that writes it has fetched.
Written ==
    \A j \in Jobs : job[j].linked =>
        tar.there /\ tar.parts = 1..(job[j].part - 1) /\ tar.intact = job[j].intact

\* A download that was answered with success has left a whole archive.
Delivered ==
    reply = "ok" \/ client = "extracting" => TarWhole /\ (pinned => tar.intact)

IInv == TypeOK /\ OneJob /\ Waiting /\ Written /\ Delivered /\ CompleteIsWhole

-----------------------------------------------------------------------------
(* Types.                                                                  *)

\* Faults are counted up to the bound.
LEMMA FaultType ==
    ASSUME NEW n \in Nat, faults \in 0..MaxFaults, Fault(n)
    PROVE  faults' \in 0..MaxFaults
BY ModelStoreAssumption DEF Fault

\* A fetch costs as many faults as providers do not answer.
LEMMA AnsweringType ==
    ASSUME NEW up, Answering(up), faults \in 0..MaxFaults
    PROVE  faults' \in 0..MaxFaults
<1>1. IsFiniteSet(SPs)
  <2>1. IsFiniteSet({}) /\ IsFiniteSet({"primary"})
    BY FS_EmptySet, FS_Singleton
  <2>2. SPs = {"primary"} \cup {"secondary"}
    BY DEF SPs
  <2> QED
    BY <2>1, <2>2, FS_AddElement
<1>2. IsFiniteSet(Holders \ up)
  BY <1>1, FS_Subset, ModelStoreAssumption
<1> QED
  BY <1>2, FS_CardinalityType, FaultType DEF Answering

\* A job of the bridge, as one under way or as an idle one.
Job == [part : 0..Parts + 1, linked : BOOLEAN, intact : BOOLEAN]

-----------------------------------------------------------------------------
(* The worker's steps.                                                     *)

\* What a step leaves alone of the archive and the answer keeps the invariant.
LEMMA QuietKeeps ==
    ASSUME IInv,
           UNCHANGED <<volume, bridge, settings>>,
           client # "asking", client' \notin {"asking", "extracting"},
           client' \in {"down", "checking", "resolving", "posting", "ready", "started"},
           {gpuFree', seenFree', loaded'} \subseteq BOOLEAN,
           faults' \in 0..MaxFaults
    PROVE  IInv'
<1>1. TypeOK'
  BY DEF IInv, TypeOK, volume, bridge, settings
<1>2. OneJob' /\ Written' /\ CompleteIsWhole'
  BY DEF IInv, OneJob, Written, CompleteIsWhole, IsModelComplete, volume, bridge, settings
<1>3. Waiting' /\ Delivered'
  BY DEF IInv, Waiting, Delivered, volume, bridge, settings
<1> QED
  BY <1>1, <1>2, <1>3 DEF IInv

\* download_weights raises: the path has no writer, and nobody waits.
LEMMA RaiseKeeps ==
    ASSUME IInv, NEW jobs \in [Jobs -> Job], Raise(jobs), UNCHANGED settings,
           \A j \in Jobs : jobs[j].part = job[j].part \/ jobs[j].part = 0,
           \/ inFlight' = inFlight
           \/ inFlight' = FALSE /\ \A j \in Jobs : jobs[j].part = 0,
           faults' \in 0..MaxFaults
    PROVE  IInv'
<1>1. /\ job' \in [Jobs -> Job]
      /\ \A j \in Jobs : job'[j].part = jobs[j].part /\ job'[j].linked = FALSE
  BY DEF Raise, Unlink, Job
<1>2. /\ client' = "down" /\ dest' = EmptyDir /\ staging' = {} /\ tar' = NoFile
      /\ caller' = 0 /\ reply' = "none" /\ UNCHANGED <<gpuFree, seenFree, loaded>>
  BY DEF Raise, Unlink
<1>3. TypeOK'
  BY <1>1, <1>2 DEF IInv, TypeOK, EmptyDir, NoFile, Job, settings, Jobs
<1>4. OneJob' /\ Written'
  BY <1>1, <1>2 DEF IInv, OneJob, Written
<1>5. Waiting' /\ Delivered' /\ CompleteIsWhole'
  BY <1>2, ModelStoreAssumption
     DEF Waiting, Delivered, CompleteIsWhole, IsModelComplete, EmptyDir
<1> QED
  BY <1>3, <1>4, <1>5 DEF IInv

\* The scheduler's answers, the start, and what finds no file to work on.
LEMMA StartupKeeps ==
    ASSUME IInv, UNCHANGED settings,
           MiningChanges \/ Boot \/ CheckAvailability \/ StartEngine
    PROVE  IInv'
<1>1. CASE Boot
  BY <1>1, QuietKeeps DEF Boot, IInv, TypeOK
<1>2. CASE CheckAvailability
  <2>1. faults' \in 0..MaxFaults
    BY <1>2, AnsweringType DEF CheckAvailability, IInv, TypeOK
  <2> QED
    BY <1>2, <2>1, QuietKeeps DEF CheckAvailability, IInv, TypeOK
<1>3. CASE StartEngine
  BY <1>3, QuietKeeps DEF StartEngine, IInv, TypeOK
<1>4. CASE MiningChanges
  BY <1>4 DEF MiningChanges, IInv, TypeOK, OneJob, Waiting, Written, Delivered, TarWhole,
              CompleteIsWhole, IsModelComplete, volume, bridge, settings
<1> QED
  BY <1>1, <1>2, <1>3, <1>4

\* ensure_model: a directory that is not complete is emptied.
LEMMA EnsureModelKeeps ==
    ASSUME IInv, UNCHANGED settings, EnsureModel
    PROVE  IInv'
<1>1. TypeOK'
  BY DEF EnsureModel, IInv, TypeOK, EmptyDir, bridge, settings
<1>2. OneJob' /\ Waiting' /\ Written' /\ Delivered'
  BY DEF EnsureModel, IInv, OneJob, Waiting, Written, Delivered, TarWhole, bridge, settings
<1>3. CompleteIsWhole'
  BY ModelStoreAssumption
     DEF EnsureModel, IInv, CompleteIsWhole, IsModelComplete, EmptyDir, settings
<1> QED
  BY <1>1, <1>2, <1>3 DEF IInv

\* The worker gives up: at the timeout, at an error, at a conflict, or when the
\* archive cannot be extracted.
LEMMA GivesUpKeeps ==
    ASSUME IInv, UNCHANGED settings,
           ClientTimeout \/ TakeError \/ ExtractFails \/ Conflict
    PROVE  IInv'
<1>1. job \in [Jobs -> Job]
  BY DEF IInv, TypeOK, Job
<1>2. faults' \in 0..MaxFaults
  BY FaultType DEF ClientTimeout, TakeError, ExtractFails, Conflict, IInv, TypeOK
<1> QED
  BY <1>1, <1>2, RaiseKeeps DEF ClientTimeout, TakeError, ExtractFails, Conflict

\* The worker has its answer: what Delivered says of it stays until the swap.
LEMMA TakeSuccessKeeps ==
    ASSUME IInv, UNCHANGED settings, TakeSuccess
    PROVE  IInv'
<1>1. TypeOK'
  BY DEF TakeSuccess, IInv, TypeOK, settings
<1>2. OneJob' /\ Written' /\ CompleteIsWhole'
  BY DEF TakeSuccess, IInv, OneJob, Written, CompleteIsWhole, IsModelComplete, settings
<1>3. Waiting' /\ Delivered'
  BY DEF TakeSuccess, IInv, Waiting, Delivered, TarWhole, settings
<1> QED
  BY <1>1, <1>2, <1>3 DEF IInv

\* extractall writes one more file beside the cache directory.
LEMMA ExtractFileKeeps ==
    ASSUME IInv, UNCHANGED settings, ExtractFile
    PROVE  IInv'
<1>1. PICK f \in Files : staging' = staging \cup {f} /\ UNCHANGED dest
  BY DEF ExtractFile, Extracted
<1>2. TypeOK'
  BY <1>1 DEF ExtractFile, IInv, TypeOK, worker, bridge, settings
<1>3. /\ OneJob' /\ Waiting' /\ Written' /\ Delivered' /\ CompleteIsWhole'
  BY <1>1 DEF ExtractFile, IInv, OneJob, Waiting, Written, Delivered, TarWhole,
              CompleteIsWhole, IsModelComplete, worker, bridge, settings
<1> QED
  BY <1>2, <1>3 DEF IInv

\* The swap: an archive with the uploaded bytes has been extracted completely.
LEMMA SwapKeeps ==
    ASSUME IInv, UNCHANGED settings, Swap
    PROVE  IInv'
<1>1. TypeOK'
  BY DEF Swap, IInv, TypeOK, bridge, settings
<1>2. OneJob' /\ Waiting' /\ Written' /\ Delivered'
  BY DEF Swap, IInv, OneJob, Waiting, Written, Delivered, TarWhole, bridge, settings
<1>3. CompleteIsWhole'
  BY DEF Swap, IInv, Delivered, CompleteIsWhole, TypeOK, settings
<1> QED
  BY <1>1, <1>2, <1>3 DEF IInv

\* The archive goes after the swap.
LEMMA UnlinkTarKeeps ==
    ASSUME IInv, UNCHANGED settings, UnlinkTar
    PROVE  IInv'
<1>1. /\ job' \in [Jobs -> Job]
      /\ \A j \in Jobs : job'[j].part = job[j].part /\ job'[j].linked = FALSE
      /\ tar' = NoFile
  BY DEF UnlinkTar, Unlink, Job, IInv, TypeOK
<1>2. TypeOK'
  BY <1>1 DEF UnlinkTar, IInv, TypeOK, NoFile, Job, settings
<1>3. OneJob' /\ Waiting' /\ Written' /\ Delivered' /\ CompleteIsWhole'
  BY <1>1 DEF UnlinkTar, IInv, OneJob, Waiting, Written, Delivered, CompleteIsWhole,
              IsModelComplete, settings
<1> QED
  BY <1>2, <1>3 DEF IInv

\* The worker dies: its job goes on, and nobody waits for it.
LEMMA CrashKeeps ==
    ASSUME IInv, UNCHANGED settings, Crash
    PROVE  IInv'
<1>1. faults' \in 0..MaxFaults
  BY FaultType DEF Crash, IInv, TypeOK
<1>2. TypeOK'
  BY <1>1 DEF Crash, IInv, TypeOK, volume, settings
<1>3. OneJob' /\ Waiting' /\ Written' /\ Delivered' /\ CompleteIsWhole'
  BY DEF Crash, IInv, OneJob, Waiting, Written, Delivered, TarWhole, CompleteIsWhole,
         IsModelComplete, volume, settings
<1> QED
  BY <1>2, <1>3 DEF IInv

-----------------------------------------------------------------------------
(* The bridge's steps.                                                     *)

\* A download begins: it truncates the file, which no other job writes.
LEMMA AcceptKeeps ==
    ASSUME IInv, UNCHANGED settings, NEW j \in Jobs, Accept(j)
    PROVE  IInv'
<1>1. \A i \in Jobs : job[i].part = 0 /\ job[i].linked = FALSE
  BY DEF Accept, InProgress, IInv, OneJob, TypeOK
<1>2. /\ job' = [job EXCEPT ![j] = [part |-> 1, linked |-> TRUE, intact |-> TRUE]]
      /\ tar' = [there |-> TRUE, parts |-> {}, intact |-> TRUE]
      /\ inFlight' = TRUE /\ caller' = j /\ client' = "asking" /\ client = "posting"
      /\ UNCHANGED <<gpuFree, seenFree, loaded, dest, staging, reply, faults>>
  BY DEF Accept
<1>3. job' \in [Jobs -> Job]
  BY <1>2, ModelStoreAssumption DEF IInv, TypeOK, Job
<1>4. TypeOK'
  BY <1>2, <1>3 DEF IInv, TypeOK, Job, settings
<1>5. OneJob' /\ Written'
  <2>1. job'[j] = [part |-> 1, linked |-> TRUE, intact |-> TRUE]
    BY <1>2 DEF IInv, TypeOK
  <2>2. \A i \in Jobs : i # j => job'[i].part = 0 /\ job'[i].linked = FALSE
    BY <1>1, <1>2 DEF IInv, TypeOK
  <2>3. tar'.there /\ tar'.parts = 1..(1 - 1) /\ tar'.intact = TRUE
    BY <1>2
  <2> QED
    <3>1. OneJob'
      BY <1>2, <2>1, <2>2 DEF OneJob
    <3>2. ASSUME NEW i \in Jobs, job'[i].linked
          PROVE  tar'.there /\ tar'.parts = 1..(job'[i].part - 1) /\ tar'.intact = job'[i].intact
      <4>1. i = j
        BY <2>2, <3>2
      <4> QED
        <5>1. tar'.there /\ tar'.parts = 1..(job'[i].part - 1)
          BY <2>1, <2>3, <4>1
        <5>2. job'[i].intact = TRUE
          BY <2>1, <4>1
        <5> QED
          BY <2>3, <5>1, <5>2, Zenon
    <3> QED
      BY <3>1, <3>2 DEF Written
<1>6. Waiting' /\ Delivered'
  BY <1>2 DEF IInv, TypeOK, Waiting, Delivered, Jobs
<1>7. CompleteIsWhole'
  BY <1>2 DEF IInv, CompleteIsWhole, IsModelComplete, settings
<1> QED
  BY <1>4, <1>5, <1>6, <1>7 DEF IInv

\* A job fetches a part: it appends it to the file, if the path is still its own.
LEMMA FetchPartKeeps ==
    ASSUME IInv, UNCHANGED settings, NEW j \in Jobs, FetchPart(j)
    PROVE  IInv'
<1>1. PICK up \in SUBSET Holders, sp \in SPs :
         /\ Answering(up)
         /\ job' = [job EXCEPT ![j] = Fetched(j, sp)]
         /\ tar' = (IF job[j].linked
                    THEN [tar EXCEPT !.parts = @ \cup {job[j].part},
                                     !.intact = StaysIntact(@, sp)]
                    ELSE tar)
  BY DEF FetchPart
<1>2. /\ job[j].part \in 1..Parts /\ UNCHANGED <<worker, dest, staging, inFlight, caller, reply>>
      /\ job[j].part # 0
  BY ModelStoreAssumption DEF FetchPart, PartsLeft
<1>3. /\ job \in [Jobs -> Job] /\ job[j] \in Job
      /\ tar \in [there : BOOLEAN, parts : SUBSET (1..Parts), intact : BOOLEAN]
  BY DEF IInv, TypeOK, Job
<1>4. /\ job'[j].part = job[j].part + 1 /\ job'[j].linked = job[j].linked
      /\ job'[j].intact = StaysIntact(job[j].intact, sp)
      /\ job'[j] \in Job
      /\ \A i \in Jobs : i # j => job'[i] = job[i]
      /\ job' \in [Jobs -> Job]
  <2> DEFINE ok == StaysIntact(job[j].intact, sp)
  <2>1. job'[j] = [job[j] EXCEPT !.part = @ + 1, !.intact = ok]
    BY <1>1, <1>3 DEF Fetched
  <2>2. /\ job'[j].part = job[j].part + 1 /\ job'[j].linked = job[j].linked
        /\ job'[j].intact = ok
    BY <1>3, <2>1 DEF Job
  <2>3. ok \in BOOLEAN
    BY DEF StaysIntact
  <2>5. job'[j] \in Job
    <3>1. job'[j] = [part |-> job[j].part + 1, linked |-> job[j].linked, intact |-> ok]
      BY <1>3, <2>1 DEF Job
    <3>2. job[j].part + 1 \in 0..Parts + 1 /\ job[j].linked \in BOOLEAN
      BY <1>2, <1>3, ModelStoreAssumption DEF Job
    <3> QED
      BY <2>3, <3>1, <3>2 DEF Job
  <2>6. /\ \A i \in Jobs : i # j => job'[i] = job[i]
        /\ job' \in [Jobs -> Job]
    BY <1>1, <1>3, <2>5
  <2> QED
    BY <2>2, <2>5, <2>6
<1>5. faults' \in 0..MaxFaults
  BY <1>1, AnsweringType DEF IInv, TypeOK
<1>6. /\ tar' \in [there : BOOLEAN, parts : SUBSET (1..Parts), intact : BOOLEAN]
      /\ job[j].linked =>
           /\ tar'.there = tar.there /\ tar'.parts = tar.parts \cup {job[j].part}
           /\ tar'.intact = StaysIntact(tar.intact, sp)
      /\ ~job[j].linked => tar' = tar
  <2> DEFINE ok == StaysIntact(tar.intact, sp)
  <2>1. ok \in BOOLEAN
    BY DEF StaysIntact
  <2>2. CASE job[j].linked
    <3>1. tar' = [tar EXCEPT !.parts = tar.parts \cup {job[j].part}, !.intact = ok]
      BY <1>1, <2>2
    <3> HIDE DEF ok
    <3>2. tar' = [there |-> tar.there, parts |-> tar.parts \cup {job[j].part}, intact |-> ok]
      BY <1>3, <3>1
    <3>3. tar.parts \cup {job[j].part} \in SUBSET (1..Parts)
      BY <1>2, <1>3
    <3>4. tar' \in [there : BOOLEAN, parts : SUBSET (1..Parts), intact : BOOLEAN]
      BY <1>3, <2>1, <3>2, <3>3
    <3>5. /\ tar'.there = tar.there /\ tar'.parts = tar.parts \cup {job[j].part}
          /\ tar'.intact = ok
      BY <3>2
    <3> QED
      BY <2>2, <3>4, <3>5 DEF ok
  <2>3. CASE ~job[j].linked
    BY <1>1, <1>3, <2>3
  <2> QED
    BY <2>2, <2>3
<1>7. TypeOK'
  BY <1>2, <1>4, <1>5, <1>6 DEF IInv, TypeOK, Job, worker, settings
<1>8. OneJob'
  BY <1>2, <1>4, ModelStoreAssumption DEF IInv, OneJob
<1>9. Written'
  <2>1. ASSUME NEW i \in Jobs, job'[i].linked
        PROVE  i = j
    BY <1>2, <1>4, <2>1 DEF IInv, OneJob
  <2>2. ASSUME job'[j].linked
        PROVE  tar'.there /\ tar'.parts = 1..(job'[j].part - 1) /\ tar'.intact = job'[j].intact
    <3>1. /\ tar.there /\ tar.parts = 1..(job[j].part - 1) /\ tar.intact = job[j].intact
      BY <1>4, <2>2 DEF IInv, Written
    <3>2. (1..(job[j].part - 1)) \cup {job[j].part} = 1..job[j].part
      BY <1>2, ModelStoreAssumption
    <3> QED
      <4>1. job[j].linked
        BY <1>4, <2>2
      <4>2. tar'.there /\ tar'.intact = job'[j].intact
        BY <1>4, <1>6, <3>1, <4>1
      <4>3. job'[j].part - 1 = job[j].part
        BY <1>2, <1>4, ModelStoreAssumption
      <4> QED
        BY <1>6, <3>1, <3>2, <4>1, <4>2, <4>3
  <2> QED
    BY <2>1, <2>2 DEF Written
<1>10. Waiting' /\ Delivered'
  BY <1>2, <1>4 DEF IInv, TypeOK, Waiting, Delivered, worker, Jobs
<1>11. CompleteIsWhole'
  BY <1>2 DEF IInv, CompleteIsWhole, IsModelComplete, settings
<1> QED
  BY <1>7, <1>8, <1>9, <1>10, <1>11 DEF IInv

\* A job fails: the file goes, and a worker that waits is told.
LEMMA JobFailsKeeps ==
    ASSUME IInv, UNCHANGED settings, NEW j \in Jobs, job[j].part # 0, JobFails(j),
           faults' \in 0..MaxFaults
    PROVE  IInv'
<1>1. /\ job' \in [Jobs -> Job]
      /\ \A i \in Jobs : job'[i].part = 0 /\ job'[i].linked = FALSE
      /\ tar' = NoFile /\ inFlight' = FALSE
      /\ UNCHANGED <<worker, dest, staging, caller>>
      /\ reply' = (IF caller = j THEN "error" ELSE reply)
  <2> DEFINE rest == [job EXCEPT ![j] = Idle]
  <2>1. rest \in [Jobs -> Job] /\ \A i \in Jobs : rest[i].part = 0
    BY ModelStoreAssumption DEF IInv, TypeOK, OneJob, Job, Idle
  <2>2. Unlink(rest)
    BY DEF JobFails
  <2> HIDE DEF rest
  <2>3. /\ job' \in [Jobs -> Job] /\ tar' = NoFile
        /\ \A i \in Jobs : job'[i].part = 0 /\ job'[i].linked = FALSE
    BY <2>1, <2>2 DEF Unlink, Job
  <2> QED
    BY <2>3 DEF JobFails, Answer, Released
<1>2. TypeOK'
  BY <1>1 DEF IInv, TypeOK, NoFile, Job, worker, settings
<1>3. OneJob' /\ Written'
  BY <1>1 DEF OneJob, Written
<1>4. Waiting'
  BY <1>1 DEF IInv, TypeOK, OneJob, Waiting, worker, Jobs
<1>5. Delivered' /\ CompleteIsWhole'
  BY <1>1 DEF IInv, Delivered, Waiting, CompleteIsWhole, IsModelComplete, worker, settings
<1> QED
  BY <1>2, <1>3, <1>4, <1>5 DEF IInv

\* The last part is there: the job fails, or its whole file is what the worker gets.
LEMMA FinishKeeps ==
    ASSUME IInv, UNCHANGED settings, NEW j \in Jobs, Finish(j)
    PROVE  IInv'
<1>1. /\ job[j].part # 0 /\ job[j].part = Parts + 1 /\ faults' = faults
      /\ job \in [Jobs -> Job]
  BY ModelStoreAssumption DEF Finish, PartsLeft, IInv, TypeOK, Jobs, Job
<1>2. CASE DownloadRefused(j)
  BY <1>1, <1>2, JobFailsKeeps DEF Finish, IInv, TypeOK
<1>3. CASE ~DownloadRefused(j)
  <2>1. /\ job' = [job EXCEPT ![j] = Idle] /\ inFlight' = FALSE
        /\ UNCHANGED <<worker, volume, caller>>
        /\ reply' = (IF caller = j THEN "ok" ELSE reply)
    BY <1>3 DEF Finish, Answer, Released
  <2>2. /\ job' \in [Jobs -> Job]
        /\ \A i \in Jobs : job'[i].part = 0 /\ job'[i].linked = FALSE
    BY <1>1, <2>1 DEF IInv, OneJob, Idle, Job, TypeOK
  <2>3. TypeOK'
    BY <1>1, <2>1, <2>2 DEF IInv, TypeOK, Job, worker, volume, settings
  <2>4. OneJob' /\ Written'
    BY <2>2 DEF OneJob, Written
  <2>5. Waiting'
    BY <1>1, <2>1, <2>2 DEF IInv, TypeOK, OneJob, Waiting, worker, Jobs
  <2>6. TarWhole /\ (pinned => tar.intact)
    BY <1>1, <1>3, ModelStoreAssumption
       DEF DownloadRefused, IInv, TypeOK, Written, TarWhole, Job
  <2>7. Delivered' /\ CompleteIsWhole'
    BY <2>1, <2>6
       DEF Delivered, TarWhole, IInv, CompleteIsWhole, IsModelComplete, volume, settings
  <2> QED
    BY <2>3, <2>4, <2>5, <2>7 DEF IInv
<1> QED
  BY <1>2, <1>3

\* The bridge dies, and every job with it.
LEMMA BridgeCrashKeeps ==
    ASSUME IInv, UNCHANGED settings, BridgeCrash
    PROVE  IInv'
<1>1. faults' \in 0..MaxFaults /\ inFlight' = FALSE
  BY FaultType DEF BridgeCrash, IInv, TypeOK
<1> DEFINE none == [j \in Jobs |-> Idle]
<1>2. none \in [Jobs -> Job] /\ \A j \in Jobs : none[j].part = 0 /\ none[j].linked = FALSE
  BY ModelStoreAssumption DEF Job, Idle
<1>3. CASE client = "asking" /\ reply = "none"
  <2>1. Raise(none)
    BY <1>3 DEF BridgeCrash
  <2> QED
    BY <1>1, <1>2, <2>1, RaiseKeeps
<1>4. CASE ~(client = "asking" /\ reply = "none")
  <2>1. job' = none /\ UNCHANGED <<worker, volume, caller, reply>>
    BY <1>4 DEF BridgeCrash
  <2>2. TypeOK'
    BY <1>1, <1>2, <2>1 DEF IInv, TypeOK, Job, worker, volume, settings
  <2>3. OneJob' /\ Written'
    BY <1>2, <2>1 DEF OneJob, Written
  <2>4. Waiting' /\ Delivered' /\ CompleteIsWhole'
    BY <1>2, <1>4, <2>1
       DEF IInv, Waiting, Delivered, TarWhole, CompleteIsWhole, IsModelComplete, worker,
           volume, settings
  <2> QED
    BY <2>2, <2>3, <2>4 DEF IInv
<1> QED
  BY <1>3, <1>4

-----------------------------------------------------------------------------
(* The theorems.                                                           *)

\* The volume is empty at first.
LEMMA InitIInv == Init => IInv
<1> SUFFICES ASSUME Init PROVE IInv
  OBVIOUS
<1>1. TypeOK
  <2>1. pinned \in BOOLEAN /\ altered \subseteq SPs
    BY ModelStoreAssumption DEF Init
  <2>2. job \in [Jobs -> [part : 0..Parts + 1, linked : BOOLEAN, intact : BOOLEAN]]
    BY ModelStoreAssumption DEF Init, Idle
  <2>3. /\ gpuFree \in BOOLEAN /\ seenFree = FALSE /\ loaded = FALSE /\ inFlight = FALSE
        /\ staging \in SUBSET Files /\ faults \in 0..MaxFaults
        /\ client = "down" /\ caller = 0 /\ reply = "none"
    BY ModelStoreAssumption DEF Init
  <2>4. /\ dest \in [files : SUBSET Files, intact : BOOLEAN]
        /\ tar \in [there : BOOLEAN, parts : SUBSET (1..Parts), intact : BOOLEAN]
    BY DEF Init, EmptyDir, NoFile
  <2>5. {gpuFree, seenFree, loaded, inFlight} \subseteq BOOLEAN
    BY <2>3, Zenon
  <2> QED
    BY <2>1, <2>2, <2>3, <2>4, <2>5 DEF TypeOK
<1>2. OneJob /\ Waiting /\ Written /\ Delivered /\ CompleteIsWhole
  BY ModelStoreAssumption
     DEF Init, OneJob, Waiting, Written, Delivered, CompleteIsWhole, IsModelComplete,
         EmptyDir, Idle
<1> QED
  BY <1>1, <1>2 DEF IInv

\* Every step keeps the invariant.
LEMMA NextIInv == IInv /\ [Next]_vars => IInv'
<1> SUFFICES ASSUME IInv, [Next]_vars PROVE IInv'
  OBVIOUS
<1>1. CASE Step /\ UNCHANGED settings
  <2>1. ASSUME NEW j \in Jobs, PartFails(j)
        PROVE  IInv'
    <3>1. faults' \in 0..MaxFaults
      BY <2>1, AnsweringType, FaultType DEF PartFails, IInv, TypeOK
    <3>2. job[j].part # 0 /\ JobFails(j)
      BY <2>1, ModelStoreAssumption DEF PartFails, PartsLeft
    <3> QED
      BY <1>1, <3>1, <3>2, JobFailsKeeps
  <2> QED
    BY <1>1, <2>1, StartupKeeps, EnsureModelKeeps, GivesUpKeeps, TakeSuccessKeeps,
       ExtractFileKeeps, SwapKeeps, UnlinkTarKeeps, CrashKeeps, AcceptKeeps,
       FetchPartKeeps, FinishKeeps, BridgeCrashKeeps
       DEF Step, Download
<1>2. CASE UNCHANGED vars
  BY <1>2 DEF vars, worker, volume, bridge, settings, IInv, TypeOK, OneJob, Waiting,
              Written, Delivered, TarWhole, CompleteIsWhole, IsModelComplete
<1> QED
  BY <1>1, <1>2 DEF Next, Settled

\* The invariant holds always.
LEMMA SpecIInv == Spec => []IInv
BY InitIInv, NextIInv, PTL DEF Spec

\* Every variable stays in its range: the bridge's job never goes past the last
\* part of the archive.
THEOREM TypeCorrect == Spec => []TypeOK
<1>1. IInv => TypeOK
  BY DEF IInv
<1> QED
  BY <1>1, SpecIInv, PTL

\* What is_model_complete accepts is the whole archive, with the pinned bytes if a
\* digest is pinned, for any archive and any sequence of crashes of either side.
THEOREM CacheIsWhole == Spec => []CompleteIsWhole
<1>1. IInv => CompleteIsWhole
  BY DEF IInv
<1> QED
  BY <1>1, SpecIInv, PTL

\* Whatever an earlier caller's job does, the worker extracts only an archive whose
\* parts are all in the file.
THEOREM SuccessIsWhole == Spec => []SuccessMeansWhole
<1>1. IInv => SuccessMeansWhole
  BY DEF IInv, Delivered, SuccessMeansWhole
<1> QED
  BY <1>1, SpecIInv, PTL
=============================================================================
