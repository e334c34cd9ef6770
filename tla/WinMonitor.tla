----------------------------- MODULE WinMonitor -----------------------------
(***************************************************************************)
(* How a block win reaches the scheduler: Curio writes a log line when it  *)
(* wins an election and a database row when the proof is done; the log     *)
(* watcher (curio/log_watcher.go) follows the log, the database client     *)
(* (curio/client.go) is polled, and monitorWinningPost acts on both.       *)
(*                                                                         *)
(* A win is its epoch.  The log is a sequence of files, of which the last  *)
(* one is at logPath; a file is a sequence of chunks: a win's line, or its *)
(* two halves when Curio's write is seen in part.                          *)
(***************************************************************************)
EXTENDS Naturals, Sequences, FiniteSetsExt, Functions

CONSTANTS
    MaxWins,        \* bound: epochs, all of which are won
    ChannelCap,     \* the buffer of the watcher's channel (4)
    LogWatched,     \* whether there is a log to follow
    RowsInOrder,    \* whether Curio records wins in the order of their epochs
    Rotations,      \* the ways the log may be rotated: prompt ones, or any
    MaxRotations,   \* bound
    MaxTruncations, \* bound
    MaxSplits,      \* bound: lines that the watcher may see in part
    MaxRestarts,    \* bound: restarts of the scheduler
    MaxFaults       \* bound: rotations, truncations, splits and restarts together

ASSUME WinAssumption ==
    /\ MaxWins \in Nat
    /\ ChannelCap \in Nat \ {0}
    /\ LogWatched \in BOOLEAN
    /\ RowsInOrder \in BOOLEAN
    /\ Rotations \subseteq BOOLEAN /\ Rotations # {}
    /\ MaxRotations \in Nat
    /\ MaxTruncations \in Nat
    /\ MaxSplits \in Nat
    /\ MaxRestarts \in Nat
    /\ MaxFaults \in Nat

VARIABLES
    elected,        \* the last epoch Curio has won
    half,           \* whether the end of that win's line is still to be written
    rows,           \* the epochs that mining_tasks has as won
    files,          \* the log files
    writer,         \* the file Curio writes to
    reader,         \* the file the watcher has open
    offset,         \* the chunks of it the watcher has read
    rpc,            \* the watcher: "read", or "eof" before it looks for a rotation;
                    \* "starting" before monitorWinningPost has opened the log
    channel,        \* signals sent and not received (of which epochs: history)
    lastChecked,    \* lastCheckedEpoch
    started,        \* history: its first value, the epoch of the scheduler's start
    winning,        \* the scheduler's state is WINNING_POST
    recognised,     \* history: the epochs whose lines Watch recognised, in order
    covered,        \* history: epochs a signal or a database check was about
    held,           \* history: epochs after whose election a window was triggered
    prompt,         \* whether the log is rotated only when it has been read, and
                    \* Curio then writes to the new file at once
    truncations,
    splits,
    restarts

curio == <<elected, half, rows>>
log == <<files, writer>>
watcher == <<reader, offset, rpc, channel, recognised>>
monitor == <<lastChecked, started, winning, covered, held>>
bounds == <<prompt, truncations, splits, restarts>>
vars == <<curio, log, watcher, monitor, bounds>>

Epochs == 1..MaxWins

\* The file at logPath.
Path == Len(files)

Chunk == [epoch : Epochs, part : {"line", "head", "tail"}]

Init ==
    /\ elected = 0
    /\ half = FALSE
    /\ rows = {}
    /\ files = << << >> >>
    /\ writer = 1
    /\ reader = 1
    /\ offset = 0
    /\ rpc = "read"
    /\ channel = << >>
    /\ lastChecked = 0
    /\ started = 0
    /\ winning = FALSE
    /\ recognised = << >>
    /\ covered = {}
    /\ held = {}
    /\ prompt \in Rotations
    /\ truncations = 0
    /\ splits = 0
    /\ restarts = 0

\* One more fault is within the bounds.
MayFail == (Path - 1) + truncations + splits + restarts < MaxFaults

-----------------------------------------------------------------------------
(* Curio and its log.                                                      *)

Write(part, e) ==
    files' = [files EXCEPT ![writer] = Append(@, [epoch |-> e, part |-> part])]

Elect ==
    /\ elected < MaxWins
    /\ ~half
    /\ elected' = elected + 1
    /\ \/ Write("line", elected + 1) /\ UNCHANGED <<half, splits>>
       \/ /\ splits < MaxSplits /\ MayFail
          /\ splits' = splits + 1
          /\ half' = TRUE
          /\ Write("head", elected + 1)
    /\ UNCHANGED <<rows, writer, watcher, monitor, prompt, truncations, restarts>>

EndLine ==
    /\ half
    /\ half' = FALSE
    /\ Write("tail", elected)
    /\ UNCHANGED <<elected, rows, writer, watcher, monitor, bounds>>

\* The proof of a win is done.
Record(e) ==
    /\ e \in 1..elected \ rows
    /\ RowsInOrder => 1..(e - 1) \subseteq rows
    /\ rows' = rows \cup {e}
    /\ UNCHANGED <<elected, half, log, watcher, monitor, bounds>>

AllRead == reader = Path /\ offset = Len(files[Path])

\* logrotate renames the log and creates a new one; Curio goes on in the old one
\* until it is told.
Rotate ==
    /\ Path <= MaxRotations /\ MayFail
    /\ prompt => AllRead /\ writer = Path /\ ~half
    /\ files' = Append(files, << >>)
    /\ writer' = IF prompt THEN Path + 1 ELSE writer
    /\ UNCHANGED <<curio, watcher, monitor, bounds>>

CurioReopens ==
    /\ writer # Path
    /\ ~half
    /\ writer' = Path
    /\ UNCHANGED <<curio, files, watcher, monitor, bounds>>

\* logrotate copies the log and truncates it (copytruncate).
Truncate ==
    /\ truncations < MaxTruncations /\ MayFail
    /\ writer = Path
    /\ ~half
    /\ files' = [files EXCEPT ![Path] = << >>]
    /\ truncations' = truncations + 1
    /\ UNCHANGED <<curio, writer, watcher, monitor, prompt, splits, restarts>>

-----------------------------------------------------------------------------
(* LogWatcher.Watch.                                                       *)

\* A win's line is signalled, unless the channel is full.
Signal(e) ==
    /\ recognised' = Append(recognised, e)
    /\ channel' = IF Len(channel) < ChannelCap THEN Append(channel, e) ELSE channel

\* ReadString returns a line.  One that lost its head is not recognised.
ReadLine ==
    LET file == files[reader]
        whole(i) == file[i].part = "line"
        halves(i) == file[i].part = "head" /\ i < Len(file)
        next == offset + 1
    IN  /\ LogWatched
        /\ rpc = "read"
        /\ offset < Len(file)
        /\ \/ whole(next) /\ offset' = next /\ Signal(file[next].epoch)
           \/ halves(next) /\ offset' = next + 1 /\ Signal(file[next].epoch)
           \/ /\ file[next].part = "tail"
              /\ offset' = next
              /\ UNCHANGED <<channel, recognised>>
        /\ UNCHANGED <<curio, log, reader, rpc, monitor, bounds>>

\* ReadString reaches the end of the file: what it has of a line is dropped.
ReadEof ==
    LET file == files[reader]
    IN  /\ LogWatched
        /\ rpc = "read"
        /\ \/ offset >= Len(file) /\ UNCHANGED offset
           \/ /\ offset + 1 = Len(file)
              /\ file[offset + 1].part = "head"
              /\ offset' = offset + 1
        /\ rpc' = "eof"
        /\ UNCHANGED <<curio, log, reader, channel, recognised, monitor, bounds>>

\* Mutant: a file that has not grown counts as truncated.
TruncatedOrSame == Len(files[Path]) <= offset

Truncated == Len(files[Path]) < offset

\* Mutant: a reopened file is read from its end, like the first one.
ReopenOffsetEnd == Len(files[Path])

ReopenOffset == 0

\* reopenIfRotated: another file, or the same one but shorter, is read afresh.
Reopen ==
    /\ LogWatched
    /\ rpc = "eof"
    /\ IF reader # Path \/ Truncated
         THEN reader' = Path /\ offset' = ReopenOffset
         ELSE UNCHANGED <<reader, offset>>
    /\ rpc' = "read"
    /\ UNCHANGED <<curio, log, channel, recognised, monitor, bounds>>

-----------------------------------------------------------------------------
(* monitorWinningPost.                                                     *)

\* triggerWinningYield
Trigger == winning' = TRUE /\ held' = held \cup 1..elected

\* The scheduler restarts with nothing of what it knew, and its monitor starts at
\* the current epoch, whose election may still come.
Restart ==
    /\ restarts < MaxRestarts /\ MayFail
    /\ restarts' = restarts + 1
    /\ \E epoch \in {elected, elected + 1} : lastChecked' = epoch /\ started' = epoch
    /\ winning' = FALSE
    /\ channel' = << >>
    /\ rpc' = "starting"
    /\ UNCHANGED <<curio, log, reader, offset, recognised, covered, held, prompt,
                   truncations, splits>>

\* Watch opens the log at its end.
WatchOpens ==
    /\ rpc = "starting"
    /\ reader' = Path
    /\ offset' = Len(files[Path])
    /\ rpc' = "read"
    /\ UNCHANGED <<curio, log, channel, recognised, monitor, bounds>>

\* Mutant: a signal during a window is taken for the same win.
SignalTriggersUnlessWinning == ~winning

\* A signal starts a window whatever the state.
SignalTriggers == TRUE

LogSignal ==
    /\ channel # << >>
    /\ channel' = Tail(channel)
    /\ covered' = covered \cup {Head(channel)}
    /\ IF SignalTriggers THEN Trigger ELSE UNCHANGED <<winning, held>>
    /\ UNCHANGED <<curio, log, reader, offset, rpc, recognised, lastChecked, started,
                   bounds>>

Newer == {e \in rows : e > lastChecked}

\* Mutant: the next check starts at the head of the chain.
CheckedUpToHead(e) == elected

CheckedUpTo(e) == e

\* CheckWinningPost answers with the newest win since the last one, which is
\* acted on only if no window is under way.
DatabaseCheck ==
    /\ rpc # "starting"
    /\ Newer # {}
    /\ lastChecked' = CheckedUpTo(Max(Newer))
    /\ covered' = covered \cup Newer
    /\ IF winning THEN UNCHANGED <<winning, held>> ELSE Trigger
    /\ UNCHANGED <<curio, log, watcher, started, bounds>>

\* The window's timer resumes inference.
WindowEnds ==
    /\ winning
    /\ winning' = FALSE
    /\ UNCHANGED <<curio, log, watcher, lastChecked, started, covered, held, bounds>>

-----------------------------------------------------------------------------
Next ==
    \/ Elect
    \/ EndLine
    \/ \E e \in Epochs : Record(e)
    \/ Rotate
    \/ CurioReopens
    \/ Truncate
    \/ ReadLine
    \/ ReadEof
    \/ Reopen
    \/ Restart
    \/ WatchOpens
    \/ LogSignal
    \/ DatabaseCheck
    \/ WindowEnds

Spec == Init /\ [][Next]_vars

\* The monitor's loop takes what is there, and the database answers in the end.
FairSpec ==
    /\ Spec
    /\ WF_vars(WatchOpens)
    /\ WF_vars(LogSignal)
    /\ WF_vars(DatabaseCheck)
    /\ WF_vars(WindowEnds)

-----------------------------------------------------------------------------
(* Properties.                                                             *)

\* The domains of the state; the watcher has a file that is there, and the
\* monitor has checked up to a win it has seen.
TypeOK ==
    /\ elected \in 0..MaxWins
    /\ half \in BOOLEAN
    /\ rows \subseteq 1..elected
    /\ files \in Seq(Seq(Chunk))
    /\ writer \in 1..Path
    /\ reader \in 1..Path
    /\ offset \in Nat
    /\ rpc \in {"read", "eof", "starting"}
    /\ channel \in Seq(Epochs) /\ Len(channel) <= ChannelCap
    /\ lastChecked \in {started} \cup rows
    /\ started \in 0..(elected + 1)
    /\ winning \in BOOLEAN
    /\ covered \subseteq Epochs
    /\ held \subseteq 1..elected
    /\ recognised \in Seq(1..elected)
    /\ prompt \in BOOLEAN
    /\ truncations \in 0..MaxTruncations
    /\ splits \in 0..MaxSplits
    /\ restarts \in 0..MaxRestarts

\* However the log is rotated and truncated, a win's line is recognised only once.
RecognisedOnce ==
    \A i, j \in DOMAIN recognised : recognised[i] = recognised[j] => i = j

\* A watcher that has read the log to its end has recognised every win: it "detects
\* 'WinPostTask won election' entries in real-time" (log_watcher.go).
LogWinsRecognised ==
    LogWatched /\ AllRead /\ writer = Path /\ ~half => 1..elected \subseteq Range(recognised)

\* That holds as long as rotations are prompt, nothing is truncated, every line is
\* written at once and the scheduler stays up.
WholeWinsRecognised ==
    prompt /\ truncations = 0 /\ splits = 0 /\ restarts = 0 => LogWinsRecognised

\* Every win that Curio records comes to the monitor's notice, but for those up to
\* the epoch in which the scheduler (re)started: "lastCheckedEpoch" begins there.
WinsCovered ==
    \A e \in Epochs : e \in rows /\ e > started ~> e \in covered \/ e <= started

\* Every win whose line is recognised has a window triggered after it, with the
\* same exception: neither a full channel, nor a window that is already running,
\* nor a database check that takes the win for confirmed loses it.
RecognisedWinsHeld ==
    \A e \in Epochs :
        e \in Range(recognised) /\ e > started ~> e \in held \/ e <= started

\* Every win that Curio records has a window of its own, triggered after it.
WinsHeld == \A e \in Epochs : e \in rows ~> e \in held
=============================================================================
