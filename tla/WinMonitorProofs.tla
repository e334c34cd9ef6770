-------------------------- MODULE WinMonitorProofs --------------------------
(***************************************************************************)
(* Proofs about WinMonitor.tla for any number of wins, rotations,          *)
(* truncations, lines that are read in part and restarts.                  *)
(*                                                                         *)
(* The argument: Curio only ever appends, and every later file is empty    *)
(* while it writes to an earlier one, so the wins stand in the log in the  *)
(* order of their epochs; the watcher only ever goes forward in it, or     *)
(* back to the start of a file that has been written anew.                 *)
(***************************************************************************)
EXTENDS WinMonitor, SequenceTheorems, WellFoundedInduction, TLAPS

\* The chunks of file f that announce a win: all but the second halves of lines.
Announced(f) == {i \in 1..Len(files[f]) : files[f][i].part # "tail"}

\* The chunks of the watcher's file that it may still read: those beyond its
\* offset, or all of a file that is found to be truncated.
Unread(f) ==
    {i \in Announced(f) :
        f = reader => i > offset \/ Len(files[f]) < offset}

\* The wins stand in the log in the order of their epochs, and none of them is
\* later than the last election.
InOrder ==
    /\ \A f \in 1..Path : \A i \in Announced(f) : files[f][i].epoch <= elected
    /\ \A f \in 1..Path : \A i, j \in Announced(f) :
         i < j => files[f][i].epoch < files[f][j].epoch
    /\ \A f, g \in 1..Path : f < g =>
         \A i \in Announced(f), j \in Announced(g) : files[f][i].epoch < files[g][j].epoch
    /\ \A f \in 1..Path : f > writer => files[f] = << >>

\* What the watcher may still read is later than all it has recognised.
NothingTwice ==
    \A f \in reader..Path : \A i \in Unread(f) :
        \A k \in 1..Len(recognised) : recognised[k] < files[f][i].epoch

\* With prompt rotations only, whole lines and no restart, every win is recognised
\* or still to be read, in the watcher's file or the next one.
Clean == prompt /\ truncations = 0 /\ splits = 0 /\ restarts = 0

NothingMissed ==
    Clean =>
        /\ ~half /\ writer = Path /\ rpc # "starting"
        /\ offset <= Len(files[reader])
        /\ reader \in {Path - 1, Path}
        /\ reader # Path => offset = Len(files[reader])
        /\ \A f \in 1..Path : \A i \in 1..Len(files[f]) : files[f][i].part = "line"
        /\ LogWatched =>
             \A e \in 1..elected :
                \/ \E k \in 1..Len(recognised) : recognised[k] = e
                \/ \E i \in 1..Len(files[Path]) :
                     files[Path][i].epoch = e /\ (reader = Path => i > offset)

\* A line that has been begun is a win's.
HalfOfWin == half => elected # 0

IInv == TypeOK /\ HalfOfWin /\ InOrder /\ NothingTwice /\ NothingMissed /\ RecognisedOnce

-----------------------------------------------------------------------------
(* The log.                                                                *)

\* What the types say of the log and the watcher.
LEMMA LogTypes ==
    ASSUME TypeOK
    PROVE  /\ files \in Seq(Seq(Chunk))
           /\ Path \in Nat /\ writer \in 1..Path /\ reader \in 1..Path
           /\ elected \in Nat /\ offset \in Nat
           /\ recognised \in Seq(1..elected)
           /\ \A f \in 1..Path : files[f] \in Seq(Chunk) /\ Len(files[f]) \in Nat
           /\ \A f \in 1..Path : \A i \in 1..Len(files[f]) :
                files[f][i] \in Chunk /\ files[f][i].epoch \in Nat
<1>1. /\ files \in Seq(Seq(Chunk)) /\ writer \in 1..Len(files) /\ reader \in 1..Len(files)
      /\ elected \in Nat /\ offset \in Nat /\ recognised \in Seq(1..elected)
  BY WinAssumption DEF TypeOK, Path
<1>2. Len(files) \in Nat /\ \A f \in 1..Len(files) : files[f] \in Seq(Chunk)
  BY <1>1
<1>3. \A f \in 1..Len(files) : Len(files[f]) \in Nat /\
        \A i \in 1..Len(files[f]) : files[f][i] \in Chunk
  BY <1>2
<1>4. \A c \in Chunk : c.epoch \in Nat
  BY WinAssumption DEF Chunk, Epochs
<1> QED
  BY <1>1, <1>2, <1>3, <1>4 DEF Path

\* A chunk is appended to the file that Curio writes.
LEMMA WriteFiles ==
    ASSUME TypeOK, NEW part \in {"line", "head", "tail"}, NEW e \in Epochs, Write(part, e)
    PROVE  /\ files' \in Seq(Seq(Chunk)) /\ Path' = Path
           /\ \A f \in 1..Path : f # writer => files'[f] = files[f]
           /\ Len(files'[writer]) = Len(files[writer]) + 1
           /\ \A i \in 1..Len(files[writer]) : files'[writer][i] = files[writer][i]
           /\ files'[writer][Len(files[writer]) + 1].epoch = e
           /\ files'[writer][Len(files[writer]) + 1].part = part
<1> DEFINE c == [epoch |-> e, part |-> part]
<1>1. c \in Chunk
  BY DEF Chunk
<1>2. files' = [files EXCEPT ![writer] = Append(files[writer], c)]
  BY DEF Write
<1>3. Append(files[writer], c) \in Seq(Chunk)
  BY <1>1, LogTypes
<1>4. files' \in Seq(Seq(Chunk)) /\ Len(files') = Len(files)
  BY <1>2, <1>3, LogTypes, ExceptSeq DEF Path
<1>5. files'[writer] = Append(files[writer], c) /\ \A f \in 1..Path : f # writer => files'[f] = files[f]
  BY <1>2, LogTypes, ExceptSeq DEF Path
<1> HIDE DEF c
<1>6. /\ Len(files'[writer]) = Len(files[writer]) + 1
      /\ files'[writer][Len(files[writer]) + 1] = c
      /\ \A i \in 1..Len(files[writer]) : files'[writer][i] = files[writer][i]
  BY <1>1, <1>5, LogTypes, AppendProperties
<1> QED
  BY <1>4, <1>5, <1>6 DEF c, Path

\* A chunk that announces a win after a step was there before, or is the new one.
LEMMA WriteAnnounces ==
    ASSUME TypeOK, NEW part \in {"line", "head", "tail"}, NEW e \in Epochs, Write(part, e),
           NEW f \in 1..Path, NEW i, i \in Announced(f)'
    PROVE  /\ i \in Nat
           /\ \/ i \in Announced(f) /\ files'[f][i] = files[f][i] /\ i <= Len(files[f])
              \/ /\ part # "tail" /\ f = writer /\ i = Len(files[f]) + 1
                 /\ files'[f][i].epoch = e
<1>1. /\ i \in 1..Len(files'[f]) /\ files'[f][i].part # "tail"
      /\ Len(files[f]) \in Nat /\ writer \in 1..Path
  BY LogTypes DEF Announced
<1>2. CASE f # writer
  <2>1. files'[f] = files[f]
    BY <1>2, WriteFiles
  <2> QED
    BY <1>1, <2>1 DEF Announced
<1>3. CASE f = writer
  <2>1. /\ Len(files'[f]) = Len(files[f]) + 1
        /\ \A k \in 1..Len(files[f]) : files'[f][k] = files[f][k]
        /\ files'[f][Len(files[f]) + 1].epoch = e
        /\ files'[f][Len(files[f]) + 1].part = part
    BY <1>3, WriteFiles
  <2>2. CASE i = Len(files[f]) + 1
    BY <1>1, <1>3, <2>1, <2>2
  <2>3. CASE i # Len(files[f]) + 1
    <3>1. i \in 1..Len(files[f])
      BY <1>1, <2>1, <2>3
    <3> QED
      BY <1>1, <2>1, <3>1 DEF Announced
  <2> QED
    BY <2>2, <2>3
<1> QED
  BY <1>2, <1>3

\* A new file is empty.
LEMMA RotateFiles ==
    ASSUME TypeOK, files' = Append(files, << >>)
    PROVE  /\ files' \in Seq(Seq(Chunk)) /\ Path' = Path + 1
           /\ \A f \in 1..Path : files'[f] = files[f]
           /\ files'[Path + 1] = << >>
<1>1. << >> \in Seq(Chunk)
  OBVIOUS
<1> QED
  BY <1>1, LogTypes, AppendProperties DEF Path

\* The last file is emptied.
LEMMA TruncateFiles ==
    ASSUME TypeOK, files' = [files EXCEPT ![Path] = << >>]
    PROVE  /\ files' \in Seq(Seq(Chunk)) /\ Path' = Path
           /\ \A f \in 1..Path : f # Path => files'[f] = files[f]
           /\ files'[Path] = << >>
<1>1. << >> \in Seq(Chunk) /\ Path \in 1..Len(files)
  BY LogTypes DEF Path
<1> QED
  BY <1>1, LogTypes, ExceptSeq DEF Path

-----------------------------------------------------------------------------
(* Steps of Curio.                                                         *)

\* The order of the log survives the end of a line that was begun, and the line
\* of a new win.
LEMMA WriteInOrder ==
    ASSUME TypeOK, InOrder, UNCHANGED writer,
           NEW part \in {"line", "head", "tail"}, NEW e \in Epochs, Write(part, e),
           \/ part = "tail" /\ elected' = elected
           \/ e = elected + 1 /\ elected' = e
    PROVE  InOrder'
<1>1. /\ Path' = Path /\ Path \in Nat /\ writer \in 1..Path /\ elected \in Nat
      /\ elected' >= elected
  BY WriteFiles, LogTypes
<1>2. ASSUME NEW f \in 1..Path, NEW i, i \in Announced(f)'
      PROVE  /\ i \in Nat
             /\ \/ i \in Announced(f) /\ files'[f][i] = files[f][i] /\ i <= Len(files[f])
                \/ /\ f = writer /\ i = Len(files[f]) + 1
                   /\ files'[f][i].epoch = elected + 1 /\ elected' = elected + 1
  BY <1>2, WriteAnnounces
<1>3. \A f \in 1..Path : \A i \in Announced(f) : files[f][i].epoch \in Nat
  BY LogTypes DEF Announced
<1>4. ASSUME NEW f \in 1..Path, NEW i \in Announced(f)'
      PROVE  files'[f][i].epoch <= elected'
  BY <1>1, <1>2, <1>3 DEF InOrder
<1>5. ASSUME NEW f \in 1..Path, NEW i \in Announced(f)', NEW j \in Announced(f)', i < j
      PROVE  files'[f][i].epoch < files'[f][j].epoch
  <2>1. Len(files[f]) \in Nat
    BY LogTypes
  <2>2. CASE j = Len(files[f]) + 1
    <3>1. files'[f][j].epoch = elected + 1
      BY <1>2, <2>1, <2>2
    <3>2. i \in Announced(f) /\ files'[f][i] = files[f][i]
      BY <1>2, <1>5, <2>1, <2>2
    <3> QED
      BY <1>1, <1>3, <3>1, <3>2 DEF InOrder
  <2>3. CASE j # Len(files[f]) + 1
    <3>1. j \in Announced(f) /\ files'[f][j] = files[f][j] /\ j <= Len(files[f]) /\ j \in Nat
      BY <1>2, <2>3
    <3>2. i \in Announced(f) /\ files'[f][i] = files[f][i]
      BY <1>2, <1>5, <2>1, <3>1
    <3> QED
      BY <1>5, <3>1, <3>2 DEF InOrder
  <2> QED
    BY <2>2, <2>3
<1>6. ASSUME NEW f \in 1..Path, NEW g \in 1..Path, f < g,
             NEW i \in Announced(f)', NEW j \in Announced(g)'
      PROVE  files'[f][i].epoch < files'[g][j].epoch
  <2>1. CASE f = writer
    <3>1. files'[g] = << >>
      BY <1>1, <1>6, <2>1, WriteFiles DEF InOrder
    <3> QED
      BY <3>1 DEF Announced
  <2>2. CASE f # writer
    <3>1. i \in Announced(f) /\ files'[f][i] = files[f][i]
      BY <1>2, <2>2
    <3>2. files[f][i].epoch <= elected
      BY <3>1 DEF InOrder
    <3>3. CASE g = writer /\ j = Len(files[g]) + 1 /\ files'[g][j].epoch = elected + 1
      BY <1>1, <1>3, <3>1, <3>2, <3>3
    <3>4. CASE j \in Announced(g) /\ files'[g][j] = files[g][j]
      BY <1>6, <3>1, <3>4 DEF InOrder
    <3> QED
      BY <1>2, <3>3, <3>4
  <2> QED
    BY <2>1, <2>2
<1>7. ASSUME NEW f \in 1..Path, f > writer
      PROVE  files'[f] = << >>
  BY <1>1, <1>7, WriteFiles DEF InOrder
<1> QED
  BY <1>1, <1>4, <1>5, <1>6, <1>7 DEF InOrder

\* What is appended is later than all that has been recognised.
LEMMA WriteNothingTwice ==
    ASSUME TypeOK, NothingTwice, UNCHANGED <<writer, reader, offset, recognised>>,
           NEW part \in {"line", "head", "tail"}, NEW e \in Epochs, Write(part, e),
           part = "tail" \/ e = elected + 1
    PROVE  NothingTwice'
<1>1. /\ Path' = Path /\ Path \in Nat /\ reader \in 1..Path /\ elected \in Nat /\ offset \in Nat
  BY WriteFiles, LogTypes
<1>2. \A k \in 1..Len(recognised) : recognised[k] \in 1..elected
  BY LogTypes
<1> SUFFICES ASSUME NEW f \in reader..Path, NEW i \in Unread(f)', NEW k \in 1..Len(recognised)
             PROVE  recognised[k] < files'[f][i].epoch
  BY <1>1 DEF NothingTwice
<1>3. /\ f \in 1..Path /\ i \in Announced(f)'
      /\ f = reader => i > offset \/ Len(files'[f]) < offset
  BY <1>1 DEF Unread
<1>4. CASE files'[f][i].epoch = elected + 1
  BY <1>1, <1>2, <1>4
<1>5. CASE i \in Announced(f) /\ files'[f][i] = files[f][i] /\ i \in Nat
  <2>1. Len(files[f]) \in Nat /\ (Len(files'[f]) = Len(files[f]) \/ Len(files'[f]) = Len(files[f]) + 1)
    BY <1>3, WriteFiles, LogTypes
  <2>2. i \in Unread(f)
    BY <1>1, <1>3, <1>5, <2>1 DEF Unread
  <2> QED
    BY <1>5, <2>2 DEF NothingTwice
<1> QED
  BY <1>3, <1>4, <1>5, WriteAnnounces

\* A line that is written as a whole is there to be read.
LEMMA WriteNothingMissed ==
    ASSUME TypeOK, NothingMissed,
           NEW part \in {"line", "head", "tail"}, NEW e \in Epochs, Write(part, e),
           UNCHANGED <<writer, reader, offset, rpc, recognised, prompt, truncations, restarts>>,
           part # "line" => ~Clean',
           splits' = 0 => splits = 0,
           part = "line" => e = elected + 1 /\ elected' = e /\ half' = half
    PROVE  NothingMissed'
<1> SUFFICES ASSUME Clean' PROVE NothingMissed'
  BY DEF NothingMissed
<1>1. Clean /\ part = "line" /\ elected' = elected + 1 /\ e = elected + 1 /\ half' = half
  BY DEF Clean
<1>2. /\ Path' = Path /\ Path \in Nat /\ reader \in 1..Path /\ elected \in Nat /\ offset \in Nat
      /\ writer = Path /\ Len(files[Path]) \in Nat /\ Len(files[reader]) \in Nat
  BY <1>1, WriteFiles, LogTypes DEF NothingMissed
<1>3. /\ offset <= Len(files'[reader])
      /\ reader # Path => offset = Len(files'[reader])
  BY <1>1, <1>2, WriteFiles DEF NothingMissed
<1>4. ASSUME NEW f \in 1..Path, NEW i \in 1..Len(files'[f])
      PROVE  files'[f][i].part = "line"
  <2>1. \A k \in 1..Len(files[f]) : files[f][k].part = "line"
    BY <1>1 DEF NothingMissed
  <2>2. CASE f # writer
    BY <1>4, <2>1, <2>2, WriteFiles
  <2>3. CASE f = writer
    <3>1. /\ Len(files'[f]) = Len(files[f]) + 1 /\ Len(files[f]) \in Nat
          /\ files'[f][Len(files[f]) + 1].part = "line"
          /\ \A k \in 1..Len(files[f]) : files'[f][k] = files[f][k]
      BY <1>1, <1>2, <2>3, WriteFiles
    <3>2. CASE i = Len(files[f]) + 1
      BY <3>1, <3>2
    <3>3. CASE i \in 1..Len(files[f])
      BY <2>1, <3>1, <3>3
    <3> QED
      BY <1>4, <3>1, <3>2, <3>3
  <2> QED
    BY <2>2, <2>3
<1>5. ASSUME LogWatched, NEW w \in 1..elected'
      PROVE  \/ \E k \in 1..Len(recognised) : recognised[k] = w
             \/ \E i \in 1..Len(files'[Path]) :
                  files'[Path][i].epoch = w /\ (reader = Path => i > offset)
  <2>1. /\ Len(files'[Path]) = Len(files[Path]) + 1
        /\ files'[Path][Len(files[Path]) + 1].epoch = elected + 1
        /\ \A i \in 1..Len(files[Path]) : files'[Path][i] = files[Path][i]
        /\ offset <= Len(files[reader])
    BY <1>1, <1>2, WriteFiles DEF NothingMissed
  <2>2. CASE w = elected + 1
    <3> DEFINE last == Len(files[Path]) + 1
    <3>1. last \in 1..Len(files'[Path]) /\ (reader = Path => last > offset)
      BY <1>2, <2>1
    <3>2. files'[Path][last].epoch = w
      BY <2>1, <2>2
    <3> QED
      BY <3>1, <3>2
  <2>3. CASE w # elected + 1
    <3>1. w \in 1..elected
      BY <1>1, <1>2, <1>5, <2>3
    <3>2. \/ \E k \in 1..Len(recognised) : recognised[k] = w
          \/ \E i \in 1..Len(files[Path]) :
               files[Path][i].epoch = w /\ (reader = Path => i > offset)
      BY <1>1, <1>5, <3>1 DEF NothingMissed
    <3>3. ASSUME NEW i \in 1..Len(files[Path]),
                 files[Path][i].epoch = w /\ (reader = Path => i > offset)
          PROVE  /\ i \in 1..Len(files'[Path])
                 /\ files'[Path][i].epoch = w /\ (reader = Path => i > offset)
      BY <1>2, <2>1, <3>3
    <3> QED
      BY <3>2, <3>3
  <2> QED
    BY <2>2, <2>3
<1> QED
  BY <1>1, <1>2, <1>3, <1>4, <1>5 DEF NothingMissed

\* The monitor's part of the types, which the log does not concern.
MonitorTypes ==
    /\ rows \subseteq 1..elected
    /\ lastChecked \in {started} \cup rows
    /\ started \in 0..(elected + 1)
    /\ winning \in BOOLEAN
    /\ covered \subseteq Epochs
    /\ held \subseteq 1..elected

WatcherTypes ==
    /\ offset \in Nat
    /\ rpc \in {"read", "eof", "starting"}
    /\ channel \in Seq(Epochs) /\ Len(channel) <= ChannelCap
    /\ recognised \in Seq(1..elected)

BoundTypes ==
    /\ prompt \in BOOLEAN
    /\ truncations \in 0..MaxTruncations
    /\ splits \in 0..MaxSplits
    /\ restarts \in 0..MaxRestarts

LogFits ==
    /\ elected \in 0..MaxWins
    /\ half \in BOOLEAN
    /\ files \in Seq(Seq(Chunk))
    /\ writer \in 1..Path
    /\ reader \in 1..Path

\* The types are those of its parts.
LEMMA TypesSplit == TypeOK <=> LogFits /\ MonitorTypes /\ WatcherTypes /\ BoundTypes
BY DEF TypeOK, LogFits, MonitorTypes, WatcherTypes, BoundTypes

\* A win.
LEMMA ElectKeeps == IInv /\ Elect => IInv'
<1> SUFFICES ASSUME IInv, Elect PROVE IInv'
  OBVIOUS
<1>1. PICK part \in {"line", "head"} :
        /\ Write(part, elected + 1)
        /\ \/ part = "line" /\ half' = half /\ splits' = splits
           \/ part = "head" /\ splits < MaxSplits /\ splits' = splits + 1 /\ half' = TRUE
  <2>1. CASE Write("line", elected + 1) /\ UNCHANGED <<half, splits>>
    BY <2>1
  <2>2. CASE /\ splits < MaxSplits /\ splits' = splits + 1 /\ half' = TRUE
             /\ Write("head", elected + 1)
    BY <2>2
  <2> QED
    BY <2>1, <2>2 DEF Elect
<1>2. /\ TypeOK /\ InOrder /\ NothingTwice /\ NothingMissed /\ RecognisedOnce
      /\ elected' = elected + 1 /\ elected + 1 \in Epochs /\ elected \in Nat /\ MaxSplits \in Nat
      /\ UNCHANGED <<rows, writer, watcher, monitor, prompt, truncations, restarts>>
  BY WinAssumption DEF IInv, TypeOK, Elect, Epochs
<1>3. TypeOK'
  <2>1. LogFits'
    <3>1. files' \in Seq(Seq(Chunk)) /\ Path' = Path
      BY <1>1, <1>2, WriteFiles
    <3>2. half' \in BOOLEAN
      BY <1>1, <1>2 DEF TypeOK
    <3>3. elected' \in 0..MaxWins /\ writer' = writer /\ reader' = reader
      BY <1>2, WinAssumption DEF Epochs, watcher
    <3> QED
      BY <1>2, <3>1, <3>2, <3>3, TypesSplit DEF LogFits
  <2>2. MonitorTypes'
    <3>1. 1..elected \subseteq 1..elected' /\ 0..(elected + 1) \subseteq 0..(elected' + 1)
      BY <1>2
    <3> QED
      BY <1>2, <3>1, TypesSplit DEF MonitorTypes, monitor
  <2>3. WatcherTypes'
    <3>1. recognised' \in Seq(1..elected')
      <4>1. 1..elected \subseteq 1..elected' /\ recognised' = recognised
        BY <1>2 DEF watcher
      <4> QED
        BY <1>2, <4>1 DEF TypeOK
    <3> QED
      BY <1>2, <3>1, TypesSplit DEF WatcherTypes, watcher
  <2>4. BoundTypes'
    BY <1>1, <1>2, TypesSplit DEF BoundTypes
  <2> QED
    BY <2>1, <2>2, <2>3, <2>4, TypesSplit DEF TypeOK, LogFits, MonitorTypes, WatcherTypes, BoundTypes
<1>4. InOrder'
  BY <1>1, <1>2, WriteInOrder
<1>5. NothingTwice'
  BY <1>1, <1>2, WriteNothingTwice DEF watcher
<1>6. NothingMissed'
  <2>1. splits \in Nat /\ (part = "head" => splits' # 0) /\ (splits' = 0 => splits = 0)
    BY <1>1, <1>2 DEF TypeOK
  <2> QED
    BY <1>1, <1>2, <2>1, WriteNothingMissed DEF watcher, Clean
<1>7. RecognisedOnce' /\ HalfOfWin'
  BY <1>2 DEF RecognisedOnce, HalfOfWin, watcher
<1> QED
  BY <1>3, <1>4, <1>5, <1>6, <1>7 DEF IInv

\* The end of a line whose head has been written.
LEMMA EndLineKeeps == IInv /\ EndLine => IInv'
<1> SUFFICES ASSUME IInv, EndLine PROVE IInv'
  OBVIOUS
<1>1. /\ TypeOK /\ InOrder /\ NothingTwice /\ NothingMissed /\ RecognisedOnce
      /\ half /\ half' = FALSE /\ Write("tail", elected)
      /\ UNCHANGED <<elected, rows, writer, watcher, monitor, bounds>>
  BY DEF IInv, EndLine
<1>2. ~Clean
  BY <1>1 DEF NothingMissed
<1>3. elected \in Epochs
  BY <1>1, WinAssumption DEF IInv, HalfOfWin, TypeOK, Epochs
<1>4. TypeOK'
  BY <1>1, <1>3, WriteFiles DEF TypeOK, watcher, monitor, bounds
<1>5. InOrder' /\ NothingTwice'
  BY <1>1, <1>3, WriteInOrder, WriteNothingTwice DEF watcher
<1>6. NothingMissed' /\ RecognisedOnce' /\ HalfOfWin'
  BY <1>1, <1>2 DEF NothingMissed, Clean, RecognisedOnce, HalfOfWin, watcher, bounds
<1> QED
  BY <1>4, <1>5, <1>6 DEF IInv

\* A row of the database, and what else leaves the log, the watcher and the
\* bounds alone.
LEMMA LogUntouched ==
    ASSUME IInv, UNCHANGED <<elected, half, log, reader, offset, rpc, recognised, bounds>>,
           MonitorTypes', channel' \in Seq(Epochs), Len(channel') <= ChannelCap
    PROVE  IInv'
<1>1. TypeOK'
  BY DEF IInv, TypeOK, MonitorTypes, log, bounds, Path
<1>2. /\ InOrder /\ NothingTwice /\ NothingMissed /\ RecognisedOnce /\ HalfOfWin
      /\ files' = files /\ writer' = writer /\ Path' = Path
      /\ UNCHANGED <<elected, half, reader, offset, rpc, recognised, prompt, truncations,
                     splits, restarts>>
  BY DEF IInv, log, bounds, Path
<1>3. \A f : Announced(f)' = Announced(f) /\ Unread(f)' = Unread(f)
  BY <1>2 DEF Announced, Unread
<1>4. InOrder'
  BY <1>2, <1>3 DEF InOrder
<1>5. NothingTwice'
  BY <1>2, <1>3 DEF NothingTwice
<1>6. NothingMissed'
  BY <1>2 DEF NothingMissed, Clean
<1>7. RecognisedOnce' /\ HalfOfWin'
  BY <1>2 DEF RecognisedOnce, HalfOfWin
<1> QED
  BY <1>1, <1>4, <1>5, <1>6, <1>7 DEF IInv

\* Curio records a win.
LEMMA RecordKeeps ==
    ASSUME IInv, NEW e, Record(e)
    PROVE  IInv'
<1>1. MonitorTypes'
  BY DEF Record, IInv, TypeOK, MonitorTypes, monitor
<1> QED
  BY <1>1, LogUntouched DEF Record, IInv, TypeOK, watcher

\* logrotate: the new file is empty, and with prompt rotations all is read.
LEMMA RotateKeeps == IInv /\ Rotate => IInv'
<1> SUFFICES ASSUME IInv, Rotate PROVE IInv'
  OBVIOUS
<1>1. /\ TypeOK /\ InOrder /\ NothingTwice /\ NothingMissed /\ RecognisedOnce /\ HalfOfWin
      /\ files' = Append(files, << >>)
      /\ writer' = IF prompt THEN Path + 1 ELSE writer
      /\ prompt => AllRead /\ writer = Path /\ ~half
      /\ UNCHANGED <<curio, watcher, monitor, bounds>>
  BY DEF IInv, Rotate
<1>2. /\ files' \in Seq(Seq(Chunk)) /\ Path' = Path + 1 /\ Path \in Nat
      /\ \A f \in 1..Path : files'[f] = files[f]
      /\ files'[Path + 1] = << >>
      /\ writer \in 1..Path /\ reader \in 1..Path
  BY <1>1, RotateFiles, LogTypes
<1>3. writer' \in 1..Path' /\ reader' = reader /\ reader' \in 1..Path'
  BY <1>1, <1>2 DEF watcher
<1>4. TypeOK'
  BY <1>1, <1>2, <1>3 DEF TypeOK, curio, watcher, monitor, bounds
<1>5. /\ \A f \in 1..Path : Announced(f)' = Announced(f)
      /\ \A f \in 1..Path' : f \notin 1..Path => files'[f] = << >> /\ Announced(f)' = {}
  <2>1. \A f \in 1..Path : Announced(f)' = Announced(f)
    BY <1>2 DEF Announced
  <2>2. ASSUME NEW f \in 1..Path', f \notin 1..Path
        PROVE  files'[f] = << >> /\ Announced(f)' = {}
    <3>1. files'[f] = << >>
      BY <1>2, <2>2
    <3>2. 1..Len(files'[f]) = {}
      BY <3>1
    <3> QED
      BY <3>1, <3>2 DEF Announced
  <2> QED
    BY <2>1, <2>2
<1>6. InOrder'
  <2>1. elected' = elected
    BY <1>1 DEF curio
  <2>2. ASSUME NEW f \in 1..Path'
        PROVE  /\ \A i \in Announced(f)' : files'[f][i].epoch <= elected
               /\ \A i, j \in Announced(f)' : i < j => files'[f][i].epoch < files'[f][j].epoch
    <3>1. CASE f \in 1..Path
      BY <1>1, <1>2, <1>5, <3>1 DEF InOrder
    <3>2. CASE f \notin 1..Path
      BY <1>5, <3>2
    <3> QED
      BY <3>1, <3>2
  <2>3. ASSUME NEW f \in 1..Path', f > writer'
        PROVE  files'[f] = << >>
    <3>1. CASE f \in 1..Path
      <4>1. f > writer
        BY <1>1, <1>2, <2>3, <3>1
      <4>2. files[f] = << >>
        BY <1>1, <3>1, <4>1 DEF InOrder
      <4> QED
        BY <1>2, <3>1, <4>2
    <3>2. CASE f \notin 1..Path
      BY <1>5, <3>2
    <3> QED
      BY <3>1, <3>2
  <2>4. ASSUME NEW f \in 1..Path', NEW g \in 1..Path', f < g,
               NEW i \in Announced(f)', NEW j \in Announced(g)'
        PROVE  files'[f][i].epoch < files'[g][j].epoch
    <3>1. f \in 1..Path /\ g \in 1..Path
      BY <1>5, <2>4
    <3>2. /\ i \in Announced(f) /\ j \in Announced(g)
          /\ files'[f] = files[f] /\ files'[g] = files[g]
      BY <1>2, <1>5, <3>1
    <3> QED
      BY <1>1, <2>4, <3>1, <3>2 DEF InOrder
  <2> QED
    BY <2>1, <2>2, <2>3, <2>4 DEF InOrder
<1>7. NothingTwice'
  <2> SUFFICES ASSUME NEW f \in reader'..Path', NEW i \in Unread(f)',
                      NEW k \in 1..Len(recognised')
               PROVE  recognised'[k] < files'[f][i].epoch
    BY DEF NothingTwice
  <2>1. f \in reader..Path /\ i \in Announced(f) /\ files'[f] = files[f]
    <3>1. i \in Announced(f)' /\ f \in 1..Path'
      BY <1>2, <1>3 DEF Unread
    <3>2. f \in 1..Path
      BY <1>5, <3>1
    <3> QED
      BY <1>2, <1>3, <1>5, <3>1, <3>2
  <2>2. i \in Unread(f)
    BY <1>1, <2>1 DEF Unread, watcher
  <2> QED
    BY <1>1, <2>1, <2>2 DEF NothingTwice, watcher
<1>8. NothingMissed'
  <2> SUFFICES ASSUME Clean' PROVE NothingMissed'
    BY DEF NothingMissed
  <2>1. /\ Clean /\ reader = Path /\ offset = Len(files[Path])
        /\ UNCHANGED <<elected, half, rpc, offset, recognised>>
    BY <1>1 DEF Clean, bounds, AllRead, curio, watcher
  <2>2. ~half' /\ writer' = Path' /\ rpc' # "starting"
    BY <1>1, <1>2, <2>1 DEF NothingMissed, Clean
  <2>3. /\ reader' = Path' - 1 /\ files'[reader'] = files[Path]
        /\ offset' = Len(files'[reader'])
    BY <1>2, <1>3, <2>1
  <2>4. \A f \in 1..Path' : \A i \in 1..Len(files'[f]) : files'[f][i].part = "line"
    <3>1. \A f \in 1..Path' : f \in 1..Path \/ 1..Len(files'[f]) = {}
      <4>1. 1..Len(<< >>) = {}
        OBVIOUS
      <4> QED
        BY <1>5, <4>1
    <3>2. \A f \in 1..Path : \A i \in 1..Len(files[f]) : files[f][i].part = "line"
      BY <1>1, <2>1 DEF NothingMissed
    <3> QED
      BY <1>2, <3>1, <3>2
  <2>5. ASSUME LogWatched, NEW e \in 1..elected'
        PROVE  \E k \in 1..Len(recognised') : recognised'[k] = e
    <3>1. \A i \in 1..Len(files[Path]) : ~(i > offset)
      BY <2>1, <1>2, LogTypes, <1>1
    <3> QED
      BY <1>1, <2>1, <2>5, <3>1 DEF NothingMissed
  <2>6. offset' <= Len(files'[reader']) /\ reader' \in {Path' - 1, Path'}
    <3>1. offset \in Nat
      BY <1>1, LogTypes
    <3> QED
      BY <2>1, <2>3, <3>1
  <2> QED
    BY <2>2, <2>3, <2>4, <2>5, <2>6 DEF NothingMissed
<1>9. RecognisedOnce' /\ HalfOfWin'
  BY <1>1 DEF RecognisedOnce, HalfOfWin, watcher, curio
<1> QED
  BY <1>4, <1>6, <1>7, <1>8, <1>9 DEF IInv

\* Curio goes on in the new file.
LEMMA CurioReopensKeeps == IInv /\ CurioReopens => IInv'
<1> SUFFICES ASSUME IInv, CurioReopens PROVE IInv'
  OBVIOUS
<1>1. /\ TypeOK /\ InOrder /\ NothingTwice /\ NothingMissed /\ RecognisedOnce /\ HalfOfWin
      /\ writer' = Path /\ writer # Path /\ ~half
      /\ UNCHANGED <<curio, files, watcher, monitor, bounds>>
  BY DEF IInv, CurioReopens
<1>2. Path' = Path /\ Path \in Nat /\ Path \in 1..Path /\ writer \in 1..Path
  BY <1>1, LogTypes DEF Path
<1>3. TypeOK'
  BY <1>1, <1>2 DEF TypeOK, curio, watcher, monitor, bounds
<1>4. InOrder'
  BY <1>1, <1>2 DEF InOrder, Announced, curio
<1>5. NothingTwice' /\ RecognisedOnce' /\ HalfOfWin'
  BY <1>1, <1>2 DEF NothingTwice, RecognisedOnce, HalfOfWin, Announced, Unread, watcher, curio
<1>6. NothingMissed'
  BY <1>1 DEF NothingMissed, Clean, bounds
<1> QED
  BY <1>3, <1>4, <1>5, <1>6 DEF IInv

\* logrotate empties the log.
LEMMA TruncateKeeps == IInv /\ Truncate => IInv'
<1> SUFFICES ASSUME IInv, Truncate PROVE IInv'
  OBVIOUS
<1>1. /\ TypeOK /\ InOrder /\ NothingTwice /\ NothingMissed /\ RecognisedOnce /\ HalfOfWin
      /\ files' = [files EXCEPT ![Path] = << >>]
      /\ truncations < MaxTruncations /\ truncations' = truncations + 1
      /\ UNCHANGED <<curio, writer, watcher, monitor, prompt, splits, restarts>>
  BY DEF IInv, Truncate
<1>2. /\ files' \in Seq(Seq(Chunk)) /\ Path' = Path /\ Path \in Nat
      /\ \A f \in 1..Path : f # Path => files'[f] = files[f]
      /\ files'[Path] = << >>
      /\ writer \in 1..Path /\ reader \in 1..Path
  BY <1>1, TruncateFiles, LogTypes
<1>3. truncations' \in 0..MaxTruncations /\ truncations' # 0
  BY <1>1, WinAssumption DEF TypeOK
<1>4. TypeOK'
  BY <1>1, <1>2, <1>3 DEF TypeOK, curio, watcher, monitor
<1>5. /\ \A f \in 1..Path : f # Path => Announced(f)' = Announced(f)
      /\ Announced(Path)' = {}
  BY <1>2 DEF Announced
<1>6. InOrder'
  BY <1>1, <1>2, <1>5 DEF InOrder, curio
<1>7. NothingTwice'
  <2> SUFFICES ASSUME NEW f \in reader..Path, NEW i \in Unread(f)', NEW k \in 1..Len(recognised)
               PROVE  recognised[k] < files'[f][i].epoch
    BY <1>1, <1>2 DEF NothingTwice, watcher
  <2>1. f # Path /\ f \in 1..Path /\ i \in Announced(f) /\ files'[f] = files[f]
    BY <1>2, <1>5 DEF Unread
  <2>2. i \in Unread(f)
    BY <1>1, <2>1 DEF Unread, watcher
  <2> QED
    BY <2>1, <2>2, <1>1 DEF NothingTwice
<1>8. NothingMissed' /\ RecognisedOnce' /\ HalfOfWin'
  BY <1>1, <1>3 DEF NothingMissed, Clean, RecognisedOnce, HalfOfWin, watcher, curio
<1> QED
  BY <1>4, <1>6, <1>7, <1>8 DEF IInv


-----------------------------------------------------------------------------
(* The watcher.                                                            *)

\* A log that stays as it is keeps its order.
LEMMA LogStays ==
    ASSUME InOrder, UNCHANGED <<elected, files, writer>>
    PROVE  InOrder' /\ Path' = Path /\ \A f : Announced(f)' = Announced(f)
BY DEF InOrder, Announced, Path

\* A line that is recognised is later than all the others.
LEMMA SignalKeeps ==
    ASSUME IInv, offset < Len(files[reader]), files[reader][offset + 1].part # "tail",
           \/ offset' = offset + 1
           \/ files[reader][offset + 1].part = "head" /\ offset' = offset + 2,
           offset' <= Len(files[reader]),
           Signal(files[reader][offset + 1].epoch),
           UNCHANGED <<curio, log, reader, rpc, monitor, bounds>>
    PROVE  IInv'
<1> DEFINE e == files[reader][offset + 1].epoch
           n == Len(recognised)
<1>1. /\ TypeOK /\ InOrder /\ NothingTwice /\ NothingMissed /\ RecognisedOnce /\ HalfOfWin
      /\ files' = files /\ writer' = writer /\ reader' = reader /\ elected' = elected
      /\ half' = half /\ rpc' = rpc
      /\ UNCHANGED <<prompt, truncations, splits, restarts>>
  BY DEF IInv, curio, log, bounds
<1>2. /\ reader \in 1..Path /\ Path \in Nat /\ offset \in Nat /\ offset' \in Nat /\ elected \in Nat
      /\ Len(files[reader]) \in Nat /\ offset + 1 \in 1..Len(files[reader])
      /\ recognised \in Seq(1..elected) /\ n \in Nat
  BY <1>1, LogTypes
<1>3. offset + 1 \in Announced(reader) /\ offset + 1 \in Unread(reader)
  BY <1>2 DEF Announced, Unread
<1>4. e \in 1..elected /\ e \in Epochs
  <2>1. files[reader][offset + 1] \in Chunk
    BY <1>1, <1>2, LogTypes
  <2>2. e \in Epochs
    BY <2>1 DEF Chunk
  <2>3. e <= elected
    BY <1>1, <1>2, <1>3 DEF InOrder
  <2> QED
    BY <1>2, <2>2, <2>3, WinAssumption DEF Epochs
<1>5. /\ recognised' \in Seq(1..elected) /\ Len(recognised') = n + 1
      /\ \A k \in 1..n : recognised'[k] = recognised[k]
      /\ recognised'[n + 1] = e
  <2>1. recognised' = Append(recognised, e)
    BY DEF Signal
  <2> HIDE DEF e
  <2> QED
    BY <1>2, <1>4, <2>1, AppendProperties
<1>6. channel' \in Seq(Epochs) /\ Len(channel') <= ChannelCap
  <2>1. /\ channel \in Seq(Epochs) /\ Len(channel) <= ChannelCap /\ Len(channel) \in Nat
        /\ ChannelCap \in Nat
        /\ channel' = IF Len(channel) < ChannelCap THEN Append(channel, e) ELSE channel
    BY <1>1, WinAssumption DEF TypeOK, Signal
  <2> HIDE DEF e
  <2>2. Append(channel, e) \in Seq(Epochs) /\ Len(Append(channel, e)) = Len(channel) + 1
    BY <1>4, <2>1, AppendProperties
  <2> QED
    BY <2>1, <2>2
<1>7. InOrder' /\ Path' = Path /\ \A f : Announced(f)' = Announced(f)
  BY <1>1, LogStays
<1> HIDE DEF n
<1>8. TypeOK'
  BY <1>1, <1>2, <1>5, <1>6, <1>7 DEF TypeOK, curio, monitor
<1>9. \A k \in 1..n : recognised[k] < e
  BY <1>1, <1>2, <1>3 DEF NothingTwice, n
<1>10. NothingTwice'
  <2> SUFFICES ASSUME NEW f \in reader..Path, NEW i \in Unread(f)', NEW k \in 1..(n + 1)
               PROVE  recognised'[k] < files[f][i].epoch
    BY <1>1, <1>5, <1>7 DEF NothingTwice
  <2>1. /\ f \in 1..Path /\ i \in Announced(f) /\ i \in Nat
        /\ f = reader => i > offset'
    BY <1>1, <1>2, <1>7 DEF Unread, Announced
  <2>2. i \in Unread(f)
    BY <1>2, <2>1 DEF Unread
  <2>3. CASE k \in 1..n
    BY <1>1, <1>5, <2>2, <2>3 DEF NothingTwice, n
  <2>4. CASE k = n + 1
    <3>1. CASE f = reader
      <4>1. offset + 1 < i
        BY <1>2, <2>1, <3>1
      <4> QED
        BY <1>1, <1>2, <1>3, <1>5, <2>1, <2>4, <3>1, <4>1 DEF InOrder
    <3>2. CASE f # reader
      <4>1. reader < f
        BY <1>2, <3>2
      <4> QED
        BY <1>1, <1>2, <1>3, <1>5, <2>1, <2>4, <4>1 DEF InOrder
    <3> QED
      BY <3>1, <3>2
  <2> QED
    BY <1>2, <2>3, <2>4
<1>11. NothingMissed'
  <2> SUFFICES ASSUME Clean' PROVE NothingMissed'
    BY DEF NothingMissed
  <2>1. Clean
    BY <1>1 DEF Clean
  <2>2. /\ ~half /\ writer = Path /\ rpc # "starting" /\ reader = Path
        /\ \A f \in 1..Path : \A i \in 1..Len(files[f]) : files[f][i].part = "line"
    BY <1>1, <1>2, <2>1 DEF NothingMissed
  <2>3. offset' = offset + 1
    BY <1>2, <2>2
  <2>4. ASSUME LogWatched, NEW d \in 1..elected
        PROVE  \/ \E k \in 1..(n + 1) : recognised'[k] = d
               \/ \E i \in 1..Len(files[Path]) : files[Path][i].epoch = d /\ i > offset'
    <3>1. CASE \E k \in 1..n : recognised[k] = d
      BY <1>2, <1>5, <3>1
    <3>2. CASE \E i \in 1..Len(files[Path]) : files[Path][i].epoch = d /\ i > offset
      <4>1. PICK i \in 1..Len(files[Path]) : files[Path][i].epoch = d /\ i > offset
        BY <3>2
      <4>2. CASE i = offset + 1
        <5>1. recognised'[n + 1] = d /\ n + 1 \in 1..(n + 1)
          BY <1>2, <1>5, <2>2, <4>1, <4>2
        <5> QED
          BY <5>1
      <4>3. CASE i # offset + 1
        BY <1>2, <2>2, <2>3, <4>1, <4>3
      <4> QED
        BY <4>2, <4>3
    <3> QED
      BY <1>1, <2>1, <2>2, <2>4, <3>1, <3>2 DEF NothingMissed, n
  <2> QED
    BY <1>1, <1>2, <1>5, <1>7, <2>2, <2>3, <2>4 DEF NothingMissed
<1>12. RecognisedOnce'
  <2>1. DOMAIN recognised' = 1..(n + 1) /\ DOMAIN recognised = 1..n
    BY <1>2, <1>5 DEF n
  <2>2. ASSUME NEW i \in 1..(n + 1), NEW j \in 1..(n + 1), i < j
        PROVE  recognised'[i] # recognised'[j]
    <3>1. i \in 1..n
      BY <1>2, <2>2
    <3>2. recognised'[i] = recognised[i] /\ recognised[i] \in Nat
      BY <1>2, <1>5, <3>1 DEF n
    <3>3. CASE j = n + 1
      <4>1. recognised[i] < e /\ recognised'[j] = e /\ e \in Nat
        BY <1>4, <1>5, <1>9, <3>1, <3>3
      <4> HIDE DEF e
      <4> QED
        BY <3>2, <4>1
    <3>4. CASE j # n + 1
      <4>1. j \in 1..n
        BY <1>2, <3>4
      <4>2. recognised[i] # recognised[j]
        <5>1. i # j
          BY <2>2, <3>1, <4>1, <1>2
        <5>2. i \in DOMAIN recognised /\ j \in DOMAIN recognised
          BY <2>1, <3>1, <4>1
        <5> QED
          BY <1>1, <5>1, <5>2 DEF RecognisedOnce
      <4> QED
        BY <1>5, <3>2, <4>1, <4>2
    <3> QED
      BY <3>3, <3>4
  <2>3. ASSUME NEW i \in 1..(n + 1), NEW j \in 1..(n + 1), recognised'[i] = recognised'[j]
        PROVE  i = j
    <3>1. ~(i < j) /\ ~(j < i)
      BY <2>2, <2>3
    <3> QED
      BY <1>2, <3>1
  <2> QED
    BY <2>1, <2>3 DEF RecognisedOnce
<1>13. HalfOfWin'
  BY <1>1 DEF HalfOfWin
<1> QED
  BY <1>7, <1>8, <1>10, <1>11, <1>12, <1>13 DEF IInv

\* What loses the second half of a line, or reads no further.
LEMMA SkipKeeps ==
    ASSUME IInv, rpc' \in {"read", "eof"},
           \/ offset' = offset
           \/ /\ offset' = offset + 1 /\ offset + 1 <= Len(files[reader])
              /\ files[reader][offset + 1].part # "line",
           UNCHANGED <<curio, log, reader, channel, recognised, monitor, bounds>>
    PROVE  IInv'
<1>1. /\ TypeOK /\ InOrder /\ NothingTwice /\ NothingMissed /\ RecognisedOnce /\ HalfOfWin
      /\ files' = files /\ writer' = writer /\ reader' = reader /\ elected' = elected
      /\ half' = half /\ recognised' = recognised
      /\ UNCHANGED <<prompt, truncations, splits, restarts>>
  BY DEF IInv, curio, log, bounds
<1>2. /\ reader \in 1..Path /\ Path \in Nat /\ offset \in Nat
      /\ Len(files[reader]) \in Nat /\ recognised \in Seq(1..elected)
  BY <1>1, LogTypes
<1>3. InOrder' /\ Path' = Path /\ \A f : Announced(f)' = Announced(f)
  BY <1>1, LogStays
<1>4. TypeOK'
  <2>1. offset' \in Nat
    BY <1>2
  <2> QED
    BY <1>1, <1>3, <2>1 DEF TypeOK, curio, monitor
<1>5. NothingTwice'
  <2> SUFFICES ASSUME NEW f \in reader..Path, NEW i \in Unread(f)', NEW k \in 1..Len(recognised)
               PROVE  recognised[k] < files[f][i].epoch
    BY <1>1, <1>3 DEF NothingTwice
  <2>1. /\ i \in Announced(f) /\ i \in Nat
        /\ f = reader => i > offset' \/ Len(files[f]) < offset'
    BY <1>1, <1>3 DEF Unread, Announced
  <2>2. i \in Unread(f)
    BY <1>2, <2>1 DEF Unread
  <2> QED
    BY <1>1, <2>2 DEF NothingTwice
<1>6. NothingMissed'
  <2> SUFFICES ASSUME Clean' PROVE NothingMissed'
    BY DEF NothingMissed
  <2>1. Clean
    BY <1>1 DEF Clean
  <2>2. offset' = offset
    <3>1. \A f \in 1..Path : \A i \in 1..Len(files[f]) : files[f][i].part = "line"
      BY <1>1, <2>1 DEF NothingMissed
    <3>2. CASE offset + 1 <= Len(files[reader])
      <4>1. offset + 1 \in 1..Len(files[reader])
        BY <1>2, <3>2
      <4> QED
        BY <1>2, <3>1, <4>1
    <3> QED
      BY <3>2
  <2>3. rpc' # "starting"
    OBVIOUS
  <2> QED
    BY <1>1, <1>3, <2>1, <2>2, <2>3 DEF NothingMissed
<1>7. RecognisedOnce' /\ HalfOfWin'
  BY <1>1 DEF RecognisedOnce, HalfOfWin
<1> QED
  BY <1>3, <1>4, <1>5, <1>6, <1>7 DEF IInv

\* The watcher reads a line.
LEMMA ReadLineKeeps == IInv /\ ReadLine => IInv'
<1> SUFFICES ASSUME IInv, ReadLine PROVE IInv'
  OBVIOUS
<1> DEFINE file == files[reader]
           next == offset + 1
<1>1. /\ offset < Len(file) /\ rpc = "read" /\ rpc' = rpc
      /\ UNCHANGED <<curio, log, reader, monitor, bounds>>
      /\ (\/ file[next].part = "line" /\ offset' = next /\ Signal(file[next].epoch)
          \/ /\ file[next].part = "head" /\ next < Len(file)
             /\ offset' = next + 1 /\ Signal(file[next].epoch)
          \/ file[next].part = "tail" /\ offset' = next /\ UNCHANGED <<channel, recognised>>)
  BY DEF ReadLine
<1>2. offset \in Nat /\ Len(file) \in Nat
  BY LogTypes DEF IInv
<1>3. CASE file[next].part = "line" /\ offset' = next /\ Signal(file[next].epoch)
  BY <1>1, <1>2, <1>3, SignalKeeps
<1>4. CASE /\ file[next].part = "head" /\ next < Len(file)
           /\ offset' = next + 1 /\ Signal(file[next].epoch)
  <2>1. offset' = offset + 2 /\ offset' <= Len(file)
    BY <1>2, <1>4
  <2> QED
    BY <1>1, <1>2, <1>4, <2>1, SignalKeeps
<1>5. CASE file[next].part = "tail" /\ offset' = next /\ UNCHANGED <<channel, recognised>>
  <2>1. offset + 1 <= Len(file)
    BY <1>1, <1>2
  <2> QED
    BY <1>1, <1>5, <2>1, SkipKeeps
<1> QED
  BY <1>1, <1>3, <1>4, <1>5

\* It comes to the end of the file.
LEMMA ReadEofKeeps == IInv /\ ReadEof => IInv'
<1> SUFFICES ASSUME IInv, ReadEof PROVE IInv'
  OBVIOUS
<1>1. offset \in Nat /\ Len(files[reader]) \in Nat
  BY LogTypes DEF IInv
<1> QED
  BY <1>1, SkipKeeps DEF ReadEof

\* It reads another file, or the same one anew, from its start.
LEMMA ReopenKeeps == IInv /\ Reopen => IInv'
<1> SUFFICES ASSUME IInv, Reopen PROVE IInv'
  OBVIOUS
<1>1. CASE ~(reader # Path \/ Truncated)
  BY <1>1, SkipKeeps DEF Reopen
<1>2. CASE reader # Path \/ Truncated
  <2>1. /\ TypeOK /\ InOrder /\ NothingTwice /\ NothingMissed /\ RecognisedOnce /\ HalfOfWin
        /\ files' = files /\ writer' = writer /\ elected' = elected
        /\ half' = half /\ recognised' = recognised
        /\ UNCHANGED <<prompt, truncations, splits, restarts>>
        /\ reader' = Path /\ offset' = 0 /\ rpc' = "read"
    BY <1>2 DEF IInv, Reopen, ReopenOffset, curio, log, bounds
  <2>2. /\ reader \in 1..Path /\ Path \in Nat /\ offset \in Nat /\ Path \in reader..Path
        /\ recognised \in Seq(1..elected) /\ Path \in 1..Path /\ Len(files[Path]) \in Nat
    BY <2>1, LogTypes
  <2>3. InOrder' /\ Path' = Path /\ \A f : Announced(f)' = Announced(f)
    BY <2>1, LogStays
  <2>4. TypeOK'
    BY <2>1, <2>2, <2>3 DEF TypeOK, Reopen, curio, monitor
  <2>5. NothingTwice'
    <3> SUFFICES ASSUME NEW f \in Path..Path, NEW i \in Unread(f)', NEW k \in 1..Len(recognised)
                 PROVE  recognised[k] < files[f][i].epoch
      BY <2>1, <2>3 DEF NothingTwice
    <3>1. f = Path /\ i \in Announced(f)
      BY <2>2, <2>3 DEF Unread
    <3>2. i \in Unread(f)
      BY <1>2, <3>1 DEF Unread, Truncated
    <3> QED
      BY <2>1, <2>2, <3>1, <3>2 DEF NothingTwice
  <2>6. NothingMissed'
    <3> SUFFICES ASSUME Clean' PROVE NothingMissed'
      BY DEF NothingMissed
    <3>1. Clean
      BY <2>1 DEF Clean
    <3>2. reader # Path
      BY <1>2, <2>1, <2>2, <3>1 DEF NothingMissed, Truncated
    <3>3. ASSUME LogWatched, NEW e \in 1..elected
          PROVE  \/ \E k \in 1..Len(recognised) : recognised[k] = e
                 \/ \E i \in 1..Len(files[Path]) : files[Path][i].epoch = e /\ i > 0
      <4>1. \/ \E k \in 1..Len(recognised) : recognised[k] = e
            \/ \E i \in 1..Len(files[Path]) : files[Path][i].epoch = e
        BY <2>1, <3>1, <3>3 DEF NothingMissed
      <4>2. \A i \in 1..Len(files[Path]) : i > 0
        BY <2>2
      <4> QED
        BY <4>1, <4>2
    <3>4. /\ ~half /\ writer = Path
          /\ \A f \in 1..Path : \A i \in 1..Len(files[f]) : files[f][i].part = "line"
      BY <2>1, <3>1 DEF NothingMissed
    <3> QED
      BY <2>1, <2>2, <2>3, <3>3, <3>4 DEF NothingMissed
  <2>7. RecognisedOnce' /\ HalfOfWin'
    BY <2>1 DEF RecognisedOnce, HalfOfWin
  <2> QED
    BY <2>3, <2>4, <2>5, <2>6, <2>7 DEF IInv
<1> QED
  BY <1>1, <1>2

\* The scheduler starts again.
LEMMA RestartKeeps == IInv /\ Restart => IInv'
<1> SUFFICES ASSUME IInv, Restart PROVE IInv'
  OBVIOUS
<1>1. /\ TypeOK /\ InOrder /\ NothingTwice /\ NothingMissed /\ RecognisedOnce /\ HalfOfWin
      /\ files' = files /\ writer' = writer /\ elected' = elected
      /\ half' = half /\ recognised' = recognised /\ reader' = reader /\ offset' = offset
      /\ restarts' = restarts + 1 /\ restarts < MaxRestarts
  BY DEF IInv, Restart, curio, log
<1>2. InOrder' /\ Path' = Path /\ \A f : Announced(f)' = Announced(f)
  BY <1>1, LogStays
<1>3. restarts' \in 0..MaxRestarts /\ restarts' # 0
  BY <1>1, WinAssumption DEF TypeOK
<1>4. TypeOK'
  <2>1. PICK epoch \in {elected, elected + 1} : lastChecked' = epoch /\ started' = epoch
    BY DEF Restart
  <2>2. started' \in 0..(elected + 1) /\ lastChecked' = started'
    BY <1>1, <2>1, LogTypes
  <2>3. channel' \in Seq(Epochs) /\ Len(channel') <= ChannelCap
    BY WinAssumption DEF Restart
  <2>4. rpc' = "starting" /\ winning' = FALSE
        /\ UNCHANGED <<rows, covered, held, prompt, truncations, splits>>
    BY DEF Restart, curio
  <2> QED
    BY <1>1, <1>2, <1>3, <2>2, <2>3, <2>4 DEF TypeOK
<1>5. NothingTwice'
  BY <1>1, <1>2 DEF NothingTwice, Unread
<1>6. NothingMissed' /\ RecognisedOnce' /\ HalfOfWin'
  BY <1>1, <1>3 DEF NothingMissed, Clean, RecognisedOnce, HalfOfWin
<1> QED
  BY <1>2, <1>4, <1>5, <1>6 DEF IInv

\* The watcher of a scheduler that has started opens the log at its end.
LEMMA WatchOpensKeeps == IInv /\ WatchOpens => IInv'
<1> SUFFICES ASSUME IInv, WatchOpens PROVE IInv'
  OBVIOUS
<1>1. /\ TypeOK /\ InOrder /\ NothingTwice /\ NothingMissed /\ RecognisedOnce /\ HalfOfWin
      /\ files' = files /\ writer' = writer /\ elected' = elected
      /\ half' = half /\ recognised' = recognised
      /\ reader' = Path /\ offset' = Len(files[Path]) /\ rpc = "starting" /\ rpc' = "read"
      /\ UNCHANGED <<channel, prompt, truncations, splits, restarts>>
  BY DEF IInv, WatchOpens, curio, log, bounds
<1>2. InOrder' /\ Path' = Path /\ \A f : Announced(f)' = Announced(f)
  BY <1>1, LogStays
<1>3. Path \in 1..Path /\ Len(files[Path]) \in Nat
  BY <1>1, LogTypes
<1>4. TypeOK'
  BY <1>1, <1>2, <1>3 DEF TypeOK, WatchOpens, curio, monitor
<1>5. NothingTwice'
  <2> SUFFICES ASSUME NEW f \in Path..Path, NEW i \in Unread(f)'
               PROVE  FALSE
    BY <1>1, <1>2 DEF NothingTwice
  <2>1. f = Path /\ i \in 1..Len(files[f]) /\ (i > Len(files[f]) \/ Len(files[f]) < Len(files[f]))
    BY <1>1, <1>2, <1>3 DEF Unread, Announced
  <2> QED
    BY <1>3, <2>1
<1>6. NothingMissed' /\ RecognisedOnce' /\ HalfOfWin'
  BY <1>1 DEF NothingMissed, Clean, RecognisedOnce, HalfOfWin
<1> QED
  BY <1>2, <1>4, <1>5, <1>6 DEF IInv

-----------------------------------------------------------------------------
(* The monitor.                                                            *)

\* A nonempty set of natural numbers has a least one.
LEMMA LeastNatural ==
    ASSUME NEW S \in SUBSET Nat, S # {}
    PROVE  \E x \in S : \A y \in S : x <= y
<1> DEFINE R == OpToRel(<, Nat)
<1>1. IsWellFoundedOn(R, Nat)
  BY NatLessThanWellFounded
<1>2. \A x, y \in Nat : x < y => <<x, y>> \in R
  BY DEF OpToRel
<1> HIDE DEF R
<1>3. PICK x \in S : \A y \in S : ~ (<<y, x>> \in R)
  BY <1>1, WFMin
<1>4. ASSUME NEW y \in S PROVE x <= y
  <2>1. ~(y < x)
    BY <1>2, <1>3
  <2> QED
    BY <2>1
<1> QED
  BY <1>4

\* The newest of a nonempty set of epochs is one of them.
LEMMA NewestIsOne ==
    ASSUME NEW n \in Nat, NEW S \in SUBSET (1..n), S # {}
    PROVE  Max(S) \in S
<1> DEFINE D == {n - e : e \in S}
<1>1. D \in SUBSET Nat /\ D # {}
  <2>1. \A e \in S : n - e \in Nat
    OBVIOUS
  <2>2. D \subseteq Nat
    BY <2>1
  <2>3. PICK e \in S : TRUE
    OBVIOUS
  <2>4. n - e \in D
    OBVIOUS
  <2> QED
    BY <2>2, <2>4
<1>2. PICK d \in D : \A c \in D : d <= c
  BY <1>1, LeastNatural
<1>3. PICK m \in S : d = n - m
  BY <1>2
<1>4. \A e \in S : m >= e
  <2> TAKE e \in S
  <2>1. n - e \in D
    OBVIOUS
  <2>2. n - m <= n - e
    BY <1>2, <1>3, <2>1
  <2> QED
    BY <2>2
<1> QED
  BY <1>4 DEF Max

\* The monitor takes a signal from the channel.
LEMMA LogSignalKeeps == IInv /\ LogSignal => IInv'
<1> SUFFICES ASSUME IInv, LogSignal PROVE IInv'
  OBVIOUS
<1>1. /\ UNCHANGED <<elected, half, rows, log, reader, offset, rpc, recognised, lastChecked,
                     started, bounds>>
      /\ channel # << >> /\ channel' = Tail(channel)
      /\ covered' = covered \cup {Head(channel)}
      /\ winning' = TRUE /\ held' = held \cup 1..elected
  BY DEF LogSignal, SignalTriggers, Trigger, curio
<1>2. /\ MonitorTypes /\ channel \in Seq(Epochs) /\ Len(channel) <= ChannelCap
      /\ ChannelCap \in Nat
  BY WinAssumption DEF IInv, TypeOK, MonitorTypes
<1>3. /\ Head(channel) \in Epochs /\ channel' \in Seq(Epochs)
      /\ Len(channel') = Len(channel) - 1 /\ Len(channel) \in Nat
  BY <1>1, <1>2
<1>4. MonitorTypes'
  BY <1>1, <1>2, <1>3 DEF MonitorTypes
<1>5. Len(channel') <= ChannelCap
  BY <1>2, <1>3
<1> QED
  BY <1>1, <1>3, <1>4, <1>5, LogUntouched

\* The database answers.
LEMMA DatabaseCheckKeeps == IInv /\ DatabaseCheck => IInv'
<1> SUFFICES ASSUME IInv, DatabaseCheck PROVE IInv'
  OBVIOUS
<1>1. /\ UNCHANGED <<curio, log, watcher, started, bounds>> /\ Newer # {}
      /\ lastChecked' = Max(Newer) /\ covered' = covered \cup Newer
      /\ (\/ winning' = winning /\ held' = held
          \/ winning' = TRUE /\ held' = held \cup 1..elected)
  BY DEF DatabaseCheck, CheckedUpTo, Trigger
<1>2. /\ MonitorTypes /\ channel \in Seq(Epochs) /\ Len(channel) <= ChannelCap
      /\ elected \in 0..MaxWins /\ MaxWins \in Nat
  BY WinAssumption DEF IInv, TypeOK, MonitorTypes
<1>3. Newer \in SUBSET (1..elected) /\ Newer \subseteq rows /\ Newer \subseteq Epochs
  <2>1. rows \subseteq 1..elected
    BY <1>2 DEF MonitorTypes
  <2>2. Newer \subseteq rows
    BY DEF Newer
  <2>3. 1..elected \subseteq Epochs
    BY <1>2 DEF Epochs
  <2> QED
    BY <2>1, <2>2, <2>3
<1>4. lastChecked' \in rows
  <2>1. elected \in Nat
    BY <1>2
  <2>2. Max(Newer) \in Newer
    BY <1>1, <1>3, <2>1, NewestIsOne
  <2> QED
    BY <1>1, <1>3, <2>2
<1>5. MonitorTypes'
  BY <1>1, <1>2, <1>3, <1>4 DEF MonitorTypes, curio
<1> QED
  BY <1>1, <1>2, <1>5, LogUntouched DEF curio, watcher

\* The window's timer.
LEMMA WindowEndsKeeps == IInv /\ WindowEnds => IInv'
<1> SUFFICES ASSUME IInv, WindowEnds PROVE IInv'
  OBVIOUS
<1>1. MonitorTypes'
  BY DEF IInv, TypeOK, MonitorTypes, WindowEnds, curio
<1> QED
  BY <1>1, LogUntouched DEF WindowEnds, IInv, TypeOK, curio, watcher

-----------------------------------------------------------------------------
(* The theorems.                                                           *)

\* It holds at the start.
LEMMA InitIInv == Init => IInv
<1> SUFFICES ASSUME Init PROVE IInv
  OBVIOUS
<1>1. /\ files = << << >> >> /\ Path = 1 /\ files[1] = << >> /\ Len(files[1]) = 0
      /\ recognised = << >> /\ Len(recognised) = 0 /\ DOMAIN recognised = {}
      /\ elected = 0 /\ reader = 1 /\ writer = 1 /\ offset = 0 /\ half = FALSE /\ rpc = "read"
  BY DEF Init, Path
<1>2. TypeOK
  <2>1. << >> \in Seq(Chunk) /\ << >> \in Seq(Epochs) /\ << >> \in Seq(1..0)
    OBVIOUS
  <2>2. files \in Seq(Seq(Chunk))
    BY <1>1, <2>1
  <2>3. prompt \in BOOLEAN
    BY WinAssumption DEF Init
  <2>4. LogFits
    <3>1. 0 \in 0..MaxWins
      BY WinAssumption
    <3>2. writer \in 1..Path /\ reader \in 1..Path
      BY <1>1
    <3>3. half \in BOOLEAN
      BY Zenon DEF Init
    <3> QED
      BY <1>1, <2>2, <3>1, <3>2, <3>3 DEF LogFits
  <2>5. MonitorTypes
    <3>1. rows = {} /\ lastChecked = 0 /\ started = 0 /\ covered = {} /\ held = {}
      BY DEF Init
    <3>2. winning \in BOOLEAN
      BY Zenon DEF Init
    <3> QED
      BY <1>1, <3>1, <3>2 DEF MonitorTypes
  <2>7. BoundTypes
    <3>1. truncations = 0 /\ splits = 0 /\ restarts = 0
      BY DEF Init
    <3> QED
      BY <2>3, <3>1, WinAssumption DEF BoundTypes
  <2>6. WatcherTypes
    BY <1>1, <2>1, WinAssumption DEF WatcherTypes, Init
  <2> QED
    BY <2>4, <2>5, <2>6, <2>7, TypesSplit
<1>3. \A f \in 1..Path : Announced(f) = {} /\ 1..Len(files[f]) = {}
  BY <1>1 DEF Announced
<1>4. InOrder
  BY <1>1, <1>3 DEF InOrder
<1>5. NothingTwice
  BY <1>1 DEF NothingTwice
<1>6. NothingMissed
  BY <1>1, <1>3 DEF NothingMissed
<1>7. RecognisedOnce /\ HalfOfWin
  BY <1>1 DEF RecognisedOnce, HalfOfWin
<1> QED
  BY <1>2, <1>4, <1>5, <1>6, <1>7 DEF IInv

\* No step breaks the invariant.
LEMMA NextIInv == IInv /\ [Next]_vars => IInv'
<1> SUFFICES ASSUME IInv, [Next]_vars PROVE IInv'
  OBVIOUS
<1>1. CASE Next
  <2>1. CASE \E e \in Epochs : Record(e)
    BY <2>1, RecordKeeps
  <2> QED
    BY <1>1, <2>1, ElectKeeps, EndLineKeeps, RotateKeeps, CurioReopensKeeps, TruncateKeeps,
       ReadLineKeeps, ReadEofKeeps, ReopenKeeps, RestartKeeps, WatchOpensKeeps,
       LogSignalKeeps, DatabaseCheckKeeps, WindowEndsKeeps DEF Next
<1>2. CASE UNCHANGED vars
  <2>1. MonitorTypes'
    BY <1>2 DEF IInv, TypeOK, MonitorTypes, vars, curio, monitor
  <2> QED
    BY <1>2, <2>1, LogUntouched DEF vars, IInv, TypeOK, curio, watcher
<1> QED
  BY <1>1, <1>2

\* The invariant holds in every reachable state.
LEMMA SpecIInv == Spec => []IInv
BY InitIInv, NextIInv, PTL DEF Spec

\* The state keeps its domains: the watcher's file is there, the channel within its
\* buffer, and lastCheckedEpoch is the scheduler's start or a win it has seen.
THEOREM TypeCorrect == Spec => []TypeOK
<1>1. IInv => TypeOK
  BY DEF IInv
<1> QED
  BY <1>1, SpecIInv, PTL

\* However the log is rotated and truncated, by however many steps of Curio's, of
\* logrotate's and of the watcher's, no line is recognised twice: reopenIfRotated
\* reads a file from its start only if none of its lines has been read.
THEOREM RecognisesOnce == Spec => []RecognisedOnce
<1>1. IInv => RecognisedOnce
  BY DEF IInv
<1> QED
  BY <1>1, SpecIInv, PTL

\* With prompt rotations only, nothing truncated, every line written at once and
\* no restart, a watcher that has read the log to its end has recognised every win.
THEOREM RecognisesWholeWins == Spec => []WholeWinsRecognised
<1>1. IInv => WholeWinsRecognised
  <2> SUFFICES ASSUME IInv, Clean, LogWatched, AllRead, NEW e \in 1..elected
               PROVE  e \in Range(recognised)
    BY DEF WholeWinsRecognised, LogWinsRecognised, Clean
  <2>1. /\ reader = Path /\ offset = Len(files[Path]) /\ offset \in Nat
        /\ recognised \in Seq(1..elected)
    BY DEF AllRead, IInv, TypeOK
  <2>2. \/ \E k \in 1..Len(recognised) : recognised[k] = e
        \/ \E i \in 1..Len(files[Path]) :
             files[Path][i].epoch = e /\ (reader = Path => i > offset)
    BY DEF IInv, NothingMissed
  <2>3. PICK k \in 1..Len(recognised) : recognised[k] = e
    BY <2>1, <2>2
  <2> QED
    BY <2>1, <2>3 DEF Range
<1> QED
  BY <1>1, SpecIInv, PTL
=============================================================================
