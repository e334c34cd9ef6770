--------------------------- MODULE SchedulerProofs ---------------------------
(***************************************************************************)
(* Proofs about Scheduler.tla for every set of wins and proof keys, any    *)
(* bound of completedProofs and both settings of the fail-safe.            *)
(***************************************************************************)
EXTENDS Scheduler, FiniteSetTheorems, TLAPS

PollDecision == {"AVAILABLE", "YIELDING", "WINDOW_POST"}

\* What a poll can be doing, and with which decision and target.
PollControl ==
    /\ pc[Poll] \in ApplyLabel \cup
         {"idle", "checkState", "lotus", "evaluate", "sample", "launch"}
    /\ pc[Poll] = "transition" => FailSafeOnDisconnect
    /\ pc[Poll] \in ApplyLabel =>
         /\ ret[Poll] \in {"idle", "launch"}
         /\ decision[Poll] \in PollDecision
         /\ ret[Poll] = "launch" => target \in ProofKeys
    /\ pc[Poll] \in {"evaluate", "sample", "launch"} =>
         /\ decision[Poll] \in PollDecision
         /\ target \in ProofKeys

\* A proof monitor only ever applies AVAILABLE, then releases the flag.
MonitorControl ==
    \A k \in ProofKeys :
        /\ pc[k] \in ApplyLabel \cup {"idle", "waitProof", "markProof", "release"}
        /\ pc[k] # "transition"
        /\ pc[k] \in ApplyLabel => ret[k] = "release" /\ decision[k] = "AVAILABLE"

\* A win applies WINNING_POST before it claims a generation, and AVAILABLE
\* when its timer resumes.
WinControl ==
    \A w \in Wins :
        /\ pc[w] \in ApplyLabel \cup {"idle", "claim", "armed", "checkProof", "done"}
        /\ pc[w] \in ApplyLabel =>
             \/ ret[w] = "claim" /\ decision[w] = "WINNING_POST"
             \/ ret[w] = "done" /\ decision[w] = "AVAILABLE"

Control == TypeOK /\ PollControl /\ MonitorControl /\ WinControl

\* markProofCompleted keeps the set within its bound.
LEMMA ProofsWithBounded ==
    ASSUME NEW k \in ProofKeys, TypeOK
    PROVE  /\ ProofsWith(k) \subseteq ProofKeys
           /\ IsFiniteSet(ProofsWith(k))
           /\ Cardinality(ProofsWith(k)) <= MaxCompletedProofs + 1
<1>1. /\ IsFiniteSet(completedProofs)
      /\ completedProofs \subseteq ProofKeys
      /\ Cardinality(completedProofs) \in Nat
      /\ MaxCompletedProofs \in Nat
  BY FS_CardinalityType, ConfigAssumption DEF TypeOK
<1>2. CASE Cardinality(completedProofs) > MaxCompletedProofs
  <2>1. ProofsWith(k) = {k}
    BY <1>2 DEF ProofsWith
  <2>2. IsFiniteSet({k}) /\ Cardinality({k}) = 1
    BY FS_Singleton
  <2> QED
    BY <1>1, <2>1, <2>2
<1>3. CASE ~(Cardinality(completedProofs) > MaxCompletedProofs)
  <2>1. ProofsWith(k) = completedProofs \cup {k}
    BY <1>3 DEF ProofsWith
  <2>2. /\ IsFiniteSet(completedProofs \cup {k})
        /\ \/ Cardinality(completedProofs \cup {k}) = Cardinality(completedProofs)
           \/ Cardinality(completedProofs \cup {k}) = Cardinality(completedProofs) + 1
    BY <1>1, FS_AddElement
  <2> QED
    BY <1>1, <1>3, <2>1, <2>2
<1> QED
  BY <1>2, <1>3

\* The control part of the invariant holds initially.
LEMMA InitControl == Init => Control
<1> SUFFICES ASSUME Init PROVE Control
  OBVIOUS
<1>1. IsFiniteSet({}) /\ Cardinality({}) = 0
  BY FS_EmptySet
<1>a. IsFiniteSet(completedProofs) /\ Cardinality(completedProofs) = 0
  BY <1>1 DEF Init
<1>b. /\ pc \in [Proc -> Label]
      /\ ret \in [Proc -> Label]
      /\ decision \in [Proc -> GpuState \cup {NONE}]
      /\ gen \in [Wins -> Nat]
  BY DEF Init, Label
<1>c. Cardinality(completedProofs) <= MaxCompletedProofs + 1
  BY <1>a, ConfigAssumption
<1>d. /\ completedProofs \subseteq ProofKeys
      /\ winningGen \in Nat
      /\ sm \in GpuState
  BY DEF Init, GpuState
<1>2. TypeOK
  BY <1>a, <1>b, <1>c, <1>d DEF Init, TypeOK
<1>3. PollControl /\ MonitorControl /\ WinControl
  BY DEF Init, PollControl, MonitorControl, WinControl, ApplyLabel, Proc
<1> QED
  BY <1>2, <1>3 DEF Control

\* TypeOK in three parts: the proof set, the flag, and everything else.
ProofSetOK ==
    /\ completedProofs \subseteq ProofKeys
    /\ IsFiniteSet(completedProofs)
    /\ Cardinality(completedProofs) <= MaxCompletedProofs + 1

VarTypes ==
    /\ sm \in GpuState
    /\ latestDecision \in GpuState \cup {NONE}
    /\ lastEvent \in GpuState \cup {NONE}
    /\ winningGen \in Nat
    /\ pc \in [Proc -> Label]
    /\ decision \in [Proc -> GpuState \cup {NONE}]
    /\ ret \in [Proc -> Label]
    /\ target \in ProofKeys \cup {NONE}
    /\ prevState \in GpuState \cup {NONE}
    /\ gen \in [Wins -> Nat]

\* TypeOK split into the parts that different actions touch.
LEMMA TypeParts == TypeOK <=> ProofSetOK /\ proofMonitorActive \in BOOLEAN /\ VarTypes
  BY DEF TypeOK, ProofSetOK, VarTypes

\* Only markProofCompleted touches the proof set.
LEMMA NextProofSet == TypeOK /\ [Next]_vars => ProofSetOK'
<1> SUFFICES ASSUME TypeOK, [Next]_vars PROVE ProofSetOK'
  OBVIOUS
<1>1. CASE \E k \in ProofKeys : MarkProofCompleted(k)
  <2>1. PICK k \in ProofKeys : MarkProofCompleted(k)
    BY <1>1
  <2>2. completedProofs' = ProofsWith(k)
    BY <2>1 DEF MarkProofCompleted
  <2> QED
    BY <2>2, ProofsWithBounded DEF ProofSetOK
<1>2. CASE UNCHANGED completedProofs
  BY <1>2 DEF ProofSetOK, TypeOK
<1>3. \/ \E k \in ProofKeys : MarkProofCompleted(k)
      \/ UNCHANGED completedProofs
  BY DEF Next, vars, PollStep, MonitorStep, WinStep, Apply, LotusAnswers,
     Transition, TransitionUnless, Recheck, Refresh, Record, Broadcast,
     PollTick, PollCheckState, LotusError, LotusNoSectors, LotusDeadline,
     PollEvaluate, PollSample, PollLaunch, ProofWaitEnds, ReleaseMonitor,
     WinDetected, WinInDatabase, ClaimGeneration, TimerFires, TimerResumes
<1> QED
  BY <1>1, <1>2, <1>3

\* The flag stays a Boolean.
LEMMA NextFlag == TypeOK /\ [Next]_vars => proofMonitorActive' \in BOOLEAN
<1> SUFFICES ASSUME TypeOK, [Next]_vars PROVE proofMonitorActive' \in BOOLEAN
  OBVIOUS
<1>1. \/ proofMonitorActive' = TRUE
      \/ proofMonitorActive' = FALSE
      \/ proofMonitorActive' = proofMonitorActive
  BY DEF Next, vars, PollStep, MonitorStep, WinStep, Apply, LotusAnswers,
     Transition, TransitionUnless, Recheck, Refresh, Record, Broadcast,
     PollTick, PollCheckState, LotusError, LotusNoSectors, LotusDeadline,
     PollEvaluate, PollSample, PollLaunch, ProofWaitEnds, MarkProofCompleted,
     ReleaseMonitor, FlagAfterMonitor, WinDetected, WinInDatabase,
     ClaimGeneration, TimerFires, TimerResumes
<1> QED
  BY <1>1 DEF TypeOK

Rest == VarTypes /\ PollControl /\ MonitorControl /\ WinControl

\* The types and control facts that a step of any process preserves.
LEMMA NextRest == Rest /\ [Next]_vars => Rest'
<1> SUFFICES ASSUME Rest, [Next]_vars PROVE Rest'
  OBVIOUS
<1> USE ProcessesAreDistinct, ConfigAssumption
    DEF Rest, VarTypes, PollControl, MonitorControl, WinControl, PollDecision,
        Proc, Label, ApplyLabel, GpuState, Goto, Call
<1>1. ASSUME NEW p \in Proc, Transition(p) PROVE Rest'
  BY <1>1 DEF Transition
<1>2. ASSUME NEW p \in Proc, TransitionUnless(p) PROVE Rest'
  BY <1>2 DEF TransitionUnless
<1>3. ASSUME NEW p \in Proc, Recheck(p) PROVE Rest'
  BY <1>3 DEF Recheck, AfterRefusal
<1>4. ASSUME NEW p \in Proc, Refresh(p) PROVE Rest'
  BY <1>4 DEF Refresh
<1>5. ASSUME NEW p \in Proc, Record(p) PROVE Rest'
  BY <1>5 DEF Record
<1>6. ASSUME NEW p \in Proc, Broadcast(p) PROVE Rest'
  BY <1>6 DEF Broadcast
<1>7. CASE PollTick
  BY <1>7 DEF PollTick, TickSkipped
<1>8. CASE PollCheckState
  BY <1>8 DEF PollCheckState
<1>9. CASE LotusError
  BY <1>9 DEF LotusError
<1>10. CASE LotusNoSectors
  BY <1>10 DEF LotusNoSectors
<1>11. ASSUME NEW k \in ProofKeys, NEW s \in PollDecision, LotusDeadline(k, s)
       PROVE  Rest'
  BY <1>11 DEF LotusDeadline
<1>12. CASE PollEvaluate
  BY <1>12 DEF PollEvaluate
<1>13. CASE PollSample
  BY <1>13 DEF PollSample
<1>14. CASE PollLaunch
  BY <1>14 DEF PollLaunch
<1>15. ASSUME NEW k \in ProofKeys, ProofWaitEnds(k) PROVE Rest'
  BY <1>15 DEF ProofWaitEnds
<1>16. ASSUME NEW k \in ProofKeys, MarkProofCompleted(k) PROVE Rest'
  BY <1>16 DEF MarkProofCompleted
<1>17. ASSUME NEW k \in ProofKeys, ReleaseMonitor(k) PROVE Rest'
  BY <1>17 DEF ReleaseMonitor, FlagAfterMonitor
<1>18. ASSUME NEW w \in Wins, WinDetected(w) PROVE Rest'
  BY <1>18 DEF WinDetected, TriggerWinningYield
<1>19. ASSUME NEW w \in MonitorWins, WinInDatabase(w) PROVE Rest'
  BY <1>19 DEF WinInDatabase, TriggerWinningYield, Wins
<1>20. ASSUME NEW w \in Wins, ClaimGeneration(w) PROVE Rest'
  BY <1>20 DEF ClaimGeneration
<1>21. ASSUME NEW w \in Wins, TimerFires(w) PROVE Rest'
  BY <1>21 DEF TimerFires
<1>22. ASSUME NEW w \in Wins, TimerResumes(w) PROVE Rest'
  BY <1>22 DEF TimerResumes, WhileProofActive
<1>23. CASE UNCHANGED vars
  BY <1>23 DEF vars
<1> HIDE DEF Rest
<1> QED
  BY <1>1, <1>2, <1>3, <1>4, <1>5, <1>6, <1>7, <1>8, <1>9, <1>10, <1>11, <1>12,
     <1>13, <1>14, <1>15, <1>16, <1>17, <1>18, <1>19, <1>20, <1>21, <1>22, <1>23
  DEF Next, PollStep, MonitorStep, WinStep, Apply, LotusAnswers

\* The exclusion of poll and monitor is inductive.
LEMMA NextExclusion == Control /\ MonitorExclusion /\ [Next]_vars => MonitorExclusion'
<1> SUFFICES ASSUME Control, MonitorExclusion, [Next]_vars PROVE MonitorExclusion'
  OBVIOUS
<1> USE ProcessesAreDistinct, ConfigAssumption, TypeParts
    DEF MonitorExclusion, MonitorLive, Control, VarTypes, PollControl, MonitorControl, WinControl, PollDecision,
        Proc, Label, ApplyLabel, GpuState, Goto, Call
<1>1. ASSUME NEW p \in Proc, Transition(p) PROVE MonitorExclusion'
  BY <1>1 DEF Transition
<1>2. ASSUME NEW p \in Proc, TransitionUnless(p) PROVE MonitorExclusion'
  BY <1>2 DEF TransitionUnless
<1>3. ASSUME NEW p \in Proc, Recheck(p) PROVE MonitorExclusion'
  BY <1>3 DEF Recheck, AfterRefusal
<1>4. ASSUME NEW p \in Proc, Refresh(p) PROVE MonitorExclusion'
  BY <1>4 DEF Refresh
<1>5. ASSUME NEW p \in Proc, Record(p) PROVE MonitorExclusion'
  BY <1>5 DEF Record
<1>6. ASSUME NEW p \in Proc, Broadcast(p) PROVE MonitorExclusion'
  BY <1>6 DEF Broadcast
<1>7. CASE PollTick
  BY <1>7 DEF PollTick, TickSkipped
<1>8. CASE PollCheckState
  BY <1>8 DEF PollCheckState
<1>9. CASE LotusError
  BY <1>9 DEF LotusError
<1>10. CASE LotusNoSectors
  BY <1>10 DEF LotusNoSectors
<1>11. ASSUME NEW k \in ProofKeys, NEW s \in PollDecision, LotusDeadline(k, s)
       PROVE  MonitorExclusion'
  BY <1>11 DEF LotusDeadline
<1>12. CASE PollEvaluate
  BY <1>12 DEF PollEvaluate, NoYieldDue
<1>13. CASE PollSample
  BY <1>13 DEF PollSample
<1>14. CASE PollLaunch
  BY <1>14 DEF PollLaunch
<1>15. ASSUME NEW k \in ProofKeys, ProofWaitEnds(k) PROVE MonitorExclusion'
  BY <1>15 DEF ProofWaitEnds
<1>16. ASSUME NEW k \in ProofKeys, MarkProofCompleted(k) PROVE MonitorExclusion'
  BY <1>16 DEF MarkProofCompleted
<1>17. ASSUME NEW k \in ProofKeys, ReleaseMonitor(k) PROVE MonitorExclusion'
  BY <1>17 DEF ReleaseMonitor, FlagAfterMonitor
<1>18. ASSUME NEW w \in Wins, WinDetected(w) PROVE MonitorExclusion'
  BY <1>18 DEF WinDetected, TriggerWinningYield
<1>19. ASSUME NEW w \in MonitorWins, WinInDatabase(w) PROVE MonitorExclusion'
  BY <1>19 DEF WinInDatabase, TriggerWinningYield, Wins
<1>20. ASSUME NEW w \in Wins, ClaimGeneration(w) PROVE MonitorExclusion'
  BY <1>20 DEF ClaimGeneration
<1>21. ASSUME NEW w \in Wins, TimerFires(w) PROVE MonitorExclusion'
  BY <1>21 DEF TimerFires
<1>22. ASSUME NEW w \in Wins, TimerResumes(w) PROVE MonitorExclusion'
  BY <1>22 DEF TimerResumes, WhileProofActive
<1>23. CASE UNCHANGED vars
  BY <1>23 DEF vars
<1> HIDE DEF MonitorExclusion
<1> QED
  BY <1>1, <1>2, <1>3, <1>4, <1>5, <1>6, <1>7, <1>8, <1>9, <1>10, <1>11, <1>12,
     <1>13, <1>14, <1>15, <1>16, <1>17, <1>18, <1>19, <1>20, <1>21, <1>22, <1>23
  DEF Next, PollStep, MonitorStep, WinStep, Apply, LotusAnswers, PollDecision

\* WINNING_POST keeps an owner.
LEMMA NextOwner == Control /\ WinningHasOwner /\ [Next]_vars => WinningHasOwner'
<1> SUFFICES ASSUME Control, WinningHasOwner, [Next]_vars PROVE WinningHasOwner'
  OBVIOUS
<1> USE ProcessesAreDistinct, ConfigAssumption, TypeParts
    DEF WinningHasOwner, TimerPending, TimerToCome, Control, VarTypes, PollControl, MonitorControl, WinControl, PollDecision,
        Proc, Label, ApplyLabel, GpuState, Goto, Call
<1>1. ASSUME NEW p \in Proc, Transition(p) PROVE WinningHasOwner'
  BY <1>1 DEF Transition
<1>2. ASSUME NEW p \in Proc, TransitionUnless(p) PROVE WinningHasOwner'
  BY <1>2 DEF TransitionUnless
<1>3. ASSUME NEW p \in Proc, Recheck(p) PROVE WinningHasOwner'
  BY <1>3 DEF Recheck, AfterRefusal
<1>4. ASSUME NEW p \in Proc, Refresh(p) PROVE WinningHasOwner'
  BY <1>4 DEF Refresh
<1>5. ASSUME NEW p \in Proc, Record(p) PROVE WinningHasOwner'
  BY <1>5 DEF Record
<1>6. ASSUME NEW p \in Proc, Broadcast(p) PROVE WinningHasOwner'
  BY <1>6 DEF Broadcast
<1>7. CASE PollTick
  BY <1>7 DEF PollTick, TickSkipped
<1>8. CASE PollCheckState
  BY <1>8 DEF PollCheckState
<1>9. CASE LotusError
  BY <1>9 DEF LotusError
<1>10. CASE LotusNoSectors
  BY <1>10 DEF LotusNoSectors
<1>11. ASSUME NEW k \in ProofKeys, NEW s \in PollDecision, LotusDeadline(k, s)
       PROVE  WinningHasOwner'
  BY <1>11 DEF LotusDeadline
<1>12. CASE PollEvaluate
  BY <1>12 DEF PollEvaluate, NoYieldDue
<1>13. CASE PollSample
  BY <1>13 DEF PollSample
<1>14. CASE PollLaunch
  BY <1>14 DEF PollLaunch
<1>15. ASSUME NEW k \in ProofKeys, ProofWaitEnds(k) PROVE WinningHasOwner'
  BY <1>15 DEF ProofWaitEnds
<1>16. ASSUME NEW k \in ProofKeys, MarkProofCompleted(k) PROVE WinningHasOwner'
  BY <1>16 DEF MarkProofCompleted
<1>17. ASSUME NEW k \in ProofKeys, ReleaseMonitor(k) PROVE WinningHasOwner'
  BY <1>17 DEF ReleaseMonitor, FlagAfterMonitor
<1>18. ASSUME NEW w \in Wins, WinDetected(w) PROVE WinningHasOwner'
  BY <1>18 DEF WinDetected, TriggerWinningYield
<1>19. ASSUME NEW w \in MonitorWins, WinInDatabase(w) PROVE WinningHasOwner'
  BY <1>19 DEF WinInDatabase, TriggerWinningYield, Wins
<1>20. ASSUME NEW w \in Wins, ClaimGeneration(w) PROVE WinningHasOwner'
  BY <1>20 DEF ClaimGeneration
<1>21. ASSUME NEW w \in Wins, TimerFires(w) PROVE WinningHasOwner'
  BY <1>21 DEF TimerFires
<1>22. ASSUME NEW w \in Wins, TimerResumes(w) PROVE WinningHasOwner'
  BY <1>22 DEF TimerResumes, WhileProofActive
<1>23. CASE UNCHANGED vars
  BY <1>23 DEF vars
<1> HIDE DEF WinningHasOwner
<1> QED
  BY <1>1, <1>2, <1>3, <1>4, <1>5, <1>6, <1>7, <1>8, <1>9, <1>10, <1>11, <1>12,
     <1>13, <1>14, <1>15, <1>16, <1>17, <1>18, <1>19, <1>20, <1>21, <1>22, <1>23
  DEF Next, PollStep, MonitorStep, WinStep, Apply, LotusAnswers, PollDecision

\* completedProofs grows only while a monitor runs, when the poll is idle.
LEMMA NextYieldDue ==
    Control /\ MonitorExclusion /\ YieldIsStillDue /\ [Next]_vars => YieldIsStillDue'
<1> SUFFICES ASSUME Control, MonitorExclusion, YieldIsStillDue, [Next]_vars
              PROVE YieldIsStillDue'
  OBVIOUS
<1> USE ProcessesAreDistinct, ConfigAssumption, TypeParts
    DEF YieldIsStillDue, MonitorExclusion, MonitorLive, Control, VarTypes, PollControl, MonitorControl, WinControl, PollDecision,
        Proc, Label, ApplyLabel, GpuState, Goto, Call
<1>1. ASSUME NEW p \in Proc, Transition(p) PROVE YieldIsStillDue'
  BY <1>1 DEF Transition
<1>2. ASSUME NEW p \in Proc, TransitionUnless(p) PROVE YieldIsStillDue'
  BY <1>2 DEF TransitionUnless
<1>3. ASSUME NEW p \in Proc, Recheck(p) PROVE YieldIsStillDue'
  BY <1>3 DEF Recheck, AfterRefusal
<1>4. ASSUME NEW p \in Proc, Refresh(p) PROVE YieldIsStillDue'
  BY <1>4 DEF Refresh
<1>5. ASSUME NEW p \in Proc, Record(p) PROVE YieldIsStillDue'
  BY <1>5 DEF Record
<1>6. ASSUME NEW p \in Proc, Broadcast(p) PROVE YieldIsStillDue'
  BY <1>6 DEF Broadcast
<1>7. CASE PollTick
  BY <1>7 DEF PollTick, TickSkipped
<1>8. CASE PollCheckState
  BY <1>8 DEF PollCheckState
<1>9. CASE LotusError
  BY <1>9 DEF LotusError
<1>10. CASE LotusNoSectors
  BY <1>10 DEF LotusNoSectors
<1>11. ASSUME NEW k \in ProofKeys, NEW s \in PollDecision, LotusDeadline(k, s)
       PROVE  YieldIsStillDue'
  BY <1>11 DEF LotusDeadline
<1>12. CASE PollEvaluate
  BY <1>12 DEF PollEvaluate, NoYieldDue
<1>13. CASE PollSample
  BY <1>13 DEF PollSample
<1>14. CASE PollLaunch
  BY <1>14 DEF PollLaunch
<1>15. ASSUME NEW k \in ProofKeys, ProofWaitEnds(k) PROVE YieldIsStillDue'
  BY <1>15 DEF ProofWaitEnds
<1>16. ASSUME NEW k \in ProofKeys, MarkProofCompleted(k) PROVE YieldIsStillDue'
  <2>1. proofMonitorActive
    BY <1>16 DEF MarkProofCompleted
  <2>2. pc[Poll] = "idle"
    BY <2>1
  <2>3. pc'[Poll] = "idle"
    BY <1>16, <2>2 DEF MarkProofCompleted
  <2> QED
    BY <2>3
<1>17. ASSUME NEW k \in ProofKeys, ReleaseMonitor(k) PROVE YieldIsStillDue'
  BY <1>17 DEF ReleaseMonitor, FlagAfterMonitor
<1>18. ASSUME NEW w \in Wins, WinDetected(w) PROVE YieldIsStillDue'
  BY <1>18 DEF WinDetected, TriggerWinningYield
<1>19. ASSUME NEW w \in MonitorWins, WinInDatabase(w) PROVE YieldIsStillDue'
  BY <1>19 DEF WinInDatabase, TriggerWinningYield, Wins
<1>20. ASSUME NEW w \in Wins, ClaimGeneration(w) PROVE YieldIsStillDue'
  BY <1>20 DEF ClaimGeneration
<1>21. ASSUME NEW w \in Wins, TimerFires(w) PROVE YieldIsStillDue'
  BY <1>21 DEF TimerFires
<1>22. ASSUME NEW w \in Wins, TimerResumes(w) PROVE YieldIsStillDue'
  BY <1>22 DEF TimerResumes, WhileProofActive
<1>23. CASE UNCHANGED vars
  BY <1>23 DEF vars
<1> HIDE DEF YieldIsStillDue
<1> QED
  BY <1>1, <1>2, <1>3, <1>4, <1>5, <1>6, <1>7, <1>8, <1>9, <1>10, <1>11, <1>12,
     <1>13, <1>14, <1>15, <1>16, <1>17, <1>18, <1>19, <1>20, <1>21, <1>22, <1>23
  DEF Next, PollStep, MonitorStep, WinStep, Apply, LotusAnswers, PollDecision

IInv ==
    /\ Control
    /\ MonitorExclusion
    /\ WinningHasOwner
    /\ YieldIsStillDue

\* The invariant holds when the scheduler starts (New).
LEMMA InitIInv == Init => IInv
<1> SUFFICES ASSUME Init PROVE IInv
  OBVIOUS
<1>1. Control
  BY InitControl
<1>2. MonitorExclusion
  BY DEF Init, MonitorExclusion, MonitorLive, Proc
<1>3. WinningHasOwner
  BY DEF Init, WinningHasOwner
<1>4. YieldIsStillDue
  BY DEF Init, YieldIsStillDue
<1> QED
  BY <1>1, <1>2, <1>3, <1>4 DEF IInv

\* Every step preserves the invariant.
LEMMA NextIInv == IInv /\ [Next]_vars => IInv'
<1> SUFFICES ASSUME IInv, [Next]_vars PROVE IInv'
  OBVIOUS
<1>1. TypeOK /\ Rest
  BY TypeParts DEF IInv, Control, Rest
<1>2. ProofSetOK' /\ proofMonitorActive' \in BOOLEAN /\ Rest'
  BY <1>1, NextProofSet, NextFlag, NextRest
<1>3. TypeOK'
  BY <1>2 DEF Rest, TypeOK, ProofSetOK, VarTypes
<1>4. Control'
  BY <1>2, <1>3 DEF Rest, Control
<1> QED
  BY <1>4, NextExclusion, NextOwner, NextYieldDue DEF IInv

\* IInv is an invariant of the scheduler.
LEMMA SpecIInv == Spec => []IInv
  BY InitIInv, NextIInv, PTL DEF Spec

\* Every variable of the scheduler keeps its type, and completedProofs its
\* bound, whatever the goroutines' interleaving.
THEOREM TypeCorrect == Spec => []TypeOK
<1>1. IInv => TypeOK
  BY DEF IInv, Control
<1> QED
  BY <1>1, SpecIInv, PTL

\* The poll evaluation and the proof monitor never overlap, and at most one
\* proof monitor runs: proofMonitorActive is a lock held by the monitor.
THEOREM MonitorExcluded == Spec => []MonitorExclusion
<1>1. IInv => MonitorExclusion
  BY DEF IInv
<1> QED
  BY <1>1, SpecIInv, PTL

\* For any number of overlapping wins, WINNING_POST always has a trigger or a
\* current resume timer that will end it.
THEOREM WinningOwned == Spec => []WinningHasOwner
<1>1. IInv => WinningHasOwner
  BY DEF IInv
<1> QED
  BY <1>1, SpecIInv, PTL

\* The GPU is never yielded for a proof that is already complete.
THEOREM NoYieldAfterProof == Spec => []YieldIsStillDue
<1>1. IInv => YieldIsStillDue
  BY DEF IInv
<1> QED
  BY <1>1, SpecIInv, PTL

\* WINNING_POST is ended by a pending resume timer or by the fail-safe's own
\* step, whatever the poll, the proof monitor and other wins do meanwhile.
THEOREM WinningProtected == Spec => OnlyTimersEndWinning
<1> DEFINE Ended ==
      \/ FailSafeApplies /\ pc'[Poll] # pc[Poll]
      \/ \E w \in Wins : TimerPending(w) /\ pc'[w] # pc[w]
<1>1. ASSUME IInv, [Next]_vars
      PROVE [sm = "WINNING_POST" /\ sm' # "WINNING_POST" => Ended]_vars
  <2> SUFFICES ASSUME sm = "WINNING_POST", sm' # "WINNING_POST" PROVE Ended
    OBVIOUS
  <2>1. PICK p \in Proc : Transition(p)
    BY <1>1 DEF Next, vars, PollStep, MonitorStep, WinStep, Apply, LotusAnswers,
       TransitionUnless, Refused, Recheck, Refresh, Record, Broadcast, PollTick,
       PollCheckState, LotusError, LotusNoSectors, LotusDeadline, PollEvaluate,
       PollSample, PollLaunch, ProofWaitEnds, MarkProofCompleted, ReleaseMonitor,
       WinDetected, WinInDatabase, ClaimGeneration, TimerFires, TimerResumes, Proc
  <2>2. decision[p] # "WINNING_POST" /\ pc[p] = "transition"
    BY <2>1 DEF Transition
  <2>3. pc'[p] # pc[p]
    BY <2>1, <2>2, <1>1 DEF Transition, Goto, IInv, Control, TypeOK
  <2>4. CASE p = Poll
    BY <2>2, <2>3, <2>4, <1>1 DEF FailSafeApplies, IInv, Control, PollControl
  <2>5. CASE p \in ProofKeys
    BY <2>2, <2>5, <1>1 DEF IInv, Control, MonitorControl
  <2>6. CASE p \in Wins
    <3>1. TimerPending(p)
      BY <2>2, <2>6, <1>1 DEF TimerPending, IInv, Control, WinControl, ApplyLabel
    <3> QED
      BY <3>1, <2>3, <2>6
  <2> QED
    BY <2>4, <2>5, <2>6 DEF Proc
<1> QED
  BY <1>1, SpecIInv, PTL DEF Spec, OnlyTimersEndWinning
=============================================================================
