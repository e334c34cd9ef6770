------------------------- MODULE EventStreamProofs -------------------------
(***************************************************************************)
(* Proofs about EventStream.tla, and about the proof wait within it, for   *)
(* any number of partitions, subscribers, failed queries and queued        *)
(* events, and any MaxWait.                                                *)
(*                                                                         *)
(* The argument for the streams: while no two changes of the state         *)
(* overlap, a broadcast under way carries the very state that is in force; *)
(* so each subscriber either is still to be sent to, or has the state as   *)
(* the last event of its channel, or, with nothing queued, has seen it.    *)
(***************************************************************************)
EXTENDS EventStream, FiniteSetTheorems, SequenceTheorems, TLAPS

-----------------------------------------------------------------------------
(* The proof wait.                                                         *)

\* Rows are of the deadline's partitions, and are filled in once they are there;
\* with all rows up front, the first one that is filled in has all others beside it.
RowsFit ==
    /\ created \subseteq Partitions
    /\ proved \subseteq created
    /\ RowsUpFront /\ proved # {} => created = Partitions

WaitIInv == RowsFit /\ (RowsUpFront => DoneMeansAllProved)

\* As many filled-in rows as rows are all the rows.
LEMMA CompleteIsAll ==
    ASSUME RowsFit, IsProofComplete
    PROVE  proved = created /\ proved # {}
<1>1. IsFiniteSet(created) /\ IsFiniteSet(proved)
  BY ProofWaitAssumption, FS_Subset DEF RowsFit
<1>2. proved = created
  BY <1>1, FS_Subset DEF RowsFit, IsProofComplete
<1>3. proved # {}
  BY <1>2, FS_EmptySet DEF IsProofComplete
<1> QED
  BY <1>2, <1>3

\* A query that answers "done" has found all partitions proved.
LEMMA QueryIsTrue ==
    ASSUME WaitIInv, Query("done", "polling"), UNCHANGED <<created, proved>>
    PROVE  WaitIInv'
<1>1. RowsFit'
  BY DEF WaitIInv, RowsFit
<1>2. ASSUME wait' = "done", RowsUpFront PROVE proved' = Partitions
  <2>1. IsProofComplete
    BY <1>2 DEF Query
  <2>2. proved = created /\ proved # {}
    BY <2>1, CompleteIsAll DEF WaitIInv
  <2> QED
    BY <1>2, <2>2 DEF WaitIInv, RowsFit
<1> QED
  BY <1>1, <1>2 DEF WaitIInv, DoneMeansAllProved

\* A wait starts with nothing proved.
LEMMA WaitInit == Init => WaitIInv
BY DEF Init, WaitIInv, RowsFit, DoneMeansAllProved

\* No step of Curio or of the wait breaks the invariant.
LEMMA WaitNext == WaitIInv /\ [Next]_vars => WaitIInv'
<1> SUFFICES ASSUME WaitIInv, [Next]_vars PROVE WaitIInv'
  OBVIOUS
<1>1. ASSUME NEW p \in Partitions, Create(p) PROVE WaitIInv'
  BY <1>1 DEF Create, WaitIInv, RowsFit, DoneMeansAllProved
<1>2. ASSUME NEW p \in Partitions, Prove(p) PROVE WaitIInv'
  BY <1>2 DEF Prove, WaitIInv, RowsFit, DoneMeansAllProved
<1>3. CASE FirstCheck
  BY <1>3, QueryIsTrue DEF FirstCheck
<1>4. CASE Tick
  BY <1>4, QueryIsTrue DEF Tick
<1>5. CASE Timeout
  BY <1>5 DEF Timeout, WaitIInv, RowsFit, DoneMeansAllProved
<1>6. CASE Cancel
  BY <1>6 DEF Cancel, WaitIInv, RowsFit, DoneMeansAllProved
<1>7. CASE UNCHANGED vars
  BY <1>7 DEF vars, WaitIInv, RowsFit, DoneMeansAllProved
<1> QED
  BY <1>1, <1>2, <1>3, <1>4, <1>5, <1>6, <1>7 DEF Next

\* The wait as such: if Curio creates all rows before it computes a proof, a wait
\* that reports a complete proof has every partition proved, whatever queries fail.
THEOREM WaitDoneIsProved ==
    ASSUME RowsUpFront
    PROVE  Spec => []DoneMeansAllProved
<1>1. WaitIInv => DoneMeansAllProved
  BY DEF WaitIInv
<1>2. Spec => []WaitIInv
  BY WaitInit, WaitNext, PTL DEF Spec
<1> QED
  BY <1>1, <1>2, PTL

\* A step of the scheduler with its subscribers is one of the wait, or none.
LEMMA StreamStepIsWaits == [ENext]_evars => [Next]_vars
<1> SUFFICES ASSUME [ENext]_evars PROVE Next \/ UNCHANGED vars
  OBVIOUS
<1>1. CASE ProofStep(CurioStep)
  BY <1>1 DEF ProofStep, CurioStep, Next
<1>2. CASE WaitStep(FirstCheck \/ Tick \/ Timeout \/ Cancel)
  BY <1>2 DEF WaitStep, ProofStep, Next
<1>3. ASSUME NEW p \in Producers, ProducerStep(p) PROVE UNCHANGED vars
  BY <1>3 DEF ProducerStep, Apply, BroadcastBegins, SendTo, BroadcastEnds, proof, vars
<1>4. ASSUME NEW s \in Subscribers,
             Subscribe(s) \/ HandlerStep(s) \/ Disconnect(s) \/ Unsubscribe(s)
      PROVE  UNCHANGED vars
  BY <1>4 DEF Subscribe, HandlerStep, ReadInitial, SendInitial, SendEvent, Disconnect,
              Unsubscribe, proof, vars
<1>5. CASE UNCHANGED evars
  BY <1>5 DEF evars, proof, vars
<1> QED
  BY <1>1, <1>2, <1>3, <1>4, <1>5 DEF ENext

\* EventStream runs the wait of ProofWait, whatever its subscribers do.
THEOREM StreamsRunTheWait == ESpec => Spec
<1>1. EInit => Init
  BY DEF EInit
<1> QED
  BY <1>1, StreamStepIsWaits, PTL DEF ESpec, Spec

\* The same of the wait within EventStream, on whose end the GPU goes back to
\* inference: "done" is reported only when every partition is proved.
THEOREM DoneIsProved ==
    ASSUME RowsUpFront
    PROVE  ESpec => []DoneMeansAllProved
BY WaitDoneIsProved, StreamsRunTheWait

-----------------------------------------------------------------------------
(* The streams.                                                            *)

States == {"AVAILABLE", "YIELDING", "WINDOW_POST", "WINNING_POST"}

\* The event of the producer's broadcast.
Event(p) == Decisions[p][next[p]]

\* A broadcast of the present state has yet to reach the subscriber.
Pending(s) ==
    \E p \in Producers : sending[p] = "due" \/ (sending[p] = "now" /\ s \in todo[p])

Newest(s) == channel[s][Len(channel[s])]

\* What a subscriber will have seen when its queue is empty is the state in force,
\* or a broadcast will tell it.
StreamsUpToDate ==
    \A s \in Subscribers :
        spc[s] \in {"initial", "streaming"} /\ ~dropped[s] /\ ~overlapped /\ ~Pending(s)
            => state = IF channel[s] = << >> THEN seen[s] ELSE Newest(s)

StreamTypes ==
    /\ next \in [Producers -> Nat \ {0}]
    /\ sending \in [Producers -> {"no", "due", "now"}]
    /\ \A p \in Producers : sending[p] # "no" => Event(p) \in States
    /\ todo \in [Producers -> SUBSET registered]
    /\ registered \subseteq Subscribers
    /\ spc \in [Subscribers -> {"none", "subscribed", "initial", "streaming", "over"}]
    /\ channel \in [Subscribers -> Seq(States)]
    /\ seen \in [Subscribers -> States \cup {"none"}]
    /\ state \in States
    /\ dropped \in [Subscribers -> BOOLEAN]
    /\ \A s \in Subscribers : s \in registered <=> spc[s] # "none"

\* While nothing has overlapped, one change at most is being broadcast, and it is
\* that of the state in force.
OneAtATime ==
    ~overlapped =>
        /\ \A p, q \in Producers : sending[p] # "no" /\ sending[q] # "no" => p = q
        /\ \A p \in Producers : sending[p] # "no" => state = Event(p)

\* What has yet to be sent belongs to a broadcast under way.
TodoIsSending == \A p \in Producers : todo[p] # {} => sending[p] = "now"

\* Of a subscriber that has been sent to, or has nothing queued.
Queued ==
    \A s \in Subscribers :
        s \in registered /\ ~dropped[s] /\ ~overlapped /\ ~Pending(s) =>
            /\ channel[s] # << >> => state = Newest(s)
            /\ channel[s] = << >> /\ spc[s] \in {"initial", "streaming"} => state = seen[s]

StreamIInv == StreamTypes /\ OneAtATime /\ TodoIsSending /\ Queued

\* What a producer decides is a state.
LEMMA DecisionIsState ==
    ASSUME NEW p \in Producers, NEW i \in Nat \ {0}, i <= Len(Decisions[p])
    PROVE  Decisions[p][i] \in States
<1>1. CASE p = "window"
  BY <1>1 DEF Decisions, States
<1>2. CASE p = "win"
  BY <1>2 DEF Decisions, States
<1> QED
  BY <1>1, <1>2 DEF Producers, Decisions

\* The end and the rest of a queue.
LEMMA QueueEnds ==
    ASSUME NEW q \in Seq(States), NEW d \in States
    PROVE  /\ Append(q, d) \in Seq(States) /\ Append(q, d) # << >>
           /\ Append(q, d)[Len(Append(q, d))] = d
           /\ q # << >> =>
                /\ Head(q) \in States /\ Tail(q) \in Seq(States)
                /\ Tail(q) = << >> => q[Len(q)] = Head(q)
                /\ Tail(q) # << >> => Tail(q)[Len(Tail(q))] = q[Len(q)]
<1>1. Append(q, d) \in Seq(States) /\ Len(Append(q, d)) = Len(q) + 1
      /\ Append(q, d)[Len(q) + 1] = d /\ Len(q) \in Nat
  BY AppendProperties
<1>2. Append(q, d) # << >>
  BY <1>1
<1>3. ASSUME q # << >>
      PROVE  /\ Head(q) \in States /\ Tail(q) \in Seq(States)
             /\ Tail(q) = << >> => q[Len(q)] = Head(q)
             /\ Tail(q) # << >> => Tail(q)[Len(Tail(q))] = q[Len(q)]
  <2>1. /\ Len(q) \in Nat /\ Len(q) # 0 /\ Head(q) = q[1] /\ Head(q) \in States
        /\ Tail(q) \in Seq(States) /\ Len(Tail(q)) = Len(q) - 1
        /\ \A i \in 1..Len(Tail(q)) : Tail(q)[i] = q[i + 1]
    BY <1>3, HeadTailProperties
  <2>2. Tail(q) = << >> => Len(q) = 1
    BY <2>1
  <2>3. Tail(q) # << >> => Len(Tail(q)) \in 1..Len(Tail(q))
    BY <2>1
  <2> QED
    BY <2>1, <2>2, <2>3
<1> QED
  BY <1>1, <1>2, <1>3

\* A decision is applied, or changes nothing.
LEMMA ApplyKeeps ==
    ASSUME StreamIInv, NEW p \in Producers, Apply(p)
    PROVE  StreamIInv'
<1> DEFINE decision == Decisions[p][next[p]]
<1>1. /\ StreamTypes /\ OneAtATime /\ TodoIsSending /\ Queued
      /\ sending[p] = "no" /\ next[p] \in Nat /\ next[p] <= Len(Decisions[p])
      /\ UNCHANGED <<todo, registered, spc, channel, seen, dropped>>
  BY DEF StreamIInv, StreamTypes, Apply, streams
<1>2. CASE next' = [next EXCEPT ![p] = @ + 1] /\ UNCHANGED <<state, sending, overlapped>>
  <2>1. \A q \in Producers : sending[q] # "no" => next'[q] = next[q] /\ Event(q)' = Event(q)
    BY <1>1, <1>2 DEF StreamTypes, Event
  <2>2. next' \in [Producers -> Nat \ {0}]
    BY <1>1, <1>2 DEF StreamTypes
  <2>3. \A s : Pending(s)' <=> Pending(s)
    BY <1>1, <1>2 DEF Pending
  <2>4. StreamTypes'
    BY <1>1, <1>2, <2>1, <2>2 DEF StreamTypes
  <2>5. OneAtATime' /\ TodoIsSending'
    BY <1>1, <1>2, <2>1 DEF OneAtATime, TodoIsSending
  <2>6. Queued'
    BY <1>1, <1>2, <2>3 DEF Queued, Newest
  <2> QED
    BY <2>4, <2>5, <2>6 DEF StreamIInv
<1>3. CASE /\ state' = decision
           /\ sending' = [sending EXCEPT ![p] = "due"]
           /\ overlapped' = (overlapped \/ \E q \in Producers : sending[q] # "no")
           /\ UNCHANGED next
  <2>1. /\ sending'[p] = "due" /\ \A q \in Producers : q # p => sending'[q] = sending[q]
        /\ sending' \in [Producers -> {"no", "due", "now"}]
        /\ \A q \in Producers : Event(q)' = Event(q)
    BY <1>1, <1>3 DEF StreamTypes, Event
  <2>2. Event(p) = decision /\ decision \in States
    <3>1. next[p] \in Nat \ {0}
      BY <1>1 DEF StreamTypes
    <3> QED
      BY <1>1, <3>1, DecisionIsState DEF Event
  <2>3. StreamTypes'
    BY <1>1, <1>3, <2>1, <2>2 DEF StreamTypes
  <2>4. OneAtATime'
    BY <1>1, <1>3, <2>1, <2>2 DEF OneAtATime
  <2>5. TodoIsSending'
    BY <1>1, <2>1 DEF TodoIsSending
  <2>6. \A s : Pending(s)'
    BY <2>1 DEF Pending
  <2>7. Queued'
    BY <2>6 DEF Queued
  <2> QED
    BY <2>3, <2>4, <2>5, <2>7 DEF StreamIInv
<1> QED
  BY <1>2, <1>3 DEF Apply

\* subMu is read-locked.
LEMMA BroadcastBeginsKeeps ==
    ASSUME StreamIInv, NEW p \in Producers, BroadcastBegins(p)
    PROVE  StreamIInv'
<1>1. /\ StreamTypes /\ OneAtATime /\ TodoIsSending /\ Queued
      /\ sending[p] = "due" /\ sending' = [sending EXCEPT ![p] = "now"]
      /\ todo' = [todo EXCEPT ![p] = registered]
      /\ UNCHANGED <<state, next, overlapped, registered, spc, channel, seen, dropped>>
  BY DEF StreamIInv, BroadcastBegins, streams
<1>2. /\ sending'[p] = "now" /\ \A q \in Producers : q # p => sending'[q] = sending[q]
      /\ sending' \in [Producers -> {"no", "due", "now"}]
      /\ todo'[p] = registered /\ \A q \in Producers : q # p => todo'[q] = todo[q]
      /\ todo' \in [Producers -> SUBSET registered]
      /\ \A q \in Producers : Event(q)' = Event(q)
  BY <1>1 DEF StreamTypes, Event
<1>3. StreamTypes'
  BY <1>1, <1>2 DEF StreamTypes
<1>4. OneAtATime'
  BY <1>1, <1>2 DEF OneAtATime
<1>5. TodoIsSending'
  BY <1>1, <1>2 DEF TodoIsSending
<1>6. \A s \in Subscribers : s \in registered => Pending(s)'
  BY <1>2 DEF Pending
<1>7. Queued'
  BY <1>1, <1>6 DEF Queued
<1> QED
  BY <1>3, <1>4, <1>5, <1>7 DEF StreamIInv

\* All subscribers have been sent to.
LEMMA BroadcastEndsKeeps ==
    ASSUME StreamIInv, NEW p \in Producers, BroadcastEnds(p)
    PROVE  StreamIInv'
<1>1. /\ StreamTypes /\ OneAtATime /\ TodoIsSending /\ Queued
      /\ sending[p] = "now" /\ todo[p] = {} /\ sending' = [sending EXCEPT ![p] = "no"]
      /\ next' = [next EXCEPT ![p] = @ + 1]
      /\ UNCHANGED <<state, todo, overlapped, registered, spc, channel, seen, dropped>>
  BY DEF StreamIInv, BroadcastEnds, streams
<1>2. /\ sending'[p] = "no"
      /\ \A q \in Producers : q # p => sending'[q] = sending[q] /\ Event(q)' = Event(q)
      /\ sending' \in [Producers -> {"no", "due", "now"}]
      /\ next' \in [Producers -> Nat \ {0}]
  BY <1>1 DEF StreamTypes, Event
<1>3. StreamTypes'
  BY <1>1, <1>2 DEF StreamTypes
<1>4. OneAtATime'
  BY <1>1, <1>2 DEF OneAtATime
<1>5. TodoIsSending'
  BY <1>1, <1>2 DEF TodoIsSending
<1>6. ASSUME NEW s, Pending(s) PROVE Pending(s)'
  <2>1. PICK q \in Producers : sending[q] = "due" \/ (sending[q] = "now" /\ s \in todo[q])
    BY <1>6 DEF Pending
  <2>2. q # p
    BY <1>1, <2>1
  <2> QED
    BY <1>1, <1>2, <2>1, <2>2 DEF Pending
<1>7. Queued'
  BY <1>1, <1>6 DEF Queued, Newest
<1> QED
  BY <1>3, <1>4, <1>5, <1>7 DEF StreamIInv

\* A subscriber's channel gets the event, or is full.
LEMMA SendToKeeps ==
    ASSUME StreamIInv, NEW p \in Producers, NEW r \in Subscribers, SendTo(p, r)
    PROVE  StreamIInv'
<1>1. /\ StreamTypes /\ OneAtATime /\ TodoIsSending /\ Queued
      /\ r \in todo[p] /\ todo' = [todo EXCEPT ![p] = @ \ {r}]
      /\ (\/ /\ channel' = [channel EXCEPT ![r] = Append(@, Event(p))]
             /\ dropped' = dropped
          \/ dropped' = [dropped EXCEPT ![r] = TRUE] /\ channel' = channel)
      /\ UNCHANGED <<state, next, sending, overlapped, registered, spc, seen>>
  BY DEF StreamIInv, SendTo, Reaches, Event
<1>2. sending[p] = "now" /\ Event(p) \in States
  BY <1>1 DEF TodoIsSending, StreamTypes
<1>3. /\ todo'[p] = todo[p] \ {r} /\ \A q \in Producers : q # p => todo'[q] = todo[q]
      /\ todo' \in [Producers -> SUBSET registered]
      /\ \A q \in Producers : Event(q)' = Event(q)
  BY <1>1 DEF StreamTypes, Event
<1>4. /\ \A s \in Subscribers : s # r => channel'[s] = channel[s] /\ dropped'[s] = dropped[s]
      /\ channel' \in [Subscribers -> Seq(States)]
      /\ dropped' \in [Subscribers -> BOOLEAN]
      /\ dropped'[r] \/ channel'[r] = Append(channel[r], Event(p))
  <2>1. CASE channel' = [channel EXCEPT ![r] = Append(@, Event(p))] /\ dropped' = dropped
    <3>1. Append(channel[r], Event(p)) \in Seq(States)
      BY <1>1, <1>2, QueueEnds DEF StreamTypes
    <3> QED
      BY <1>1, <2>1, <3>1 DEF StreamTypes
  <2>2. CASE dropped' = [dropped EXCEPT ![r] = TRUE] /\ channel' = channel
    BY <1>1, <2>2 DEF StreamTypes
  <2> QED
    BY <1>1, <2>1, <2>2
<1>5. StreamTypes'
  BY <1>1, <1>3, <1>4 DEF StreamTypes
<1>6. OneAtATime'
  BY <1>1, <1>3 DEF OneAtATime
<1>7. TodoIsSending'
  BY <1>1, <1>2, <1>3 DEF TodoIsSending
<1>8. ASSUME NEW s \in Subscribers, s # r, Pending(s) PROVE Pending(s)'
  <2>1. PICK q \in Producers : sending[q] = "due" \/ (sending[q] = "now" /\ s \in todo[q])
    BY <1>8 DEF Pending
  <2>2. s \in todo[q] => s \in todo'[q]
    BY <1>3, <1>8
  <2> QED
    BY <1>1, <2>1, <2>2 DEF Pending
<1>9. Queued'
  <2> SUFFICES ASSUME NEW s \in Subscribers,
                      s \in registered, ~dropped'[s], ~overlapped, ~Pending(s)'
               PROVE  /\ channel'[s] # << >> => state = channel'[s][Len(channel'[s])]
                      /\ channel'[s] = << >> /\ spc[s] \in {"initial", "streaming"}
                           => state = seen[s]
    BY <1>1 DEF Queued, Newest
  <2>1. CASE s # r
    BY <1>1, <1>4, <1>8, <2>1 DEF Queued, Newest
  <2>2. CASE s = r
    <3>1. channel'[r] = Append(channel[r], Event(p)) /\ channel[r] \in Seq(States)
      BY <1>1, <1>4, <2>2 DEF StreamTypes
    <3>2. channel'[r] # << >> /\ channel'[r][Len(channel'[r])] = Event(p)
      BY <1>2, <3>1, QueueEnds
    <3>3. state = Event(p)
      BY <1>1, <1>2 DEF OneAtATime
    <3> QED
      BY <2>2, <3>2, <3>3
  <2> QED
    BY <2>1, <2>2
<1> QED
  BY <1>5, <1>6, <1>7, <1>9 DEF StreamIInv

\* A new subscriber.
LEMMA SubscribeKeeps ==
    ASSUME StreamIInv, NEW r \in Subscribers, Subscribe(r)
    PROVE  StreamIInv'
<1>1. /\ StreamTypes /\ OneAtATime /\ TodoIsSending /\ Queued
      /\ spc' = [spc EXCEPT ![r] = "subscribed"] /\ registered' = registered \cup {r}
      /\ channel' = [channel EXCEPT ![r] = << >>]
      /\ dropped' = [dropped EXCEPT ![r] = FALSE]
      /\ UNCHANGED <<state, next, sending, todo, overlapped, seen>>
  BY DEF StreamIInv, Subscribe, producers
<1>2. /\ \A s \in Subscribers : s # r =>
            channel'[s] = channel[s] /\ dropped'[s] = dropped[s] /\ spc'[s] = spc[s]
      /\ channel'[r] = << >> /\ spc'[r] = "subscribed"
      /\ \A q \in Producers : Event(q)' = Event(q)
  BY <1>1 DEF StreamTypes, Event
<1>3. StreamTypes'
  <2>1. << >> \in Seq(States)
    OBVIOUS
  <2>2. channel' \in [Subscribers -> Seq(States)] /\ dropped' \in [Subscribers -> BOOLEAN]
    BY <1>1, <2>1 DEF StreamTypes
  <2>3. todo' \in [Producers -> SUBSET registered']
    BY <1>1 DEF StreamTypes
  <2>4. spc' \in [Subscribers -> {"none", "subscribed", "initial", "streaming", "over"}]
    BY <1>1 DEF StreamTypes
  <2> QED
    BY <1>1, <1>2, <2>2, <2>3, <2>4 DEF StreamTypes
<1>4. OneAtATime' /\ TodoIsSending'
  BY <1>1, <1>2 DEF OneAtATime, TodoIsSending
<1>5. \A s : Pending(s)' <=> Pending(s)
  BY <1>1 DEF Pending
<1>6. Queued'
  BY <1>1, <1>2, <1>5 DEF Queued, Newest
<1> QED
  BY <1>3, <1>4, <1>6 DEF StreamIInv

\* A step of a subscriber's RPC that leaves the producers and the channels alone,
\* and may read the state.
LEMMA HandlerKeeps ==
    ASSUME StreamIInv, NEW r \in Subscribers, NEW to,
           to \in {"subscribed", "initial", "streaming", "over"}, spc[r] # "none",
           spc' = [spc EXCEPT ![r] = to],
           \/ UNCHANGED seen /\ (to \in {"initial", "streaming"}
                                  => spc[r] \in {"initial", "streaming"})
           \/ seen' = [seen EXCEPT ![r] = state],
           UNCHANGED <<producers, registered, channel, dropped>>
    PROVE  StreamIInv'
<1>1. /\ StreamTypes /\ OneAtATime /\ TodoIsSending /\ Queued
      /\ UNCHANGED <<state, next, sending, todo, overlapped, registered, channel, dropped>>
  BY DEF StreamIInv, producers
<1>2. /\ spc' \in [Subscribers -> {"none", "subscribed", "initial", "streaming", "over"}]
      /\ seen' \in [Subscribers -> States \cup {"none"}]
      /\ \A s \in Subscribers : s # r => spc'[s] = spc[s] /\ seen'[s] = seen[s]
      /\ spc'[r] = to
      /\ \A q \in Producers : Event(q)' = Event(q)
  BY <1>1 DEF StreamTypes, Event
<1>3. StreamTypes'
  BY <1>1, <1>2 DEF StreamTypes
<1>4. OneAtATime' /\ TodoIsSending'
  BY <1>1, <1>2 DEF OneAtATime, TodoIsSending
<1>5. \A s : Pending(s)' <=> Pending(s)
  BY <1>1 DEF Pending
<1>6. Queued'
  <2> SUFFICES ASSUME NEW s \in Subscribers,
                      s \in registered, ~dropped[s], ~overlapped, ~Pending(s)
               PROVE  /\ channel[s] # << >> => state = Newest(s)
                      /\ channel[s] = << >> /\ spc'[s] \in {"initial", "streaming"}
                           => state = seen'[s]
    BY <1>1, <1>5 DEF Queued, Newest
  <2>1. CASE s # r
    BY <1>1, <1>2, <2>1 DEF Queued
  <2>2. CASE s = r
    <3>1. channel[s] # << >> => state = Newest(s)
      BY <1>1 DEF Queued
    <3>2. CASE seen' = [seen EXCEPT ![r] = state]
      BY <1>1, <2>2, <3>1, <3>2 DEF StreamTypes
    <3>3. CASE UNCHANGED seen /\ (to \in {"initial", "streaming"}
                                    => spc[r] \in {"initial", "streaming"})
      BY <1>1, <1>2, <2>2, <3>1, <3>3 DEF Queued
    <3> QED
      BY <3>2, <3>3
  <2> QED
    BY <2>1, <2>2
<1> QED
  BY <1>3, <1>4, <1>6 DEF StreamIInv

\* A queued event goes out.
LEMMA SendEventKeeps ==
    ASSUME StreamIInv, NEW r \in Subscribers, SendEvent(r)
    PROVE  StreamIInv'
<1>1. /\ StreamTypes /\ OneAtATime /\ TodoIsSending /\ Queued /\ channel[r] # << >>
      /\ seen' = [seen EXCEPT ![r] = Head(channel[r])]
      /\ channel' = [channel EXCEPT ![r] = Tail(@)]
      /\ UNCHANGED <<state, next, sending, todo, overlapped, registered, spc, dropped>>
  BY DEF StreamIInv, SendEvent, producers
<1>2. /\ Head(channel[r]) \in States /\ Tail(channel[r]) \in Seq(States)
      /\ Tail(channel[r]) = << >> => Newest(r) = Head(channel[r])
      /\ Tail(channel[r]) # << >> => Tail(channel[r])[Len(Tail(channel[r]))] = Newest(r)
  <2>1. channel[r] \in Seq(States)
    BY <1>1 DEF StreamTypes
  <2>2. PICK d : d \in States
    BY DEF States
  <2> QED
    BY <1>1, <2>1, <2>2, QueueEnds DEF Newest
<1>3. /\ \A s \in Subscribers : s # r => channel'[s] = channel[s] /\ seen'[s] = seen[s]
      /\ channel'[r] = Tail(channel[r]) /\ seen'[r] = Head(channel[r])
      /\ channel' \in [Subscribers -> Seq(States)]
      /\ seen' \in [Subscribers -> States \cup {"none"}]
      /\ \A q \in Producers : Event(q)' = Event(q)
  BY <1>1, <1>2 DEF StreamTypes, Event
<1>4. StreamTypes'
  BY <1>1, <1>3 DEF StreamTypes
<1>5. OneAtATime' /\ TodoIsSending'
  BY <1>1, <1>3 DEF OneAtATime, TodoIsSending
<1>6. \A s : Pending(s)' <=> Pending(s)
  BY <1>1 DEF Pending
<1>7. Queued'
  <2> SUFFICES ASSUME NEW s \in Subscribers,
                      s \in registered, ~dropped[s], ~overlapped, ~Pending(s)
               PROVE  /\ channel'[s] # << >> => state = channel'[s][Len(channel'[s])]
                      /\ channel'[s] = << >> /\ spc[s] \in {"initial", "streaming"}
                           => state = seen'[s]
    BY <1>1, <1>6 DEF Queued, Newest
  <2>1. CASE s # r
    BY <1>1, <1>3, <2>1 DEF Queued, Newest
  <2>2. CASE s = r
    <3>1. state = Newest(r)
      BY <1>1, <2>2 DEF Queued
    <3> QED
      BY <1>2, <1>3, <2>2, <3>1
  <2> QED
    BY <2>1, <2>2
<1> QED
  BY <1>4, <1>5, <1>7 DEF StreamIInv

\* The subscriber's channel is taken out of the map.
LEMMA UnsubscribeKeeps ==
    ASSUME StreamIInv, NEW r \in Subscribers, Unsubscribe(r)
    PROVE  StreamIInv'
<1>1. /\ StreamTypes /\ OneAtATime /\ TodoIsSending /\ Queued
      /\ \A p \in Producers : sending[p] # "now"
      /\ spc' = [spc EXCEPT ![r] = "none"] /\ registered' = registered \ {r}
      /\ UNCHANGED <<state, next, sending, todo, overlapped, channel, seen, dropped>>
  BY DEF StreamIInv, Unsubscribe, SubscribersUnlocked, producers
<1>2. /\ \A s \in Subscribers : s # r => spc'[s] = spc[s]
      /\ spc'[r] = "none"
      /\ spc' \in [Subscribers -> {"none", "subscribed", "initial", "streaming", "over"}]
      /\ \A q \in Producers : Event(q)' = Event(q)
  BY <1>1 DEF StreamTypes, Event
<1>3. \A p \in Producers : todo[p] = {}
  BY <1>1 DEF TodoIsSending
<1>4. StreamTypes'
  <2>1. todo' \in [Producers -> SUBSET registered']
    BY <1>1, <1>3 DEF StreamTypes
  <2> QED
    BY <1>1, <1>2, <2>1 DEF StreamTypes
<1>5. OneAtATime' /\ TodoIsSending'
  BY <1>1, <1>2 DEF OneAtATime, TodoIsSending
<1>6. \A s : Pending(s)' <=> Pending(s)
  BY <1>1 DEF Pending
<1>7. Queued'
  BY <1>1, <1>2, <1>6 DEF Queued, Newest
<1> QED
  BY <1>4, <1>5, <1>7 DEF StreamIInv

\* What changes nothing but the wait.
LEMMA StreamsStay ==
    ASSUME StreamIInv, UNCHANGED <<producers, streams>>
    PROVE  StreamIInv'
<1>1. /\ StreamTypes /\ OneAtATime /\ TodoIsSending /\ Queued
      /\ UNCHANGED <<state, next, sending, todo, overlapped, registered, spc, channel, seen,
                     dropped>>
  BY DEF StreamIInv, producers, streams
<1>2. \A s : (Pending(s)' <=> Pending(s)) /\ Newest(s)' = Newest(s) /\ Event(s)' = Event(s)
  BY <1>1 DEF Pending, Newest, Event
<1>3. StreamTypes'
  BY <1>1, <1>2 DEF StreamTypes
<1>4. OneAtATime' /\ TodoIsSending' /\ Queued'
  BY <1>1, <1>2 DEF OneAtATime, TodoIsSending, Queued
<1> QED
  BY <1>3, <1>4 DEF StreamIInv

\* Before a subscriber arrives the queues are empty and nothing is being sent.
LEMMA StreamInit == EInit => StreamIInv
<1> SUFFICES ASSUME EInit PROVE StreamIInv
  OBVIOUS
<1>1. << >> \in Seq(States) /\ "AVAILABLE" \in States
  BY DEF States
<1>2. StreamTypes
  BY <1>1 DEF EInit, StreamTypes
<1>3. OneAtATime /\ TodoIsSending /\ Queued
  BY DEF EInit, OneAtATime, TodoIsSending, Queued
<1> QED
  BY <1>2, <1>3 DEF StreamIInv

\* Every step of the server keeps the invariant of its streams.
LEMMA StreamNext == StreamIInv /\ [ENext]_evars => StreamIInv'
<1> SUFFICES ASSUME StreamIInv, [ENext]_evars PROVE StreamIInv'
  OBVIOUS
<1>1. CASE ProofStep(CurioStep)
  BY <1>1, StreamsStay DEF ProofStep
<1>2. CASE WaitStep(FirstCheck \/ Tick \/ Timeout \/ Cancel)
  BY <1>2, StreamsStay DEF WaitStep, ProofStep
<1>3. ASSUME NEW p \in Producers, ProducerStep(p) PROVE StreamIInv'
  BY <1>3, ApplyKeeps, BroadcastBeginsKeeps, SendToKeeps, BroadcastEndsKeeps DEF ProducerStep
<1>4. ASSUME NEW s \in Subscribers, HandlerStep(s) \/ Disconnect(s) PROVE StreamIInv'
  <2>1. CASE ReadInitial(s)
    BY <2>1, HandlerKeeps DEF ReadInitial
  <2>2. CASE SendInitial(s)
    BY <2>2, HandlerKeeps DEF SendInitial
  <2>3. CASE Disconnect(s)
    BY <2>3, HandlerKeeps DEF Disconnect
  <2> QED
    BY <1>4, <2>1, <2>2, <2>3, SendEventKeeps DEF HandlerStep
<1>5. CASE UNCHANGED evars
  BY <1>5, StreamsStay DEF evars
<1> QED
  BY <1>1, <1>2, <1>3, <1>4, <1>5, SubscribeKeeps, UnsubscribeKeeps DEF ENext

\* For any number of subscribers that come and go in the midst of broadcasts, and
\* any capacity: unless its channel has overflowed or two changes of the state have
\* overlapped, the newest event that a subscriber has seen or queued is the state in
\* force, or a broadcast that will tell it is under way.  The initial event, read
\* after Subscribe and sent before what is queued, leaves no gap.
THEOREM SubscribersAreUpToDate == ESpec => []StreamsUpToDate
<1>1. StreamIInv => StreamsUpToDate
  BY DEF StreamIInv, StreamTypes, Queued, StreamsUpToDate
<1> QED
  BY <1>1, StreamInit, StreamNext, PTL DEF ESpec
=============================================================================
