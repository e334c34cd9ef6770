----------------------------- MODULE EventStream -----------------------------
(***************************************************************************)
(* The events of one deadline on their way to the subscribers              *)
(* (scheduler.go, grpcapi/server.go).  Two goroutines change the state and *)
(* broadcast: the one that yields for the deadline, waits for its proof    *)
(* (ProofWait) and resumes, and the one of a win and its timer.  A         *)
(* broadcast puts the event into the buffered channel of each subscriber,  *)
(* under subMu; SubscribeScheduleEvents sends it on.                       *)
(***************************************************************************)
EXTENDS ProofWait, Sequences

CONSTANTS
    Subscribers,
    Capacity        \* of a channel (32)

ASSUME EventStreamAssumption == Capacity \in Nat \ {0}

\* The decisions each goroutine applies, one after the other.
Decisions ==
    [window |-> <<"YIELDING", "WINDOW_POST", "AVAILABLE">>,
     win    |-> <<"WINNING_POST", "AVAILABLE">>]

Producers == DOMAIN Decisions

VARIABLES
    state,      \* sm.current
    next,       \* the index of each producer's next decision
    sending,    \* "no", "due" (the state is changed) or "now" (subMu is read-locked)
    todo,       \* subscribers the broadcast has not reached
    registered, \* subscribers
    spc,        \* a subscriber's RPC: "none", "subscribed", "initial" (its first event
                \* is ready), "streaming" or "over"
    channel,
    seen,       \* the state in the last event sent to it, or about to be
    dropped,    \* history: an event found its channel full
    overlapped  \* history: a state changed before an earlier change was broadcast

proof == <<created, proved, wait, elapsed, errors>>
producers == <<state, next, sending, todo, overlapped>>
streams == <<registered, spc, channel, seen, dropped>>
evars == <<proof, producers, streams>>

EInit ==
    /\ Init
    /\ state = "AVAILABLE"
    /\ next = [p \in Producers |-> 1]
    /\ sending = [p \in Producers |-> "no"]
    /\ todo = [p \in Producers |-> {}]
    /\ registered = {}
    /\ spc = [s \in Subscribers |-> "none"]
    /\ channel = [s \in Subscribers |-> << >>]
    /\ seen = [s \in Subscribers |-> "none"]
    /\ dropped = [s \in Subscribers |-> FALSE]
    /\ overlapped = FALSE

-----------------------------------------------------------------------------
(* The producers.                                                          *)

\* The proof monitor runs from the hard yield to the resume of its deadline.
MonitorActive == next["window"] = 3

ProofStep(Step) == Step /\ UNCHANGED <<producers, streams>>

WaitStep(Step) == MonitorActive /\ ProofStep(Step)

CurioStep == \E p \in Partitions : Create(p) \/ Prove(p)

\* The resume of a deadline comes when the wait is over, whatever its result; the
\* resume of a win when no proof monitor runs.
Due(p, decision) ==
    decision = "AVAILABLE" =>
        IF p = "window" THEN wait \in {"done", "timeout", "cancelled"} ELSE ~MonitorActive

\* applyDecision, and applyDecisionUnlessWinning for the deadline.
NoChange(p, decision) == state = decision \/ (p = "window" /\ state = "WINNING_POST")

Apply(p) ==
    /\ sending[p] = "no"
    /\ next[p] <= Len(Decisions[p])
    /\ LET decision == Decisions[p][next[p]] IN
         /\ Due(p, decision)
         /\ IF NoChange(p, decision)
              THEN /\ next' = [next EXCEPT ![p] = @ + 1]
                   /\ UNCHANGED <<state, sending, overlapped>>
              ELSE /\ state' = decision
                   /\ sending' = [sending EXCEPT ![p] = "due"]
                   /\ overlapped' = (overlapped \/ \E q \in Producers : sending[q] # "no")
                   /\ UNCHANGED next
    /\ UNCHANGED <<proof, todo, streams>>

BroadcastBegins(p) ==
    /\ sending[p] = "due"
    /\ sending' = [sending EXCEPT ![p] = "now"]
    /\ todo' = [todo EXCEPT ![p] = registered]
    /\ UNCHANGED <<proof, state, next, overlapped, streams>>

\* Mutant: only subscribers that have got their initial event are sent to.
ReachesStreaming(s) == spc[s] = "streaming"

\* Every channel in the map is sent to.
Reaches(s) == TRUE

\* The send does not wait: a full channel loses the event.
SendTo(p, s) ==
    /\ s \in todo[p]
    /\ todo' = [todo EXCEPT ![p] = @ \ {s}]
    /\ IF ~Reaches(s) THEN UNCHANGED <<channel, dropped>>
       ELSE IF Len(channel[s]) < Capacity
         THEN /\ channel' = [channel EXCEPT ![s] = Append(@, Decisions[p][next[p]])]
              /\ UNCHANGED dropped
         ELSE /\ dropped' = [dropped EXCEPT ![s] = TRUE]
              /\ UNCHANGED channel
    /\ UNCHANGED <<proof, state, next, sending, overlapped, registered, spc, seen>>

BroadcastEnds(p) ==
    /\ sending[p] = "now"
    /\ todo[p] = {}
    /\ sending' = [sending EXCEPT ![p] = "no"]
    /\ next' = [next EXCEPT ![p] = @ + 1]
    /\ UNCHANGED <<proof, state, todo, overlapped, streams>>

-----------------------------------------------------------------------------
(* SubscribeScheduleEvents.                                                *)

\* subMu.Lock waits for the broadcasts under way.
SubscribersUnlocked == \A p \in Producers : sending[p] # "now"

Subscribe(s) ==
    /\ spc[s] = "none"
    /\ SubscribersUnlocked
    /\ spc' = [spc EXCEPT ![s] = "subscribed"]
    /\ registered' = registered \cup {s}
    /\ channel' = [channel EXCEPT ![s] = << >>]
    /\ dropped' = [dropped EXCEPT ![s] = FALSE]
    /\ UNCHANGED <<proof, producers, seen>>

\* The initial event tells the state after the subscription, ...
ReadInitial(s) ==
    /\ spc[s] = "subscribed"
    /\ spc' = [spc EXCEPT ![s] = "initial"]
    /\ seen' = [seen EXCEPT ![s] = state]
    /\ UNCHANGED <<proof, producers, registered, channel, dropped>>

\* ... and goes out before what has been queued meanwhile.
SendInitial(s) ==
    /\ spc[s] = "initial"
    /\ spc' = [spc EXCEPT ![s] = "streaming"]
    /\ UNCHANGED <<proof, producers, registered, channel, seen, dropped>>

SendEvent(s) ==
    /\ spc[s] = "streaming"
    /\ channel[s] # << >>
    /\ seen' = [seen EXCEPT ![s] = Head(channel[s])]
    /\ channel' = [channel EXCEPT ![s] = Tail(@)]
    /\ UNCHANGED <<proof, producers, registered, spc, dropped>>

\* The subscriber disconnects, or a Send fails.
Disconnect(s) ==
    /\ spc[s] \in {"initial", "streaming"}
    /\ spc' = [spc EXCEPT ![s] = "over"]
    /\ UNCHANGED <<proof, producers, registered, channel, seen, dropped>>

Unsubscribe(s) ==
    /\ spc[s] = "over"
    /\ SubscribersUnlocked
    /\ spc' = [spc EXCEPT ![s] = "none"]
    /\ registered' = registered \ {s}
    /\ UNCHANGED <<proof, producers, channel, seen, dropped>>

-----------------------------------------------------------------------------
ProducerStep(p) ==
    \/ Apply(p)
    \/ BroadcastBegins(p)
    \/ \E s \in Subscribers : SendTo(p, s)
    \/ BroadcastEnds(p)

HandlerStep(s) == ReadInitial(s) \/ SendInitial(s) \/ SendEvent(s)

ENext ==
    \/ ProofStep(CurioStep)
    \/ WaitStep(FirstCheck \/ Tick \/ Timeout \/ Cancel)
    \/ \E p \in Producers : ProducerStep(p)
    \/ \E s \in Subscribers :
         Subscribe(s) \/ HandlerStep(s) \/ Disconnect(s) \/ Unsubscribe(s)

ESpec == EInit /\ [][ENext]_evars

\* The wait goes on as in ProofWait, goroutines that can run do, and a subscriber
\* that stays reads its stream.
EFairness ==
    /\ WF_evars(WaitStep(FirstCheck))
    /\ WF_evars(WaitStep(Tick))
    /\ WF_evars(WaitStep(Timeout))
    /\ \A p \in Producers : WF_evars(ProducerStep(p))
    /\ \A s \in Subscribers : WF_evars(HandlerStep(s))

EFairSpec == ESpec /\ EFairness

-----------------------------------------------------------------------------
(* Properties.                                                             *)

\* A subscriber that stays is told of the resume in the end, however its
\* subscription, its initial event and the queued ones fall in with the yields,
\* the proof wait and a win.  Its channel must not have overflowed, nor two
\* changes of the state been broadcast in the other order.
ResumeReachesSubscribers ==
    \A s \in Subscribers :
        <>[](spc[s] = "streaming" /\ ~dropped[s] /\ ~overlapped)
            => <>[](seen[s] = "AVAILABLE")

\* The same for a subscriber whose channel may have been full, as "stream events
\* to the Python inference service" would have it.
ResumeReachesSlowSubscribers ==
    \A s \in Subscribers :
        <>[](spc[s] = "streaming" /\ ~overlapped) => <>[](seen[s] = "AVAILABLE")
=============================================================================
