----------------------------- MODULE ProofWait ------------------------------
(***************************************************************************)
(* Waiting for the proof of a deadline (curio/client.go): Curio creates a  *)
(* row of wdpost_proofs for each partition and fills it in when the        *)
(* partition's proof is computed; WaitForProofComplete polls the rows      *)
(* until all that it finds are filled in, or until MaxWait has passed.     *)
(***************************************************************************)
EXTENDS Naturals, FiniteSets

CONSTANTS
    Partitions,     \* of the deadline
    RowsUpFront,    \* whether Curio creates all rows before it computes a proof
    MaxWait,        \* in poll intervals
    MaxErrors       \* bound: queries that fail or time out

ASSUME ProofWaitAssumption ==
    /\ IsFiniteSet(Partitions) /\ Partitions # {}
    /\ RowsUpFront \in BOOLEAN
    /\ MaxWait \in Nat \ {0}
    /\ MaxErrors \in Nat

VARIABLES
    created,        \* partitions with a row
    proved,         \* partitions whose row has proof_params
    wait,           \* "first" (check before the first tick), "polling", and how
                    \* WaitForProofComplete returned: "done", "timeout", "cancelled"
    elapsed,        \* poll intervals since the call
    errors

vars == <<created, proved, wait, elapsed, errors>>

Init ==
    /\ created = {}
    /\ proved = {}
    /\ wait = "first"
    /\ elapsed = 0
    /\ errors = 0

-----------------------------------------------------------------------------
Create(p) ==
    /\ p \notin created
    /\ created' = created \cup {p}
    /\ UNCHANGED <<proved, wait, elapsed, errors>>

Prove(p) ==
    /\ p \in created \ proved
    /\ RowsUpFront => created = Partitions
    /\ proved' = proved \cup {p}
    /\ UNCHANGED <<created, wait, elapsed, errors>>

-----------------------------------------------------------------------------
\* Mutant: no rows count as a complete proof.
IsProofCompleteOfNone == Cardinality(proved) = Cardinality(created)

\* IsProofComplete: there are rows, and as many are filled in.
IsProofComplete ==
    /\ Cardinality(created) # 0
    /\ Cardinality(proved) = Cardinality(created)

\* A query answers, or fails: a failure is not an answer.
Query(complete, incomplete) ==
    \/ wait' = (IF IsProofComplete THEN complete ELSE incomplete) /\ UNCHANGED errors
    \/ errors < MaxErrors /\ errors' = errors + 1 /\ wait' = incomplete

\* Mutant: the timeout is set anew at every tick.
CountedSinceTick(t) == 0

\* The time that counts towards the timeout when a tick comes at time t.
Counted(t) == t

FirstCheck ==
    /\ wait = "first"
    /\ Query("done", "polling")
    /\ UNCHANGED <<created, proved, elapsed>>

\* The ticker may win over a timeout that is due.
Tick ==
    /\ wait = "polling"
    /\ elapsed <= MaxWait
    /\ elapsed' = Counted(elapsed) + 1
    /\ Query("done", "polling")
    /\ UNCHANGED <<created, proved>>

Timeout ==
    /\ wait = "polling"
    /\ elapsed >= MaxWait
    /\ wait' = "timeout"
    /\ UNCHANGED <<created, proved, elapsed, errors>>

\* ctx.Done: the scheduler stops.
Cancel ==
    /\ wait = "polling"
    /\ wait' = "cancelled"
    /\ UNCHANGED <<created, proved, elapsed, errors>>

Next ==
    \/ \E p \in Partitions : Create(p) \/ Prove(p)
    \/ FirstCheck
    \/ Tick
    \/ Timeout
    \/ Cancel

Spec == Init /\ [][Next]_vars

\* Time passes: the first check returns (dbQueryTimeout), ticks come, and a due
\* timeout is taken in the end.
FairSpec == Spec /\ WF_vars(FirstCheck) /\ WF_vars(Tick) /\ WF_vars(Timeout)

-----------------------------------------------------------------------------
(* Properties.                                                             *)

\* The wait reports a complete proof only when every partition is proved.
DoneMeansAllProved == wait = "done" => proved = Partitions

\* The wait returns, whatever Curio and its database do.
WaitReturns == <>(wait \in {"done", "timeout", "cancelled"})
=============================================================================
