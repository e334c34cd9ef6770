--------------------------- MODULE EngineContract ---------------------------
(***************************************************************************)
(* What one inference engine promises to its callers, whatever pauses,     *)
(* resumes, switches and crashes overlap inside it (the interface          *)
(* InferenceEngine of py-inference/src/inference/engine.py):               *)
(*                                                                         *)
(*   - it is available only while the model loaded is the model it names;  *)
(*   - a model is loaded only onto a GPU on which no core is left;         *)
(*   - the name changes, and a core is let go of, only while it is not     *)
(*     available.                                                          *)
(*                                                                         *)
(* Engine implements this specification; ApiServer is built on it.         *)
(***************************************************************************)
EXTENDS Naturals

CONSTANTS
    Models,
    ConfiguredModel,    \* the model the process starts with
    NONE

ASSUME ContractAssumption == ConfiguredModel \in Models /\ NONE \notin Models

VARIABLES
    core,       \* the model the engine has created a core for, or NONE
    name,       \* current_model
    open,       \* is_available
    vram        \* a live core holds the GPU's memory

contract == <<core, name, open, vram>>

\* The process starts, with the model loaded or with the engine paused.
Started(c, n, o, v) ==
    /\ n = ConfiguredModel
    /\ \/ c = n /\ o = TRUE /\ v = TRUE
       \/ c = NONE /\ o = FALSE /\ v = FALSE

CInit == Started(core, name, open, vram)

-----------------------------------------------------------------------------
Close ==
    /\ open
    /\ open' = FALSE
    /\ UNCHANGED <<core, name, vram>>

Open ==
    /\ ~open
    /\ core = name
    /\ open' = TRUE
    /\ UNCHANGED <<core, name, vram>>

Load ==
    /\ core = NONE
    /\ ~vram
    /\ core' = name
    /\ vram' = TRUE
    /\ UNCHANGED <<name, open>>

\* The engine lets go of its core, which holds the memory until it has exited.
Detach ==
    /\ ~open
    /\ core # NONE
    /\ core' = NONE
    /\ UNCHANGED <<name, open, vram>>

\* The core is gone: it was let go of, or it has crashed.
CoreExits ==
    /\ vram
    /\ vram' = FALSE
    /\ UNCHANGED <<core, name, open>>

Rename(m) ==
    /\ ~open
    /\ name' = m
    /\ UNCHANGED <<core, open, vram>>

ProcessRestarts == Started(core', name', open', vram')

CNext ==
    \/ Close
    \/ Open
    \/ Load
    \/ Detach
    \/ CoreExits
    \/ \E m \in Models : Rename(m)
    \/ ProcessRestarts

CSpec == CInit /\ [][CNext]_contract
=============================================================================
