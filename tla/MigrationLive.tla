--------------------------- MODULE MigrationLive ---------------------------
(***************************************************************************)
(* Recovery by re-running `caravan transfer`, as the readme recommends     *)
(* after an interruption.  The operator keeps giving the command and says  *)
(* yes to the prompt sooner or later; a run is killed, or fails or is      *)
(* stopped with Ctrl-C, at most MaxFaults times.  The storage is sound:    *)
(* copies arrive as they were sent and stay.                               *)
(***************************************************************************)
EXTENDS Migration

CONSTANTS
    MaxFaults,          \* how often a run is interrupted, at most
    InterruptsDeletion  \* whether also after the first file was removed

ASSUME MaxFaultsAssumption == MaxFaults \in Nat
ASSUME InterruptsAssumption == InterruptsDeletion \in BOOLEAN

VARIABLE faults  \* interruptions so far

liveVars == <<vars, faults>>

LiveInit == Init /\ faults = 0

Rerun == StartTransfer /\ UNCHANGED faults
Proceed == SessionStep /\ UNCHANGED faults
SayYes == Approve /\ UNCHANGED faults

Interrupt ==
    /\ faults < MaxFaults
    /\ InterruptsDeletion \/ src = File
    /\ Abort \/ Crash
    /\ faults' = faults + 1

LiveNext == Rerun \/ Proceed \/ Interrupt

(* The process keeps running until it is interrupted; the operator re-runs *)
(* a command that has ended, and does not say no for ever.                 *)
LiveSpec ==
    /\ LiveInit
    /\ [][LiveNext]_liveVars
    /\ WF_liveVars(Rerun)
    /\ WF_liveVars(Proceed)
    /\ SF_liveVars(SayYes)

-----------------------------------------------------------------------------
(* Re-running the command after every interruption completes the migration *)
(* in the end: no interruption leaves a state the next run refuses or runs *)
(* in circles on (readme.md, "Automatic Resume Feature").                  *)
RerunningCompletes ==
    <>(disk # NoState /\ disk.phase = "Completed" /\ src = {})
=============================================================================
