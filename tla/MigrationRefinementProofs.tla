--------------------- MODULE MigrationRefinementProofs ---------------------
(***************************************************************************)
(* The proof that Migration implements SafeMove, for every plan, every set *)
(* of commands and every snapshot cadence.  It rests on the inductive      *)
(* invariant in the states before and after a step.                        *)
(***************************************************************************)
EXTENDS MigrationRefinement, MigrationProofs

(* At first everything is at the source and nothing is committed. *)
LEMMA InitRefines == Init => Move!Init
  BY InitialDestinationAssumption DEF Init, Move!Init, Arrived, Committed, Foreign, Checked

(* A step that removes a source file is a release of that file, or of none *)
(* that is checked.                                                        *)
LEMMA RemovalRefines ==
    ASSUME Inv, [Next]_vars, src' # src
    PROVE  [Move!Next]_(Move!moveVars)
  <1>1. PICK f \in todo : RemoveFile(f)
    BY FileWriters
  <1>2. /\ disk # NoState /\ FullyApproved(disk) /\ f \in File
        /\ \A b \in Batch : disk.batch[b].phase \in VerifiedPhase
    <2>1. mem # NoState /\ disk = mem /\ cur \in Batch /\ mem.batch[cur].approved
          /\ \A b \in Batch : Verified(mem, b)
      BY <1>1 DEF RemoveFile, Inv, LoopSound, BatchWork, Checkpointed, AtWork
    <2>2. f \in File
      BY <1>1 DEF Inv, TypeOK
    <2>3. QED
      BY <2>1, <2>2 DEF Inv, StatesSound, StateSound, FullyApproved, Verified
  <1>3. UNCHANGED <<dst, disk>> /\ src' = src \ {f}
    BY <1>1 DEF RemoveFile
  <1>4. UNCHANGED Arrived /\ Committed /\ Committed'
    BY <1>2, <1>3 DEF Arrived, Committed, FullyApproved
  <1>5. CASE f \in Checked
    <2>1. Move!Release(f)
      BY <1>3, <1>4 DEF Move!Release
    <2>2. QED
      BY <1>5, <2>1 DEF Move!Next
  <1>6. CASE f \notin Checked
    BY <1>3, <1>4, <1>6 DEF Move!moveVars, Committed
  <1>7. QED
    BY <1>5, <1>6

(* A step that writes or clears a destination path happens before the      *)
(* commit, and changes at most whether that one file has arrived.          *)
LEMMA WriteRefines ==
    ASSUME Inv, ~ Drift, [Next]_vars, dst' # dst
    PROVE  [Move!Next]_(Move!moveVars)
  <1>1. dst \in [File -> DestFile] /\ todo \subseteq File
    BY DEF Inv, TypeOK
  <1>2. PICK f \in File, r \in DestFile :
           /\ dst' = [dst EXCEPT ![f] = r]
           /\ UNCHANGED <<src, disk>>
           /\ ~ Committed
    <2>1. CASE \E g \in todo, r \in {"Equal", "Corrupt"} : CopyFile(g, r)
      <3>1. PICK g \in todo, r \in {"Equal", "Corrupt"} : CopyFile(g, r)
        BY <2>1
      <3>2. cur \in Batch /\ disk.batch[cur].phase = "CopyStarted" /\ src = File
        BY <3>1 DEF CopyFile, Inv, LoopSound, BatchWork, Checkpointed, AtWork, SourceSound,
                    BeforeDeletion
      <3>3. disk.batch[cur].phase \notin VerifiedPhase
        BY <3>2 DEF VerifiedPhase
      <3>4. ~ Committed
        BY <3>2, <3>3 DEF Committed
      <3>5. QED
        BY <1>1, <3>1, <3>4 DEF CopyFile, DestFile
    <2>2. CASE \E g \in File : OperatorClears(g)
      <3>1. PICK g \in File : OperatorClears(g)
        BY <2>2
      <3>2. BatchOf[g] \in Batch
        BY BatchOfAssumption
      <3>3. ~ Committed
        BY <3>1, <3>2 DEF OperatorClears, Committed, FullyApproved
      <3>4. QED
        BY <3>1, <3>3 DEF OperatorClears, DestFile
    <2>3. QED
      BY <2>1, <2>2, FileWriters DEF LoseCopy
  <1>3. ~ Committed' /\ UNCHANGED Committed
    BY <1>2 DEF Committed, FullyApproved
  <1>4. CASE f \in Checked /\ r = "Equal"
    <2>1. Arrived' = Arrived \cup {f}
      BY <1>1, <1>2, <1>4 DEF Arrived, Checked
    <2>2. Move!Arrive(f)
      BY <1>2, <1>3, <2>1 DEF Move!Arrive
    <2>3. QED
      BY <1>4, <2>2 DEF Move!Next
  <1>5. CASE f \in Checked /\ r # "Equal"
    <2>1. Arrived' = Arrived \ {f}
      BY <1>1, <1>2, <1>5 DEF Arrived, Checked
    <2>2. Move!Spoil(f)
      BY <1>2, <1>3, <2>1 DEF Move!Spoil
    <2>3. QED
      BY <1>5, <2>2 DEF Move!Next
  <1>6. CASE f \notin Checked
    <2>1. UNCHANGED Arrived
      BY <1>1, <1>2, <1>6 DEF Arrived, Checked
    <2>2. QED
      BY <1>2, <1>3, <2>1 DEF Move!moveVars
  <1>7. QED
    BY <1>4, <1>5, <1>6

(* A step that leaves the files alone stutters, commits or withdraws: the  *)
(* invariant after it says all files are there for a new commit, and that  *)
(* the source is whole when there is none.                                 *)
LEMMA RecordRefines ==
    ASSUME Inv, Inv', ~ Drift, UNCHANGED <<src, dst>>
    PROVE  [Move!Next]_(Move!moveVars)
  <1>1. UNCHANGED Arrived
    BY DEF Arrived
  <1>2. CASE Committed'
    <2>1. Arrived = Checked
      <3>1. SUFFICES ASSUME NEW f \in Checked PROVE dst[f] = "Equal"
        BY DEF Arrived
      <3>2. f \in File /\ BatchOf[f] \in Batch /\ f \in FilesOf(BatchOf[f])
        BY BatchOfAssumption DEF FilesOf, Checked
      <3>3. CASE src = File
        <4>1. /\ disk' # NoState /\ disk'.batch[BatchOf[f]].passed
              /\ disk'.batch[BatchOf[f]].phase \in VerifiedPhase
          BY <1>2, <3>2, <3>3 DEF Committed, FullyApproved
        <4>2. PassedIntact(disk)'
          BY <4>1 DEF Inv, StatesSound
        <4>3. \A g \in FilesOf(BatchOf[f]) : Delivered(g)'
          BY <3>2, <4>1, <4>2 DEF PassedIntact
        <4>4. QED
          BY <3>2, <4>3 DEF Delivered
      <3>4. CASE src # File
        BY <3>2, <3>4 DEF Inv, SourceSound, Delivered
      <3>5. QED
        BY <3>3, <3>4
    <2>2. Move!Commit
      BY <1>1, <1>2, <2>1 DEF Move!Commit
    <2>3. QED
      BY <2>2 DEF Move!Next
  <1>3. CASE ~ Committed'
    <2>1. src \cap Checked = Checked
      BY <1>3 DEF Committed, Inv, SourceSound, Checked
    <2>2. Committed' = FALSE
      BY <1>3 DEF Committed
    <2>3. Move!Withdraw
      BY <1>1, <2>1, <2>2 DEF Move!Withdraw
    <2>4. QED
      BY <2>3 DEF Move!Next
  <1>4. QED
    BY <1>2, <1>3

-----------------------------------------------------------------------------
(* A migration is a safe move of the files that verification looks at: no  *)
(* source file of them goes before all have arrived and the record of it   *)
(* is on disk, and nothing that has arrived changes while that stands.     *)
THEOREM MigrationMovesSafely == ASSUME ~ Drift PROVE Spec => MovesSafely
  <1>1. Init => Move!Init
    BY InitRefines
  <1>2. ASSUME ~ Drift
        PROVE  Inv /\ Inv' /\ [Next]_vars => [Move!Next]_(Move!moveVars)
    <2>1. SUFFICES ASSUME Inv, Inv', [Next]_vars
                   PROVE  [Move!Next]_(Move!moveVars)
      OBVIOUS
    <2>2. CASE src' # src
      BY <2>1, <2>2, RemovalRefines
    <2>3. CASE dst' # dst
      BY <1>2, <2>1, <2>3, WriteRefines
    <2>4. CASE UNCHANGED <<src, dst>>
      BY <1>2, <2>1, <2>4, RecordRefines
    <2>5. QED
      BY <2>2, <2>3, <2>4
  <1>3. QED
    BY <1>1, <1>2, InvariantHolds, PTL DEF Spec, MovesSafely, Move!Spec

(* What SafeMove's order is for: before the commit every checked file is   *)
(* at the source, from the commit on every one has arrived.                *)
THEOREM SafeMovesLoseNothing == MovesSafely => []Move!Moved
  <1>1. Move!Init => Move!Moved
    BY DEF Move!Init, Move!Moved
  <1>2. Move!Moved /\ [Move!Next]_(Move!moveVars) => Move!Moved'
    <2>1. SUFFICES ASSUME Move!Moved, [Move!Next]_(Move!moveVars)
                   PROVE  Move!Moved'
      OBVIOUS
    <2>2. CASE Move!Commit \/ Move!Withdraw
      BY <2>1, <2>2 DEF Move!Moved, Move!Commit, Move!Withdraw
    <2>3. CASE \E f \in Checked : Move!Arrive(f) \/ Move!Spoil(f) \/ Move!Release(f)
      BY <2>1, <2>3 DEF Move!Moved, Move!Arrive, Move!Spoil, Move!Release
    <2>4. CASE UNCHANGED Move!moveVars
      BY <2>1, <2>4 DEF Move!Moved, Move!moveVars
    <2>5. QED
      BY <2>1, <2>2, <2>3, <2>4 DEF Move!Next
  <1>3. QED
    BY <1>1, <1>2, PTL DEF MovesSafely, Move!Spec
=============================================================================
