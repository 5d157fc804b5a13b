--------------------------- MODULE FileCopyProofs ---------------------------
(***************************************************************************)
(* Proofs about FileCopy, for every number and size of files, every plan,  *)
(* volume and configuration: what power loss leaves, what the guard        *)
(* promises, what the planner cuts, and how copying serves deletion.       *)
(***************************************************************************)
EXTENDS FileCopy, SumLemmas

USE DEF File, Batch

(* The assumptions on the constants, in one place. *)
LEMMA ConstantsTyped == /\ NumFiles \in Nat /\ Sizes \subseteq Nat
                        /\ Capacity \in Nat /\ MaxOthers \in Nat /\ NoFile \notin Nat
                        /\ Configs \subseteq [mode : {"staging", "migrate"},
                                              strategy : {"auto", "native", "buffered"},
                                              windows : BOOLEAN]
BY NumFilesAssumption, SizesAssumption, CapacityAssumption, MaxOthersAssumption,
   NoFileAssumption, ConfigsAssumption

(* What is above a directory above one is above it. *)
LEMMA DirFacts ==
    /\ \A f \in File : DirOf[f] \in Dir
    /\ \A d \in Dir : /\ Above[d] \subseteq Dir /\ d \in Above[d]
                      /\ \A e \in Above[d] : Above[e] \subseteq Above[d]
    /\ Standing \subseteq Dir
    /\ \A d \in Standing : Above[d] \subseteq Standing
BY DirOfAssumption, AboveAssumption, StandingAssumption

(* Files and directories below unlinked ones are gone, others stay. *)
LEMMA SweptFacts ==
    ASSUME NEW S, NEW names \in [File -> S], NEW lost
    PROVE  \A f \in File : /\ f \in lost => Swept(names, lost)[f] = NoFile
                           /\ f \notin lost => Swept(names, lost)[f] = names[f]
                           /\ Swept(names, lost) \in [File -> S \cup {NoFile}]
BY DEF Swept

(* The invariant holds of a destination no batch was copied to. *)
LEMMA InitSound == Init => CopyInv
<1> SUFFICES ASSUME Init PROVE CopyInv
    OBVIOUS
<1> USE ConstantsTyped DEF Init
<1>1. TypeOK
  <2>1. pc \notin Copying /\ file = 0
        BY DEF Copying
  <2>2. 0 \in 0 .. MaxOthers
        OBVIOUS
  <2>3. made \subseteq Dir /\ entered \subseteq made
        BY DirFacts
  <2> QED BY <2>1, <2>2, <2>3 DEF TypeOK, Content
<1>2. DurableNames
      BY DEF DurableNames
<1>3. CopyProgress /\ RemovedWereVerified
      BY DEF CopyProgress, RemovedWereVerified, Copying
<1> QED BY <1>1, <1>2, <1>3 DEF CopyInv

(* No action needs a bound on files, sizes or space to keep the types. *)
LEMMA KeepsTypes == CopyInv /\ [Next]_vars => TypeOK'
<1> SUFFICES ASSUME CopyInv, [Next]_vars PROVE TypeOK'
    OBVIOUS
<1> USE ConstantsTyped DEF CopyInv, TypeOK, Content, Copying, FilesOf, dirs
<1>1. CASE \E b \in Batch : StartCopy(b) \/ Verify(b)
  <2>1. ASSUME NEW b \in Batch, StartCopy(b) PROVE TypeOK'
    <3>1. todo = {} /\ pc' = "Guard" /\ current' = b
          BY <2>1 DEF StartCopy, CopyProgress
    <3> QED BY <2>1, <3>1 DEF StartCopy, source
  <2>2. CASE \E b \in Batch : Verify(b)
        BY <2>2 DEF Verify, source, command
  <2> QED BY <1>1, <2>1, <2>2
<1>2. CASE CheckSpace
      BY <1>2 DEF CheckSpace, Stop, source, Roots
<1>3. CASE \E f \in File : BeginFile(f) \/ RemoveSource(f)
  <2>1. ASSUME NEW g \in File, BeginFile(g) PROVE TypeOK'
    <3>1. /\ part' \in [File -> Nat \cup {NoFile}]
          /\ \A f \in File : part'[f] \in Content(f)
      <4>1. part' = [part EXCEPT ![g] = 0] /\ 0 \in 0 .. size[g]
            BY <2>1 DEF BeginFile
      <4> QED BY <4>1
    <3>2. made' \subseteq Dir /\ entered' \subseteq made'
      <4>1. made' = made \cup Above[DirOf[g]] /\ entered' = entered
            BY <2>1 DEF BeginFile
      <4>2. Above[DirOf[g]] \subseteq Dir
            BY DirFacts
      <4> QED BY <4>1, <4>2
    <3> QED BY <2>1, <3>1, <3>2 DEF BeginFile, source
  <2>2. CASE \E f \in File : RemoveSource(f)
        BY <2>2 DEF RemoveSource, source, command
  <2> QED BY <1>3, <2>1, <2>2
<1>4. CASE WriteByte \/ FallBack \/ FinishWrite
  <2>1. file \in File /\ part[file] \in 0 .. size[file] /\ size[file] \in Nat
        BY <1>4 DEF WriteByte, FallBack, FinishWrite, CopyProgress
  <2>2. CASE WriteByte
    <3>1. part[file] + 1 \in 0 .. size[file]
          BY <2>1, <2>2 DEF WriteByte
    <3>2. /\ part' \in [File -> Nat \cup {NoFile}]
          /\ \A f \in File : part'[f] \in Content(f)
          BY <2>1, <2>2, <3>1 DEF WriteByte
    <3> QED BY <2>2, <3>2 DEF WriteByte, source, command
  <2>3. CASE FallBack
    <3>1. /\ part' \in [File -> Nat \cup {NoFile}]
          /\ \A f \in File : part'[f] \in Content(f)
          BY <2>1, <2>3 DEF FallBack
    <3> QED BY <2>3, <3>1 DEF FallBack, source
  <2>4. CASE FinishWrite
        BY <2>4 DEF FinishWrite, source
  <2> QED BY <1>4, <2>2, <2>3, <2>4
<1>5. CASE SyncData
      BY <1>5 DEF SyncData, source
<1>6. CASE Rename
  <2>1. file \in File /\ part[file] \in Content(file)
        BY <1>6 DEF Rename
  <2>2. Remains(file) \subseteq Content(file)
        BY <2>1 DEF Remains
  <2>3. /\ final' \in [File -> Nat \cup {NoFile}]
        /\ \A f \in File : final'[f] \in Content(f)
        BY <1>6, <2>1 DEF Rename
  <2>4. /\ durable' \in [File -> SUBSET (Nat \cup {NoFile})]
        /\ \A f \in File : durable'[f] \subseteq Content(f)
        BY <1>6, <2>1, <2>2 DEF Rename
  <2>5. /\ part' \in [File -> Nat \cup {NoFile}]
        /\ \A f \in File : part'[f] \in Content(f)
        BY <1>6, <2>1 DEF Rename
  <2> QED BY <1>6, <2>3, <2>4, <2>5 DEF Rename, source
<1>7. CASE SyncParents
      BY <1>7 DEF SyncParents, source
<1>8. CASE RecordCopy \/ Fail
      BY <1>8 DEF RecordCopy, Fail, Stop, source
<1>9. CASE PowerLoss
  <2>0. PICK unlinked \in SUBSET (made \ entered) :
             LET lost == {f \in File : Above[DirOf[f]] \cap unlinked # {}}
             IN  /\ made' = {d \in made : Above[d] \cap unlinked = {}}
                 /\ \E names \in {g \in [File -> UNION {durable[f] : f \in File}] :
                                    \A f \in File : g[f] \in durable[f]} :
                       final' = Swept(names, lost)
                 /\ durable' = [f \in File |-> {final'[f]}]
                 /\ \/ part' = Swept(part, lost)
                    \/ \E f \in FilesOf(current) : \E n \in 0 .. size[f] :
                          part' = Swept([part EXCEPT ![f] = n], lost)
        BY <1>9 DEF PowerLoss
  <2> DEFINE lost == {f \in File : Above[DirOf[f]] \cap unlinked # {}}
  <2>1. /\ final' \in [File -> Nat \cup {NoFile}]
        /\ \A f \in File : final'[f] \in Content(f)
        BY <2>0 DEF Swept
  <2>2. /\ durable' \in [File -> SUBSET (Nat \cup {NoFile})]
        /\ \A f \in File : durable'[f] \subseteq Content(f)
        BY <2>0, <2>1
  <2>3. /\ part' \in [File -> Nat \cup {NoFile}]
        /\ \A f \in File : part'[f] \in Content(f)
    <3>1. CASE part' = Swept(part, lost)
          BY <3>1 DEF Swept
    <3>2. ASSUME NEW f \in File, NEW n \in 0 .. size[f],
                 part' = Swept([part EXCEPT ![f] = n], lost)
          PROVE  /\ part' \in [File -> Nat \cup {NoFile}]
                 /\ \A g \in File : part'[g] \in Content(g)
          BY <3>2 DEF Swept
    <3> QED BY <2>0, <3>1, <3>2
  <2>4. made' \subseteq Dir /\ entered' \subseteq made'
        BY <1>9 DEF PowerLoss
  <2> QED BY <1>9, <2>1, <2>2, <2>3, <2>4 DEF PowerLoss, Stop, source
<1>10. CASE OthersWrite
      BY <1>10 DEF OthersWrite, source, command
<1>11. CASE UNCHANGED vars
      BY <1>11 DEF vars, source, command
<1> QED BY <1>1, <1>2, <1>3, <1>4, <1>5, <1>6, <1>7, <1>8, <1>9, <1>10, <1>11 DEF Next

(* A power loss takes a file with a directory above it only when that      *)
(* directory's entry was not on disk.                                      *)
LEMMA LossSurvives ==
    ASSUME CopyInv, PowerLoss
    PROVE  /\ Standing \subseteq entered'
           /\ \A f \in File : Survives(f) => Survives(f)'
           /\ \A f \in File : final'[f] \in durable[f] \cup {NoFile}
<1> USE DEF CopyInv, DurableNames
<1>1. PICK unlinked \in SUBSET (made \ entered) :
           LET lost == {f \in File : Above[DirOf[f]] \cap unlinked # {}}
           IN  /\ made' = {d \in made : Above[d] \cap unlinked = {}}
               /\ \E names \in {g \in [File -> UNION {durable[f] : f \in File}] :
                                  \A f \in File : g[f] \in durable[f]} :
                     final' = Swept(names, lost)
      BY DEF PowerLoss
<1> DEFINE lost == {f \in File : Above[DirOf[f]] \cap unlinked # {}}
<1>2. /\ UNCHANGED size /\ entered' = made'
      /\ \A f \in File : durable'[f] = {final'[f]}
      BY DEF PowerLoss, source
<1>3. \A f \in File : IF f \in lost THEN final'[f] = NoFile ELSE final'[f] \in durable[f]
      BY <1>1 DEF Swept
<1>4. ASSUME NEW f \in File, Above[DirOf[f]] \subseteq entered
      PROVE  f \notin lost /\ Above[DirOf[f]] \subseteq entered'
  <2>1. \A d \in Above[DirOf[f]] : Above[d] \subseteq Above[DirOf[f]]
        BY DirFacts
  <2>2. \A d \in Above[DirOf[f]] : d \in made /\ Above[d] \cap unlinked = {}
        BY <1>1, <1>4, <2>1 DEF TypeOK
  <2>3. DirOf[f] \in Above[DirOf[f]]
        BY DirFacts
  <2> QED BY <1>1, <1>2, <2>2, <2>3
<1>5. Standing \subseteq entered'
  <2> SUFFICES ASSUME NEW d \in Standing PROVE d \in entered'
      OBVIOUS
  <2>1. Above[d] \subseteq entered /\ d \in made
        BY DirFacts DEF TypeOK
  <2> QED BY <1>1, <1>2, <2>1
<1> HIDE DEF lost
<1>6. ASSUME NEW f \in File, Survives(f) PROVE Survives(f)'
  <2>1. f \notin lost /\ Above[DirOf[f]] \subseteq entered'
        BY <1>4, <1>6 DEF Survives
  <2>2. final'[f] = size[f]
        BY <1>3, <1>6, <2>1 DEF Survives
  <2> QED BY <1>2, <2>1, <2>2 DEF Survives
<1> QED BY <1>3, <1>5, <1>6

(* A sync takes nothing. *)
LEMMA SyncSurvives ==
    ASSUME CopyInv, SyncParents, NEW f \in File, Survives(f)
    PROVE  Survives(f)'
<1>1. /\ durable'[f] \in {{final[f]}, durable[f]} /\ final[f] \in durable[f]
      /\ entered \subseteq entered' /\ size' = size
      BY DEF SyncParents, CopyInv, DurableNames, source
<1> QED BY <1>1 DEF Survives

(* Only Rename, SyncParents and PowerLoss touch the names; only RecordCopy *)
(* adds to the records, after the barriers.                                *)
LEMMA KeepsNames == CopyInv /\ [Next]_vars => DurableNames'
<1> SUFFICES ASSUME CopyInv, [Next]_vars PROVE DurableNames'
    OBVIOUS
<1> USE ConstantsTyped DEF CopyInv
<1>g. UNCHANGED source => UNCHANGED <<Guarded, HasBarriers>>
      BY DEF Guarded, HasBarriers, FilesOf, source
<1> USE DEF DurableNames, HasBarriers
<1>1. ASSUME UNCHANGED <<source, final, durable, entered>>, copied' \subseteq copied
      PROVE  DurableNames'
      BY <1>1, <1>g DEF source, TypeOK, Survives
<1>2. CASE \E b \in Batch : StartCopy(b) \/ Verify(b)
      BY <1>1, <1>2 DEF StartCopy, Verify, dirs
<1>3. CASE CheckSpace
      BY <1>1, <1>3 DEF CheckSpace, Stop
<1>4. CASE \E f \in File : BeginFile(f) \/ RemoveSource(f)
      BY <1>1, <1>4 DEF BeginFile, RemoveSource, dirs
<1>5. CASE WriteByte \/ FallBack \/ FinishWrite \/ SyncData
      BY <1>1, <1>5 DEF WriteByte, FallBack, FinishWrite, SyncData, dirs
<1>6. CASE Rename
  <2>1. /\ file \in File /\ batchOf[file] = current /\ current \notin copied
        /\ part[file] = size[file] /\ size[file] \in Nat
        BY <1>6 DEF Rename, TypeOK, CopyProgress, Copying, FilesOf
  <2>2. size[file] \in Remains(file)
        BY <2>1 DEF Remains
  <2>3. final' = [final EXCEPT ![file] = part[file]]
        /\ durable' = [durable EXCEPT ![file] = @ \cup Remains(file)]
        /\ UNCHANGED <<source, copied, entered>>
        BY <1>6 DEF Rename, dirs
  <2>4. \A f \in File : final'[f] \in durable'[f]
        BY <2>1, <2>2, <2>3 DEF TypeOK
  <2>5. HasBarriers => Remains(file) = {size[file]}
        BY DEF Remains
  <2>6. HasBarriers' => \A f \in File : durable'[f] \subseteq {NoFile, size'[f]}
        BY <2>1, <2>3, <2>5 DEF TypeOK, source
  <2>7. ASSUME NEW f \in Guarded, batchOf[f] \in copied PROVE Survives(f)'
    <3>1. f # file /\ f \in File /\ Survives(f)
          BY <2>1, <2>7 DEF Guarded
    <3>2. durable'[f] = durable[f] /\ UNCHANGED <<size, entered>>
          BY <2>1, <2>3, <3>1 DEF TypeOK, source
    <3> QED BY <3>1, <3>2 DEF Survives
  <2>8. UNCHANGED <<Guarded, batchOf, copied, entered>>
        BY <1>g, <2>3 DEF source
  <2> QED BY <2>4, <2>6, <2>7, <2>8
<1>7. CASE SyncParents
  <2>1. /\ UNCHANGED <<source, final, copied>> /\ entered \subseteq entered'
        /\ durable' \in [File -> SUBSET (Nat \cup {NoFile})]
        /\ \A f \in File : durable'[f] \in {{final[f]}, durable[f]}
        BY <1>7 DEF SyncParents, TypeOK
  <2>2. \A f \in File : final[f] \in durable[f]
        OBVIOUS
  <2>3. UNCHANGED <<size, batchOf, config>>
        BY <2>1 DEF source
  <2>4. \A f \in File : /\ final[f] \in durable'[f]
                        /\ durable'[f] \subseteq durable[f]
        BY <2>1, <2>2
  <2>5. ASSUME NEW f \in Guarded, batchOf[f] \in copied
        PROVE  Survives(f)'
    <3>1. f \in File /\ Survives(f)
          BY <2>5 DEF Guarded
    <3>2. durable'[f] = {size[f]}
          BY <2>2, <2>4, <3>1 DEF Survives
    <3> QED BY <2>1, <2>3, <3>1, <3>2 DEF Survives
  <2>6. UNCHANGED Guarded
        BY <1>g, <2>1
  <2> QED BY <2>1, <2>3, <2>4, <2>5, <2>6
<1>8. CASE RecordCopy
  <2>1. \A f \in Guarded : batchOf[f] = current => Survives(f)
        BY <1>8 DEF RecordCopy, CopyProgress, FilesOf, Guarded
  <2>2. /\ copied' = copied \cup {current}
        /\ UNCHANGED <<source, final, durable, entered>>
        BY <1>8 DEF RecordCopy, dirs
  <2>3. UNCHANGED <<Guarded, size, batchOf, config>>
        BY <1>g, <2>2 DEF source
  <2>4. ASSUME NEW f \in Guarded, batchOf[f] \in copied' PROVE Survives(f)'
    <3>1. Survives(f)
          BY <2>1, <2>2, <2>4
    <3> QED BY <2>2, <2>3, <3>1 DEF Survives
  <2> QED BY <2>2, <2>3, <2>4
<1>9. CASE Fail \/ OthersWrite
      BY <1>1, <1>9 DEF Fail, OthersWrite, dirs
<1>10. CASE PowerLoss
  <2>1. /\ UNCHANGED <<source, size, batchOf, config, copied>>
        /\ \A f \in File : durable'[f] = {final'[f]}
        BY <1>10 DEF PowerLoss, source
  <2>2. /\ Standing \subseteq entered'
        /\ \A f \in File : Survives(f) => Survives(f)'
        /\ \A f \in File : final'[f] \in durable[f] \cup {NoFile}
        BY <1>10, LossSurvives
  <2>3. UNCHANGED <<Guarded, HasBarriers>>
        BY <1>g, <2>1
  <2>4. HasBarriers => \A f \in File : durable'[f] \subseteq {NoFile, size[f]}
        BY <2>1, <2>2
  <2>5. ASSUME NEW f \in Guarded, batchOf[f] \in copied PROVE Survives(f)'
        BY <2>2, <2>5 DEF Guarded
  <2> QED BY <2>1, <2>2, <2>3, <2>4, <2>5
<1>11. CASE UNCHANGED vars
      BY <1>1, <1>11 DEF vars, dirs
<1> QED BY <1>2, <1>3, <1>4, <1>5, <1>6, <1>7, <1>8, <1>9, <1>10, <1>11 DEF Next

(* A batch reaches its record file by file, through both barriers. *)
LEMMA KeepsProgress == CopyInv /\ [Next]_vars => CopyProgress'
<1> SUFFICES ASSUME CopyInv, [Next]_vars PROVE CopyProgress'
    OBVIOUS
<1>g. UNCHANGED source => UNCHANGED Guarded
      BY DEF Guarded, HasBarriers, FilesOf, source
<1> USE ConstantsTyped DEF CopyInv, CopyProgress, Copying, FilesOf
<1>1. CASE (\E b \in Batch : StartCopy(b) \/ Verify(b)) \/ OthersWrite
      BY <1>1 DEF StartCopy, Verify, OthersWrite, source, command
<1>2. CASE CheckSpace
      BY <1>2 DEF CheckSpace, Stop, source
<1>3. CASE \E f \in File : BeginFile(f) \/ RemoveSource(f)
  <2>1. ASSUME NEW f \in File, BeginFile(f) PROVE CopyProgress'
    <3>1. /\ part'[f] = 0 /\ file' = f /\ pc' \in {"Native", "Write"}
          /\ Above[DirOf[f]] \subseteq made' /\ made \subseteq made'
          BY <2>1 DEF BeginFile, TypeOK
    <3> QED BY <2>1, <3>1 DEF BeginFile, source
  <2>2. CASE \E f \in File : RemoveSource(f)
        BY <2>2 DEF RemoveSource, source, command
  <2> QED BY <1>3, <2>1, <2>2
<1>4. CASE WriteByte
  <2>1. file \in File /\ part[file] \in Nat
        BY <1>4 DEF WriteByte, TypeOK
  <2>2. part'[file] \in Nat
        BY <1>4, <2>1 DEF WriteByte, TypeOK
  <2>3. /\ pc \in {"Native", "Write"}
        /\ UNCHANGED <<size, batchOf, final, made, copied, pc, current, todo, file>>
        BY <1>4 DEF WriteByte, source, command, dirs
  <2> QED BY <2>2, <2>3
<1>5. CASE FallBack \/ FinishWrite \/ SyncData
  <2>1. file \in File
        BY <1>5 DEF FallBack, FinishWrite, SyncData, TypeOK
  <2>2. /\ pc' \in {"Write", "SyncData", "Rename"} /\ pc \in Copying
        /\ UNCHANGED <<size, batchOf, config, final, made, copied, current, todo, file>>
        BY <1>5 DEF FallBack, FinishWrite, SyncData, source, dirs
  <2>3. /\ part'[file] # NoFile
        /\ pc' = "SyncData" => DurableWrites(config)
        /\ pc' \in {"SyncData", "Rename"} => part'[file] = size[file]
        BY <1>5, <2>1 DEF FallBack, FinishWrite, SyncData, TypeOK
  <2> QED BY <2>2, <2>3 DEF DurableWrites
<1>6. CASE Rename
  <2>1. /\ file \in File /\ file \in todo /\ part[file] = size[file] /\ current \notin copied
        /\ final' = [final EXCEPT ![file] = part[file]]
        /\ todo' = todo \ {file}
        /\ pc' \in {"Copy", "SyncParents", "Record"}
        /\ pc' \in {"SyncParents", "Record"} => todo' = {}
        /\ pc' = "Record" => ~ DurableWrites(config)
        /\ Above[DirOf[file]] \subseteq made
        /\ UNCHANGED <<source, copied, current, made>>
        BY <1>6 DEF Rename, TypeOK, dirs
  <2>2. \A f \in FilesOf(current) \ todo' :
           final'[f] = size[f] /\ Above[DirOf[f]] \subseteq made
        BY <1>6, <2>1 DEF TypeOK, Rename
  <2>3. pc' = "Record" => Guarded' = {}
        BY <1>g, <2>1 DEF Guarded, HasBarriers
  <2> QED BY <2>1, <2>2, <2>3 DEF source
<1>7. CASE SyncParents
  <2>1. /\ UNCHANGED <<source, final, copied, current, todo, made, size, batchOf>>
        /\ pc' = "Record" /\ pc = "SyncParents"
        BY <1>7 DEF SyncParents, source
  <2>2. ASSUME NEW f \in FilesOf(current) \cap Guarded PROVE Survives(f)'
    <3>1. /\ SyncsDirectories(config) /\ f \in File /\ batchOf[f] = current
          /\ \A d \in Above[DirOf[f]] : d \in Standing \/ EnteredIn(d, TouchedParents)
          BY <2>2 DEF Guarded, HasBarriers, TouchedParents
    <3>2. final[f] = size[f] /\ Above[DirOf[f]] \subseteq made /\ Standing \subseteq entered
          BY <2>1, <2>2 DEF DurableNames
    <3>3. durable'[f] = {final[f]}
          BY <1>7, <2>2, <3>1 DEF SyncParents, TouchedParents
    <3>4. entered' = entered \cup {d \in made : EnteredIn(d, TouchedParents)}
          BY <1>7, <3>1 DEF SyncParents
    <3> QED BY <2>1, <3>1, <3>2, <3>3, <3>4 DEF Survives
  <2>3. UNCHANGED Guarded
        BY <1>g, <2>1
  <2> QED BY <2>1, <2>2, <2>3
<1>8. CASE RecordCopy \/ Fail \/ PowerLoss
      BY <1>8 DEF RecordCopy, Fail, PowerLoss, Stop
<1>9. CASE UNCHANGED vars
      BY <1>9, <1>g DEF vars, source, command, dirs, Survives
<1> QED BY <1>1, <1>2, <1>3, <1>4, <1>5, <1>6, <1>7, <1>8, <1>9 DEF Next

(* No copy starts of a batch a source file of which is gone. *)
LEMMA KeepsRemoved == CopyInv /\ [Next]_vars => RemovedWereVerified'
<1> SUFFICES ASSUME CopyInv, [Next]_vars PROVE RemovedWereVerified'
    OBVIOUS
<1> USE DEF CopyInv, RemovedWereVerified, FilesOf
<1>1. CASE CheckSpace
      BY <1>1 DEF CheckSpace, Stop, source, TypeOK
<1>2. CASE \E f \in File : RemoveSource(f)
      BY <1>2 DEF RemoveSource, source, command
<1>3. CASE \/ \E b \in Batch : StartCopy(b) \/ Verify(b)
           \/ \E f \in File : BeginFile(f)
           \/ WriteByte \/ FallBack \/ FinishWrite
      BY <1>3 DEF StartCopy, Verify, BeginFile, WriteByte, FallBack, FinishWrite, source, command
<1>4. CASE SyncData \/ Rename \/ SyncParents \/ RecordCopy \/ Fail \/ PowerLoss \/ OthersWrite
      BY <1>4 DEF SyncData, Rename, SyncParents, RecordCopy, Fail, PowerLoss, OthersWrite,
                  Stop, source, command
<1>5. CASE UNCHANGED vars
      BY <1>5 DEF vars, source, command
<1> QED BY <1>1, <1>2, <1>3, <1>4, <1>5 DEF Next

(* copy_file_atomically and sync_parent_directories: the inductive         *)
(* invariant of every copy.                                                *)
THEOREM CopyInvariantHolds == Spec => []CopyInv
<1>1. CopyInv /\ [Next]_vars => CopyInv'
      BY KeepsTypes, KeepsNames, KeepsProgress, KeepsRemoved DEF CopyInv
<1> QED BY InitSound, <1>1, PTL DEF Spec

(* Temporary names and the flush before the rename: no torn file under its *)
(* own name, not even after power loss.                                    *)
THEOREM NamesNeverTorn == Spec => []NeverTorn
<1>1. CopyInv => NeverTorn
      BY DEF CopyInv, DurableNames, NeverTorn
<1> QED BY <1>1, CopyInvariantHolds, PTL

(* The directories are synced before the batch is recorded: its record     *)
(* outlives no file that it records, where each directory on the way was   *)
(* there before or got its entry in one of those synced.                   *)
THEOREM RecordsOutliveNothing == Spec => []RecordedCopiesSurvive
<1>1. CopyInv => RecordedCopiesSurvive
      BY DEF CopyInv, DurableNames, RecordedCopiesSurvive
<1> QED BY <1>1, CopyInvariantHolds, PTL

(* Deletion follows a verified record: as far as the barriers of migrate   *)
(* mode reach, power loss takes no file whose source is gone.              *)
THEOREM BarriersKeepRemoved == Spec => []MigrateKeepsRemoved
<1>1. CopyInv => MigrateKeepsRemoved
  <2> SUFFICES ASSUME CopyInv, NEW f \in removed \cap Guarded PROVE final[f] = size[f]
      BY DEF MigrateKeepsRemoved
  <2>1. f \in File /\ batchOf[f] \in copied
        BY DEF CopyInv, TypeOK, RemovedWereVerified
  <2>2. Survives(f) /\ final[f] \in durable[f]
        BY <2>1 DEF CopyInv, DurableNames
  <2> QED BY <2>2 DEF Survives
<1> QED BY <1>1, CopyInvariantHolds, PTL

-----------------------------------------------------------------------------
(* Power loss finds every name as it was: the caches had been written.     *)
NamesLast == [][PowerLoss => final' = final]_vars

(* What a record says, of the names as they stand. *)
CopiedWhole == \A f \in File : batchOf[f] \in copied => final[f] = size[f]

(* Only a rename and power loss change what stands under a name. *)
LEMMA KeepsCopied ==
    CopyInv /\ CopiedWhole /\ [Next]_vars /\ (PowerLoss => final' = final) => CopiedWhole'
<1> SUFFICES ASSUME CopyInv, CopiedWhole, [Next]_vars, PowerLoss => final' = final
             PROVE  CopiedWhole'
    OBVIOUS
<1> USE DEF CopyInv, CopiedWhole
<1>1. CASE Rename
  <2>1. /\ current \notin copied /\ file \in FilesOf(current)
        /\ final' = [final EXCEPT ![file] = part[file]]
        /\ UNCHANGED <<size, batchOf, copied>>
        BY <1>1 DEF Rename, source, CopyProgress, Copying, TypeOK
  <2>2. ASSUME NEW f \in File, batchOf[f] \in copied PROVE final'[f] = size[f]
    <3>1. f # file
          BY <2>1, <2>2 DEF FilesOf
    <3> QED BY <2>1, <2>2, <3>1 DEF TypeOK
  <2> QED BY <2>1, <2>2
<1>2. CASE RecordCopy
  <2>1. /\ copied' = copied \cup {current}
        /\ \A f \in FilesOf(current) : final[f] = size[f]
        /\ UNCHANGED <<size, batchOf, final>>
        BY <1>2 DEF RecordCopy, source, CopyProgress
  <2> QED BY <2>1 DEF FilesOf
<1>3. CASE PowerLoss \/ CheckSpace
      BY <1>3 DEF PowerLoss, CheckSpace, Stop, source
<1>4. CASE \/ \E b \in Batch : StartCopy(b) \/ Verify(b)
           \/ \E f \in File : BeginFile(f) \/ RemoveSource(f)
           \/ WriteByte \/ FallBack \/ FinishWrite
      BY <1>4 DEF StartCopy, Verify, BeginFile, RemoveSource, WriteByte, FallBack,
                  FinishWrite, source
<1>5. CASE SyncData \/ SyncParents \/ Fail \/ OthersWrite \/ UNCHANGED vars
      BY <1>5 DEF SyncData, SyncParents, Fail, OthersWrite, source, vars
<1> QED BY <1>1, <1>2, <1>3, <1>4, <1>5 DEF Next

(* LocalFsCopyBackend leaves the barriers out in staging mode: power loss  *)
(* that takes a name is then the only way to lose a file whose source was  *)
(* deleted.  Crashes, failures, repeated copies and full disks are not.    *)
THEOREM OnlyPowerLossLoses == Spec /\ NamesLast => []RemovedSourcesSurvive
<1>1. Init => CopiedWhole
      BY DEF Init, CopiedWhole
<1>2. CopyInv /\ CopiedWhole /\ [Next]_vars /\ [PowerLoss => final' = final]_vars => CopiedWhole'
  <2>1. (UNCHANGED vars) /\ CopiedWhole => CopiedWhole'
        BY DEF vars, source, CopiedWhole
  <2> QED BY <2>1, KeepsCopied
<1>3. CopyInv /\ CopiedWhole => RemovedSourcesSurvive
      BY DEF CopyInv, TypeOK, RemovedWereVerified, CopiedWhole, RemovedSourcesSurvive
<1> QED BY <1>1, <1>2, <1>3, CopyInvariantHolds, PTL DEF Spec, NamesLast

-----------------------------------------------------------------------------
(* The bytes under a set of names are a natural number ...                 *)
LEMMA BytesCounted ==
    ASSUME NEW names \in [File -> Nat \cup {NoFile}]
    PROVE  BytesIn(names) \in Nat
<1> DEFINE bytes == [g \in File |-> Bytes(names[g])]
<1>1. BytesIn(names) = SumFunctionOnSet(bytes, File)
      BY DEF BytesIn, SumFunction
<1>2. IsFiniteSet(File) /\ \A g \in File : bytes[g] \in Nat
      BY ConstantsTyped, FS_Interval DEF Bytes
<1> HIDE DEF bytes
<1> QED BY <1>1, <1>2, SumType

(* ... and change by what changes under one name.                          *)
LEMMA BytesChange ==
    ASSUME NEW names \in [File -> Nat \cup {NoFile}],
           NEW f \in File, NEW content \in Nat \cup {NoFile}
    PROVE  BytesIn([names EXCEPT ![f] = content]) =
               BytesIn(names) - Bytes(names[f]) + Bytes(content)
<1> DEFINE changed == [names EXCEPT ![f] = content]
           old == [g \in File |-> Bytes(names[g])]
           new == [g \in File |-> Bytes(changed[g])]
<1>1. IsFiniteSet(File)
      BY ConstantsTyped, FS_Interval
<1>2. \A g \in File : old[g] \in Nat /\ new[g] \in Nat
      BY DEF Bytes
<1>3. /\ BytesIn(names) = SumFunctionOnSet(old, File)
      /\ BytesIn(changed) = SumFunctionOnSet(new, File)
      BY DEF BytesIn, SumFunction
<1>4. \A g \in File \ {f} : old[g] = new[g]
      OBVIOUS
<1>5. old[f] = Bytes(names[f]) /\ new[f] = Bytes(content)
      OBVIOUS
<1> HIDE DEF old, new, changed
<1>6. PICK rest \in Nat : /\ SumFunctionOnSet(old, File) = old[f] + rest
                          /\ SumFunctionOnSet(new, File) = new[f] + rest
  <2> HIDE DEF File
  <2> QED BY <1>1, <1>2, <1>4, SumDiffers
<1>7. BytesIn(changed) = BytesIn(names) - Bytes(names[f]) + Bytes(content)
      BY <1>2, <1>3, <1>5, <1>6
<1> QED BY <1>7 DEF changed

(* The sizes of planned files add up to a natural number, a file less      *)
(* leaves its size less.                                                   *)
LEMMA TotalLess ==
    ASSUME TypeOK, NEW files \in SUBSET File
    PROVE  /\ TotalBytes(files) \in Nat
           /\ \A f \in files : TotalBytes(files \ {f}) = TotalBytes(files) - size[f]
<1>1. IsFiniteSet(files) /\ \A f \in files : size[f] \in Nat
  <2>1. IsFiniteSet(File)
        BY ConstantsTyped, FS_Interval
  <2> QED BY <2>1, FS_Subset DEF TypeOK
<1>2. SumFunctionOnSet(size, files) \in Nat
      BY <1>1, SumType
<1>3. ASSUME NEW f \in files
      PROVE  TotalBytes(files \ {f}) = TotalBytes(files) - size[f]
  <2>1. IsFiniteSet(files \ {f}) /\ \A g \in files \ {f} : size[g] \in Nat
        BY <1>1, FS_RemoveElement
  <2>2. SumFunctionOnSet(size, files \ {f}) \in Nat
        BY <2>1, SumType
  <2>3. SumFunctionOnSet(size, files) = size[f] + SumFunctionOnSet(size, files \ {f})
    <3> HIDE DEF File
    <3> QED BY <1>1, SumTakesOut
  <2>4. size[f] \in Nat
        BY <1>1
  <2> QED BY <2>2, <2>3, <2>4 DEF TotalBytes
<1> QED BY <1>2, <1>3 DEF TotalBytes

(* Writing, starting over and renaming keep the guard's promise: what a    *)
(* step takes of the volume it takes off what is still to be copied.       *)
LEMMA KeepsRoom == CopyInv /\ RoomToFinish /\ [Next]_vars => RoomToFinish'
<1> SUFFICES ASSUME CopyInv, RoomToFinish, [Next]_vars PROVE RoomToFinish'
    OBVIOUS
<1> USE ConstantsTyped
<1>t. /\ TypeOK /\ size \in [File -> Nat]
      /\ final \in [File -> Nat \cup {NoFile}] /\ part \in [File -> Nat \cup {NoFile}]
      /\ others \in Nat /\ todo \in SUBSET File
      /\ pc \notin Copying => file = 0
      /\ pc \in Copying => file \in File /\ file \in todo /\ file # 0 /\ part[file] \in Nat
  <2>1. /\ TypeOK /\ others \in Nat /\ todo \in SUBSET File
        /\ pc \notin Copying => file = 0
        /\ pc \in Copying => file \in todo /\ part[file] # NoFile
        BY DEF CopyInv, TypeOK, CopyProgress, FilesOf
  <2>2. \A f \in File : part[f] \in Nat \cup {NoFile}
        BY <2>1 DEF TypeOK
  <2>3. \A f \in File : f # 0
        OBVIOUS
  <2> QED BY <2>1, <2>2, <2>3 DEF TypeOK
<1>b. BytesIn(final) \in Nat /\ BytesIn(part) \in Nat /\ TotalBytes(todo) \in Nat
      BY <1>t, BytesCounted, TotalLess
<1>1. CASE pc' \notin {"Copy"} \cup Copying
      BY <1>1 DEF RoomToFinish, Copying
<1>2. CASE CheckSpace
  <2>1. CASE pc' = "Copy"
    <3>1. /\ TotalBytes(FilesOf(current)) < Available'
          /\ todo' = FilesOf(current) /\ file' = 0
          /\ size' = size
          BY <1>t, <1>2, <2>1 DEF CheckSpace, GuardAllows, Stop, Copying, source
    <3>2. TotalBytes(todo)' = TotalBytes(FilesOf(current))
          BY <3>1 DEF TotalBytes
    <3>3. Available' \in Int /\ TotalBytes(FilesOf(current)) \in Nat
      <4>1. final' = final /\ part' \in [File -> Nat \cup {NoFile}] /\ others' = others
            BY <1>t, <1>2 DEF CheckSpace
      <4>2. BytesIn(final)' \in Nat /\ BytesIn(part)' \in Nat
            BY <1>t, <4>1, BytesCounted
      <4> QED BY <1>t, <4>1, <4>2, TotalLess DEF Available, FilesOf
    <3> QED BY <3>1, <3>2, <3>3 DEF RoomToFinish
  <2> QED BY <1>1, <1>2, <2>1 DEF CheckSpace, Stop, Copying
<1>3. ASSUME NEW f \in File, BeginFile(f) PROVE RoomToFinish'
  <2>1. /\ pc = "Copy" /\ file = 0 /\ file' = f /\ f # 0
        /\ part' = [part EXCEPT ![f] = 0] /\ part'[f] = 0
        /\ UNCHANGED <<size, final, others, todo>>
        BY <1>t, <1>3 DEF BeginFile, Copying, source
  <2>2. BytesIn(part)' = BytesIn(part) - Bytes(part[f]) + Bytes(0) /\ Bytes(part[f]) \in Nat
        BY <1>t, <2>1, BytesChange DEF Bytes
  <2>3. UNCHANGED <<BytesIn(final), TotalBytes(todo)>>
        BY <2>1 DEF BytesIn, TotalBytes
  <2>4. Available > TotalBytes(todo) /\ Available \in Int
        BY <1>t, <1>b, <2>1 DEF RoomToFinish, Available
  <2>5. Bytes(0) = 0
        BY DEF Bytes
  <2>6. Available' = Available + Bytes(part[f])
        BY <1>t, <1>b, <2>1, <2>2, <2>3, <2>5 DEF Available
  <2>7. Available' + 0 > TotalBytes(todo)'
        BY <1>b, <2>2, <2>3, <2>4, <2>6
  <2> QED BY <2>1, <2>7 DEF RoomToFinish
<1>4. CASE WriteByte
  <2>1. /\ pc \in Copying /\ part' = [part EXCEPT ![file] = part[file] + 1]
        /\ part'[file] = part[file] + 1
        /\ UNCHANGED <<size, final, others, todo, file>>
        BY <1>t, <1>4 DEF WriteByte, Copying, source, command
  <2>2. BytesIn(part)' = BytesIn(part) - Bytes(part[file]) + Bytes(part[file] + 1)
    <3>1. part[file] + 1 \in Nat \cup {NoFile}
          BY <1>t, <2>1
    <3> QED BY <1>t, <2>1, <3>1, BytesChange
  <2>3. Bytes(part[file]) = part[file] /\ Bytes(part[file] + 1) = part[file] + 1
        BY <1>t, <2>1 DEF Bytes
  <2>4. UNCHANGED <<BytesIn(final), TotalBytes(todo)>>
        BY <2>1 DEF BytesIn, TotalBytes
  <2>5. Available + part[file] > TotalBytes(todo) /\ Available \in Int
        BY <1>t, <1>b, <2>1 DEF RoomToFinish, Available
  <2>6. Available' = Available - 1
        BY <1>t, <1>b, <2>1, <2>2, <2>3, <2>4 DEF Available
  <2>7. Available' + part'[file] > TotalBytes(todo)'
        BY <1>t, <1>b, <2>1, <2>4, <2>5, <2>6
  <2> QED BY <1>t, <2>1, <2>7 DEF RoomToFinish
<1>5. CASE FallBack
  <2>1. /\ pc \in Copying /\ part' = [part EXCEPT ![file] = 0] /\ part'[file] = 0
        /\ UNCHANGED <<size, final, others, todo, file>>
        BY <1>t, <1>5 DEF FallBack, Copying, source
  <2>2. BytesIn(part)' = BytesIn(part) - Bytes(part[file]) + Bytes(0)
        BY <1>t, <2>1, BytesChange
  <2>3. Bytes(part[file]) = part[file] /\ Bytes(0) = 0
        BY <1>t, <2>1 DEF Bytes
  <2>4. UNCHANGED <<BytesIn(final), TotalBytes(todo)>>
        BY <2>1 DEF BytesIn, TotalBytes
  <2>5. Available + part[file] > TotalBytes(todo) /\ Available \in Int
        BY <1>t, <1>b, <2>1 DEF RoomToFinish, Available
  <2>6. Available' = Available + part[file]
        BY <1>t, <1>b, <2>1, <2>2, <2>3, <2>4 DEF Available
  <2>7. Available' + part'[file] > TotalBytes(todo)'
        BY <1>t, <1>b, <2>1, <2>4, <2>5, <2>6
  <2> QED BY <1>t, <2>1, <2>7 DEF RoomToFinish
<1>6. CASE Rename
  <2>1. /\ pc \in Copying /\ file' = 0
        /\ part[file] = size[file] /\ size[file] \in Nat
        /\ final' = [final EXCEPT ![file] = part[file]]
        /\ part' = [part EXCEPT ![file] = NoFile]
        /\ todo' = todo \ {file}
        /\ UNCHANGED <<size, others>>
        BY <1>t, <1>6 DEF Rename, CopyInv, CopyProgress, Copying, source
  <2>2. BytesIn(part)' = BytesIn(part) - Bytes(part[file]) + Bytes(NoFile)
        BY <1>t, <2>1, BytesChange
  <2>3. BytesIn(final)' = BytesIn(final) - Bytes(final[file]) + Bytes(part[file])
        BY <1>t, <2>1, BytesChange
  <2>4. /\ Bytes(part[file]) = part[file] /\ Bytes(NoFile) = 0
        /\ Bytes(final[file]) \in Nat
        BY <1>t, <2>1 DEF Bytes
  <2>5. TotalBytes(todo)' = TotalBytes(todo \ {file})
        BY <2>1 DEF TotalBytes
  <2>6. TotalBytes(todo \ {file}) = TotalBytes(todo) - size[file]
        BY <1>t, <2>1, TotalLess
  <2>7. Available + part[file] > TotalBytes(todo) /\ Available \in Int
        BY <1>t, <1>b, <2>1 DEF RoomToFinish, Available
  <2>8. Available' = Available + Bytes(final[file])
        BY <1>t, <1>b, <2>1, <2>2, <2>3, <2>4 DEF Available
  <2>9. Available' > TotalBytes(todo)' /\ Available' \in Int
        BY <1>b, <2>1, <2>4, <2>5, <2>6, <2>7, <2>8
  <2> QED BY <2>1, <2>9 DEF RoomToFinish
<1>7. CASE FinishWrite \/ SyncData
  <2>1. /\ pc \in Copying
        /\ UNCHANGED <<size, final, part, others, todo, file>>
        BY <1>7 DEF FinishWrite, SyncData, Copying, source
  <2> QED BY <2>1 DEF RoomToFinish, Available, BytesIn, TotalBytes
<1>8. CASE \/ \E b \in Batch : StartCopy(b) \/ Verify(b)
           \/ \E f \in File : RemoveSource(f)
           \/ SyncParents \/ RecordCopy \/ Fail \/ PowerLoss \/ OthersWrite
      BY <1>1, <1>8 DEF StartCopy, Verify, RemoveSource, SyncParents, RecordCopy, Fail,
                        PowerLoss, OthersWrite, Stop, command, Copying
<1>9. CASE UNCHANGED vars
      BY <1>9 DEF vars, source, command, RoomToFinish, Available, BytesIn, TotalBytes
<1> QED BY <1>2, <1>3, <1>4, <1>5, <1>6, <1>7, <1>8, <1>9 DEF Next

(* check_capacity asks once, before the batch: whatever earlier attempts,  *)
(* failed native copies and power loss have left at the destination, what  *)
(* it has let through has room to the last file.                           *)
THEOREM GuardedBatchesFit == Spec => []RoomToFinish
<1>1. Init => RoomToFinish
      BY DEF Init, RoomToFinish, Copying
<1> QED BY <1>1, KeepsRoom, CopyInvariantHolds, PTL DEF Spec

(* What that means to the copier. *)
NeverFull == pc \in {"Native", "Write"} /\ part[file] < size[file] => Available > 0

(* So the write of a file in a batch the guard has let through never fails *)
(* for want of space: a full disk is found before the batch or not at all. *)
THEOREM CopiesNeverRunFull == Spec => []NeverFull
<1>1. ASSUME CopyInv, RoomToFinish PROVE NeverFull
  <2> SUFFICES ASSUME pc \in {"Native", "Write"}, part[file] < size[file]
               PROVE  Available > 0
      BY DEF NeverFull
  <2>t. /\ TypeOK /\ pc \in Copying /\ part[file] # NoFile
        BY <1>1 DEF CopyInv, CopyProgress, Copying
  <2>1. /\ todo \in SUBSET File /\ file \in todo /\ file \in File
        /\ final \in [File -> Nat \cup {NoFile}] /\ part \in [File -> Nat \cup {NoFile}]
        /\ size \in [File -> Nat] /\ others \in Nat
    <3>1. todo \in SUBSET File /\ file \in todo
          BY <2>t DEF TypeOK, FilesOf
    <3>2. others \in Nat
          BY <2>t, ConstantsTyped DEF TypeOK
    <3> QED BY <2>t, <3>1, <3>2 DEF TypeOK
  <2>2. part[file] \in Nat /\ size[file] \in Nat /\ file # 0
        BY <2>t, <2>1
  <2>3. Available + part[file] > TotalBytes(todo)
        BY <1>1, <2>2 DEF RoomToFinish, Copying
  <2>4. /\ TotalBytes(todo) \in Nat /\ TotalBytes(todo \ {file}) \in Nat
        /\ TotalBytes(todo \ {file}) = TotalBytes(todo) - size[file]
    <3>1. todo \ {file} \in SUBSET File
          BY <2>1
    <3> QED BY <2>t, <2>1, <3>1, TotalLess
  <2>5. Available \in Int
        BY <2>1, BytesCounted, ConstantsTyped DEF Available
  <2> QED BY <2>2, <2>3, <2>4, <2>5
<1> QED BY <1>1, GuardedBatchesFit, CopyInvariantHolds, PTL

-----------------------------------------------------------------------------
(* The guard refuses a batch without a byte as an invalid argument, so     *)
(* what is copied, or recorded as copied, has bytes ...                    *)
HasBytes(b) == TotalBytes(FilesOf(b)) > 0

OnlyBytesCopied ==
    /\ pc \in {"Copy", "SyncParents", "Record"} \cup Copying => HasBytes(current)
    /\ \A b \in copied : HasBytes(b)

LEMMA KeepsOnlyBytes == CopyInv /\ OnlyBytesCopied /\ [Next]_vars => OnlyBytesCopied'
<1> SUFFICES ASSUME CopyInv, OnlyBytesCopied, [Next]_vars PROVE OnlyBytesCopied'
    OBVIOUS
<1>u. /\ UNCHANGED source
      /\ \A b : HasBytes(b)' <=> HasBytes(b)
  <2>1. UNCHANGED source
        BY DEF Next, vars, StartCopy, Verify, CheckSpace, BeginFile, RemoveSource, WriteByte,
               FallBack, FinishWrite, SyncData, Rename, SyncParents, RecordCopy, Fail,
               PowerLoss, OthersWrite
  <2> QED BY <2>1 DEF source, HasBytes, TotalBytes, FilesOf
<1>1. CASE CheckSpace
  <2>1. CASE GuardAllows(TotalBytes(FilesOf(current)), Available')
        BY <1>1, <1>u, <2>1 DEF CheckSpace, GuardAllows, HasBytes, OnlyBytesCopied
  <2>2. CASE ~ GuardAllows(TotalBytes(FilesOf(current)), Available')
        BY <1>1, <1>u, <2>2 DEF CheckSpace, Stop, Copying, OnlyBytesCopied
  <2> QED BY <2>1, <2>2
<1>2. CASE RecordCopy
      BY <1>2, <1>u DEF RecordCopy, Stop, Copying, OnlyBytesCopied
<1>3. CASE \/ \E f \in File : BeginFile(f)
           \/ WriteByte \/ FallBack \/ FinishWrite \/ SyncData \/ Rename \/ SyncParents
      BY <1>3, <1>u DEF BeginFile, WriteByte, FallBack, FinishWrite, SyncData, Rename,
                        SyncParents, command, Copying, OnlyBytesCopied
<1>4. CASE \/ \E b \in Batch : StartCopy(b) \/ Verify(b)
           \/ \E f \in File : RemoveSource(f)
           \/ Fail \/ PowerLoss \/ OthersWrite \/ UNCHANGED vars
      BY <1>4, <1>u DEF StartCopy, Verify, RemoveSource, Fail, PowerLoss, OthersWrite, Stop,
                        vars, command, Copying, OnlyBytesCopied
<1> QED BY <1>1, <1>2, <1>3, <1>4 DEF Next

(* ... and no file of a batch of empty files is ever released for          *)
(* deletion: a plan that holds such a batch is never moved as a whole.     *)
THEOREM EmptyBatchesStay ==
    Spec => [](\A f \in File : f \in removed => HasBytes(batchOf[f]))
<1>1. Init => OnlyBytesCopied
      BY DEF Init, OnlyBytesCopied, Copying
<1>2. CopyInv /\ OnlyBytesCopied => \A f \in File : f \in removed => HasBytes(batchOf[f])
      BY DEF CopyInv, RemovedWereVerified, TypeOK, OnlyBytesCopied
<1> QED BY <1>1, <1>2, KeepsOnlyBytes, CopyInvariantHolds, PTL DEF Spec

-----------------------------------------------------------------------------
(* plan_batches, file by file: what its loop knows after the i-th file.    *)
Planned(last, n) ==
    last = [i \in 0 .. n |-> IF i = 0 THEN [batch |-> 0, bytes |-> 0, count |-> 0]
                             ELSE AddFile(last[i - 1], size[i], options)]

(* The first i files' share of a batch. *)
Share(last, i, b) == {f \in 1 .. i : last[f].batch = b}

(* The loop's last batch is counted right; the batches so far are numbered *)
(* without a gap, in planning order; each fits or is a single file, and    *)
(* could not have taken the first file of the next.                        *)
PlanSound(last, i) ==
    /\ last[i] \in [batch : Nat, bytes : Nat, count : Nat]
    /\ last[i].count = Cardinality(Share(last, i, last[i].batch))
    /\ last[i].bytes = TotalBytes(Share(last, i, last[i].batch))
    /\ i # 0 => last[i].count > 0
    /\ \A f \in 1 .. i : last[f].batch \in 1 .. last[i].batch
    /\ \A b \in 1 .. last[i].batch :
         /\ Share(last, i, b) # {}
         /\ Fits(Share(last, i, b)) \/ Cardinality(Share(last, i, b)) = 1
         /\ \A f \in Share(last, i, b + 1) :
              (\A g \in Share(last, i, b + 1) : f <= g) => ~ Fits(Share(last, i, b) \cup {f})

PlanTyped ==
    /\ size \in [File -> Nat]
    /\ options \in [batchSize : Nat \ {0}, maxFiles : Nat \ {0}]

(* Files and bytes of a set of files, and of one more.                     *)
LEMMA OneFileMore ==
    ASSUME PlanTyped, NEW S \in SUBSET File
    PROVE  /\ Cardinality(S) \in Nat /\ TotalBytes(S) \in Nat
           /\ \A x \in File \ S :
                /\ Cardinality(S \cup {x}) = Cardinality(S) + 1
                /\ TotalBytes(S \cup {x}) = TotalBytes(S) + size[x]
<1>1. IsFiniteSet(S)
  <2>1. IsFiniteSet(File)
        BY ConstantsTyped, FS_Interval
  <2> QED BY <2>1, FS_Subset
<1>2. \A x \in File : size[x] \in Nat
      BY DEF PlanTyped
<1>3. Cardinality(S) \in Nat
      BY <1>1, FS_CardinalityType
<1>4. SumFunctionOnSet(size, S) \in Nat
      BY <1>1, <1>2, SumType
<1>5. ASSUME NEW x \in File \ S
      PROVE  /\ Cardinality(S \cup {x}) = Cardinality(S) + 1
             /\ TotalBytes(S \cup {x}) = TotalBytes(S) + size[x]
  <2>1. Cardinality(S \cup {x}) = Cardinality(S) + 1
        BY <1>1, FS_AddElement
  <2>2. \A y \in S \cup {x} : size[y] \in Nat
        BY <1>2
  <2>3. SumFunctionOnSet(size, S \cup {x}) = size[x] + SumFunctionOnSet(size, S)
        BY <1>1, <2>2, SumPutsIn
  <2> QED BY <1>2, <1>4, <2>1, <2>3 DEF TotalBytes
<1> QED BY <1>3, <1>4, <1>5 DEF TotalBytes

(* The loop runs to its end.                                               *)
LEMMA PlanExists == \A n \in Nat : \E last : Planned(last, n)
<1> DEFINE T == {n \in Nat : ~ \E last : Planned(last, n)}
<1> SUFFICES ASSUME T # {} PROVE FALSE
    OBVIOUS
<1>1. PICK n \in T : \A m \in T : n <= m
  <2>1. T \in SUBSET Nat
        OBVIOUS
  <2> HIDE DEF T
  <2> QED BY <2>1, LeastNumber
<1>2. CASE n = 0
  <2> DEFINE none == [i \in 0 .. 0 |-> [batch |-> 0, bytes |-> 0, count |-> 0]]
  <2>1. Planned(none, 0)
        BY DEF Planned
  <2> QED BY <1>2, <2>1
<1>3. CASE n # 0
  <2>1. PICK last : Planned(last, n - 1)
        BY <1>1, <1>3
  <2> DEFINE longer == [i \in 0 .. n |-> IF i = n THEN AddFile(last[n - 1], size[n], options)
                                        ELSE last[i]]
  <2>2. ASSUME NEW i \in 0 .. n
        PROVE  longer[i] = IF i = 0 THEN [batch |-> 0, bytes |-> 0, count |-> 0]
                           ELSE AddFile(longer[i - 1], size[i], options)
    <3>1. CASE i = n
          BY <1>3, <2>2, <3>1
    <3>2. CASE i # n
      <4>1. i \in 0 .. n - 1 /\ (i # 0 => i - 1 \in 0 .. n - 1)
            BY <2>2, <3>2
      <4>2. last[i] = IF i = 0 THEN [batch |-> 0, bytes |-> 0, count |-> 0]
                      ELSE AddFile(last[i - 1], size[i], options)
            BY <2>1, <4>1 DEF Planned
      <4> QED BY <3>2, <4>1, <4>2
    <3> QED BY <3>1, <3>2
  <2>3. Planned(longer, n)
    <3> HIDE DEF longer
    <3>1. longer = [i \in 0 .. n |-> longer[i]]
          BY DEF longer
    <3> QED BY <2>2, <3>1 DEF Planned
  <2> QED BY <2>3
<1> QED BY <1>2, <1>3

(* PlanBatches is the loop's outcome.                                      *)
LEMMA PlanIsLoop ==
    \E last : Planned(last, NumFiles) /\ PlanBatches(size, options) = [f \in File |-> last[f].batch]
<1> DEFINE loop == CHOOSE last : Planned(last, NumFiles)
<1>1. Planned(loop, NumFiles)
      BY PlanExists, ConstantsTyped
<1>2. PlanBatches(size, options) = [f \in File |-> loop[f].batch]
      BY DEF PlanBatches, Planned
<1> QED BY <1>1, <1>2

(* A file adds itself to the share of its batch, and changes no other.     *)
LEMMA ShareGrows ==
    ASSUME NEW last, NEW i \in File, NEW b
    PROVE  /\ Share(last, i - 1, b) \in SUBSET (1 .. i - 1)
           /\ Share(last, i - 1, b) \in SUBSET File
           /\ i \in File \ Share(last, i - 1, b)
           /\ last[i].batch = b => Share(last, i, b) = Share(last, i - 1, b) \cup {i}
           /\ last[i].batch # b => Share(last, i, b) = Share(last, i - 1, b)
<1>1. 1 .. i = (1 .. i - 1) \cup {i} /\ i \notin 1 .. i - 1 /\ 1 .. i - 1 \subseteq File
      BY ConstantsTyped
<1> QED BY <1>1 DEF Share

(* Before the first file there is nothing to get wrong.                    *)
LEMMA PlanStarts ==
    ASSUME PlanTyped, NEW last, last[0] = [batch |-> 0, bytes |-> 0, count |-> 0]
    PROVE  PlanSound(last, 0)
<1>1. \A b : Share(last, 0, b) = {}
      BY DEF Share
<1>2. Cardinality({}) = 0 /\ TotalBytes({}) = 0
      BY FS_EmptySet, SumEmpty DEF TotalBytes
<1> QED BY <1>1, <1>2 DEF PlanSound

(* The next file joins the last batch, or closes it and begins another.    *)
LEMMA PlanGoesOn ==
    ASSUME PlanTyped, NEW last, NEW i \in File, PlanSound(last, i - 1),
           last[i] = AddFile(last[i - 1], size[i], options)
    PROVE  PlanSound(last, i)
<1> DEFINE was == last[i - 1]
           now == last[i]
           before(b) == Share(last, i - 1, b)
           after(b) == Share(last, i, b)
<1>1. /\ was \in [batch : Nat, bytes : Nat, count : Nat]
      /\ was.count = Cardinality(before(was.batch))
      /\ was.bytes = TotalBytes(before(was.batch))
      /\ i # 1 => was.count > 0
      /\ \A f \in 1 .. i - 1 : last[f].batch \in 1 .. was.batch
      /\ size[i] \in Nat /\ options.batchSize \in Nat \ {0} /\ options.maxFiles \in Nat \ {0}
      /\ now = AddFile(was, size[i], options)
      BY DEF PlanSound, PlanTyped
<1>2. ASSUME NEW b \in 1 .. was.batch
      PROVE  /\ before(b) # {}
             /\ Fits(before(b)) \/ Cardinality(before(b)) = 1
             /\ \A f \in before(b + 1) :
                  (\A g \in before(b + 1) : f <= g) => ~ Fits(before(b) \cup {f})
      BY DEF PlanSound
<1>3. ASSUME NEW b
      PROVE  /\ before(b) \in SUBSET (1 .. i - 1)
             /\ Cardinality(before(b)) \in Nat /\ TotalBytes(before(b)) \in Nat
             /\ Cardinality(before(b) \cup {i}) = Cardinality(before(b)) + 1
             /\ TotalBytes(before(b) \cup {i}) = TotalBytes(before(b)) + size[i]
             /\ now.batch = b => after(b) = before(b) \cup {i}
             /\ now.batch # b => after(b) = before(b)
      BY ShareGrows, OneFileMore
<1>4. 1 .. i = (1 .. i - 1) \cup {i} /\ last[i] = now
      BY ConstantsTyped
<1> HIDE DEF was, now, before, after
<1>e. i = 1 => \A b : before(b) = {} /\ Cardinality(before(b)) = 0
  <2>1. 1 .. 0 = {} /\ Cardinality({}) = 0
        BY FS_EmptySet
  <2>2. ASSUME i = 1, NEW b PROVE before(b) = {}
    <3>1. before(b) \in SUBSET (1 .. i - 1)
          BY <1>3
    <3>2. 1 .. i - 1 = {}
          BY <2>2
    <3> QED BY <3>1, <3>2
  <2> QED BY <2>1, <2>2
<1>5. CASE Joins(was, size[i], options)
  <2>1. /\ now \in [batch : Nat, bytes : Nat, count : Nat]
        /\ now.batch = was.batch
        /\ now.bytes = was.bytes + size[i]
        /\ now.count = was.count + 1
        /\ was.count > 0
        /\ was.bytes + size[i] <= options.batchSize
        /\ was.count < options.maxFiles
    <3>1. now = [was EXCEPT !.bytes = @ + size[i], !.count = @ + 1]
          BY <1>1, <1>5 DEF AddFile
    <3>2. /\ was.count > 0
          /\ was.bytes + size[i] <= options.batchSize
          /\ was.count < options.maxFiles
          BY <1>5 DEF Joins
    <3>3. /\ was.batch \in Nat /\ was.bytes \in Nat /\ was.count \in Nat
          /\ was = [batch |-> was.batch, bytes |-> was.bytes, count |-> was.count]
          BY <1>1
    <3>4. now = [batch |-> was.batch, bytes |-> was.bytes + size[i], count |-> was.count + 1]
          BY <3>1, <3>3
    <3>5. was.bytes + size[i] \in Nat /\ was.count + 1 \in Nat
          BY <1>1, <3>3
    <3> QED BY <3>2, <3>3, <3>4, <3>5
  <2>2. i - 1 \in 1 .. i - 1 /\ was.batch \in 1 .. was.batch
    <3>1. i # 1
          BY <1>1, <1>e, <2>1
    <3>2. i - 1 \in 1 .. i - 1
          BY <3>1, ConstantsTyped
    <3> QED BY <1>1, <3>2
  <2>3. /\ now.count = Cardinality(after(now.batch))
        /\ now.bytes = TotalBytes(after(now.batch))
    <3>1. now.batch = was.batch /\ after(now.batch) = before(was.batch) \cup {i}
          BY <1>3, <2>1
    <3> QED BY <1>1, <1>3, <2>1, <3>1
  <2>4. Fits(after(now.batch))
        BY <1>1, <2>1, <2>3 DEF Fits
  <2>5. \A f \in 1 .. i : last[f].batch \in 1 .. now.batch
        BY <1>1, <1>4, <2>1, <2>2
  <2>6. ASSUME NEW b \in 1 .. now.batch
        PROVE  /\ after(b) # {}
               /\ Fits(after(b)) \/ Cardinality(after(b)) = 1
        BY <1>2, <1>3, <2>1, <2>4
  <2>7. ASSUME NEW b \in 1 .. now.batch, NEW f \in after(b + 1),
               \A g \in after(b + 1) : f <= g
        PROVE  ~ Fits(after(b) \cup {f})
    <3>1. b # now.batch
      <4>1. b = now.batch => after(b + 1) = before(b + 1)
        <5>1. now.batch # b + 1 => after(b + 1) = before(b + 1)
              BY <1>3
        <5>2. now.batch \in Nat
              BY <2>1
        <5> QED BY <5>1, <5>2
      <4>2. \A g \in 1 .. i - 1 : last[g].batch # was.batch + 1
            BY <1>1
      <4>3. before(was.batch + 1) = {}
            BY <4>2 DEF before, Share
      <4> QED BY <2>1, <2>7, <4>1, <4>3
    <3>2. after(b) = before(b)
          BY <1>3, <3>1
    <3>3. f \in before(b + 1) /\ \A g \in before(b + 1) : f <= g
      <4>1. CASE b + 1 = now.batch
        <5>1. after(b + 1) = before(b + 1) \cup {i}
              BY <1>3, <4>1
        <5>2. PICK g \in before(b + 1) : TRUE
              BY <1>2, <2>1, <2>2, <4>1
        <5>3. g \in 1 .. i - 1
              BY <1>3
        <5>4. f # i
              BY <2>7, <5>1, <5>3
        <5> QED BY <2>7, <5>1, <5>4
      <4>2. CASE b + 1 # now.batch
            BY <1>3, <2>7, <4>2
      <4> QED BY <4>1, <4>2
    <3> QED BY <1>2, <2>1, <3>2, <3>3
  <2>8. i # 0 => now.count > 0
        BY <1>1, <2>1
  <2> QED BY <2>1, <2>3, <2>5, <2>6, <2>7, <2>8 DEF PlanSound, now, after
<1>6. CASE ~ Joins(was, size[i], options)
  <2>1. /\ now \in [batch : Nat, bytes : Nat, count : Nat]
        /\ now.batch = was.batch + 1
        /\ now.bytes = size[i]
        /\ now.count = 1
        BY <1>1, <1>6 DEF AddFile
  <2>n. now.batch = was.batch + 1 /\ was.batch \in Nat
        BY <1>1, <2>1
  <2>2. before(now.batch) = {} /\ after(now.batch) = {i}
    <3>1. \A g \in 1 .. i - 1 : last[g].batch # was.batch + 1
          BY <1>1
    <3>2. before(now.batch) = {}
          BY <2>1, <3>1 DEF before, Share
    <3> QED BY <1>3, <3>2
  <2>3. Cardinality(after(now.batch)) = 1 /\ TotalBytes(after(now.batch)) = size[i]
    <3>1. Cardinality({}) = 0 /\ TotalBytes({}) = 0
          BY FS_EmptySet, SumEmpty DEF TotalBytes
    <3>2. {i} = before(now.batch) \cup {i}
          BY <2>2
    <3> QED BY <1>1, <1>3, <2>2, <3>1, <3>2
  <2>4. \A f \in 1 .. i : last[f].batch \in 1 .. now.batch
        BY <1>1, <1>4, <2>1
  <2>5. ASSUME NEW b \in 1 .. now.batch
        PROVE  /\ after(b) # {}
               /\ Fits(after(b)) \/ Cardinality(after(b)) = 1
    <3>1. CASE b = now.batch
          BY <2>2, <2>3, <3>1
    <3>2. CASE b # now.batch
      <4>1. b \in 1 .. was.batch
            BY <2>n, <3>2
      <4>2. after(b) = before(b)
            BY <1>3, <3>2
      <4> QED BY <1>2, <4>1, <4>2
    <3> QED BY <3>1, <3>2
  <2>6. ASSUME NEW b \in 1 .. now.batch, NEW f \in after(b + 1),
               \A g \in after(b + 1) : f <= g
        PROVE  ~ Fits(after(b) \cup {f})
    <3>1. b # now.batch
      <4>1. \A g \in 1 .. i : last[g].batch # now.batch + 1
            BY <2>1, <2>4
      <4>2. after(now.batch + 1) = {}
            BY <4>1 DEF after, Share
      <4> QED BY <2>6, <4>2
    <3>2. b \in 1 .. was.batch /\ after(b) = before(b)
      <4>1. b \in 1 .. was.batch
            BY <2>n, <3>1
      <4>2. after(b) = before(b)
            BY <1>3, <3>1
      <4> QED BY <4>1, <4>2
    <3>3. CASE b = was.batch
      <4>1. f = i
            BY <2>1, <2>2, <2>6, <3>3
      <4>2. was.count > 0
        <5>1. i # 1
              BY <1>2, <1>e, <3>2
        <5> QED BY <1>1, <5>1
      <4>3. was.bytes + size[i] > options.batchSize \/ was.count + 1 > options.maxFiles
            BY <1>1, <1>6, <4>2 DEF Joins
      <4>4. /\ Cardinality(before(b) \cup {i}) = was.count + 1
            /\ TotalBytes(before(b) \cup {i}) = was.bytes + size[i]
            BY <1>1, <1>3, <3>3
      <4> QED BY <1>1, <3>2, <4>1, <4>3, <4>4 DEF Fits
    <3>4. CASE b # was.batch
      <4>1. after(b + 1) = before(b + 1)
        <5>1. now.batch # b + 1 => after(b + 1) = before(b + 1)
              BY <1>3
        <5> QED BY <2>n, <3>4, <5>1
      <4> QED BY <1>2, <2>6, <3>2, <4>1
    <3> QED BY <3>3, <3>4
  <2> QED BY <2>1, <2>3, <2>4, <2>5, <2>6 DEF PlanSound, now, after
<1> QED BY <1>5, <1>6

(* So the loop is right after every file. *)
LEMMA PlanStaysSound ==
    ASSUME PlanTyped, NEW last, Planned(last, NumFiles)
    PROVE  \A i \in 0 .. NumFiles : PlanSound(last, i)
<1> DEFINE T == {i \in 0 .. NumFiles : ~ PlanSound(last, i)}
<1> SUFFICES ASSUME T # {} PROVE FALSE
    OBVIOUS
<1>1. PICK i \in T : \A j \in T : i <= j
  <2>1. T \in SUBSET Nat
        BY ConstantsTyped
  <2> HIDE DEF T
  <2> QED BY <2>1, LeastNumber
<1>2. CASE i = 0
  <2>1. last[0] = [batch |-> 0, bytes |-> 0, count |-> 0]
        BY ConstantsTyped DEF Planned
  <2> QED BY <1>1, <1>2, <2>1, PlanStarts
<1>3. CASE i # 0
  <2>1. i \in File /\ i - 1 \in 0 .. NumFiles /\ i - 1 \notin T
        BY <1>1, <1>3, ConstantsTyped
  <2>2. last[i] = AddFile(last[i - 1], size[i], options)
        BY <2>1, <1>3 DEF Planned
  <2>3. PlanSound(last, i - 1)
        BY <2>1
  <2>4. PlanSound(last, i)
        BY <2>1, <2>2, <2>3, PlanGoesOn
  <2> QED BY <1>1, <2>4
<1> QED BY <1>2, <1>3

(* What the loop knows at its end is what the plan promises.               *)
LEMMA SoundPlanIsGreedy ==
    ASSUME PlanTyped, batchOf = PlanBatches(size, options)
    PROVE  PlanIsGreedy
<1>1. PICK last : Planned(last, NumFiles) /\ batchOf = [f \in File |-> last[f].batch]
      BY PlanIsLoop
<1>2. \A i \in 0 .. NumFiles : PlanSound(last, i)
      BY <1>1, PlanStaysSound
<1> DEFINE B == last[NumFiles].batch
<1>3. /\ B \in Nat
      /\ \A f \in File : batchOf[f] = last[f].batch /\ batchOf[f] \in 1 .. B
      /\ \A b : Share(last, NumFiles, b) = FilesOf(b)
  <2>1. PlanSound(last, NumFiles)
        BY <1>2, ConstantsTyped
  <2>2. B \in Nat /\ \A f \in File : last[f].batch \in 1 .. B
        BY <2>1 DEF PlanSound
  <2>3. \A f \in File : batchOf[f] = last[f].batch
        BY <1>1
  <2>4. \A b : Share(last, NumFiles, b) = FilesOf(b)
        BY <2>3 DEF Share, FilesOf
  <2> QED BY <2>2, <2>3, <2>4
<1>4. \A b \in 1 .. B :
         /\ FilesOf(b) # {}
         /\ Fits(FilesOf(b)) \/ Cardinality(FilesOf(b)) = 1
         /\ \A f \in FilesOf(b + 1) :
              (\A g \in FilesOf(b + 1) : f <= g) => ~ Fits(FilesOf(b) \cup {f})
  <2>1. PlanSound(last, NumFiles)
        BY <1>2, ConstantsTyped
  <2>2. \A b : Share(last, NumFiles, b) = FilesOf(b)
        BY <1>3
  <2> QED BY <2>1, <2>2 DEF PlanSound
<1> HIDE DEF B
<1>5. \A f, g \in File : f <= g => batchOf[f] <= batchOf[g]
  <2> SUFFICES ASSUME NEW f \in File, NEW g \in File, f <= g PROVE batchOf[f] <= batchOf[g]
      OBVIOUS
  <2>1. PlanSound(last, g) /\ f \in 1 .. g
        BY <1>2, ConstantsTyped
  <2>2. last[f].batch \in 1 .. last[g].batch /\ last[g].batch \in Nat
        BY <2>1 DEF PlanSound
  <2> QED BY <1>3, <2>2
<1>6. {batchOf[f] : f \in File} = 1 .. Cardinality({batchOf[f] : f \in File})
  <2>1. ASSUME NEW b \in 1 .. B PROVE \E f \in File : batchOf[f] = b
        BY <1>4 DEF FilesOf
  <2>2. {batchOf[f] : f \in File} = 1 .. B
        BY <1>3, <2>1
  <2>3. Cardinality(1 .. B) = B
    <3>1. Cardinality(1 .. B) = IF 1 > B THEN 0 ELSE B - 1 + 1
          BY <1>3, FS_Interval
    <3> QED BY <1>3, <3>1
  <2> QED BY <2>2, <2>3
<1>7. ASSUME NEW b \in Batch, FilesOf(b) # {}
      PROVE  b \in 1 .. B
      BY <1>3, <1>7 DEF FilesOf
<1>8. ASSUME NEW b \in Batch, FilesOf(b + 1) # {}
      PROVE  LET f == CHOOSE f \in FilesOf(b + 1) : \A g \in FilesOf(b + 1) : f <= g
             IN  f \in FilesOf(b + 1) /\ \A g \in FilesOf(b + 1) : f <= g
  <2>1. FilesOf(b + 1) \in SUBSET Nat
        BY ConstantsTyped DEF FilesOf
  <2>2. \E f \in FilesOf(b + 1) : \A g \in FilesOf(b + 1) : f <= g
        BY <1>8, <2>1, LeastNumber
  <2> QED BY <2>2
<1> QED BY <1>4, <1>5, <1>6, <1>7, <1>8 DEF PlanIsGreedy

(* The plan is made once, and what it was made from does not change.       *)
PlanInv == PlanTyped /\ batchOf = PlanBatches(size, options)

(* batch::plan_batches serves every batch as many of the next files as     *)
(* --batch-size and --max-files let it take.                               *)
THEOREM PlansAreGreedy == Spec => []PlanIsGreedy
<1>1. Init => PlanInv
  <2> SUFFICES ASSUME Init PROVE PlanInv
      OBVIOUS
  <2>1. size \in [File -> Nat]
        BY SizesAssumption DEF Init
  <2>2. options \in [batchSize : Nat \ {0}, maxFiles : Nat \ {0}]
        BY BatchSizesAssumption, MaxFilesAssumption DEF Init
  <2> QED BY <2>1, <2>2 DEF Init, PlanInv, PlanTyped
<1>2. PlanInv /\ [Next]_vars => PlanInv'
  <2>1. [Next]_vars => UNCHANGED <<size, options, batchOf>>
        BY DEF Next, vars, source, StartCopy, Verify, CheckSpace, BeginFile, RemoveSource,
               WriteByte, FallBack, FinishWrite, SyncData, Rename, SyncParents, RecordCopy,
               Fail, PowerLoss, OthersWrite
  <2>2. UNCHANGED <<size, options, batchOf>> /\ PlanInv => PlanInv'
        BY DEF PlanInv, PlanTyped
  <2> QED BY <2>1, <2>2
<1>3. PlanInv => PlanIsGreedy
      BY SoundPlanIsGreedy DEF PlanInv
<1> QED BY <1>1, <1>2, <1>3, PTL DEF Spec

-----------------------------------------------------------------------------
(* A fresh destination keeps nothing. *)
LEMMA NothingKeptYet == Init => Kept!Init
<1> SUFFICES ASSUME Init PROVE Kept!Init
    OBVIOUS
<1>1. KeptFiles = {}
  <2>1. ASSUME NEW f \in File PROVE durable[f] # {size[f]}
    <3>1. durable[f] = {NoFile} /\ size[f] \in Nat
          BY ConstantsTyped DEF Init
    <3>2. NoFile \notin {size[f]}
          BY <3>1, ConstantsTyped
    <3> QED BY <3>1, <3>2
  <2> QED BY <2>1 DEF KeptFiles, Survives
<1>2. Guarded \in SUBSET File
      BY DEF Guarded
<1>3. FilesOfAll(copied) = {} /\ FilesOfAll(verified) = {}
      BY DEF Init, FilesOfAll
<1> QED BY <1>1, <1>2, <1>3 DEF Init, Kept!Init

(* Steps that leave records, removals and what is durable leave the chain. *)
LEMMA ChainStutters ==
    UNCHANGED <<source, removed, durable, entered, copied, verified>> => UNCHANGED Kept!keptVars
BY DEF source, Kept!keptVars, KeptFiles, Survives, FilesOfAll, Guarded, FilesOf, HasBarriers

(* Steps that change only what is durable settle files, as long as no file *)
(* a barrier has made safe becomes unsafe again.                           *)
LEMMA Settles ==
    ASSUME UNCHANGED <<source, removed, copied, verified>>,
           \A f \in Guarded : Survives(f) => Survives(f)'
    PROVE  Kept!Settle
<1>1. UNCHANGED <<Guarded, FilesOfAll(copied), FilesOfAll(verified), removed>>
      BY DEF source, FilesOfAll, Guarded, FilesOf, HasBarriers
<1>2. KeptFiles' \in SUBSET File
      BY DEF KeptFiles
<1>3. KeptFiles \cap Guarded \subseteq KeptFiles'
      BY DEF KeptFiles
<1> QED BY <1>1, <1>2, <1>3 DEF Kept!Settle

(* Each step of the copy is a step of the chain, or none.                  *)
LEMMA CopyKeeps == CopyInv /\ [Next]_vars => [Kept!Next]_(Kept!keptVars)
<1> SUFFICES ASSUME CopyInv, [Next]_vars PROVE Kept!Next \/ UNCHANGED Kept!keptVars
    OBVIOUS
<1> USE DEF CopyInv
<1>g. UNCHANGED source => UNCHANGED Guarded
      BY DEF Guarded, HasBarriers, FilesOf, source
<1>k. UNCHANGED <<source, durable, entered>> => UNCHANGED KeptFiles
      BY DEF KeptFiles, Survives, source
<1>1. ASSUME NEW b \in Batch, Verify(b) PROVE Kept!Next
  <2>1. /\ FilesOf(b) \in SUBSET File
        /\ FilesOf(b) \subseteq FilesOfAll(copied)
        /\ FilesOfAll(verified \cup {b}) = FilesOfAll(verified) \cup FilesOf(b)
        BY <1>1 DEF Verify, FilesOf, FilesOfAll
  <2>2. /\ verified' = verified \cup {b}
        /\ UNCHANGED <<source, removed, durable, entered, copied>>
        BY <1>1 DEF Verify, dirs
  <2>3. Kept!Trust(FilesOf(b))
        BY <1>g, <1>k, <2>1, <2>2 DEF Kept!Trust, source, FilesOfAll
  <2> QED BY <2>1, <2>3 DEF Kept!Next
<1>2. CASE CheckSpace
  <2>1. CASE UNCHANGED <<copied, verified>>
        BY <1>2, <2>1, ChainStutters DEF CheckSpace
  <2>2. CASE copied' = copied \ {current} /\ verified' = verified \ {current}
    <3>1. /\ FilesOf(current) \in SUBSET File
          /\ FilesOf(current) \cap removed = {}
          /\ FilesOfAll(copied \ {current}) = FilesOfAll(copied) \ FilesOf(current)
          /\ FilesOfAll(verified \ {current}) = FilesOfAll(verified) \ FilesOf(current)
          BY <1>2 DEF CheckSpace, FilesOf, FilesOfAll, RemovedWereVerified
    <3>2. UNCHANGED <<source, removed, durable, entered>>
          BY <1>2 DEF CheckSpace
    <3>3. Kept!TakeBack(FilesOf(current))
          BY <1>g, <1>k, <2>2, <3>1, <3>2 DEF Kept!TakeBack, source, FilesOfAll
    <3> QED BY <3>1, <3>3 DEF Kept!Next
  <2> QED BY <1>2, <2>1, <2>2 DEF CheckSpace
<1>3. ASSUME NEW f \in File, RemoveSource(f) PROVE Kept!Next
  <2>1. Kept!Release(f)
        BY <1>3, <1>g, <1>k DEF RemoveSource, Kept!Release, source, FilesOfAll, dirs
  <2> QED BY <2>1 DEF Kept!Next
<1>4. CASE Rename
  <2>1. /\ file \in File
        /\ durable' = [durable EXCEPT ![file] = @ \cup Remains(file)]
        /\ UNCHANGED <<source, removed, copied, verified, entered, size>>
        BY <1>4 DEF Rename, TypeOK, Copying, FilesOf, dirs, source
  <2>2. HasBarriers => Remains(file) = {size[file]}
        BY DEF HasBarriers, Remains
  <2>3. \A f \in Guarded : Survives(f) => Survives(f)'
        BY <2>1, <2>2 DEF TypeOK, Survives, Guarded
  <2>4. Kept!Settle
        BY <2>1, <2>3, Settles
  <2> QED BY <2>4 DEF Kept!Next
<1>5. CASE SyncParents \/ PowerLoss
  <2>1. UNCHANGED <<source, removed, copied, verified>>
        BY <1>5 DEF SyncParents, PowerLoss
  <2>2. \A f \in Guarded : Survives(f) => Survives(f)'
        BY <1>5, SyncSurvives, LossSurvives DEF Guarded
  <2>3. Kept!Settle
        BY <2>1, <2>2, Settles
  <2> QED BY <2>3 DEF Kept!Next
<1>6. CASE RecordCopy
  <2>1. /\ FilesOf(current) \in SUBSET File
        /\ FilesOf(current) \cap Guarded \subseteq KeptFiles
        /\ FilesOfAll(copied \cup {current}) = FilesOfAll(copied) \cup FilesOf(current)
        BY <1>6 DEF RecordCopy, FilesOf, FilesOfAll, CopyProgress, KeptFiles
  <2>2. copied' = copied \cup {current}
        /\ UNCHANGED <<source, removed, durable, entered, verified>>
        BY <1>6 DEF RecordCopy, dirs
  <2>3. Kept!Record(FilesOf(current))
        BY <1>g, <1>k, <2>1, <2>2 DEF Kept!Record, source, FilesOfAll
  <2> QED BY <2>1, <2>3 DEF Kept!Next
<1>7. CASE \/ \E b \in Batch : StartCopy(b)
           \/ \E f \in File : BeginFile(f)
           \/ WriteByte \/ FallBack \/ FinishWrite \/ SyncData \/ Fail \/ OthersWrite
           \/ UNCHANGED vars
  <2>1. UNCHANGED <<source, removed, durable, entered, copied, verified>>
        BY <1>7 DEF StartCopy, BeginFile, WriteByte, FallBack, FinishWrite, SyncData, Fail,
                    OthersWrite, vars, dirs
  <2> QED BY <2>1, ChainStutters
<1> QED BY <1>1, <1>2, <1>3, <1>4, <1>5, <1>6, <1>7 DEF Next

(* The copy of batches serves their deletion as KeptCopies says, for every *)
(* plan, number of batches, failures and power losses.                     *)
THEOREM CopiesServeDeletion == Spec => CopiesAreKept
<1>1. CopyInv /\ [Next]_vars => [Kept!Next]_(Kept!keptVars)
      BY CopyKeeps
<1> QED BY <1>1, NothingKeptYet, CopyInvariantHolds, PTL DEF Spec, CopiesAreKept, Kept!Spec

(* What KeptCopies promises of its own: a released file that is guarded is *)
(* kept.                                                                   *)
THEOREM ReleasedAreKept == CopiesAreKept => []Kept!Chain
<1>1. Kept!Init => Kept!Chain
      BY DEF Kept!Init, Kept!Chain
<1>2. Kept!Chain /\ [Kept!Next]_(Kept!keptVars) => Kept!Chain'
  <2> SUFFICES ASSUME Kept!Chain, [Kept!Next]_(Kept!keptVars) PROVE Kept!Chain'
      OBVIOUS
  <2> USE DEF Kept!Chain
  <2>1. CASE Kept!Settle
        BY <2>1 DEF Kept!Settle
  <2>2. ASSUME NEW files \in SUBSET File,
               Kept!Record(files) \/ Kept!Trust(files) \/ Kept!TakeBack(files)
        PROVE  Kept!Chain'
    <3>1. CASE Kept!Record(files)
          BY <3>1 DEF Kept!Record
    <3>2. CASE Kept!Trust(files)
          BY <3>2 DEF Kept!Trust
    <3>3. CASE Kept!TakeBack(files)
          BY <3>3 DEF Kept!TakeBack
    <3> QED BY <2>2, <3>1, <3>2, <3>3
  <2>3. ASSUME NEW f \in File, Kept!Release(f) PROVE Kept!Chain'
        BY <2>3 DEF Kept!Release
  <2>4. CASE UNCHANGED Kept!keptVars
        BY <2>4 DEF Kept!keptVars
  <2> QED BY <2>1, <2>2, <2>3, <2>4 DEF Kept!Next
<1> QED BY <1>1, <1>2, PTL DEF CopiesAreKept, Kept!Spec
=============================================================================
