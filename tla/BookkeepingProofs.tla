------------------------- MODULE BookkeepingProofs -------------------------
(***************************************************************************)
(* The registry shows one status per destination, and the ledger and the   *)
(* skips rest on recorded copies, for any number of files, destinations,   *)
(* commands and changes to the source.                                     *)
(***************************************************************************)
EXTENDS Bookkeeping, TLAPS

-----------------------------------------------------------------------------
(* The operations on the registry. *)

(* A saved intent is the effective status; nothing else changes. *)
LEMMA BeginFacts ==
    ASSUME NEW es \in Seq(Entry), NEW i \in 1 .. Len(es), NEW s \in Status
    PROVE  LET new == BeginTransition(es, i, s)
           IN /\ new \in Seq(Entry) /\ Len(new) = Len(es)
              /\ \A j \in 1 .. Len(es) : new[j].dest = es[j].dest
              /\ \A j \in 1 .. Len(es) : j # i => new[j] = es[j]
              /\ new[i].pending = s /\ Effective(new[i]) = s
  <1>0. es[i] \in Entry
    OBVIOUS
  <1>1. [es[i] EXCEPT !.pending = s] \in Entry
    BY <1>0 DEF Entry
  <1>2. BeginTransition(es, i, s) = [es EXCEPT ![i] = [es[i] EXCEPT !.pending = s]]
    BY DEF BeginTransition
  <1>3. BeginTransition(es, i, s) \in Seq(Entry) /\ Len(BeginTransition(es, i, s)) = Len(es)
    BY <1>1, <1>2
  <1>4. \A j \in 1 .. Len(es) : es[j] \in Entry
    OBVIOUS
  <1>5. /\ BeginTransition(es, i, s)[i] = [es[i] EXCEPT !.pending = s]
        /\ \A j \in 1 .. Len(es) : j # i => BeginTransition(es, i, s)[j] = es[j]
    BY <1>2
  <1>6. QED
    BY <1>1, <1>3, <1>4, <1>5, NoStatusAssumption DEF Entry, Effective

(* A commit keeps the effective status of every entry. *)
LEMMA CommitFacts ==
    ASSUME NEW es \in Seq(Entry), NEW i \in 1 .. Len(es)
    PROVE  LET new == CommitTransition(es, i)
           IN /\ new \in Seq(Entry) /\ Len(new) = Len(es)
              /\ \A j \in 1 .. Len(es) : new[j].dest = es[j].dest
              /\ \A j \in 1 .. Len(es) : Effective(new[j]) = Effective(es[j])
  <1> DEFINE e == [es[i] EXCEPT !.status = Effective(es[i]), !.pending = NoStatus]
  <1>1. \A j \in 1 .. Len(es) : es[j] \in Entry
    OBVIOUS
  <1>2. Effective(es[i]) \in Status
    BY <1>1 DEF Entry, Effective
  <1>3. e \in Entry /\ e.dest = es[i].dest /\ Effective(e) = Effective(es[i])
    BY <1>1, <1>2, NoStatusAssumption DEF Entry, Effective
  <1>4. CommitTransition(es, i) = [es EXCEPT ![i] = e]
    BY DEF CommitTransition
  <1> HIDE DEF e
  <1>5. /\ CommitTransition(es, i) \in Seq(Entry)
        /\ Len(CommitTransition(es, i)) = Len(es)
        /\ CommitTransition(es, i)[i] = e
        /\ \A j \in 1 .. Len(es) : j # i => CommitTransition(es, i)[j] = es[j]
    BY <1>3, <1>4
  <1>6. QED
    BY <1>3, <1>5

(* A new entry is the last and is not started; the others stay. *)
LEMMA AddFacts ==
    ASSUME NEW es \in Seq(Entry), NEW d \in Dest
    PROVE  LET new == AddMigration(es, d)
           IN /\ new \in Seq(Entry) /\ Len(new) = Len(es) + 1
              /\ \A j \in 1 .. Len(es) : new[j] = es[j]
              /\ new[Len(es) + 1].dest = d
              /\ Effective(new[Len(es) + 1]) = "NotStarted"
  <1>1. [dest |-> d, status |-> "NotStarted", pending |-> NoStatus] \in Entry
    BY DEF Entry, Status
  <1>2. QED
    BY <1>1 DEF AddMigration, Effective

(* With at most one unfinished entry, first and last are the same. *)
LEMMA LookupFacts ==
    ASSUME TypeOK, OnlyNewestUnfinished, NEW d \in Dest
    PROVE  /\ FindBySourceDest(entries, d) = ActiveIds(entries, d)
           /\ FindActive(entries, d) = ActiveIds(entries, d)
           /\ \A i \in ActiveIds(entries, d) :
                 /\ i \in IdsOf(entries, d) /\ Unfinished(entries[i])
                 /\ \A j \in IdsOf(entries, d) : j <= i
  <1>1. Len(entries) \in Nat
    BY DEF TypeOK
  <1>2. \A i \in ActiveIds(entries, d) : \A j \in IdsOf(entries, d) : j <= i
    BY <1>1 DEF OnlyNewestUnfinished, ActiveIds, IdsOf
  <1>3. \A i, j \in ActiveIds(entries, d) : i = j
    BY <1>1, <1>2 DEF ActiveIds, IdsOf
  <1>4. QED
    BY <1>1, <1>2, <1>3 DEF FindBySourceDest, FindActive, ActiveIds, IdsOf

-----------------------------------------------------------------------------
(* The operations on the states. *)

(* The fields of a state record. *)
LEMMA StateFacts ==
    ASSUME TypeOK, NEW d \in Dest, states[d] # NoState
    PROVE  /\ states[d] \in StateRecord
           /\ states[d].phase \in [File -> Phase]
           /\ states[d].size \in [File -> Nat]
           /\ states[d].skipped \subseteq Identity
  BY DEF TypeOK, StateRecord

(* One batch of the command's destination enters another phase. *)
LEMMA PhaseFacts ==
    ASSUME TypeOK, job.dest \in Dest, State # NoState,
           NEW f \in File, NEW p \in Phase, SetPhase(f, p)
    PROVE  /\ states' \in [Dest -> StateRecord \cup {NoState}]
           /\ \A d \in Dest : d # job.dest => states'[d] = states[d]
           /\ states'[job.dest] # NoState
           /\ states'[job.dest].size = State.size
           /\ states'[job.dest].skipped = State.skipped
           /\ states'[job.dest].phase[f] = p
           /\ \A g \in File : g # f => states'[job.dest].phase[g] = PhaseOf(g)
  <1> DEFINE r == [State EXCEPT !.phase = [State.phase EXCEPT ![f] = p]]
  <1>1. State \in StateRecord /\ State.phase \in [File -> Phase]
    BY StateFacts DEF State
  <1>2. r \in StateRecord
    BY <1>1 DEF StateRecord
  <1>3. states' = [states EXCEPT ![job.dest] = r]
    BY DEF SetPhase, State
  <1>4. r.size = State.size /\ r.skipped = State.skipped /\ r.phase[f] = p
        /\ \A g \in File : g # f => r.phase[g] = State.phase[g]
    BY <1>1 DEF StateRecord
  <1> HIDE DEF r
  <1>5. states'[job.dest] = r /\ \A d \in Dest : d # job.dest => states'[d] = states[d]
    BY <1>3 DEF TypeOK
  <1>6. states' \in [Dest -> StateRecord \cup {NoState}]
    BY <1>2, <1>3 DEF TypeOK
  <1>7. QED
    BY <1>2, <1>4, <1>5, <1>6, NoStateAssumption DEF PhaseOf

(* Approval moves the verified batches on, and no others. *)
LEMMA ApproveFacts ==
    ASSUME TypeOK, job.dest \in Dest, State # NoState, Approve
    PROVE  /\ states' \in [Dest -> StateRecord \cup {NoState}]
           /\ \A d \in Dest : d # job.dest => states'[d] = states[d]
           /\ states'[job.dest] # NoState
           /\ states'[job.dest].size = State.size
           /\ states'[job.dest].skipped = State.skipped
           /\ \A g \in File :
                 states'[job.dest].phase[g] =
                    IF PhaseOf(g) = "Verified" THEN "Approved" ELSE PhaseOf(g)
  <1> DEFINE ph == [f \in File |-> IF PhaseOf(f) = "Verified" THEN "Approved"
                                                              ELSE PhaseOf(f)]
             r == [State EXCEPT !.phase = ph]
  <1>1. State \in StateRecord /\ State.phase \in [File -> Phase]
    BY StateFacts DEF State
  <1>2. ph \in [File -> Phase]
    BY <1>1 DEF PhaseOf, Phase
  <1>3. r \in StateRecord
    BY <1>1, <1>2 DEF StateRecord
  <1>4. states' = [states EXCEPT ![job.dest] = r]
    BY DEF Approve, State
  <1>5. r.size = State.size /\ r.skipped = State.skipped /\ r.phase = ph
    BY <1>1 DEF StateRecord
  <1>6. \A g \in File : ph[g] = IF PhaseOf(g) = "Verified" THEN "Approved"
                                                           ELSE PhaseOf(g)
    OBVIOUS
  <1> HIDE DEF r, ph
  <1>7. states'[job.dest] = r /\ \A d \in Dest : d # job.dest => states'[d] = states[d]
    BY <1>4 DEF TypeOK
  <1>8. states' \in [Dest -> StateRecord \cup {NoState}]
    BY <1>3, <1>4 DEF TypeOK
  <1>9. QED
    BY <1>3, <1>5, <1>6, <1>7, <1>8, NoStateAssumption

(* The plan of a new migration, and its skips. *)
LEMMA NewStateFacts ==
    ASSUME TypeOK
    PROVE  LET r == NewState(ledger, content)
           IN /\ r \in StateRecord
              /\ r.skipped = {e \in ledger : content[e.path] = e.content}
              /\ \A f \in File : r.phase[f] \in {"Planned", "Unplanned"}
              /\ \A f \in File : r.phase[f] = "Planned" =>
                    content[f] # Gone /\ \A e \in r.skipped : e.path # f
  <1> DEFINE s == Skips(ledger, content)
             pl == {f \in Scan(content) : \A e \in s : e.path # f}
             ph == [f \in File |-> IF f \in pl THEN "Planned" ELSE "Unplanned"]
             sz == [f \in File |-> IF f \in pl THEN SizeOf[content[f]] ELSE 0]
  <1>1. s \subseteq Identity /\ s = {e \in ledger : content[e.path] = e.content}
    BY DEF TypeOK, Skips
  <1>2. ph \in [File -> Phase]
    BY DEF Phase
  <1>3. \A f \in pl : content[f] \in Content
    BY DEF TypeOK, Scan
  <1>4. sz \in [File -> Nat]
    BY <1>3, SizeAssumption
  <1>5. NewState(ledger, content) = [phase |-> ph, size |-> sz, skipped |-> s]
    BY DEF NewState
  <1>6. \A f \in File : ph[f] = IF f \in pl THEN "Planned" ELSE "Unplanned"
    OBVIOUS
  <1>7. \A f \in File : f \in pl <=> content[f] # Gone /\ \A e \in s : e.path # f
    BY DEF Scan
  <1> HIDE DEF s, pl, ph, sz
  <1>8. [phase |-> ph, size |-> sz, skipped |-> s] \in StateRecord
    BY <1>1, <1>2, <1>4 DEF StateRecord
  <1>9. QED
    BY <1>1, <1>5, <1>6, <1>7, <1>8

-----------------------------------------------------------------------------
(* The registry: OnlyNewestUnfinished and JobEntry are inductive. *)

RegistryInv == OnlyNewestUnfinished /\ JobEntry

(* register_or_reuse_migration gives the command the newest entry. *)
LEMMA RegisterKeeps ==
    ASSUME BookInv, Register
    PROVE  RegistryInv'
  <1>1. TypeOK /\ job.dest \in Dest /\ Len(entries) \in Nat
    BY DEF BookInv, TypeOK, JobEntry, Register
  <1>2. FindBySourceDest(entries, job.dest) = ActiveIds(entries, job.dest)
    BY <1>1, LookupFacts DEF BookInv
  <1>3. CASE ActiveIds(entries, job.dest) # {}
    <2>1. id' \in ActiveIds(entries, job.dest) /\ entries' = entries
      BY <1>2, <1>3 DEF Register
    <2>2. /\ id' \in IdsOf(entries, job.dest) /\ Unfinished(entries[id'])
          /\ \A j \in IdsOf(entries, job.dest) : j <= id'
      BY <1>1, <2>1, LookupFacts DEF BookInv
    <2>3. id' # 0
      BY <2>2 DEF IdsOf
    <2>4. JobEntry'
      BY <1>1, <2>1, <2>2, <2>3 DEF Register, JobEntry, BookInv, IdsOf, Status, Ended
    <2>5. QED
      BY <2>1, <2>4 DEF RegistryInv, BookInv, OnlyNewestUnfinished, IdsOf
  <1>4. CASE ActiveIds(entries, job.dest) = {}
    <2>1. entries' = AddMigration(entries, job.dest) /\ id' = Len(entries) + 1
      BY <1>2, <1>4 DEF Register
    <2>2. /\ Len(entries') = Len(entries) + 1
          /\ \A j \in 1 .. Len(entries) : entries'[j] = entries[j]
          /\ entries'[Len(entries) + 1].dest = job.dest
          /\ Effective(entries'[Len(entries) + 1]) = "NotStarted"
      BY <1>1, <2>1, AddFacts DEF TypeOK
    <2>3. \A j \in IdsOf(entries, job.dest) : ~ Unfinished(entries[j])
      BY <1>4 DEF ActiveIds
    <2>4. OnlyNewestUnfinished'
      <3>1. SUFFICES ASSUME NEW d \in Dest, NEW i \in IdsOf(entries', d),
                            NEW j \in IdsOf(entries', d), i < j
                     PROVE  ~ Unfinished(entries'[i])
        BY DEF OnlyNewestUnfinished
      <3>2. i \in 1 .. Len(entries) /\ entries'[i] = entries[i] /\ i \in IdsOf(entries, d)
        BY <1>1, <2>2, <3>1 DEF IdsOf
      <3>3. CASE j \in 1 .. Len(entries)
        BY <1>1, <2>2, <3>1, <3>2, <3>3 DEF IdsOf, BookInv, OnlyNewestUnfinished
      <3>4. CASE j = Len(entries) + 1
        BY <2>2, <2>3, <3>1, <3>2, <3>4 DEF IdsOf
      <3>5. QED
        BY <1>1, <2>2, <3>3, <3>4 DEF IdsOf
    <2>5. /\ id' \in IdsOf(entries', job.dest)
          /\ \A j \in IdsOf(entries', job.dest) : j <= id'
      BY <1>1, <2>1, <2>2 DEF IdsOf
    <2>6. Unfinished(entries'[id'])
      BY <2>1, <2>2 DEF Unfinished, Ended
    <2>7. JobEntry'
      BY <1>1, <2>1, <2>5, <2>6 DEF Register, JobEntry, BookInv, Status, Ended
    <2>8. QED
      BY <2>4, <2>7 DEF RegistryInv
  <1>5. QED
    BY <1>3, <1>4

(* find_active_migration_id_for_state, where there is an entry. *)
LEMMA FindEntryKeeps ==
    ASSUME BookInv, FindEntry
    PROVE  RegistryInv'
  <1>1. TypeOK /\ job.dest \in Dest /\ OnlyNewestUnfinished /\ entries' = entries
    BY DEF BookInv, TypeOK, JobEntry, FindEntry, durable
  <1>2. FindActive(entries, job.dest) = ActiveIds(entries, job.dest)
    BY <1>1, LookupFacts
  <1>3. \/ /\ id' \in ActiveIds(entries, job.dest)
           /\ pc' = "Begin" /\ target' = "Running" /\ then' = "Review"
        \/ /\ pc' = "Review" /\ id' = id
    BY <1>2 DEF FindEntry
  <1>4. id' = 0 \/ /\ id' \in IdsOf(entries, job.dest) /\ id' # 0
                   /\ Unfinished(entries[id'])
                   /\ \A j \in IdsOf(entries, job.dest) : j <= id'
    BY <1>1, <1>3, LookupFacts DEF FindEntry, BookInv, JobEntry, IdsOf
  <1>5. job' = job /\ job # NoJob /\ id = 0 /\ pc = "Check"
    BY DEF FindEntry, BookInv, JobEntry
  <1>6. CASE pc' = "Review" /\ id' = id
    BY <1>1, <1>5, <1>6 DEF JobEntry, RegistryInv, OnlyNewestUnfinished, IdsOf
  <1>7. CASE /\ id' \in ActiveIds(entries, job.dest)
             /\ pc' = "Begin" /\ target' = "Running" /\ then' = "Review"
    <2>1. id' # 0
      BY <1>7 DEF ActiveIds, IdsOf
    <2>2. JobEntry'
      BY <1>1, <1>4, <1>5, <1>7, <2>1 DEF JobEntry, IdsOf, Status, Ended
    <2>3. QED
      BY <1>1, <2>2 DEF RegistryInv, OnlyNewestUnfinished, IdsOf
  <1>8. QED
    BY <1>3, <1>6, <1>7

(* The first save of a status transition. *)
LEMMA BeginKeeps ==
    ASSUME BookInv, Begin
    PROVE  RegistryInv'
  <1>1. /\ TypeOK /\ id # 0 /\ target \in Status /\ id \in IdsOf(entries, job.dest)
        /\ \A j \in IdsOf(entries, job.dest) : j <= id
        /\ id \in 1 .. Len(entries) /\ Len(entries) \in Nat
    BY DEF BookInv, TypeOK, JobEntry, Begin, IdsOf
  <1>2. /\ Len(entries') = Len(entries)
        /\ \A j \in 1 .. Len(entries) : entries'[j].dest = entries[j].dest
        /\ \A j \in 1 .. Len(entries) : j # id => entries'[j] = entries[j]
        /\ entries'[id].pending = target
    BY <1>1, BeginFacts DEF Begin, TypeOK
  <1>3. \A d \in Dest : IdsOf(entries', d) = IdsOf(entries, d)
    BY <1>2 DEF IdsOf
  <1>4. OnlyNewestUnfinished'
    <2>1. SUFFICES ASSUME NEW d \in Dest, NEW i \in IdsOf(entries, d),
                          NEW j \in IdsOf(entries, d), i < j
                   PROVE  ~ Unfinished(entries'[i])
      BY <1>3 DEF OnlyNewestUnfinished
    <2>2. i # id
      BY <1>1, <2>1 DEF IdsOf
    <2>3. entries'[i] = entries[i]
      BY <1>2, <2>1, <2>2 DEF IdsOf
    <2>4. QED
      BY <2>1, <2>3 DEF BookInv, OnlyNewestUnfinished
  <1>5. JobEntry'
    BY <1>1, <1>2, <1>3 DEF Begin, running, BookInv, JobEntry
  <1>6. QED
    BY <1>4, <1>5 DEF RegistryInv

(* The second save. *)
LEMMA CommitKeeps ==
    ASSUME BookInv, Commit
    PROVE  RegistryInv'
  <1>1. /\ TypeOK /\ id # 0 /\ target \in Status /\ id \in IdsOf(entries, job.dest)
        /\ \A j \in IdsOf(entries, job.dest) : j <= id
        /\ id \in 1 .. Len(entries) /\ Len(entries) \in Nat
        /\ entries[id].pending = target
        /\ target \in Ended => then = "Idle"
    BY DEF BookInv, TypeOK, JobEntry, Commit, IdsOf
  <1>2. /\ Len(entries') = Len(entries)
        /\ \A j \in 1 .. Len(entries) : entries'[j].dest = entries[j].dest
        /\ \A j \in 1 .. Len(entries) : Effective(entries'[j]) = Effective(entries[j])
    BY <1>1, CommitFacts DEF Commit, TypeOK
  <1>3. \A d \in Dest : IdsOf(entries', d) = IdsOf(entries, d)
    BY <1>2 DEF IdsOf
  <1>4. OnlyNewestUnfinished'
    BY <1>2, <1>3 DEF BookInv, OnlyNewestUnfinished, Unfinished, IdsOf
  <1>5. then # "Idle" => Unfinished(entries'[id])
    BY <1>1, <1>2, NoStatusAssumption DEF Unfinished, Effective
  <1>6. pc' = then /\ then \in {"Idle", "Plan", "Review", "Verify", "Delete"}
    BY DEF Commit, Proceed, BookInv, JobState
  <1>7. CASE then = "Idle"
    BY <1>3, <1>4, <1>6, <1>7, NoDestAssumption
       DEF Commit, Proceed, BookInv, JobEntry, RegistryInv, NoJob
  <1>8. CASE then # "Idle"
    <2>1. JobEntry'
      BY <1>1, <1>3, <1>5, <1>6, <1>8 DEF Commit, Proceed, BookInv, JobEntry
    <2>2. QED
      BY <1>4, <2>1 DEF RegistryInv
  <1>9. QED
    BY <1>7, <1>8

(* No other step writes the registry. *)
LEMMA EntriesKept ==
    ASSUME BookInv, Next
    PROVE  Register \/ FindEntry \/ Begin \/ Commit \/ entries' = entries
  BY DEF Next, Start, Open, Plan, CopyStep, VerifyStep, Close, StartTransfer,
         StartResume, RefuseResume, ReviewResume, BackfillLedger, Seed, Rerun,
         BeginCopy, CopyFile, FinishCopy, Mark, EndCopyPhase, VerifyBatch,
         Withdraw, AwaitDeletion, RemoveFile, FinishDelete, Approve,
         FinishCommand, Fail, Abort, Crash, Edit, durable, history

(* To go on with the next stage, or to enter a status, keeps the entry.    *)
LEMMA ProceedKeeps ==
    ASSUME BookInv, entries' = entries, pc # "Idle", pc # "Commit",
           NEW next \in Control \ {"Register", "Check", "Begin", "Commit"},
           Proceed(next)
    PROVE  RegistryInv'
  <1>1. OnlyNewestUnfinished'
    BY DEF BookInv, OnlyNewestUnfinished, IdsOf
  <1>2. JobEntry'
    BY NoDestAssumption DEF BookInv, JobEntry, Proceed, NoJob, IdsOf
  <1>3. QED
    BY <1>1, <1>2 DEF RegistryInv

(* A command that goes on to enter a status. *)
LEMMA EnterKeeps ==
    ASSUME BookInv, entries' = entries, pc \notin {"Idle", "Commit"},
           NEW s \in Status,
           NEW next \in {"Idle", "Verify", "Delete"},
           s \in Ended => next = "Idle",
           Enter(s, next)
    PROVE  RegistryInv'
  <1>1. CASE id = 0
    BY <1>1, ProceedKeeps DEF Enter, Control
  <1>2. CASE id # 0
    <2>1. OnlyNewestUnfinished'
      BY DEF BookInv, OnlyNewestUnfinished, IdsOf
    <2>2. JobEntry'
      BY <1>2 DEF BookInv, JobEntry, Enter, IdsOf
    <2>3. QED
      BY <2>1, <2>2 DEF RegistryInv
  <1>3. QED
    BY <1>1, <1>2

(* Every step keeps the registry part of the invariant. *)
LEMMA RegistryStep ==
    ASSUME BookInv, Next
    PROVE  RegistryInv'
  <1>1. CASE Register \/ FindEntry \/ Begin \/ Commit
    BY <1>1, RegisterKeeps, FindEntryKeeps, BeginKeeps, CommitKeeps
  <1>2. CASE entries' = entries /\ ~ (Register \/ FindEntry \/ Begin \/ Commit)
    <2>1. CASE \E d \in Dest : StartTransfer(d) \/ StartResume(d)
      <3>1. OnlyNewestUnfinished'
        BY <1>2 DEF BookInv, OnlyNewestUnfinished, IdsOf
      <3>2. JobEntry'
        BY <1>2, <2>1 DEF BookInv, JobEntry, StartTransfer, StartResume, NoJob, IdsOf
      <3>3. QED
        BY <3>1, <3>2 DEF RegistryInv
    <2>2. CASE RefuseResume \/ ReviewResume \/ BackfillLedger \/ Seed \/ Rerun
               \/ Mark \/ Withdraw \/ FinishDelete
      BY <1>2, <2>2, ProceedKeeps
         DEF RefuseResume, ReviewResume, BackfillLedger, Seed, Rerun, Mark,
             Withdraw, FinishDelete, Control
    <2>3. CASE Crash
      <3>1. OnlyNewestUnfinished'
        BY <1>2 DEF BookInv, OnlyNewestUnfinished, IdsOf
      <3>2. JobEntry'
        BY <2>3, NoDestAssumption DEF BookInv, JobEntry, Crash, Proceed, NoJob
      <3>3. QED
        BY <3>1, <3>2 DEF RegistryInv
    <2>4. CASE Abort
      <3>1. OnlyNewestUnfinished'
        BY <1>2 DEF BookInv, OnlyNewestUnfinished, IdsOf
      <3>2. pc = "Commit" => Unfinished(entries[id])
        BY <2>4, NoStatusAssumption
           DEF Abort, Guarded, BookInv, JobEntry, Unfinished, Effective, Ended
      <3>3. JobEntry'
        BY <1>2, <2>4, <3>2 DEF BookInv, JobEntry, Abort, Guarded, Proceed, IdsOf
      <3>4. QED
        BY <3>1, <3>3 DEF RegistryInv
    <2>5. CASE EndCopyPhase \/ AwaitDeletion \/ Fail
      BY <1>2, <2>5, EnterKeeps
         DEF EndCopyPhase, AwaitDeletion, VerifyNow, Fail, Status, Ended
    <2>6. CASE FinishCommand
      <3>1. FinalStatus \in {"Completed", "AwaitingDeletion"}
        BY DEF FinalStatus
      <3>2. QED
        BY <1>2, <2>6, <3>1, EnterKeeps DEF FinishCommand, Status
    <2>7. CASE BeginCopy \/ CopyFile \/ FinishCopy \/ VerifyBatch \/ RemoveFile
               \/ Approve \/ Edit
      <3>1. /\ job' = job /\ id' = id
            /\ pc = "Idle" <=> pc' = "Idle"
            /\ pc \notin {"Begin", "Commit"}
            /\ pc' \notin {"Register", "Check", "Begin", "Commit"}
        BY <2>7 DEF BeginCopy, CopyFile, FinishCopy, VerifyBatch, VerifyNow, RemoveFile,
                    Approve, Edit, running
      <3>2. OnlyNewestUnfinished'
        BY <1>2 DEF BookInv, OnlyNewestUnfinished, IdsOf
      <3>3. JobEntry'
        BY <1>2, <3>1 DEF BookInv, JobEntry, IdsOf
      <3>4. QED
        BY <3>2, <3>3 DEF RegistryInv
    <2>8. QED
      BY <1>2, <2>1, <2>2, <2>3, <2>4, <2>5, <2>6, <2>7
         DEF Next, Start, Open, Plan, CopyStep, VerifyStep, Close
  <1>3. QED
    BY <1>1, <1>2, EntriesKept

-----------------------------------------------------------------------------
(* Types. *)

(* To go on with the next stage keeps the types of the control variables.  *)
LEMMA ProceedTypes ==
    ASSUME TypeOK, NEW next \in Control, Proceed(next)
    PROVE  /\ pc' \in Control /\ job' \in Job /\ id' \in Nat
           /\ target' \in Status \cup {NoStatus} /\ then' \in Control /\ cur' \in Nat
  BY DEF TypeOK, Proceed, NoJob, Job, Control

(* So does entering a status. *)
LEMMA EnterTypes ==
    ASSUME TypeOK, NEW s \in Status, NEW next \in Control, Enter(s, next)
    PROVE  /\ pc' \in Control /\ job' \in Job /\ id' \in Nat
           /\ target' \in Status \cup {NoStatus} /\ then' \in Control /\ cur' \in Nat
  <1>1. CASE id = 0
    BY <1>1, ProceedTypes DEF Enter
  <1>2. CASE id # 0
    BY <1>2 DEF Enter, TypeOK, Control
  <1>3. QED
    BY <1>1, <1>2

(* Every step keeps the types. *)
LEMMA TypeStep ==
    ASSUME BookInv, Next
    PROVE  TypeOK'
  <1>0. TypeOK
    BY DEF BookInv
  <1>1. CASE \E d \in Dest : StartTransfer(d) \/ StartResume(d)
    BY <1>0, <1>1 DEF TypeOK, StartTransfer, StartResume, Job, Control
  <1>2. CASE Register
    <2>1. job.dest \in Dest /\ entries \in Seq(Entry)
      BY <1>0, <1>2 DEF Register, BookInv, JobEntry, TypeOK
    <2>2. entries' \in Seq(Entry) /\ id' \in Nat
      BY <1>2, <2>1, AddFacts
         DEF Register, FindBySourceDest, ActiveIds, IdsOf
    <2>3. QED
      BY <1>0, <1>2, <2>2 DEF TypeOK, Register, history, Status, Control
  <1>3. CASE FindEntry
    <2>1. id' \in Nat
      BY <1>0, <1>3 DEF FindEntry, FindActive, ActiveIds, IdsOf, TypeOK
    <2>2. QED
      BY <1>0, <1>3, <2>1 DEF TypeOK, FindEntry, durable, history, Status, Control
  <1>4. CASE Begin \/ Commit
    <2>1. /\ entries \in Seq(Entry) /\ id \in 1 .. Len(entries)
          /\ target \in Status /\ then \in Control
      BY <1>0, <1>4 DEF Begin, Commit, BookInv, JobEntry, TypeOK, IdsOf
    <2>2. entries' \in Seq(Entry)
      BY <1>4, <2>1, BeginFacts, CommitFacts DEF Begin, Commit
    <2>3. CASE Begin
      BY <1>0, <2>2, <2>3 DEF TypeOK, Begin, history, running, Control
    <2>4. CASE Commit
      <3>1. Proceed(then)
        BY <2>4 DEF Commit
      <3>2. QED
        BY <1>0, <2>1, <2>2, <2>4, <3>1, ProceedTypes DEF TypeOK, Commit, history
    <2>5. QED
      BY <1>4, <2>3, <2>4
  <1>5. CASE RefuseResume \/ ReviewResume \/ Rerun
    <2>1. UNCHANGED durable /\ \E next \in Control : Proceed(next)
      BY <1>5 DEF RefuseResume, ReviewResume, Rerun, Control
    <2>2. QED
      BY <1>0, <2>1, ProceedTypes DEF TypeOK, durable, history
  <1>6. CASE EndCopyPhase \/ AwaitDeletion \/ FinishCommand \/ Fail
    <2>1. FinalStatus \in Status
      BY DEF FinalStatus, Status
    <2>2. UNCHANGED durable /\ \E s \in Status, next \in Control : Enter(s, next)
      BY <1>6, <2>1 DEF EndCopyPhase, AwaitDeletion, FinishCommand, Fail, Status, Control
    <2>3. QED
      BY <1>0, <2>2, EnterTypes DEF TypeOK, durable, history
  <1>7. CASE Abort \/ Crash
    <2>1. \E next \in Control : Proceed(next)
      BY <1>7 DEF Abort, Crash, Control
    <2>2. stale' \subseteq File
      BY <1>0, <1>7 DEF Abort, Crash, CutsWithdrawalShort, BookInv, JobState, TypeOK
    <2>3. QED
      BY <1>0, <1>7, <2>1, <2>2, ProceedTypes DEF TypeOK, Abort, Crash
  <1>8. CASE BackfillLedger \/ Mark \/ Withdraw
    <2>1. \E next \in Control : Proceed(next)
      BY <1>8 DEF BackfillLedger, Mark, Withdraw, Control
    <2>2. ledger' \subseteq Identity /\ stale' \subseteq File
      <3>1. CASE BackfillLedger
        <4>1. \A f \in Scan(content) : IdentityOf(content, f) \in Identity
          BY <1>0 DEF Scan, IdentityOf, Identity, TypeOK
        <4>2. \A e \in ledger' : e \in ledger \/ \E f \in Scan(content) : e = IdentityOf(content, f)
          BY <3>1 DEF BackfillLedger, Backfill
        <4>3. stale' = stale
          BY <3>1 DEF BackfillLedger, history
        <4>4. QED
          BY <1>0, <4>1, <4>2, <4>3 DEF TypeOK
      <3>2. CASE Mark
        <4>1. content[cur] \in Content /\ cur \in File
          BY <1>0, <3>2, StateFacts
             DEF Mark, BookInv, JobState, JobEntry, PlanFits, PlannedIn, PhaseOf, State, TypeOK
        <4>2. QED
          BY <1>0, <3>2, <4>1 DEF Mark, Marked, IdentityOf, Identity, TypeOK, history
      <3>3. CASE Withdraw
        BY <1>0, <3>3 DEF Withdraw, Withdrawn, TypeOK
      <3>4. QED
        BY <1>8, <3>1, <3>2, <3>3
    <2>3. QED
      BY <1>0, <1>8, <2>1, <2>2, ProceedTypes
         DEF TypeOK, BackfillLedger, Mark, Withdraw, history
  <1>9. CASE Seed
    <2>1. job.dest \in Dest /\ NewState(ledger, content) \in StateRecord
      BY <1>0, <1>9, NewStateFacts DEF Seed, BookInv, JobEntry
    <2>2. Proceed("Copy")
      BY <1>9 DEF Seed
    <2>3. QED
      BY <1>0, <1>9, <2>1, <2>2, ProceedTypes DEF TypeOK, Seed, history, Control
  <1>10. CASE BeginCopy \/ FinishCopy \/ FinishDelete \/ VerifyBatch
    <2>1. job.dest \in Dest /\ State # NoState
      BY <1>10 DEF BookInv, JobEntry, JobState, State, BeginCopy, FinishCopy, FinishDelete,
                   VerifyBatch, VerifyNow
    <2>2. \E f \in File, p \in Phase : SetPhase(f, p)
      BY <1>10 DEF BeginCopy, FinishCopy, FinishDelete, VerifyBatch, ToVerify, FirstOf,
                   BookInv, JobState, Phase, ToCopy
    <2>3. states' \in [Dest -> StateRecord \cup {NoState}]
      BY <1>0, <2>1, <2>2, PhaseFacts
    <2>4. CASE BeginCopy \/ FinishCopy \/ VerifyBatch
      <3>1. pc' \in Control
        BY <1>0, <2>4 DEF TypeOK, BeginCopy, FinishCopy, VerifyBatch, Control
      <3>2. cur' \in Nat
        BY <1>0, <2>4 DEF TypeOK, BeginCopy, FinishCopy, VerifyBatch, ToVerify, ToCopy,
                          FirstOf, File
      <3>3. UNCHANGED <<content, copies, entries, ledger, history, running>>
        BY <2>4 DEF BeginCopy, FinishCopy, VerifyBatch
      <3>4. QED
        BY <1>0, <2>3, <3>1, <3>2, <3>3 DEF TypeOK, history, running
    <2>5. CASE FinishDelete
      <3>1. Proceed("Delete")
        BY <2>5 DEF FinishDelete
      <3>2. QED
        BY <1>0, <2>3, <2>5, <3>1, ProceedTypes DEF TypeOK, FinishDelete, history, Control
    <2>6. QED
      BY <1>10, <2>4, <2>5
  <1>11. CASE Approve
    <2>1. job.dest \in Dest /\ State # NoState
      BY <1>11 DEF BookInv, JobEntry, JobState, State, Approve
    <2>2. states' \in [Dest -> StateRecord \cup {NoState}]
      BY <1>0, <1>11, <2>1, ApproveFacts
    <2>3. QED
      BY <1>0, <1>11, <2>2 DEF TypeOK, Approve, history, running
  <1>12. CASE CopyFile
    <2>1. job.dest \in Dest /\ cur \in File
      BY <1>12 DEF CopyFile, BookInv, JobEntry, JobState
    <2>2. copies' \in [Dest -> [File -> Content \cup {Gone, Absent, Damaged}]]
      BY <1>0, <1>12, <2>1 DEF CopyFile, TypeOK
    <2>3. QED
      BY <1>0, <1>12, <2>2 DEF TypeOK, CopyFile, history, running, Control
  <1>13. CASE RemoveFile \/ Edit
    <2>1. content' \in [File -> Content \cup {Gone}] /\ edits' \in Nat /\ cur' \in Nat
      BY <1>0, <1>13 DEF RemoveFile, Edit, TypeOK, InPhase, FirstOf, File, history, Scan
    <2>2. QED
      BY <1>0, <1>13, <2>1 DEF TypeOK, RemoveFile, Edit, history, running, Control
  <1>14. QED
    BY <1>1, <1>2, <1>3, <1>4, <1>5, <1>6, <1>7, <1>8, <1>9, <1>10, <1>11, <1>12, <1>13
       DEF Next, Start, Open, Plan, CopyStep, VerifyStep, Close

-----------------------------------------------------------------------------
(* Where a running command stands. *)

(* A step that keeps the content of the source and the states, and does    *)
(* not enter the loop of a batch, keeps what is known of the command.      *)
LEMMA StandsStill ==
    ASSUME BookInv, UNCHANGED <<content, states>>,
           NEW next \in {"Idle", "Copy", "Verify", "Delete", "Error"},
           next = "Copy" => PlanFits,
           next \in {"Copy", "Verify", "Delete"} => State # NoState /\ pc # "Idle",
           Proceed(next) \/ \E s \in Status : Enter(s, next) /\ next \notin {"Copy", "Error"}
    PROVE  JobState'
  <1>1. CASE next = "Idle" /\ Proceed(next)
    BY <1>1 DEF JobState, Proceed
  <1>2. CASE next # "Idle" /\ Proceed(next)
    BY <1>2 DEF JobState, Proceed, PlanFits, State, PlannedIn
  <1>3. CASE id # 0 /\ \E s \in Status : Enter(s, next) /\ next \notin {"Copy", "Error"}
    <2>1. /\ job' = job /\ pc' = "Begin" /\ then' = next
          /\ next \in {"Idle", "Verify", "Delete"}
      BY <1>3 DEF Enter
    <2>2. next # "Idle" => states'[job'.dest] # NoState
      BY <2>1 DEF State
    <2>3. QED
      BY <2>1, <2>2 DEF JobState
  <1>4. QED
    BY <1>1, <1>2, <1>3 DEF Enter

(* The plan of a new migration is that of the files at the source. *)
LEMMA SeedFits ==
    ASSUME TypeOK, job.dest \in Dest, states'[job.dest] = NewState(ledger, content),
           job' = job, content' = content
    PROVE  PlanFits'
  <1> DEFINE r == NewState(ledger, content)
             planned == {f \in Scan(content) : \A e \in Skips(ledger, content) : e.path # f}
  <1>1. \A f \in File : r.phase[f] = IF f \in planned THEN "Planned" ELSE "Unplanned"
    BY DEF NewState
  <1>2. \A f \in planned : r.size[f] = SizeOf[content[f]] /\ content[f] # Gone /\ f \in File
    BY DEF NewState, Scan
  <1>3. State' = r /\ PlannedIn(r) = planned
    BY <1>1, <1>2 DEF State, PlannedIn
  <1> HIDE DEF r, planned
  <1>4. QED
    BY <1>2, <1>3 DEF PlanFits

(* One batch enters another phase, planned before and after: the plan does *)
(* not change.                                                             *)
LEMMA PhaseFits ==
    ASSUME TypeOK, job.dest \in Dest, State # NoState, PlanFits,
           NEW f \in PlannedIn(State), NEW p \in Phase \ {"Unplanned"}, SetPhase(f, p),
           UNCHANGED <<job, content>>
    PROVE  PlanFits'
  <1>1. f \in File
    BY DEF PlannedIn
  <1>2. /\ states'[job.dest].size = State.size
        /\ states'[job.dest].phase[f] = p
        /\ \A g \in File : g # f => states'[job.dest].phase[g] = PhaseOf(g)
    BY <1>1, PhaseFacts
  <1>3. PlannedIn(State') = PlannedIn(State)
    BY <1>1, <1>2 DEF PlannedIn, State, PhaseOf
  <1>4. QED
    BY <1>2, <1>3 DEF PlanFits, State

(* Every step keeps what is known of the running command. *)
LEMMA JobStateStep ==
    ASSUME BookInv, Next
    PROVE  JobState'
  <1>0. TypeOK /\ JobState /\ JobEntry /\ (pc # "Idle" => job.dest \in Dest)
    BY DEF BookInv, JobEntry
  <1>1. CASE \E d \in Dest : StartTransfer(d) \/ StartResume(d)
    BY <1>0, <1>1 DEF StartTransfer, StartResume, JobState
  <1>2. CASE Register
    BY <1>0, <1>2 DEF Register, JobState
  <1>3. CASE FindEntry
    <2>1. State # NoState /\ job' = job /\ UNCHANGED <<content, states>>
      BY <1>0, <1>3 DEF FindEntry, JobState, State, durable
    <2>2. PlanFits
      BY <1>3 DEF FindEntry, SourceUnchanged, ManifestMatches, PlanFits, Scan
    <2>3. pc' \in {"Begin", "Review"} /\ (then' = "Review" \/ then' = then)
          /\ (then' # "Idle" => pc' = "Begin")
      BY <1>0, <1>3 DEF FindEntry, JobState
    <2>4. PlanFits' /\ State' # NoState
      BY <2>1, <2>2 DEF PlanFits, State, PlannedIn
    <2>5. QED
      BY <1>0, <1>3, <2>3, <2>4 DEF JobState, State, FindEntry
  <1>4. CASE Begin
    BY <1>0, <1>4 DEF Begin, running, JobState, PlanFits, PlannedIn, State
  <1>5. CASE Commit
    <2>1. Proceed(then) /\ UNCHANGED <<content, states>> /\ pc = "Commit"
      BY <1>5 DEF Commit
    <2>2. CASE then \in {"Idle", "Plan"}
      BY <1>0, <2>1, <2>2 DEF JobState, Proceed
    <2>3. CASE then = "Review"
      BY <1>0, <2>1, <2>3 DEF JobState, Proceed, PlanFits, PlannedIn, State
    <2>4. CASE then \in {"Verify", "Delete"}
      BY <1>0, <2>1, <2>4 DEF JobState, Proceed, State
    <2>5. QED
      BY <1>0, <2>2, <2>3, <2>4 DEF JobState
  <1>6. CASE RefuseResume \/ ReviewResume \/ Mark \/ Withdraw \/ Fail \/ EndCopyPhase
             \/ AwaitDeletion \/ FinishCommand \/ Abort \/ Crash \/ Rerun
    <2>1. UNCHANGED <<content, states>>
      BY <1>6 DEF RefuseResume, ReviewResume, Mark, Withdraw, Fail, EndCopyPhase,
                  AwaitDeletion, FinishCommand, Abort, Crash, Rerun, durable
    <2>2. CASE RefuseResume \/ Crash
      <3>1. Proceed("Idle")
        BY <2>2 DEF RefuseResume, Crash
      <3>2. QED
        BY <2>1, <3>1, StandsStill
    <2>3. CASE Withdraw \/ Abort
      <3>1. Proceed("Error")
        BY <2>3 DEF Withdraw, Abort
      <3>2. QED
        BY <2>1, <3>1, StandsStill
    <2>4. CASE ReviewResume \/ Mark
      <3>1. PlanFits /\ State # NoState /\ pc # "Idle"
        BY <1>0, <2>4 DEF ReviewResume, Mark, JobState, State
      <3>2. Proceed("Copy") \/ Proceed("Error")
        BY <2>4 DEF ReviewResume, Mark
      <3>3. QED
        BY <2>1, <3>1, <3>2, StandsStill
    <2>5. CASE Rerun
      <3>1. HasManifest(State) /\ pc = "Plan"
        BY <2>5 DEF Rerun
      <3>2. CASE MayRerun
        <4>1. PlanFits /\ State # NoState
          BY <3>1, <3>2 DEF MayRerun, SourceUnchanged, ManifestMatches, PlanFits, Scan,
                            HasManifest
        <4>2. Proceed("Copy")
          BY <2>5, <3>2 DEF Rerun
        <4>3. QED
          BY <2>1, <3>1, <4>1, <4>2, StandsStill
      <3>3. CASE ~ MayRerun
        <4>1. Proceed("Error")
          BY <2>5, <3>3 DEF Rerun
        <4>2. QED
          BY <2>1, <4>1, StandsStill
      <3>4. QED
        BY <3>2, <3>3
    <2>6. CASE Fail
      <3>1. Enter("Failed", "Idle")
        BY <2>6 DEF Fail
      <3>2. QED
        BY <2>1, <3>1, StandsStill DEF Status
    <2>7. CASE EndCopyPhase \/ AwaitDeletion \/ FinishCommand
      <3>1. State # NoState /\ pc # "Idle"
        BY <1>0, <2>7 DEF EndCopyPhase, AwaitDeletion, VerifyNow, FinishCommand, JobState,
                          State
      <3>2. \E s \in Status, next \in {"Verify", "Delete", "Idle"} : Enter(s, next)
        BY <2>7 DEF EndCopyPhase, AwaitDeletion, FinishCommand, FinalStatus, Status
      <3>3. QED
        BY <2>1, <3>1, <3>2, StandsStill
    <2>8. QED
      BY <1>6, <2>2, <2>3, <2>4, <2>5, <2>6, <2>7
  <1>7. CASE BackfillLedger
    <2>1. /\ ~ HasManifest(State) /\ Proceed("Seed") /\ pc = "Plan"
          /\ UNCHANGED <<content, states>>
          /\ ledger' = Backfill(ledger, {states[d] : d \in Dest}, content)
      BY <1>7 DEF BackfillLedger
    <2>2. ledger' = Backfill(ledger', {states[d] : d \in Dest}, content)
      BY <2>1 DEF Backfill
    <2>3. job' = job /\ pc' = "Seed" /\ then' = "Idle"
      BY <2>1 DEF Proceed
    <2>4. ~ HasManifest(State')
      BY <2>1, <2>3 DEF State
    <2>5. ledger' = Backfill(ledger', {states'[d] : d \in Dest}, content')
      BY <2>1, <2>2
    <2>6. QED
      BY <2>3, <2>4, <2>5 DEF JobState
  <1>8. CASE Seed
    <2>1. Proceed("Copy") /\ content' = content /\ job.dest \in Dest
      BY <1>0, <1>8 DEF Seed
    <2>2. states'[job.dest] = NewState(ledger, content)
      BY <1>0, <1>8, <2>1 DEF Seed, TypeOK
    <2>3. job' = job /\ pc' = "Copy" /\ then' = "Idle"
      BY <2>1 DEF Proceed
    <2>4. states'[job.dest] # NoState
      BY <1>0, <2>2, NewStateFacts, NoStateAssumption
    <2>5. PlanFits'
      BY <1>0, <2>1, <2>2, <2>3, SeedFits
    <2>6. QED
      BY <2>3, <2>4, <2>5 DEF JobState
  <1>9. CASE BeginCopy \/ FinishCopy
    <2>1. State # NoState /\ job.dest \in Dest /\ PlanFits /\ then = "Idle"
      BY <1>0, <1>9 DEF BeginCopy, FinishCopy, JobState, State
    <2>2. job' = job /\ content' = content /\ then' = "Idle"
      BY <1>9, <2>1 DEF BeginCopy, FinishCopy, running
    <2>3. \E p \in {"CopyStarted", "CopyCompleted"} :
            /\ cur' \in File /\ PhaseOf(cur') # "Unplanned" /\ SetPhase(cur', p)
            /\ \/ p = "CopyStarted" /\ pc' = "CopyFile"
               \/ p = "CopyCompleted" /\ pc' = "Mark"
      BY <1>0, <1>9 DEF BeginCopy, FinishCopy, ToCopy, NeedsCopy, JobState
    <2>4. PICK p \in {"CopyStarted", "CopyCompleted"} :
            /\ cur' \in File /\ PhaseOf(cur') # "Unplanned" /\ SetPhase(cur', p)
            /\ \/ p = "CopyStarted" /\ pc' = "CopyFile"
               \/ p = "CopyCompleted" /\ pc' = "Mark"
      BY <2>3
    <2>5. p \in Phase \ {"Unplanned"} /\ cur' \in PlannedIn(State)
      BY <2>4 DEF Phase, PlannedIn, PhaseOf
    <2>6. PlanFits'
      BY <1>0, <2>1, <2>2, <2>4, <2>5, PhaseFits
    <2>7. states'[job.dest] # NoState /\ states'[job.dest].phase[cur'] = p
      BY <1>0, <2>1, <2>4, <2>5, PhaseFacts
    <2>8. QED
      BY <2>2, <2>4, <2>6, <2>7 DEF JobState, PhaseOf, State
  <1>10. CASE CopyFile
    <2>1. /\ UNCHANGED <<content, states, job, cur, then>> /\ pc' = "FinishCopy"
          /\ cur \in File /\ PhaseOf(cur) = "CopyStarted" /\ State # NoState /\ PlanFits
          /\ then = "Idle"
      BY <1>0, <1>10 DEF CopyFile, running, JobState, State
    <2>2. PlanFits' /\ PhaseOf(cur)' = "CopyStarted" /\ State' # NoState
      BY <2>1 DEF PlanFits, PlannedIn, State, PhaseOf
    <2>3. QED
      BY <2>1, <2>2 DEF JobState, State
  <1>11. CASE VerifyBatch
    <2>1. State # NoState /\ job.dest \in Dest /\ then = "Idle"
      BY <1>0, <1>11 DEF VerifyBatch, VerifyNow, JobState, State
    <2>2. job' = job /\ content' = content /\ then' = "Idle"
      BY <1>11, <2>1 DEF VerifyBatch, running
    <2>3. PICK f \in FirstOf(ToVerify) :
            IF copies[job.dest][f] = content[f]
            THEN SetPhase(f, "Verified") /\ UNCHANGED <<pc, cur>>
            ELSE SetPhase(f, "VerifyFailed") /\ pc' = "Withdraw" /\ cur' = f
      BY <1>11 DEF VerifyBatch
    <2>4. f \in File /\ PhaseOf(f) # "Unplanned"
      BY <2>3 DEF FirstOf, ToVerify, NeedsVerification
    <2>5. f \in PlannedIn(State)
      BY <2>4 DEF PlannedIn, PhaseOf
    <2>6. CASE SetPhase(f, "Verified") /\ UNCHANGED <<pc, cur>>
      <3>1. states'[job.dest] # NoState
        BY <1>0, <2>1, <2>4, <2>6, PhaseFacts DEF Phase
      <3>2. CASE pc = "Verify"
        BY <2>2, <2>6, <3>1, <3>2 DEF JobState
      <3>3. CASE pc = "Copy"
        <4>1. PlanFits
          BY <1>0, <3>3 DEF JobState
        <4>2. PlanFits'
          BY <1>0, <2>1, <2>2, <2>5, <2>6, <4>1, PhaseFits DEF Phase
        <4>3. QED
          BY <2>2, <2>6, <3>1, <3>3, <4>2 DEF JobState
      <3>4. QED
        BY <1>11, <3>2, <3>3 DEF VerifyBatch, VerifyNow
    <2>7. CASE SetPhase(f, "VerifyFailed") /\ pc' = "Withdraw" /\ cur' = f
      <3>1. states'[job.dest] # NoState /\ states'[job.dest].phase[f] = "VerifyFailed"
        BY <1>0, <2>1, <2>4, <2>7, PhaseFacts DEF Phase
      <3>2. QED
        BY <2>2, <2>4, <2>7, <3>1 DEF JobState, PhaseOf, State
    <2>8. QED
      BY <2>3, <2>6, <2>7
  <1>12. CASE RemoveFile
    <2>1. /\ UNCHANGED <<states, job, then>> /\ pc' = "Removed" /\ State # NoState
          /\ cur' \in File /\ PhaseOf(cur') = "Approved" /\ then = "Idle"
      BY <1>0, <1>12 DEF RemoveFile, running, JobState, State, FirstOf, InPhase
    <2>2. QED
      BY <2>1 DEF JobState, PhaseOf, State
  <1>13. CASE FinishDelete
    <2>1. /\ Proceed("Delete") /\ job.dest \in Dest /\ State # NoState /\ cur \in File
          /\ SetPhase(cur, "Deleted")
      BY <1>0, <1>13 DEF FinishDelete, JobState, State
    <2>2. states'[job.dest] # NoState
      BY <1>0, <2>1, PhaseFacts DEF Phase
    <2>3. QED
      BY <2>1, <2>2 DEF JobState, Proceed
  <1>14. CASE Approve
    <2>1. /\ job.dest \in Dest /\ State # NoState /\ then = "Idle"
          /\ UNCHANGED <<pc, job, then>> /\ pc = "Delete"
      BY <1>0, <1>14 DEF Approve, running, JobState, State
    <2>2. states'[job.dest] # NoState
      BY <1>0, <1>14, <2>1, ApproveFacts
    <2>3. QED
      BY <2>1, <2>2 DEF JobState
  <1>15. CASE Edit
    <2>1. pc = "Idle" /\ UNCHANGED <<pc, job, then>> /\ then = "Idle"
      BY <1>0, <1>15 DEF Edit, running, JobState
    <2>2. QED
      BY <2>1 DEF JobState
  <1>16. QED
    BY <1>1, <1>2, <1>3, <1>4, <1>5, <1>6, <1>7, <1>8, <1>9, <1>10, <1>11, <1>12, <1>13,
       <1>14, <1>15
       DEF Next, Start, Open, Plan, CopyStep, VerifyStep, Close

-----------------------------------------------------------------------------
(* The ledger and the skips rest on recorded copies. *)

LedgerInv == LedgerBacked /\ SkippedElsewhere

(* A step that changes neither ledger nor states. *)
LEMMA LedgerUntouched ==
    ASSUME BookInv, UNCHANGED <<ledger, states>>,
           stale \subseteq stale',
           pc = "Withdraw" => cur \in stale'
    PROVE  LedgerInv'
  <1>1. LedgerBacked'
    <2>1. SUFFICES ASSUME NEW e \in ledger
                   PROVE  (\E d \in Dest :
                             \/ Holds(d, e.path, SizeOf[e.content], CopiedPhases)
                             \/ /\ Holds(d, e.path, SizeOf[e.content], {"VerifyFailed"})
                                /\ e.path \in stale \/ (pc = "Withdraw" /\ cur = e.path))'
      BY DEF LedgerBacked
    <2>2. QED
      BY DEF BookInv, LedgerBacked, Holds
  <1>2. SkippedElsewhere'
    BY DEF BookInv, SkippedElsewhere, Holds
  <1>3. QED
    BY <1>1, <1>2 DEF LedgerInv

(* A step of the running command that moves on the phases of its own       *)
(* state, a failed verification included, and leaves the ledger alone.     *)
LEMMA PhasesMoveOn ==
    ASSUME BookInv, job.dest \in Dest, State # NoState, UNCHANGED <<ledger, stale>>,
           pc # "Withdraw",
           \A d \in Dest : d # job.dest => states'[d] = states[d],
           states'[job.dest] # NoState,
           states'[job.dest].size = State.size,
           states'[job.dest].skipped = State.skipped,
           \A f \in File : PhaseOf(f) \in CopiedPhases =>
               \/ states'[job.dest].phase[f] \in CopiedPhases
               \/ /\ states'[job.dest].phase[f] = "VerifyFailed"
                  /\ pc' = "Withdraw" /\ cur' = f,
           \A f \in File : PhaseOf(f) = "VerifyFailed" =>
               states'[job.dest].phase[f] \in CopiedPhases \cup {"VerifyFailed"}
    PROVE  LedgerInv'
  <1>0. TypeOK /\ \A e \in Identity : e.path \in File
    BY DEF BookInv, Identity
  <1>1. ASSUME NEW d \in Dest, NEW f \in File, NEW n,
               Holds(d, f, n, CopiedPhases \cup {"VerifyFailed"})
        PROVE  Holds(d, f, n, CopiedPhases \cup {"VerifyFailed"})'
    <2>1. CASE d # job.dest
      BY <1>1, <2>1, StateFacts, <1>0 DEF Holds, CopiedPhases
    <2>2. CASE d = job.dest
      BY <1>1, <2>2 DEF Holds, State, PhaseOf, CopiedPhases
    <2>3. QED
      BY <2>1, <2>2
  <1>2. LedgerBacked'
    <2>1. SUFFICES ASSUME NEW e \in ledger
                   PROVE  (\E d \in Dest :
                             \/ Holds(d, e.path, SizeOf[e.content], CopiedPhases)
                             \/ /\ Holds(d, e.path, SizeOf[e.content], {"VerifyFailed"})
                                /\ e.path \in stale \/ (pc = "Withdraw" /\ cur = e.path))'
      BY DEF LedgerBacked
    <2>2. e.path \in File
      BY <1>0 DEF TypeOK
    <2>3. PICK d \in Dest :
            \/ Holds(d, e.path, SizeOf[e.content], CopiedPhases)
            \/ Holds(d, e.path, SizeOf[e.content], {"VerifyFailed"}) /\ e.path \in stale
      BY DEF BookInv, LedgerBacked
    <2>4. CASE d # job.dest
      BY <2>3, <2>4 DEF Holds
    <2>5. CASE d = job.dest
      <3>1. CASE PhaseOf(e.path) \in CopiedPhases
        BY <2>2, <2>3, <2>5, <3>1 DEF Holds, State, PhaseOf, CopiedPhases
      <3>2. CASE PhaseOf(e.path) = "VerifyFailed" /\ e.path \in stale
        BY <2>2, <2>3, <2>5, <3>2 DEF Holds, State, PhaseOf, CopiedPhases
      <3>3. QED
        BY <2>3, <2>5, <3>1, <3>2 DEF Holds, State, PhaseOf
    <2>6. QED
      BY <2>4, <2>5
  <1>3. SkippedElsewhere'
    <2>1. SUFFICES ASSUME NEW d \in Dest, states'[d] # NoState,
                          NEW e \in states'[d].skipped
                   PROVE  \E c \in Dest \ {d} :
                            Holds(c, e.path, SizeOf[e.content],
                                  CopiedPhases \cup {"VerifyFailed"})'
      BY DEF SkippedElsewhere
    <2>2. states[d] # NoState /\ e \in states[d].skipped
      BY <2>1 DEF State
    <2>3. e.path \in File
      BY <1>0, <2>2, StateFacts
    <2>4. QED
      BY <1>1, <2>2, <2>3 DEF BookInv, SkippedElsewhere
  <1>4. QED
    BY <1>2, <1>3 DEF LedgerInv

(* What the backfill adds has been copied by the state it was found in. *)
LEMMA BackfillBacked ==
    ASSUME BookInv, BackfillLedger
    PROVE  LedgerInv'
  <1>0. TypeOK /\ UNCHANGED <<states, stale>> /\ pc = "Plan"
    BY DEF BookInv, BackfillLedger, history
  <1>1. LedgerBacked'
    <2>1. SUFFICES ASSUME NEW e \in ledger'
                   PROVE  (\E d \in Dest :
                             \/ Holds(d, e.path, SizeOf[e.content], CopiedPhases)
                             \/ /\ Holds(d, e.path, SizeOf[e.content], {"VerifyFailed"})
                                /\ e.path \in stale \/ (pc = "Withdraw" /\ cur = e.path))'
      BY DEF LedgerBacked
    <2>2. CASE e \in ledger
      BY <1>0, <2>2 DEF BookInv, LedgerBacked, Holds
    <2>3. CASE e \notin ledger
      <3>1. PICK f \in Scan(content) :
              /\ e = IdentityOf(content, f)
              /\ \E d \in Dest : /\ states[d] # NoState
                                 /\ EligiblePhase(states[d], f)
                                 /\ states[d].size[f] = SizeOf[content[f]]
        BY <2>3 DEF BackfillLedger, Backfill, CopiedBefore
      <3>2. QED
        BY <1>0, <3>1 DEF IdentityOf, EligiblePhase, Holds, CopiedPhases
    <2>4. QED
      BY <2>2, <2>3
  <1>2. SkippedElsewhere'
    BY <1>0 DEF BookInv, SkippedElsewhere, Holds
  <1>3. QED
    BY <1>1, <1>2 DEF LedgerInv

(* What backs an entry is a plan that is recorded, so it is not replaced   *)
(* by the new one.                                                         *)
LEMMA BackedElsewhere ==
    ASSUME BookInv, pc = "Seed", NEW e \in ledger
    PROVE  \E d \in Dest \ {job.dest} :
             \/ Holds(d, e.path, SizeOf[e.content], CopiedPhases)
             \/ Holds(d, e.path, SizeOf[e.content], {"VerifyFailed"}) /\ e.path \in stale
  <1>1. PICK d \in Dest :
          \/ Holds(d, e.path, SizeOf[e.content], CopiedPhases)
          \/ Holds(d, e.path, SizeOf[e.content], {"VerifyFailed"}) /\ e.path \in stale
    BY DEF BookInv, LedgerBacked
  <1>2. e.path \in File
    BY DEF BookInv, TypeOK, Identity
  <1>3. states[d] # NoState /\ e.path \in PlannedIn(states[d])
    BY <1>1, <1>2 DEF Holds, PlannedIn, CopiedPhases
  <1>4. HasManifest(states[d])
    BY <1>3 DEF HasManifest
  <1>5. d # job.dest
    BY <1>4 DEF BookInv, JobState, State
  <1>6. QED
    BY <1>1, <1>5

(* A new migration's skips are entries backed by another destination. *)
LEMMA SeedBacked ==
    ASSUME BookInv, Seed
    PROVE  LedgerInv'
  <1>0. /\ TypeOK /\ UNCHANGED <<ledger, stale>> /\ pc = "Seed" /\ job.dest \in Dest
        /\ ~ HasManifest(State)
    BY DEF BookInv, JobEntry, JobState, Seed, history
  <1>1. /\ states'[job.dest] = NewState(ledger, content)
        /\ \A d \in Dest : d # job.dest => states'[d] = states[d]
    BY <1>0 DEF Seed, TypeOK
  <1>2. ASSUME NEW d \in Dest \ {job.dest}, NEW f, NEW n, NEW ps, Holds(d, f, n, ps)
        PROVE  Holds(d, f, n, ps)'
    BY <1>1, <1>2 DEF Holds
  <1>3. LedgerBacked'
    <2>1. SUFFICES ASSUME NEW e \in ledger
                   PROVE  (\E d \in Dest :
                             \/ Holds(d, e.path, SizeOf[e.content], CopiedPhases)
                             \/ /\ Holds(d, e.path, SizeOf[e.content], {"VerifyFailed"})
                                /\ e.path \in stale \/ (pc = "Withdraw" /\ cur = e.path))'
      BY <1>0 DEF LedgerBacked
    <2>2. PICK d \in Dest \ {job.dest} :
            \/ Holds(d, e.path, SizeOf[e.content], CopiedPhases)
            \/ Holds(d, e.path, SizeOf[e.content], {"VerifyFailed"}) /\ e.path \in stale
      BY <1>0, BackedElsewhere
    <2>3. \/ Holds(d, e.path, SizeOf[e.content], CopiedPhases)'
          \/ Holds(d, e.path, SizeOf[e.content], {"VerifyFailed"})' /\ e.path \in stale'
      BY <1>0, <1>1, <2>2 DEF Holds
    <2>4. QED
      BY <2>3
  <1>4. SkippedElsewhere'
    <2>1. SUFFICES ASSUME NEW d \in Dest, states'[d] # NoState,
                          NEW e \in states'[d].skipped
                   PROVE  \E c \in Dest \ {d} :
                            Holds(c, e.path, SizeOf[e.content],
                                  CopiedPhases \cup {"VerifyFailed"})'
      BY DEF SkippedElsewhere
    <2>2. CASE d = job.dest
      <3>1. e \in ledger
        BY <1>0, <1>1, <2>1, <2>2, NewStateFacts
      <3>2. PICK c \in Dest \ {job.dest} :
              \/ Holds(c, e.path, SizeOf[e.content], CopiedPhases)
              \/ Holds(c, e.path, SizeOf[e.content], {"VerifyFailed"}) /\ e.path \in stale
        BY <1>0, <3>1, BackedElsewhere
      <3>3. Holds(c, e.path, SizeOf[e.content], CopiedPhases \cup {"VerifyFailed"})'
        BY <1>1, <3>2 DEF Holds
      <3>4. QED
        BY <2>2, <3>3
    <2>3. CASE d # job.dest
      <3>1. e \in states[d].skipped /\ states[d] # NoState
        BY <1>1, <2>1, <2>3
      <3>2. PICK c \in Dest \ {d} :
              Holds(c, e.path, SizeOf[e.content], CopiedPhases \cup {"VerifyFailed"})
        BY <3>1 DEF BookInv, SkippedElsewhere
      <3>3. e.path \in File
        BY <1>0, <3>1, StateFacts DEF Identity
      <3>4. HasManifest(states[c])
        BY <3>2, <3>3 DEF Holds, HasManifest, PlannedIn, CopiedPhases
      <3>5. c # job.dest
        BY <1>0, <3>4 DEF State
      <3>6. Holds(c, e.path, SizeOf[e.content], CopiedPhases \cup {"VerifyFailed"})'
        BY <1>1, <3>2, <3>5 DEF Holds
      <3>7. QED
        BY <3>6
    <2>4. QED
      BY <2>2, <2>3
  <1>5. QED
    BY <1>3, <1>4 DEF LedgerInv

(* The batch that is marked has been copied in full. *)
LEMMA MarkBacked ==
    ASSUME BookInv, Mark
    PROVE  LedgerInv'
  <1>0. /\ TypeOK /\ UNCHANGED <<states, stale>> /\ pc = "Mark" /\ job.dest \in Dest
        /\ State # NoState /\ cur \in File /\ PhaseOf(cur) = "CopyCompleted" /\ PlanFits
        /\ ledger' = ledger \cup {IdentityOf(content, cur)}
    BY DEF BookInv, JobEntry, JobState, Mark, Marked, State, history
  <1>1. State.size[cur] = SizeOf[content[cur]]
    BY <1>0 DEF PlanFits, PlannedIn, PhaseOf
  <1>2. LedgerBacked'
    <2>1. SUFFICES ASSUME NEW e \in ledger'
                   PROVE  (\E d \in Dest :
                             \/ Holds(d, e.path, SizeOf[e.content], CopiedPhases)
                             \/ /\ Holds(d, e.path, SizeOf[e.content], {"VerifyFailed"})
                                /\ e.path \in stale \/ (pc = "Withdraw" /\ cur = e.path))'
      BY DEF LedgerBacked
    <2>2. CASE e \in ledger
      BY <1>0, <2>2 DEF BookInv, LedgerBacked, Holds
    <2>3. CASE e = IdentityOf(content, cur)
      BY <1>0, <1>1, <2>3 DEF IdentityOf, Holds, CopiedPhases, State, PhaseOf
    <2>4. QED
      BY <1>0, <2>2, <2>3
  <1>3. SkippedElsewhere'
    BY <1>0 DEF BookInv, SkippedElsewhere, Holds
  <1>4. QED
    BY <1>2, <1>3 DEF LedgerInv

(* Withdrawal takes out every entry of the batch that failed. *)
LEMMA WithdrawBacked ==
    ASSUME BookInv, Withdraw
    PROVE  LedgerInv'
  <1>0. /\ TypeOK /\ UNCHANGED states /\ pc = "Withdraw"
        /\ ledger' = {e \in ledger : e.path # cur} /\ stale' = stale \ {cur}
    BY DEF BookInv, Withdraw, Withdrawn
  <1>1. LedgerBacked'
    <2>1. SUFFICES ASSUME NEW e \in ledger, e.path # cur
                   PROVE  (\E d \in Dest :
                             \/ Holds(d, e.path, SizeOf[e.content], CopiedPhases)
                             \/ /\ Holds(d, e.path, SizeOf[e.content], {"VerifyFailed"})
                                /\ e.path \in stale \/ (pc = "Withdraw" /\ cur = e.path))'
      BY <1>0 DEF LedgerBacked
    <2>2. QED
      BY <1>0, <2>1 DEF BookInv, LedgerBacked, Holds
  <1>2. SkippedElsewhere'
    BY <1>0 DEF BookInv, SkippedElsewhere, Holds
  <1>3. QED
    BY <1>1, <1>2 DEF LedgerInv

(* Every step keeps the ledger and the skips backed. *)
LEMMA LedgerStep ==
    ASSUME BookInv, Next
    PROVE  LedgerInv'
  <1>0. TypeOK /\ JobState /\ JobEntry
    BY DEF BookInv
  <1>1. CASE BackfillLedger \/ Seed \/ Mark \/ Withdraw
    BY <1>1, BackfillBacked, SeedBacked, MarkBacked, WithdrawBacked
  <1>2. CASE Abort \/ Crash
    <2>1. UNCHANGED <<ledger, states>> /\ stale \subseteq stale'
      BY <1>2 DEF Abort, Crash, CutsWithdrawalShort
    <2>2. pc = "Withdraw" => cur \in stale'
      BY <1>2 DEF Abort, Crash, CutsWithdrawalShort
    <2>3. QED
      BY <2>1, <2>2, LedgerUntouched
  <1>3. CASE \/ \E d \in Dest : StartTransfer(d) \/ StartResume(d)
             \/ Register \/ FindEntry \/ Begin \/ Commit \/ RefuseResume \/ ReviewResume
             \/ Rerun \/ EndCopyPhase \/ AwaitDeletion \/ FinishCommand \/ Fail
             \/ CopyFile \/ RemoveFile \/ Edit
    <2>1. UNCHANGED <<ledger, states, stale>> /\ pc # "Withdraw"
      BY <1>3 DEF StartTransfer, StartResume, Register, FindEntry, Begin, Commit,
                  RefuseResume, ReviewResume, Rerun, EndCopyPhase, AwaitDeletion, VerifyNow,
                  FinishCommand, Fail, CopyFile, RemoveFile, Edit, durable, history
    <2>2. QED
      BY <2>1, LedgerUntouched
  <1>4. CASE BeginCopy \/ FinishCopy \/ FinishDelete \/ VerifyBatch
    <2>1. /\ job.dest \in Dest /\ State # NoState /\ UNCHANGED <<ledger, stale>>
          /\ pc # "Withdraw"
      BY <1>0, <1>4 DEF JobEntry, JobState, State, BeginCopy, FinishCopy, FinishDelete,
                        VerifyBatch, VerifyNow, history
    <2>2. PICK f \in File, p \in Phase :
            /\ SetPhase(f, p)
            /\ PhaseOf(f) \in CopiedPhases \cup {"VerifyFailed"} =>
                 \/ p \in CopiedPhases
                 \/ p = "VerifyFailed" /\ pc' = "Withdraw" /\ cur' = f
      <3>1. CASE BeginCopy
        BY <3>1 DEF BeginCopy, ToCopy, NeedsCopy, CopiedPhases, Phase
      <3>2. CASE FinishCopy \/ FinishDelete
        BY <1>0, <3>2 DEF FinishCopy, FinishDelete, JobState, CopiedPhases, Phase
      <3>3. CASE VerifyBatch
        BY <3>3 DEF VerifyBatch, FirstOf, ToVerify, CopiedPhases, Phase
      <3>4. QED
        BY <1>4, <3>1, <3>2, <3>3
    <2>3. /\ \A d \in Dest : d # job.dest => states'[d] = states[d]
          /\ states'[job.dest] # NoState
          /\ states'[job.dest].size = State.size
          /\ states'[job.dest].skipped = State.skipped
          /\ states'[job.dest].phase[f] = p
          /\ \A g \in File : g # f => states'[job.dest].phase[g] = PhaseOf(g)
      BY <1>0, <2>1, <2>2, PhaseFacts
    <2>4. \A g \in File : PhaseOf(g) \in CopiedPhases =>
               \/ states'[job.dest].phase[g] \in CopiedPhases
               \/ /\ states'[job.dest].phase[g] = "VerifyFailed"
                  /\ pc' = "Withdraw" /\ cur' = g
      BY <2>2, <2>3
    <2>5. \A g \in File : PhaseOf(g) = "VerifyFailed" =>
               states'[job.dest].phase[g] \in CopiedPhases \cup {"VerifyFailed"}
      BY <2>2, <2>3
    <2>6. QED
      BY <2>1, <2>3, <2>4, <2>5, PhasesMoveOn
  <1>5. CASE Approve
    <2>1. /\ job.dest \in Dest /\ State # NoState /\ UNCHANGED <<ledger, stale>>
          /\ pc # "Withdraw"
      BY <1>0, <1>5 DEF JobEntry, JobState, State, Approve, history
    <2>2. /\ \A d \in Dest : d # job.dest => states'[d] = states[d]
          /\ states'[job.dest] # NoState
          /\ states'[job.dest].size = State.size
          /\ states'[job.dest].skipped = State.skipped
          /\ \A g \in File :
                 states'[job.dest].phase[g] =
                    IF PhaseOf(g) = "Verified" THEN "Approved" ELSE PhaseOf(g)
      BY <1>0, <1>5, <2>1, ApproveFacts
    <2>3. \A g \in File : PhaseOf(g) \in CopiedPhases =>
               states'[job.dest].phase[g] \in CopiedPhases
      BY <2>2 DEF CopiedPhases
    <2>4. \A g \in File : PhaseOf(g) = "VerifyFailed" =>
               states'[job.dest].phase[g] \in CopiedPhases \cup {"VerifyFailed"}
      BY <2>2
    <2>5. QED
      BY <2>1, <2>2, <2>3, <2>4, PhasesMoveOn
  <1>6. QED
    BY <1>1, <1>2, <1>3, <1>4, <1>5
       DEF Next, Start, Open, Plan, CopyStep, VerifyStep, Close

-----------------------------------------------------------------------------
(* The invariant, and what follows from it. *)

(* Nothing is registered, recorded or running at first. *)
LEMMA InitBook == Init => BookInv
  <1> SUFFICES ASSUME Init PROVE BookInv
    OBVIOUS
  <1>1. TypeOK
    BY FirstAssumption DEF Init, TypeOK, NoJob, Job, Control
  <1>2. OnlyNewestUnfinished /\ LedgerBacked /\ SkippedElsewhere
    BY DEF Init, OnlyNewestUnfinished, IdsOf, LedgerBacked, SkippedElsewhere
  <1>3. JobEntry /\ JobState
    BY DEF Init, JobEntry, JobState
  <1>4. QED
    BY <1>1, <1>2, <1>3 DEF BookInv

(* Every step, and every stutter, keeps the invariant. *)
LEMMA NextBook == BookInv /\ [Next]_vars => BookInv'
  <1> SUFFICES ASSUME BookInv, [Next]_vars PROVE BookInv'
    OBVIOUS
  <1>1. CASE Next
    BY <1>1, RegistryStep, TypeStep, JobStateStep, LedgerStep
       DEF BookInv, RegistryInv, LedgerInv
  <1>2. CASE UNCHANGED vars
    <2>1. TypeOK' /\ OnlyNewestUnfinished'
      BY <1>2 DEF BookInv, vars, TypeOK, OnlyNewestUnfinished, IdsOf
    <2>2. LedgerInv'
      BY <1>2 DEF BookInv, vars, LedgerBacked, SkippedElsewhere, LedgerInv, Holds
    <2>3. JobEntry'
      BY <1>2 DEF BookInv, vars, JobEntry, IdsOf
    <2>4. JobState'
      BY <1>2 DEF BookInv, vars, JobState, PlanFits, PlannedIn, State, PhaseOf
    <2>5. QED
      BY <2>1, <2>2, <2>3, <2>4 DEF BookInv, LedgerInv
  <1>3. QED
    BY <1>1, <1>2

(* The inductive invariant of the registry, the states and the ledger:     *)
(* register_or_reuse_migration, persist_status_transition_with_intent,     *)
(* mark_batch_completed and remove_batch_completed, with crashes between.  *)
THEOREM BookInvariantHolds == Spec => []BookInv
  BY InitBook, NextBook, PTL DEF Spec

(* Transfer's first and resume's last unfinished entry are the same one.   *)
THEOREM RegistryNotSplit == Spec => []OnlyNewestUnfinished
  <1>1. BookInv => OnlyNewestUnfinished
    BY DEF BookInv
  <1>2. QED
    BY <1>1, BookInvariantHolds, PTL

(* Every ledger entry rests on a recorded copy, or on a withdrawal that    *)
(* was cut short.                                                          *)
THEOREM EntriesBacked == Spec => []LedgerBacked
  <1>1. BookInv => LedgerBacked
    BY DEF BookInv
  <1>2. QED
    BY <1>1, BookInvariantHolds, PTL

(* What a destination skips is recorded by another one. *)
THEOREM SkipsBackedElsewhere == Spec => []SkippedElsewhere
  <1>1. BookInv => SkippedElsewhere
    BY DEF BookInv
  <1>2. QED
    BY <1>1, BookInvariantHolds, PTL

-----------------------------------------------------------------------------
(* The split of a new migration's files. *)

(* The step that splits the files writes the new state. *)
LEMMA SeedingFacts ==
    ASSUME BookInv, [Next]_vars, Seeding
    PROVE  /\ TypeOK /\ pc = "Seed" /\ job.dest \in Dest
           /\ states'[job.dest] = NewState(ledger, content)
  <1>1. TypeOK /\ pc = "Seed" /\ pc' = "Copy" /\ job.dest \in Dest
    BY DEF BookInv, JobEntry, Seeding
  <1>2. Next
    BY <1>1 DEF vars
  <1>3. Seed
    BY <1>1, <1>2
       DEF Next, Start, Open, Plan, CopyStep, VerifyStep, Close, StartTransfer, Register,
           StartResume, RefuseResume, FindEntry, ReviewResume, BackfillLedger, Rerun,
           BeginCopy, CopyFile, FinishCopy, Mark, EndCopyPhase, VerifyBatch, VerifyNow,
           Withdraw, AwaitDeletion, RemoveFile, FinishDelete, Approve, FinishCommand, Fail,
           Begin, Commit, Abort, Crash, Edit, Proceed
  <1>4. QED
    BY <1>1, <1>3 DEF Seed, TypeOK

(* backfill_ledger_from_existing_states: no recorded copy is planned again *)
(* by a new migration of files of that path and size.                      *)
THEOREM NoCopyPlannedAgain == Spec => PlansOnlyUncopied
  <1>1. ASSUME BookInv, [Next]_vars, Seeding,
               NEW f \in PlannedIn(states'[job.dest]), RecordedCopy(f)
        PROVE  FALSE
    <2>1. /\ TypeOK /\ states'[job.dest] = NewState(ledger, content)
          /\ ledger = Backfill(ledger, {states[d] : d \in Dest}, content)
      BY <1>1, SeedingFacts DEF BookInv, JobState
    <2>2. /\ f \in File /\ content[f] # Gone
          /\ \A e \in ledger : content[e.path] = e.content => e.path # f
      BY <1>1, <2>1, NewStateFacts DEF PlannedIn
    <2>3. CopiedBefore({states[d] : d \in Dest}, content, f)
      BY <1>1 DEF RecordedCopy, Holds, CopiedBefore, EligiblePhase, CopiedPhases
    <2>4. IdentityOf(content, f) \in Backfill(ledger, {states[d] : d \in Dest}, content)
      BY <2>2, <2>3 DEF Backfill, Scan
    <2>5. IdentityOf(content, f) \in ledger
      BY <2>1, <2>4
    <2>6. QED
      BY <2>2, <2>5 DEF IdentityOf
  <1>2. BookInv /\ [Next]_vars =>
           [Seeding => \A f \in PlannedIn(states'[job.dest]) : ~ RecordedCopy(f)]_vars
    BY <1>1
  <1>3. QED
    BY <1>2, BookInvariantHolds, PTL DEF Spec, PlansOnlyUncopied

(* A new migration leaves out only what another destination's state        *)
(* records, cut-short withdrawals apart.                                   *)
THEOREM NothingSkippedUncopied == Spec => SkipsOnlyCopied
  <1>1. ASSUME BookInv, [Next]_vars, Seeding,
               NEW e \in states'[job.dest].skipped
        PROVE  e.path \in stale \/ RecordedCopy(e.path)
    <2>1. /\ TypeOK /\ pc = "Seed"
          /\ states'[job.dest] = NewState(ledger, content)
      BY <1>1, SeedingFacts
    <2>2. e \in ledger /\ content[e.path] = e.content
      BY <1>1, <2>1, NewStateFacts
    <2>3. PICK d \in Dest \ {job.dest} :
            \/ Holds(d, e.path, SizeOf[e.content], CopiedPhases)
            \/ Holds(d, e.path, SizeOf[e.content], {"VerifyFailed"}) /\ e.path \in stale
      BY <1>1, <2>1, <2>2, BackedElsewhere
    <2>4. QED
      BY <2>2, <2>3 DEF RecordedCopy
  <1>2. BookInv /\ [Next]_vars =>
           [Seeding => \A e \in states'[job.dest].skipped :
                          e.path \in stale \/ RecordedCopy(e.path)]_vars
    BY <1>1
  <1>3. QED
    BY <1>2, BookInvariantHolds, PTL DEF Spec, SkipsOnlyCopied

-----------------------------------------------------------------------------
(* The registry implements the status board. *)

HasNewest == \A d \in Dest : IdsOf(entries, d) # {} =>
                 \E i \in IdsOf(entries, d) : \A j \in IdsOf(entries, d) : j <= i

(* The newest entry is the one that no other follows. *)
LEMMA NewestFacts ==
    ASSUME NEW ids \in SUBSET Nat, NEW i \in ids, \A j \in ids : j <= i
    PROVE  NewestIn(ids) = i
  <1>1. NewestIn(ids) \in ids /\ \A j \in ids : j <= NewestIn(ids)
    BY DEF NewestIn
  <1>2. NewestIn(ids) <= i /\ i <= NewestIn(ids)
    BY <1>1
  <1>3. NewestIn(ids) \in Nat /\ i \in Nat
    BY <1>1
  <1>4. QED
    BY <1>2, <1>3

(* What a registration that adds an entry does to the ids. *)
LEMMA AddedIds ==
    ASSUME TypeOK, NEW d \in Dest, entries' = AddMigration(entries, d)
    PROVE  /\ Len(entries) + 1 \in IdsOf(entries', d)
           /\ \A j \in IdsOf(entries', d) : j <= Len(entries) + 1
           /\ \A c \in Dest : c # d => IdsOf(entries', c) = IdsOf(entries, c)
           /\ \A j \in 1 .. Len(entries) : entries'[j] = entries[j]
           /\ Effective(entries'[Len(entries) + 1]) = "NotStarted"
  <1>1. Len(entries) \in Nat /\ entries \in Seq(Entry)
    BY DEF TypeOK
  <1>2. /\ Len(entries') = Len(entries) + 1
        /\ \A j \in 1 .. Len(entries) : entries'[j] = entries[j]
        /\ entries'[Len(entries) + 1].dest = d
        /\ Effective(entries'[Len(entries) + 1]) = "NotStarted"
    BY <1>1, AddFacts
  <1>3. QED
    BY <1>1, <1>2 DEF IdsOf

(* Intent and commit change no entry's destination. *)
LEMMA SameIds ==
    ASSUME BookInv, Begin \/ Commit
    PROVE  \A d \in Dest : IdsOf(entries', d) = IdsOf(entries, d)
  <1>1. /\ id \in 1 .. Len(entries) /\ target \in Status /\ entries \in Seq(Entry)
    BY DEF BookInv, TypeOK, JobEntry, Begin, Commit, IdsOf
  <1>2. /\ Len(entries') = Len(entries)
        /\ \A j \in 1 .. Len(entries) : entries'[j].dest = entries[j].dest
    BY <1>1, BeginFacts, CommitFacts DEF Begin, Commit
  <1>3. QED
    BY <1>2 DEF IdsOf

(* Registration reuses an entry, or adds one when none is unfinished. *)
LEMMA RegisterCases ==
    ASSUME BookInv, Register
    PROVE  \/ entries' = entries
           \/ /\ entries' = AddMigration(entries, job.dest)
              /\ \A i \in IdsOf(entries, job.dest) : ~ Unfinished(entries[i])
  <1>1. TypeOK /\ OnlyNewestUnfinished /\ job.dest \in Dest
    BY DEF BookInv, JobEntry, Register
  <1>2. FindBySourceDest(entries, job.dest) = ActiveIds(entries, job.dest)
    BY <1>1, LookupFacts
  <1>3. QED
    BY <1>2 DEF Register, ActiveIds

(* A destination with an entry has a newest one. *)
LEMMA NewestStep == BookInv /\ HasNewest /\ [Next]_vars => HasNewest'
  <1> SUFFICES ASSUME BookInv, HasNewest, [Next]_vars PROVE HasNewest'
    OBVIOUS
  <1>1. CASE entries' = entries
    BY <1>1 DEF HasNewest
  <1>2. CASE Begin \/ Commit
    BY <1>2, SameIds DEF HasNewest
  <1>3. CASE Register /\ entries' # entries
    <2>1. job.dest \in Dest /\ TypeOK /\ entries' = AddMigration(entries, job.dest)
      BY <1>3, RegisterCases DEF BookInv, JobEntry, Register
    <2>2. SUFFICES ASSUME NEW d \in Dest, IdsOf(entries', d) # {}
                   PROVE  \E i \in IdsOf(entries', d) : \A j \in IdsOf(entries', d) : j <= i
      BY DEF HasNewest
    <2>3. CASE d = job.dest
      BY <2>1, <2>3, AddedIds
    <2>4. CASE d # job.dest
      <3>1. IdsOf(entries', d) = IdsOf(entries, d)
        BY <2>1, <2>4, AddedIds
      <3>2. QED
        BY <2>2, <3>1 DEF HasNewest
    <2>5. QED
      BY <2>3, <2>4
  <1>4. CASE UNCHANGED vars
    BY <1>1, <1>4 DEF vars
  <1>5. CASE FindEntry
    BY <1>1, <1>5 DEF FindEntry, durable
  <1>6. QED
    BY <1>1, <1>2, <1>3, <1>4, <1>5, EntriesKept

(* Registering opens the destination's status anew. *)
LEMMA RegisterOpens ==
    ASSUME BookInv, HasNewest, Register, entries' # entries
    PROVE  Shown!Open(job.dest)
  <1> DEFINE d == job.dest
  <1>1. /\ d \in Dest /\ TypeOK /\ entries' = AddMigration(entries, d)
        /\ \A i \in IdsOf(entries, d) : ~ Unfinished(entries[i])
        /\ Len(entries) \in Nat
    BY RegisterCases DEF BookInv, JobEntry, Register, TypeOK
  <1>2. \A c \in Dest : IdsOf(entries, c) \subseteq Nat /\ IdsOf(entries', c) \subseteq Nat
    BY DEF IdsOf
  <1>3. Board[d] \in Shown!Ended \cup {NoStatus}
    <2>1. CASE IdsOf(entries, d) = {}
      BY <1>1, <2>1 DEF Board
    <2>2. CASE IdsOf(entries, d) # {}
      <3>1. PICK i \in IdsOf(entries, d) : \A j \in IdsOf(entries, d) : j <= i
        BY <1>1, <2>2 DEF HasNewest
      <3>2. NewestIn(IdsOf(entries, d)) = i
        BY <1>1, <1>2, <3>1, NewestFacts
      <3>3. QED
        BY <1>1, <2>2, <3>1, <3>2 DEF Board, Unfinished, Ended, Shown!Ended
    <2>3. QED
      BY <2>1, <2>2
  <1>4. Board'[d] = "NotStarted"
    <2>1. NewestIn(IdsOf(entries', d)) = Len(entries) + 1
      BY <1>1, <1>2, AddedIds, NewestFacts
    <2>2. QED
      BY <1>1, <2>1, AddedIds DEF Board
  <1>5. \A c \in Dest : c # d => Board'[c] = Board[c]
    <2>1. SUFFICES ASSUME NEW c \in Dest, c # d PROVE Board'[c] = Board[c]
      OBVIOUS
    <2>2. IdsOf(entries', c) = IdsOf(entries, c)
      BY <1>1, <2>1, AddedIds
    <2>3. CASE IdsOf(entries, c) = {}
      BY <2>2, <2>3 DEF Board
    <2>4. CASE IdsOf(entries, c) # {}
      <3>1. PICK i \in IdsOf(entries, c) : \A j \in IdsOf(entries, c) : j <= i
        BY <2>4 DEF HasNewest
      <3>2. NewestIn(IdsOf(entries, c)) = i
        BY <1>2, <3>1, NewestFacts
      <3>3. entries'[i] = entries[i]
        BY <1>1, <3>1, AddedIds DEF IdsOf
      <3>4. QED
        BY <2>2, <2>4, <3>2, <3>3 DEF Board
    <2>5. QED
      BY <2>3, <2>4
  <1>6. Board' = [Board EXCEPT ![d] = "NotStarted"]
    BY <1>4, <1>5 DEF Board
  <1>7. QED
    BY <1>3, <1>6 DEF Shown!Open

(* An intent reports the status of an unfinished migration. *)
LEMMA BeginReports ==
    ASSUME BookInv, HasNewest, Begin
    PROVE  job.dest \in Dest /\ Shown!Report(job.dest, target)
  <1> DEFINE d == job.dest
  <1>1. /\ d \in Dest /\ target \in Status /\ entries \in Seq(Entry)
        /\ id \in IdsOf(entries, d) /\ \A j \in IdsOf(entries, d) : j <= id
        /\ Unfinished(entries[id]) /\ id \in 1 .. Len(entries)
    BY DEF BookInv, TypeOK, JobEntry, Begin, IdsOf
  <1>2. \A c \in Dest : IdsOf(entries', c) = IdsOf(entries, c)
    BY SameIds
  <1>3. /\ Effective(entries'[id]) = target
        /\ \A j \in 1 .. Len(entries) : j # id => entries'[j] = entries[j]
    BY <1>1, BeginFacts DEF Begin
  <1>4. NewestIn(IdsOf(entries, d)) = id
    <2>1. IdsOf(entries, d) \subseteq Nat
      BY DEF IdsOf
    <2>2. QED
      BY <1>1, <2>1, NewestFacts
  <1>5. Board[d] = Effective(entries[id]) /\ Board'[d] = target
    BY <1>1, <1>2, <1>3, <1>4 DEF Board
  <1>6. Board[d] \in Status \ Ended
    <2>1. entries[id] \in Entry
      BY <1>1
    <2>2. QED
      BY <1>1, <1>5, <2>1 DEF Unfinished, Effective, Entry
  <1>7. \A c \in Dest : c # d => Board'[c] = Board[c]
    <2>1. SUFFICES ASSUME NEW c \in Dest, c # d PROVE Board'[c] = Board[c]
      OBVIOUS
    <2>2. \A j \in IdsOf(entries, c) : entries'[j] = entries[j]
      BY <1>1, <1>3, <2>1 DEF IdsOf
    <2>3. CASE IdsOf(entries, c) = {}
      BY <1>2, <2>3 DEF Board
    <2>4. CASE IdsOf(entries, c) # {}
      <3>1. PICK i \in IdsOf(entries, c) : \A j \in IdsOf(entries, c) : j <= i
        BY <2>4 DEF HasNewest
      <3>2. NewestIn(IdsOf(entries, c)) = i
        BY <3>1, NewestFacts DEF IdsOf
      <3>3. QED
        BY <1>2, <2>2, <2>4, <3>1, <3>2 DEF Board
    <2>5. QED
      BY <1>2, <2>3, <2>4 DEF Board
  <1>8. Board' = [Board EXCEPT ![d] = target]
    BY <1>5, <1>7 DEF Board
  <1>9. QED
    BY <1>1, <1>6, <1>8 DEF Shown!Report, Status, Ended, Shown!Status, Shown!Ended

(* A commit does not change what a reader sees. *)
LEMMA CommitStutters ==
    ASSUME BookInv, HasNewest, Commit
    PROVE  Board' = Board
  <1>1. id \in 1 .. Len(entries) /\ entries \in Seq(Entry)
    BY DEF BookInv, TypeOK, JobEntry, Commit, IdsOf
  <1>2. \A c \in Dest : IdsOf(entries', c) = IdsOf(entries, c)
    BY SameIds
  <1>3. \A j \in 1 .. Len(entries) : Effective(entries'[j]) = Effective(entries[j])
    BY <1>1, CommitFacts DEF Commit
  <1>4. ASSUME NEW c \in Dest, IdsOf(entries, c) # {}
        PROVE  NewestIn(IdsOf(entries, c)) \in 1 .. Len(entries)
    <2>1. PICK i \in IdsOf(entries, c) : \A j \in IdsOf(entries, c) : j <= i
      BY <1>4 DEF HasNewest
    <2>2. NewestIn(IdsOf(entries, c)) = i
      BY <2>1, NewestFacts DEF IdsOf
    <2>3. QED
      BY <2>1, <2>2 DEF IdsOf
  <1>5. QED
    BY <1>2, <1>3, <1>4 DEF Board

(* Every step is a step of the board, or a stutter. *)
LEMMA BoardStep == BookInv /\ HasNewest /\ [Next]_vars => [Shown!Next]_Board
  <1> SUFFICES ASSUME BookInv, HasNewest, [Next]_vars PROVE [Shown!Next]_Board
    OBVIOUS
  <1>1. CASE entries' = entries
    BY <1>1 DEF Board
  <1>2. CASE Register /\ entries' # entries
    <2>1. job.dest \in Dest
      BY <1>2 DEF BookInv, JobEntry, Register
    <2>2. QED
      BY <1>2, <2>1, RegisterOpens DEF Shown!Next
  <1>3. CASE Begin
    <2>1. target \in Shown!Status
      BY <1>3 DEF BookInv, JobEntry, Begin, Status, Shown!Status
    <2>2. QED
      BY <1>3, <2>1, BeginReports DEF Shown!Next
  <1>4. CASE Commit
    BY <1>4, CommitStutters
  <1>5. CASE UNCHANGED vars \/ FindEntry
    BY <1>1, <1>5 DEF vars, FindEntry, durable
  <1>6. QED
    BY <1>1, <1>2, <1>3, <1>4, <1>5, EntriesKept

(* The registry, with a crash between any two saves, implements the status *)
(* board: one status per destination, and an ended migration stays ended.  *)
THEOREM RegistryImplementsBoard == Spec => IsStatusBoard
  <1>1. Init => HasNewest
    BY DEF Init, HasNewest, IdsOf
  <1>2. Init => Shown!Init
    BY DEF Init, IdsOf, Board, Shown!Init
  <1>3. Spec => []HasNewest
    BY <1>1, NewestStep, BookInvariantHolds, PTL DEF Spec
  <1>4. QED
    BY <1>2, <1>3, BoardStep, BookInvariantHolds, PTL DEF Spec, IsStatusBoard, Shown!Spec

-----------------------------------------------------------------------------
(* What stops a command given again, besides the operator's own edits.     *)

(* No command removes a source file that another destination skips.        *)
SparesSkipped ==
    [][RemoveFile => \A d \in Dest \ {job.dest} : states[d] # NoState =>
                         \A e \in states[d].skipped : e.path # cur']_vars

(* What a destination skips is outside its own plan, and at the source.    *)
SkipsStand ==
    \A d \in Dest : states[d] # NoState =>
        \A e \in states[d].skipped :
            /\ states[d].phase[e.path] = "Unplanned"
            /\ edits = 0 => content[e.path] = e.content

(* A step that leaves plans, skips and source alone. *)
LEMMA PlanKept ==
    ASSUME BookInv, SkipsStand, job.dest \in Dest, State # NoState,
           UNCHANGED <<content, edits>>,
           \A d \in Dest : d # job.dest => states'[d] = states[d],
           states'[job.dest].skipped = State.skipped,
           \A f \in File : PhaseOf(f) = "Unplanned" => states'[job.dest].phase[f] = "Unplanned"
    PROVE  SkipsStand'
  <1>0. TypeOK /\ \A e \in Identity : e.path \in File
    BY DEF BookInv, Identity
  <1>1. SUFFICES ASSUME NEW d \in Dest, states'[d] # NoState, NEW e \in states'[d].skipped
                 PROVE  /\ states'[d].phase[e.path] = "Unplanned"
                        /\ edits' = 0 => content'[e.path] = e.content
    BY DEF SkipsStand
  <1>2. states[d] # NoState /\ e \in states[d].skipped
    BY <1>1 DEF State
  <1>3. e.path \in File
    BY <1>0, <1>2, StateFacts
  <1>4. states[d].phase[e.path] = "Unplanned" /\ (edits = 0 => content[e.path] = e.content)
    BY <1>2 DEF SkipsStand
  <1>5. QED
    BY <1>3, <1>4 DEF State, PhaseOf

(* Every other step: a plan is made outside its skips, what it holds is    *)
(* all that its command removes.                                           *)
LEMMA SkipsStandStep ==
    ASSUME BookInv, SkipsStand, Next,
           RemoveFile => \A d \in Dest \ {job.dest} : states[d] # NoState =>
                             \A e \in states[d].skipped : e.path # cur'
    PROVE  SkipsStand'
  <1>0. /\ TypeOK /\ JobState /\ JobEntry /\ (pc # "Idle" => job.dest \in Dest)
        /\ \A e \in Identity : e.path \in File
    BY DEF BookInv, JobEntry, Identity
  <1>1. CASE \/ \E d \in Dest : StartTransfer(d) \/ StartResume(d)
             \/ Register \/ FindEntry \/ Begin \/ Commit \/ RefuseResume \/ ReviewResume
             \/ Rerun \/ EndCopyPhase \/ AwaitDeletion \/ FinishCommand \/ Fail
             \/ CopyFile \/ BackfillLedger \/ Mark \/ Withdraw \/ Abort \/ Crash
    <2>1. UNCHANGED <<content, states, edits>>
      BY <1>1 DEF StartTransfer, StartResume, Register, FindEntry, Begin, Commit,
                  RefuseResume, ReviewResume, Rerun, EndCopyPhase, AwaitDeletion,
                  FinishCommand, Fail, CopyFile, BackfillLedger, Mark, Withdraw, Abort, Crash,
                  durable, history
    <2>2. QED
      BY <2>1 DEF SkipsStand
  <1>2. CASE Seed
    <2>1. /\ job.dest \in Dest /\ UNCHANGED <<content, edits>>
          /\ states' = [states EXCEPT ![job.dest] = NewState(ledger, content)]
      BY <1>0, <1>2 DEF Seed, history
    <2>2. /\ states'[job.dest] = NewState(ledger, content)
          /\ \A d \in Dest : d # job.dest => states'[d] = states[d]
      BY <1>0, <2>1 DEF TypeOK
    <2>3. SUFFICES ASSUME NEW d \in Dest, states'[d] # NoState, NEW e \in states'[d].skipped
                   PROVE  /\ states'[d].phase[e.path] = "Unplanned"
                          /\ edits' = 0 => content'[e.path] = e.content
      BY DEF SkipsStand
    <2>4. CASE d # job.dest
      BY <2>1, <2>2, <2>3, <2>4 DEF SkipsStand
    <2>5. CASE d = job.dest
      <3> DEFINE r == NewState(ledger, content)
      <3>1. /\ r \in StateRecord /\ states'[d] = r
            /\ r.skipped = {c \in ledger : content[c.path] = c.content}
            /\ \A f \in File : r.phase[f] \in {"Planned", "Unplanned"}
            /\ \A f \in File : r.phase[f] = "Planned" => \A c \in r.skipped : c.path # f
        BY <1>0, <2>2, <2>5, NewStateFacts
      <3> HIDE DEF r
      <3>2. e \in ledger /\ e.path \in File /\ content[e.path] = e.content
        BY <1>0, <2>3, <3>1 DEF TypeOK
      <3>3. QED
        BY <2>1, <2>3, <3>1, <3>2
    <2>6. QED
      BY <2>4, <2>5
  <1>3. CASE BeginCopy \/ FinishCopy \/ FinishDelete \/ VerifyBatch
    <2>1. job.dest \in Dest /\ State # NoState /\ UNCHANGED <<content, edits>>
      BY <1>0, <1>3 DEF JobState, State, BeginCopy, FinishCopy, FinishDelete,
                        VerifyBatch, VerifyNow, history
    <2>2. PICK f \in File, p \in Phase : SetPhase(f, p) /\ PhaseOf(f) # "Unplanned"
      <3>1. CASE BeginCopy
        BY <3>1 DEF BeginCopy, ToCopy, NeedsCopy, Phase
      <3>2. CASE FinishCopy \/ FinishDelete
        BY <1>0, <3>2 DEF FinishCopy, FinishDelete, JobState, Phase
      <3>3. CASE VerifyBatch
        BY <3>3 DEF VerifyBatch, FirstOf, ToVerify, NeedsVerification, Phase
      <3>4. QED
        BY <1>3, <3>1, <3>2, <3>3
    <2>3. /\ \A d \in Dest : d # job.dest => states'[d] = states[d]
          /\ states'[job.dest].skipped = State.skipped
          /\ \A g \in File : g # f => states'[job.dest].phase[g] = PhaseOf(g)
      BY <1>0, <2>1, <2>2, PhaseFacts
    <2>4. QED
      BY <2>1, <2>2, <2>3, PlanKept
  <1>4. CASE Approve
    <2>1. job.dest \in Dest /\ State # NoState /\ UNCHANGED <<content, edits>>
      BY <1>0, <1>4 DEF JobState, State, Approve, history
    <2>2. /\ \A d \in Dest : d # job.dest => states'[d] = states[d]
          /\ states'[job.dest].skipped = State.skipped
          /\ \A g \in File :
                 states'[job.dest].phase[g] =
                    IF PhaseOf(g) = "Verified" THEN "Approved" ELSE PhaseOf(g)
      BY <1>0, <1>4, <2>1, ApproveFacts
    <2>3. QED
      BY <2>1, <2>2, PlanKept
  <1>5. CASE RemoveFile
    <2>1. /\ job.dest \in Dest /\ State # NoState /\ UNCHANGED <<states, edits>>
          /\ cur' \in File /\ PhaseOf(cur') = "Approved"
          /\ content' = [content EXCEPT ![cur'] = Gone]
      BY <1>0, <1>5 DEF RemoveFile, JobState, State, FirstOf, InPhase, history
    <2>2. \A f \in File : f # cur' => content'[f] = content[f]
      BY <1>0, <2>1 DEF TypeOK
    <2>3. ASSUME NEW d \in Dest, states[d] # NoState, NEW e \in states[d].skipped
          PROVE  e.path # cur' /\ e.path \in File
      <3>1. e.path \in File
        BY <1>0, <2>3, StateFacts
      <3>2. CASE d = job.dest
        <4>1. PhaseOf(e.path) = "Unplanned"
          BY <2>3, <3>2 DEF SkipsStand, PhaseOf, State
        <4>2. QED
          BY <2>1, <3>1, <4>1
      <3>3. CASE d # job.dest
        BY <1>5, <2>3, <3>1, <3>3
      <3>4. QED
        BY <3>2, <3>3
    <2>4. QED
      BY <2>1, <2>2, <2>3 DEF SkipsStand
  <1>6. CASE Edit
    <2>1. states' = states /\ edits \in Nat /\ edits' = edits + 1
      BY <1>0, <1>6 DEF Edit, TypeOK
    <2>2. QED
      BY <2>1 DEF SkipsStand
  <1>7. QED
    BY <1>1, <1>2, <1>3, <1>4, <1>5, <1>6
       DEF Next, Start, Open, Plan, CopyStep, VerifyStep, Close

(* filter_entries_for_persisted_skips_selective refuses a migration given  *)
(* again, with an untouched source, for one reason only: a migration to    *)
(* another destination has deleted a file this one leaves out.             *)
THEOREM OnlyOtherRemovalsRefuse == Spec /\ SparesSkipped => []RerunGoesOn
  <1>1. Init => SkipsStand
    BY DEF Init, SkipsStand
  <1>2. ASSUME BookInv, SkipsStand, [Next]_vars,
               [RemoveFile => \A d \in Dest \ {job.dest} : states[d] # NoState =>
                                  \A e \in states[d].skipped : e.path # cur']_vars
        PROVE  SkipsStand'
    <2>1. CASE UNCHANGED vars
      BY <1>2, <2>1 DEF vars, SkipsStand
    <2>2. CASE ~ UNCHANGED vars
      BY <1>2, <2>2, SkipsStandStep
    <2>3. QED
      BY <2>1, <2>2
  <1>3. ASSUME BookInv, SkipsStand PROVE RerunGoesOn
    <2>1. SUFFICES ASSUME pc \in {"Plan", "Check"}, edits = 0, HasManifest(State)
                   PROVE  SkipsValid(State, content)
      BY DEF RerunGoesOn
    <2>2. job.dest \in Dest /\ states[job.dest] # NoState
      BY <1>3, <2>1 DEF BookInv, JobEntry, HasManifest, State
    <2>3. QED
      BY <1>3, <2>1, <2>2 DEF SkipsStand, SkipsValid, State
  <1>4. QED
    BY <1>1, <1>2, <1>3, BookInvariantHolds, PTL DEF Spec, SparesSkipped
=============================================================================
