-------------------------- MODULE StateStoreProofs --------------------------
(***************************************************************************)
(* The two copies of a migration's state are one register, for any number  *)
(* of migrations, as long as each keeps both copies to itself.  A resume   *)
(* may be given any copy, also one that was left behind: what that costs   *)
(* is part of the statements.                                              *)
(***************************************************************************)
EXTENDS StateStore, TLAPS

Separate ==
    /\ \A m, n \in Identity : CanonicalOf[m] = CanonicalOf[n] => m = n
    /\ \A m, n \in Identity : BackupOf[m] = BackupOf[n] => m = n

(* A path belongs to one migration. *)
LEMMA PathFacts ==
    ASSUME Separate, NEW m \in Identity, NEW n \in Identity
    PROVE  /\ CanonicalOf[m] \in Path /\ BackupOf[m] \in Path
           /\ CanonicalOf[m] # BackupOf[n]
           /\ CanonicalOf[m] = CanonicalOf[n] => m = n
           /\ BackupOf[m] = BackupOf[n] => m = n
  BY CanonicalOfAssumption, BackupOfAssumption, PathAssumption DEF Separate, Path

(* The two files of a migration are paths, and no other migration's. *)
LEMMA FileFacts ==
    /\ \A m \in Identity : /\ FilesOf(m) \subseteq Path
                           /\ CanonicalOf[m] \in FilesOf(m) /\ BackupOf[m] \in FilesOf(m)
    /\ Separate => \A m, n \in Identity, p \in Path :
                      p \in FilesOf(m) /\ p \in FilesOf(n) => m = n
  <1>1. \A m \in Identity : /\ FilesOf(m) \subseteq Path
                            /\ CanonicalOf[m] \in FilesOf(m) /\ BackupOf[m] \in FilesOf(m)
    BY CanonicalOfAssumption, BackupOfAssumption DEF FilesOf, Path
  <1>2. ASSUME Separate, NEW m \in Identity, NEW n \in Identity, NEW p \in Path,
               p \in FilesOf(m), p \in FilesOf(n)
        PROVE  m = n
    BY <1>2, PathFacts DEF FilesOf
  <1>3. QED
    BY <1>1, <1>2

(* The fields of a state. *)
LEMMA StateFacts ==
    /\ \A m \in Identity : FreshOf(m) \in State /\ FreshOf(m).owner = m
                           /\ FreshOf(m).version = 0
    /\ \A s \in State : s.owner \in Identity /\ s.version \in Nat /\ s # NoState
    /\ \A e \in Envelope : Valid(e) /\ e.revision \in Nat /\ e.state \in State
    /\ ~ Valid(Missing) /\ ~ Valid(Damaged)
    /\ \A i \in Nat, s \in State : [revision |-> i, state |-> s] \in Envelope
  BY NoStateAssumption, LostAssumption, MaxVersionAssumption
     DEF FreshOf, State, Envelope, Valid

(* A valid copy is an envelope. *)
LEMMA CopyFacts ==
    ASSUME TypeOK, NEW p \in Path, Valid(copy[p])
    PROVE  /\ copy[p] \in Envelope
           /\ copy[p].revision \in Nat
           /\ copy[p].state \in State
           /\ copy[p].state.owner \in Identity
           /\ copy[p].state.version \in Nat
  BY StateFacts DEF TypeOK, Valid

(* Legacy files belong to their migrations and have the same content. *)
LEMMA InitStore == ASSUME Separate, Init PROVE StoreInv
  <1>1. \A m \in Identity : /\ LegacyOf(m) \in Envelope
                            /\ LegacyOf(m).state.owner = m
                            /\ LegacyOf(m).state.version = 0
                            /\ LegacyOf(m).revision = 0
                            /\ Valid(LegacyOf(m))
    BY StateFacts DEF LegacyOf
  <1>2. \A p \in Path : Valid(copy[p]) =>
           \E n \in Identity : p \in FilesOf(n) /\ copy[p] = LegacyOf(n)
    BY StateFacts DEF Init
  <1>3. TypeOK
    <2>1. copy \in [Path -> Envelope \cup {Missing, Damaged}]
      BY <1>1 DEF Init
    <2>2. caller \in Identity /\ at \in Path /\ version \in 0 .. MaxVersion
      BY MaxVersionAssumption, CanonicalOfAssumption DEF Init, Path
    <2>3. QED
      BY <2>1, <2>2 DEF Init, TypeOK
  <1>4. OwnCopies
    <2>1. SUFFICES ASSUME NEW p \in Path, Valid(copy[p])
                   PROVE  /\ p \in FilesOf(copy[p].state.owner)
                          /\ copy[p].state.version <= version
      BY DEF OwnCopies
    <2>2. PICK n \in Identity : p \in FilesOf(n) /\ copy[p] = LegacyOf(n)
      BY <1>2, <2>1
    <2>3. copy[p].state.owner = n /\ copy[p].state.version = 0 /\ version = 0
      BY <1>1, <2>2 DEF Init
    <2>4. QED
      BY <2>2, <2>3
  <1>5. InStep
    <2>1. SUFFICES ASSUME NEW m \in Identity, NEW p \in FilesOf(m), NEW q \in FilesOf(m),
                          Valid(copy[p]), Valid(copy[q])
                   PROVE  copy[p] = LegacyOf(m) /\ copy[q] = LegacyOf(m)
      BY <1>1 DEF InStep
    <2>2. QED
      BY <1>2, <2>1, FileFacts
  <1>6. CommandSound
    BY DEF Init, CommandSound
  <1>7. QED
    BY <1>3, <1>4, <1>5, <1>6 DEF StoreInv

(* A command starts: the files stay as they are. *)
LEMMA BeginInv ==
    ASSUME StoreInv, NEW m \in Identity, NEW path \in Path, NEW r \in BOOLEAN,
           NEW st \in State, st.owner = m,
           Begin(m, path, r, st),
           astray \subseteq astray', astray' \subseteq Identity,
           r => /\ path \in FilesOf(m) /\ Valid(copy[path])
                /\ m \notin astray' => \A p \in FilesOf(m) :
                      Valid(copy[p]) => copy[p].revision <= copy[path].revision
    PROVE  StoreInv'
  <1>1. TypeOK'
    BY DEF StoreInv, TypeOK, Begin
  <1>2. OwnCopies' /\ InStep'
    BY DEF StoreInv, OwnCopies, InStep, Begin
  <1>3. CommandSound'
    BY StateFacts DEF Begin, CommandSound
  <1>4. QED
    BY <1>1, <1>2, <1>3 DEF StoreInv

(* load_or_create_state: the state taken is of this migration. *)
LEMMA StartTransferInv ==
    ASSUME StoreInv, NEW m \in Identity, StartTransfer(m)
    PROVE  StoreInv'
  <1> DEFINE c == copy[CanonicalOf[m]]
             b == copy[BackupOf[m]]
  <1>1. CanonicalOf[m] \in Path /\ BackupOf[m] \in Path
    BY CanonicalOfAssumption, BackupOfAssumption DEF Path
  <1>2. PICK st \in State : st.owner = m /\ Begin(m, CanonicalOf[m], FALSE, st)
    <2>1. Valid(c) => c.state \in State
      BY <1>1, CopyFacts DEF StoreInv
    <2>2. Valid(b) => b.state \in State
      BY <1>1, CopyFacts DEF StoreInv
    <2>3. QED
      BY <2>1, <2>2, StateFacts DEF StartTransfer, LoadsCanonical, LoadsBackup
  <1>3. astray' = astray /\ astray \subseteq Identity
    BY DEF StartTransfer, StoreInv, TypeOK
  <1>4. QED
    BY <1>1, <1>2, <1>3, BeginInv

(* load_state_for_resume: the copy leads, or the resume strays. *)
LEMMA StartResumeInv ==
    ASSUME StoreInv, NEW p \in Path, StartResume(p)
    PROVE  StoreInv'
  <1> DEFINE m == copy[p].state.owner
  <1>1. /\ m \in Identity /\ copy[p].state \in State /\ copy[p].revision \in Nat
        /\ Valid(copy[p]) /\ p \in FilesOf(m)
    BY CopyFacts DEF StartResume, StoreInv, OwnCopies
  <1>2. astray' = astray \cup (IF LeftBehind(p) THEN {m} ELSE {})
    BY DEF StartResume
  <1>3. astray \subseteq astray' /\ astray' \subseteq Identity
    BY <1>1, <1>2 DEF StoreInv, TypeOK
  <1>4. ASSUME m \notin astray', NEW q \in FilesOf(m), Valid(copy[q])
        PROVE  copy[q].revision <= copy[p].revision
    <2>1. ~ LeftBehind(p)
      BY <1>2, <1>4
    <2>2. ~ (copy[q].revision > copy[p].revision)
      BY <1>4, <2>1 DEF LeftBehind
    <2>3. copy[q].revision \in Nat
      BY <1>1, <1>4, FileFacts, CopyFacts DEF StoreInv
    <2>4. QED
      BY <1>1, <2>2, <2>3
  <1>5. Begin(m, p, TRUE, copy[p].state)
    BY DEF StartResume
  <1>6. QED
    BY <1>1, <1>3, <1>4, <1>5, BeginInv

(* A write's revision is above that of the copies it is numbered after. *)
LEMMA RevisionFacts ==
    ASSUME TypeOK, NEW p \in Path, NEW q \in Path
    PROVE  /\ TransferRevision(copy[p], copy[q]) \in Nat
           /\ Valid(copy[p]) => copy[p].revision < TransferRevision(copy[p], copy[q])
           /\ Valid(copy[q]) => copy[q].revision < TransferRevision(copy[p], copy[q])
           /\ NextRevision(copy[p]) \in Nat
           /\ Valid(copy[p]) => copy[p].revision < NextRevision(copy[p])
  <1>1. Valid(copy[p]) => copy[p].revision \in Nat
    BY CopyFacts
  <1>2. Valid(copy[q]) => copy[q].revision \in Nat
    BY CopyFacts
  <1>3. /\ NextRevision(copy[p]) \in Nat /\ NextRevision(copy[q]) \in Nat
        /\ Valid(copy[p]) => copy[p].revision < NextRevision(copy[p])
        /\ Valid(copy[q]) => copy[q].revision < NextRevision(copy[q])
    BY <1>1, <1>2 DEF NextRevision
  <1>4. QED
    BY <1>1, <1>2, <1>3 DEF TransferRevision, Larger

(* A copy of the caller is replaced by one with a higher revision than its *)
(* other copy has, unless it strays: the new copy leads.                   *)
LEMMA WriteInv ==
    ASSUME Separate, StoreInv, NEW i \in Nat, NEW path \in FilesOf(caller),
           version < MaxVersion, version' = version + 1,
           Write(path, i, NextState),
           astray \ {caller} \subseteq astray', astray' \subseteq astray,
           caller \notin astray' => \A p \in FilesOf(caller) \ {path} :
               Valid(copy[p]) => copy[p].revision < i
    PROVE  /\ NextState \in State /\ NextState.owner = caller
           /\ copy' \in [Path -> Envelope \cup {Missing, Damaged}]
           /\ OwnCopies' /\ InStep'
           /\ copy'[path] = [revision |-> i, state |-> NextState]
           /\ Valid(copy'[path]) /\ copy'[path].revision = i
           /\ copy'[path].state = NextState
           /\ \A p \in Path \ {path} : copy'[p] = copy[p]
  <1> DEFINE new == [revision |-> i, state |-> NextState]
  <1>1. /\ caller \in Identity /\ NextState \in State /\ NextState.owner = caller
        /\ NextState.version = version' /\ version \in Nat /\ version' \in Nat
    BY MaxVersionAssumption DEF StoreInv, TypeOK, NextState, State
  <1>2. new \in Envelope /\ Valid(new) /\ new.revision = i /\ new.state = NextState
    BY <1>1, StateFacts
  <1>3. path \in Path
    BY <1>1, FileFacts
  <1>4. /\ copy' \in [Path -> Envelope \cup {Missing, Damaged}]
        /\ copy'[path] = new
        /\ \A p \in Path \ {path} : copy'[p] = copy[p]
    BY <1>2, <1>3 DEF StoreInv, TypeOK, Write
  <1> HIDE DEF new
  <1>5. ASSUME NEW p \in Path, Valid(copy[p])
        PROVE  /\ copy[p].state.version \in Nat /\ copy[p].state.version <= version
               /\ copy[p].revision \in Nat
    BY <1>5, CopyFacts DEF StoreInv, OwnCopies
  <1>6. OwnCopies'
    <2>1. SUFFICES ASSUME NEW p \in Path, Valid(copy'[p])
                   PROVE  /\ p \in FilesOf(copy'[p].state.owner)
                          /\ copy'[p].state.version <= version'
      BY DEF OwnCopies, Valid, FilesOf
    <2>2. CASE p = path
      BY <1>1, <1>2, <1>4, <2>2
    <2>3. CASE p # path
      <3>1. copy'[p] = copy[p] /\ Valid(copy[p])
        BY <1>4, <2>1, <2>3
      <3>2. p \in FilesOf(copy[p].state.owner)
        BY <3>1 DEF StoreInv, OwnCopies
      <3>3. QED
        BY <1>1, <1>5, <3>1, <3>2
    <2>4. QED
      BY <2>2, <2>3
  <1>7. InStep'
    <2>1. SUFFICES ASSUME NEW m \in Identity \ astray', NEW p \in FilesOf(m),
                          NEW q \in FilesOf(m), Valid(copy'[p]), Valid(copy'[q])
                   PROVE  /\ copy'[p].revision = copy'[q].revision
                                => copy'[p].state = copy'[q].state
                          /\ copy'[p].revision < copy'[q].revision
                                => copy'[p].state.version <= copy'[q].state.version
      BY DEF InStep, Valid, FilesOf
    <2>2. p \in Path /\ q \in Path
      BY FileFacts
    <2>3. CASE m # caller
      <3>1. p # path /\ q # path
        BY <1>1, <1>3, <2>3, FileFacts
      <3>2. copy'[p] = copy[p] /\ copy'[q] = copy[q] /\ m \notin astray
        BY <1>4, <2>2, <2>3, <3>1
      <3>3. QED
        BY <2>1, <3>2 DEF StoreInv, InStep
    <2>4. CASE m = caller /\ p = q
      <3>1. copy'[p].revision \in Nat
        BY <1>2, <1>4, <1>5, <2>1, <2>2
      <3>2. QED
        BY <2>4, <3>1
    <2>5. CASE m = caller /\ p = path /\ q # path
      <3>1. copy'[p].revision = i /\ copy'[q] = copy[q] /\ copy[q].revision < i
        BY <1>2, <1>4, <2>1, <2>2, <2>5
      <3>2. copy[q].revision \in Nat
        BY <1>5, <2>1, <2>2, <3>1
      <3>3. QED
        BY <3>1, <3>2
    <2>6. CASE m = caller /\ p # path /\ q = path
      <3>1. copy'[q].revision = i /\ copy'[q].state.version = version'
            /\ copy'[p] = copy[p] /\ copy[p].revision < i
        BY <1>1, <1>2, <1>4, <2>1, <2>2, <2>6
      <3>2. copy[p].revision \in Nat /\ copy[p].state.version \in Nat
            /\ copy[p].state.version <= version
        BY <1>5, <2>1, <2>2, <3>1
      <3>3. QED
        BY <1>1, <3>1, <3>2
    <2>7. m = caller /\ p # path /\ q # path => p = q
      BY DEF FilesOf
    <2>8. QED
      BY <2>3, <2>4, <2>5, <2>6, <2>7
  <1>8. QED
    BY <1>1, <1>2, <1>4, <1>6, <1>7 DEF new

(* The canonical write of a transfer, above both copies: it strays no more.*)
LEMMA PersistTransferInv ==
    ASSUME Separate, StoreInv, PersistTransfer
    PROVE  /\ StoreInv'
           /\ \A p \in FilesOf(caller) \ {CanonicalOf[caller]} :
                 Valid(copy'[p]) => copy'[p].revision < copy'[CanonicalOf[caller]].revision
           /\ copy'[CanonicalOf[caller]].state = mem'
           /\ Valid(copy'[CanonicalOf[caller]])
           /\ \A p \in Path \ {CanonicalOf[caller]} : copy'[p] = copy[p]
  <1>1. /\ caller \in Identity /\ CanonicalOf[caller] \in Path /\ BackupOf[caller] \in Path
        /\ CanonicalOf[caller] # BackupOf[caller]
        /\ CanonicalOf[caller] \in FilesOf(caller)
    BY PathFacts, FileFacts DEF StoreInv, TypeOK
  <1> DEFINE i == TransferRevision(copy[CanonicalOf[caller]], copy[BackupOf[caller]])
  <1>2. /\ i \in Nat
        /\ Valid(copy[BackupOf[caller]]) => copy[BackupOf[caller]].revision < i
    BY <1>1, RevisionFacts DEF StoreInv
  <1>3. /\ newest' = i /\ mem' = NextState /\ pc' = "WriteBackup"
        /\ Write(CanonicalOf[caller], i, NextState)
        /\ pc = "Running" /\ ~ resumes /\ version < MaxVersion /\ version' = version + 1
        /\ astray' = astray \ {caller}
        /\ UNCHANGED <<caller, at, resumes>>
    BY DEF PersistTransfer
  <1> HIDE DEF i
  <1>4. FilesOf(caller) \ {CanonicalOf[caller]} = {BackupOf[caller]}
    BY <1>1 DEF FilesOf
  <1>5. /\ NextState \in State /\ NextState.owner = caller
        /\ copy' \in [Path -> Envelope \cup {Missing, Damaged}]
        /\ OwnCopies' /\ InStep'
        /\ copy'[CanonicalOf[caller]] = [revision |-> i, state |-> NextState]
        /\ Valid(copy'[CanonicalOf[caller]]) /\ copy'[CanonicalOf[caller]].revision = i
        /\ copy'[CanonicalOf[caller]].state = NextState
        /\ \A p \in Path \ {CanonicalOf[caller]} : copy'[p] = copy[p]
    <2>1. astray \ {caller} \subseteq astray' /\ astray' \subseteq astray
      BY <1>3
    <2>2. QED
      BY <1>1, <1>2, <1>3, <1>4, <2>1, WriteInv
  <1>6. TypeOK'
    BY <1>2, <1>3, <1>5, MaxVersionAssumption DEF StoreInv, TypeOK
  <1>7. copy'[BackupOf[caller]] = copy[BackupOf[caller]]
    BY <1>1, <1>5
  <1>8. CommandSound'
    <2>1. mem' # NoState /\ mem'.owner = caller' /\ ~ resumes' /\ caller' \notin astray'
      BY <1>3, <1>5, StateFacts
    <2>2. copy'[CanonicalOf[caller']] = [revision |-> newest', state |-> mem']
      BY <1>3, <1>5
    <2>3. Valid(copy'[BackupOf[caller']]) => copy'[BackupOf[caller']].revision < newest'
      BY <1>2, <1>3, <1>7
    <2>4. QED
      BY <1>3, <2>1, <2>2, <2>3 DEF CommandSound, Valid
  <1>9. QED
    BY <1>2, <1>3, <1>4, <1>5, <1>6, <1>7, <1>8 DEF StoreInv

(* The one write of a resume raises the copy it was given.  Unless it      *)
(* strays, that copy led before and leads after.                           *)
LEMMA PersistResumeInv ==
    ASSUME Separate, StoreInv, PersistResume
    PROVE  /\ StoreInv'
           /\ at \in FilesOf(caller)
           /\ caller \notin astray => \A p \in FilesOf(caller) \ {at} :
                 Valid(copy'[p]) => copy'[p].revision < copy'[at].revision
           /\ copy'[at].state = mem'
           /\ Valid(copy'[at])
           /\ \A p \in Path \ {at} : copy'[p] = copy[p]
  <1>1. /\ caller \in Identity /\ at \in Path
        /\ pc = "Running" /\ resumes /\ at \in FilesOf(caller) /\ Valid(copy[at])
        /\ caller \notin astray => \A p \in FilesOf(caller) :
              Valid(copy[p]) => copy[p].revision <= copy[at].revision
    BY DEF PersistResume, StoreInv, TypeOK, CommandSound
  <1> DEFINE i == NextRevision(copy[at])
  <1>2. i \in Nat /\ copy[at].revision < i /\ copy[at].revision \in Nat
    BY <1>1, RevisionFacts, CopyFacts DEF StoreInv
  <1>3. /\ mem' = NextState
        /\ Write(at, i, NextState)
        /\ version < MaxVersion /\ version' = version + 1
        /\ UNCHANGED <<pc, caller, at, resumes, newest, astray>>
    BY DEF PersistResume
  <1> HIDE DEF i
  <1>4. ASSUME caller \notin astray, NEW p \in FilesOf(caller), Valid(copy[p])
        PROVE  copy[p].revision < i
    <2>1. copy[p].revision \in Nat
      BY <1>1, <1>4, FileFacts, CopyFacts DEF StoreInv
    <2>2. QED
      BY <1>1, <1>2, <1>4, <2>1
  <1>5. /\ NextState \in State /\ NextState.owner = caller
        /\ copy' \in [Path -> Envelope \cup {Missing, Damaged}]
        /\ OwnCopies' /\ InStep'
        /\ Valid(copy'[at]) /\ copy'[at].revision = i /\ copy'[at].state = NextState
        /\ \A p \in Path \ {at} : copy'[p] = copy[p]
    BY <1>1, <1>2, <1>3, <1>4, WriteInv
  <1>6. TypeOK'
    BY <1>3, <1>5, MaxVersionAssumption DEF StoreInv, TypeOK
  <1>7. ASSUME caller \notin astray, NEW p \in FilesOf(caller) \ {at}, Valid(copy'[p])
        PROVE  copy'[p].revision < copy'[at].revision
    <2>1. copy'[p] = copy[p]
      BY <1>1, <1>5, FileFacts
    <2>2. QED
      BY <1>4, <1>5, <1>7, <2>1
  <1>8. CommandSound'
    <2>1. mem' # NoState /\ mem'.owner = caller'
      BY <1>3, <1>5, StateFacts
    <2>2. ASSUME caller' \notin astray', NEW p \in FilesOf(caller'), Valid(copy'[p])
          PROVE  copy'[p].revision <= copy'[at'].revision
      <3>1. CASE p = at
        BY <1>2, <1>3, <1>5, <3>1
      <3>2. CASE p # at
        <4>1. copy'[p] = copy[p] /\ copy[p].revision \in Nat
          BY <1>1, <1>3, <1>5, <2>2, <3>2, FileFacts, CopyFacts DEF StoreInv
        <4>2. QED
          BY <1>2, <1>3, <1>5, <1>7, <2>2, <3>2, <4>1
      <3>3. QED
        BY <3>1, <3>2
    <2>3. /\ pc' = "Running" /\ at' \in FilesOf(caller') /\ Valid(copy'[at'])
      BY <1>1, <1>3, <1>5
    <2>4. QED
      BY <2>1, <2>2, <2>3 DEF CommandSound, Valid, FilesOf
  <1>9. QED
    BY <1>1, <1>3, <1>5, <1>6, <1>7, <1>8 DEF StoreInv

(* The backup becomes level with the canonical copy, or stays behind. *)
LEMMA PersistBackupInv ==
    ASSUME Separate, StoreInv, PersistBackup
    PROVE  /\ StoreInv'
           /\ \A p \in Path \ {BackupOf[caller]} : copy'[p] = copy[p]
           /\ copy'[BackupOf[caller]] \in {copy[BackupOf[caller]], copy[CanonicalOf[caller]]}
           /\ Valid(copy[CanonicalOf[caller]])
           /\ Valid(copy[BackupOf[caller]]) =>
                 copy[BackupOf[caller]].revision < copy[CanonicalOf[caller]].revision
  <1> DEFINE new == [revision |-> newest, state |-> mem]
  <1>1. /\ caller \in Identity /\ CanonicalOf[caller] \in Path /\ BackupOf[caller] \in Path
        /\ CanonicalOf[caller] # BackupOf[caller]
        /\ CanonicalOf[caller] \in FilesOf(caller) /\ BackupOf[caller] \in FilesOf(caller)
        /\ pc = "WriteBackup" /\ mem \in State /\ mem.owner = caller /\ newest \in Nat
    BY PathFacts, FileFacts DEF PersistBackup, StoreInv, TypeOK, CommandSound
  <1>2. /\ new \in Envelope /\ Valid(new) /\ new.state = mem /\ new.revision = newest
        /\ copy[CanonicalOf[caller]] = new
        /\ Valid(copy[BackupOf[caller]]) => copy[BackupOf[caller]].revision < newest
    BY <1>1, StateFacts DEF StoreInv, CommandSound
  <1>3. /\ pc' = "Running" /\ newest' = 0
        /\ UNCHANGED <<caller, at, resumes, mem, version, astray>>
        /\ copy' = copy \/ copy' = [copy EXCEPT ![BackupOf[caller]] = new]
    BY DEF PersistBackup, Write
  <1> HIDE DEF new
  <1>4. /\ copy' \in [Path -> Envelope \cup {Missing, Damaged}]
        /\ copy'[BackupOf[caller]] \in {copy[BackupOf[caller]], new}
        /\ \A p \in Path \ {BackupOf[caller]} : copy'[p] = copy[p]
    BY <1>1, <1>2, <1>3 DEF StoreInv, TypeOK
  <1>5. TypeOK'
    BY <1>3, <1>4 DEF StoreInv, TypeOK
  <1>6. \A p \in Path : \/ copy'[p] = copy[p]
                        \/ p = BackupOf[caller] /\ copy'[p] = copy[CanonicalOf[caller]]
    BY <1>2, <1>4
  <1>7. OwnCopies'
    <2>1. SUFFICES ASSUME NEW p \in Path, Valid(copy'[p])
                   PROVE  /\ p \in FilesOf(copy'[p].state.owner)
                          /\ copy'[p].state.version <= version'
      BY DEF OwnCopies, Valid, FilesOf
    <2>2. CASE copy'[p] = copy[p]
      BY <1>3, <2>1, <2>2 DEF StoreInv, OwnCopies
    <2>3. CASE p = BackupOf[caller] /\ copy'[p] = copy[CanonicalOf[caller]]
      BY <1>1, <1>2, <1>3, <2>3 DEF StoreInv, OwnCopies
    <2>4. QED
      BY <1>6, <2>2, <2>3
  <1>8. InStep'
    <2>1. SUFFICES ASSUME NEW m \in Identity \ astray', NEW p \in FilesOf(m),
                          NEW q \in FilesOf(m), Valid(copy'[p]), Valid(copy'[q])
                   PROVE  /\ copy'[p].revision = copy'[q].revision
                                => copy'[p].state = copy'[q].state
                          /\ copy'[p].revision < copy'[q].revision
                                => copy'[p].state.version <= copy'[q].state.version
      BY DEF InStep, Valid, FilesOf
    <2>2. PICK r \in FilesOf(m) : copy'[p] = copy[r]
      BY <1>1, <1>6, FileFacts
    <2>3. PICK s \in FilesOf(m) : copy'[q] = copy[s]
      BY <1>1, <1>6, FileFacts
    <2>4. QED
      BY <1>3, <2>1, <2>2, <2>3 DEF StoreInv, InStep
  <1>9. CommandSound'
    <2>1. ~ resumes
      BY <1>1 DEF StoreInv, CommandSound
    <2>2. QED
      BY <1>1, <1>3, <2>1, StateFacts DEF StoreInv, CommandSound
  <1>10. QED
    BY <1>2, <1>4, <1>5, <1>7, <1>8, <1>9 DEF StoreInv

(* Ending a command changes no copy; losing one leaves an equal one.       *)
LEMMA EndInv == ASSUME StoreInv, End PROVE StoreInv'
  <1>1. TypeOK'
    BY CanonicalOfAssumption DEF StoreInv, TypeOK, End, Path
  <1>2. OwnCopies' /\ InStep'
    BY DEF StoreInv, OwnCopies, InStep, End
  <1>3. CommandSound'
    BY DEF End, CommandSound
  <1>4. QED
    BY <1>1, <1>2, <1>3 DEF StoreInv

(* A lost copy takes part in no comparison. *)
LEMMA LoseCopyInv ==
    ASSUME StoreInv, NEW path \in Path, LoseCopy(path)
    PROVE  /\ StoreInv'
           /\ ~ Valid(copy'[path])
           /\ \A p \in Path \ {path} : copy'[p] = copy[p]
  <1>1. /\ pc = "Idle"
        /\ UNCHANGED <<pc, caller, at, resumes, mem, newest, version, astray>>
        /\ \E lost \in {Missing, Damaged} : copy' = [copy EXCEPT ![path] = lost]
    BY DEF LoseCopy
  <1>2. /\ copy' \in [Path -> Envelope \cup {Missing, Damaged}]
        /\ ~ Valid(copy'[path])
        /\ \A p \in Path \ {path} : copy'[p] = copy[p]
    BY <1>1, StateFacts DEF StoreInv, TypeOK
  <1>3. \A p \in Path : Valid(copy'[p]) => copy'[p] = copy[p]
    BY <1>2
  <1>4. TypeOK'
    BY <1>1, <1>2 DEF StoreInv, TypeOK
  <1>5. OwnCopies'
    <2>1. SUFFICES ASSUME NEW p \in Path, Valid(copy'[p])
                   PROVE  /\ p \in FilesOf(copy'[p].state.owner)
                          /\ copy'[p].state.version <= version'
      BY DEF OwnCopies, Valid, FilesOf
    <2>2. QED
      BY <1>1, <1>3, <2>1 DEF StoreInv, OwnCopies
  <1>6. InStep'
    <2>1. SUFFICES ASSUME NEW m \in Identity \ astray', NEW p \in FilesOf(m),
                          NEW q \in FilesOf(m), Valid(copy'[p]), Valid(copy'[q])
                   PROVE  /\ copy'[p].revision = copy'[q].revision
                                => copy'[p].state = copy'[q].state
                          /\ copy'[p].revision < copy'[q].revision
                                => copy'[p].state.version <= copy'[q].state.version
      BY DEF InStep, Valid, FilesOf
    <2>2. copy'[p] = copy[p] /\ copy'[q] = copy[q]
      BY <1>3, <2>1, FileFacts
    <2>3. QED
      BY <1>1, <2>1, <2>2 DEF StoreInv, InStep
  <1>7. CommandSound'
    BY <1>1 DEF StoreInv, CommandSound
  <1>8. QED
    BY <1>2, <1>4, <1>5, <1>6, <1>7 DEF StoreInv

(* Every step keeps the invariant. *)
LEMMA NextStore ==
    ASSUME Separate, StoreInv, [Next]_vars
    PROVE  StoreInv'
  <1>1. CASE UNCHANGED vars
    BY <1>1 DEF vars, StoreInv, TypeOK, OwnCopies, InStep, CommandSound
  <1>2. QED
    BY <1>1, StartTransferInv, StartResumeInv, PersistTransferInv, PersistBackupInv,
       PersistResumeInv, EndInv, LoseCopyInv DEF Next

-----------------------------------------------------------------------------
(* The invariant of the two copies: revisions tell which one is newer,     *)
(* until a resume of the older one.                                        *)
THEOREM StoreInvariantHolds == ASSUME Separate PROVE Spec => []StoreInv
  <1>1. Init => StoreInv
    BY InitStore
  <1>2. StoreInv /\ [Next]_vars => StoreInv'
    BY NextStore
  <1>3. QED
    BY <1>1, <1>2, PTL DEF Spec

(* Only a resume of a copy that was left behind leaves a transfer with two *)
(* copies it cannot reconcile.                                             *)
THEOREM CopiesReconcile == ASSUME Separate PROVE Spec => []NeverDiverges
  <1>1. StoreInv => NeverDiverges
    BY FileFacts DEF NeverDiverges, StoreInv, InStep, Diverged
  <1>2. QED
    BY <1>1, StoreInvariantHolds, PTL

(* A transfer with a sound canonical copy starts from that copy or from    *)
(* the backup, never afresh, whatever was resumed, and from no less than   *)
(* the canonical copy holds unless a resume went astray: where migrations  *)
(* do not share a backup.  The run `shared_backup` shows what happens      *)
(* where they do.                                                          *)
THEOREM CanonicalLeads == ASSUME Separate PROVE Spec => CanonicalIsAuthoritative
  <1>1. StoreInv /\ [Next]_vars =>
          [\A m \in Identity :
             /\ pc = "Idle" /\ pc' # "Idle" /\ ~ resumes' /\ caller' = m
             /\ Valid(copy[CanonicalOf[m]]) /\ copy[CanonicalOf[m]].state.owner = m
             => /\ \E p \in FilesOf(m) : Valid(copy[p]) /\ mem' = copy[p].state
                /\ m \notin astray
                      => mem'.version >= copy[CanonicalOf[m]].state.version]_vars
    <2>1. SUFFICES ASSUME StoreInv, [Next]_vars, NEW m \in Identity,
                          pc = "Idle", pc' # "Idle", ~ resumes', caller' = m,
                          Valid(copy[CanonicalOf[m]])
                   PROVE  /\ \E p \in FilesOf(m) : Valid(copy[p]) /\ mem' = copy[p].state
                          /\ m \notin astray
                                => mem'.version >= copy[CanonicalOf[m]].state.version
      OBVIOUS
    <2> DEFINE c == copy[CanonicalOf[m]]
               b == copy[BackupOf[m]]
    <2>2. StartTransfer(m)
      BY <2>1 DEF Next, vars, StartTransfer, StartResume, Begin, PersistTransfer, PersistBackup,
                  PersistResume, End, LoseCopy
    <2>3. /\ CanonicalOf[m] \in FilesOf(m) /\ BackupOf[m] \in FilesOf(m)
          /\ CanonicalOf[m] \in Path /\ BackupOf[m] \in Path
      BY FileFacts
    <2>4. c.revision \in Nat /\ c.state.version \in Nat
      BY <2>1, <2>3, CopyFacts DEF StoreInv
    <2>5. CASE Begin(m, CanonicalOf[m], FALSE, c.state)
      BY <2>1, <2>3, <2>4, <2>5 DEF Begin
    <2>6. CASE /\ LoadsBackup(c, b)
               /\ Begin(m, CanonicalOf[m], FALSE,
                        IF b.state.owner = m THEN b.state ELSE FreshOf(m))
      <3>1. Valid(b) /\ c.revision < b.revision /\ b.revision \in Nat
        BY <2>1, <2>3, <2>4, <2>6, CopyFacts DEF LoadsBackup, StoreInv
      <3>2. b.state.owner = m
        BY <2>1, <2>3, <3>1, FileFacts, CopyFacts DEF StoreInv, OwnCopies
      <3>3. mem' = b.state
        BY <2>6, <3>2 DEF Begin
      <3>4. m \notin astray => c.state.version <= b.state.version
        BY <2>1, <2>3, <3>1 DEF StoreInv, InStep
      <3>5. b.state.version \in Nat
        BY <2>1, <2>3, <3>1, CopyFacts DEF StoreInv
      <3>6. QED
        BY <2>3, <2>4, <3>1, <3>3, <3>4, <3>5
    <2>7. QED
      BY <2>1, <2>2, <2>5, <2>6, StateFacts DEF StartTransfer
  <1>2. QED
    BY <1>1, StoreInvariantHolds, PTL DEF Spec, CanonicalIsAuthoritative

-----------------------------------------------------------------------------
(* What the register's variables can be. *)
LEMMA ValueType ==
    StoreInv => Value \in State \cup {NoState} /\ Held \in State \cup {NoState}
  <1> SUFFICES ASSUME StoreInv
               PROVE  Value \in State \cup {NoState} /\ Held \in State \cup {NoState}
    OBVIOUS
  <1>1. CanonicalOf[Observed] \in Path /\ BackupOf[Observed] \in Path
    BY ObservedAssumption, FileFacts
  <1>2. Value \in State \cup {NoState}
    BY <1>1, CopyFacts DEF Value, StoreInv, LoadsCanonical
  <1>3. QED
    BY <1>2 DEF Held, StoreInv, TypeOK

(* The value is the state of whichever copy no other is newer than. *)
LEMMA ValueFacts ==
    ASSUME StoreInv, Observed \notin astray
    PROVE  /\ \A p \in FilesOf(Observed) :
                 /\ Valid(copy[p])
                 /\ \A q \in FilesOf(Observed) :
                       Valid(copy[q]) => copy[q].revision <= copy[p].revision
                 => Value = copy[p].state
           /\ (\A p \in FilesOf(Observed) : ~ Valid(copy[p])) => Value = NoState
  <1> DEFINE c == copy[CanonicalOf[Observed]]
             b == copy[BackupOf[Observed]]
  <1>1. /\ CanonicalOf[Observed] \in FilesOf(Observed)
        /\ BackupOf[Observed] \in FilesOf(Observed)
        /\ CanonicalOf[Observed] \in Path /\ BackupOf[Observed] \in Path
    BY ObservedAssumption, FileFacts
  <1>2. /\ Valid(c) => c.revision \in Nat
        /\ Valid(b) => b.revision \in Nat
    BY <1>1, CopyFacts DEF StoreInv
  <1>3. Valid(c) /\ Valid(b) /\ c.revision = b.revision => c.state = b.state
    BY <1>1, ObservedAssumption DEF StoreInv, InStep
  <1>4. Valid(c) /\ (Valid(b) => b.revision <= c.revision) => Value = c.state
    BY <1>2, <1>3 DEF Value, LoadsCanonical
  <1>5. Valid(b) /\ (Valid(c) => c.revision <= b.revision) => Value = b.state
    BY <1>2, <1>3 DEF Value, LoadsCanonical
  <1>6. ~ Valid(b) /\ ~ Valid(c) => Value = NoState
    BY DEF Value, LoadsCanonical
  <1>7. FilesOf(Observed) = {CanonicalOf[Observed], BackupOf[Observed]}
    BY DEF FilesOf
  <1> HIDE DEF c, b
  <1>8. ASSUME NEW p \in FilesOf(Observed), Valid(copy[p]),
               \A q \in FilesOf(Observed) :
                  Valid(copy[q]) => copy[q].revision <= copy[p].revision
        PROVE  Value = copy[p].state
    <2>1. CASE p = CanonicalOf[Observed]
      BY <1>1, <1>4, <1>8, <2>1 DEF c, b
    <2>2. CASE p = BackupOf[Observed]
      BY <1>1, <1>5, <1>8, <2>2 DEF c, b
    <2>3. QED
      BY <1>7, <2>1, <2>2
  <1>9. (\A p \in FilesOf(Observed) : ~ Valid(copy[p])) => Value = NoState
    BY <1>1, <1>6 DEF c, b
  <1>10. QED
    BY <1>8, <1>9

(* Equal copies have an equal value. *)
LEMMA SameValue ==
    ASSUME UNCHANGED <<copy[CanonicalOf[Observed]], copy[BackupOf[Observed]]>>
    PROVE  UNCHANGED Value
  BY DEF Value

(* Initial copies are an initial register. *)
LEMMA InitRegister == ASSUME Separate, Init PROVE Register!Init
  <1>1. Value \in State \cup {NoState} /\ Held \in State \cup {NoState}
    BY InitStore, ValueType
  <1>2. mem = NoState /\ Observed \notin astray
    BY DEF Init
  <1>3. QED
    BY <1>1, <1>2 DEF Register!Init, Held

(* A transfer of the migration starts from its value ... *)
LEMMA StartRegister ==
    ASSUME Separate, StoreInv, NEW m \in Identity, StartTransfer(m), Observed \notin astray
    PROVE  Register!Start \/ UNCHANGED <<Value, Held, Observed \in astray>>
  <1>1. mem = NoState /\ copy' = copy /\ caller' = m /\ astray' = astray
    BY DEF StartTransfer, Begin, StoreInv, CommandSound
  <1>2. UNCHANGED Value /\ Held = NoState
    BY <1>1 DEF Held, Value
  <1>3. CASE m = Observed
    <2> DEFINE c == copy[CanonicalOf[m]]
               b == copy[BackupOf[m]]
    <2>1. /\ CanonicalOf[m] \in Path /\ BackupOf[m] \in Path
          /\ CanonicalOf[m] \in FilesOf(m) /\ BackupOf[m] \in FilesOf(m)
          /\ FilesOf(m) = {CanonicalOf[m], BackupOf[m]}
      BY FileFacts DEF FilesOf
    <2>2. /\ Valid(c) => c.revision \in Nat /\ c.state # NoState
          /\ Valid(b) => b.revision \in Nat /\ b.state # NoState
      BY <2>1, CopyFacts, StateFacts DEF StoreInv
    <2>3. CASE c = Missing /\ b = Missing
      <3>1. Value = NoState
        BY <1>3, <2>1, <2>3, ValueFacts, StateFacts
      <3>2. mem' = FreshOf(m)
        BY <2>3, StateFacts DEF StartTransfer, LoadsCanonical, LoadsBackup, Begin
      <3>3. QED
        BY <1>1, <1>2, <1>3, <3>1, <3>2 DEF Register!Start, Held
    <2>4. CASE LoadsCanonical(c, b) /\ Begin(m, CanonicalOf[m], FALSE, c.state)
      <3>1. Valid(c) /\ \A q \in FilesOf(m) : Valid(copy[q]) => copy[q].revision <= c.revision
        BY <2>1, <2>2, <2>4 DEF LoadsCanonical
      <3>2. Value = c.state /\ mem' = c.state
        BY <1>3, <2>1, <2>4, <3>1, ValueFacts DEF Begin
      <3>3. QED
        BY <1>1, <1>2, <1>3, <2>2, <3>1, <3>2 DEF Register!Start, Held
    <2>5. CASE /\ LoadsBackup(c, b)
               /\ Begin(m, CanonicalOf[m], FALSE,
                        IF b.state.owner = m THEN b.state ELSE FreshOf(m))
      <3>1. Valid(b) /\ \A q \in FilesOf(m) : Valid(copy[q]) => copy[q].revision <= b.revision
        BY <2>1, <2>2, <2>5 DEF LoadsBackup
      <3>2. b.state.owner = m
        BY <2>1, <3>1, FileFacts, CopyFacts DEF StoreInv, OwnCopies
      <3>3. Value = b.state /\ mem' = b.state
        BY <1>3, <2>1, <2>5, <3>1, <3>2, ValueFacts DEF Begin
      <3>4. QED
        BY <1>1, <1>2, <1>3, <2>2, <3>1, <3>3 DEF Register!Start, Held
    <2>6. QED
      BY <2>3, <2>4, <2>5 DEF StartTransfer
  <1>4. CASE m # Observed
    BY <1>1, <1>2, <1>4 DEF Held
  <1>5. QED
    BY <1>3, <1>4

(* ... so does a resume of the copy that leads, whichever it is; a resume  *)
(* of the other one starts from some older state.                          *)
LEMMA ResumeRegister ==
    ASSUME Separate, StoreInv, NEW p \in Path, StartResume(p), Observed \notin astray
    PROVE  \/ Register!Start \/ Register!StartBehind
           \/ UNCHANGED <<Value, Held, Observed \in astray>>
  <1> DEFINE m == copy[p].state.owner
  <1>1. /\ mem = NoState /\ copy' = copy /\ caller' = m
        /\ mem' = copy[p].state /\ Valid(copy[p])
        /\ astray' = astray \cup (IF LeftBehind(p) THEN {m} ELSE {})
    BY DEF StartResume, Begin, StoreInv, CommandSound
  <1>2. UNCHANGED Value /\ Held = NoState
    BY <1>1 DEF Held, Value
  <1>3. /\ copy[p].state \in State /\ m \in Identity /\ copy[p].revision \in Nat
        /\ p \in FilesOf(m) /\ copy[p].state # NoState
    BY <1>1, CopyFacts, StateFacts DEF StoreInv, OwnCopies
  <1>4. CASE m = Observed /\ LeftBehind(p)
    BY <1>1, <1>2, <1>3, <1>4 DEF Register!StartBehind, Held
  <1>5. CASE m = Observed /\ ~ LeftBehind(p)
    <2>1. ASSUME NEW q \in FilesOf(m), Valid(copy[q])
          PROVE  copy[q].revision <= copy[p].revision
      <3>1. copy[q].revision \in Nat
        BY <1>3, <2>1, FileFacts, CopyFacts DEF StoreInv
      <3>2. QED
        BY <1>3, <1>5, <2>1, <3>1 DEF LeftBehind
    <2>2. Value = copy[p].state
      BY <1>1, <1>3, <1>5, <2>1, ValueFacts
    <2>3. Observed \notin astray'
      BY <1>1, <1>5
    <2>4. QED
      BY <1>1, <1>2, <1>3, <1>5, <2>2, <2>3 DEF Register!Start, Held
  <1>6. CASE m # Observed
    BY <1>1, <1>2, <1>6 DEF Held
  <1>7. QED
    BY <1>4, <1>5, <1>6

(* A write that leads is a write of the register. *)
LEMMA WriteRegister ==
    ASSUME Separate, StoreInv, StoreInv', caller' = caller, pc # "Idle",
           NEW path \in FilesOf(caller),
           \A m \in Identity \ {caller} : m \in astray' <=> m \in astray,
           caller \notin astray',
           \A p \in FilesOf(caller) \ {path} :
              Valid(copy'[p]) => copy'[p].revision < copy'[path].revision,
           copy'[path].state = mem', Valid(copy'[path]), mem' # NoState,
           \A p \in Path \ {path} : copy'[p] = copy[p]
    PROVE  Register!Write \/ UNCHANGED <<Value, Held, Observed \in astray>>
  <1>1. caller \in Identity /\ path \in Path
    BY FileFacts DEF StoreInv, TypeOK
  <1>2. CASE caller = Observed
    <2>1. copy'[path].revision \in Nat /\ mem' \in State
      <3>1. copy'[path] \in Envelope
        BY <1>1 DEF StoreInv, TypeOK, Valid
      <3>2. QED
        BY <3>1, StateFacts
    <2>2. /\ CanonicalOf[Observed] \in FilesOf(caller) /\ BackupOf[Observed] \in FilesOf(caller)
          /\ CanonicalOf[Observed] # BackupOf[Observed]
          /\ path \in {CanonicalOf[Observed], BackupOf[Observed]}
      BY <1>2, ObservedAssumption, FileFacts, PathFacts DEF FilesOf
    <2>3. Value' = mem'
      <3>1. CASE path = CanonicalOf[Observed]
        <4>1. Valid(copy'[BackupOf[Observed]]) =>
                 copy'[path].revision > copy'[BackupOf[Observed]].revision
          BY <2>2, <3>1
        <4>2. QED
          BY <3>1, <4>1 DEF Value, LoadsCanonical, Valid
      <3>2. CASE path = BackupOf[Observed]
        <4>1. Valid(copy'[CanonicalOf[Observed]]) =>
                 /\ copy'[CanonicalOf[Observed]].revision < copy'[path].revision
                 /\ copy'[CanonicalOf[Observed]].revision \in Nat
          <5>1. Valid(copy'[CanonicalOf[Observed]]) => copy'[CanonicalOf[Observed]] \in Envelope
            BY <1>2, <2>2, FileFacts, <1>1 DEF StoreInv, TypeOK, Valid
          <5>2. QED
            BY <2>2, <3>2, <5>1, StateFacts
        <4>2. QED
          BY <2>1, <3>2, <4>1 DEF Value, LoadsCanonical, Valid
      <3>3. QED
        BY <2>2, <3>1, <3>2
    <2>4. Held # NoState /\ Held' = mem'
      BY <1>2 DEF Held, StoreInv, CommandSound
    <2>5. QED
      BY <1>2, <2>1, <2>3, <2>4 DEF Register!Write
  <1>3. CASE caller # Observed
    <2>1. CanonicalOf[Observed] # path /\ BackupOf[Observed] # path
      BY <1>1, <1>3, ObservedAssumption, FileFacts
    <2>2. /\ copy'[CanonicalOf[Observed]] = copy[CanonicalOf[Observed]]
          /\ copy'[BackupOf[Observed]] = copy[BackupOf[Observed]]
      BY <2>1, ObservedAssumption, FileFacts
    <2>3. QED
      BY <1>3, <2>2, SameValue, ObservedAssumption DEF Held
  <1>4. QED
    BY <1>2, <1>3

(* A write of the backup is none, and neither is the loss of a copy. *)
LEMMA BackupRegister ==
    ASSUME Separate, StoreInv, PersistBackup, Observed \notin astray
    PROVE  UNCHANGED <<Value, Held, Observed \in astray>>
  <1>1. /\ UNCHANGED <<caller, mem, astray>> /\ caller \in Identity
        /\ \A p \in Path \ {BackupOf[caller]} : copy'[p] = copy[p]
        /\ copy'[BackupOf[caller]] \in {copy[BackupOf[caller]], copy[CanonicalOf[caller]]}
        /\ Valid(copy[CanonicalOf[caller]])
        /\ Valid(copy[BackupOf[caller]]) =>
              copy[BackupOf[caller]].revision < copy[CanonicalOf[caller]].revision
    BY PersistBackupInv DEF PersistBackup, StoreInv, TypeOK
  <1>2. UNCHANGED Held
    BY <1>1 DEF Held
  <1>3. CASE caller = Observed
    <2>1. copy'[CanonicalOf[Observed]] = copy[CanonicalOf[Observed]]
      BY <1>1, <1>3, PathFacts
    <2>2. LoadsCanonical(copy[CanonicalOf[Observed]], copy[BackupOf[Observed]])
      BY <1>1, <1>3 DEF LoadsCanonical
    <2>3. LoadsCanonical(copy'[CanonicalOf[Observed]], copy'[BackupOf[Observed]])
      BY <1>1, <1>3, <2>1, <2>2 DEF LoadsCanonical
    <2>4. Value = copy[CanonicalOf[Observed]].state
      BY <2>2 DEF Value
    <2>5. Value' = copy'[CanonicalOf[Observed]].state
      BY <2>3 DEF Value, LoadsCanonical, Valid
    <2>6. QED
      BY <1>1, <1>2, <2>1, <2>4, <2>5
  <1>4. CASE caller # Observed
    <2>1. /\ copy'[CanonicalOf[Observed]] = copy[CanonicalOf[Observed]]
          /\ copy'[BackupOf[Observed]] = copy[BackupOf[Observed]]
      BY <1>1, <1>4, ObservedAssumption, PathFacts
    <2>2. QED
      BY <1>1, <1>2, <2>1, SameValue
  <1>5. QED
    BY <1>3, <1>4

(* A lost copy that was not ahead leaves the value as it is. *)
LEMMA LoseRegister ==
    ASSUME Separate, StoreInv, NEW path \in Path, LoseCopy(path), Observed \notin astray
    PROVE  UNCHANGED <<Value, Held, Observed \in astray>>
  <1>1. /\ StoreInv' /\ ~ Valid(copy'[path]) /\ Valid(copy[path])
        /\ \A p \in Path \ {path} : copy'[p] = copy[p]
        /\ UNCHANGED <<caller, mem, astray>>
    BY LoseCopyInv DEF LoseCopy
  <1>2. UNCHANGED Held
    BY <1>1 DEF Held
  <1>3. /\ CanonicalOf[Observed] \in Path /\ BackupOf[Observed] \in Path
        /\ CanonicalOf[Observed] # BackupOf[Observed]
        /\ FilesOf(Observed) = {CanonicalOf[Observed], BackupOf[Observed]}
    BY ObservedAssumption, PathFacts DEF FilesOf
  <1>4. PICK m \in Identity :
           /\ path \in FilesOf(m)
           /\ \A p \in FilesOf(m) \ {path} :
                 Valid(copy[p]) /\ copy[p].revision >= copy[path].revision
    BY DEF LoseCopy
  <1>5. CASE path \in FilesOf(Observed)
    <2>1. m = Observed
      BY <1>4, <1>5, ObservedAssumption, FileFacts
    <2>2. PICK p \in FilesOf(Observed) \ {path} : FilesOf(Observed) = {path, p}
      BY <1>3, <1>5
    <2>3. /\ Valid(copy[p]) /\ copy[p].revision >= copy[path].revision
          /\ p \in Path /\ copy'[p] = copy[p]
      BY <1>1, <1>3, <1>4, <2>1, <2>2
    <2>4. copy[p].revision \in Nat /\ copy[path].revision \in Nat
      BY <1>1, <2>3, CopyFacts DEF StoreInv
    <2>5. \A q \in FilesOf(Observed) : Valid(copy[q]) => copy[q].revision <= copy[p].revision
      BY <2>2, <2>3, <2>4
    <2>6. Value = copy[p].state
      BY <2>2, <2>3, <2>5, ValueFacts
    <2>7. Value' = copy'[p].state
      BY <1>1, <1>3, <2>2, <2>3 DEF Value, LoadsCanonical, Valid
    <2>8. QED
      BY <1>1, <1>2, <2>3, <2>6, <2>7
  <1>6. CASE path \notin FilesOf(Observed)
    BY <1>1, <1>2, <1>3, <1>6, SameValue
  <1>7. QED
    BY <1>5, <1>6

(* Every step of the store is a step of the register or none. *)
LEMMA NextRegister ==
    ASSUME Separate, StoreInv, [Next]_vars
    PROVE  [Register!Next]_(Register!registerVars)
  <1>1. StoreInv'
    BY NextStore
  <1>2. CASE Observed \in astray /\ Observed \in astray'
    <2>1. Value' \in State \cup {NoState} /\ Held' \in State \cup {NoState}
      <3>1. (StoreInv => Value \in State \cup {NoState} /\ Held \in State \cup {NoState})'
        BY ValueType, PTL
      <3>2. QED
        BY <1>1, <3>1
    <2>2. QED
      BY <1>2, <2>1 DEF Register!Stray, Register!Next
  <1> USE DEF Register!Next, Register!registerVars
  <1>3. CASE PersistTransfer
    <2>1. /\ caller' = caller /\ pc # "Idle" /\ astray' = astray \ {caller}
          /\ CanonicalOf[caller] \in FilesOf(caller) /\ pc' # "Idle"
      BY <1>3, FileFacts DEF PersistTransfer, StoreInv, TypeOK
    <2>2. mem' # NoState
      BY <1>1, <2>1 DEF StoreInv, CommandSound
    <2>3. Register!Write \/ UNCHANGED <<Value, Held, Observed \in astray>>
      BY <1>1, <1>3, <2>1, <2>2, PersistTransferInv, WriteRegister
    <2>4. QED
      BY <2>3
  <1>4. CASE Observed \notin astray /\ \E m \in Identity : StartTransfer(m)
    BY <1>4, StartRegister
  <1>5. CASE Observed \notin astray /\ \E p \in Path : StartResume(p)
    BY <1>5, ResumeRegister
  <1>6. CASE Observed \notin astray /\ PersistResume
    <2>1. caller' = caller /\ pc # "Idle" /\ astray' = astray /\ pc' # "Idle"
      BY <1>6 DEF PersistResume
    <2>2. mem' # NoState
      BY <1>1, <2>1 DEF StoreInv, CommandSound
    <2>3. CASE caller \notin astray
      <3>1. Register!Write \/ UNCHANGED <<Value, Held, Observed \in astray>>
        BY <1>1, <1>6, <2>1, <2>2, <2>3, PersistResumeInv, WriteRegister
      <3>2. QED
        BY <3>1
    <2>4. CASE caller \in astray
      <3>1. caller # Observed /\ caller \in Identity
        BY <1>6, <2>4 DEF StoreInv, TypeOK
      <3>2. /\ copy'[CanonicalOf[Observed]] = copy[CanonicalOf[Observed]]
            /\ copy'[BackupOf[Observed]] = copy[BackupOf[Observed]]
        BY <1>6, <3>1, ObservedAssumption, FileFacts, PersistResumeInv
      <3>3. QED
        BY <2>1, <3>1, <3>2, SameValue DEF Held
    <2>5. QED
      BY <2>3, <2>4
  <1>7. CASE Observed \notin astray /\ PersistBackup
    BY <1>7, BackupRegister
  <1>8. CASE Observed \notin astray /\ End
    <2>1. UNCHANGED <<Value, Observed \in astray>> /\ Held' = NoState
      BY <1>8 DEF End, Value, Held
    <2>2. QED
      BY <2>1 DEF Register!Stop
  <1>9. CASE Observed \notin astray /\ \E p \in Path : LoseCopy(p)
    BY <1>9, LoseRegister
  <1>10. CASE UNCHANGED vars
    BY <1>10 DEF vars, Value, Held
  <1>11. Observed \in astray /\ Observed \notin astray' => PersistTransfer \/ UNCHANGED vars
    BY DEF Next, StartTransfer, StartResume, PersistBackup, PersistResume, End, LoseCopy
  <1>12. QED
    BY <1>2, <1>3, <1>4, <1>5, <1>6, <1>7, <1>8, <1>9, <1>10, <1>11 DEF Next

(* The two copies of any one migration implement a register: a command     *)
(* starts from the state last persisted, whatever was interrupted or lost, *)
(* unless it resumes the copy that was left behind.                        *)
THEOREM StoreImplementsRegister == ASSUME Separate PROVE Spec => IsRegister
  <1>1. Init => Register!Init
    BY InitRegister
  <1>2. StoreInv /\ [Next]_vars => [Register!Next]_(Register!registerVars)
    BY NextRegister
  <1>3. QED
    BY <1>1, <1>2, StoreInvariantHolds, PTL DEF Spec, IsRegister, Register!Spec
=============================================================================
