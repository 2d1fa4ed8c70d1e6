---------------------------- MODULE LmdbEnvProofs ----------------------------
(***************************************************************************)
(* Theorems about LmdbEnv for every number of readers, slots and           *)
(* transactions: if every environment has a process of its own and nobody  *)
(* dies between the two stores of mti_txnid, no running reader loses a     *)
(* page of its snapshot, whatever is committed and whoever comes, goes or  *)
(* dies.                                                                   *)
(***************************************************************************)
EXTENDS LmdbEnv, OrderLemmas

AllPhases == Phases \cup ReadPhases \cup WritePhases

USE EnvAssumption

-----------------------------------------------------------------------------
LEMMA InitInductive == Init => EnvInductive
  <1> SUFFICES ASSUME Init PROVE EnvInductive
    OBVIOUS
  <1>1. pc \in [Envs -> AllPhases] /\ EnvTypeOK
    BY DEF Init, AllPhases, EnvTypeOK, Phases, Envs, Processes, Txns, NoTxn, Slots, Idle,
           NoWrite
  <1>2. LocksByPhase /\ MutexByPhase
    BY DEF Init, LocksByPhase, LockOf, MutexByPhase, WritePhases, Envs, Processes
  <1>3. MetasAlternate /\ LastTxnKnown
    BY DEF Init, MetasAlternate, LastTxnKnown, Newest, Envs
  <1>4. Registered /\ Announced /\ DamagedAreOld /\ ScanCovers
    BY DEF Init, Registered, Announced, DamagedAreOld, ScanCovers, ReadPhases, Envs
  <1> QED BY <1>1, <1>2, <1>3, <1>4 DEF EnvInductive, AllPhases

-----------------------------------------------------------------------------
(* Typing, action by action. *)
LEMMA FirstFreeInside ==
  ASSUME EnvTypeOK
  PROVE  /\ FirstFree \in Nat \ {0}
         /\ FirstFree <= MaxReaders => FirstFree \in Slots
         /\ FirstFree \notin FreeSlots => FirstFree = numreaders + 1 /\ FreeSlots = {}
  <1>0. numreaders \in Nat /\ FreeSlots \subseteq 1..numreaders /\ numreaders <= MaxReaders
    BY DEF FreeSlots, EnvTypeOK
  <1>1. CASE FreeSlots = {}
    BY <1>0, <1>1 DEF FirstFree, Slots
  <1>2. CASE FreeSlots # {}
    <2>1. FreeSlots \subseteq Nat
      BY <1>0
    <2>2. \E i \in FreeSlots : \A j \in FreeSlots : i <= j
      BY <1>2, <2>1, LeastMember
    <2>3. FirstFree \in FreeSlots
      BY <1>2, <2>2, Zenon DEF FirstFree
    <2> QED BY <1>0, <2>3 DEF Slots
  <1> QED BY <1>1, <1>2

PcTyped ==
  /\ pc \in [Envs -> AllPhases]
  /\ \A r \in Readers : pc[r] \in Phases \cup ReadPhases
  /\ pc[App] \in Phases \cup WritePhases

LEMMA GotoTyped ==
  ASSUME PcTyped, NEW e \in Envs, NEW phase, Goto(e, phase),
         \/ phase \in Phases
         \/ e \in Readers /\ phase \in ReadPhases
         \/ e = App /\ phase \in WritePhases
  PROVE  PcTyped'
  BY DEF PcTyped, Goto, AllPhases, Envs

LEMMA PcStep ==
  ASSUME PcTyped, [Next]_vars
  PROVE  PcTyped'
  <1>1. ASSUME NEW e \in Envs, Attach(e) \/ Opening(e) \/ Closing(e)
        PROVE  \E phase \in Phases : Goto(e, phase)
    BY <1>1 DEF Attach, Opening, AttachShared, InitTable, ShareLocks, Closing, ClearSlots,
                LastOut, Detach, Phases
  <1>2. ASSUME NEW r \in Readers, Reading(r)
        PROVE  \E phase \in Phases \cup ReadPhases : Goto(r, phase)
    BY <1>2 DEF Reading, ClaimSlot, BeginFails, LoadTxnid, StoreTxnid, CheckTxnid, CopyMeta,
                EndRead, Phases, ReadPhases
  <1>3. CASE BeginWrite \/ Writing \/ AbortWrite \/ CloseApp
    <2>1. (\E phase \in Phases \cup WritePhases : Goto(App, phase)) \/ pc' = pc
      BY <1>3 DEF BeginWrite, Writing, StartScan, ScanSlot, FlushPages, WriteMeta, Publish,
                  AbortWrite, CloseApp, Phases, WritePhases
    <2> QED BY <2>1, GotoTyped DEF PcTyped, Envs
  <1>4. ASSUME NEW p \in Crashing, Crash(p) PROVE PcTyped'
    <2>1. pc' = [e \in Envs |-> IF Process[e] = p THEN "closed" ELSE pc[e]]
      BY <1>4 DEF Crash
    <2>2. "closed" \in Phases
      BY DEF Phases
    <2> QED BY <2>1, <2>2 DEF PcTyped, AllPhases, Envs
  <1>5. CASE UNCHANGED vars
    BY <1>5 DEF vars, PcTyped
  <1>6. Readers \subseteq Envs
    BY DEF Envs
  <1>7. ASSUME NEW e \in Envs, Attach(e) \/ Opening(e) \/ Closing(e) PROVE PcTyped'
    BY <1>1, <1>7, GotoTyped
  <1>8. ASSUME NEW r \in Readers, Reading(r) PROVE PcTyped'
    BY <1>2, <1>6, <1>8, GotoTyped
  <1> QED BY <1>3, <1>4, <1>5, <1>7, <1>8 DEF Next


(* The conjuncts of EnvTypeOK by the groups of variables that the actions  *)
(* leave unchanged.                                                        *)
FileTyped == locks \in [Processes -> {"none", "shared", "exclusive"}] /\ pidlocks \subseteq Processes
TableTyped ==
  /\ mutex \in {"free", "held", "dead", "destroyed"}
  /\ table \in [Slots -> [pid : Processes \cup {NoPid}, txnid : Txns \cup {NoTxn}]]
  /\ numreaders \in 0..MaxReaders /\ mti_txnid \in Txns
DataTyped == metas \in [{0, 1} -> Txns] /\ damaged \subseteq Txns
ReadTyped ==
  /\ closing \in [Envs -> 0..MaxReaders] /\ slot \in [Envs -> Slots]
  /\ seen \in [Envs -> Txns] /\ snap \in [Envs -> Txns]
WriteTyped == wtxn \in [txnid : Txns, i : 0..MaxReaders, oldest : Txns \cup {NoTxn}]
Typed == FileTyped /\ TableTyped /\ DataTyped /\ ReadTyped /\ WriteTyped

LEMMA TypedUnchanged ==
  /\ FileTyped /\ UNCHANGED fileVars => FileTyped'
  /\ TableTyped /\ UNCHANGED lockVars => TableTyped'
  /\ DataTyped /\ UNCHANGED dataVars => DataTyped'
  /\ ReadTyped /\ UNCHANGED readVars => ReadTyped'
  /\ WriteTyped /\ UNCHANGED wtxn => WriteTyped'
  BY DEF FileTyped, TableTyped, DataTyped, ReadTyped, WriteTyped, fileVars, lockVars, dataVars,
         readVars

LEMMA TypeParts == EnvTypeOK /\ pc \in [Envs -> AllPhases] <=> PcTyped /\ Typed
  BY DEF EnvTypeOK, PcTyped, Typed, FileTyped, TableTyped, DataTyped, ReadTyped, WriteTyped

LEMMA Numbers ==
  /\ Txns \subseteq Nat /\ NoTxn \in Nat \ Txns /\ 0 \in Txns /\ 1 \in Txns
  /\ 1 \in Slots /\ Slots \subseteq Nat
  /\ \A e \in Envs : Process[e] \in Processes
  /\ \A n \in Txns : n % 2 \in {0, 1}
  BY DEF Txns, NoTxn, Slots, Processes

LEMMA SlotNumbers ==
  Slots = 0..MaxReaders \ {0} /\ 0..MaxReaders \subseteq Nat /\ \A i \in Slots : i > 0
  BY DEF Slots

LEMMA ForgetTyped ==
  ASSUME ReadTyped, NEW gone, Forget(gone)
  PROVE  ReadTyped'
  <1>1. Idle.slot \in Slots /\ Idle.closing \in 0..MaxReaders /\ Idle.seen \in Txns /\ Idle.snap \in Txns
    BY Numbers DEF Idle
  <1> QED BY <1>1 DEF ReadTyped, Forget

LEMMA TypingStep ==
  ASSUME EnvInductive, [Next]_vars
  PROVE  Typed'
  <1> USE TypedUnchanged, Numbers
  <1>a. /\ Typed /\ FileTyped /\ TableTyped /\ DataTyped /\ ReadTyped /\ WriteTyped
        /\ Newest \in Txns
    BY TypeParts DEF EnvInductive, AllPhases, Typed, DataTyped, Newest
  <1>1. ASSUME NEW e \in Envs, Attach(e) \/ Opening(e) PROVE Typed'
    <2>1. FileTyped'
      BY <1>1, <1>a DEF Attach, Opening, AttachShared, InitTable, ShareLocks, SetLock, FileTyped, fileVars
    <2>2. TableTyped'
      BY <1>1, <1>a DEF Attach, Opening, AttachShared, InitTable, ShareLocks, TableTyped, lockVars
    <2> QED BY <2>1, <2>2, <1>1, <1>a DEF Typed, Attach, Opening, AttachShared, InitTable, ShareLocks
  <1>2. ASSUME NEW e \in Envs, Closing(e) PROVE Typed'
    <2>1. FileTyped'
      BY <1>2, <1>a DEF Closing, ClearSlots, LastOut, Detach, SetLock, FileTyped, fileVars
    <2>2. TableTyped'
      BY <1>2, <1>a DEF Closing, ClearSlots, LastOut, Detach, TableTyped, lockVars
    <2>3. ReadTyped'
      BY <1>2, <1>a, ForgetTyped DEF Closing, ClearSlots, LastOut, Detach
    <2> QED BY <2>1, <2>2, <2>3, <1>2, <1>a DEF Typed, Closing, ClearSlots, LastOut, Detach
  <1>3. ASSUME NEW r \in Readers, Reading(r) PROVE Typed'
    <2>0. r \in Envs /\ seen[r] \in Txns /\ metas[seen[r] % 2] \in Txns /\ Process[r] \in Processes
      <3>1. r \in Envs /\ seen[r] \in Txns
        BY <1>a DEF Envs, ReadTyped
      <3>2. seen[r] % 2 \in {0, 1}
        BY <3>1
      <3> QED BY <1>a, <3>1, <3>2 DEF DataTyped
    <2>1. FileTyped'
      BY <1>3, <1>a, <2>0 DEF Reading, ClaimSlot, BeginFails, LoadTxnid, StoreTxnid, CheckTxnid,
                             CopyMeta, EndRead, FileTyped, fileVars
    <2>2. CASE ClaimSlot(r)
      <3>1. FirstFree \in Slots /\ numreaders' \in 0..MaxReaders
        <4>1. EnvTypeOK /\ numreaders \in Nat /\ numreaders <= MaxReaders /\ MaxReaders \in Nat
          BY <1>a DEF EnvInductive, TableTyped
        <4>2. FirstFree \in Slots
          BY <4>1, <2>2, FirstFreeInside DEF ClaimSlot
        <4>3. numreaders' = numreaders \/ numreaders' = FirstFree
          BY <2>2 DEF ClaimSlot, FirstFree
        <4>4. Slots \subseteq 0..MaxReaders /\ numreaders \in 0..MaxReaders
          BY <1>a DEF Slots, TableTyped
        <4> QED BY <4>2, <4>3, <4>4
      <3>2. TableTyped'
        BY <2>2, <3>1, <2>0, <1>a DEF ClaimSlot, TableTyped
      <3>3. ReadTyped'
        BY <2>2, <3>1, <2>0, <1>a DEF ClaimSlot, ReadTyped
      <3> QED BY <2>1, <2>2, <3>2, <3>3, <1>a DEF ClaimSlot, Typed
    <2>3. CASE BeginFails(r) \/ LoadTxnid(r) \/ StoreTxnid(r) \/ CheckTxnid(r) \/ CopyMeta(r) \/ EndRead(r)
      <3>1. TableTyped'
        BY <2>3, <2>0, <1>a DEF BeginFails, LoadTxnid, StoreTxnid, CheckTxnid, CopyMeta, EndRead,
                               TableTyped, lockVars
      <3>2. ReadTyped'
        BY <2>3, <2>0, <1>a DEF BeginFails, LoadTxnid, StoreTxnid, CheckTxnid, CopyMeta, EndRead,
                               ReadTyped, TableTyped, readVars
      <3> QED BY <2>1, <2>3, <3>1, <3>2, <1>a
              DEF BeginFails, LoadTxnid, StoreTxnid, CheckTxnid, CopyMeta, EndRead, Typed
    <2> QED BY <1>3, <2>2, <2>3 DEF Reading
  <1>4. CASE BeginWrite
    <2>1. mti_txnid' \in Txns /\ mti_txnid' + 1 \in Txns
      <3>1. \A e \in Envs : pc[e] # "share"
        BY <1>4 DEF BeginWrite, EnvInductive, LocksByPhase, Envs
      <3>2. mti_txnid' = Newest /\ Newest < MaxTxn
        BY <1>4, <3>1 DEF BeginWrite, EnvInductive, LastTxnKnown
      <3> QED BY <1>a, <3>2 DEF Txns
    <2>2. TableTyped'
      BY <1>4, <1>a, <2>1 DEF BeginWrite, TableTyped
    <2>3. WriteTyped'
      BY <1>4, <1>a, <2>1 DEF BeginWrite, WriteTyped
    <2> QED BY <1>4, <1>a, <2>2, <2>3 DEF BeginWrite, Typed
  <1>5. CASE StartScan \/ ScanSlot
    <2>1. wtxn.i > 0 => wtxn.i - 1 \in 0..MaxReaders /\ table[wtxn.i].txnid \in Txns \cup {NoTxn}
      BY <1>a DEF WriteTyped, TableTyped, Slots
    <2>2. WriteTyped'
      BY <1>5, <1>a, <2>1 DEF StartScan, ScanSlot, WriteTyped, TableTyped
    <2> QED BY <1>5, <1>a, <2>2 DEF StartScan, ScanSlot, Typed
  <1>6. CASE FlushPages \/ WriteMeta
    <2>0. wtxn.txnid \in Txns /\ wtxn.txnid % 2 \in {0, 1}
      <3>1. wtxn.txnid \in Txns
        BY <1>a DEF WriteTyped
      <3> QED BY <3>1
    <2>1. CASE FlushPages
      <3>1. metas[0] \in Txns /\ metas[1] \in Txns
        BY <1>a DEF DataTyped
      <3> QED BY <2>1, <3>1, <1>a DEF FlushPages, DataTyped, Typed
    <2>2. CASE WriteMeta
      <3>1. metas' \in [{0, 1} -> Txns] /\ damaged' \subseteq Txns
        BY <2>2, <1>a, <2>0 DEF WriteMeta, DataTyped
      <3> QED BY <2>2, <3>1, <1>a DEF WriteMeta, DataTyped, Typed
    <2> QED BY <1>6, <2>1, <2>2
  <1>7. CASE Publish \/ AbortWrite \/ CloseApp
    <2>0. wtxn.txnid \in Txns /\ 0 \in 0..MaxReaders
      BY <1>a DEF WriteTyped
    <2>1. TableTyped'
      BY <1>7, <1>a, <2>0 DEF Publish, AbortWrite, CloseApp, TableTyped, lockVars
    <2>2. WriteTyped'
      BY <1>7, <1>a, <2>0 DEF Publish, AbortWrite, CloseApp, WriteTyped, NoWrite
    <2> QED BY <1>7, <1>a, <2>1, <2>2 DEF Publish, AbortWrite, CloseApp, Typed
  <1>8. ASSUME NEW p \in Crashing, Crash(p) PROVE Typed'
    <2>1. FileTyped'
      BY <1>8, <1>a DEF Crash, FileTyped
    <2>2. TableTyped' /\ WriteTyped'
      BY <1>8, <1>a DEF Crash, TableTyped, WriteTyped, NoWrite
    <2>3. ReadTyped'
      BY <1>8, <1>a, ForgetTyped DEF Crash
    <2> QED BY <1>8, <1>a, <2>1, <2>2, <2>3 DEF Crash, Typed
  <1>9. CASE UNCHANGED vars
    BY <1>9, <1>a DEF vars, Typed
  <1> QED BY <1>1, <1>2, <1>3, <1>4, <1>5, <1>6, <1>7, <1>8, <1>9 DEF Next, Writing

-----------------------------------------------------------------------------
(* The locks on the lock file. *)

(* What the locks say of the phases: while somebody has the lock file for  *)
(* itself everyone else is outside.                                        *)
LEMMA Alone ==
  ASSUME LocksByPhase, NEW e \in Envs, LockOf(e) = "exclusive"
  PROVE  \A f \in Envs \ {e} : pc[f] \in {"closed", "wait"}
  BY DEF LocksByPhase

LEMMA Outside ==
  ASSUME OnePerProcess, LocksByPhase, NEW e \in Envs
  PROVE  CanExclude(Process[e]) <=> \A f \in Envs \ {e} : LockOf(f) = "none"
  BY DEF OnePerProcess, CanExclude, Others, Processes, LockOf

(* A step of one environment that gives its process another lock. *)
LEMMA Relock ==
  ASSUME OnePerProcess, LocksByPhase, FileTyped, PcTyped, NEW e \in Envs, NEW kind, NEW phase,
         SetLock(e, kind), Goto(e, phase),
         phase \in {"closed", "wait"} <=> kind = "none",
         phase \in {"init", "share"} => kind = "exclusive",
         kind = "exclusive" => phase \in {"init", "share", "detach"},
         kind = "exclusive" => \A f \in Envs \ {e} : LockOf(f) = "none",
         kind # "none" => \A f \in Envs \ {e} : LockOf(f) # "exclusive"
  PROVE  LocksByPhase'
  <1>1. LockOf(e)' = kind /\ pc'[e] = phase
    BY DEF LockOf, SetLock, FileTyped, Processes, Goto, PcTyped
  <1>2. \A f \in Envs \ {e} : LockOf(f)' = LockOf(f) /\ pc'[f] = pc[f]
    BY DEF LockOf, SetLock, FileTyped, Processes, Goto, PcTyped, OnePerProcess
  <1> QED BY <1>1, <1>2 DEF LocksByPhase

(* A step of one environment inside the file or outside it. *)
LEMMA SameLock ==
  ASSUME LocksByPhase, PcTyped, NEW e \in Envs, NEW phase, UNCHANGED locks, Goto(e, phase),
         phase \in {"closed", "wait"} <=> pc[e] \in {"closed", "wait"},
         phase \in {"init", "share"} <=> pc[e] \in {"init", "share"},
         pc[e] # "detach"
  PROVE  LocksByPhase'
  <1>1. pc'[e] = phase /\ \A f \in Envs \ {e} : pc'[f] = pc[f]
    BY DEF Goto, PcTyped
  <1>2. \A f \in Envs : LockOf(f)' = LockOf(f)
    BY DEF LockOf
  <1> QED BY <1>1, <1>2 DEF LocksByPhase

LEMMA LocksStep ==
  ASSUME OnePerProcess, EnvInductive, [Next]_vars
  PROVE  LocksByPhase'
  <1>a. LocksByPhase /\ PcTyped /\ FileTyped
    BY TypeParts DEF EnvInductive, AllPhases, Typed
  <1>b. Readers \subseteq Envs /\ App \in Envs
    BY DEF Envs
  <1>c. ASSUME NEW e \in Envs, LockOf(e) = "shared", NEW f \in Envs
        PROVE  LockOf(f) # "exclusive"
    BY <1>a, <1>c DEF LocksByPhase
  <1>d. \A e \in Envs : LockOf(e) \in {"none", "shared", "exclusive"}
    BY <1>a DEF FileTyped, LockOf, Processes
  <1>1. ASSUME NEW e \in Envs, Attach(e) PROVE LocksByPhase'
    <2>1. CASE CanExclude(Process[e])
      <3>1. SetLock(e, "exclusive") /\ Goto(e, "init")
        BY <1>1, <2>1 DEF Attach
      <3>2. \A f \in Envs \ {e} : LockOf(f) = "none"
        BY <1>a, <2>1, Outside
      <3> QED BY <1>a, <3>1, <3>2, Relock
    <2>2. CASE ~CanExclude(Process[e])
      BY <1>1, <1>a, <2>2, SameLock DEF Attach
    <2> QED BY <2>1, <2>2
  <1>2. ASSUME NEW e \in Envs, AttachShared(e) PROVE LocksByPhase'
    <2>1. \A f \in Envs \ {e} : LockOf(f) # "exclusive"
      BY <1>2 DEF AttachShared, CanShare, Others, LockOf, Processes, OnePerProcess
    <2> QED BY <1>2, <1>a, <2>1, Relock DEF AttachShared
  <1>3. ASSUME NEW e \in Envs, InitTable(e) PROVE LocksByPhase'
    BY <1>3, <1>a, SameLock DEF InitTable, fileVars
  <1>4. ASSUME NEW e \in Envs, ShareLocks(e) PROVE LocksByPhase'
    <2>1. \A f \in Envs \ {e} : LockOf(f) # "exclusive"
      BY <1>4, <1>a DEF ShareLocks, LocksByPhase
    <2> QED BY <1>4, <1>a, <2>1, Relock DEF ShareLocks
  <1>5. ASSUME NEW e \in Envs, ClearSlots(e) PROVE LocksByPhase'
    BY <1>5, <1>a, SameLock DEF ClearSlots, fileVars
  <1>6. ASSUME NEW e \in Envs, LastOut(e) PROVE LocksByPhase'
    <2>1. LockOf(e) = "shared"
      BY <1>6, <1>a, <1>d DEF LastOut, LocksByPhase
    <2>2. CASE CanExclude(Process[e])
      <3>1. \A f \in Envs \ {e} : LockOf(f) = "none"
        BY <1>a, <2>2, Outside
      <3>2. SetLock(e, "exclusive") /\ Goto(e, "detach")
        BY <1>6, <2>2 DEF LastOut
      <3> QED BY <1>a, <3>1, <3>2, Relock
    <2>3. CASE ~CanExclude(Process[e])
      <3>1. SetLock(e, "shared") /\ Goto(e, "detach")
        BY <1>6, <2>3 DEF LastOut
      <3> QED BY <1>a, <1>c, <2>1, <3>1, Relock
    <2> QED BY <2>2, <2>3
  <1>7. ASSUME NEW e \in Envs, Detach(e) PROVE LocksByPhase'
    BY <1>7, <1>a, Relock DEF Detach
  <1>8. ASSUME NEW r \in Readers, Reading(r) PROVE LocksByPhase'
    <2>1. \E phase \in {"load", "store", "check", "copy", "read", "close"} : Goto(r, phase)
      BY <1>8 DEF Reading, ClaimSlot, BeginFails, LoadTxnid, StoreTxnid, CheckTxnid, CopyMeta, EndRead
    <2>2. pc[r] \in {"open", "load", "store", "check", "copy", "read"} /\ UNCHANGED locks
      BY <1>8 DEF Reading, ClaimSlot, BeginFails, LoadTxnid, StoreTxnid, CheckTxnid, CopyMeta,
                  EndRead, fileVars
    <2> QED BY <1>a, <1>b, <2>1, <2>2, SameLock
  <1>9. CASE BeginWrite \/ Writing \/ AbortWrite \/ CloseApp
    <2>1. (\E phase \in {"open", "close"} \cup WritePhases : Goto(App, phase)) \/ pc' = pc
      BY <1>9 DEF BeginWrite, Writing, StartScan, ScanSlot, FlushPages, WriteMeta, Publish,
                  AbortWrite, CloseApp, WritePhases
    <2>2. pc[App] \in {"open"} \cup WritePhases /\ UNCHANGED locks
      BY <1>9 DEF BeginWrite, Writing, StartScan, ScanSlot, FlushPages, WriteMeta, Publish,
                  AbortWrite, CloseApp, WritePhases, fileVars
    <2>3. CASE pc' = pc
      BY <2>2, <2>3, <1>a DEF LocksByPhase, LockOf
    <2> QED BY <1>a, <1>b, <2>1, <2>2, <2>3, SameLock DEF WritePhases
  <1>10. ASSUME NEW p \in Crashing, Crash(p) PROVE LocksByPhase'
    <2>1. \A e \in Envs : /\ Process[e] = p => pc'[e] = "closed" /\ LockOf(e)' = "none"
                          /\ Process[e] # p => pc'[e] = pc[e] /\ LockOf(e)' = LockOf(e)
      BY <1>10, <1>a DEF Crash, LockOf, FileTyped, Processes
    <2> QED BY <1>a, <2>1 DEF LocksByPhase
  <1>11. CASE UNCHANGED vars
    BY <1>a, <1>11 DEF vars, fileVars, LocksByPhase, LockOf
  <1> QED BY <1>1, <1>2, <1>3, <1>4, <1>5, <1>6, <1>7, <1>8, <1>9, <1>10, <1>11
          DEF Next, Opening, Closing
-----------------------------------------------------------------------------
(* What each kind of step leaves alone. *)
LEMMA EnvMoves ==
  ASSUME PcTyped, NEW e \in Envs, Attach(e) \/ Opening(e) \/ Closing(e)
  PROVE  /\ pc[e] \in Phases /\ pc'[e] \in Phases
         /\ \A f \in Envs \ {e} : pc'[f] = pc[f]
         /\ UNCHANGED <<dataVars, wtxn>>
  <1>1. pc[e] \in Phases /\ \E phase \in Phases : Goto(e, phase)
    BY DEF Attach, Opening, AttachShared, InitTable, ShareLocks, Closing, ClearSlots, LastOut,
           Detach, Phases
  <1>2. UNCHANGED <<dataVars, wtxn>>
    BY DEF Attach, Opening, AttachShared, InitTable, ShareLocks, Closing, ClearSlots, LastOut,
           Detach
  <1> QED BY <1>1, <1>2 DEF Goto, PcTyped

LEMMA ReaderMoves ==
  ASSUME PcTyped, NEW r \in Readers, Reading(r)
  PROVE  /\ pc[r] \in {"open"} \cup ReadPhases /\ pc'[r] \in {"close"} \cup ReadPhases
         /\ \A f \in Envs \ {r} : pc'[f] = pc[f]
         /\ UNCHANGED <<locks, dataVars, mutex, mti_txnid, wtxn>>
  <1>1. /\ pc[r] \in {"open"} \cup ReadPhases
        /\ \E phase \in {"close"} \cup ReadPhases : Goto(r, phase)
    BY DEF Reading, ClaimSlot, BeginFails, LoadTxnid, StoreTxnid, CheckTxnid, CopyMeta, EndRead,
           ReadPhases
  <1>2. UNCHANGED <<locks, dataVars, mutex, mti_txnid, wtxn>>
    BY DEF Reading, ClaimSlot, BeginFails, LoadTxnid, StoreTxnid, CheckTxnid, CopyMeta, EndRead,
           fileVars, lockVars
  <1>3. r \in Envs
    BY DEF Envs
  <1> QED BY <1>1, <1>2, <1>3 DEF Goto, PcTyped

LEMMA WriterMoves ==
  ASSUME PcTyped, BeginWrite \/ Writing \/ AbortWrite \/ CloseApp
  PROVE  /\ pc[App] \in {"open"} \cup WritePhases /\ pc'[App] \in {"open", "close"} \cup WritePhases
         /\ \A r \in Readers : pc'[r] = pc[r]
         /\ UNCHANGED <<fileVars, numreaders, readVars>>
  <1>1. /\ pc[App] \in {"open"} \cup WritePhases
        /\ pc' = pc \/ \E phase \in {"open", "close"} \cup WritePhases : Goto(App, phase)
    BY DEF BeginWrite, Writing, StartScan, ScanSlot, FlushPages, WriteMeta, Publish, AbortWrite,
           CloseApp, WritePhases
  <1>2. UNCHANGED <<fileVars, numreaders, readVars>>
    BY DEF BeginWrite, Writing, StartScan, ScanSlot, FlushPages, WriteMeta, Publish, AbortWrite,
           CloseApp, lockVars
  <1> QED BY <1>1, <1>2 DEF Goto, PcTyped, Envs

(* Nobody initializes the lock file while another is inside it.            *)
LEMMA NobodyOpening ==
  ASSUME LocksByPhase, PcTyped, NEW e \in Envs,
         pc[e] \in {"open", "close", "last"} \cup ReadPhases \cup WritePhases
  PROVE  \A f \in Envs : pc[f] \notin {"init", "share"}
  BY DEF LocksByPhase, ReadPhases, WritePhases

(* And nobody is inside it while one initializes it or destroys its mutexes. *)
LEMMA NobodyInside ==
  ASSUME OnePerProcess, LocksByPhase, PcTyped, NEW e \in Envs,
         pc[e] \in {"init", "share"} \/ CanExclude(Process[e])
  PROVE  \A f \in Envs \ {e} : pc[f] \in {"closed", "wait"}
  <1>1. CASE pc[e] \in {"init", "share"}
    BY <1>1 DEF LocksByPhase
  <1>2. CASE CanExclude(Process[e])
    BY <1>2, Outside DEF LocksByPhase
  <1> QED BY <1>1, <1>2

-----------------------------------------------------------------------------
(* The writer's mutex, the meta pages and the last transaction. *)
LEMMA MutexStep ==
  ASSUME OnePerProcess, EnvInductive, [Next]_vars
  PROVE  MutexByPhase'
  <1>a. LocksByPhase /\ PcTyped /\ MutexByPhase
    BY TypeParts DEF EnvInductive, AllPhases
  <1>b. Readers \subseteq Envs /\ App \in Envs
    BY DEF Envs
  <1>1. ASSUME NEW e \in Envs, Attach(e) \/ Opening(e) \/ Closing(e) PROVE MutexByPhase'
    <2>1. (pc'[App] \in WritePhases) <=> (pc[App] \in WritePhases)
      BY <1>a, <1>b, <1>1, EnvMoves DEF Phases, WritePhases
    <2>2. \/ UNCHANGED mutex
          \/ mutex' \in {"free", "destroyed"} /\ pc[e] \in {"init", "last"}
             /\ (pc[e] \in {"init", "share"} \/ CanExclude(Process[e]))
      BY <1>1 DEF Attach, Opening, AttachShared, InitTable, ShareLocks, Closing, ClearSlots,
                  LastOut, Detach, lockVars
    <2>3. mutex' # mutex => mutex' # "held" /\ pc[App] \notin WritePhases
      BY <1>a, <1>b, <2>2, NobodyInside DEF WritePhases
    <2> QED BY <1>a, <2>1, <2>3 DEF MutexByPhase
  <1>2. ASSUME NEW r \in Readers, Reading(r) PROVE MutexByPhase'
    BY <1>2, <1>a, <1>b, ReaderMoves DEF MutexByPhase
  <1>3. CASE BeginWrite \/ Writing \/ AbortWrite \/ CloseApp
    BY <1>3, <1>a, <1>b DEF BeginWrite, Writing, StartScan, ScanSlot, FlushPages, WriteMeta, Publish,
         AbortWrite, CloseApp, lockVars, MutexByPhase, WritePhases, Goto, PcTyped
  <1>4. ASSUME NEW p \in Crashing, Crash(p) PROVE MutexByPhase'
    BY <1>4, <1>a, <1>b DEF Crash, MutexByPhase, WritePhases
  <1>5. CASE UNCHANGED vars
    BY <1>5, <1>a DEF vars, lockVars, MutexByPhase
  <1> QED BY <1>1, <1>2, <1>3, <1>4, <1>5 DEF Next

LEMMA Parity ==
  ASSUME NEW n \in Nat
  PROVE  /\ n % 2 = 0 => (n + 1) % 2 = 1
         /\ n % 2 = 1 => (n + 1) % 2 = 0
         /\ (n + 2) % 2 = n % 2
         /\ n % 2 \in {0, 1}
  OBVIOUS

(* The newest commit is in the meta page of its parity, and the other page *)
(* holds the one before it.                                                *)
LEMMA NewestInPlace ==
  ASSUME MetasAlternate, DataTyped
  PROVE  /\ Newest \in Nat /\ Newest % 2 \in {0, 1} /\ metas[Newest % 2] = Newest
         /\ Newest = metas[0] \/ Newest = metas[1]
         /\ metas[0] <= Newest /\ metas[1] <= Newest
         /\ \A m \in {0, 1} : m # Newest % 2 => metas[m] + 1 = Newest
  <1>1. metas[0] \in Nat /\ metas[1] \in Nat
    BY Numbers DEF DataTyped
  <1>2. CASE metas[0] < metas[1]
    <2>1. Newest = metas[1] /\ metas[1] % 2 = 1 /\ metas[1] = metas[0] + 1
      BY <1>1, <1>2 DEF Newest, MetasAlternate
    <2> QED BY <1>1, <1>2, <2>1
  <1>3. CASE ~(metas[0] < metas[1])
    <2>1. Newest = metas[0] /\ metas[0] % 2 = 0 /\ metas[0] = metas[1] + 1
      BY <1>1, <1>3 DEF Newest, MetasAlternate
    <2> QED BY <1>1, <1>3, <2>1
  <1> QED BY <1>2, <1>3

(* The meta page of the next transaction is the one of the commit before.  *)
LEMMA MetaWritten ==
  ASSUME MetasAlternate, DataTyped,
         metas' = [metas EXCEPT ![(Newest + 1) % 2] = Newest + 1]
  PROVE  MetasAlternate' /\ Newest' = Newest + 1
  <1>1. metas[0] \in Nat /\ metas[1] \in Nat
    BY Numbers DEF DataTyped
  <1>2. CASE metas[0] < metas[1]
    <2>1. Newest = metas[1] /\ (Newest + 1) % 2 = 0 /\ metas[1] % 2 = 1
      BY <1>1, <1>2, Parity DEF Newest, MetasAlternate
    <2>2. metas'[0] = metas[1] + 1 /\ metas'[1] = metas[1]
      BY <2>1 DEF DataTyped
    <2> QED BY <1>1, <2>1, <2>2 DEF Newest, MetasAlternate
  <1>3. CASE ~(metas[0] < metas[1])
    <2>1. Newest = metas[0] /\ (Newest + 1) % 2 = 1 /\ metas[0] % 2 = 0
      BY <1>1, <1>3, Parity DEF Newest, MetasAlternate
    <2>2. metas'[1] = metas[0] + 1 /\ metas'[0] = metas[0]
      BY <2>1 DEF DataTyped
    <2> QED BY <1>1, <2>1, <2>2 DEF Newest, MetasAlternate
  <1> QED BY <1>2, <1>3

LEMMA MetasStep ==
  ASSUME OnePerProcess, ~DieOpening, EnvInductive, [Next]_vars
  PROVE  MetasAlternate' /\ LastTxnKnown'
  <1>a. /\ LocksByPhase /\ PcTyped /\ MutexByPhase /\ MetasAlternate /\ LastTxnKnown
        /\ DataTyped /\ TableTyped /\ WriteTyped
    BY TypeParts DEF EnvInductive, AllPhases, Typed
  <1>b. Readers \subseteq Envs /\ App \in Envs
    BY DEF Envs
  <1>c. Newest \in Nat /\ mti_txnid \in Nat
    BY <1>a, NewestInPlace, Numbers DEF TableTyped
  <1>d. UNCHANGED metas => Newest' = Newest /\ MetasAlternate'
    BY <1>a DEF Newest, MetasAlternate
  <1>1. ASSUME NEW e \in Envs, Attach(e) \/ Opening(e) \/ Closing(e)
        PROVE  MetasAlternate' /\ LastTxnKnown'
    <2>1. /\ pc[e] \in Phases /\ pc'[e] \in Phases
          /\ \A f \in Envs \ {e} : pc'[f] = pc[f]
          /\ UNCHANGED <<metas, wtxn>>
      BY <1>1, <1>a, EnvMoves DEF dataVars
    <2>2. CASE InitTable(e) \/ ShareLocks(e)
      <3>1. pc[e] \in {"init", "share"}
        BY <2>2 DEF InitTable, ShareLocks
      <3>2. \A f \in Envs \ {e} : pc[f] \in {"closed", "wait"}
        BY <1>a, <3>1, NobodyInside
      <3>3. pc'[App] \notin WritePhases
        BY <1>b, <2>1, <3>2 DEF Phases, WritePhases
      <3>4. pc'[e] = "share" \/ mti_txnid' = Newest
        BY <2>2, <1>a DEF InitTable, ShareLocks, Goto, PcTyped
      <3> QED BY <1>c, <1>d, <2>1, <3>3, <3>4 DEF LastTxnKnown, WritePhases
    <2>3. CASE ~(InitTable(e) \/ ShareLocks(e))
      <3>1. pc[e] # "share" /\ pc'[e] # "share"
        BY <1>1, <1>a, <2>3 DEF Attach, Opening, AttachShared, Closing, ClearSlots, LastOut, Detach,
                               Goto, PcTyped
      <3>2. UNCHANGED mti_txnid /\ mutex' \in {mutex, "destroyed"}
        BY <1>1, <2>3 DEF Attach, Opening, AttachShared, Closing, ClearSlots, LastOut, Detach, lockVars
      <3>3. pc'[App] \in WritePhases => pc'[App] = pc[App]
        BY <1>b, <2>1 DEF Phases, WritePhases
      <3> QED BY <1>a, <1>d, <2>1, <3>1, <3>2, <3>3 DEF LastTxnKnown, WritePhases
    <2> QED BY <2>2, <2>3
  <1>2. ASSUME NEW r \in Readers, Reading(r) PROVE MetasAlternate' /\ LastTxnKnown'
    <2>1. /\ pc[r] # "share" /\ pc'[r] # "share" /\ \A f \in Envs \ {r} : pc'[f] = pc[f]
          /\ UNCHANGED <<metas, mutex, mti_txnid, wtxn>>
      BY <1>2, <1>a, ReaderMoves DEF ReadPhases, dataVars
    <2> QED BY <1>a, <1>b, <1>d, <2>1 DEF LastTxnKnown
  <1>3. CASE BeginWrite \/ Writing \/ AbortWrite \/ CloseApp
    <2>1. \A f \in Envs : pc[f] # "share" /\ pc'[f] # "share"
      <3>1. pc[App] \in {"open"} \cup WritePhases /\ \A r \in Readers : pc'[r] = pc[r]
        BY <1>3, <1>a, WriterMoves
      <3>2. pc'[App] # "share"
        BY <1>3, <1>a, WriterMoves DEF WritePhases
      <3>3. \A f \in Envs : pc[f] # "share"
        BY <1>a, <1>b, <3>1, NobodyOpening
      <3> QED BY <3>1, <3>2, <3>3 DEF Envs
    <2>2. mutex = "free" => mti_txnid = Newest
      BY <1>a, <2>1 DEF LastTxnKnown
    <2>3. CASE WriteMeta
      <3>1. wtxn.txnid = Newest + 1 /\ mti_txnid = Newest /\ mutex = "held" /\ pc'[App] = "publish"
        BY <2>3, <1>a, <1>b DEF WriteMeta, LastTxnKnown, MutexByPhase, WritePhases, Goto, PcTyped
      <3>2. MetasAlternate' /\ Newest' = Newest + 1
        BY <2>3, <3>1, <1>a, MetaWritten DEF WriteMeta
      <3> QED BY <2>3, <3>1, <3>2, <1>c DEF WriteMeta, lockVars, LastTxnKnown
    <2>4. CASE BeginWrite
      <3>1. mti_txnid' = Newest /\ pc'[App] = "oldest" /\ UNCHANGED metas /\ mutex' = "held"
        BY <2>4, <2>2, <1>a, <1>b DEF BeginWrite, dataVars, Goto, PcTyped
      <3>2. wtxn'.txnid = Newest + 1
        BY <2>4, <3>1 DEF BeginWrite
      <3> QED BY <1>c, <1>d, <3>1, <3>2 DEF LastTxnKnown
    <2>5. CASE StartScan \/ ScanSlot \/ FlushPages
      <3>1. pc[App] \in {"oldest", "scan", "meta"} /\ pc'[App] \in {"oldest", "scan", "meta"}
        BY <2>5, <1>a, <1>b DEF StartScan, ScanSlot, FlushPages, Goto, PcTyped
      <3>2. UNCHANGED <<metas, mutex, mti_txnid>> /\ wtxn'.txnid = wtxn.txnid
        BY <2>5, <1>a DEF StartScan, ScanSlot, FlushPages, dataVars, lockVars, WriteTyped
      <3> QED BY <1>a, <1>d, <2>1, <3>1, <3>2 DEF LastTxnKnown
    <2>6. CASE Publish \/ AbortWrite \/ CloseApp
      <3>1. pc'[App] \in {"open", "close"} /\ UNCHANGED metas
        BY <2>6, <1>a, <1>b DEF Publish, AbortWrite, CloseApp, dataVars, Goto, PcTyped
      <3>2. mti_txnid' = Newest \/ UNCHANGED <<mti_txnid, mutex>>
        BY <2>6, <1>a DEF Publish, AbortWrite, CloseApp, lockVars, LastTxnKnown
      <3> QED BY <1>a, <1>c, <1>d, <2>1, <3>1, <3>2 DEF LastTxnKnown
    <2> QED BY <1>3, <2>3, <2>4, <2>5, <2>6 DEF Writing
  <1>4. ASSUME NEW p \in Crashing, Crash(p) PROVE MetasAlternate' /\ LastTxnKnown'
    <2>1. \A e \in Envs : IF Process[e] = p THEN pc[e] # "share" /\ pc'[e] = "closed"
                          ELSE pc'[e] = pc[e]
      BY <1>4 DEF Crash
    <2>2. /\ UNCHANGED <<metas, mti_txnid>> /\ mutex' \in {mutex, "dead"}
          /\ Process[App] # p => UNCHANGED wtxn
      BY <1>4 DEF Crash, dataVars
    <2> QED BY <1>a, <1>b, <1>d, <2>1, <2>2 DEF LastTxnKnown
  <1>5. CASE UNCHANGED vars
    BY <1>5, <1>a, <1>d DEF vars, lockVars, dataVars, LastTxnKnown
  <1> QED BY <1>1, <1>2, <1>3, <1>4, <1>5 DEF Next
-----------------------------------------------------------------------------
(* The reader table. *)

(* A step leaves what a running reader has in the table and has loaded.    *)
Kept(r) ==
  /\ pc'[r] = pc[r]
  /\ slot'[r] = slot[r] /\ slot[r] <= numreaders'
  /\ table'[slot[r]] = table[slot[r]]
  /\ Process[r] \in pidlocks'
  /\ seen'[r] = seen[r] /\ snap'[r] = snap[r]

LEMMA OwnSlots ==
  ASSUME OnePerProcess, Registered, NEW r \in Readers, NEW q \in Readers \ {r},
         pc[r] \in ReadPhases, pc[q] \in ReadPhases
  PROVE  slot[r] # slot[q]
  BY DEF OnePerProcess, Registered, Envs

(* A slot handed out belonged to nobody. *)
LEMMA ClaimsFree ==
  ASSUME EnvTypeOK, Registered, NEW q \in Readers, pc[q] \in ReadPhases
  PROVE  slot[q] # FirstFree
  <1>1. slot[q] <= numreaders /\ numreaders \in Nat /\ table[slot[q]].pid # NoPid
    BY Numbers DEF Registered, EnvTypeOK, Envs
  <1>2. CASE FirstFree \in FreeSlots
    BY <1>1, <1>2 DEF FreeSlots
  <1>3. CASE FirstFree \notin FreeSlots
    BY <1>1, <1>3, FirstFreeInside, Numbers
  <1> QED BY <1>2, <1>3

LEMMA OthersKeep ==
  ASSUME OnePerProcess, EnvInductive, NEW r \in Readers, pc'[r] \in ReadPhases,
         \/ \E e \in Envs : Attach(e) \/ Opening(e) \/ Closing(e)
         \/ \E q \in Readers \ {r} : Reading(q)
         \/ BeginWrite \/ Writing \/ AbortWrite \/ CloseApp
         \/ \E p \in Crashing : Crash(p)
         \/ UNCHANGED vars
  PROVE  pc[r] \in ReadPhases /\ Kept(r)
  <1>a. /\ LocksByPhase /\ PcTyped /\ Registered /\ EnvTypeOK
        /\ TableTyped /\ ReadTyped /\ FileTyped
    BY TypeParts DEF EnvInductive, AllPhases, Typed
  <1>b. r \in Envs /\ App \in Envs /\ r # App
    BY DEF Envs
  <1>c. pc[r] \in ReadPhases =>
          /\ slot[r] \in Slots /\ slot[r] <= numreaders
          /\ table[slot[r]].pid = Process[r] /\ Process[r] \in pidlocks
    BY <1>a, <1>b DEF Registered, ReadTyped
  <1>1. ASSUME NEW e \in Envs, Attach(e) \/ Opening(e) \/ Closing(e)
        PROVE  pc[r] \in ReadPhases /\ Kept(r)
    <2>1. e # r /\ pc[r] = pc'[r]
      BY <1>1, <1>a, <1>b, EnvMoves DEF Phases, ReadPhases
    <2>2. ~InitTable(e)
      <3>1. CASE InitTable(e)
        BY <3>1, <2>1, <1>a, <1>b, NobodyInside DEF InitTable, ReadPhases
      <3> QED BY <3>1
    <2>3. UNCHANGED numreaders
      BY <1>1, <2>2 DEF Attach, Opening, AttachShared, ShareLocks, Closing, ClearSlots, LastOut,
                        Detach, lockVars
    <2>4. table'[slot[r]] = table[slot[r]]
      <3>1. Process[r] # Process[e]
        BY <2>1, <1>b DEF OnePerProcess
      <3>2. CASE ClearSlots(e)
        BY <3>1, <3>2, <2>1, <1>c DEF ClearSlots
      <3>3. CASE ~ClearSlots(e)
        BY <1>1, <2>2, <3>3 DEF Attach, Opening, AttachShared, ShareLocks, Closing, LastOut, Detach,
                                lockVars
      <3> QED BY <3>2, <3>3
    <2>5. Process[r] \in pidlocks'
      BY <1>1, <1>b, <1>c, <2>1 DEF Attach, Opening, AttachShared, InitTable, ShareLocks, Closing,
                       ClearSlots, LastOut, Detach, fileVars, OnePerProcess
    <2>6. slot'[r] = slot[r] /\ seen'[r] = seen[r] /\ snap'[r] = snap[r]
      BY <1>1, <1>b, <2>1 DEF Attach, Opening, AttachShared, InitTable, ShareLocks, Closing,
                       ClearSlots, LastOut, Detach, readVars, Forget
    <2> QED BY <1>c, <2>1, <2>3, <2>4, <2>5, <2>6 DEF Kept
  <1>2. ASSUME NEW q \in Readers \ {r}, Reading(q)
        PROVE  pc[r] \in ReadPhases /\ Kept(r)
    <2>1. pc[r] = pc'[r] /\ pc[q] \in {"open"} \cup ReadPhases /\ q \in Envs
      BY <1>2, <1>a, <1>b, ReaderMoves DEF Envs
    <2>2. CASE ClaimSlot(q)
      <3>1. slot[r] # FirstFree
        BY <1>a, <2>1, ClaimsFree
      <3>2. numreaders' = numreaders \/ numreaders' = numreaders + 1
        BY <2>2 DEF ClaimSlot
      <3>3. slot[r] <= numreaders'
        <4>1. slot[r] \in Slots /\ slot[r] <= numreaders
          BY <2>1, <1>c
        <4>2. slot[r] \in Nat /\ numreaders \in Nat
          BY <4>1, <1>a DEF Slots, TableTyped
        <4> QED BY <3>2, <4>1, <4>2
      <3>4. table'[slot[r]] = table[slot[r]]
        BY <2>2, <3>1, <2>1, <1>a, <1>c DEF ClaimSlot, TableTyped
      <3> QED BY <2>1, <2>2, <3>3, <3>4, <1>a, <1>b, <1>c DEF ClaimSlot, Kept, ReadTyped
    <2>3. CASE StoreTxnid(q) \/ EndRead(q)
      <3>1. slot[r] # slot[q]
        BY <2>1, <2>3, <1>a, OwnSlots DEF StoreTxnid, EndRead, ReadPhases
      <3> QED BY <2>1, <2>3, <3>1, <1>a, <1>c DEF StoreTxnid, EndRead, Kept, TableTyped, fileVars, readVars
    <2>4. CASE BeginFails(q) \/ LoadTxnid(q) \/ CheckTxnid(q) \/ CopyMeta(q)
      BY <2>1, <2>4, <1>a, <1>b, <1>c DEF BeginFails, LoadTxnid, CheckTxnid, CopyMeta, Kept, ReadTyped,
         fileVars, lockVars, readVars
    <2> QED BY <1>2, <2>2, <2>3, <2>4 DEF Reading
  <1>3. CASE BeginWrite \/ Writing \/ AbortWrite \/ CloseApp
    <2>1. pc'[r] = pc[r] /\ UNCHANGED <<pidlocks, numreaders, slot, seen, snap>>
      BY <1>3, <1>a, WriterMoves DEF fileVars, readVars
    <2>2. UNCHANGED table \/ BeginWrite
      BY <1>3 DEF Writing, StartScan, ScanSlot, FlushPages, WriteMeta, Publish, AbortWrite, CloseApp,
                  lockVars
    <2>3. BeginWrite => table'[slot[r]] = table[slot[r]]
      BY <1>c, <2>1 DEF BeginWrite, Alive
    <2> QED BY <1>c, <2>1, <2>2, <2>3 DEF Kept
  <1>4. ASSUME NEW p \in Crashing, Crash(p)
        PROVE  pc[r] \in ReadPhases /\ Kept(r)
    <2>1. pc'[r] = IF Process[r] = p THEN "closed" ELSE pc[r]
      BY <1>4, <1>b DEF Crash
    <2>2. Process[r] # p /\ pc'[r] = pc[r]
      BY <2>1 DEF ReadPhases
    <2> QED BY <1>4, <1>b, <1>c, <2>2 DEF Crash, Forget, Kept
  <1>5. CASE UNCHANGED vars
    BY <1>5, <1>c DEF vars, fileVars, lockVars, readVars, Kept
  <1> QED BY <1>1, <1>2, <1>3, <1>4, <1>5

(* A reader's own step: claiming a slot, or one inside it. *)
LEMMA OwnStep ==
  ASSUME EnvInductive, NEW r \in Readers, pc'[r] \in ReadPhases, Reading(r), ~ClaimSlot(r)
  PROVE  /\ pc[r] \in ReadPhases
         /\ UNCHANGED <<slot, numreaders, pidlocks>>
         /\ table'[slot[r]].pid = table[slot[r]].pid
         /\ slot[r] \in Slots
  <1>a. TableTyped /\ ReadTyped /\ PcTyped /\ r \in Envs
    BY TypeParts DEF EnvInductive, AllPhases, Typed, Envs
  <1>1. ~BeginFails(r) /\ ~EndRead(r)
    BY <1>a DEF BeginFails, EndRead, Goto, PcTyped, ReadPhases
  <1>2. slot[r] \in Slots
    BY <1>a DEF ReadTyped
  <1>3. StoreTxnid(r) => table'[slot[r]].pid = table[slot[r]].pid
    BY <1>2, <1>a DEF StoreTxnid, TableTyped
  <1> QED BY <1>1, <1>2, <1>3 DEF Reading, LoadTxnid, StoreTxnid, CheckTxnid, CopyMeta, ReadPhases,
             fileVars, lockVars, readVars

LEMMA Cases ==
  ASSUME [Next]_vars, NEW r \in Readers
  PROVE  \/ Reading(r)
         \/ \E e \in Envs : Attach(e) \/ Opening(e) \/ Closing(e)
         \/ \E q \in Readers \ {r} : Reading(q)
         \/ BeginWrite \/ Writing \/ AbortWrite \/ CloseApp
         \/ \E p \in Crashing : Crash(p)
         \/ UNCHANGED vars
  BY Zenon DEF Next

LEMMA RegisteredStep ==
  ASSUME OnePerProcess, EnvInductive, [Next]_vars
  PROVE  Registered'
  <1> SUFFICES ASSUME NEW r \in Readers, pc'[r] \in ReadPhases
               PROVE  /\ slot'[r] <= numreaders' /\ table'[slot'[r]].pid = Process[r]
                      /\ Process[r] \in pidlocks'
    BY DEF Registered
  <1>a. Registered /\ TableTyped /\ ReadTyped /\ EnvTypeOK /\ r \in Envs
    BY TypeParts DEF EnvInductive, AllPhases, Typed, Envs
  <1>1. CASE ClaimSlot(r)
    <2>1. FirstFree \in Slots /\ FirstFree \in Nat /\ FirstFree <= numreaders'
      <3>1. FirstFree \in Slots /\ FirstFree \in Nat
        <4>1. FirstFree <= MaxReaders
          BY <1>1 DEF ClaimSlot
        <4> QED BY <4>1, <1>a, FirstFreeInside
      <3>2. CASE FreeSlots = {}
        <4>1. FirstFree = numreaders + 1 /\ numreaders' = numreaders + 1
          BY <1>1, <3>2 DEF ClaimSlot, FirstFree
        <4>2. numreaders \in Nat
          BY <1>a DEF TableTyped
        <4> QED BY <3>1, <4>1, <4>2
      <3>3. CASE FreeSlots # {}
        <4>1. FirstFree \in FreeSlots
          BY <3>3, <1>a, FirstFreeInside
        <4>2. FirstFree \in 1..numreaders /\ numreaders' = numreaders
          BY <1>1, <3>3, <4>1 DEF ClaimSlot, FreeSlots
        <4>3. numreaders \in Nat
          BY <1>a DEF TableTyped
        <4> QED BY <3>1, <4>2, <4>3
      <3> QED BY <3>2, <3>3
    <2> QED BY <1>1, <2>1, <1>a DEF ClaimSlot, TableTyped, ReadTyped
  <1>2. CASE Reading(r) /\ ~ClaimSlot(r)
    BY <1>2, <1>a, OwnStep DEF Registered
  <1>3. CASE ~Reading(r)
    <2>1. pc[r] \in ReadPhases /\ Kept(r)
      BY <1>3, Cases, OthersKeep
    <2> QED BY <2>1, <1>a DEF Kept, Registered
  <1> QED BY <1>1, <1>2, <1>3
-----------------------------------------------------------------------------
(* What is overwritten, what a reader announces and what the writer scans. *)

(* Only the commits change the newest transaction, upwards; only a flush   *)
(* overwrites, and only what lies below the writer's bound.                *)
LEMMA DamageStep ==
  ASSUME OnePerProcess, EnvInductive, [Next]_vars
  PROVE  /\ Newest \in Nat /\ Newest' \in Nat /\ Newest <= Newest'
         /\ damaged \subseteq Nat
         /\ \A t \in damaged' : \/ t \in damaged
                                \/ /\ pc[App] = "scan" /\ wtxn.i = 0 /\ t \in Nat
                                   /\ wtxn.oldest \in Nat /\ t + 1 < wtxn.oldest
         /\ damaged' # damaged /\ ~WriteMeta => FlushPages
  <1>a. PcTyped /\ DataTyped /\ WriteTyped /\ MetasAlternate /\ LastTxnKnown /\ LocksByPhase
    BY TypeParts DEF EnvInductive, AllPhases, Typed
  <1>b. Newest \in Nat /\ damaged \subseteq Nat
    BY <1>a, NewestInPlace, Numbers DEF DataTyped
  <1>1. CASE FlushPages
    <2>1. pc[App] = "scan" /\ wtxn.i = 0 /\ UNCHANGED metas
      BY <1>1 DEF FlushPages
    <2>2. wtxn.txnid = Newest + 1 /\ wtxn.oldest \in Nat
      BY <2>1, <1>a, Numbers DEF LastTxnKnown, WriteTyped
    <2>3. Base = Newest
      <3>1. (Newest + 2) % 2 = Newest % 2 /\ wtxn.txnid + 1 = Newest + 2
        BY <1>b, <2>2, Parity
      <3> QED BY <3>1, <1>a, NewestInPlace DEF Base
    <2>4. {t \in {metas[0], metas[1]} : t > Base} = {}
      <3>1. metas[0] \in Nat /\ metas[1] \in Nat /\ metas[0] <= Newest /\ metas[1] <= Newest
        BY <1>a, NewestInPlace, Numbers DEF DataTyped
      <3> QED BY <3>1, <2>3, <1>b
    <2>5. PICK recycled \in {0} \cup {t \in Txns : t < wtxn.oldest} :
            damaged' = damaged \cup {t \in Txns : t < recycled}
      BY <1>1, <2>4 DEF FlushPages, Recyclable
    <2>6. ASSUME NEW t \in Txns, t < recycled PROVE t \in Nat /\ t + 1 < wtxn.oldest
      <3>1. t \in Nat /\ recycled \in Nat /\ recycled # 0
        BY <2>5, <2>6, Numbers
      <3>2. recycled < wtxn.oldest
        BY <3>1, <2>5
      <3> QED BY <3>1, <3>2, <2>2, <2>6
    <2>7. Newest' = Newest
      BY <2>1 DEF Newest
    <2> QED BY <1>1, <1>b, <2>1, <2>2, <2>5, <2>6, <2>7
  <1>2. CASE WriteMeta
    <2>1. wtxn.txnid = Newest + 1
      BY <1>2, <1>a DEF WriteMeta, LastTxnKnown
    <2>2. Newest' = Newest + 1
      BY <1>2, <1>a, <2>1, MetaWritten DEF WriteMeta
    <2> QED BY <1>2, <1>b, <2>2 DEF WriteMeta
  <1>3. CASE ~FlushPages /\ ~WriteMeta
    <2>1. \A e \in Envs : Attach(e) \/ Opening(e) \/ Closing(e) => UNCHANGED dataVars
      BY <1>a, EnvMoves
    <2>2. \A r \in Readers : Reading(r) => UNCHANGED dataVars
      BY <1>a, ReaderMoves
    <2>3. UNCHANGED dataVars
      BY <1>3, <2>1, <2>2 DEF Next, BeginWrite, Writing, StartScan, ScanSlot, Publish, AbortWrite,
           CloseApp, Crash, vars
    <2> QED BY <1>b, <2>3 DEF dataVars, Newest
  <1> QED BY <1>1, <1>2, <1>3

LEMMA DamagedStep ==
  ASSUME OnePerProcess, EnvInductive, [Next]_vars
  PROVE  DamagedAreOld'
  <1> SUFFICES ASSUME NEW t \in damaged' PROVE t + 1 < Newest'
    BY DEF DamagedAreOld
  <1>1. Newest \in Nat /\ Newest' \in Nat /\ Newest <= Newest' /\ damaged \subseteq Nat
    BY DamageStep
  <1>2. CASE t \in damaged
    BY <1>1, <1>2 DEF EnvInductive, DamagedAreOld
  <1>3. CASE t \notin damaged
    <2>1. pc[App] = "scan" /\ t \in Nat /\ wtxn.oldest \in Nat /\ t + 1 < wtxn.oldest
      BY <1>3, DamageStep
    <2>2. wtxn.oldest <= Newest
      BY <2>1 DEF EnvInductive, ScanCovers, LastTxnKnown
    <2> QED BY <1>1, <2>1, <2>2
  <1> QED BY <1>2, <1>3

(* A transaction that all that is overwritten lies below stays so, if the  *)
(* writer's scan has not passed below it.                                  *)
LEMMA StaysWhole ==
  ASSUME OnePerProcess, EnvInductive, [Next]_vars,
         NEW n \in Nat, n <= Newest, \A t \in damaged : t < n,
         pc[App] = "scan" /\ wtxn.i = 0 => wtxn.oldest <= n
  PROVE  n <= Newest' /\ \A t \in damaged' : t < n
  <1>1. Newest \in Nat /\ Newest' \in Nat /\ Newest <= Newest'
    BY DamageStep
  <1>2. ASSUME NEW t \in damaged', t \notin damaged PROVE t < n
    <2>1. /\ pc[App] = "scan" /\ wtxn.i = 0
          /\ t \in Nat /\ wtxn.oldest \in Nat /\ t + 1 < wtxn.oldest
      BY <1>2, DamageStep
    <2> QED BY <2>1
  <1> QED BY <1>1, <1>2

LEMMA AnnouncedStep ==
  ASSUME OnePerProcess, EnvInductive, [Next]_vars
  PROVE  Announced'
  <1>a. /\ Registered /\ Announced /\ DamagedAreOld /\ ScanCovers /\ LastTxnKnown /\ MetasAlternate
        /\ LocksByPhase /\ PcTyped /\ TableTyped /\ ReadTyped /\ DataTyped /\ WriteTyped
    BY TypeParts DEF EnvInductive, AllPhases, Typed
  <1>b. Newest \in Nat /\ Newest' \in Nat /\ Newest <= Newest' /\ damaged \subseteq Nat
    BY DamageStep
  <1>c. App \in Envs /\ Readers \subseteq Envs
    BY DEF Envs
  <1>d. \A r \in Readers : seen[r] \in Nat /\ slot[r] \in Slots /\ slot[r] > 0
    BY <1>a, <1>c, Numbers, SlotNumbers DEF ReadTyped
  <1> SUFFICES ASSUME NEW r \in Readers, pc'[r] \in {"check", "copy", "read"}
               PROVE  /\ table'[slot'[r]].txnid = seen'[r]
                      /\ pc'[r] \in {"copy", "read"} =>
                           seen'[r] <= Newest' /\ \A t \in damaged' : t < seen'[r]
                      /\ pc'[r] = "read" => seen'[r] <= snap'[r]
    BY DEF Announced
  <1>e. r \in Envs /\ pc'[r] \in ReadPhases
    BY <1>c DEF ReadPhases
  <1>f. pc[r] \in {"copy", "read"} => seen[r] <= Newest' /\ \A t \in damaged' : t < seen[r]
    <2>1. pc[App] = "scan" /\ wtxn.i = 0 /\ pc[r] \in {"copy", "read"} => wtxn.oldest <= seen[r]
      BY <1>a, <1>d DEF ScanCovers
    <2> QED BY <2>1, <1>a, <1>d, StaysWhole DEF Announced
  <1>1. CASE ~Reading(r)
    <2>1. Kept(r)
      BY <1>1, <1>e, Cases, OthersKeep
    <2> QED BY <2>1, <1>a, <1>f DEF Kept, Announced
  <1>2. CASE StoreTxnid(r)
    <2>1. pc'[r] = "check"
      BY <1>2, <1>a, <1>e DEF StoreTxnid, Goto, PcTyped
    <2>2. table'[slot[r]].txnid = seen[r] /\ UNCHANGED <<slot, seen>>
      BY <1>2, <1>a, <1>d DEF StoreTxnid, TableTyped, readVars
    <2> QED BY <2>1, <2>2
  <1>3. CASE CheckTxnid(r)
    <2>1. /\ pc[r] = "check" /\ UNCHANGED <<table, slot, seen, metas, damaged>>
          /\ pc'[r] \in {"copy", "load"}
          /\ pc'[r] = "copy" => table[slot[r]].txnid = mti_txnid
      BY <1>3, <1>a, <1>e DEF CheckTxnid, Goto, PcTyped, lockVars, readVars, dataVars
    <2>2. table[slot[r]].txnid = seen[r]
      BY <2>1, <1>a DEF Announced
    <2>3. mti_txnid \in Nat /\ mti_txnid <= Newest /\ Newest <= mti_txnid + 1
      <3>1. \A f \in Envs : pc[f] # "share"
        BY <1>a, <1>e, <2>1, NobodyOpening DEF ReadPhases
      <3> QED BY <3>1, <1>a, Numbers DEF LastTxnKnown, TableTyped
    <2>4. \A t \in damaged : t < mti_txnid
      BY <1>a, <1>b, <2>3 DEF DamagedAreOld
    <2>5. Newest' = Newest
      BY <2>1 DEF Newest
    <2> QED BY <2>1, <2>2, <2>3, <2>4, <2>5
  <1>4. CASE CopyMeta(r)
    <2>1. /\ pc[r] = "copy" /\ UNCHANGED <<table, slot, seen>>
          /\ snap'[r] = metas[seen[r] % 2]
      BY <1>4, <1>a, <1>e DEF CopyMeta, lockVars, ReadTyped
    <2>2. seen[r] <= Newest /\ seen[r] % 2 \in {0, 1}
      BY <2>1, <1>a, <1>d, Parity DEF Announced
    <2>3. seen[r] <= metas[seen[r] % 2]
      <3>1. CASE seen[r] % 2 = Newest % 2
        BY <2>2, <3>1, <1>a, NewestInPlace
      <3>2. CASE seen[r] % 2 # Newest % 2
        <4>1. seen[r] # Newest
          BY <3>2
        <4>2. metas[seen[r] % 2] + 1 = Newest /\ metas[seen[r] % 2] \in Nat
          BY <2>2, <3>2, <1>a, NewestInPlace, Numbers DEF DataTyped
        <4>3. seen[r] \in Nat
          BY <1>d
        <4> QED BY <4>1, <4>2, <4>3, <2>2
      <3> QED BY <3>1, <3>2
    <2> QED BY <2>1, <2>3, <1>a, <1>f DEF Announced
  <1>5. CASE Reading(r) /\ ~StoreTxnid(r) /\ ~CheckTxnid(r) /\ ~CopyMeta(r)
    <2>1. pc'[r] \in {"load", "store", "close"}
      BY <1>5, <1>a, <1>e DEF Reading, ClaimSlot, BeginFails, LoadTxnid, EndRead, Goto, PcTyped
    <2> QED BY <2>1
  <1> QED BY <1>1, <1>2, <1>3, <1>4, <1>5

LEMMA ScanStep ==
  ASSUME OnePerProcess, ~DieOpening, EnvInductive, [Next]_vars
  PROVE  ScanCovers'
  <1>a. /\ Registered /\ Announced /\ ScanCovers /\ LastTxnKnown /\ MetasAlternate
        /\ LocksByPhase /\ PcTyped /\ TableTyped /\ ReadTyped /\ DataTyped /\ WriteTyped
    BY TypeParts DEF EnvInductive, AllPhases, Typed
  <1>b. App \in Envs /\ Readers \subseteq Envs
    BY DEF Envs
  <1>c. /\ mti_txnid \in Nat /\ wtxn.oldest \in Nat /\ wtxn.i \in Nat /\ numreaders \in Nat
        /\ \A r \in Readers : seen[r] \in Nat /\ slot[r] \in Slots /\ slot[r] \in Nat
    <2>1. mti_txnid \in Nat /\ numreaders \in Nat
      BY <1>a, Numbers, SlotNumbers DEF TableTyped
    <2>2. wtxn.oldest \in Nat /\ wtxn.i \in Nat
      BY <1>a, Numbers, SlotNumbers DEF WriteTyped
    <2>3. \A r \in Readers : seen[r] \in Nat /\ slot[r] \in Slots /\ slot[r] \in Nat
      BY <1>a, <1>b, Numbers DEF ReadTyped
    <2> QED BY <2>1, <2>2, <2>3
  <1>1. CASE pc'[App] \notin {"oldest", "scan"}
    BY <1>1 DEF ScanCovers
  <1>2. CASE BeginWrite
    <2>1. pc'[App] = "oldest" /\ wtxn'.oldest = mti_txnid' /\ mti_txnid' \in {mti_txnid, Newest}
      BY <1>2, <1>a, <1>b DEF BeginWrite, Goto, PcTyped
    <2>2. mti_txnid' \in Nat
      BY <2>1, <1>a, <1>c, NewestInPlace
    <2> QED BY <2>1, <2>2 DEF ScanCovers
  <1>3. CASE StartScan
    <2>1. /\ pc[App] = "oldest" /\ wtxn'.oldest = wtxn.oldest /\ wtxn'.i = numreaders
          /\ UNCHANGED <<mti_txnid, slot>>
      BY <1>3, <1>a DEF StartScan, WriteTyped, lockVars, readVars
    <2>2. \A r \in Readers : pc'[r] \in ReadPhases => slot[r] <= numreaders
      BY <1>3, <1>a, WriterMoves DEF Registered, Writing
    <2>3. \A r \in Readers : pc'[r] \in {"copy", "read"} => ~(wtxn'.i < slot'[r])
      BY <1>c, <2>1, <2>2 DEF ReadPhases
    <2> QED BY <1>a, <2>1, <2>3 DEF ScanCovers
  <1>4. CASE ScanSlot
    <2>1. /\ pc[App] = "scan" /\ UNCHANGED <<pc, mti_txnid, slot, seen>>
          /\ wtxn.i \in Nat \ {0} /\ wtxn'.i = wtxn.i - 1
          /\ wtxn'.oldest = IF table[wtxn.i].pid # NoPid /\ table[wtxn.i].txnid < wtxn.oldest
                            THEN table[wtxn.i].txnid ELSE wtxn.oldest
      BY <1>4, <1>a, <1>c DEF ScanSlot, WriteTyped, lockVars, readVars
    <2>2. wtxn.i \in Slots /\ table[wtxn.i].txnid \in Nat
      <3>1. wtxn.i \in Slots
        BY <2>1, <1>a, SlotNumbers DEF WriteTyped
      <3>2. table[wtxn.i].txnid \in Txns \cup {NoTxn}
        BY <3>1, <1>a DEF TableTyped
      <3> QED BY <3>1, <3>2, Numbers
    <2>3. wtxn'.oldest <= wtxn.oldest /\ wtxn'.oldest \in Nat
      BY <2>1, <2>2, <1>c
    <2>4. ASSUME NEW r \in Readers, pc[r] \in {"copy", "read"}, wtxn'.i < slot[r]
          PROVE  wtxn'.oldest <= seen[r]
      <3>1. CASE slot[r] = wtxn.i
        <4>1. table[wtxn.i].pid # NoPid /\ table[wtxn.i].txnid = seen[r]
          BY <2>4, <3>1, <1>a, <1>b, Numbers DEF Registered, Announced, ReadPhases
        <4> QED BY <2>1, <2>2, <4>1, <1>c
      <3>2. CASE slot[r] # wtxn.i
        <4>1. wtxn.i < slot[r]
          BY <2>1, <2>4, <3>2, <1>c
        <4>2. wtxn.oldest <= seen[r]
          BY <2>1, <2>4, <4>1, <1>a DEF ScanCovers
        <4> QED BY <2>3, <4>2, <1>c
      <3> QED BY <3>1, <3>2
    <2>5. wtxn'.oldest <= mti_txnid
      BY <2>1, <2>3, <1>a, <1>c DEF ScanCovers
    <2> QED BY <2>1, <2>4, <2>5 DEF ScanCovers
  <1>5. CASE /\ pc'[App] \in {"oldest", "scan"} /\ ~BeginWrite /\ ~StartScan /\ ~ScanSlot
    <2>1. pc[App] = pc'[App] /\ UNCHANGED <<mti_txnid, wtxn>>
      <3>1. ASSUME NEW e \in Envs, Attach(e) \/ Opening(e) \/ Closing(e)
            PROVE  pc[App] = pc'[App] /\ UNCHANGED <<mti_txnid, wtxn>>
        <4>1. pc[App] = pc'[App] /\ UNCHANGED wtxn /\ e # App
          BY <3>1, <1>5, <1>a, <1>b, EnvMoves DEF Phases
        <4>2. ~InitTable(e) /\ ~ShareLocks(e)
          <5>1. pc[e] \notin {"init", "share"}
            BY <4>1, <1>5, <1>a, <1>b, NobodyOpening DEF WritePhases
          <5> QED BY <5>1 DEF InitTable, ShareLocks
        <4> QED BY <3>1, <4>1, <4>2 DEF Attach, Opening, AttachShared, Closing, ClearSlots, LastOut,
                                      Detach, lockVars
      <3>2. ASSUME NEW r \in Readers, Reading(r)
            PROVE  pc[App] = pc'[App] /\ UNCHANGED <<mti_txnid, wtxn>>
        BY <3>2, <1>a, <1>b, ReaderMoves
      <3>3. ASSUME NEW p \in Crashing, Crash(p)
            PROVE  pc[App] = pc'[App] /\ UNCHANGED <<mti_txnid, wtxn>>
        BY <3>3, <1>5, <1>b DEF Crash
      <3>4. CASE Writing \/ AbortWrite \/ CloseApp
        <4>1. FlushPages \/ WriteMeta \/ Publish \/ AbortWrite \/ CloseApp
          BY <3>4, <1>5 DEF Writing
        <4>2. pc'[App] \in {"meta", "publish", "open", "close"}
          BY <4>1, <1>a, <1>b DEF FlushPages, WriteMeta, Publish, AbortWrite, CloseApp, Goto, PcTyped
        <4> QED BY <1>5, <4>2
      <3>5. CASE UNCHANGED vars
        BY <3>5 DEF vars, lockVars
      <3> QED BY <1>5, <3>1, <3>2, <3>3, <3>4, <3>5 DEF Next
    <2>2. ASSUME NEW r \in Readers, pc'[r] \in {"copy", "read"}, wtxn'.i < slot'[r], pc[App] = "scan"
          PROVE  wtxn.oldest <= seen'[r]
      <3>1. CASE ~Reading(r)
        <4>1. Kept(r)
          BY <2>2, <3>1, Cases, OthersKeep DEF ReadPhases
        <4> QED BY <4>1, <2>1, <2>2, <1>a DEF Kept, ScanCovers
      <3>2. CASE CheckTxnid(r)
        <4>1. seen'[r] = seen[r] /\ table[slot[r]].txnid = mti_txnid /\ pc[r] = "check"
          BY <3>2, <2>2, <1>a, <1>b DEF CheckTxnid, Goto, PcTyped, readVars
        <4> QED BY <4>1, <2>1, <2>2, <1>a DEF Announced, ScanCovers
      <3>3. CASE CopyMeta(r)
        <4>1. seen'[r] = seen[r] /\ slot'[r] = slot[r] /\ pc[r] = "copy"
          BY <3>3 DEF CopyMeta
        <4> QED BY <4>1, <2>1, <2>2, <1>a DEF ScanCovers
      <3>4. CASE Reading(r) /\ ~CheckTxnid(r) /\ ~CopyMeta(r)
        <4>1. pc'[r] \in {"load", "store", "check", "close"}
          BY <3>4, <1>a, <1>b DEF Reading, ClaimSlot, BeginFails, LoadTxnid, StoreTxnid, EndRead, Goto,
                                 PcTyped
        <4> QED BY <4>1, <2>2
      <3> QED BY <3>1, <3>2, <3>3, <3>4
    <2> QED BY <2>1, <2>2, <1>a DEF ScanCovers
  <1> QED BY <1>1, <1>2, <1>3, <1>4, <1>5

-----------------------------------------------------------------------------
LEMMA StepInductive ==
  ASSUME OnePerProcess, ~DieOpening, EnvInductive, [Next]_vars
  PROVE  EnvInductive'
  <1>1. PcTyped' /\ Typed'
    BY PcStep, TypingStep, TypeParts DEF EnvInductive, AllPhases
  <1>2. (EnvTypeOK /\ pc \in [Envs -> AllPhases])'
    BY <1>1 DEF EnvTypeOK, PcTyped, Typed, FileTyped, TableTyped, DataTyped, ReadTyped, WriteTyped
  <1>3. LocksByPhase' /\ MutexByPhase' /\ MetasAlternate' /\ LastTxnKnown'
    BY LocksStep, MutexStep, MetasStep
  <1>4. Registered' /\ Announced' /\ DamagedAreOld' /\ ScanCovers'
    BY RegisteredStep, AnnouncedStep, DamagedStep, ScanStep
  <1> QED BY <1>2, <1>3, <1>4 DEF EnvInductive, AllPhases

(* The invariant that carries the others, in every reachable state.        *)
THEOREM EnvInvariance ==
  ASSUME OnePerProcess, ~DieOpening
  PROVE  Spec => []EnvInductive
  <1>1. EnvInductive /\ [Next]_vars => EnvInductive'
    BY StepInductive
  <1> QED BY <1>1, InitInductive, PTL DEF Spec

(* However environments come, go and die, the lock file and what they      *)
(* remember of it stay within their declarations: no slot beyond the end   *)
(* of the reader table is written (mdb_txn_renew0, mdb_env_close0).        *)
THEOREM EnvTypes ==
  ASSUME OnePerProcess, ~DieOpening
  PROVE  Spec => []EnvTypeOK
  <1>1. EnvInductive => EnvTypeOK
    BY DEF EnvInductive
  <1> QED BY <1>1, EnvInvariance, PTL

(* No page a running read transaction can still reach is overwritten       *)
(* (mdb_find_oldest and mdb_page_alloc against mdb_txn_renew0).            *)
THEOREM SnapshotsKept ==
  ASSUME OnePerProcess, ~DieOpening
  PROVE  Spec => []SnapshotIntact
  <1>1. ASSUME EnvInductive PROVE SnapshotIntact
    <2> SUFFICES ASSUME NEW r \in Readers, pc[r] = "read", snap[r] \in damaged PROVE FALSE
      BY DEF SnapshotIntact
    <2>1. snap[r] < seen[r] /\ seen[r] <= snap[r]
      BY <1>1 DEF EnvInductive, Announced
    <2>2. snap[r] \in Nat /\ seen[r] \in Nat
      BY <1>1, TypeParts, Numbers DEF EnvInductive, AllPhases, Typed, ReadTyped, Envs
    <2> QED BY <2>1, <2>2
  <1> QED BY <1>1, EnvInvariance, PTL

(* Every running reader has a slot of its own that the writer looks at, at *)
(* or below the snapshot it reads.                                         *)
THEOREM ReadersCovered ==
  ASSUME OnePerProcess, ~DieOpening
  PROVE  Spec => []SlotsCoverReaders
  <1>1. ASSUME EnvInductive PROVE SlotsCoverReaders
    <2>1. Registered /\ Announced
      BY <1>1 DEF EnvInductive
    <2>2. \A r \in Readers : pc[r] = "read" => table[slot[r]].txnid <= snap[r]
      BY <2>1 DEF Announced
    <2>3. \A r \in Readers : \A q \in Readers \ {r} :
            pc[r] \in ReadPhases /\ pc[q] \in ReadPhases => slot[q] # slot[r]
      BY <2>1, OwnSlots
    <2> QED BY <2>1, <2>2, <2>3 DEF SlotsCoverReaders, Registered
  <1> QED BY <1>1, EnvInvariance, PTL

(* The commit a restart would find has lost no page, at any moment.        *)
THEOREM NewestWhole ==
  ASSUME OnePerProcess, ~DieOpening
  PROVE  Spec => []NewestIntact
  <1>1. ASSUME EnvInductive PROVE NewestIntact
    <2>1. Newest \in Nat
      BY <1>1, TypeParts, NewestInPlace DEF EnvInductive, AllPhases, Typed
    <2> QED BY <1>1, <2>1 DEF EnvInductive, DamagedAreOld, NewestIntact
  <1> QED BY <1>1, EnvInvariance, PTL
=============================================================================
