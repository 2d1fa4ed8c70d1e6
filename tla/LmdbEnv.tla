------------------------------ MODULE LmdbEnv -------------------------------
(***************************************************************************)
(* What the reader's snapshot rests on: the part of LMDB (dart/src/lmdb)   *)
(* that lets read transactions run beside the application's writer without *)
(* a lock.  Every call of the reader opens an environment of its own,      *)
(* begins one read transaction, walks, ends it and closes the environment. *)
(*                                                                         *)
(* The environments share the lock file: a table of readers, the id of the *)
(* last transaction, two mutexes, and fcntl() locks that say whether       *)
(* anyone else is attached.  fcntl() locks belong to a process, not to an  *)
(* environment.  The first one to attach initializes the table; the writer *)
(* recycles pages freed by transactions older than every reader it finds   *)
(* in the table.                                                           *)
(*                                                                         *)
(* A snapshot is named by the id of the transaction that committed it.     *)
(***************************************************************************)
EXTENDS Naturals, FiniteSets

CONSTANTS
  Readers,     \* the environments of reading calls
  App,         \* the environment of the application, the only writer
  Process,     \* the process of each environment
  MaxReaders,  \* the length of the reader table (me_maxreaders)
  MaxTxn,      \* bound: the last transaction the application commits
  Crashing,    \* the processes that may die
  DieOpening   \* also between the initialization of the table and its end

Envs == Readers \cup {App}
Processes == {Process[e] : e \in Envs}
NoPid == "none"   \* a slot without a pid is free

ASSUME EnvAssumption ==
  /\ App \notin Readers
  /\ DOMAIN Process = Envs /\ NoPid \notin Processes
  /\ MaxReaders \in Nat \ {0} /\ MaxTxn \in Nat \ {0}
  /\ Crashing \subseteq Processes /\ DieOpening \in BOOLEAN

VARIABLES
  pc,        \* where each environment is
  locks,     \* the fcntl() lock each process has on the lock file
  pidlocks,  \* the processes whose own byte of the lock file is locked
  mutex,     \* the mutexes in the lock file: "free", "held" by the writer,
             \* "dead" (their owner died), "destroyed"
  table,     \* mti_readers: the slots, [pid, txnid]
  numreaders,\* mti_numreaders
  mti_txnid, \* the last transaction, as the lock file has it
  metas,     \* the two meta pages of the data file
  slot,      \* the slot of each reader (txn->mt_u.reader)
  closing,   \* me_close_readers of each environment
  seen,      \* the id a reader has loaded and not stored yet
  snap,      \* the snapshot each reader reads
  wtxn,      \* the writer's transaction, [txnid, i, oldest]
  damaged    \* the snapshots some page of which has been overwritten

fileVars == <<locks, pidlocks>>
lockVars == <<mutex, table, numreaders, mti_txnid>>
dataVars == <<metas, damaged>>
readVars == <<slot, closing, seen, snap>>
vars == <<pc, fileVars, lockVars, dataVars, readVars, wtxn>>

Txns == 0..MaxTxn
NoTxn == MaxTxn + 1   \* (txnid_t)-1, above every transaction
Slots == 1..MaxReaders

Newest == IF metas[0] < metas[1] THEN metas[1] ELSE metas[0]   \* mdb_env_pick_meta

Goto(e, phase) == pc' = [pc EXCEPT ![e] = phase]

(* What a closed environment and an ended write transaction remember is    *)
(* never read again: one value stands for all of it.                       *)
Idle == [slot |-> 1, closing |-> 0, seen |-> 0, snap |-> 0]
NoWrite == [txnid |-> 0, i |-> 0, oldest |-> 0]

Forget(gone) ==
  /\ slot' = [e \in Envs |-> IF e \in gone THEN Idle.slot ELSE slot[e]]
  /\ closing' = [e \in Envs |-> IF e \in gone THEN Idle.closing ELSE closing[e]]
  /\ seen' = [e \in Envs |-> IF e \in gone THEN Idle.seen ELSE seen[e]]
  /\ snap' = [e \in Envs |-> IF e \in gone THEN Idle.snap ELSE snap[e]]

-----------------------------------------------------------------------------
(* mdb_env_open: attach to the lock file. *)

Others(p) == {q \in Processes \ {p} : locks[q] # "none"}
CanExclude(p) == Others(p) = {}
CanShare(p) == \A q \in Others(p) : locks[q] # "exclusive"

SetLock(e, kind) == locks' = [locks EXCEPT ![Process[e]] = kind]

(* mdb_env_excl_lock, its first fcntl(): who can exclude all others is     *)
(* taken to be the first.                                                  *)
Attach(e) ==
  /\ pc[e] = "closed"
  /\ IF CanExclude(Process[e])
     THEN SetLock(e, "exclusive") /\ Goto(e, "init")
     ELSE UNCHANGED locks /\ Goto(e, "wait")
  /\ UNCHANGED <<pidlocks, lockVars, dataVars, readVars, wtxn>>

AttachShared(e) ==
  /\ pc[e] = "wait" /\ CanShare(Process[e])
  /\ SetLock(e, "shared") /\ Goto(e, "open")
  /\ UNCHANGED <<pidlocks, lockVars, dataVars, readVars, wtxn>>

(* mdb_env_setup_locks.  The slots are left as they are.                   *)
InitTable(e) ==
  /\ pc[e] = "init"
  /\ mutex' = "free" /\ mti_txnid' = 0 /\ numreaders' = 0
  /\ Goto(e, "share")
  /\ UNCHANGED <<fileVars, table, dataVars, readVars, wtxn>>

ShareLocks(e) ==
  /\ pc[e] = "share"
  /\ mti_txnid' = Newest
  /\ SetLock(e, "shared") /\ Goto(e, "open")
  /\ UNCHANGED <<pidlocks, mutex, table, numreaders, dataVars, readVars, wtxn>>

-----------------------------------------------------------------------------
(* mdb_txn_begin of a reader: mdb_txn_renew0. *)

FreeSlots == {i \in 1..numreaders : table[i].pid = NoPid}
FirstFree ==
  IF FreeSlots = {} THEN numreaders + 1
  ELSE CHOOSE i \in FreeSlots : \A j \in FreeSlots : i <= j

(* Mutant: the table may grow by one slot too many.                        *)
ClaimSlotBeyond(r) ==
  /\ pc[r] = "open" /\ mutex # "destroyed" /\ FirstFree <= MaxReaders + 1
  /\ table' = [table EXCEPT ![FirstFree] = [pid |-> Process[r], txnid |-> NoTxn]]
  /\ numreaders' = IF FreeSlots = {} THEN numreaders + 1 ELSE numreaders
  /\ slot' = [slot EXCEPT ![r] = FirstFree]
  /\ closing' = [closing EXCEPT ![r] = numreaders']
  /\ pidlocks' = pidlocks \cup {Process[r]}
  /\ Goto(r, "load")
  /\ UNCHANGED <<locks, mutex, mti_txnid, dataVars, seen, snap, wtxn>>

(* Under the reader mutex; a mutex that is destroyed cannot be locked.     *)
ClaimSlot(r) ==
  /\ pc[r] = "open" /\ mutex # "destroyed" /\ FirstFree <= MaxReaders
  /\ table' = [table EXCEPT ![FirstFree] = [pid |-> Process[r], txnid |-> NoTxn]]
  /\ numreaders' = IF FreeSlots = {} THEN numreaders + 1 ELSE numreaders
  /\ slot' = [slot EXCEPT ![r] = FirstFree]
  /\ closing' = [closing EXCEPT ![r] = numreaders']
  /\ pidlocks' = pidlocks \cup {Process[r]}
  /\ Goto(r, "load")
  /\ UNCHANGED <<locks, mutex, mti_txnid, dataVars, seen, snap, wtxn>>

(* Mutant: only a full table is an error.                                  *)
FailsWhenFull(r) ==
  /\ pc[r] = "open" /\ mutex # "destroyed" /\ FirstFree > MaxReaders
  /\ pidlocks' = pidlocks \cup {Process[r]}
  /\ Goto(r, "close")
  /\ UNCHANGED <<locks, lockVars, dataVars, readVars, wtxn>>

BeginFails(r) ==
  /\ pc[r] = "open" /\ (mutex = "destroyed" \/ FirstFree > MaxReaders)
  /\ pidlocks' = pidlocks \cup {Process[r]}
  /\ Goto(r, "close")
  /\ UNCHANGED <<locks, lockVars, dataVars, readVars, wtxn>>

(* do r->mr_txnid = ti->mti_txnid; while (r->mr_txnid != ti->mti_txnid);   *)
LoadTxnid(r) ==
  /\ pc[r] = "load"
  /\ seen' = [seen EXCEPT ![r] = mti_txnid]
  /\ Goto(r, "store")
  /\ UNCHANGED <<fileVars, lockVars, dataVars, slot, closing, snap, wtxn>>

StoreTxnid(r) ==
  /\ pc[r] = "store"
  /\ table' = [table EXCEPT ![slot[r]].txnid = seen[r]]
  /\ Goto(r, "check")
  /\ UNCHANGED <<fileVars, mutex, numreaders, mti_txnid, dataVars, readVars, wtxn>>

CheckTxnid(r) ==
  /\ pc[r] = "check"
  /\ Goto(r, IF table[slot[r]].txnid = mti_txnid THEN "copy" ELSE "load")
  /\ UNCHANGED <<fileVars, lockVars, dataVars, readVars, wtxn>>

(* meta = env->me_metas[txn->mt_txnid & 1]; the writer may have come by.   *)
CopyMeta(r) ==
  /\ pc[r] = "copy"
  /\ snap' = [snap EXCEPT ![r] = metas[seen[r] % 2]]
  /\ Goto(r, "read")
  /\ UNCHANGED <<fileVars, lockVars, dataVars, slot, closing, seen, wtxn>>

(* mdb_txn_abort.  The slot stays the environment's.                       *)
EndRead(r) ==
  /\ pc[r] = "read"
  /\ table' = [table EXCEPT ![slot[r]].txnid = NoTxn]
  /\ Goto(r, "close")
  /\ UNCHANGED <<fileVars, mutex, numreaders, mti_txnid, dataVars, readVars, wtxn>>

-----------------------------------------------------------------------------
(* mdb_env_close. *)

(* Mutant: whoever owns them.                                              *)
ClearAllSlots(e) ==
  /\ pc[e] = "close"
  /\ table' = [i \in Slots |-> IF i <= closing[e] THEN [table[i] EXCEPT !.pid = NoPid]
                               ELSE table[i]]
  /\ Goto(e, "last")
  /\ UNCHANGED <<fileVars, mutex, numreaders, mti_txnid, dataVars, readVars, wtxn>>

(* The slots of the whole process, below me_close_readers.                 *)
ClearSlots(e) ==
  /\ pc[e] = "close"
  /\ table' = [i \in Slots |->
                 IF i <= closing[e] /\ table[i].pid = Process[e]
                 THEN [table[i] EXCEPT !.pid = NoPid] ELSE table[i]]
  /\ Goto(e, "last")
  /\ UNCHANGED <<fileVars, mutex, numreaders, mti_txnid, dataVars, readVars, wtxn>>

(* Who can exclude all others destroys the mutexes.                        *)
LastOut(e) ==
  /\ pc[e] = "last"
  /\ \/ /\ CanExclude(Process[e])
        /\ SetLock(e, "exclusive") /\ mutex' = "destroyed"
     \/ /\ ~CanExclude(Process[e]) /\ CanShare(Process[e])
        /\ SetLock(e, "shared") /\ UNCHANGED mutex
  /\ Goto(e, "detach")
  /\ UNCHANGED <<pidlocks, table, numreaders, mti_txnid, dataVars, readVars, wtxn>>

(* close(env->me_lfd) gives up every lock the process has on the file.     *)
Detach(e) ==
  /\ pc[e] = "detach"
  /\ SetLock(e, "none")
  /\ pidlocks' = pidlocks \ {Process[e]}
  /\ Forget({e})
  /\ Goto(e, "closed")
  /\ UNCHANGED <<lockVars, dataVars, wtxn>>

-----------------------------------------------------------------------------
(* The application's write transactions. *)

(* mdb_txn_begin: lock the writer mutex, taking it over from a dead owner  *)
(* (mdb_mutex_failed), which also clears the slots of dead processes.      *)
Alive(pid) == pid \in pidlocks \cup {Process[App]}

(* Mutant: the last transaction is taken from the lock file as it is.      *)
BeginWriteStale ==
  /\ pc[App] = "open" /\ Newest < MaxTxn /\ mutex \in {"free", "dead"}
  /\ mutex' = "held"
  /\ wtxn' = [txnid |-> mti_txnid + 1, i |-> 0, oldest |-> mti_txnid]
  /\ Goto(App, "oldest")
  /\ UNCHANGED <<fileVars, table, mti_txnid, numreaders, dataVars, readVars>>

BeginWrite ==
  /\ pc[App] = "open" /\ Newest < MaxTxn
  /\ \/ mutex = "free" /\ UNCHANGED <<table, mti_txnid>>
     \/ /\ mutex = "dead"
        /\ mti_txnid' = Newest
        /\ table' = [i \in Slots |->
                       IF i <= numreaders /\ table[i].pid # NoPid /\ ~Alive(table[i].pid)
                       THEN [table[i] EXCEPT !.pid = NoPid] ELSE table[i]]
  /\ mutex' = "held"
  /\ wtxn' = [txnid |-> mti_txnid' + 1, i |-> 0, oldest |-> mti_txnid']
  /\ Goto(App, "oldest")
  /\ UNCHANGED <<fileVars, numreaders, dataVars, readVars>>

(* Mutant: the last slot is left out.                                      *)
ScanFromOneBelow ==
  /\ pc[App] = "oldest"
  /\ wtxn' = [wtxn EXCEPT !.i = IF numreaders = 0 THEN 0 ELSE numreaders - 1]
  /\ Goto(App, "scan")
  /\ UNCHANGED <<fileVars, lockVars, dataVars, readVars>>

(* mdb_find_oldest, slot by slot and without the reader mutex.             *)
StartScan ==
  /\ pc[App] = "oldest"
  /\ wtxn' = [wtxn EXCEPT !.i = numreaders]
  /\ Goto(App, "scan")
  /\ UNCHANGED <<fileVars, lockVars, dataVars, readVars>>

ScanSlot ==
  /\ pc[App] = "scan" /\ wtxn.i > 0
  /\ wtxn' = [wtxn EXCEPT
       !.i = wtxn.i - 1,
       !.oldest = IF table[wtxn.i].pid # NoPid /\ table[wtxn.i].txnid < wtxn.oldest
                  THEN table[wtxn.i].txnid ELSE wtxn.oldest]
  /\ UNCHANGED <<pc, fileVars, lockVars, dataVars, readVars>>

(* The commit the transaction started from: metas[mti_txnid & 1].          *)
Base == metas[(wtxn.txnid + 1) % 2]

(* The transactions up to which mdb_page_alloc may have taken the freed     *)
(* pages; 0 where it has taken none.                                       *)
Recyclable == {0} \cup {t \in Txns : t < wtxn.oldest}

(* mdb_page_flush overwrites the pages freed by transactions up to          *)
(* recycled: the snapshots before that transaction held them.  New pages   *)
(* are those after the last page of the commit the transaction started     *)
(* from; a newer commit loses its own.                                     *)
FlushPages ==
  /\ pc[App] = "scan" /\ wtxn.i = 0
  /\ \E recycled \in Recyclable :
       damaged' = damaged \cup {t \in Txns : t < recycled}
                          \cup {t \in {metas[0], metas[1]} : t > Base}
  /\ Goto(App, "meta")
  /\ UNCHANGED <<fileVars, lockVars, metas, readVars, wtxn>>

WriteMeta ==
  /\ pc[App] = "meta"
  /\ metas' = [metas EXCEPT ![wtxn.txnid % 2] = wtxn.txnid]
  /\ damaged' = damaged \ {wtxn.txnid}
  /\ Goto(App, "publish")
  /\ UNCHANGED <<fileVars, lockVars, readVars, wtxn>>

Publish ==
  /\ pc[App] = "publish"
  /\ mti_txnid' = wtxn.txnid
  /\ mutex' = "free"
  /\ wtxn' = NoWrite
  /\ Goto(App, "open")
  /\ UNCHANGED <<fileVars, table, numreaders, dataVars, readVars>>

(* The application aborts, or a write fails before the meta page.          *)
AbortWrite ==
  /\ pc[App] \in {"oldest", "scan", "meta"}
  /\ mutex' = "free"
  /\ wtxn' = NoWrite
  /\ Goto(App, "open")
  /\ UNCHANGED <<fileVars, table, numreaders, mti_txnid, dataVars, readVars>>

CloseApp ==
  /\ pc[App] = "open"
  /\ Goto(App, "close")
  /\ UNCHANGED <<fileVars, lockVars, dataVars, readVars, wtxn>>

-----------------------------------------------------------------------------
(* A process dies: its locks are gone, its slots stay.                     *)
Crash(p) ==
  /\ \E e \in Envs : Process[e] = p /\ pc[e] # "closed"
  /\ DieOpening \/ \A e \in Envs : Process[e] = p => pc[e] # "share"
  /\ pc' = [e \in Envs |-> IF Process[e] = p THEN "closed" ELSE pc[e]]
  /\ locks' = [locks EXCEPT ![p] = "none"]
  /\ pidlocks' = pidlocks \ {p}
  /\ Forget({e \in Envs : Process[e] = p})
  /\ mutex' = IF p = Process[App] /\ mutex = "held" THEN "dead" ELSE mutex
  /\ wtxn' = IF p = Process[App] THEN NoWrite ELSE wtxn
  /\ UNCHANGED <<table, numreaders, mti_txnid, dataVars>>

Init ==
  /\ pc = [e \in Envs |-> "closed"]
  /\ locks = [p \in Processes |-> "none"]
  /\ pidlocks = {}
  /\ mutex = "destroyed"
  /\ table = [i \in Slots |-> [pid |-> NoPid, txnid |-> NoTxn]]
  /\ numreaders = 0
  /\ mti_txnid = 0
  /\ metas = [m \in {0, 1} |-> m]
  /\ slot = [e \in Envs |-> Idle.slot]
  /\ closing = [e \in Envs |-> Idle.closing]
  /\ seen = [e \in Envs |-> Idle.seen]
  /\ snap = [e \in Envs |-> Idle.snap]
  /\ wtxn = NoWrite
  /\ damaged = {}

(* What an environment does on its own once it has been asked to.          *)
Opening(e) == AttachShared(e) \/ InitTable(e) \/ ShareLocks(e)
Closing(e) == ClearSlots(e) \/ LastOut(e) \/ Detach(e)
Reading(r) ==
  \/ ClaimSlot(r) \/ BeginFails(r) \/ LoadTxnid(r) \/ StoreTxnid(r)
  \/ CheckTxnid(r) \/ CopyMeta(r) \/ EndRead(r)
Writing == StartScan \/ ScanSlot \/ FlushPages \/ WriteMeta \/ Publish

Next ==
  \/ \E e \in Envs : Attach(e) \/ Opening(e) \/ Closing(e)
  \/ \E r \in Readers : Reading(r)
  \/ BeginWrite \/ Writing \/ AbortWrite \/ CloseApp
  \/ \E p \in Crashing : Crash(p)

(* A thread inside a call runs on, and the kernel grants a lock to whoever *)
(* waits for it while others come and go.  Nobody has to make a call.      *)
Spec ==
  /\ Init /\ [][Next]_vars
  /\ \A e \in Envs : SF_vars(AttachShared(e))
  /\ \A e \in Envs : WF_vars(Opening(e) \/ Closing(e))
  /\ \A r \in Readers : WF_vars(Reading(r))
  /\ WF_vars(Writing)
-----------------------------------------------------------------------------
(* Properties. *)

Phases == {"closed", "wait", "init", "share", "open", "close", "last", "detach"}
ReadPhases == {"load", "store", "check", "copy", "read"}
WritePhases == {"oldest", "scan", "meta", "publish"}

(* The lock file and the environments hold what their declarations allow;  *)
(* in particular no slot beyond the end of the reader table is in use.     *)
EnvTypeOK ==
  /\ \A r \in Readers : pc[r] \in Phases \cup ReadPhases
  /\ pc[App] \in Phases \cup WritePhases
  /\ locks \in [Processes -> {"none", "shared", "exclusive"}]
  /\ pidlocks \subseteq Processes
  /\ mutex \in {"free", "held", "dead", "destroyed"}
  /\ table \in [Slots -> [pid : Processes \cup {NoPid}, txnid : Txns \cup {NoTxn}]]
  /\ numreaders \in 0..MaxReaders /\ closing \in [Envs -> 0..MaxReaders]
  /\ slot \in [Envs -> Slots]
  /\ mti_txnid \in Txns /\ metas \in [{0, 1} -> Txns]
  /\ seen \in [Envs -> Txns] /\ snap \in [Envs -> Txns]
  /\ wtxn \in [txnid : Txns, i : 0..MaxReaders, oldest : Txns \cup {NoTxn}]
  /\ damaged \subseteq Txns

(* Nothing a reading call can still look at is overwritten, whatever the   *)
(* application commits and whoever comes, goes or dies meanwhile: the      *)
(* snapshot that the walk of LmdbReader takes for granted.                 *)
SnapshotIntact ==
  \A r \in Readers : pc[r] = "read" => snap[r] \notin damaged

(* Every running read transaction is in the table the writer looks at, in  *)
(* a slot of its own, at or below the snapshot it reads.                   *)
SlotsCoverReaders ==
  \A r \in Readers :
    /\ pc[r] \in ReadPhases =>
         /\ slot[r] <= numreaders
         /\ table[slot[r]].pid = Process[r]
         /\ \A q \in Readers \ {r} : pc[q] \in ReadPhases => slot[q] # slot[r]
    /\ pc[r] = "read" => table[slot[r]].txnid <= snap[r]

(* The commit that a restart would find is whole at every moment, also     *)
(* after the application died in the middle of a commit and came back.     *)
NewestIntact == Newest \notin damaged

(***************************************************************************)
(* Why the three invariants above hold if every environment has a process  *)
(* of its own and nobody dies between the two stores of mti_txnid: the     *)
(* conjuncts below carry each other from step to step.                     *)
(***************************************************************************)
OnePerProcess == \A e, f \in Envs : Process[e] = Process[f] => e = f

LockOf(e) == locks[Process[e]]

(* An exclusive lock is held alone, by who initializes the lock file or    *)
(* destroys the mutexes.                                                   *)
LocksByPhase ==
  \A e \in Envs :
    /\ pc[e] \in {"closed", "wait"} <=> LockOf(e) = "none"
    /\ pc[e] \in {"init", "share"} => LockOf(e) = "exclusive"
    /\ LockOf(e) = "exclusive" =>
         /\ pc[e] \in {"init", "share", "detach"}
         /\ \A f \in Envs \ {e} : LockOf(f) = "none"

MutexByPhase == mutex = "held" <=> pc[App] \in WritePhases

(* The meta pages hold the last two transactions, each in its own place.   *)
MetasAlternate ==
  /\ metas[0] % 2 = 0 /\ metas[1] % 2 = 1
  /\ metas[0] = metas[1] + 1 \/ metas[1] = metas[0] + 1

(* The lock file is at most one transaction behind, and only while its     *)
(* owner publishes it or after he died doing so.                           *)
LastTxnKnown ==
  /\ (\A e \in Envs : pc[e] # "share") =>
       /\ mti_txnid <= Newest /\ Newest <= mti_txnid + 1
       /\ mutex = "free" => mti_txnid = Newest
  /\ pc[App] \in {"oldest", "scan", "meta"} =>
       mti_txnid = Newest /\ wtxn.txnid = Newest + 1
  /\ pc[App] = "publish" => mti_txnid + 1 = Newest /\ wtxn.txnid = Newest

Registered ==
  \A r \in Readers : pc[r] \in ReadPhases =>
    /\ slot[r] <= numreaders
    /\ table[slot[r]].pid = Process[r]
    /\ Process[r] \in pidlocks

(* A reader past its retry loop has announced a transaction no overwritten *)
(* snapshot reaches.                                                       *)
Announced ==
  \A r \in Readers :
    /\ pc[r] \in {"check", "copy", "read"} => table[slot[r]].txnid = seen[r]
    /\ pc[r] \in {"copy", "read"} =>
         seen[r] <= Newest /\ \A t \in damaged : t < seen[r]
    /\ pc[r] = "read" => seen[r] <= snap[r]

DamagedAreOld == \A t \in damaged : t + 1 < Newest

(* The writer's bound: below every reader whose slot it has passed.        *)
ScanCovers ==
  /\ pc[App] \in {"oldest", "scan"} => wtxn.oldest <= mti_txnid
  /\ pc[App] = "scan" =>
       \A r \in Readers :
         pc[r] \in {"copy", "read"} /\ wtxn.i < slot[r] => wtxn.oldest <= seen[r]

EnvInductive ==
  /\ pc \in [Envs -> Phases \cup ReadPhases \cup WritePhases] /\ EnvTypeOK
  /\ LocksByPhase /\ MutexByPhase
  /\ MetasAlternate /\ LastTxnKnown
  /\ Registered /\ Announced /\ DamagedAreOld /\ ScanCovers

(* Every call comes to its end and leaves the environment closed, the ones *)
(* that find the table full or the mutexes destroyed included.             *)
CallsEnd == \A r \in Readers : pc[r] # "closed" ~> pc[r] = "closed"
=============================================================================
