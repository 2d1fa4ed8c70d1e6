----------------------------- MODULE LmdbReader -----------------------------
(***************************************************************************)
(* class LmdbReader: a read-only LMDB environment with one read            *)
(* transaction, walked by a cursor.  The module gives the reader's state   *)
(* and its steps; Dumper runs them.                                        *)
(*                                                                         *)
(* An exception leaves the reader through Throw: the destructor of a fully *)
(* constructed reader aborts the transaction and closes the environment,   *)
(* and nothing closes the cursor of a walk that an exception leaves.  The  *)
(* destructor of a reader whose constructor throws does not run at all.    *)
(***************************************************************************)
EXTENDS ObStore

CONSTANT Faults   \* the LMDB or file-system calls that may fail in this instance

FaultPoints == {"env_create", "stat", "env_open", "txn_begin", "dbi_open", "cursor"}

ASSUME FaultsAssumption == Faults \subseteq FaultPoints

VARIABLES
  db,        \* the committed state of the database
  handles,   \* the LMDB handles the reader holds: "env" (created), "open"
             \* (mdb_env_open succeeded: files, map, lock table), "txn", "cursor"
  leaked,    \* handles nobody will ever release
  snap,      \* the database state the read transaction sees
  cur        \* the key under the walking cursor, or NotFound

(* The keys of each database state, in constant form.                      *)
Keys == [d \in Databases |-> Image(d)]

readerVars == <<db, handles, leaked, snap, cur>>

Handles == {"env", "open", "txn", "cursor"}

ReaderInit ==
  /\ db \in Databases
  /\ handles = {}
  /\ leaked = {}
  /\ snap = db
  /\ cur = NotFound

(* The application commits a write transaction while the reader runs.      *)
Commit ==
  /\ db' \in Databases \ {db}
  /\ UNCHANGED <<handles, leaked, snap, cur>>

-----------------------------------------------------------------------------
(* The constructor, one step per call that can fail. *)

Acquire(h) == handles' = handles \cup {h} /\ UNCHANGED <<db, leaked, cur>>

(* Mutant: the cursor outlives its transaction.                            *)
ReleaseKeepingCursor(released) ==
  /\ handles' = {}
  /\ leaked' = leaked \cup (handles \ released)
  /\ UNCHANGED <<db, snap, cur>>

(* The handles in released are closed, the others are lost.                *)
Release(released) ==
  /\ handles' = {}
  /\ leaked' = leaked \cup (handles \ released)
  /\ cur' = NotFound
  /\ UNCHANGED <<db, snap>>

EnvCreate == Acquire("env") /\ UNCHANGED snap
EnvOpen   == Acquire("open") /\ UNCHANGED snap
TxnBegin  == Acquire("txn") /\ snap' = db

(* check() and isRegularFile() throw with env_ created and nothing opened. *)
ThrowBeforeOpen == Release({})
(* Mutant: they do not close the environment.                              *)
ThrowFromOpenWithoutClose == Release({"txn"})

(* The failures of mdb_env_open, mdb_txn_begin, mdb_dbi_open clean up.     *)
ThrowFromOpen == Release({"env", "open", "txn"})

(* ~LmdbReader, at the end of the call or while an exception unwinds it.   *)
Destroy == Release({"env", "open", "txn"})

-----------------------------------------------------------------------------
(* forEachObject. *)

CursorFirst ==
  /\ handles' = handles \cup {"cursor"}
  /\ \E k \in Keys[snap] \cup {NotFound} :
       CursorLands(Keys[snap], k) /\ cur' = k
  /\ UNCHANGED <<db, leaked, snap>>

(* Mutants: the walk renews its transaction between two records, to hold   *)
(* no pages back; it advances with MDB_SET_RANGE from the key it is on.    *)
CursorNextRenewing ==
  /\ \E k \in Keys[db] \cup {NotFound} :
       CursorLands({j \in Keys[db] : KeyLess(cur, j)}, k) /\ cur' = k
  /\ snap' = db
  /\ UNCHANGED <<db, handles, leaked>>

CursorNextSetRange ==
  /\ \E k \in Keys[snap] \cup {NotFound} :
       CursorLands({j \in Keys[snap] : j = cur \/ KeyLess(cur, j)}, k) /\ cur' = k
  /\ UNCHANGED <<db, handles, leaked, snap>>

CursorNext ==
  /\ \E k \in Keys[snap] \cup {NotFound} :
       CursorLands({j \in Keys[snap] : KeyLess(cur, j)}, k) /\ cur' = k
  /\ UNCHANGED <<db, handles, leaked, snap>>

(* Mutant: an early stop or the end of the walk forgets the cursor.        *)
DestroyOnly == Release({"env", "open", "txn"})

(* The walk is over, stopped early, or mdb_cursor_get failed: the cursor   *)
(* is closed, then ~LmdbReader runs.                                       *)
CursorCloseAndDestroy == Release(Handles)

-----------------------------------------------------------------------------
(* toManyTargets(relationId, source): seek to the least key with the       *)
(* forward prefix, collect while keys of 12 bytes have the prefix.  It     *)
(* uses the reader's own transaction.                                      *)
WalkLinks(keys, relationId, source) ==
  LET prefix == RelationPrefix(relationId, kRelationDirectionForward, source)
      seek   == prefix \o writeUint32BE(0)
      after  == {k \in keys : k = seek \/ KeyLess(seek, k)}
  IN  {k \in after : \A j \in after :
         j = k \/ KeyLess(j, k) => Len(j) = Len(seek) /\ HasPrefix(j, prefix)}

(* Mutant: the lookup opens a transaction of its own.                      *)
targetsOfOwnTxn(relationId, source) ==
  LET walked == Ascending(WalkLinks(Keys[db], relationId, source), KeyLess)
  IN  [i \in DOMAIN walked |-> readUint32BE(walked[i], 9)]

toManyTargets(relationId, source) ==
  LET walked == Ascending(WalkLinks(Keys[snap], relationId, source), KeyLess)
  IN  [i \in DOMAIN walked |-> readUint32BE(walked[i], 9)]
=============================================================================
