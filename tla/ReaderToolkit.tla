---------------------------- MODULE ReaderToolkit ---------------------------
(***************************************************************************)
(* The reader packages: readObjectBoxRecords and readToManyTargets of the  *)
(* Dart package (lmdb_root_walk.dart), and their Python (sync and asyncio) *)
(* and JavaScript counterparts.  Every call opens the store for itself,    *)
(* walks it with one cursor, and closes what it opened in reverse order,   *)
(* by try/finally or a with statement, however it ends.                    *)
(*                                                                         *)
(* The handles of a call are a stack.  One caller makes one call after     *)
(* another while the application commits.  In the asyncio functions the    *)
(* steps of the cursor and the callback are awaits, at which the task may  *)
(* be cancelled.                                                           *)
(***************************************************************************)
EXTENDS ObStore, SequencesExt

CONSTANTS
  Apis,      \* the packages of this instance: "dart", "python", "aio", "js"
  Lookups    \* the [relation, source] callers ask the targets of

(* A caller asks by ids the key format has room for.                       *)
ASSUME LookupsAssumption == Lookups \subseteq [relation : ShortIds, source : UInt32]

VARIABLES
  db,        \* the committed state of the database
  pc,        \* "idle", "opening", "at" the key cur, "done" with it, "closing"
  call,      \* [api, fn, lookup]
  open,      \* the open handles, the last opened last
  snap, cur, \* what the read transaction sees, and the key under the cursor
  got,       \* the records given to the callback, or the targets so far
  outcome,   \* "none", "ok" or "raised"
  seen       \* the states that were current at some instant of the call

vars == <<db, pc, call, open, snap, cur, got, outcome, seen>>

KeysOf == [d \in Databases |-> Image(d)]

(* A JavaScript range iterates with a transaction and cursor of its own.   *)
Handles == {"env", "txn", "cursor", "range"}
Stack(api) == IF api = "js" THEN <<"env", "range">> ELSE <<"env", "txn", "cursor">>

Records == [entity : ShortIds, id : UInt32, body : Bodies]

NoLookup == [relation |-> 0, source |-> 0]
Calls ==
  [api : Apis, fn : {"records"}, lookup : {NoLookup}]
    \cup [api : Apis, fn : {"targets"}, lookup : Lookups]

Init ==
  /\ db \in Databases /\ snap = db /\ seen = {db}
  /\ pc = "idle" /\ open = <<>> /\ cur = NotFound /\ got = <<>>
  /\ call \in Calls /\ outcome = "none"

(* The application replaces the committed state.                           *)
Commit ==
  /\ db' \in Databases \ {db}
  /\ seen' = IF pc = "idle" THEN seen ELSE seen \cup {db'}
  /\ UNCHANGED <<pc, call, open, snap, cur, got, outcome>>

Begin ==
  /\ pc = "idle"
  /\ call' \in Calls
  /\ pc' = "opening" /\ got' = <<>> /\ outcome' = "none" /\ seen' = {db}
  /\ UNCHANGED <<db, open, snap, cur>>

-----------------------------------------------------------------------------
Leave(how) ==
  /\ pc' = "closing" /\ outcome' = how
  /\ UNCHANGED <<db, call, open, snap, cur, got, seen>>

AllOpen == Len(open) = Len(Stack(call.api))

(* Mutant: the transaction of an earlier call serves this one.             *)
OpenNextCached ==
  /\ pc = "opening" /\ ~AllOpen
  /\ open' = Append(open, Stack(call.api)[Len(open) + 1])
  /\ UNCHANGED <<db, pc, call, snap, cur, got, outcome, seen>>

(* The second handle begins the read transaction.                          *)
OpenNext ==
  /\ pc = "opening" /\ ~AllOpen
  /\ open' = Append(open, Stack(call.api)[Len(open) + 1])
  /\ snap' = IF Len(open) = 1 THEN db ELSE snap
  /\ UNCHANGED <<db, pc, call, cur, got, outcome, seen>>

(* A call of LMDB fails: opening, the first step of the cursor, or a later *)
(* one.                                                                    *)
CallFails == pc \in {"opening", "done"} /\ Leave("raised")

Prefix == RelationPrefix(call.lookup.relation, kRelationDirectionForward, call.lookup.source)

(* Where the walk of a relation begins: Dart looks for a key of 12 bytes,  *)
(* the others for the prefix.                                              *)
SeekKey == IF call.api = "dart" THEN Prefix \o writeUint32BE(0) ELSE Prefix

MoveTo(keys) ==
  /\ \E k \in keys \cup {NotFound} : CursorLands(keys, k) /\ cur' = k
  /\ pc' = "at"
  /\ UNCHANGED <<db, call, open, snap, got, outcome, seen>>

First ==
  /\ pc = "opening" /\ AllOpen /\ call.fn = "records"
  /\ MoveTo(KeysOf[snap])

SetRange ==
  /\ pc = "opening" /\ AllOpen /\ call.fn = "targets"
  /\ MoveTo({k \in KeysOf[snap] : k = SeekKey \/ KeyLess(SeekKey, k)})

(* Only Dart asks for the length of a relation key.                        *)
IsLink(k) == HasPrefix(k, Prefix) /\ (call.api = "dart" => Len(k) = 12)

Yield(item) ==
  /\ got' = Append(got, item)
  /\ pc' = "done"
  /\ UNCHANGED <<db, call, open, snap, cur, outcome, seen>>

AtKey(fn) == pc = "at" /\ cur # NotFound /\ call.fn = fn

Skip ==
  /\ AtKey("records") /\ ~IsDataKey(cur)
  /\ pc' = "done"
  /\ UNCHANGED <<db, call, open, snap, cur, got, outcome, seen>>

(* The callback gets the record, and may raise.                            *)
OnRecord ==
  /\ AtKey("records") /\ IsDataKey(cur)
  /\ Yield([entity |-> EntityId(cur), id |-> ObjectId(cur), body |-> BodyAt(snap, cur)])

CallbackRaises ==
  /\ pc = "done" /\ call.fn = "records" /\ IsDataKey(cur)
  /\ Leave("raised")

AddTarget ==
  /\ AtKey("targets") /\ IsLink(cur)
  /\ Yield(readUint32BE(cur, 9))

(* Mutant: the loop goes round without a step after a key it skips.        *)
AdvanceUnlessSkipped ==
  /\ pc = "done"
  /\ IF call.fn = "records" /\ ~IsDataKey(cur)
     THEN MoveTo({cur})
     ELSE MoveTo({k \in KeysOf[snap] : KeyLess(cur, k)})

Advance ==
  /\ pc = "done"
  /\ MoveTo({k \in KeysOf[snap] : KeyLess(cur, k)})

EndOfWalk ==
  /\ pc = "at"
  /\ cur = NotFound \/ (call.fn = "targets" /\ ~IsLink(cur))
  /\ Leave("ok")

(* An asyncio task is cancelled at an await: opening, stepping, or in the  *)
(* callback.  The environment is opened without one.                       *)
Cancelled ==
  /\ pc \in {"opening", "at", "done"} /\ call.api = "aio" /\ open # <<>>
  /\ Leave("raised")

(* Mutant: the environment is closed first.                                *)
CloseFirst ==
  /\ pc = "closing" /\ open # <<>>
  /\ open' = Tail(open)
  /\ UNCHANGED <<db, pc, call, snap, cur, got, outcome, seen>>

CloseLast ==
  /\ pc = "closing" /\ open # <<>>
  /\ open' = Front(open)
  /\ UNCHANGED <<db, pc, call, snap, cur, got, outcome, seen>>

Return ==
  /\ pc = "closing" /\ open = <<>>
  /\ pc' = "idle" /\ cur' = NotFound
  /\ UNCHANGED <<db, call, open, snap, got, outcome, seen>>

-----------------------------------------------------------------------------
Work ==
  \/ OpenNext \/ CallFails \/ First \/ SetRange \/ Skip \/ OnRecord
  \/ CallbackRaises \/ AddTarget \/ Advance \/ EndOfWalk \/ CloseLast \/ Return

Next == Begin \/ Work \/ Cancelled \/ Commit

(* The event loop, or the thread, goes on with a call; nobody has to call, *)
(* cancel or commit.                                                       *)
Spec == Init /\ [][Next]_vars /\ WF_vars(Work)

-----------------------------------------------------------------------------
(* Every variable has its type: what a call gives out are ids the format   *)
(* has room for (readUint32BE, key[3] ~/ 4), its cursor is on a key of its *)
(* snapshot.                                                               *)
ToolkitTypeOK ==
  /\ db \in Databases /\ snap \in Databases /\ seen \subseteq Databases
  /\ pc \in {"idle", "opening", "at", "done", "closing"}
  /\ call \in Calls /\ outcome \in {"none", "ok", "raised"}
  /\ cur = NotFound \/ cur \in KeysOf[snap]
  /\ got \in Seq(IF call.fn = "records" THEN Records ELSE UInt32)

(* The finally blocks and with statements: at every instant the open       *)
(* handles are the first ones of the package's order, so no transaction    *)
(* outlives its environment and no cursor its transaction; a call that has *)
(* returned, raised or was cancelled has left nothing open.                *)
HandlesNest ==
  /\ IsPrefix(open, Stack(call.api))
  /\ pc = "idle" => open = <<>>
  /\ pc \in {"at", "done"} => AllOpen

RecordLess(o, p) == o.entity < p.entity \/ (o.entity = p.entity /\ o.id < p.id)

Targets(d) ==
  {l.target : l \in {m \in d.links : m.relation = call.lookup.relation
                                        /\ m.source = call.lookup.source}}

(* What a store holds, without keys: its objects in the order of entity    *)
(* and id, the targets of a relation's source in ascending order.          *)
Answer(d) ==
  IF call.fn = "records" THEN Ascending(d.objects, RecordLess)
  ELSE Ascending(Targets(d), <)

(* Every package's call takes effect at one instant between its beginning  *)
(* and its end: what it has given out is the beginning of the answer of    *)
(* one state that was current in between, and a call that returns has      *)
(* given out all of it.                                                    *)
AnswersOfOneState ==
  \E d \in seen :
    /\ IsPrefix(got, Answer(d))
    /\ outcome = "ok" => got = Answer(d)

-----------------------------------------------------------------------------
(* The inductive invariant behind these three: what a walk has given out   *)
(* so far is, in order, what its cursor has left behind.                   *)
Items(d) == IF call.fn = "records" THEN d.objects ELSE Targets(d)
KeyOf(x) ==
  IF call.fn = "records" THEN DataKey(x.entity, x.id)
  ELSE RelationKey(call.lookup.relation, kRelationDirectionForward, call.lookup.source, x)

(* The items the cursor has passed, the one under it once it is done with. *)
Behind ==
  {x \in Items(snap) :
     cur = NotFound \/ KeyLess(KeyOf(x), cur) \/ (pc = "done" /\ KeyOf(x) = cur)}

GivenInOrder ==
  pc \in {"at", "done"} => /\ Len(got) = Cardinality(Behind)
                           /\ \A i \in 1..Len(got) : got[i] = Answer(snap)[i]

(* The current state is one the call has seen, and so is its snapshot once *)
(* the transaction has begun.                                              *)
SnapshotSeen ==
  /\ pc # "idle" => db \in seen
  /\ pc = "opening" /\ Len(open) >= 2 => snap \in seen
  /\ pc \in {"at", "done"} => snap \in seen

(* Nothing is given out or decided before the walk, which begins at the    *)
(* key it looks for and never goes back behind it.                         *)
WalkShape ==
  /\ open \in Seq(Handles)
  /\ pc \in {"idle", "opening"} => cur = NotFound
  /\ pc = "opening" => got = <<>>
  /\ pc \in {"opening", "at", "done"} => outcome = "none"
  /\ pc = "done" => cur # NotFound
  /\ pc \in {"at", "done"} /\ call.fn = "targets" /\ cur # NotFound =>
       cur = SeekKey \/ KeyLess(SeekKey, cur)

ToolkitInductive ==
  /\ ToolkitTypeOK /\ HandlesNest /\ SnapshotSeen /\ WalkShape /\ GivenInOrder
  /\ pc \in {"closing", "idle"} => AnswersOfOneState

(* Every call comes to an end, by returning or raising.                    *)
CallsReturn == [](pc # "idle" => <>(pc = "idle"))
=============================================================================
