------------------------------- MODULE Dumper -------------------------------
(***************************************************************************)
(* One caller of ob_dump() / ob_dump_stream(), one call after the other,   *)
(* while the application that owns the store goes on committing to it:     *)
(* dumpToJson and dumpStreaming over a LmdbReader, and the try/catch of    *)
(* the C entry points.                                                     *)
(***************************************************************************)
EXTENDS LmdbReader, ObDocument

CONSTANT Operations   \* the entry points in use

ASSUME OperationsAssumption == Operations \subseteq {"dump", "stream"}

VARIABLES
  pc,       \* where the call is
  call,     \* its arguments, [op, model]
  result,   \* dumpToJson's result object: entity name -> records
  out,      \* the records handed to dumpStreaming's callback
  stopped,  \* the callback asked to stop
  ret       \* what the last call returned, [rc, json]

callVars == <<pc, call, result, out, stopped, ret>>
vars == <<readerVars, callVars>>

Phases == {"idle", "parse", "create", "stat", "open", "begin", "dbi", "first",
           "visit", "callback", "next", "end"}
Errors == {"schema", "env_create", "stat", "env_open", "txn_begin", "dbi_open",
           "cursor", "corrupt", "badUtf8"}

schema == Parse(call.model)
NoJson == <<>>
NoReturn == [rc |-> "none", json |-> NoJson]

-----------------------------------------------------------------------------
(* decodeObject, the id and the relations: one record of the output.       *)
Record(k) ==
  LET entity == schema[EntityId(k)]
  IN  [entity |-> EntityId(k),
       name   |-> entity.name,
       id     |-> ObjectId(k),
       body   |-> BodyAt(snap, k),
       rels   |-> [n \in RelationNames(entity) |->
                     toManyTargets(RelationNamed(entity, n), ObjectId(k))]]

(* result[entity->name].push_back(obj)                                     *)
Grouped(groups, rec) ==
  [n \in DOMAIN groups \cup {rec.name} |->
     IF n = rec.name
     THEN Append(IF n \in DOMAIN groups THEN groups[n] ELSE <<>>, rec)
     ELSE groups[n]]

-----------------------------------------------------------------------------
(* The entry point.  An exception becomes NULL (or -1) and an error        *)
(* message; json is the document of a successful ob_dump.                  *)
Return(rc, json) ==
  /\ pc' = "idle"
  /\ ret' = [rc |-> rc, json |-> json]
  /\ result' = <<>>
  /\ UNCHANGED <<call, out, stopped>>

Fail(error) == error \in Errors /\ Return(error, NoJson)

Goto(phase) ==
  /\ pc' = phase
  /\ UNCHANGED <<call, result, out, stopped, ret>>

Call ==
  /\ pc = "idle"
  /\ \E op \in Operations, m \in Models : call' = [op |-> op, model |-> m]
  /\ pc' = "parse"
  /\ result' = <<>>
  /\ out' = <<>>
  /\ stopped' = FALSE
  /\ ret' = NoReturn
  /\ UNCHANGED readerVars

ParseSchema ==
  /\ pc = "parse"
  /\ UNCHANGED readerVars
  /\ IF call.model.ok THEN Goto("create") ELSE Fail("schema")

-----------------------------------------------------------------------------
(* LmdbReader reader(mdbPath) *)

CreateEnv ==
  /\ pc = "create"
  /\ \/ EnvCreate /\ Goto("stat")
     \/ "env_create" \in Faults /\ ThrowBeforeOpen /\ Fail("env_create")

StatPath ==
  /\ pc = "stat"
  /\ \/ UNCHANGED readerVars /\ Goto("open")
     \/ "stat" \in Faults /\ ThrowBeforeOpen /\ Fail("stat")

OpenEnv ==
  /\ pc = "open"
  /\ \/ EnvOpen /\ Goto("begin")
     \/ "env_open" \in Faults /\ ThrowFromOpen /\ Fail("env_open")

BeginTxn ==
  /\ pc = "begin"
  /\ \/ TxnBegin /\ Goto("dbi")
     \/ "txn_begin" \in Faults /\ ThrowFromOpen /\ Fail("txn_begin")

OpenDbi ==
  /\ pc = "dbi"
  /\ \/ UNCHANGED readerVars /\ Goto("first")
     \/ "dbi_open" \in Faults /\ ThrowFromOpen /\ Fail("dbi_open")

-----------------------------------------------------------------------------
(* reader.forEachObject(...) *)

OpenCursor ==
  /\ pc = "first"
  /\ \/ CursorFirst /\ Goto("visit")
     \/ "cursor" \in Faults /\ Destroy /\ Fail("cursor")

AtRecord == pc = "visit" /\ cur # NotFound

(* Schema entries, links, unknown key types, and objects of an entity the  *)
(* model does not know.                                                    *)
Skipped(k) == ~IsDataKey(k) \/ EntityId(k) \notin DOMAIN schema

Skip ==
  /\ AtRecord /\ Skipped(cur)
  /\ UNCHANGED readerVars
  /\ Goto("next")

(* decodeObject, the lookup of the relations, or (streaming) the           *)
(* serialization of the record throws through the walk.                    *)
RecordThrows ==
  /\ AtRecord /\ ~Skipped(cur)
  /\ Destroy
  /\ \/ BodyAt(snap, cur) = "corrupt" /\ Fail("corrupt")
     \/ /\ "cursor" \in Faults /\ BodyAt(snap, cur) # "corrupt"
        /\ RelationNames(schema[EntityId(cur)]) # {}
        /\ Fail("cursor")
     \/ call.op = "stream" /\ BodyAt(snap, cur) = "badUtf8" /\ Fail("badUtf8")

Collect ==
  /\ AtRecord /\ ~Skipped(cur) /\ BodyAt(snap, cur) # "corrupt"
  /\ call.op = "dump"
  /\ result' = Grouped(result, Record(cur))
  /\ pc' = "next"
  /\ UNCHANGED <<call, out, stopped, ret, readerVars>>

(* The callback is running with the record.                                *)
Deliver ==
  /\ AtRecord /\ ~Skipped(cur) /\ BodyAt(snap, cur) = "good"
  /\ call.op = "stream"
  /\ out' = Append(out, Record(cur))
  /\ pc' = "callback"
  /\ UNCHANGED <<call, result, stopped, ret, readerVars>>

(* Mutant: the walk does not step on from a delivered record.              *)
CallbackRepeats ==
  /\ pc = "callback"
  /\ UNCHANGED readerVars
  /\ Goto("visit")

CallbackContinues ==
  /\ pc = "callback"
  /\ UNCHANGED readerVars
  /\ Goto("next")

CallbackStops ==
  /\ pc = "callback"
  /\ UNCHANGED readerVars
  /\ pc' = "end"
  /\ stopped' = TRUE
  /\ UNCHANGED <<call, result, out, ret>>

Advance ==
  /\ pc = "next"
  /\ \/ CursorNext /\ Goto("visit")
     \/ "cursor" \in Faults /\ CursorCloseAndDestroy /\ Fail("cursor")

EndOfWalk ==
  /\ pc = "visit" /\ cur = NotFound
  /\ UNCHANGED readerVars
  /\ Goto("end")

(* result.dump(2) serializes everything at once, and only now meets a      *)
(* string that is not UTF-8.                                               *)
Serializable ==
  \A n \in DOMAIN result : \A i \in DOMAIN result[n] : result[n][i].body = "good"

Finish ==
  /\ pc = "end"
  /\ CursorCloseAndDestroy
  /\ \/ call.op = "stream" /\ Return("ok", NoJson)
     \/ call.op = "dump" /\ Serializable /\ Return("ok", result)
     \/ call.op = "dump" /\ ~Serializable /\ Fail("badUtf8")

-----------------------------------------------------------------------------
Init ==
  /\ ReaderInit
  /\ pc = "idle"
  /\ call \in [op : Operations, model : Models]
  /\ result = <<>>
  /\ out = <<>>
  /\ stopped = FALSE
  /\ ret = NoReturn

Write == Commit /\ UNCHANGED callVars

DumpStep ==
  \/ ParseSchema \/ CreateEnv \/ StatPath \/ OpenEnv \/ BeginTxn \/ OpenDbi
  \/ OpenCursor \/ Skip \/ RecordThrows \/ Collect \/ Deliver
  \/ CallbackContinues \/ CallbackStops \/ Advance \/ EndOfWalk \/ Finish

Next == Call \/ DumpStep \/ Write

(* The thread that made the call runs on, and its callback returns.  No    *)
(* fairness for new calls or for the application's commits.                *)
Spec == Init /\ [][Next]_vars /\ WF_vars(DumpStep)

-----------------------------------------------------------------------------
(* Properties. *)

Rcs == Errors \cup {"none", "ok"}

(* The state is what the declarations of LmdbReader and of the two dump    *)
(* functions allow.                                                        *)
TypeOK ==
  /\ db \in Databases /\ snap \in Databases
  /\ handles \subseteq Handles /\ leaked \subseteq Handles
  /\ cur \in Keys[snap] \cup {NotFound}
  /\ pc \in Phases
  /\ call \in [op : Operations, model : Models]
  /\ stopped \in BOOLEAN
  /\ ret.rc \in Rcs

(* Whatever fails, and wherever, no call returns with an environment open  *)
(* or a transaction running: those would keep files, the map and a slot of *)
(* the lock table, and hold back the application's page reuse for good.    *)
(* What a failing call can lose is memory only (an environment never       *)
(* opened, a cursor of an aborted transaction).                            *)
NothingStaysOpen ==
  /\ pc = "idle" => handles = {}
  /\ leaked \cap {"open", "txn"} = {}

(* The inductive invariant behind the two invariants above and below: the  *)
(* handles of each phase, and where the cursor is with respect to the      *)
(* records already delivered.                                              *)
HandlesByPhase ==
  /\ pc \in {"idle", "parse", "create"} => handles = {}
  /\ pc \in {"stat", "open"} => handles = {"env"}
  /\ pc = "begin" => handles = {"env", "open"}
  /\ pc \in {"dbi", "first"} => handles = {"env", "open", "txn"}
  /\ pc \in {"visit", "callback", "next", "end"} => handles = Handles
  /\ "cursor" \notin handles => cur = NotFound
  /\ leaked \subseteq {"env", "cursor"}

KeyOf(rec) == DataKey(rec.entity, rec.id)
CursorAhead ==
  /\ out \in Seq({out[i] : i \in DOMAIN out})
  /\ \A i \in DOMAIN out : out[i].entity \in ShortIds /\ out[i].id \in UInt32
  /\ "cursor" \notin handles /\ pc # "idle" => out = <<>>
  /\ pc = "visit" /\ cur # NotFound =>
       \A i \in DOMAIN out : KeyLess(KeyOf(out[i]), cur)
  /\ pc \in {"callback", "next"} =>
       /\ cur # NotFound
       /\ \A i \in DOMAIN out : KeyOf(out[i]) = cur \/ KeyLess(KeyOf(out[i]), cur)

(* Whatever the writer has committed, the keys of two objects stand where  *)
(* their ids put them (writeUint32BE), which makes the records of one      *)
(* entity neighbours in a plain walk.                                      *)
OrderFollowsIds ==
  \A o, p \in db.objects : KeysFollowIds(o.entity, o.id, p.entity, p.id)

(* Whatever the writer has committed, the reader's decoders give back the  *)
(* ids of every object, and no schema entry or link is taken for one.      *)
DecodersInvert ==
  /\ \A o \in db.objects : KeyKeepsIds(o.entity, o.id)
  /\ \A k \in SchemaKeys(db) \cup LinkKeys(db) : ~IsDataKey(k)

(* A call that succeeds, an early stop included, loses nothing at all.     *)
OnlyFailuresLeak == [][leaked' # leaked => ret'.rc \in Errors]_vars

(* The callback sees the records grouped by entity, the entities and the   *)
(* objects of one entity in strictly ascending order: what the command     *)
(* line's bracket handling relies on.                                      *)
Precedes(r, s) ==
  \/ r.entity < s.entity
  \/ r.entity = s.entity /\ r.id < s.id
StreamAscends ==
  \A i, j \in DOMAIN out : i < j => Precedes(out[i], out[j])

Inductive == TypeOK /\ HandlesByPhase /\ CursorAhead /\ StreamAscends

(* Every call returns.                                                     *)
CallsReturn == (pc # "idle") ~> (pc = "idle")

(* The two entry points do what DumpService promises.                      *)
Service == INSTANCE DumpService WITH
  MayFail <- Faults # {},
  base    <- snap,
  phase   <- IF pc = "idle" THEN "idle"
             ELSE IF pc \in {"parse", "create", "stat", "open", "begin"}
             THEN "called" ELSE "reading"
ImplementsService == Service!Spec

(* The invariant behind the refinement: what the call has gathered is the  *)
(* beginning of what it has to produce, as far as the cursor has come.     *)
Known == {o \in snap.objects : o.entity \in DOMAIN schema}
Behind ==
  {o \in Known : \/ cur = NotFound \/ KeyLess(KeyOf(o), cur)
                 \/ pc \in {"callback", "next"} /\ KeyOf(o) = cur}
Walked == [i \in 1..Cardinality(Behind) |-> Service!Expected[i]]

GatheredInOrder ==
  pc \in {"visit", "callback", "next", "end"} /\ ~stopped =>
    IF call.op = "stream"
    THEN out = Walked /\ \A i \in DOMAIN Walked : Walked[i].body = "good"
    ELSE /\ result = Service!GroupsOf(Walked)
         /\ \A i \in DOMAIN Walked : Walked[i].body # "corrupt"

(* Where a call stands: a rejected model goes no further, only a callback  *)
(* that has been given a record stops, and the walk ends past the last key.*)
CallShape ==
  /\ pc \notin {"idle", "parse"} => call.model.ok
  /\ stopped => pc \in {"end", "idle"} /\ call.op = "stream"
  /\ pc = "callback" => call.op = "stream" /\ out # <<>>
  /\ pc \in {"parse", "create", "stat", "open", "begin", "dbi", "first"} => result = <<>>
  /\ pc = "end" /\ ~stopped => cur = NotFound

ServiceInductive == Inductive /\ CallShape /\ GatheredInOrder
=============================================================================
