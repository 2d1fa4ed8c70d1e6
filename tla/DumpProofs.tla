----------------------------- MODULE DumpProofs -----------------------------
(***************************************************************************)
(* Theorems about a dump, for every set of stores, models and faults, in   *)
(* three parts.                                                            *)
(*                                                                         *)
(* Dumper: its state is well-typed, no call leaves an environment or a     *)
(* transaction behind, a call reads one snapshot, and the stream ascends.  *)
(*                                                                         *)
(* DumpService: the dump implements the safety part of its service.  What  *)
(* the two entry points hand out are the records of one committed state,   *)
(* every one of them with all its links and in order, or an error with a   *)
(* reason.  The argument is GatheredInOrder: after each step of the cursor *)
(* the call has gathered the records of the objects behind it.             *)
(*                                                                         *)
(* CliJson: the output of the Command is at every moment the beginning of  *)
(* the one document of the snapshot, and the exit code says whether it is  *)
(* whole.                                                                  *)
(***************************************************************************)
EXTENDS CliJson, ObKeysProofs

-----------------------------------------------------------------------------
LEMMA InitInductive == Init => Inductive
  <1> SUFFICES ASSUME Init PROVE Inductive
    OBVIOUS
  <1>1. TypeOK
    BY DEF Init, ReaderInit, TypeOK, Handles, Phases, NoReturn, Rcs
  <1>2. HandlesByPhase
    BY DEF Init, ReaderInit, HandlesByPhase
  <1>3. CursorAhead
    BY DEF Init, ReaderInit, CursorAhead
  <1>4. StreamAscends
    BY DEF Init, StreamAscends
  <1> QED BY <1>1, <1>2, <1>3, <1>4 DEF Inductive

-----------------------------------------------------------------------------
(* However a call ends, the reader is gone and what it lost was harmless.  *)
LEMMA Ending ==
  ASSUME TypeOK, HandlesByPhase, NEW rc \in Rcs, NEW json, Return(rc, json),
         NEW released, Release(released), handles \ released \subseteq {"env", "cursor"}
  PROVE  TypeOK' /\ HandlesByPhase'
  <1>1. /\ handles' = {} /\ pc' = "idle" /\ cur' = NotFound
        /\ leaked' \subseteq {"env", "cursor"}
    BY DEF Release, Return, HandlesByPhase
  <1>2. HandlesByPhase'
    BY <1>1 DEF HandlesByPhase
  <1>3. ret'.rc \in Rcs
    BY DEF Return
  <1>4. leaked' \subseteq Handles
    BY <1>1 DEF Handles
  <1>5. TypeOK'
    BY <1>1, <1>3, <1>4 DEF TypeOK, Release, Return, Phases
  <1> QED BY <1>2, <1>5

LEMMA Failing ==
  ASSUME TypeOK, HandlesByPhase, NEW error, Fail(error),
         NEW released, Release(released), handles \ released \subseteq {"env", "cursor"}
  PROVE  TypeOK' /\ HandlesByPhase'
  BY Ending DEF Fail, Rcs

(* Typing and handles, action by action. *)
LEMMA TypingStep == TypeOK /\ HandlesByPhase /\ [Next]_vars => TypeOK' /\ HandlesByPhase'
  <1> SUFFICES ASSUME TypeOK, HandlesByPhase, [Next]_vars
               PROVE  TypeOK' /\ HandlesByPhase'
    OBVIOUS
  <1>1. CASE Call
    <2>1. call' \in [op : Operations, model : Models]
      BY <1>1 DEF Call
    <2>2. pc' = "parse" /\ stopped' = FALSE /\ ret'.rc = "none" /\ UNCHANGED readerVars
      BY <1>1 DEF Call, NoReturn
    <2>3. TypeOK'
      BY <2>1, <2>2 DEF TypeOK, readerVars, Phases, Rcs
    <2> QED BY <1>1, <2>2, <2>3 DEF Call, HandlesByPhase, readerVars
  <1>2. CASE ParseSchema
    BY <1>2 DEF ParseSchema, TypeOK, HandlesByPhase, Goto, Fail, Return, Phases, Rcs, readerVars
  <1>3. CASE CreateEnv
    <2>1. CASE EnvCreate /\ Goto("stat")
      BY <1>3, <2>1 DEF CreateEnv, TypeOK, HandlesByPhase, Goto, Phases, EnvCreate, Acquire, Handles
    <2>2. CASE ThrowBeforeOpen /\ Fail("env_create")
      BY <1>3, <2>2, Failing DEF CreateEnv, HandlesByPhase, ThrowBeforeOpen
    <2> QED BY <1>3, <2>1, <2>2 DEF CreateEnv
  <1>4. CASE StatPath
    <2>1. CASE UNCHANGED readerVars /\ Goto("open")
      BY <1>4, <2>1 DEF StatPath, TypeOK, HandlesByPhase, Goto, Phases, readerVars
    <2>2. CASE ThrowBeforeOpen /\ Fail("stat")
      BY <1>4, <2>2, Failing DEF StatPath, HandlesByPhase, ThrowBeforeOpen
    <2> QED BY <1>4, <2>1, <2>2 DEF StatPath
  <1>5. CASE OpenEnv
    <2>1. CASE EnvOpen /\ Goto("begin")
      BY <1>5, <2>1 DEF OpenEnv, TypeOK, HandlesByPhase, Goto, Phases, EnvOpen, Acquire, Handles
    <2>2. CASE ThrowFromOpen /\ Fail("env_open")
      BY <1>5, <2>2, Failing DEF OpenEnv, HandlesByPhase, ThrowFromOpen
    <2> QED BY <1>5, <2>1, <2>2 DEF OpenEnv
  <1>6. CASE BeginTxn
    <2>1. CASE TxnBegin /\ Goto("dbi")
      BY <1>6, <2>1 DEF BeginTxn, TypeOK, HandlesByPhase, Goto, Phases, TxnBegin, Acquire, Handles
    <2>2. CASE ThrowFromOpen /\ Fail("txn_begin")
      BY <1>6, <2>2, Failing DEF BeginTxn, HandlesByPhase, ThrowFromOpen
    <2> QED BY <1>6, <2>1, <2>2 DEF BeginTxn
  <1>7. CASE OpenDbi
    <2>1. CASE UNCHANGED readerVars /\ Goto("first")
      BY <1>7, <2>1 DEF OpenDbi, TypeOK, HandlesByPhase, Goto, Phases, readerVars
    <2>2. CASE ThrowFromOpen /\ Fail("dbi_open")
      BY <1>7, <2>2, Failing DEF OpenDbi, HandlesByPhase, ThrowFromOpen
    <2> QED BY <1>7, <2>1, <2>2 DEF OpenDbi
  <1>8. CASE OpenCursor
    <2>1. CASE CursorFirst /\ Goto("visit")
      BY <1>8, <2>1 DEF OpenCursor, TypeOK, HandlesByPhase, Goto, Phases, CursorFirst, Handles, Keys
    <2>2. CASE Destroy /\ Fail("cursor")
      BY <1>8, <2>2, Failing DEF OpenCursor, HandlesByPhase, Destroy
    <2> QED BY <1>8, <2>1, <2>2 DEF OpenCursor
  <1>9. CASE Skip
    BY <1>9 DEF Skip, TypeOK, HandlesByPhase, Goto, Phases, readerVars, AtRecord
  <1>10. CASE RecordThrows
    <2>1. Destroy /\ \E error \in Errors : Fail(error)
      BY <1>10 DEF RecordThrows, Fail
    <2> QED BY <1>10, <2>1, Failing DEF RecordThrows, AtRecord, HandlesByPhase, Handles, Destroy
  <1>11. CASE Collect
    BY <1>11 DEF Collect, TypeOK, HandlesByPhase, Goto, Phases, readerVars, AtRecord
  <1>12. CASE Deliver
    BY <1>12 DEF Deliver, TypeOK, HandlesByPhase, Goto, Phases, readerVars, AtRecord
  <1>13. CASE CallbackContinues
    BY <1>13 DEF CallbackContinues, TypeOK, HandlesByPhase, Goto, Phases, readerVars
  <1>14. CASE CallbackStops
    BY <1>14 DEF CallbackStops, TypeOK, HandlesByPhase, Goto, Phases, readerVars
  <1>15. CASE Advance
    <2>1. CASE CursorNext /\ Goto("visit")
      BY <1>15, <2>1 DEF Advance, TypeOK, HandlesByPhase, Goto, Phases, CursorNext, Keys, Handles
    <2>2. CASE CursorCloseAndDestroy /\ Fail("cursor")
      BY <1>15, <2>2, Failing DEF Advance, HandlesByPhase, CursorCloseAndDestroy
    <2> QED BY <1>15, <2>1, <2>2 DEF Advance
  <1>16. CASE EndOfWalk
    BY <1>16 DEF EndOfWalk, TypeOK, HandlesByPhase, Goto, Phases, readerVars
  <1>17. CASE Finish
    <2>1. CursorCloseAndDestroy /\ \E rc \in Rcs : \E json : Return(rc, json)
      BY <1>17 DEF Finish, Fail, Rcs
    <2> QED BY <2>1, Ending DEF CursorCloseAndDestroy, TypeOK
  <1>18. CASE Write
    BY <1>18 DEF Write, Commit, callVars, TypeOK, HandlesByPhase
  <1>19. CASE UNCHANGED vars
    BY <1>19 DEF vars, callVars, readerVars, TypeOK, HandlesByPhase
  <1> QED BY <1>1, <1>2, <1>3, <1>4, <1>5, <1>6, <1>7, <1>8, <1>9, <1>10, <1>11,
             <1>12, <1>13, <1>14, <1>15, <1>16, <1>17, <1>18, <1>19
          DEF Next, DumpStep

-----------------------------------------------------------------------------
(* The stream. *)

(* A record the walk stands on is that of an object of the snapshot.       *)
LEMMA UnderCursor ==
  ASSUME Inductive, AtRecord, ~Skipped(cur)
  PROVE  /\ EntityId(cur) \in ShortIds /\ ObjectId(cur) \in UInt32
         /\ cur = DataKey(EntityId(cur), ObjectId(cur))
  <1>1. IsDatabase(snap) /\ cur \in Image(snap)
    BY DatabasesAssumption DEF Inductive, TypeOK, AtRecord, Keys
  <1>2. PICK o \in snap.objects : cur = DataKey(o.entity, o.id)
    BY <1>1, ImageKeys DEF Skipped
  <1>3. o.entity \in ShortIds /\ o.id \in UInt32
    BY <1>1 DEF IsDatabase
  <1>4. EntityId(cur) = o.entity /\ ObjectId(cur) = o.id
    BY <1>2, <1>3, KeysKeepIds DEF KeyKeepsIds
  <1> QED BY <1>2, <1>3, <1>4

(* The keys that take part in comparisons are sequences of numbers.        *)
LEMMA KeysAreSequences ==
  ASSUME Inductive
  PROVE  /\ \A k \in Keys[snap] : k \in Seq(Nat)
         /\ \A i \in DOMAIN out : KeyOf(out[i]) \in Seq(Nat)
  <1>1. \A k \in Keys[snap] : k \in Seq(Nat)
    BY DatabasesAssumption, ImageKeys DEF Inductive, TypeOK, Keys
  <1>2. ASSUME NEW e \in ShortIds, NEW v \in UInt32
        PROVE  DataKey(e, v) \in Seq(Nat)
    <2>1. PICK a, b, c, d \in Byte : CodedBy(e, v, a, b, c, d)
      BY DataKeyShape
    <2> QED BY <2>1, SMT DEF CodedBy, Byte, ShortIds
  <1> QED BY <1>1, <1>2 DEF Inductive, CursorAhead, KeyOf

(* Handing a record over keeps the order. *)
LEMMA DeliverKeeps ==
  ASSUME Inductive, Deliver
  PROVE  CursorAhead' /\ StreamAscends'
  <1> DEFINE rec == Record(cur)
             S == {out[i] : i \in DOMAIN out} \cup {rec}
  <1>1. /\ rec.entity \in ShortIds /\ rec.id \in UInt32
        /\ KeyOf(rec) = cur
    BY UnderCursor DEF Deliver, Record, KeyOf
  <1>2. pc = "visit" /\ cur # NotFound /\ out' = Append(out, rec) /\ pc' = "callback"
        /\ cur' = cur /\ handles' = handles
    BY DEF Deliver, AtRecord, readerVars
  <1>3. out \in Seq(S)
    BY DEF Inductive, CursorAhead
  <1> HIDE DEF rec
  <1>4. /\ out' \in Seq(S) /\ Len(out') = Len(out) + 1 /\ Len(out) \in Nat
        /\ \A i \in 1..Len(out) : out'[i] = out[i]
        /\ out'[Len(out) + 1] = rec
        /\ DOMAIN out = 1..Len(out) /\ DOMAIN out' = 1..(Len(out) + 1)
    BY <1>2, <1>3, AppendProperties
  <1>5. \A i \in DOMAIN out : KeyLess(KeyOf(out[i]), cur)
    BY <1>2 DEF Inductive, CursorAhead
  <1>6. CursorAhead'
    <2>1. out' \in Seq({out'[i] : i \in DOMAIN out'})
      BY <1>4
    <2>2. \A i \in DOMAIN out' : out'[i].entity \in ShortIds /\ out'[i].id \in UInt32
      BY <1>1, <1>4 DEF Inductive, CursorAhead
    <2>3. \A i \in DOMAIN out' : KeyOf(out'[i]) = cur \/ KeyLess(KeyOf(out'[i]), cur)
      BY <1>1, <1>4, <1>5
    <2>4. "cursor" \in handles
      BY <1>2 DEF Inductive, HandlesByPhase, Handles
    <2> QED BY <1>2, <2>1, <2>2, <2>3, <2>4 DEF CursorAhead, KeyOf
  <1>7. StreamAscends'
    <2>1. ASSUME NEW i \in DOMAIN out PROVE Precedes(out[i], rec)
      <3>1. KeyLess(DataKey(out[i].entity, out[i].id), DataKey(rec.entity, rec.id))
        BY <1>1, <1>5 DEF KeyOf
      <3>2. out[i].entity \in ShortIds /\ out[i].id \in UInt32
        BY DEF Inductive, CursorAhead
      <3> QED BY <1>1, <3>1, <3>2, KeyOrder DEF KeysFollowIds, Precedes
    <2>2. ASSUME NEW i \in DOMAIN out', NEW j \in DOMAIN out', i < j
          PROVE  Precedes(out'[i], out'[j])
      <3>1. CASE j \in DOMAIN out
        BY <1>4, <2>2, <3>1 DEF Inductive, StreamAscends
      <3>2. CASE j = Len(out) + 1
        BY <1>4, <2>1, <2>2, <3>2
      <3> QED BY <1>4, <3>1, <3>2
    <2> QED BY <2>2 DEF StreamAscends, Precedes
  <1> QED BY <1>6, <1>7

(* Moving the cursor keeps what was delivered behind it. *)
LEMMA AdvanceKeeps ==
  ASSUME Inductive, pc = "next", CursorNext, Goto("visit")
  PROVE  CursorAhead'
  <1>1. /\ out' = out /\ pc' = "visit" /\ handles' = handles /\ pc = "next"
        /\ \A i \in DOMAIN out : KeyOf(out[i]) = cur \/ KeyLess(KeyOf(out[i]), cur)
    BY DEF Goto, CursorNext, Inductive, CursorAhead
  <1>2. cur' = NotFound \/ (cur' \in Keys[snap] /\ KeyLess(cur, cur'))
    BY DEF CursorNext, CursorLands
  <1>3. cur \in Keys[snap]
    BY DEF Inductive, TypeOK, CursorAhead
  <1>4. cur' # NotFound => \A i \in DOMAIN out : KeyLess(KeyOf(out[i]), cur')
    BY <1>1, <1>2, <1>3, KeysAreSequences, KeyLessTransitive
  <1> QED BY <1>1, <1>4 DEF Inductive, CursorAhead, KeyOf

(* Every other step leaves the records delivered alone, and the cursor     *)
(* where it is or closed.                                                  *)
LEMMA StreamStep == Inductive /\ [Next]_vars => CursorAhead' /\ StreamAscends'
  <1> SUFFICES ASSUME Inductive, [Next]_vars
               PROVE  CursorAhead' /\ StreamAscends'
    OBVIOUS
  <1>1. CASE Call
    BY <1>1 DEF Call, CursorAhead, StreamAscends
  <1>2. CASE Deliver
    BY <1>2, DeliverKeeps
  <1>3. ASSUME out' = out, handles' = handles, cur' = cur,
               pc' \notin {"visit", "callback", "next"},
               pc # "idle" \/ pc' = "idle"
        PROVE  CursorAhead' /\ StreamAscends'
    BY <1>3 DEF Inductive, CursorAhead, StreamAscends, Precedes, KeyOf
  <1>4. ASSUME out' = out, pc' = "idle"
        PROVE  CursorAhead' /\ StreamAscends'
    BY <1>4 DEF Inductive, CursorAhead, StreamAscends, Precedes, KeyOf
  <1>5. ASSUME out' = out, out = <<>>, pc' \notin {"callback", "next"}
        PROVE  CursorAhead' /\ StreamAscends'
    BY <1>5 DEF CursorAhead, StreamAscends
  <1>6. CASE ParseSchema
    BY <1>3, <1>4, <1>6 DEF ParseSchema, Goto, Fail, Return, readerVars
  <1>7. ASSUME pc \in {"parse", "create", "stat", "open", "begin", "dbi", "first"}
        PROVE  out = <<>>
    BY <1>7 DEF Inductive, HandlesByPhase, CursorAhead
  <1>8. CASE CreateEnv \/ StatPath \/ OpenEnv \/ BeginTxn \/ OpenDbi \/ OpenCursor
    BY <1>4, <1>5, <1>7, <1>8
       DEF CreateEnv, StatPath, OpenEnv, BeginTxn, OpenDbi, OpenCursor, Goto, Fail, Return
  <1>9. ASSUME out' = out, handles' = handles, cur' = cur, cur # NotFound,
               pc = "visit", pc' = "next"
        PROVE  CursorAhead' /\ StreamAscends'
    BY <1>9 DEF Inductive, CursorAhead, StreamAscends, Precedes, KeyOf
  <1>10. CASE Skip \/ Collect
    BY <1>9, <1>10 DEF Skip, Collect, AtRecord, Goto, readerVars
  <1>11. CASE RecordThrows \/ Finish
    BY <1>4, <1>11 DEF RecordThrows, Finish, Fail, Return
  <1>12. CASE CallbackContinues
    BY <1>12 DEF CallbackContinues, Goto, readerVars, Inductive, CursorAhead,
                 StreamAscends, Precedes, KeyOf
  <1>13. CASE CallbackStops \/ EndOfWalk
    BY <1>3, <1>13 DEF CallbackStops, EndOfWalk, Goto, readerVars
  <1>14. CASE Advance
    <2>1. CASE CursorNext /\ Goto("visit")
      <3>1. StreamAscends'
        BY <2>1 DEF Goto, Inductive, StreamAscends, Precedes
      <3> QED BY <1>14, <2>1, <3>1, AdvanceKeeps DEF Advance
    <2>2. CASE Fail("cursor")
      BY <1>4, <2>2 DEF Fail, Return
    <2> QED BY <1>14, <2>1, <2>2 DEF Advance
  <1>15. CASE Write \/ UNCHANGED vars
    BY <1>15 DEF Write, Commit, vars, readerVars, callVars, Inductive, CursorAhead,
                 StreamAscends, Precedes, KeyOf
  <1> QED BY <1>1, <1>2, <1>6, <1>8, <1>10, <1>11, <1>12, <1>13, <1>14, <1>15
          DEF Next, DumpStep

-----------------------------------------------------------------------------
(* The inductive invariant holds in every reachable state.                 *)
THEOREM Invariance == Spec => []Inductive
  <1>1. Init => Inductive
    BY InitInductive
  <1>2. Inductive /\ [Next]_vars => Inductive'
    BY TypingStep, StreamStep DEF Inductive
  <1> QED BY <1>1, <1>2, PTL DEF Spec

(* The state of the reader and of the dump functions is what their         *)
(* declarations allow.                                                     *)
THEOREM Typing == Spec => []TypeOK
  <1>1. Inductive => TypeOK
    BY DEF Inductive
  <1> QED BY <1>1, Invariance, PTL

(* No call returns with an environment open or a transaction running, for  *)
(* any choice of failing calls.                                            *)
THEOREM Ownership == Spec => []NothingStaysOpen
  <1>1. Inductive => NothingStaysOpen
    BY DEF Inductive, HandlesByPhase, NothingStaysOpen
  <1> QED BY <1>1, Invariance, PTL

(* The callback of ob_dump_stream() sees entities and objects in strictly  *)
(* ascending order, whatever the store holds.                              *)
THEOREM StreamOrder == Spec => []StreamAscends
  <1>1. Inductive => StreamAscends
    BY DEF Inductive
  <1> QED BY <1>1, Invariance, PTL

(* A call that does not end in an error releases every handle it took: the *)
(* end of the walk and the early stop close the cursor too.                *)
THEOREM SuccessLosesNothing == Spec => OnlyFailuresLeak
  <1>1. ASSUME Inductive, [Next]_vars, leaked' # leaked
        PROVE  ret'.rc \in Errors
    <2>1. ASSUME NEW error, Fail(error) PROVE ret'.rc \in Errors
      BY <2>1 DEF Fail, Return
    <2>2. CASE Call \/ Skip \/ Collect \/ Deliver \/ CallbackContinues \/ CallbackStops
               \/ EndOfWalk \/ Write \/ UNCHANGED vars
      BY <1>1, <2>2 DEF Call, Skip, Collect, Deliver, CallbackContinues, CallbackStops,
                        EndOfWalk, Write, Commit, vars, readerVars
    <2>3. CASE ParseSchema \/ CreateEnv \/ StatPath \/ OpenEnv \/ BeginTxn \/ OpenDbi
      BY <1>1, <2>1, <2>3 DEF ParseSchema, CreateEnv, StatPath, OpenEnv, BeginTxn, OpenDbi,
                              EnvCreate, EnvOpen, TxnBegin, Acquire, readerVars
    <2>4. CASE OpenCursor \/ RecordThrows \/ Advance
      BY <1>1, <2>1, <2>4 DEF OpenCursor, RecordThrows, Advance, CursorFirst, CursorNext
    <2>5. CASE Finish
      BY <1>1, <2>5 DEF Finish, CursorCloseAndDestroy, Release, Inductive, TypeOK
    <2> QED BY <1>1, <2>2, <2>3, <2>4, <2>5 DEF Next, DumpStep
  <1> QED BY <1>1, Invariance, PTL DEF Spec, OnlyFailuresLeak

(* The keys of what is stored stand in the order of the ids, in every      *)
(* reachable state of every store.                                         *)
THEOREM KeysInOrder == Spec => []OrderFollowsIds
  <1>1. Inductive => OrderFollowsIds
    <2> SUFFICES ASSUME Inductive, NEW o \in db.objects, NEW p \in db.objects
                 PROVE  KeysFollowIds(o.entity, o.id, p.entity, p.id)
      BY DEF OrderFollowsIds
    <2>1. IsDatabase(db)
      BY DatabasesAssumption DEF Inductive, TypeOK
    <2>2. o.entity \in ShortIds /\ o.id \in UInt32 /\ p.entity \in ShortIds /\ p.id \in UInt32
      BY <2>1 DEF IsDatabase
    <2> QED BY <2>2, KeyOrder
  <1> QED BY <1>1, Invariance, PTL

(* The reader's decoders give back the ids of every stored object, and no  *)
(* schema entry or link is taken for an object.                            *)
THEOREM KeysDecode == Spec => []DecodersInvert
  <1>1. Inductive => DecodersInvert
    <2> SUFFICES ASSUME Inductive PROVE DecodersInvert
      OBVIOUS
    <2>1. IsDatabase(db)
      BY DatabasesAssumption DEF Inductive, TypeOK
    <2>2. ASSUME NEW o \in db.objects PROVE KeyKeepsIds(o.entity, o.id)
      <3>1. o.entity \in ShortIds /\ o.id \in UInt32
        BY <2>1 DEF IsDatabase
      <3> QED BY <3>1, KeysKeepIds
    <2>3. ASSUME NEW k \in SchemaKeys(db) PROVE ~IsDataKey(k)
      <3>1. \A e : SchemaKey(e)[1] = 0
        BY DEF SchemaKey, kKeyTypeSchema
      <3> QED BY <3>1 DEF SchemaKeys, IsDataKey, kKeyTypeData
    <2>4. ASSUME NEW k \in LinkKeys(db) PROVE ~IsDataKey(k)
      <3>1. ASSUME NEW l \in db.links, NEW dir \in {0, 2}
            PROVE  /\ Len(RelationKey(l.relation, dir, l.source, l.target)) = 12
                   /\ Len(RelationKey(l.relation, dir, l.target, l.source)) = 12
        <4>1. l.relation \in ShortIds /\ l.source \in UInt32 /\ l.target \in UInt32
          BY <2>1 DEF IsDatabase
        <4> QED BY <4>1, LinkOrder
      <3>2. Len(k) = 12
        BY <2>4, <3>1 DEF LinkKeys, kRelationDirectionForward, kRelationDirectionBackward
      <3> QED BY <3>2 DEF IsDataKey
    <2> QED BY <2>2, <2>3, <2>4 DEF DecodersInvert
  <1> QED BY <1>1, Invariance, PTL

-----------------------------------------------------------------------------
(* The document of a state. *)

KnownIn(d, m) == {o \in d.objects : o.entity \in DOMAIN Parse(m)}
InOrder(S) == {p \in S \X S : Before(p[1], p[2])}

LEMMA KnownOrdered ==
  ASSUME NEW d \in Databases, NEW m \in Models
  PROVE  /\ IsFiniteSet(KnownIn(d, m)) /\ Orders(InOrder(KnownIn(d, m)), KnownIn(d, m))
         /\ \A o \in KnownIn(d, m) : o \in d.objects /\ o.entity \in ShortIds /\ o.id \in UInt32
  <1> DEFINE S == KnownIn(d, m)
  <1>1. IsDatabase(d)
    BY DatabasesAssumption
  <1>2. IsFiniteSet(S)
    <2>1. S \in SUBSET d.objects /\ IsFiniteSet(d.objects)
      BY <1>1 DEF KnownIn, IsDatabase
    <2> QED BY <2>1, FS_Subset
  <1>3. \A o \in S : o \in d.objects /\ o.entity \in ShortIds /\ o.id \in UInt32
    BY <1>1 DEF KnownIn, IsDatabase
  <1>4. \A x, y \in S : x.entity = y.entity /\ x.id = y.id => x = y
    BY <1>1, <1>3 DEF IsDatabase
  <1> HIDE DEF S
  <1>5. \A x, y \in S : <<x, y>> \in InOrder(S) <=> Before(x, y)
    BY DEF InOrder
  <1>6. Orders(InOrder(S), S)
    <2>1. ASSUME NEW x \in S PROVE x.entity \in Nat /\ x.id \in Nat
      BY <1>3, SMT DEF ShortIds, UInt32
    <2>2. \A x \in S : ~Before(x, x)
      BY <2>1 DEF Before
    <2>3. \A x, y, z \in S : Before(x, y) /\ Before(y, z) => Before(x, z)
      BY <2>1 DEF Before
    <2>4. \A x, y \in S : x = y \/ Before(x, y) \/ Before(y, x)
      BY <1>4, <2>1 DEF Before
    <2> QED BY <1>5, <2>2, <2>3, <2>4 DEF Orders
  <1> QED BY <1>2, <1>3, <1>6 DEF S

(* The record at place i describes the object of rank i - 1.               *)
LEMMA DocumentByRank ==
  ASSUME NEW d \in Databases, NEW m \in Models
  PROVE  LET S == KnownIn(d, m)
         IN  /\ Cardinality(S) \in Nat /\ DOMAIN Document[d][m] = 1..Cardinality(S)
             /\ Document[d][m] = [i \in 1..Cardinality(S) |-> Document[d][m][i]]
             /\ Len(Document[d][m]) = Cardinality(S)
             /\ \A i \in 1..Cardinality(S) :
                  Document[d][m][i] = Described(d, Parse(m), Listed(InOrder(S), S)[i])
  <1> DEFINE S == KnownIn(d, m)
             N == Cardinality(S)
             D == Document[d][m]
             A == KnownObjects(d, m)
  <1>1. D = [i \in DOMAIN A |-> Described(d, Parse(m), A[i])]
    BY DEF Document
  <1>2. IsFiniteSet(S) /\ Orders(InOrder(S), S) /\ N \in Nat
    BY KnownOrdered, FS_CardinalityType
  <1>3. A = [i \in 1..N |-> CHOOSE x \in S : Cardinality({y \in S : Before(y, x)}) = i - 1]
    BY DEF KnownObjects, KnownIn, Ascending
  <1> HIDE DEF S, A, D
  <1>4. DOMAIN A = 1..N
    BY <1>3
  <1>5. ASSUME NEW i \in 1..N PROVE A[i] = Listed(InOrder(S), S)[i]
    <2>1. \A x \in S : {y \in S : Before(y, x)} = Below(InOrder(S), S, x)
      BY DEF Below, InOrder
    <2>2. \A x \in S : Cardinality({y \in S : Before(y, x)}) = Rank(InOrder(S), S, x)
      BY <2>1 DEF Rank
    <2>3. A[i] = CHOOSE x \in S : Cardinality({y \in S : Before(y, x)}) = i - 1
      BY <1>3
    <2>4. /\ Listed(InOrder(S), S)[i] \in S
          /\ Rank(InOrder(S), S, Listed(InOrder(S), S)[i]) = i - 1
      BY <1>2, ListedByRank
    <2>5. \E x \in S : Cardinality({y \in S : Before(y, x)}) = i - 1
      BY <2>2, <2>4
    <2>6. A[i] \in S /\ Cardinality({y \in S : Before(y, A[i])}) = i - 1
      BY <2>3, <2>5
    <2> QED BY <1>2, <2>2, <2>4, <2>6, RankTells
  <1>6. D = [i \in 1..N |-> Described(d, Parse(m), A[i])]
    BY <1>1, <1>4
  <1>7. DOMAIN D = 1..N /\ D = [i \in 1..N |-> D[i]]
    BY <1>6
  <1>8. Len(D) = N
    BY <1>2, <1>7
  <1>9. \A i \in 1..N : D[i] = Described(d, Parse(m), Listed(InOrder(S), S)[i])
    BY <1>5, <1>6
  <1> QED BY <1>2, <1>7, <1>8, <1>9 DEF D, S

-----------------------------------------------------------------------------
(* The targets of a relation. *)

LinkTargets(d, r, s) == {l.target : l \in {k \in d.links : k.relation = r /\ k.source = s}}
Smaller(S) == {p \in S \X S : p[1] < p[2]}

LEMMA TargetsOrdered ==
  ASSUME NEW d \in Databases, NEW r, NEW s
  PROVE  /\ LinkTargets(d, r, s) \subseteq UInt32 /\ IsFiniteSet(LinkTargets(d, r, s))
         /\ Orders(Smaller(LinkTargets(d, r, s)), LinkTargets(d, r, s))
  <1> DEFINE T == LinkTargets(d, r, s)
             links == {k \in d.links : k.relation = r /\ k.source = s}
  <1>1. IsDatabase(d)
    BY DatabasesAssumption
  <1>2. T \subseteq UInt32
    BY <1>1 DEF LinkTargets, IsDatabase
  <1>3. IsFiniteSet(links)
    <2>1. links \in SUBSET d.links /\ IsFiniteSet(d.links)
      BY <1>1 DEF IsDatabase
    <2> QED BY <2>1, FS_Subset
  <1>4. IsFiniteSet(T)
    <2> DEFINE f == [l \in links |-> l.target]
    <2>1. T = {l.target : l \in links}
      BY DEF LinkTargets
    <2>2. f \in Surjection(links, T)
      BY <2>1 DEF Surjection
    <2> HIDE DEF T, f, links
    <2> QED BY <1>3, <2>2, FS_Surjection
  <1> HIDE DEF T
  <1>5. Orders(Smaller(T), T)
    <2>1. \A x \in T : x \in Nat
      BY <1>2, SMT DEF UInt32
    <2>2. \A x, y \in T : <<x, y>> \in Smaller(T) <=> x < y
      BY DEF Smaller
    <2>3. \A x, y, z \in T : /\ ~(x < x)
                             /\ x < y /\ y < z => x < z
                             /\ x = y \/ x < y \/ y < x
      BY <2>1
    <2> QED BY <2>2, <2>3 DEF Orders
  <1> QED BY <1>2, <1>4, <1>5 DEF T

(* The keys the lookup walks over are those of the links asked for: it     *)
(* begins at or before the first one, and stops behind the last one.       *)
LEMMA LinksWalked ==
  ASSUME NEW d \in Databases, NEW r \in ShortIds, NEW s \in UInt32
  PROVE  WalkLinks(Keys[d], r, s) =
           {RelationKey(r, kRelationDirectionForward, s, t) : t \in LinkTargets(d, r, s)}
  <1> DEFINE fwd == kRelationDirectionForward
             prefix == RelationPrefix(r, fwd, s)
             seek == prefix \o writeUint32BE(0)
             after == {k \in Keys[d] : k = seek \/ KeyLess(seek, k)}
             K(t) == RelationKey(r, fwd, s, t)
  <1>1. IsDatabase(d) /\ Keys[d] = Image(d) /\ fwd \in {0, 2} /\ 0 \in UInt32
    BY DatabasesAssumption DEF Keys, kRelationDirectionForward, UInt32
  <1>2. seek = K(0)
    BY DEF RelationKey
  <1>3. ASSUME NEW t \in UInt32
        PROVE  K(t) \in Seq(Nat) /\ Len(K(t)) = 12 /\ HasPrefix(K(t), prefix) /\ prefix \in Seq(Nat)
    <2>1. K(t) \in Seq(Nat) /\ Len(K(t)) = 12
      BY <1>1, LinkOrder
    <2>2. PICK a, b, c, e, f, g, h, i \in Byte : LinkCodedBy(r, fwd, s, t, a, b, c, e, f, g, h, i)
      BY <1>1, LinkKeyShape
    <2> DEFINE n == r * 4 + fwd
               p == <<8, 0, 0, n, a, b, c, e>>
               k == <<8, 0, 0, n, a, b, c, e, f, g, h, i>>
    <2>3. prefix = p /\ K(t) = k
      BY <2>2 DEF LinkCodedBy
    <2>4. n \in Nat
      BY <1>1, SMT DEF ShortIds
    <2> HIDE DEF n
    <2>5. p \in Seq(Nat) /\ Len(p) = 8 /\ Len(k) = 12 /\ \A j \in 1..8 : k[j] = p[j]
      BY <2>4 DEF Byte
    <2> HIDE DEF p, k
    <2>6. HasPrefix(k, p)
      BY <2>5 DEF HasPrefix
    <2> HIDE DEF K, prefix
    <2> QED BY <2>1, <2>3, <2>5, <2>6
  <1>4. \A k \in Image(d) : HasPrefix(k, prefix) <=> \E t \in LinkTargets(d, r, s) : k = K(t)
    <2>1. ASSUME NEW k \in Image(d)
          PROVE  HasPrefix(k, prefix) <=>
                   \E l \in d.links : l.relation = r /\ l.source = s /\ k = K(l.target)
      BY <1>1, LinksByPrefix
    <2> QED BY <2>1 DEF LinkTargets
  <1>5. \A t \in LinkTargets(d, r, s) : t \in UInt32 /\ K(t) \in Image(d)
    <2>1. LinkTargets(d, r, s) \subseteq UInt32
      BY TargetsOrdered
    <2> QED BY <2>1 DEF LinkTargets, Image, LinkKeys
  <1>6. \A k \in Image(d) : k \in Seq(Nat)
    BY <1>1, ImageKeys
  <1>7. WalkLinks(Keys[d], r, s) = {k \in after : \A j \in after :
          j = k \/ KeyLess(j, k) => Len(j) = Len(seek) /\ HasPrefix(j, prefix)}
    BY DEF WalkLinks
  <1>8. after = {k \in Image(d) : k = K(0) \/ KeyLess(K(0), k)}
    BY <1>1, <1>2
  <1>9. \A t \in UInt32 : K(0) = K(t) \/ KeyLess(K(0), K(t))
    <2>1. ASSUME NEW t \in UInt32 PROVE K(0) = K(t) \/ KeyLess(K(0), K(t))
      <3>1. t = 0 \/ 0 < t
        BY DEF UInt32
      <3>2. KeyLess(K(0), K(t)) <=> 0 < t
        BY <1>1, LinkOrder
      <3> QED BY <3>1, <3>2
    <2> QED BY <2>1
  <1> HIDE DEF K, seek, prefix, after, fwd
  <1>10. ASSUME NEW t \in LinkTargets(d, r, s) PROVE K(t) \in WalkLinks(Keys[d], r, s)
    <2>1. t \in UInt32 /\ K(t) \in after
      BY <1>5, <1>8, <1>9
    <2>2. ASSUME NEW j \in after, j = K(t) \/ KeyLess(j, K(t))
          PROVE  Len(j) = Len(seek) /\ HasPrefix(j, prefix)
      <3>1. j \in Image(d) /\ j \in Seq(Nat) /\ (j = K(0) \/ KeyLess(K(0), j))
        BY <1>6, <1>8
      <3>2. HasPrefix(j, prefix)
        <4>1. CASE j = K(0) \/ j = K(t)
          BY <1>1, <1>3, <2>1, <4>1
        <4>2. CASE KeyLess(K(0), j) /\ KeyLess(j, K(t))
          <5>1. /\ K(0) \in Seq(Nat) /\ K(t) \in Seq(Nat) /\ prefix \in Seq(Nat)
                /\ HasPrefix(K(0), prefix) /\ HasPrefix(K(t), prefix)
            BY <1>1, <1>3, <2>1
          <5> QED BY <3>1, <4>2, <5>1, PrefixConvex
        <4> QED BY <2>2, <3>1, <4>1, <4>2
      <3>3. PICK u \in LinkTargets(d, r, s) : j = K(u)
        BY <1>4, <3>1, <3>2
      <3>4. Len(j) = 12 /\ Len(seek) = 12
        BY <1>1, <1>2, <1>3, <1>5, <3>3
      <3> QED BY <3>2, <3>4
    <2> QED BY <1>7, <2>1, <2>2
  <1>11. ASSUME NEW k \in WalkLinks(Keys[d], r, s) PROVE \E t \in LinkTargets(d, r, s) : k = K(t)
    <2>1. k \in after /\ HasPrefix(k, prefix)
      BY <1>7
    <2> QED BY <1>4, <1>8, <2>1
  <1>12. WalkLinks(Keys[d], r, s) = {K(t) : t \in LinkTargets(d, r, s)}
    BY <1>10, <1>11
  <1> QED BY <1>12 DEF K, fwd

(* What Ascending makes of keys and of numbers.                            *)
LEMMA KeysListed ==
  ASSUME NEW S, IsFiniteSet(S), NEW R, Orders(R, S),
         \A x, y \in S : <<x, y>> \in R <=> KeyLess(x, y)
  PROVE  Ascending(S, KeyLess) = Listed(R, S)
  <1> DEFINE A == Ascending(S, KeyLess)
             At(i) == CHOOSE x \in S : Cardinality({y \in S : KeyLess(y, x)}) = i - 1
  <1>1. \A x \in S : {y \in S : KeyLess(y, x)} = Below(R, S, x)
    BY DEF Below
  <1>2. \A x \in S : Cardinality({y \in S : KeyLess(y, x)}) = Rank(R, S, x)
    BY <1>1 DEF Rank
  <1>3. A = [i \in 1..Cardinality(S) |-> At(i)]
    BY DEF Ascending
  <1> HIDE DEF A, At
  <1>4. ASSUME NEW i \in 1..Cardinality(S) PROVE A[i] = Listed(R, S)[i]
    <2>1. Listed(R, S)[i] \in S /\ Rank(R, S, Listed(R, S)[i]) = i - 1
      BY ListedByRank
    <2>2. \E x \in S : Cardinality({y \in S : KeyLess(y, x)}) = i - 1
      BY <1>2, <2>1
    <2>3. At(i) \in S /\ Cardinality({y \in S : KeyLess(y, At(i))}) = i - 1
      BY <2>2 DEF At
    <2>4. A[i] = At(i)
      BY <1>3
    <2> QED BY <1>2, <2>1, <2>3, <2>4, RankTells
  <1>5. A = [i \in 1..Cardinality(S) |-> A[i]]
    BY <1>3
  <1>6. Listed(R, S) = [i \in 1..Cardinality(S) |-> Listed(R, S)[i]]
    BY DEF Listed
  <1>7. A = Listed(R, S)
    BY <1>4, <1>5, <1>6
  <1> QED BY <1>7 DEF A

LEMMA NumbersListed ==
  ASSUME NEW S, IsFiniteSet(S), NEW R, Orders(R, S),
         \A x, y \in S : <<x, y>> \in R <=> x < y
  PROVE  Ascending(S, <) = Listed(R, S)
  <1> DEFINE A == Ascending(S, <)
             At(i) == CHOOSE x \in S : Cardinality({y \in S : y < x}) = i - 1
  <1>1. \A x \in S : {y \in S : y < x} = Below(R, S, x)
    BY DEF Below
  <1>2. \A x \in S : Cardinality({y \in S : y < x}) = Rank(R, S, x)
    BY <1>1 DEF Rank
  <1>3. A = [i \in 1..Cardinality(S) |-> At(i)]
    BY DEF Ascending
  <1> HIDE DEF A, At
  <1>4. ASSUME NEW i \in 1..Cardinality(S) PROVE A[i] = Listed(R, S)[i]
    <2>1. Listed(R, S)[i] \in S /\ Rank(R, S, Listed(R, S)[i]) = i - 1
      BY ListedByRank
    <2>2. \E x \in S : Cardinality({y \in S : y < x}) = i - 1
      BY <1>2, <2>1
    <2>3. At(i) \in S /\ Cardinality({y \in S : y < At(i)}) = i - 1
      BY <2>2 DEF At
    <2>4. A[i] = At(i)
      BY <1>3
    <2> QED BY <1>2, <2>1, <2>3, <2>4, RankTells
  <1>5. A = [i \in 1..Cardinality(S) |-> A[i]]
    BY <1>3
  <1>6. Listed(R, S) = [i \in 1..Cardinality(S) |-> Listed(R, S)[i]]
    BY DEF Listed
  <1>7. A = Listed(R, S)
    BY <1>4, <1>5, <1>6
  <1> QED BY <1>7 DEF A

LEMMA LookupIsExact ==
  ASSUME snap \in Databases, NEW r \in ShortIds, NEW s \in UInt32
  PROVE  toManyTargets(r, s) = Ascending(LinkTargets(snap, r, s), <)
  <1> DEFINE T == LinkTargets(snap, r, s)
             R == Smaller(T)
             W == WalkLinks(Keys[snap], r, s)
             Q == {p \in W \X W : KeyLess(p[1], p[2])}
             K(t) == RelationKey(r, kRelationDirectionForward, s, t)
             f == [t \in T |-> K(t)]
             A == Ascending(W, KeyLess)
             B == Ascending(T, <)
  <1>1. T \subseteq UInt32 /\ IsFiniteSet(T) /\ Orders(R, T)
    BY TargetsOrdered
  <1>2. W = {K(t) : t \in T}
    BY LinksWalked
  <1>3. \A t, u \in T : (KeyLess(K(t), K(u)) <=> t < u) /\ readUint32BE(K(t), 9) = t
    <2>1. kRelationDirectionForward \in {0, 2}
      BY DEF kRelationDirectionForward
    <2> QED BY <1>1, <2>1, LinkOrder
  <1>4. \A x, y \in T : <<x, y>> \in R <=> x < y
    BY DEF Smaller
  <1>5. \A x, y \in W : <<x, y>> \in Q <=> KeyLess(x, y)
    OBVIOUS
  <1>6. toManyTargets(r, s) = [i \in DOMAIN A |-> readUint32BE(A[i], 9)]
    BY DEF toManyTargets
  <1> HIDE DEF T, R, W, Q, K
  <1>7. f \in [T -> W] /\ \A w \in W : \E t \in T : f[t] = w
    BY <1>2
  <1>8. /\ \A x, y \in T : <<f[x], f[y]>> \in Q <=> <<x, y>> \in R
        /\ \A x, y \in T : f[x] = f[y] => x = y
    BY <1>2, <1>3, <1>4, <1>5
  <1> HIDE DEF f
  <1>9. /\ IsFiniteSet(W) /\ Orders(Q, W) /\ Cardinality(W) = Cardinality(T)
        /\ \A i \in 1..Cardinality(T) : Listed(Q, W)[i] = f[Listed(R, T)[i]]
    BY <1>1, <1>7, <1>8, ListedInStep
  <1>10. A = Listed(Q, W) /\ B = Listed(R, T)
    BY <1>1, <1>4, <1>5, <1>9, KeysListed, NumbersListed
  <1>11. /\ DOMAIN Listed(Q, W) = 1..Cardinality(T)
         /\ Listed(R, T) = [i \in 1..Cardinality(T) |-> Listed(R, T)[i]]
    BY <1>9 DEF Listed
  <1>12. ASSUME NEW i \in 1..Cardinality(T)
         PROVE  readUint32BE(Listed(Q, W)[i], 9) = Listed(R, T)[i]
    <2>1. Listed(R, T)[i] \in T
      BY <1>1, ListedByRank
    <2>2. Listed(Q, W)[i] = K(Listed(R, T)[i])
      BY <1>9, <2>1 DEF f
    <2> QED BY <1>3, <2>1, <2>2
  <1> HIDE DEF A, B
  <1>13. toManyTargets(r, s) = B
    BY <1>6, <1>10, <1>11, <1>12
  <1> QED BY <1>13 DEF B, T

(* A relation of an entity of the model has an id of the key format.       *)
LEMMA RelationsKnown ==
  ASSUME NEW m \in Models, NEW e \in DOMAIN Parse(m), NEW n \in RelationNames(Parse(m)[e])
  PROVE  RelationNamed(Parse(m)[e], n) \in ShortIds
  <1> DEFINE E == m.entities
             same == {i \in DOMAIN E : E[i].id = e}
             First == CHOOSE i \in DOMAIN E : E[i].id = e /\ \A j \in 1..(i - 1) : E[j].id # e
             L == Parse(m)[e].relations
             named == {i \in DOMAIN L : L[i].name = n}
  <1>1. IsModel(m)
    BY ModelsAssumption
  <1>2. /\ IsArray(E)
        /\ \A i \in DOMAIN E : /\ IsArray(E[i].relations)
                              /\ \A j \in DOMAIN E[i].relations : E[i].relations[j].id \in ShortIds
    BY <1>1 DEF IsModel
  <1>3. Parse(m)[e] = E[First] /\ same # {}
    BY DEF Parse
  <1> HIDE DEF E
  <1>4. DOMAIN E = 1..Len(E) /\ Len(E) \in Nat
    BY <1>2 DEF IsArray
  <1>5. First \in DOMAIN E
    <2>1. same \subseteq Nat
      BY <1>4
    <2>2. PICK i \in same : \A j \in same : i <= j
      BY <1>3, <2>1, LeastMember
    <2>3. \A j \in 1..(i - 1) : E[j].id # e
      BY <1>4, <2>2
    <2> QED BY <2>2, <2>3
  <1> HIDE DEF First
  <1>6. IsArray(L) /\ \A j \in DOMAIN L : L[j].id \in ShortIds
    BY <1>2, <1>3, <1>5
  <1>7. named # {} /\ RelationNamed(Parse(m)[e], n) =
          L[CHOOSE i \in DOMAIN L : L[i].name = n /\ \A j \in (i + 1)..Len(L) : L[j].name # n].id
    BY DEF RelationNames, RelationNamed
  <1> HIDE DEF L
  <1>8. DOMAIN L = 1..Len(L) /\ Len(L) \in Nat
    BY <1>6 DEF IsArray
  <1>9. \E i \in DOMAIN L : L[i].name = n /\ \A j \in (i + 1)..Len(L) : L[j].name # n
    <2> DEFINE back == {Len(L) - i : i \in named}
    <2>1. back \subseteq Nat /\ back # {}
      BY <1>7, <1>8
    <2>2. PICK b \in back : \A c \in back : b <= c
      BY <2>1, LeastMember
    <2>3. PICK i \in named : b = Len(L) - i
      BY <2>2
    <2>4. ASSUME NEW j \in named PROVE j <= i
      <3>1. Len(L) - i <= Len(L) - j
        BY <2>2, <2>3
      <3> QED BY <1>8, <3>1
    <2>5. \A j \in (i + 1)..Len(L) : j \in DOMAIN L /\ ~(j <= i)
      BY <1>8
    <2> QED BY <2>4, <2>5
  <1> QED BY <1>6, <1>7, <1>9

-----------------------------------------------------------------------------
(* The result object of a dump. *)

(* The service counts as the dump does.                                    *)
LEMMA SameCardinality == \A S : Service!Cardinality(S) = Cardinality(S)
  BY DEF Cardinality, Service!Cardinality

Names(w) == {w[i].name : i \in DOMAIN w}
Places(w, n) == {i \in DOMAIN w : w[i].name = n}

LEMMA PlacesOrdered ==
  ASSUME NEW S, NEW w \in Seq(S), NEW n
  PROVE  /\ Places(w, n) \subseteq 1..Len(w) /\ Len(w) \in Nat
         /\ IsFiniteSet(Places(w, n)) /\ Orders(Smaller(Places(w, n)), Places(w, n))
         /\ Cardinality(Places(w, n)) \in Nat
  <1> DEFINE P == Places(w, n)
  <1>1. P \subseteq 1..Len(w) /\ Len(w) \in Nat /\ P \in SUBSET (1..Len(w))
    BY DEF Places
  <1>2. IsFiniteSet(P)
    <2>1. IsFiniteSet(1..Len(w))
      BY <1>1, FS_Interval
    <2> QED BY <1>1, <2>1, FS_Subset
  <1> HIDE DEF P
  <1>3. \A x, y \in P : <<x, y>> \in Smaller(P) <=> x < y
    BY DEF Smaller
  <1>4. \A x, y, z \in P : /\ ~(x < x)
                           /\ x < y /\ y < z => x < z
                           /\ x = y \/ x < y \/ y < x
    BY <1>1
  <1>5. Orders(Smaller(P), P)
    BY <1>3, <1>4 DEF Orders
  <1> QED BY <1>1, <1>2, <1>5, FS_CardinalityType DEF P

(* The k-th record of a name. *)
LEMMA GroupByPlace ==
  ASSUME NEW S, NEW w \in Seq(S)
  PROVE  /\ DOMAIN Service!GroupsOf(w) = Names(w)
         /\ Service!GroupsOf(w) = [n \in Names(w) |-> Service!GroupsOf(w)[n]]
         /\ \A n \in Names(w) :
              LET P == Places(w, n)
              IN  Service!GroupsOf(w)[n] =
                    [k \in 1..Cardinality(P) |-> w[Listed(Smaller(P), P)[k]]]
  <1> DEFINE At(n, k) == Service!Nth(Places(w, n), k)
             G == Service!GroupsOf(w)
  <1>1. G = [n \in Names(w) |-> [k \in 1..Cardinality(Places(w, n)) |-> w[At(n, k)]]]
    BY SameCardinality DEF Service!GroupsOf, Service!Places, Names, Places
  <1> HIDE DEF At, G
  <1>2. ASSUME NEW n \in Names(w), NEW k \in 1..Cardinality(Places(w, n))
        PROVE  At(n, k) = Listed(Smaller(Places(w, n)), Places(w, n))[k]
    <2> DEFINE P == Places(w, n)
    <2>1. IsFiniteSet(P) /\ Orders(Smaller(P), P)
      BY PlacesOrdered
    <2>2. \A x \in P : {j \in P : j < x} = Below(Smaller(P), P, x)
      BY DEF Below, Smaller
    <2>3. \A x \in P : Cardinality({j \in P : j < x}) = Rank(Smaller(P), P, x)
      BY <2>2 DEF Rank
    <2>4. Listed(Smaller(P), P)[k] \in P /\ Rank(Smaller(P), P, Listed(Smaller(P), P)[k]) = k - 1
      BY <2>1, ListedByRank
    <2>5. \E i \in P : Cardinality({j \in P : j < i}) = k - 1
      BY <2>3, <2>4
    <2>6. At(n, k) \in P /\ Cardinality({j \in P : j < At(n, k)}) = k - 1
      BY <2>5, SameCardinality DEF At, Service!Nth
    <2> QED BY <2>1, <2>3, <2>4, <2>6, RankTells
  <1>3. \A n \in Names(w) : G[n] = [k \in 1..Cardinality(Places(w, n)) |-> w[At(n, k)]]
    BY <1>1
  <1>4. \A n \in Names(w) :
          G[n] = [k \in 1..Cardinality(Places(w, n)) |->
                    w[Listed(Smaller(Places(w, n)), Places(w, n))[k]]]
    BY <1>2, <1>3
  <1>5. DOMAIN G = Names(w) /\ G = [n \in Names(w) |-> G[n]]
    BY <1>1
  <1> QED BY <1>4, <1>5 DEF G

LEMMA NoGroups == Service!GroupsOf(<<>>) = <<>>
  <1>1. {<<>>[i].name : i \in DOMAIN <<>>} = {}
    OBVIOUS
  <1>2. \A f : f = [n \in {} |-> f[n]] => f = <<>>
    OBVIOUS
  <1> QED BY <1>1, <1>2 DEF Service!GroupsOf

(* Every record is in a group, and a group has nothing but records.        *)
LEMMA GroupMembers ==
  ASSUME NEW S, NEW w \in Seq(S)
  PROVE  /\ \A n \in Names(w) : \A k \in DOMAIN Service!GroupsOf(w)[n] :
              \E i \in DOMAIN w : Service!GroupsOf(w)[n][k] = w[i]
         /\ \A i \in DOMAIN w : \E n \in Names(w) : \E k \in DOMAIN Service!GroupsOf(w)[n] :
              Service!GroupsOf(w)[n][k] = w[i]
  <1> DEFINE G == Service!GroupsOf(w)
  <1>1. ASSUME NEW n \in Names(w)
        PROVE  /\ DOMAIN G[n] = 1..Cardinality(Places(w, n))
               /\ \A k \in 1..Cardinality(Places(w, n)) :
                    G[n][k] = w[Listed(Smaller(Places(w, n)), Places(w, n))[k]]
    <2>1. G[n] = [k \in 1..Cardinality(Places(w, n)) |->
                    w[Listed(Smaller(Places(w, n)), Places(w, n))[k]]]
      BY GroupByPlace
    <2> HIDE DEF G
    <2> QED BY <2>1
  <1> HIDE DEF G
  <1>2. ASSUME NEW n \in Names(w), NEW k \in DOMAIN G[n]
        PROVE  \E i \in DOMAIN w : G[n][k] = w[i]
    <2>1. Listed(Smaller(Places(w, n)), Places(w, n))[k] \in Places(w, n)
      BY <1>1, PlacesOrdered, ListedByRank
    <2> QED BY <1>1, <2>1 DEF Places
  <1>3. ASSUME NEW i \in DOMAIN w
        PROVE  \E n \in Names(w) : \E k \in DOMAIN G[n] : G[n][k] = w[i]
    <2> DEFINE n == w[i].name
               P == Places(w, n)
               k == Rank(Smaller(P), P, i) + 1
    <2>1. n \in Names(w) /\ i \in P
      BY DEF Names, Places
    <2>2. k \in 1..Cardinality(P) /\ Listed(Smaller(P), P)[k] = i
      BY <2>1, PlacesOrdered, ListedByRank
    <2> HIDE DEF k, n, P
    <2>3. k \in DOMAIN G[n] /\ G[n][k] = w[i]
      BY <1>1, <2>1, <2>2 DEF P
    <2> QED BY <2>1, <2>3
  <1> QED BY <1>2, <1>3 DEF G

(* A number larger than all in a set comes last in the list.              *)
LEMMA ListedGrows ==
  ASSUME NEW m \in Nat, NEW P, P \subseteq 1..m, IsFiniteSet(P), Orders(Smaller(P), P),
         Cardinality(P) \in Nat, IsFiniteSet(P \cup {m + 1}),
         Orders(Smaller(P \cup {m + 1}), P \cup {m + 1})
  PROVE  /\ \A k \in 1..Cardinality(P) :
              Listed(Smaller(P \cup {m + 1}), P \cup {m + 1})[k] = Listed(Smaller(P), P)[k]
         /\ Listed(Smaller(P \cup {m + 1}), P \cup {m + 1})[Cardinality(P) + 1] = m + 1
  <1> DEFINE Q == P \cup {m + 1}
             c == Cardinality(P)
  <1>1. Q = P \cup {m + 1} /\ m + 1 \notin P /\ IsFiniteSet(Q) /\ Orders(Smaller(Q), Q)
    OBVIOUS
  <1> HIDE DEF Q
  <1>2. ASSUME NEW k \in 1..c
        PROVE  Listed(Smaller(Q), Q)[k] = Listed(Smaller(P), P)[k]
    <2> DEFINE x == Listed(Smaller(P), P)[k]
    <2>1. x \in P /\ Rank(Smaller(P), P, x) = k - 1
      BY ListedByRank
    <2> HIDE DEF x
    <2>2. x \in Q /\ x \in 1..m
      BY <1>1, <2>1
    <2>3. ~(m + 1 < x)
      BY <2>2
    <2>4. Below(Smaller(Q), Q, x) = Below(Smaller(P), P, x)
      BY <1>1, <2>1, <2>3 DEF Below, Smaller
    <2>5. Rank(Smaller(Q), Q, x) = k - 1
      BY <2>1, <2>4 DEF Rank
    <2>6. Listed(Smaller(Q), Q)[(k - 1) + 1] = x
      <3>1. Listed(Smaller(Q), Q)[Rank(Smaller(Q), Q, x) + 1] = x
        BY <1>1, <2>2, ListedByRank
      <3> QED BY <2>5, <3>1
    <2>7. (k - 1) + 1 = k
      OBVIOUS
    <2> QED BY <2>6, <2>7 DEF x
  <1>3. Listed(Smaller(Q), Q)[c + 1] = m + 1
    <2>1. m + 1 \in Q
      BY <1>1
    <2>2. Below(Smaller(Q), Q, m + 1) = P
      <3>1. \A i \in P : i < m + 1
        OBVIOUS
      <3>2. ~(m + 1 < m + 1)
        OBVIOUS
      <3> QED BY <1>1, <2>1, <3>1, <3>2 DEF Below, Smaller
    <2>3. Rank(Smaller(Q), Q, m + 1) = c
      BY <2>2 DEF Rank
    <2> QED BY <1>1, <2>1, <2>3, ListedByRank
  <1> QED BY <1>2, <1>3 DEF Q

(* push_back on the array of its name is what one record more makes of the *)
(* groups.                                                                 *)
LEMMA GroupedOnce ==
  ASSUME NEW S, NEW w \in Seq(S), NEW rec \in S
  PROVE  Grouped(Service!GroupsOf(w), rec) = Service!GroupsOf(Append(w, rec))
  <1> DEFINE v == Append(w, rec)
             m == Len(w)
             G == Service!GroupsOf(w)
             H == Service!GroupsOf(v)
             n0 == rec.name
             P == Places(w, n0)
             Q == Places(v, n0)
             c == Cardinality(P)
             g == IF n0 \in DOMAIN G THEN G[n0] ELSE <<>>
  <1>1. /\ v \in Seq(S) /\ m \in Nat /\ Len(v) = m + 1
        /\ DOMAIN w = 1..m /\ DOMAIN v = 1..(m + 1)
        /\ \A i \in 1..m : v[i] = w[i]
        /\ v[m + 1] = rec
    BY AppendProperties
  <1> HIDE DEF v, m
  <1>2. Names(v) = Names(w) \cup {n0}
    BY <1>1 DEF Names
  <1>3. \A n : n # n0 => Places(v, n) = Places(w, n)
    BY <1>1 DEF Places
  <1>4. Q = P \cup {m + 1} /\ m + 1 \notin P /\ P \subseteq 1..m
    BY <1>1 DEF Places
  <1>5. /\ DOMAIN G = Names(w) /\ DOMAIN H = Names(v)
        /\ G = [n \in Names(w) |-> G[n]] /\ H = [n \in Names(v) |-> H[n]]
    BY <1>1, GroupByPlace
  <1>6. /\ IsFiniteSet(P) /\ Orders(Smaller(P), P) /\ c \in Nat
        /\ IsFiniteSet(Q) /\ Orders(Smaller(Q), Q)
    BY <1>1, PlacesOrdered
  <1> HIDE DEF P, Q
  <1>7. Cardinality(Q) = c + 1
    BY <1>4, <1>6, FS_AddElement
  <1>8. ASSUME NEW n \in Names(w), n # n0 PROVE H[n] = G[n]
    <2> DEFINE R == Places(w, n)
               f(k) == Listed(Smaller(R), R)[k]
    <2>1. /\ G[n] = [k \in 1..Cardinality(R) |-> w[f(k)]]
          /\ H[n] = [k \in 1..Cardinality(R) |-> v[f(k)]]
      BY <1>1, <1>2, <1>3, <1>8, GroupByPlace
    <2>2. ASSUME NEW k \in 1..Cardinality(R) PROVE v[f(k)] = w[f(k)]
      <3>1. f(k) \in R
        BY PlacesOrdered, ListedByRank
      <3>2. R \subseteq 1..m
        BY PlacesOrdered DEF m
      <3> QED BY <1>1, <3>1, <3>2
    <2> HIDE DEF R, f, G, H
    <2> QED BY <2>1, <2>2
  <1>9. g = [k \in 1..c |-> w[Listed(Smaller(P), P)[k]]]
    <2>1. CASE n0 \in Names(w)
      BY <1>5, <2>1, GroupByPlace DEF P
    <2>2. CASE n0 \notin Names(w)
      <3>1. P = {}
        BY <2>2 DEF P, Places, Names
      <3>2. c = 0
        BY <3>1, FS_EmptySet
      <3>3. g = <<>>
        BY <1>5, <2>2
      <3> HIDE DEF c, g
      <3> QED BY <3>2, <3>3
    <2> QED BY <2>1, <2>2
  <1>10. H[n0] = [k \in 1..(c + 1) |-> v[Listed(Smaller(Q), Q)[k]]]
    <2>1. n0 \in Names(v)
      BY <1>2
    <2>2. H[n0] = [k \in 1..Cardinality(Q) |-> v[Listed(Smaller(Q), Q)[k]]]
      BY <1>1, <2>1, GroupByPlace DEF Q
    <2> QED BY <1>7, <2>2
  <1>11. ASSUME NEW k \in 1..c
         PROVE  /\ Listed(Smaller(P), P)[k] \in 1..m
                /\ Listed(Smaller(Q), Q)[k] = Listed(Smaller(P), P)[k]
    <2>1. Listed(Smaller(P), P)[k] \in P
      BY <1>6, ListedByRank
    <2>2. \A i \in 1..Cardinality(P) :
            Listed(Smaller(P \cup {m + 1}), P \cup {m + 1})[i] = Listed(Smaller(P), P)[i]
      BY <1>1, <1>4, <1>6, ListedGrows
    <2> QED BY <1>4, <2>1, <2>2
  <1>12. Listed(Smaller(Q), Q)[c + 1] = m + 1
    <2>1. Listed(Smaller(P \cup {m + 1}), P \cup {m + 1})[Cardinality(P) + 1] = m + 1
      BY <1>1, <1>4, <1>6, ListedGrows
    <2> QED BY <1>4, <2>1
  <1>13. H[n0] = Append(g, rec)
    <2> HIDE DEF c, g, H
    <2>1. \A k \in 1..c : w[Listed(Smaller(P), P)[k]] \in S
      BY <1>1, <1>11
    <2>2. g \in Seq(S) /\ Len(g) = c /\ \A k \in 1..c : g[k] = w[Listed(Smaller(P), P)[k]]
      BY <1>6, <1>9, <2>1
    <2>3. /\ Append(g, rec) \in Seq(S) /\ Len(Append(g, rec)) = c + 1
          /\ \A k \in 1..c : Append(g, rec)[k] = g[k]
          /\ Append(g, rec)[c + 1] = rec
      BY <2>2, AppendProperties
    <2>4. \A k \in 1..(c + 1) : H[n0][k] = Append(g, rec)[k] /\ H[n0][k] \in S
      <3>1. ASSUME NEW k \in 1..c PROVE H[n0][k] = g[k] /\ H[n0][k] \in S
        <4>1. k \in 1..(c + 1)
          BY <1>6
        <4> QED BY <1>1, <1>10, <1>11, <2>1, <2>2, <4>1
      <3>2. H[n0][c + 1] = rec
        <4>1. c + 1 \in 1..(c + 1)
          BY <1>6
        <4> QED BY <1>1, <1>10, <1>12, <4>1
      <3>3. \A k \in 1..(c + 1) : k \in 1..c \/ k = c + 1
        BY <1>6
      <3> QED BY <2>3, <3>1, <3>2, <3>3
    <2>5. H[n0] = [k \in 1..(c + 1) |-> H[n0][k]]
      BY <1>10
    <2>6. H[n0] \in Seq(S) /\ Len(H[n0]) = c + 1
      BY <1>6, <2>4, <2>5
    <2> QED BY <2>3, <2>4, <2>6, SeqEqual
  <1>14. Grouped(G, rec) = [n \in Names(v) |-> IF n = n0 THEN Append(g, rec) ELSE G[n]]
    BY <1>2, <1>5 DEF Grouped
  <1> HIDE DEF G, H, g
  <1>15. \A n \in Names(v) : H[n] = IF n = n0 THEN Append(g, rec) ELSE G[n]
    BY <1>2, <1>8, <1>13
  <1>16. Grouped(G, rec) = H
    BY <1>5, <1>14, <1>15
  <1> QED BY <1>16 DEF G, H, v

-----------------------------------------------------------------------------
(* What stands under the cursor, and how much of the document lies behind  *)
(* a key.                                                                  *)

LEMMA KnownKeys ==
  ASSUME TypeOK, NEW o \in Known
  PROVE  /\ KeyOf(o) \in Keys[snap] /\ KeyOf(o) \in Seq(Nat) /\ KeyOf(o) # NotFound
         /\ ~Skipped(KeyOf(o))
         /\ EntityId(KeyOf(o)) = o.entity /\ ObjectId(KeyOf(o)) = o.id
         /\ BodyAt(snap, KeyOf(o)) = o.body
         /\ \A p \in Known : /\ KeyOf(o) = KeyOf(p) => o = p
                             /\ KeyLess(KeyOf(o), KeyOf(p)) <=> Before(o, p)
  <1>1. IsDatabase(snap) /\ snap \in Databases /\ Keys[snap] = Image(snap)
    BY DatabasesAssumption DEF TypeOK, Keys
  <1>2. ASSUME NEW p \in snap.objects
        PROVE  /\ p.entity \in ShortIds /\ p.id \in UInt32 /\ KeyOf(p) = DataKey(p.entity, p.id)
               /\ IsDataKey(KeyOf(p)) /\ EntityId(KeyOf(p)) = p.entity /\ ObjectId(KeyOf(p)) = p.id
    <2>1. p.entity \in ShortIds /\ p.id \in UInt32
      BY <1>1 DEF IsDatabase
    <2> QED BY <2>1, KeysKeepIds DEF KeyOf, KeyKeepsIds
  <1>3. o \in snap.objects /\ o.entity \in DOMAIN schema /\ Known \subseteq snap.objects
    BY DEF Known
  <1>4. KeyOf(o) \in Image(snap)
    BY <1>2, <1>3 DEF Image, DataKeys
  <1>5. KeyOf(o) \in Seq(Nat) /\ KeyOf(o) # NotFound
    BY <1>1, <1>4, ImageKeys, KeysNotEmpty DEF NotFound
  <1>6. ASSUME NEW p \in snap.objects, KeyOf(o) = KeyOf(p) PROVE o = p
    BY <1>1, <1>2, <1>3, <1>6 DEF IsDatabase
  <1>7. BodyAt(snap, KeyOf(o)) = o.body
    <2>1. \A p \in snap.objects : DataKey(p.entity, p.id) = KeyOf(o) <=> p = o
      BY <1>2, <1>3, <1>6
    <2> QED BY <1>3, <2>1 DEF BodyAt
  <1>8. ASSUME NEW p \in Known
        PROVE  KeyLess(KeyOf(o), KeyOf(p)) <=> Before(o, p)
    <2>1. KeysFollowIds(o.entity, o.id, p.entity, p.id)
      BY <1>2, <1>3, KeyOrder
    <2> QED BY <1>2, <1>3, <2>1 DEF KeysFollowIds, Before
  <1> QED BY <1>1, <1>2, <1>3, <1>4, <1>5, <1>6, <1>7, <1>8 DEF Skipped

LEMMA KnownUnderCursor ==
  ASSUME TypeOK, NEW k \in Keys[snap], ~Skipped(k)
  PROVE  \E o \in Known : k = KeyOf(o)
  <1>1. IsDatabase(snap) /\ k \in Image(snap)
    BY DatabasesAssumption DEF TypeOK, Keys
  <1>2. PICK o \in snap.objects : k = DataKey(o.entity, o.id)
    BY <1>1, ImageKeys DEF Skipped
  <1>3. o.entity \in ShortIds /\ o.id \in UInt32
    BY <1>1 DEF IsDatabase
  <1>4. EntityId(k) = o.entity
    BY <1>2, <1>3, KeysKeepIds DEF KeyKeepsIds
  <1> QED BY <1>2, <1>4 DEF Known, Skipped, KeyOf

LEMMA WalkKeys ==
  ASSUME TypeOK, NEW k \in Keys[snap]
  PROVE  k \in Seq(Nat) /\ k # NotFound
  BY DatabasesAssumption, ImageKeys, KeysNotEmpty DEF TypeOK, Keys, NotFound

(* The record the dump makes is the description of the object: its body,   *)
(* and for each relation all the targets of its links, ascending.          *)
LEMMA RecordDescribes ==
  ASSUME TypeOK, NEW o \in Known
  PROVE  Record(KeyOf(o)) = Described(snap, schema, o)
  <1> DEFINE e == schema[o.entity]
             U(r) == {l.target : l \in {m \in snap.links : m.relation = r /\ m.source = o.id}}
             rels == [n \in RelationNames(e) |-> Ascending(U(RelationNamed(e, n)), <)]
  <1>1. /\ EntityId(KeyOf(o)) = o.entity /\ ObjectId(KeyOf(o)) = o.id
        /\ BodyAt(snap, KeyOf(o)) = o.body
    BY KnownKeys
  <1>2. snap \in Databases /\ call.model \in Models /\ o.id \in UInt32
        /\ o.entity \in DOMAIN schema /\ schema = Parse(call.model)
    BY DatabasesAssumption DEF TypeOK, Known, IsDatabase, schema
  <1>3. ASSUME NEW n \in RelationNames(e)
        PROVE  toManyTargets(RelationNamed(e, n), o.id) = Ascending(U(RelationNamed(e, n)), <)
    <2>1. RelationNamed(e, n) \in ShortIds
      BY <1>2, RelationsKnown
    <2>2. U(RelationNamed(e, n)) = LinkTargets(snap, RelationNamed(e, n), o.id)
      BY DEF LinkTargets
    <2> HIDE DEF e, U
    <2>3. toManyTargets(RelationNamed(e, n), o.id)
            = Ascending(LinkTargets(snap, RelationNamed(e, n), o.id), <)
      BY <1>2, <2>1, LookupIsExact
    <2> QED BY <2>2, <2>3
  <1>4. Record(KeyOf(o)) =
          [entity |-> o.entity, name |-> e.name, id |-> o.id, body |-> o.body,
           rels |-> [n \in RelationNames(e) |-> toManyTargets(RelationNamed(e, n), o.id)]]
    BY <1>1 DEF Record
  <1>5. Described(snap, schema, o) =
          [entity |-> o.entity, name |-> e.name, id |-> o.id, body |-> o.body, rels |-> rels]
    BY DEF Described
  <1>6. rels = [n \in RelationNames(e) |-> toManyTargets(RelationNamed(e, n), o.id)]
    <2> HIDE DEF e
    <2> QED BY <1>3
  <1> HIDE DEF rels
  <1> QED BY <1>4, <1>5, <1>6

Passed(k) == {x \in Known : k = NotFound \/ KeyLess(KeyOf(x), k)}
Through(k) == {x \in Known : KeyOf(x) = k \/ KeyLess(KeyOf(x), k)}

LEMMA FirstLanding ==
  ASSUME TypeOK, NEW k, CursorLands(Keys[snap], k)
  PROVE  Passed(k) = {}
  <1>1. CASE Keys[snap] = {}
    <2>1. Known = {}
      BY <1>1, KnownKeys
    <2> QED BY <2>1 DEF Passed
  <1>2. CASE k \in Keys[snap] /\ \A j \in Keys[snap] : j = k \/ KeyLess(k, j)
    <2>1. k \in Seq(Nat) /\ k # NotFound
      BY <1>2, WalkKeys
    <2>2. ASSUME NEW x \in Known PROVE ~KeyLess(KeyOf(x), k)
      <3>1. KeyOf(x) \in Seq(Nat) /\ KeyOf(x) \in Keys[snap]
        BY KnownKeys
      <3>2. KeyOf(x) = k \/ KeyLess(k, KeyOf(x))
        BY <1>2, <3>1
      <3> QED BY <2>1, <3>1, <3>2, KeyLessIrreflexive, KeyLessTransitive
    <2> QED BY <2>1, <2>2 DEF Passed
  <1> QED BY <1>1, <1>2 DEF CursorLands

LEMMA NextLanding ==
  ASSUME TypeOK, NEW c \in Keys[snap], NEW k,
         CursorLands({j \in Keys[snap] : KeyLess(c, j)}, k)
  PROVE  Passed(k) = Through(c)
  <1> DEFINE K == {j \in Keys[snap] : KeyLess(c, j)}
  <1>1. c \in Seq(Nat)
    BY WalkKeys
  <1>2. ASSUME NEW x \in Known
        PROVE  /\ KeyOf(x) \in Seq(Nat)
               /\ KeyOf(x) = c \/ KeyLess(KeyOf(x), c) \/ KeyOf(x) \in K
               /\ KeyOf(x) \in K => ~(KeyOf(x) = c \/ KeyLess(KeyOf(x), c))
    <2>1. KeyOf(x) \in Keys[snap] /\ KeyOf(x) \in Seq(Nat)
      BY KnownKeys
    <2>2. KeyOf(x) = c \/ KeyLess(KeyOf(x), c) \/ KeyLess(c, KeyOf(x))
      BY <1>1, <2>1, KeyLessTotal
    <2>3. ~(KeyLess(c, KeyOf(x)) /\ (KeyOf(x) = c \/ KeyLess(KeyOf(x), c)))
      BY <1>1, <2>1, KeyLessIrreflexive, KeyLessTransitive
    <2> QED BY <2>1, <2>2, <2>3
  <1>3. CASE K = {} /\ k = NotFound
    BY <1>2, <1>3 DEF Passed, Through
  <1>4. CASE k \in K /\ \A j \in K : j = k \/ KeyLess(k, j)
    <2>1. k \in Seq(Nat) /\ k # NotFound /\ KeyLess(c, k)
      BY <1>4, WalkKeys
    <2> HIDE DEF K
    <2>2. ASSUME NEW x \in Known, KeyOf(x) \in K PROVE ~KeyLess(KeyOf(x), k)
      BY <1>2, <1>4, <2>1, <2>2, KeyLessIrreflexive, KeyLessTransitive
    <2>3. ASSUME NEW x \in Known, KeyOf(x) = c \/ KeyLess(KeyOf(x), c)
          PROVE  KeyLess(KeyOf(x), k)
      BY <1>1, <1>2, <2>1, <2>3, KeyLessTransitive
    <2> QED BY <1>2, <2>1, <2>2, <2>3 DEF Passed, Through
  <1> QED BY <1>3, <1>4 DEF CursorLands

LEMMA NothingTaken ==
  ASSUME TypeOK, NEW k \in Keys[snap], Skipped(k)
  PROVE  Through(k) = Passed(k)
  BY KnownKeys, WalkKeys DEF Passed, Through

(* The record under the cursor is the next one of the document.            *)
LEMMA Taken ==
  ASSUME TypeOK, NEW k \in Keys[snap], ~Skipped(k)
  PROVE  LET n == Cardinality(Passed(k))
         IN  /\ n \in Nat /\ n + 1 \in 1..Cardinality(Known)
             /\ Cardinality(Through(k)) = n + 1
             /\ Service!Expected[n + 1] = Record(k)
             /\ Record(k).body = BodyAt(snap, k)
  <1> DEFINE S == KnownIn(snap, call.model)
             R == InOrder(S)
             n == Cardinality(Passed(k))
  <1>1. snap \in Databases /\ call.model \in Models
    BY DEF TypeOK
  <1>2. Known = S /\ schema = Parse(call.model) /\ Service!Expected = Document[snap][call.model]
    BY DEF Known, KnownIn, schema, Service!Expected
  <1>3. IsFiniteSet(S) /\ Orders(R, S)
    BY <1>1, KnownOrdered
  <1>4. PICK o \in Known : k = KeyOf(o)
    BY KnownUnderCursor
  <1>5. \A p \in Known : /\ KeyOf(o) = KeyOf(p) <=> p = o
                         /\ KeyLess(KeyOf(p), KeyOf(o)) <=> <<p, o>> \in R
    BY <1>2, KnownKeys DEF InOrder
  <1>6. Passed(k) = Below(R, S, o)
    BY <1>2, <1>4, <1>5, WalkKeys DEF Passed, Below
  <1>7. o \notin Passed(k) /\ Through(k) = Passed(k) \cup {o} /\ Passed(k) \in SUBSET S
    <2>1. o \notin Passed(k)
      BY <1>2, <1>3, <1>6 DEF Below, Orders
    <2>2. Through(k) = {x \in Known : x = o \/ KeyLess(KeyOf(x), KeyOf(o))}
      BY <1>4, <1>5 DEF Through
    <2>3. Passed(k) = {x \in Known : KeyLess(KeyOf(x), KeyOf(o))}
      BY <1>4, WalkKeys DEF Passed
    <2> QED BY <1>2, <2>1, <2>2, <2>3
  <1>8. IsFiniteSet(Passed(k))
    BY <1>3, <1>7, FS_Subset
  <1>9. n \in Nat /\ Cardinality(Through(k)) = n + 1
    BY <1>7, <1>8, FS_AddElement, FS_CardinalityType
  <1>10. n = Rank(R, S, o)
    BY <1>6 DEF Rank
  <1> HIDE DEF n, R, S
  <1>11. n + 1 \in 1..Cardinality(S) /\ Listed(R, S)[n + 1] = o
    BY <1>2, <1>3, <1>10, ListedByRank
  <1>12. Service!Expected[n + 1] = Described(snap, schema, o)
    BY <1>1, <1>2, <1>11, DocumentByRank DEF R, S
  <1>13. Record(k) = Described(snap, schema, o) /\ BodyAt(snap, k) = o.body
    BY <1>4, RecordDescribes, KnownKeys
  <1>14. Described(snap, schema, o).body = o.body
    BY DEF Described
  <1> QED BY <1>2, <1>9, <1>11, <1>12, <1>13, <1>14 DEF n

-----------------------------------------------------------------------------
(* What a call has gathered when n objects lie behind the cursor. *)

WalkedTo(n) == [i \in 1..n |-> Service!Expected[i]]
Gathered(n) ==
  IF call.op = "stream"
  THEN out = WalkedTo(n) /\ \A i \in 1..n : Service!Expected[i].body = "good"
  ELSE /\ result = Service!GroupsOf(WalkedTo(n))
       /\ \A i \in 1..n : Service!Expected[i].body # "corrupt"

LEMMA WalkedSteps ==
  ASSUME NEW n \in Nat
  PROVE  LET S == {Service!Expected[i] : i \in Nat}
         IN  /\ WalkedTo(n) \in Seq(S) /\ Len(WalkedTo(n)) = n
             /\ DOMAIN WalkedTo(n) = 1..n
             /\ \A i \in 1..n : WalkedTo(n)[i] = Service!Expected[i]
             /\ Service!Expected[n + 1] \in S
             /\ WalkedTo(n + 1) = Append(WalkedTo(n), Service!Expected[n + 1])
  <1> DEFINE E(i) == Service!Expected[i]
             S == {E(i) : i \in Nat}
  <1> HIDE DEF E
  <1>1. \A m \in Nat : /\ [i \in 1..m |-> E(i)] \in Seq(S)
                       /\ Len([i \in 1..m |-> E(i)]) = m
    OBVIOUS
  <1>2. E(n + 1) \in S
    OBVIOUS
  <1>3. \A m \in Nat : WalkedTo(m) = [i \in 1..m |-> E(i)]
    BY DEF WalkedTo, E
  <1>4. n + 1 \in Nat
    OBVIOUS
  <1> DEFINE w == WalkedTo(n)
             v == WalkedTo(n + 1)
  <1>5. /\ w \in Seq(S) /\ v \in Seq(S) /\ Len(w) = n /\ Len(v) = n + 1
        /\ DOMAIN w = 1..n
        /\ \A i \in 1..n : w[i] = E(i)
        /\ \A i \in 1..(n + 1) : v[i] = E(i)
    BY <1>1, <1>3, <1>4
  <1> HIDE DEF w, v, S
  <1>6. /\ Append(w, E(n + 1)) \in Seq(S) /\ Len(Append(w, E(n + 1))) = n + 1
        /\ \A i \in 1..n : Append(w, E(n + 1))[i] = w[i]
        /\ Append(w, E(n + 1))[n + 1] = E(n + 1)
    BY <1>2, <1>5, AppendProperties
  <1>7. \A i \in 1..(n + 1) : i \in 1..n \/ i = n + 1
    OBVIOUS
  <1>8. \A i \in 1..(n + 1) : v[i] = Append(w, E(n + 1))[i]
    BY <1>5, <1>6, <1>7
  <1>9. v = Append(w, E(n + 1))
    BY <1>5, <1>6, <1>8, SeqEqual
  <1> QED BY <1>2, <1>5, <1>9 DEF w, v, S, E

(* The end of the walk is the whole document. *)
LEMMA WalkedWhole ==
  ASSUME TypeOK
  PROVE  /\ Cardinality(Known) \in Nat /\ Len(Service!Expected) = Cardinality(Known)
         /\ DOMAIN Service!Expected = 1..Cardinality(Known)
         /\ WalkedTo(Cardinality(Known)) = Service!Expected
  <1>1. snap \in Databases /\ call.model \in Models
    BY DEF TypeOK
  <1>2. Known = KnownIn(snap, call.model) /\ Service!Expected = Document[snap][call.model]
    BY DEF Known, KnownIn, schema, Service!Expected
  <1> QED BY <1>1, <1>2, DocumentByRank DEF WalkedTo

LEMMA BehindIs ==
  ASSUME Inductive
  PROVE  /\ pc \in {"visit", "end"} => Behind = Passed(cur)
         /\ pc \in {"callback", "next"} => /\ cur \in Keys[snap]
                                           /\ Behind = Through(cur)
         /\ cur = NotFound => Behind = Known
  BY DEF Inductive, TypeOK, CursorAhead, Behind, Passed, Through

LEMMA GatheredIs ==
  ASSUME NEW n \in Nat, n = Cardinality(Behind), pc \in {"visit", "callback", "next", "end"}, ~stopped
  PROVE  GatheredInOrder <=> Gathered(n)
  <1>1. Walked = WalkedTo(n)
    BY DEF Walked, WalkedTo
  <1>2. DOMAIN WalkedTo(n) = 1..n /\ \A i \in 1..n : WalkedTo(n)[i] = Service!Expected[i]
    BY WalkedSteps
  <1> QED BY <1>1, <1>2 DEF GatheredInOrder, Gathered

LEMMA BehindCounted ==
  ASSUME TypeOK, NEW B \in SUBSET Known
  PROVE  Cardinality(B) \in Nat
  <1>1. IsFiniteSet(Known)
    <2>1. Known = KnownIn(snap, call.model) /\ snap \in Databases /\ call.model \in Models
      BY DEF TypeOK, Known, KnownIn, schema
    <2> QED BY <2>1, KnownOrdered
  <1> QED BY <1>1, FS_Subset, FS_CardinalityType

(* While the call walks, its snapshot and its arguments stay, and with     *)
(* them what it has to produce.                                            *)
LEMMA SameWalk ==
  ASSUME snap' = snap, call' = call
  PROVE  /\ Known' = Known /\ Service!Expected' = Service!Expected
         /\ \A n : WalkedTo(n)' = WalkedTo(n)
         /\ \A w : Service!GroupsOf(w)' = Service!GroupsOf(w)
         /\ \A o : KeyOf(o)' = KeyOf(o)
  BY DEF Known, schema, WalkedTo, Service!Expected, Service!GroupsOf, Service!Places, KeyOf

LEMMA SameGathered ==
  ASSUME snap' = snap, call' = call, out' = out, result' = result, NEW n
  PROVE  Gathered(n)' <=> Gathered(n)
  <1>1. WalkedTo(n)' = WalkedTo(n) /\ Service!Expected' = Service!Expected
        /\ Service!GroupsOf(WalkedTo(n))' = Service!GroupsOf(WalkedTo(n))
    BY SameWalk DEF WalkedTo, Service!Expected, Service!GroupsOf, Service!Places
  <1> QED BY <1>1 DEF Gathered

(* Of the next state: what is gathered there is what lies behind there.    *)
LEMMA GatheredNext ==
  ASSUME NEW n \in Nat, n = Cardinality(Behind'), Gathered(n)', snap' = snap, call' = call
  PROVE  GatheredInOrder'
  <1>1. Walked' = WalkedTo(n)'
    BY DEF Walked, WalkedTo
  <1>2. Service!GroupsOf(Walked)' = Service!GroupsOf(WalkedTo(n))'
    BY <1>1 DEF Service!GroupsOf, Service!Places
  <1>3. WalkedTo(n)' = WalkedTo(n) /\ Service!Expected' = Service!Expected
    BY SameWalk
  <1>4. DOMAIN WalkedTo(n)' = 1..n
        /\ \A i \in 1..n : WalkedTo(n)'[i] = Service!Expected'[i]
    BY <1>3, WalkedSteps
  <1> QED BY <1>1, <1>2, <1>4 DEF GatheredInOrder, Gathered

(* A step that gathers nothing and leaves as many objects behind.          *)
LEMMA KeepsGathered ==
  ASSUME ServiceInductive, snap' = snap, call' = call, out' = out, result' = result,
         pc \in {"visit", "callback", "next", "end"}, ~stopped,
         Cardinality(Behind') = Cardinality(Behind)
  PROVE  GatheredInOrder'
  <1> DEFINE n == Cardinality(Behind)
  <1>1. n \in Nat
    BY BehindCounted DEF ServiceInductive, Inductive, Behind
  <1> HIDE DEF n
  <1>2. Gathered(n)'
    BY <1>1, GatheredIs, SameGathered DEF n, ServiceInductive
  <1> QED BY <1>1, <1>2, GatheredNext DEF n

-----------------------------------------------------------------------------
(* The invariant, step by step. *)

(* The walk begins at the first key, with nothing gathered.                *)
LEMMA BeginsEmpty ==
  ASSUME ServiceInductive, pc = "first", CursorFirst, Goto("visit")
  PROVE  GatheredInOrder'
  <1>1. /\ TypeOK /\ pc' = "visit" /\ snap' = snap /\ call' = call
        /\ out' = out /\ result' = result /\ CursorLands(Keys[snap], cur')
    BY DEF ServiceInductive, Inductive, Goto, CursorFirst
  <1>2. out = <<>> /\ result = <<>>
    BY DEF ServiceInductive, Inductive, CallShape, HandlesByPhase, CursorAhead
  <1>3. Behind' = Passed(cur')
    BY <1>1 DEF Behind, Passed, Known, schema, KeyOf
  <1>4. Cardinality(Behind') = 0
    BY <1>1, <1>3, FirstLanding, FS_EmptySet
  <1>5. WalkedTo(0) = <<>>
    BY DEF WalkedTo
  <1>6. Gathered(0)
    BY <1>2, <1>5, NoGroups DEF Gathered
  <1>7. Gathered(0)'
    BY <1>1, <1>6, SameGathered
  <1> QED BY <1>1, <1>4, <1>7, GatheredNext

(* On a record nothing was taken of yet, as many are gathered as lie       *)
(* behind, and the record is the next one of the document.                 *)
LEMMA AtNext ==
  ASSUME ServiceInductive, AtRecord, ~Skipped(cur)
  PROVE  LET n == Cardinality(Passed(cur))
         IN  /\ n \in Nat /\ n + 1 \in 1..Cardinality(Known) /\ Gathered(n)
             /\ Cardinality(Through(cur)) = n + 1
             /\ Service!Expected[n + 1] = Record(cur)
             /\ Record(cur).body = BodyAt(snap, cur)
             /\ ~stopped /\ cur \in Keys[snap]
  <1>1. TypeOK /\ cur \in Keys[snap] /\ pc = "visit" /\ ~stopped
    BY DEF ServiceInductive, Inductive, TypeOK, AtRecord, CallShape
  <1>2. Behind = Passed(cur)
    BY <1>1, BehindIs DEF ServiceInductive
  <1> DEFINE n == Cardinality(Passed(cur))
  <1>3. /\ n \in Nat /\ n + 1 \in 1..Cardinality(Known)
        /\ Cardinality(Through(cur)) = n + 1
        /\ Service!Expected[n + 1] = Record(cur)
        /\ Record(cur).body = BodyAt(snap, cur)
    BY <1>1, Taken
  <1>4. n = Cardinality(Behind)
    BY <1>2
  <1> HIDE DEF n
  <1>5. Gathered(n)
    BY <1>1, <1>3, <1>4, GatheredIs DEF ServiceInductive
  <1> QED BY <1>1, <1>3, <1>5 DEF n

(* Taking the record puts it at the end of what was gathered.              *)
LEMMA TakenIsGathered ==
  ASSUME ServiceInductive, Collect \/ Deliver
  PROVE  GatheredInOrder'
  <1> DEFINE rec == Record(cur)
  <1>1. /\ AtRecord /\ ~Skipped(cur) /\ snap' = snap /\ call' = call /\ cur' = cur
        /\ pc' \in {"callback", "next"}
    BY DEF Collect, Deliver, readerVars
  <1> HIDE DEF rec
  <1>2. PICK n \in Nat : /\ Gathered(n) /\ Cardinality(Through(cur)) = n + 1
                        /\ Service!Expected[n + 1] = rec /\ rec.body = BodyAt(snap, cur)
                        /\ cur \in Keys[snap]
    BY <1>1, AtNext DEF rec
  <1>3. cur # NotFound
    BY <1>1 DEF AtRecord
  <1>4. Behind' = Through(cur)
    BY <1>1, <1>3 DEF Behind, Through, Known, schema, KeyOf
  <1>5. n + 1 \in Nat /\ n + 1 = Cardinality(Behind')
    BY <1>2, <1>4
  <1>6. PICK S : /\ WalkedTo(n) \in Seq(S) /\ rec \in S
                 /\ WalkedTo(n + 1) = Append(WalkedTo(n), rec)
    BY <1>2, WalkedSteps
  <1>7. /\ WalkedTo(n + 1)' = WalkedTo(n + 1) /\ Service!Expected' = Service!Expected
        /\ Service!GroupsOf(WalkedTo(n + 1))' = Service!GroupsOf(WalkedTo(n + 1))
    BY <1>1, SameWalk DEF WalkedTo, Service!Expected, Service!GroupsOf, Service!Places
  <1>8. \A i \in 1..(n + 1) : i \in 1..n \/ i = n + 1
    BY <1>2
  <1>9. CASE Collect
    <2>1. call.op = "dump" /\ result' = Grouped(result, rec) /\ BodyAt(snap, cur) # "corrupt"
      BY <1>9 DEF Collect, rec
    <2>2. /\ result = Service!GroupsOf(WalkedTo(n))
          /\ \A i \in 1..n : Service!Expected[i].body # "corrupt"
      BY <1>2, <2>1 DEF Gathered
    <2>3. result' = Service!GroupsOf(WalkedTo(n + 1))
      BY <1>6, <2>1, <2>2, GroupedOnce
    <2>4. \A i \in 1..(n + 1) : Service!Expected[i].body # "corrupt"
      BY <1>2, <1>8, <2>1, <2>2
    <2>5. Gathered(n + 1)'
      BY <1>1, <1>7, <2>1, <2>3, <2>4 DEF Gathered
    <2> QED BY <1>1, <1>5, <2>5, GatheredNext
  <1>10. CASE Deliver
    <2>1. call.op = "stream" /\ out' = Append(out, rec) /\ BodyAt(snap, cur) = "good"
      BY <1>10 DEF Deliver, rec
    <2>2. out = WalkedTo(n) /\ \A i \in 1..n : Service!Expected[i].body = "good"
      BY <1>2, <2>1 DEF Gathered
    <2>3. out' = WalkedTo(n + 1)
      BY <1>6, <2>1, <2>2
    <2>4. \A i \in 1..(n + 1) : Service!Expected[i].body = "good"
      BY <1>2, <1>8, <2>1, <2>2
    <2>5. Gathered(n + 1)'
      BY <1>1, <1>7, <2>1, <2>3, <2>4 DEF Gathered
    <2> QED BY <1>1, <1>5, <2>5, GatheredNext
  <1> QED BY <1>9, <1>10

(* What lies behind the cursor changes with a record that is taken, and    *)
(* with nothing else.                                                      *)
LEMMA PassingKeeps ==
  ASSUME ServiceInductive,
         \/ Skip
         \/ CallbackContinues
         \/ EndOfWalk
         \/ pc = "next" /\ CursorNext /\ Goto("visit")
         \/ pc \in {"visit", "callback", "next", "end"} /\ (Write \/ UNCHANGED vars)
  PROVE  GatheredInOrder'
  <1>1. /\ TypeOK /\ snap' = snap /\ call' = call /\ out' = out /\ result' = result
        /\ pc \in {"visit", "callback", "next", "end"} /\ stopped' = stopped
    BY DEF ServiceInductive, Inductive, Skip, AtRecord, CallbackContinues, EndOfWalk, CursorNext,
           Goto, Write, Commit, vars, callVars, readerVars
  <1>2. /\ pc \in {"visit", "end"} => Behind = Passed(cur)
        /\ pc \in {"callback", "next"} => cur \in Keys[snap] /\ Behind = Through(cur)
        /\ cur = NotFound => Behind = Known
    BY BehindIs DEF ServiceInductive
  <1>3. ASSUME ~stopped, Behind' = Behind PROVE GatheredInOrder'
    BY <1>1, <1>3, KeepsGathered
  <1>4. CASE Skip
    <2>1. /\ cur \in Keys[snap] /\ Skipped(cur) /\ pc = "visit" /\ pc' = "next" /\ cur' = cur
          /\ cur # NotFound /\ ~stopped
      BY <1>1, <1>4 DEF Skip, AtRecord, Goto, readerVars, TypeOK, ServiceInductive, CallShape
    <2>2. Through(cur) = Passed(cur)
      BY <1>1, <2>1, NothingTaken
    <2>3. Behind' = Through(cur)
      BY <1>1, <2>1 DEF Behind, Through, Known, schema, KeyOf
    <2> QED BY <1>2, <1>3, <2>1, <2>2, <2>3
  <1>5. CASE CallbackContinues
    <2>1. /\ pc = "callback" /\ pc' = "next" /\ cur' = cur /\ ~stopped
      BY <1>5 DEF CallbackContinues, Goto, readerVars, ServiceInductive, CallShape
    <2>2. Behind' = Behind
      BY <1>1, <2>1 DEF Behind, Known, schema, KeyOf
    <2> QED BY <1>3, <2>1, <2>2
  <1>6. CASE EndOfWalk
    <2>1. /\ pc = "visit" /\ pc' = "end" /\ cur' = cur /\ ~stopped
      BY <1>6 DEF EndOfWalk, Goto, readerVars, ServiceInductive, CallShape
    <2>2. Behind' = Behind
      BY <1>1, <2>1 DEF Behind, Known, schema, KeyOf
    <2> QED BY <1>3, <2>1, <2>2
  <1>7. CASE pc = "next" /\ CursorNext /\ Goto("visit")
    <2>1. /\ pc' = "visit" /\ ~stopped /\ CursorLands({j \in Keys[snap] : KeyLess(cur, j)}, cur')
      BY <1>7 DEF CursorNext, Goto, ServiceInductive, CallShape
    <2>2. cur \in Keys[snap] /\ Behind = Through(cur)
      BY <1>2, <1>7
    <2>3. Passed(cur') = Through(cur)
      BY <1>1, <2>1, <2>2, NextLanding
    <2>4. Behind' = Passed(cur')
      BY <1>1, <2>1 DEF Behind, Passed, Known, schema, KeyOf
    <2> QED BY <1>3, <2>1, <2>2, <2>3, <2>4
  <1>8. CASE Write \/ UNCHANGED vars
    <2>1. pc' = pc /\ cur' = cur
      BY <1>8 DEF Write, Commit, vars, callVars, readerVars
    <2>2. Behind' = Behind
      BY <1>1, <2>1 DEF Behind, Known, schema, KeyOf
    <2>3. CASE stopped
      BY <1>1, <2>3 DEF GatheredInOrder
    <2> QED BY <1>3, <2>2, <2>3
  <1> QED BY <1>4, <1>5, <1>6, <1>7, <1>8

-----------------------------------------------------------------------------
LEMMA ShapeStep == ServiceInductive /\ [Next]_vars => CallShape'
  <1> SUFFICES ASSUME ServiceInductive, [Next]_vars PROVE CallShape'
    OBVIOUS
  <1>1. CallShape
    BY DEF ServiceInductive
  <1>2. CASE Call \/ ParseSchema \/ CreateEnv \/ StatPath \/ OpenEnv \/ BeginTxn \/ OpenDbi
    BY <1>1, <1>2 DEF Call, ParseSchema, CreateEnv, StatPath, OpenEnv, BeginTxn, OpenDbi,
                      Goto, Fail, Return, CallShape
  <1>3. CASE OpenCursor \/ Skip \/ RecordThrows \/ Collect \/ Advance \/ EndOfWalk \/ Finish
    BY <1>1, <1>3 DEF OpenCursor, Skip, AtRecord, RecordThrows, Collect, Advance, EndOfWalk,
                      Finish, Goto, Fail, Return, CallShape, readerVars
  <1>4. CASE Deliver
    <2>1. PICK S : out \in Seq(S) /\ Record(cur) \in S
      <3>1. out \in Seq({out[i] : i \in DOMAIN out} \cup {Record(cur)})
        BY DEF ServiceInductive, Inductive, CursorAhead
      <3> QED BY <3>1
    <2>2. out' # <<>>
      BY <1>4, <2>1 DEF Deliver
    <2> QED BY <1>1, <1>4, <2>2 DEF Deliver, AtRecord, CallShape
  <1>5. CASE CallbackContinues \/ CallbackStops \/ Write \/ UNCHANGED vars
    BY <1>1, <1>5 DEF CallbackContinues, CallbackStops, Write, Commit, Goto, CallShape,
                      vars, callVars, readerVars
  <1> QED BY <1>2, <1>3, <1>4, <1>5 DEF Next, DumpStep

LEMMA GatheredStep == ServiceInductive /\ [Next]_vars => GatheredInOrder'
  <1> SUFFICES ASSUME ServiceInductive, [Next]_vars PROVE GatheredInOrder'
    OBVIOUS
  <1>1. ASSUME pc' \notin {"visit", "callback", "next", "end"} \/ stopped'
        PROVE  GatheredInOrder'
    BY <1>1 DEF GatheredInOrder
  <1>2. CASE Call \/ ParseSchema \/ CreateEnv \/ StatPath \/ OpenEnv \/ BeginTxn \/ OpenDbi
    BY <1>1, <1>2 DEF Call, ParseSchema, CreateEnv, StatPath, OpenEnv, BeginTxn, OpenDbi,
                      Goto, Fail, Return
  <1>3. CASE OpenCursor
    BY <1>1, <1>3, BeginsEmpty DEF OpenCursor, Fail, Return
  <1>4. CASE Skip \/ CallbackContinues \/ EndOfWalk
    BY <1>4, PassingKeeps
  <1>5. CASE Collect \/ Deliver
    BY <1>5, TakenIsGathered
  <1>6. CASE RecordThrows \/ Finish \/ CallbackStops
    BY <1>1, <1>6 DEF RecordThrows, Finish, CallbackStops, Fail, Return
  <1>7. CASE Advance
    BY <1>1, <1>7, PassingKeeps DEF Advance, Fail, Return
  <1>8. CASE Write \/ UNCHANGED vars
    <2>1. CASE pc \in {"visit", "callback", "next", "end"}
      BY <1>8, <2>1, PassingKeeps
    <2>2. CASE pc \notin {"visit", "callback", "next", "end"}
      BY <1>1, <1>8, <2>2 DEF Write, vars, callVars
    <2> QED BY <2>1, <2>2
  <1> QED BY <1>2, <1>3, <1>4, <1>5, <1>6, <1>7, <1>8 DEF Next, DumpStep

(* In every reachable state the call has gathered exactly the first        *)
(* records of the document of its snapshot, as many as the cursor has      *)
(* passed: none is lost, doubled, out of order or short of a link.         *)
THEOREM ServiceInvariance == Spec => []ServiceInductive
  <1>1. Init => ServiceInductive
    BY InitInductive DEF Init, ServiceInductive, CallShape, GatheredInOrder
  <1>2. ServiceInductive /\ [Next]_vars => ServiceInductive'
    BY TypingStep, StreamStep, ShapeStep, GatheredStep DEF ServiceInductive, Inductive
  <1> QED BY <1>1, <1>2, PTL DEF Spec

-----------------------------------------------------------------------------
(* The refinement, step by step. *)

LEMMA BodiesOfDocument ==
  ASSUME TypeOK, NEW i \in DOMAIN Service!Expected
  PROVE  Service!Expected[i].body \in Bodies
  <1> DEFINE S == KnownIn(snap, call.model)
             R == InOrder(S)
             o == Listed(R, S)[i]
  <1>1. snap \in Databases /\ call.model \in Models
    BY DEF TypeOK
  <1>2. Service!Expected = Document[snap][call.model]
    BY DEF Service!Expected
  <1>3. /\ i \in 1..Cardinality(S)
        /\ Document[snap][call.model][i] = Described(snap, Parse(call.model), o)
    <2>1. /\ DOMAIN Document[snap][call.model] = 1..Cardinality(S)
          /\ \A j \in 1..Cardinality(S) :
               Document[snap][call.model][j] = Described(snap, Parse(call.model), Listed(R, S)[j])
      BY <1>1, DocumentByRank
    <2> HIDE DEF S, R
    <2> QED BY <1>2, <2>1
  <1>4. o \in S /\ S \subseteq snap.objects
    <2>1. IsFiniteSet(S) /\ Orders(R, S) /\ \A x \in S : x \in snap.objects
      BY <1>1, KnownOrdered
    <2> HIDE DEF S, R
    <2> QED BY <1>3, <2>1, ListedByRank
  <1>5. o.body \in Bodies
    BY <1>1, <1>4, DatabasesAssumption DEF IsDatabase
  <1> HIDE DEF o
  <1>6. Described(snap, Parse(call.model), o).body = o.body
    BY DEF Described
  <1> QED BY <1>2, <1>3, <1>5, <1>6

(* A record the walk stands on is the one the service has next, and its    *)
(* body decides what may happen to it.                                     *)
LEMMA NextOfService ==
  ASSUME ServiceInductive, AtRecord, ~Skipped(cur)
  PROVE  /\ call.op = "stream" =>
              /\ Len(out) < Len(Service!Expected)
              /\ Service!Expected[Len(out) + 1] = Record(cur)
         /\ \E i \in DOMAIN Service!Expected : Service!Expected[i].body = BodyAt(snap, cur)
         /\ Record(cur).body = BodyAt(snap, cur)
         /\ ~stopped
  <1>1. PICK n \in Nat : /\ n + 1 \in 1..Cardinality(Known) /\ Gathered(n)
                        /\ Service!Expected[n + 1] = Record(cur)
                        /\ Record(cur).body = BodyAt(snap, cur) /\ ~stopped
    BY AtNext
  <1>2. /\ Cardinality(Known) \in Nat /\ Len(Service!Expected) = Cardinality(Known)
        /\ DOMAIN Service!Expected = 1..Cardinality(Known)
    BY WalkedWhole DEF ServiceInductive, Inductive
  <1>4. call.op = "stream" => out = WalkedTo(n)
    BY <1>1 DEF Gathered
  <1>5. call.op = "stream" => Len(out) = n
    BY <1>4, WalkedSteps
  <1> QED BY <1>1, <1>2, <1>5

(* A walk that came to its end has gathered the whole document.            *)
LEMMA WholeDocument ==
  ASSUME ServiceInductive, pc = "end", ~stopped
  PROVE  IF call.op = "stream"
         THEN out = Service!Expected
         ELSE /\ result = Service!GroupsOf(Service!Expected)
              /\ \A i \in DOMAIN Service!Expected : Service!Expected[i].body # "corrupt"
  <1>1. TypeOK /\ cur = NotFound /\ GatheredInOrder
    BY DEF ServiceInductive, Inductive, CallShape
  <1>2. Behind = Known
    BY <1>1, BehindIs DEF ServiceInductive
  <1> DEFINE N == Cardinality(Known)
  <1>3. /\ N \in Nat /\ DOMAIN Service!Expected = 1..N /\ WalkedTo(N) = Service!Expected
    BY <1>1, WalkedWhole
  <1> HIDE DEF N
  <1>4. Gathered(N)
    BY <1>1, <1>2, <1>3, GatheredIs DEF N
  <1> QED BY <1>3, <1>4 DEF Gathered

(* The document of a dump can be serialized unless a record of it has a    *)
(* string that is not UTF-8.                                               *)
LEMMA SerializableTells ==
  ASSUME TypeOK, result = Service!GroupsOf(Service!Expected)
  PROVE  Serializable <=>
           \A i \in DOMAIN Service!Expected : Service!Expected[i].body = "good"
  <1> DEFINE w == Service!Expected
  <1>1. PICK S : w \in Seq(S)
    BY WalkedWhole, WalkedSteps
  <1>2. DOMAIN result = Names(w)
    BY <1>1, GroupByPlace
  <1> HIDE DEF w
  <1>3. /\ \A n \in DOMAIN result : \A k \in DOMAIN result[n] :
             \E i \in DOMAIN w : result[n][k] = w[i]
        /\ \A i \in DOMAIN w : \E n \in DOMAIN result : \E k \in DOMAIN result[n] :
             result[n][k] = w[i]
    BY <1>1, <1>2, GroupMembers DEF w
  <1> QED BY <1>3 DEF Serializable, w

-----------------------------------------------------------------------------
LEMMA FinishRefines ==
  ASSUME ServiceInductive, Finish
  PROVE  Service!FinishStream \/ Service!FinishDump \/ Service!BadRecord
  <1>1. /\ pc = "end" /\ snap' = snap /\ db' = db /\ pc' = "idle" /\ TypeOK
        /\ call' = call /\ out' = out /\ stopped' = stopped
    BY DEF Finish, CursorCloseAndDestroy, Release, Return, Fail, ServiceInductive, Inductive
  <1>2. CASE call.op = "stream"
    <2>1. ret' = [rc |-> "ok", json |-> <<>>]
      BY <1>2 DEF Finish, Return, NoJson
    <2>2. stopped \/ out = Service!Expected
      BY <1>1, <1>2, WholeDocument
    <2> QED BY <1>1, <1>2, <2>1, <2>2 DEF Service!FinishStream, Service!Return
  <1>3. CASE call.op = "dump"
    <2>1. ~stopped
      BY <1>3 DEF ServiceInductive, CallShape
    <2>2. /\ result = Service!GroupsOf(Service!Expected)
          /\ \A i \in DOMAIN Service!Expected : Service!Expected[i].body # "corrupt"
      BY <1>1, <1>3, <2>1, WholeDocument
    <2>3. Serializable <=> \A i \in DOMAIN Service!Expected : Service!Expected[i].body = "good"
      BY <1>1, <2>2, SerializableTells
    <2>4. CASE Serializable
      <3>1. ret' = [rc |-> "ok", json |-> Service!GroupsOf(Service!Expected)]
        BY <1>3, <2>2, <2>4 DEF Finish, Return
      <3>2. ~Service!Bad("corrupt") /\ ~Service!Bad("badUtf8")
        BY <2>2, <2>3, <2>4 DEF Service!Bad
      <3> QED BY <1>1, <1>3, <3>1, <3>2 DEF Service!FinishDump, Service!Return
    <2>5. CASE ~Serializable
      <3>1. ret' = [rc |-> "badUtf8", json |-> <<>>]
        BY <1>3, <2>5 DEF Finish, Fail, Return, NoJson
      <3>2. PICK i \in DOMAIN Service!Expected : Service!Expected[i].body # "good"
        BY <2>3, <2>5
      <3>3. Service!Expected[i].body = "badUtf8"
        BY <1>1, <2>2, <3>2, BodiesOfDocument DEF Bodies
      <3>4. Service!Bad("badUtf8") /\ ~Service!Bad("corrupt")
        BY <2>2, <3>3 DEF Service!Bad
      <3> QED BY <1>1, <1>3, <3>1, <3>4 DEF Service!BadRecord, Service!Return
    <2> QED BY <2>4, <2>5
  <1>4. call.op \in {"dump", "stream"}
    BY <1>1, OperationsAssumption DEF TypeOK
  <1> QED BY <1>2, <1>3, <1>4

LEMMA RecordThrowsRefines ==
  ASSUME ServiceInductive, RecordThrows
  PROVE  Service!BadRecord \/ Service!ReadFails
  <1>1. /\ AtRecord /\ ~Skipped(cur) /\ pc = "visit" /\ pc' = "idle" /\ TypeOK
        /\ snap' = snap /\ db' = db /\ call' = call /\ out' = out /\ stopped' = stopped
    BY DEF RecordThrows, AtRecord, Destroy, Release, Return, Fail, ServiceInductive, Inductive
  <1>2. /\ call.op = "stream" =>
             /\ Len(out) < Len(Service!Expected)
             /\ Service!Expected[Len(out) + 1].body = BodyAt(snap, cur)
        /\ \E i \in DOMAIN Service!Expected : Service!Expected[i].body = BodyAt(snap, cur)
        /\ ~stopped
    BY <1>1, NextOfService
  <1>3. call.op \in {"dump", "stream"}
    BY <1>1, OperationsAssumption DEF TypeOK
  <1>4. CASE BodyAt(snap, cur) = "corrupt" /\ Fail("corrupt")
    <2>1. ret' = [rc |-> "corrupt", json |-> <<>>]
      BY <1>4 DEF Fail, Return, NoJson
    <2>2. call.op = "stream" => Service!NextBody("corrupt")
      BY <1>2, <1>4 DEF Service!NextBody
    <2>3. Service!Bad("corrupt")
      BY <1>2, <1>4 DEF Service!Bad
    <2> QED BY <1>1, <1>2, <1>3, <2>1, <2>2, <2>3 DEF Service!BadRecord, Service!Return
  <1>5. CASE "cursor" \in Faults /\ Fail("cursor")
    <2>1. ret' = [rc |-> "cursor", json |-> <<>>]
      BY <1>5 DEF Fail, Return, NoJson
    <2> QED BY <1>1, <1>2, <1>5, <2>1 DEF Service!ReadFails, Service!Return
  <1>6. CASE call.op = "stream" /\ BodyAt(snap, cur) = "badUtf8" /\ Fail("badUtf8")
    <2>1. ret' = [rc |-> "badUtf8", json |-> <<>>]
      BY <1>6 DEF Fail, Return, NoJson
    <2>2. Service!NextBody("badUtf8")
      BY <1>2, <1>6 DEF Service!NextBody
    <2> QED BY <1>1, <1>2, <1>6, <2>1, <2>2 DEF Service!BadRecord, Service!Return
  <1> QED BY <1>4, <1>5, <1>6 DEF RecordThrows

LEMMA DeliverRefines ==
  ASSUME ServiceInductive, Deliver
  PROVE  Service!Deliver
  <1>1. /\ AtRecord /\ ~Skipped(cur) /\ pc = "visit" /\ pc' = "callback"
        /\ snap' = snap /\ db' = db /\ call' = call /\ ret' = ret /\ stopped' = stopped
        /\ call.op = "stream" /\ BodyAt(snap, cur) = "good" /\ out' = Append(out, Record(cur))
    BY DEF Deliver, AtRecord, readerVars
  <1>2. /\ Len(out) < Len(Service!Expected)
        /\ Service!Expected[Len(out) + 1] = Record(cur)
        /\ Record(cur).body = BodyAt(snap, cur) /\ ~stopped
    BY <1>1, NextOfService
  <1>3. Service!NextBody("good")
    BY <1>1, <1>2 DEF Service!NextBody
  <1>4. out' = Append(out, Service!Expected[Len(out) + 1])
    BY <1>1, <1>2
  <1> QED BY <1>1, <1>2, <1>3, <1>4 DEF Service!Deliver, Service!Streaming

(* A failing LMDB call ends the call of the service with its error.        *)
LEMMA FailureRefines ==
  ASSUME ServiceInductive, CreateEnv \/ StatPath \/ OpenEnv \/ BeginTxn \/ OpenDbi
                           \/ OpenCursor \/ Advance,
         pc' = "idle"
  PROVE  Service!OpenFails \/ Service!ReadFails
  <1>1. /\ snap' = snap /\ db' = db /\ call' = call /\ out' = out /\ stopped' = stopped
        /\ Faults # {}
        /\ \/ pc \in {"create", "stat", "open", "begin"} /\ call.model.ok /\
                \E rc \in {"env_create", "stat", "env_open", "txn_begin"} :
                  ret' = [rc |-> rc, json |-> <<>>]
           \/ pc \in {"dbi", "first", "next"} /\ ~stopped /\
                \E rc \in {"dbi_open", "cursor"} : ret' = [rc |-> rc, json |-> <<>>]
    BY DEF CreateEnv, StatPath, OpenEnv, BeginTxn, OpenDbi, OpenCursor, Advance, Goto, Fail,
           Return, NoJson, ThrowBeforeOpen, ThrowFromOpen, Destroy, CursorCloseAndDestroy,
           Release, ServiceInductive, CallShape
  <1> QED BY <1>1 DEF Service!OpenFails, Service!ReadFails, Service!Return

(* A step inside the call that changes nothing the service speaks of.      *)
LEMMA Stutters ==
  ASSUME db' = db, snap' = snap, call' = call, out' = out, stopped' = stopped, ret' = ret,
         \/ pc' = pc
         \/ {pc, pc'} \subseteq {"parse", "create", "stat", "open", "begin"}
         \/ {pc, pc'} \cap {"idle", "parse", "create", "stat", "open", "begin"} = {}
  PROVE  UNCHANGED Service!vars
  BY DEF Service!vars

LEMMA StepRefines == ServiceInductive /\ [Next]_vars => [Service!Next]_(Service!vars)
  <1> SUFFICES ASSUME ServiceInductive, [Next]_vars
               PROVE  Service!Next \/ UNCHANGED Service!vars
    OBVIOUS
  <1>1. CASE Call
    <2>1. Service!Request
      BY <1>1 DEF Call, readerVars, NoReturn, NoJson, Service!Request, Service!NoReturn
    <2> QED BY <2>1 DEF Service!Next
  <1>2. CASE ParseSchema
    <2>1. CASE call.model.ok
      BY <1>2, <2>1, Stutters DEF ParseSchema, Goto, readerVars
    <2>2. CASE ~call.model.ok
      <3>1. Service!Reject
        BY <1>2, <2>2 DEF ParseSchema, Fail, Return, NoJson, readerVars, Service!Reject,
                          Service!Return
      <3> QED BY <3>1 DEF Service!Next, Service!Work
    <2> QED BY <2>1, <2>2
  <1>3. CASE CreateEnv \/ StatPath \/ OpenEnv \/ BeginTxn \/ OpenDbi \/ OpenCursor \/ Advance
    <2>1. CASE pc' = "idle"
      <3>1. Service!OpenFails \/ Service!ReadFails
        BY <1>3, <2>1, FailureRefines
      <3> QED BY <3>1 DEF Service!Next, Service!Work
    <2>2. CASE pc' # "idle" /\ ~BeginTxn
      <3>1. /\ db' = db /\ snap' = snap /\ call' = call /\ out' = out /\ stopped' = stopped
            /\ ret' = ret
            /\ \/ {pc, pc'} \subseteq {"parse", "create", "stat", "open", "begin"}
               \/ {pc, pc'} \cap {"idle", "parse", "create", "stat", "open", "begin"} = {}
        BY <1>3, <2>2 DEF CreateEnv, StatPath, OpenEnv, OpenDbi, OpenCursor, Advance, Goto, Fail,
             Return, EnvCreate, EnvOpen, Acquire, CursorFirst, CursorNext, readerVars
      <3> QED BY <3>1, Stutters
    <2>3. CASE pc' # "idle" /\ BeginTxn
      <3>1. TxnBegin /\ Goto("dbi") /\ pc = "begin" /\ call.model.ok
        BY <2>3 DEF BeginTxn, Fail, Return, ServiceInductive, CallShape
      <3>2. Service!TakeState
        BY <3>1 DEF TxnBegin, Acquire, Goto, Service!TakeState
      <3> QED BY <3>2 DEF Service!Next, Service!Work
    <2> QED BY <2>1, <2>2, <2>3
  <1>4. CASE Skip \/ Collect \/ CallbackContinues \/ EndOfWalk
    BY <1>4, Stutters DEF Skip, Collect, AtRecord, CallbackContinues, EndOfWalk, Goto, readerVars
  <1>5. CASE RecordThrows
    BY <1>5, RecordThrowsRefines DEF Service!Next, Service!Work
  <1>6. CASE Deliver
    BY <1>6, DeliverRefines DEF Service!Next, Service!Work
  <1>7. CASE CallbackStops
    <2>1. call.op = "stream" /\ out # <<>> /\ ~stopped
      BY <1>7 DEF CallbackStops, ServiceInductive, CallShape
    <2>2. Service!Stop
      BY <1>7, <2>1 DEF CallbackStops, readerVars, Service!Stop, Service!Streaming
    <2> QED BY <2>2 DEF Service!Next, Service!Work
  <1>8. CASE Finish
    BY <1>8, FinishRefines DEF Service!Next, Service!Work
  <1>9. CASE Write
    <2>1. Service!Commit
      BY <1>9 DEF Write, Commit, callVars, Service!Commit
    <2> QED BY <2>1 DEF Service!Next
  <1>10. CASE UNCHANGED vars
    BY <1>10, Stutters DEF vars, callVars, readerVars
  <1> QED BY <1>1, <1>2, <1>3, <1>4, <1>5, <1>6, <1>7, <1>8, <1>9, <1>10 DEF Next, DumpStep

(* What ob_dump() returns and what ob_dump_stream() delivers is what the   *)
(* service promises: records of one state of the database that was current *)
(* at some instant of the call, all of them and in order unless the        *)
(* callback stopped, or an error that has its reason.                      *)
THEOREM DumpsAsPromised == Spec => Service!Safe
  <1>1. Init => Service!Init
    BY DEF Init, ReaderInit, NoReturn, NoJson, Service!Init, Service!NoReturn
  <1>2. ServiceInductive /\ [Next]_vars => [Service!Next]_(Service!vars)
    BY StepRefines
  <1> QED BY <1>1, <1>2, ServiceInvariance, PTL DEF Spec, Service!Safe

-----------------------------------------------------------------------------
(* Sequences of tokens. *)

(* A sequence is known from its members.                                   *)
LEMMA Join ==
  ASSUME NEW T, NEW s \in Seq(T), NEW t \in Seq(T), NEW u \in Seq(T),
         Len(u) = Len(s) + Len(t), \A i \in 1..Len(s) : u[i] = s[i],
         \A i \in 1..Len(t) : u[Len(s) + i] = t[i]
  PROVE  s \o t = u
  <1>1. /\ s \o t \in Seq(T) /\ Len(s \o t) = Len(u)
        /\ \A i \in 1..Len(u) : (s \o t)[i] = IF i <= Len(s) THEN s[i] ELSE t[i - Len(s)]
    BY ConcatProperties
  <1>2. ASSUME NEW i \in 1..Len(u) PROVE (s \o t)[i] = u[i]
    <2>1. CASE i <= Len(s)
      BY <1>1, <2>1
    <2>2. CASE ~(i <= Len(s))
      <3>1. i - Len(s) \in 1..Len(t) /\ i = Len(s) + (i - Len(s))
        BY <2>2
      <3> QED BY <1>1, <2>2, <3>1
    <2> QED BY <2>1, <2>2
  <1> QED BY <1>1, <1>2, SeqEqual

LEMMA PunctOne == \A a : Punct(<<a>>) = << <<a>> >>
  BY DEF Punct

LEMMA PunctTwo ==
  ASSUME NEW a, NEW b
  PROVE  Punct(<<a, b>>) = Punct(<<a>>) \o Punct(<<b>>)
  <1> DEFINE T == {<<a>>, <<b>>}
             s == << <<a>> >>
             t == << <<b>> >>
             u == << <<a>>, <<b>> >>
  <1>1. Punct(<<a>>) = s /\ Punct(<<b>>) = t /\ Punct(<<a, b>>) = u
    BY DEF Punct
  <1>2. /\ s \in Seq(T) /\ t \in Seq(T) /\ u \in Seq(T) /\ Len(s) = 1 /\ Len(t) = 1 /\ Len(u) = 2
        /\ s[1] = <<a>> /\ t[1] = <<b>> /\ u[1] = <<a>> /\ u[2] = <<b>>
    OBVIOUS
  <1> HIDE DEF s, t, u, T
  <1>3. \A i \in 1..Len(s) : u[i] = s[i]
    BY <1>2
  <1>4. \A i \in 1..Len(t) : u[Len(s) + i] = t[i]
    BY <1>2
  <1>5. Len(u) = Len(s) + Len(t)
    BY <1>2
  <1>6. s \o t = u
    BY <1>2, <1>3, <1>4, <1>5, Join
  <1> QED BY <1>1, <1>6

(* Concatenation by its laws only: the provers would go into the members.  *)
Cat(a, b) == a \o b

LEMMA CatSteps ==
  ASSUME NEW T
  PROVE  /\ \A a, b \in Seq(T) : Cat(a, b) \in Seq(T)
         /\ \A a, b, c \in Seq(T) : Cat(Cat(a, b), c) = Cat(a, Cat(b, c))
         /\ \A a \in Seq(T) : Cat(<<>>, a) = a /\ Cat(a, <<>>) = a
  <1>1. ASSUME NEW a \in Seq(T), NEW b \in Seq(T) PROVE Cat(a, b) \in Seq(T)
    BY ConcatProperties DEF Cat
  <1>2. ASSUME NEW a \in Seq(T), NEW b \in Seq(T), NEW c \in Seq(T)
        PROVE  Cat(Cat(a, b), c) = Cat(a, Cat(b, c))
    BY ConcatAssociative DEF Cat
  <1>3. ASSUME NEW a \in Seq(T) PROVE Cat(<<>>, a) = a /\ Cat(a, <<>>) = a
    BY ConcatEmptySeq DEF Cat
  <1> QED BY <1>1, <1>2, <1>3

LEMMA RegroupFive ==
  ASSUME NEW T, NEW a \in Seq(T), NEW b \in Seq(T), NEW c \in Seq(T), NEW d \in Seq(T),
         NEW e \in Seq(T)
  PROVE  Cat(Cat(a, Cat(b, Cat(c, d))), e) = Cat(Cat(Cat(a, b), c), Cat(d, e))
  BY CatSteps

LEMMA RegroupSix ==
  ASSUME NEW T, NEW a \in Seq(T), NEW b \in Seq(T), NEW c \in Seq(T), NEW d \in Seq(T),
         NEW e \in Seq(T), NEW f \in Seq(T)
  PROVE  Cat(Cat(a, Cat(Cat(b, Cat(c, d)), e)), f) = Cat(Cat(Cat(a, b), c), Cat(Cat(d, e), f))
  <1> DEFINE y == Cat(d, e)
  <1>1. y \in Seq(T)
    BY CatSteps
  <1>2. Cat(Cat(b, Cat(c, d)), e) = Cat(b, Cat(c, y))
    <2>1. Cat(c, d) \in Seq(T)
      BY CatSteps
    <2>2. Cat(Cat(b, Cat(c, d)), e) = Cat(b, Cat(Cat(c, d), e))
      BY <2>1, CatSteps
    <2>3. Cat(Cat(c, d), e) = Cat(c, y)
      BY CatSteps
    <2> QED BY <2>2, <2>3
  <1> HIDE DEF y
  <1>3. Cat(Cat(a, Cat(b, Cat(c, y))), f) = Cat(Cat(Cat(a, b), c), Cat(y, f))
    BY <1>1, RegroupFive
  <1> QED BY <1>2, <1>3 DEF y

(* The sums FlattenSeq forms, one member after the other.                  *)
Sum(f, ss, n) == f = [i \in 1..n |-> IF i = 1 THEN ss[i] ELSE f[i - 1] \o ss[i]]

LEMMA SumExists ==
  ASSUME NEW T, NEW ss \in Seq(Seq(T)), NEW n \in 0..Len(ss)
  PROVE  \E f \in [1..n -> Seq(T)] : Sum(f, ss, n)
  <1> DEFINE Bad == {k \in 0..Len(ss) : ~\E f \in [1..k -> Seq(T)] : Sum(f, ss, k)}
  <1> SUFFICES ASSUME Bad # {} PROVE FALSE
    OBVIOUS
  <1>1. Bad \subseteq Nat
    OBVIOUS
  <1>2. PICK k \in Bad : \A j \in Bad : k <= j
    <2> HIDE DEF Bad
    <2> QED BY <1>1, LeastMember
  <1>3. CASE k = 0
    <2> DEFINE f == [i \in 1..0 |-> ss[i]]
    <2>1. f \in [1..0 -> Seq(T)] /\ Sum(f, ss, 0)
      BY DEF Sum
    <2> QED BY <1>2, <1>3, <2>1
  <1>4. CASE k # 0
    <2>1. k \in 1..Len(ss) /\ k - 1 \in 0..Len(ss) /\ k - 1 \notin Bad
      <3>1. k \in 0..Len(ss) /\ Len(ss) \in Nat
        BY <1>2
      <3> HIDE DEF Bad
      <3> QED BY <1>2, <1>4, <3>1
    <2>2. PICK f \in [1..(k - 1) -> Seq(T)] : Sum(f, ss, k - 1)
      BY <2>1
    <2> DEFINE last == IF k = 1 THEN ss[k] ELSE f[k - 1] \o ss[k]
               g == [i \in 1..k |-> IF i < k THEN f[i] ELSE last]
    <2>3. \A i \in 1..Len(ss) : ss[i] \in Seq(T)
      OBVIOUS
    <2>4. last \in Seq(T)
      <3>1. CASE k = 1
        BY <2>1, <2>3, <3>1
      <3>2. CASE k # 1
        <4>1. f[k - 1] \in Seq(T) /\ ss[k] \in Seq(T)
          BY <2>1, <2>3, <3>2
        <4> QED BY <3>2, <4>1, ConcatProperties
      <3> QED BY <3>1, <3>2
    <2>5. \A i \in 1..(k - 1) : f[i] = IF i = 1 THEN ss[i] ELSE f[i - 1] \o ss[i]
      BY <2>2 DEF Sum
    <2> HIDE DEF last
    <2>6. g \in [1..k -> Seq(T)]
      BY <2>1, <2>4
    <2>7. ASSUME NEW i \in 1..k PROVE g[i] = IF i = 1 THEN ss[i] ELSE g[i - 1] \o ss[i]
      <3>1. CASE i < k
        <4>1. i \in 1..(k - 1) /\ g[i] = f[i] /\ (i # 1 => g[i - 1] = f[i - 1])
          BY <2>1, <3>1
        <4> QED BY <2>5, <4>1
      <3>2. CASE i = k
        <4>1. g[i] = last /\ (i # 1 => g[i - 1] = f[i - 1])
          BY <2>1, <3>2
        <4> QED BY <3>2, <4>1 DEF last
      <3> QED BY <2>1, <3>1, <3>2
    <2> HIDE DEF g
    <2>8. Sum(g, ss, k)
      BY <2>6, <2>7 DEF Sum
    <2> QED BY <1>2, <2>6, <2>8
  <1> QED BY <1>3, <1>4

LEMMA SumUnique ==
  ASSUME NEW ss, NEW n \in Nat, NEW f, Sum(f, ss, n), NEW g, Sum(g, ss, n)
  PROVE  f = g
  <1> DEFINE Bad == {i \in 1..n : f[i] # g[i]}
  <1>0. f = [i \in 1..n |-> f[i]] /\ g = [i \in 1..n |-> g[i]]
    BY DEF Sum
  <1>1. /\ \A i \in 1..n : f[i] = IF i = 1 THEN ss[i] ELSE Cat(f[i - 1], ss[i])
        /\ \A i \in 1..n : g[i] = IF i = 1 THEN ss[i] ELSE Cat(g[i - 1], ss[i])
    BY DEF Sum, Cat
  <1>2. Bad = {}
    <2> SUFFICES ASSUME Bad # {} PROVE FALSE
      OBVIOUS
    <2>1. Bad \subseteq Nat
      OBVIOUS
    <2>2. PICK i \in Bad : \A j \in Bad : i <= j
      <3> HIDE DEF Bad
      <3> QED BY <2>1, LeastMember
    <2>3. i \in 1..n /\ f[i] # g[i]
      BY <2>2
    <2>4. CASE i = 1
      BY <1>1, <2>3, <2>4
    <2>5. CASE i # 1
      <3>1. i - 1 \in 1..n /\ i - 1 \notin Bad
        BY <2>1, <2>2, <2>3, <2>5
      <3>2. f[i - 1] = g[i - 1]
        BY <3>1
      <3> QED BY <1>1, <2>3, <2>5, <3>2
    <2> QED BY <2>4, <2>5
  <1>3. \A i \in 1..n : f[i] = g[i]
    BY <1>2
  <1> QED BY <1>0, <1>3

(* What FlattenSeq makes of sequences of sequences.                        *)
LEMMA FlattenIsSum ==
  ASSUME NEW T, NEW ss \in Seq(Seq(T)), ss # <<>>,
         NEW f, Sum(f, ss, Len(ss))
  PROVE  FlattenSeq(ss) = f[Len(ss)]
  <1> DEFINE n == Len(ss)
             Eq(g) == g = [i \in 1..n |-> IF i = 1 THEN ss[i] ELSE g[i - 1] \o ss[i]]
             F == CHOOSE g : Eq(g)
  <1>1. n \in Nat /\ n # 0
    OBVIOUS
  <1>2. FlattenSeq(ss) = F[n]
    BY <1>1 DEF FlattenSeq
  <1>3. \A g : Eq(g) <=> Sum(g, ss, n)
    BY DEF Sum
  <1> HIDE DEF Eq, n
  <1>4. Eq(f) /\ Eq(F)
    BY <1>3 DEF n
  <1>5. f = F
    BY <1>1, <1>3, <1>4, SumUnique
  <1> QED BY <1>2, <1>5 DEF n

LEMMA FlattenSteps ==
  ASSUME NEW T, NEW ss \in Seq(Seq(T)), NEW s \in Seq(T)
  PROVE  /\ FlattenSeq(<<>>) = <<>>
         /\ FlattenSeq(ss) \in Seq(T)
         /\ FlattenSeq(Append(ss, s)) = FlattenSeq(ss) \o s
  <1> DEFINE n == Len(ss)
             tt == Append(ss, s)
  <1>1. FlattenSeq(<<>>) = <<>>
    BY DEF FlattenSeq
  <1>2. /\ n \in Nat /\ tt \in Seq(Seq(T)) /\ Len(tt) = n + 1 /\ tt[n + 1] = s
        /\ \A i \in 1..n : tt[i] = ss[i]
    OBVIOUS
  <1> HIDE DEF n, tt
  <1>3. tt # <<>> /\ n = Len(ss)
    <2>1. n + 1 # 0 /\ Len(<<>>) = 0
      BY <1>2
    <2>2. tt # <<>>
      BY <1>2, <2>1
    <2> QED BY <2>2 DEF n
  <1>4. PICK g \in [1..(n + 1) -> Seq(T)] : Sum(g, tt, n + 1)
    BY <1>2, SumExists
  <1>5. FlattenSeq(tt) = g[n + 1] /\ g[n + 1] \in Seq(T)
    <2>1. Sum(g, tt, Len(tt))
      BY <1>2, <1>4
    <2>2. FlattenSeq(tt) = g[Len(tt)]
      BY <1>2, <1>3, <2>1, FlattenIsSum
    <2>3. n + 1 \in 1..(n + 1)
      BY <1>2
    <2>4. g[n + 1] \in Seq(T)
      BY <1>4, <2>3
    <2> QED BY <1>2, <2>2, <2>4
  <1>6. \A i \in 1..(n + 1) : g[i] = IF i = 1 THEN tt[i] ELSE g[i - 1] \o tt[i]
    BY <1>4 DEF Sum
  <1>7. CASE ss = <<>>
    <2>1. n = 0
      BY <1>7 DEF n
    <2>2. g[1] = tt[1]
      BY <1>6, <2>1
    <2>3. FlattenSeq(tt) = s
      BY <1>2, <1>5, <2>1, <2>2
    <2>4. <<>> \o s = s
      BY ConcatEmptySeq
    <2> QED BY <1>1, <1>5, <1>7, <2>3, <2>4, EmptySeq DEF tt
  <1>8. CASE ss # <<>>
    <2>1. PICK f \in [1..n -> Seq(T)] : Sum(f, ss, n)
      <3>1. n \in 0..Len(ss)
        BY <1>2, <1>3
      <3> QED BY <3>1, SumExists
    <2>2. n # 0 /\ n \in 1..n
      BY <1>2, <1>3, <1>8
    <2>3. FlattenSeq(ss) = f[n] /\ f[n] \in Seq(T)
      <3>1. FlattenSeq(ss) = f[Len(ss)]
        BY <1>3, <1>8, <2>1, FlattenIsSum
      <3> QED BY <1>3, <2>1, <2>2, <3>1
    <2> DEFINE h == [i \in 1..n |-> g[i]]
    <2>4. ASSUME NEW i \in 1..n PROVE h[i] = IF i = 1 THEN ss[i] ELSE h[i - 1] \o ss[i]
      <3>1. i \in 1..(n + 1) /\ (i # 1 => i - 1 \in 1..n) /\ tt[i] = ss[i]
        BY <1>2
      <3>2. h[i] = g[i] /\ (i # 1 => h[i - 1] = g[i - 1])
        BY <3>1
      <3> QED BY <1>6, <3>1, <3>2
    <2>5. Sum(h, ss, n)
      BY <2>4 DEF Sum
    <2>6. h = f /\ h[n] = g[n]
      BY <1>2, <2>1, <2>2, <2>5, SumUnique
    <2>7. g[n + 1] = g[n] \o s
      <3>1. n + 1 \in 1..(n + 1) /\ n + 1 # 1 /\ (n + 1) - 1 = n
        BY <1>2, <2>2
      <3> QED BY <1>2, <1>6, <3>1
    <2> QED BY <1>1, <1>5, <2>3, <2>6, <2>7 DEF tt
  <1> QED BY <1>7, <1>8

-----------------------------------------------------------------------------
(* The pieces of the document. *)

Comma == Punct(<<",">>)
Opening == Punct(<<"{">>)
Brace == Punct(<<"}">>)
Shut == Punct(<<"]">>)
KeyOpen(name) == << <<"key", name>>, <<"[">> >>
ValueOf(r) == << <<"value", r>> >>

TokensOf(S) ==
  {<<"{">>, <<"}">>, <<"[">>, <<"]">>, <<",">>}
    \cup {<<"key", r.name>> : r \in S} \cup {<<"value", r>> : r \in S}

LEMMA Pieces ==
  ASSUME NEW S
  PROVE  LET T == TokensOf(S)
         IN  /\ Comma \in Seq(T) /\ Opening \in Seq(T) /\ Brace \in Seq(T) /\ Shut \in Seq(T)
             /\ \A r \in S : ValueOf(r) \in Seq(T) /\ KeyOpen(r.name) \in Seq(T)
  <1> DEFINE T == TokensOf(S)
             One(x) == <<x>>
             Two(x, y) == <<x, y>>
  <1>1. /\ Comma = One(<<",">>) /\ Opening = One(<<"{">>) /\ Brace = One(<<"}">>)
        /\ Shut = One(<<"]">>)
        /\ \A r : ValueOf(r) = One(<<"value", r>>)
        /\ \A r : KeyOpen(r.name) = Two(<<"key", r.name>>, <<"[">>)
    BY PunctOne, Zenon DEF Comma, Opening, Brace, Shut, ValueOf, KeyOpen
  <1>2. /\ <<",">> \in T /\ <<"{">> \in T /\ <<"}">> \in T /\ <<"[">> \in T /\ <<"]">> \in T
        /\ \A r \in S : <<"value", r>> \in T /\ <<"key", r.name>> \in T
    BY Zenon DEF TokensOf
  <1> HIDE DEF T
  <1>3. \A x, y \in T : One(x) \in Seq(T) /\ Two(x, y) \in Seq(T)
    OBVIOUS
  <1> HIDE DEF One, Two
  <1>4. Comma \in Seq(T) /\ Opening \in Seq(T) /\ Brace \in Seq(T) /\ Shut \in Seq(T)
    BY <1>1, <1>2, <1>3, Zenon
  <1>5. \A r \in S : ValueOf(r) \in Seq(T) /\ KeyOpen(r.name) \in Seq(T)
    BY <1>1, <1>2, <1>3, Zenon
  <1> QED BY <1>4, <1>5 DEF T

(* What stands before one member more.                                     *)
Led(ss) == IF ss = <<>> THEN <<>> ELSE Cat(Separated(ss), Comma)

LEMMA SeparatedSteps ==
  ASSUME NEW T, Comma \in Seq(T), NEW ss \in Seq(Seq(T)), NEW s \in Seq(T)
  PROVE  /\ Separated(<<>>) = <<>> /\ Separated(ss) \in Seq(T) /\ Led(ss) \in Seq(T)
         /\ Separated(Append(ss, s)) = Cat(Led(ss), s)
  <1> DEFINE Lead(i) == IF i > 1 THEN Comma ELSE <<>>
             Part(i, t) == Lead(i) \o t
             Parts(tt) == [i \in DOMAIN tt |-> Part(i, tt[i])]
  <1>1. \A tt : Separated(tt) = FlattenSeq(Parts(tt))
    BY DEF Separated, Comma
  <1>3. Lead(1) = <<>> /\ \A i \in Nat : Lead(i) \in Seq(T) /\ (i > 1 => Lead(i) = Comma)
    BY EmptySeq
  <1> HIDE DEF Lead
  <1>4. \A i \in Nat : \A t \in Seq(T) : Part(i, t) \in Seq(T)
    BY <1>3, ConcatProperties
  <1> HIDE DEF Part
  <1>5. ASSUME NEW tt \in Seq(Seq(T))
        PROVE  Parts(tt) \in Seq(Seq(T)) /\ Len(Parts(tt)) = Len(tt)
    <2>1. DOMAIN tt = 1..Len(tt) /\ Len(tt) \in Nat /\ \A i \in 1..Len(tt) : tt[i] \in Seq(T)
      BY LenProperties, ElementOfSeq
    <2>2. \A i \in 1..Len(tt) : Part(i, tt[i]) \in Seq(T)
      BY <1>4, <2>1
    <2> QED BY <2>1, <2>2
  <1>6. Separated(<<>>) = <<>>
    <2>1. Parts(<<>>) = <<>>
      OBVIOUS
    <2>2. FlattenSeq(<<>>) = <<>>
      BY FlattenSteps, EmptySeq
    <2> QED BY <1>1, <2>1, <2>2
  <1>7. Separated(ss) \in Seq(T)
    BY <1>1, <1>5, FlattenSteps
  <1> DEFINE n == Len(ss)
             tt == Append(ss, s)
  <1>8. /\ n \in Nat /\ tt \in Seq(Seq(T)) /\ Len(tt) = n + 1 /\ tt[n + 1] = s
        /\ DOMAIN tt = 1..(n + 1) /\ DOMAIN ss = 1..n
        /\ \A i \in 1..n : tt[i] = ss[i]
    BY AppendProperties, LenProperties
  <1> HIDE DEF tt, n
  <1>a. n + 1 \in Nat /\ Part(n + 1, s) = Lead(n + 1) \o s
    BY <1>8 DEF Part
  <1>b. Part(n + 1, s) \in Seq(T) /\ Parts(ss) \in Seq(Seq(T)) /\ Len(Parts(ss)) = n
    <2>1. Part(n + 1, s) \in Seq(T)
      <3> HIDE DEF Parts
      <3> QED BY <1>4, <1>a
    <2>2. Parts(ss) \in Seq(Seq(T)) /\ Len(Parts(ss)) = n
      BY <1>5 DEF n
    <2> QED BY <2>1, <2>2
  <1>9. Parts(tt) = Append(Parts(ss), Part(n + 1, s))
    <2> DEFINE a == Parts(tt)
               b == Append(Parts(ss), Part(n + 1, s))
    <2>2. a \in Seq(Seq(T)) /\ Len(a) = n + 1
      BY <1>5, <1>8
    <2>3. /\ b \in Seq(Seq(T)) /\ Len(b) = n + 1 /\ b[n + 1] = Part(n + 1, s)
          /\ \A i \in 1..n : b[i] = Parts(ss)[i]
      <3> HIDE DEF Parts
      <3> QED BY <1>b, AppendProperties
    <2>4. /\ \A i \in 1..n : a[i] = Part(i, ss[i]) /\ Parts(ss)[i] = Part(i, ss[i])
          /\ a[n + 1] = Part(n + 1, s)
      BY <1>8
    <2>5. \A i \in 1..(n + 1) : i \in 1..n \/ i = n + 1
      BY <1>8
    <2> HIDE DEF a, b
    <2>6. \A i \in 1..(n + 1) : a[i] = b[i]
      BY <2>3, <2>4, <2>5
    <2>7. a = b
      BY <2>2, <2>3, <2>6, SeqEqual
    <2> QED BY <2>7 DEF a, b
  <1>10. Separated(tt) = Separated(ss) \o Part(n + 1, s)
    <2> HIDE DEF Parts
    <2> QED BY <1>1, <1>9, <1>b, FlattenSteps
  <1>c. Separated(tt) = Cat(Separated(ss), Cat(Lead(n + 1), s))
    BY <1>10, <1>a DEF Cat
  <1>11. CASE ss = <<>>
    <2>1. n + 1 = 1
      BY <1>11 DEF n
    <2>2. Separated(tt) = s
      BY <1>3, <1>6, <1>7, <1>11, <1>c, <2>1, CatSteps
    <2>3. Led(ss) = <<>>
      BY <1>11 DEF Led
    <2> QED BY <1>6, <1>7, <1>11, <2>2, <2>3, CatSteps, EmptySeq DEF tt
  <1>12. CASE ss # <<>>
    <2>1. n + 1 > 1
      BY <1>8, <1>12, EmptySeq DEF n
    <2>2. Lead(n + 1) = Comma
      BY <1>3, <1>a, <2>1
    <2>3. Led(ss) = Cat(Separated(ss), Comma)
      BY <1>12 DEF Led
    <2> QED BY <1>6, <1>7, <1>c, <2>2, <2>3, CatSteps DEF tt
  <1> QED BY <1>11, <1>12

(* A sequence made member by member from another one grows with it.        *)
Mapped(f, xs) == [i \in DOMAIN xs |-> f[xs[i]]]

MapGrows(S, X, f, xs, r) ==
  /\ Mapped(f, xs) \in Seq(X) /\ Mapped(f, <<>>) = <<>>
  /\ xs # <<>> => Mapped(f, xs) # <<>>
  /\ Mapped(f, Append(xs, r)) = Append(Mapped(f, xs), f[r])

LEMMA MapSteps ==
  ASSUME NEW S, NEW X, NEW f \in [S -> X], NEW xs \in Seq(S), NEW r \in S
  PROVE  MapGrows(S, X, f, xs, r)
  <1> DEFINE n == Len(xs)
             ys == Append(xs, r)
  <1>1. ASSUME NEW zs \in Seq(S)
        PROVE  /\ Mapped(f, zs) \in Seq(X) /\ Len(Mapped(f, zs)) = Len(zs)
               /\ \A i \in 1..Len(zs) : Mapped(f, zs)[i] = f[zs[i]]
    <2>1. /\ DOMAIN zs = 1..Len(zs) /\ Len(zs) \in Nat
          /\ \A i \in 1..Len(zs) : f[zs[i]] \in X
      BY LenProperties, ElementOfSeq
    <2> QED BY <2>1 DEF Mapped
  <1>2. Mapped(f, <<>>) = <<>>
    BY DEF Mapped
  <1>3. xs # <<>> => Mapped(f, xs) # <<>>
    BY <1>1, EmptySeq
  <1>4. /\ n \in Nat /\ ys \in Seq(S) /\ Len(ys) = n + 1 /\ ys[n + 1] = r
        /\ \A i \in 1..n : ys[i] = xs[i]
    BY AppendProperties, LenProperties
  <1> HIDE DEF ys
  <1> DEFINE a == Mapped(f, ys)
             b == Append(Mapped(f, xs), f[r])
  <1>5. a \in Seq(X) /\ Len(a) = n + 1
    BY <1>1, <1>4
  <1>6. /\ b \in Seq(X) /\ Len(b) = n + 1 /\ b[n + 1] = f[r]
        /\ \A i \in 1..n : b[i] = Mapped(f, xs)[i]
    BY <1>1, AppendProperties
  <1>7. /\ \A i \in 1..n : a[i] = f[xs[i]] /\ Mapped(f, xs)[i] = f[xs[i]]
        /\ a[n + 1] = f[r]
    <2>1. n + 1 \in 1..(n + 1) /\ \A i \in 1..n : i \in 1..(n + 1)
      BY <1>4
    <2> QED BY <1>1, <1>4, <2>1
  <1>8. \A i \in 1..(n + 1) : i \in 1..n \/ i = n + 1
    BY <1>4
  <1> HIDE DEF a, b, n
  <1>9. \A i \in 1..(n + 1) : a[i] = b[i]
    BY <1>6, <1>7, <1>8
  <1>10. a = b
    BY <1>5, <1>6, <1>9, SeqEqual
  <1> QED BY <1>1, <1>2, <1>3, <1>10 DEF a, b, ys, MapGrows

LEMMA ValuesSteps ==
  ASSUME NEW S, NEW rs \in Seq(S), NEW r \in S
  PROVE  /\ Values(rs) \in Seq(TokensOf(S))
         /\ Values(<<r>>) = ValueOf(r)
         /\ rs # <<>> => Values(Append(rs, r)) = Cat(Values(rs), Cat(Comma, ValueOf(r)))
  <1> DEFINE T == TokensOf(S)
             X == Seq(T)
             f == [x \in S |-> ValueOf(x)]
  <1>1. f \in [S -> X] /\ Comma \in X /\ ValueOf(r) \in X /\ f[r] = ValueOf(r)
    BY Pieces
  <1>2. ASSUME NEW xs \in Seq(S) PROVE Values(xs) = Separated(Mapped(f, xs))
    <2>1. DOMAIN xs = 1..Len(xs) /\ \A i \in DOMAIN xs : xs[i] \in S
      BY LenProperties, ElementOfSeq
    <2>2. Mapped(f, xs) = [i \in DOMAIN xs |-> ValueOf(xs[i])]
      BY <2>1 DEF Mapped
    <2> QED BY <2>2 DEF Values, ValueOf
  <1>3. <<>> \in Seq(S) /\ Append(<<>>, r) = <<r>> /\ <<r>> \in Seq(S)
    OBVIOUS
  <1> HIDE DEF f, X
  <1>4. ASSUME NEW xs \in Seq(S)
        PROVE  /\ Mapped(f, xs) \in Seq(X) /\ Mapped(f, <<>>) = <<>>
               /\ xs # <<>> => Mapped(f, xs) # <<>>
               /\ Mapped(f, Append(xs, r)) = Append(Mapped(f, xs), ValueOf(r))
    <2>1. MapGrows(S, X, f, xs, r)
      BY <1>1, MapSteps
    <2> QED BY <1>1, <2>1 DEF MapGrows
  <1>5. ASSUME NEW ss \in Seq(X)
        PROVE  /\ Separated(ss) \in X /\ Led(ss) \in X
               /\ Separated(Append(ss, ValueOf(r))) = Cat(Led(ss), ValueOf(r))
    <2> HIDE DEF T
    <2> QED BY <1>1, SeparatedSteps DEF X
  <1>6. Values(rs) \in X
    BY <1>2, <1>4, <1>5
  <1>7. Values(<<r>>) = ValueOf(r)
    <2>1. Mapped(f, <<r>>) = Append(<<>>, ValueOf(r)) /\ <<>> \in Seq(X)
      BY <1>3, <1>4
    <2>2. Values(<<r>>) = Cat(<<>>, ValueOf(r))
      BY <1>2, <1>3, <1>5, <2>1 DEF Led
    <2> QED BY <1>1, <2>2, CatSteps DEF X
  <1>8. ASSUME rs # <<>>
        PROVE  Values(Append(rs, r)) = Cat(Values(rs), Cat(Comma, ValueOf(r)))
    <2> DEFINE ss == Mapped(f, rs)
    <2>1. /\ ss \in Seq(X) /\ ss # <<>> /\ Append(rs, r) \in Seq(S)
          /\ Mapped(f, Append(rs, r)) = Append(ss, ValueOf(r))
      BY <1>4, <1>8, AppendProperties
    <2>2. Values(Append(rs, r)) = Cat(Led(ss), ValueOf(r)) /\ Values(rs) = Separated(ss)
      BY <1>2, <1>5, <2>1
    <2>3. Led(ss) = Cat(Values(rs), Comma)
      BY <2>1, <2>2 DEF Led
    <2> QED BY <1>1, <1>6, <2>2, <2>3, CatSteps DEF X
  <1> QED BY <1>6, <1>7, <1>8 DEF X, T

-----------------------------------------------------------------------------
(* The output with a group open, and what one record more adds to it.      *)

GroupsWith(S) == [name : {r.name : r \in S}, records : Seq(S)]
After(H, g) == Append(H, g)
Alone(r) == [name |-> r.name, records |-> <<r>>]
Grown(g, r) == [name |-> g.name, records |-> Append(g.records, r)]
Toks(H) == [i \in DOMAIN H |-> GroupTokens(H[i])]
Opened(H, g) == Cat(Cat(Opening, Led(Toks(H))), Cat(KeyOpen(g.name), Values(g.records)))

LEMMA GroupTokensTyped ==
  ASSUME NEW S, NEW g \in GroupsWith(S)
  PROVE  /\ KeyOpen(g.name) \in Seq(TokensOf(S)) /\ Values(g.records) \in Seq(TokensOf(S))
         /\ GroupTokens(g) = Cat(Cat(KeyOpen(g.name), Values(g.records)), Shut)
         /\ GroupTokens(g) \in Seq(TokensOf(S))
  <1> DEFINE T == TokensOf(S)
  <1>1. PICK r \in S : g.name = r.name
    BY DEF GroupsWith
  <1>2. g.records \in Seq(S)
    BY DEF GroupsWith
  <1>3. KeyOpen(g.name) \in Seq(T) /\ Shut \in Seq(T)
    BY <1>1, Pieces
  <1>4. Values(g.records) \in Seq(T)
    BY <1>1, <1>2, ValuesSteps
  <1>5. GroupTokens(g) = Cat(Cat(KeyOpen(g.name), Values(g.records)), Shut)
    BY Zenon DEF GroupTokens, KeyOpen, Shut, Cat
  <1> HIDE DEF T
  <1>6. GroupTokens(g) \in Seq(T)
    BY <1>3, <1>4, <1>5, CatSteps
  <1> QED BY <1>3, <1>4, <1>5, <1>6 DEF T

LEMMA ToksSteps ==
  ASSUME NEW S, NEW H \in Seq(GroupsWith(S)), NEW g \in GroupsWith(S)
  PROVE  /\ Toks(H) \in Seq(Seq(TokensOf(S))) /\ Toks(<<>>) = <<>>
         /\ Toks(Append(H, g)) = Append(Toks(H), GroupTokens(g))
         /\ Append(Toks(H), GroupTokens(g)) # <<>>
  <1> DEFINE G == GroupsWith(S)
             X == Seq(TokensOf(S))
             f == [x \in G |-> GroupTokens(x)]
  <1>1. \A x \in G : GroupTokens(x) \in X
    BY GroupTokensTyped
  <1> HIDE DEF G, X
  <1>2. f \in [G -> X] /\ H \in Seq(G) /\ g \in G /\ f[g] = GroupTokens(g)
    BY <1>1 DEF G
  <1>3. ASSUME NEW K \in Seq(G) PROVE Toks(K) = Mapped(f, K)
    <2>1. DOMAIN K = 1..Len(K) /\ \A i \in DOMAIN K : K[i] \in G
      BY LenProperties, ElementOfSeq
    <2> QED BY <2>1 DEF Mapped, Toks
  <1> HIDE DEF f
  <1>4. /\ Mapped(f, H) \in Seq(X) /\ Mapped(f, <<>>) = <<>>
        /\ Mapped(f, Append(H, g)) = Append(Mapped(f, H), f[g])
    <2>1. MapGrows(G, X, f, H, g)
      BY <1>2, MapSteps
    <2> QED BY <2>1 DEF MapGrows
  <1>5. <<>> \in Seq(G) /\ Append(H, g) \in Seq(G)
    BY <1>2, EmptySeq, AppendProperties
  <1>6. Append(Toks(H), GroupTokens(g)) # <<>>
    BY <1>1, <1>2, <1>3, <1>4, AppendProperties
  <1> QED BY <1>2, <1>3, <1>4, <1>5, <1>6 DEF X

(* The document is its output with the last group open, and what closes it.*)
LEMMA Rendered ==
  ASSUME NEW S, NEW H \in Seq(GroupsWith(S)), NEW g \in GroupsWith(S)
  PROVE  /\ Opened(H, g) \in Seq(TokensOf(S))
         /\ Render(Append(H, g)) = Cat(Opened(H, g), Cat(Shut, Brace))
         /\ Led(Toks(H)) \in Seq(TokensOf(S))
         /\ Led(Toks(Append(H, g)))
              = Cat(Cat(Led(Toks(H)), Cat(Cat(KeyOpen(g.name), Values(g.records)), Shut)), Comma)
  <1> DEFINE T == TokensOf(S)
             l == Led(Toks(H))
             k == Cat(KeyOpen(g.name), Values(g.records))
             ss == Toks(H)
             t == GroupTokens(g)
  <1>1. Comma \in Seq(T) /\ Opening \in Seq(T) /\ Brace \in Seq(T) /\ Shut \in Seq(T)
    BY Pieces
  <1>2. k \in Seq(T) /\ t = Cat(k, Shut) /\ t \in Seq(T)
    BY GroupTokensTyped, CatSteps
  <1>3. /\ ss \in Seq(Seq(T)) /\ Toks(Append(H, g)) = Append(ss, t)
        /\ Append(ss, t) # <<>>
    BY ToksSteps
  <1> HIDE DEF ss, T, t
  <1>4. Led(ss) \in Seq(T) /\ Separated(Append(ss, t)) = Cat(Led(ss), t)
    BY <1>1, <1>2, <1>3, SeparatedSteps
  <1>5. l \in Seq(T) /\ Led(Toks(Append(H, g))) = Cat(Cat(l, Cat(k, Shut)), Comma)
    BY <1>2, <1>3, <1>4 DEF Led, ss
  <1>6. Opened(H, g) = Cat(Cat(Opening, l), k)
    BY DEF Opened
  <1>7. Render(Append(H, g)) = Cat(Cat(Opening, Cat(l, Cat(k, Shut))), Brace)
    <2>1. Render(Append(H, g)) = Cat(Cat(Opening, Separated(Toks(Append(H, g)))), Brace)
      BY Zenon DEF Render, Toks, Opening, Brace, Cat
    <2> QED BY <1>2, <1>3, <1>4, <2>1 DEF ss
  <1> HIDE DEF l, k
  <1>8. Opened(H, g) \in Seq(T)
    BY <1>1, <1>2, <1>5, <1>6, CatSteps
  <1>9. Cat(Cat(Opening, Cat(l, Cat(k, Shut))), Brace) = Cat(Cat(Cat(Opening, l), k), Cat(Shut, Brace))
    BY <1>1, <1>2, <1>5, RegroupFive
  <1> QED BY <1>5, <1>6, <1>7, <1>8, <1>9 DEF T, l, k

(* One record more in the open group, in a group after it, and in the first*)
(* group of all.                                                           *)
LEMMA OneMore ==
  ASSUME NEW S, NEW H \in Seq(GroupsWith(S)), NEW g \in GroupsWith(S), NEW r \in S
  PROVE  /\ g.records # <<>> =>
              Opened(H, Grown(g, r))
                = Cat(Opened(H, g), Cat(Comma, ValueOf(r)))
         /\ Opened(After(H, g), Alone(r))
              = Cat(Opened(H, g), Cat(Cat(Shut, Comma), Cat(KeyOpen(r.name), ValueOf(r))))
         /\ Opened(<<>>, Alone(r))
              = Cat(Opening, Cat(KeyOpen(r.name), ValueOf(r)))
  <1> DEFINE T == TokensOf(S)
             l == Led(Toks(H))
             k == KeyOpen(g.name)
             v == Values(g.records)
             n == KeyOpen(r.name)
             w == ValueOf(r)
  <1>1. /\ Comma \in Seq(T) /\ Opening \in Seq(T) /\ Brace \in Seq(T) /\ Shut \in Seq(T)
        /\ w \in Seq(T) /\ n \in Seq(T)
    BY Pieces
  <1>2. k \in Seq(T) /\ v \in Seq(T)
    BY GroupTokensTyped
  <1>3. l \in Seq(T) /\ Toks(<<>>) = <<>>
    BY Rendered, ToksSteps
  <1>4. Opened(H, g) = Cat(Cat(Opening, l), Cat(k, v))
    BY DEF Opened
  <1>5. Values(<<r>>) = w /\ (g.records # <<>> => Values(Append(g.records, r)) = Cat(v, Cat(Comma, w)))
    BY ValuesSteps DEF GroupsWith
  <1>6. /\ Opened(H, Grown(g, r))
             = Cat(Cat(Opening, l), Cat(k, Values(Append(g.records, r))))
        /\ Opened(Append(H, g), Alone(r))
             = Cat(Cat(Opening, Led(Toks(Append(H, g)))), Cat(n, Values(<<r>>)))
        /\ Opened(<<>>, Alone(r))
             = Cat(Cat(Opening, Led(Toks(<<>>))), Cat(n, Values(<<r>>)))
    BY DEF Opened, Alone, Grown
  <1>7. Led(Toks(Append(H, g))) = Cat(Cat(l, Cat(Cat(k, v), Shut)), Comma)
    BY Rendered
  <1>8. Led(Toks(<<>>)) = <<>>
    BY <1>3 DEF Led
  <1> HIDE DEF T, l, k, v, n, w
  <1>9. Cat(Cat(Opening, l), Cat(k, Cat(v, Cat(Comma, w))))
          = Cat(Cat(Cat(Opening, l), Cat(k, v)), Cat(Comma, w))
    <2> DEFINE p == Cat(Opening, l)
               q == Cat(k, v)
               z == Cat(Comma, w)
    <2>1. p \in Seq(T) /\ q \in Seq(T) /\ z \in Seq(T)
      BY <1>1, <1>2, <1>3, CatSteps
    <2> HIDE DEF z
    <2>3. Cat(k, Cat(v, z)) = Cat(q, z)
      BY <1>2, <2>1, CatSteps
    <2> HIDE DEF p, q
    <2>4. Cat(p, Cat(q, z)) = Cat(Cat(p, q), z)
      BY <2>1, CatSteps
    <2> QED BY <2>3, <2>4 DEF p, q, z
  <1>10. Cat(Cat(Opening, Cat(Cat(l, Cat(Cat(k, v), Shut)), Comma)), Cat(n, w))
           = Cat(Cat(Cat(Opening, l), Cat(k, v)), Cat(Cat(Shut, Comma), Cat(n, w)))
    <2> DEFINE x == Cat(n, w)
               y == Cat(k, v)
    <2>1. x \in Seq(T) /\ y \in Seq(T)
      BY <1>1, <1>2, CatSteps
    <2> HIDE DEF x, y
    <2>2. /\ Opening \in Seq(T) /\ l \in Seq(T) /\ y \in Seq(T) /\ Shut \in Seq(T)
          /\ Comma \in Seq(T) /\ x \in Seq(T)
      BY <1>1, <1>3, <2>1
    <2> DEFINE Regrouped(a, b, c, d, e, f) ==
                 Cat(Cat(a, Cat(Cat(b, Cat(c, d)), e)), f) = Cat(Cat(Cat(a, b), c), Cat(Cat(d, e), f))
    <2>3. \A a, b, c, d, e, f \in Seq(T) : Regrouped(a, b, c, d, e, f)
      BY RegroupSix
    <2> HIDE DEF Regrouped
    <2>4. Regrouped(Opening, l, y, Shut, Comma, x)
      BY <2>2, <2>3
    <2> QED BY <2>4 DEF Regrouped, x, y
  <1>11. Cat(Cat(Opening, <<>>), Cat(n, w)) = Cat(Opening, Cat(n, w))
    BY <1>1, CatSteps
  <1>12. Opened(Append(H, g), Alone(r))
           = Cat(Opened(H, g), Cat(Cat(Shut, Comma), Cat(KeyOpen(r.name), ValueOf(r))))
    BY <1>4, <1>5, <1>6, <1>7, <1>10 DEF l, k, v, n, w
  <1>13. Opened(After(H, g), Alone(r))
              = Cat(Opened(H, g), Cat(Cat(Shut, Comma), Cat(KeyOpen(r.name), ValueOf(r))))
    BY <1>12, Zenon DEF After
  <1> QED BY <1>4, <1>5, <1>6, <1>8, <1>9, <1>11, <1>13 DEF l, k, v, n, w

-----------------------------------------------------------------------------
(* The groups of a walk, and what one record more does to them.            *)

GroupAt(w, i) == [name |-> w[i].name, records |-> Service!GroupsOf(w)[w[i].name]]

LEMMA FirstsOrdered ==
  ASSUME NEW S, NEW w \in Seq(S)
  PROVE  /\ Firsts(w) \subseteq 1..Len(w) /\ Len(w) \in Nat /\ IsFiniteSet(Firsts(w))
         /\ Orders(Smaller(Firsts(w)), Firsts(w)) /\ Cardinality(Firsts(w)) \in Nat
  <1> DEFINE P == Firsts(w)
  <1>1. P \subseteq 1..Len(w) /\ Len(w) \in Nat /\ P \in SUBSET (1..Len(w))
    BY DEF Firsts
  <1>2. IsFiniteSet(P)
    <2>1. IsFiniteSet(1..Len(w))
      BY <1>1, FS_Interval
    <2> QED BY <1>1, <2>1, FS_Subset
  <1> HIDE DEF P
  <1>3. \A x, y \in P : <<x, y>> \in Smaller(P) <=> x < y
    BY DEF Smaller
  <1>4. \A x, y, z \in P : /\ ~(x < x)
                           /\ x < y /\ y < z => x < z
                           /\ x = y \/ x < y \/ y < x
    BY <1>1
  <1>5. Orders(Smaller(P), P)
    BY <1>3, <1>4 DEF Orders
  <1> QED BY <1>1, <1>2, <1>5, FS_CardinalityType DEF P

LEMMA GroupsTyped ==
  ASSUME NEW S, NEW w \in Seq(S)
  PROVE  LET F == Firsts(w)
             c == Cardinality(F)
             L == Listed(Smaller(F), F)
         IN  /\ Groups(w) = [k \in 1..c |-> GroupAt(w, L[k])]
             /\ Groups(w) \in Seq(GroupsWith(S)) /\ Len(Groups(w)) = c
             /\ \A k \in 1..c : L[k] \in F /\ GroupAt(w, L[k]) \in GroupsWith(S)
  <1> DEFINE F == Firsts(w)
             c == Cardinality(F)
             L == Listed(Smaller(F), F)
             G == Service!GroupsOf(w)
  <1>1. /\ F \subseteq 1..Len(w) /\ Len(w) \in Nat /\ IsFiniteSet(F)
        /\ Orders(Smaller(F), F) /\ c \in Nat
    BY FirstsOrdered
  <1>2. DOMAIN w = 1..Len(w) /\ \A i \in 1..Len(w) : w[i] \in S
    BY LenProperties, ElementOfSeq
  <1>3. DOMAIN L = 1..c /\ \A k \in 1..c : L[k] \in F
    BY <1>1, ListedByRank
  <1>4. Ascending(F, <) = L
    <2>1. \A x, y \in F : <<x, y>> \in Smaller(F) <=> x < y
      BY DEF Smaller
    <2> HIDE DEF F
    <2> QED BY <1>1, <2>1, NumbersListed
  <1>5. Groups(w) = [k \in 1..c |-> GroupAt(w, L[k])]
    <2>1. Groups(w) = [k \in DOMAIN Ascending(F, <) |-> GroupAt(w, Ascending(F, <)[k])]
      BY DEF Groups, GroupAt
    <2> HIDE DEF F, L, c
    <2> QED BY <1>3, <1>4, <2>1
  <1>6. ASSUME NEW i \in 1..Len(w) PROVE G[w[i].name] \in Seq(S)
    <2> DEFINE n == w[i].name
               P == Places(w, n)
               M == Listed(Smaller(P), P)
    <2>1. n \in Names(w)
      BY <1>2 DEF Names
    <2>2. G[n] = [k \in 1..Cardinality(P) |-> w[M[k]]]
      BY <2>1, GroupByPlace
    <2>3. P \subseteq 1..Len(w) /\ Cardinality(P) \in Nat /\ \A k \in 1..Cardinality(P) : M[k] \in P
      BY PlacesOrdered, ListedByRank
    <2> HIDE DEF n, P, M, G
    <2>4. \A k \in 1..Cardinality(P) : w[M[k]] \in S
      BY <1>2, <2>3
    <2>5. G[n] \in Seq(S)
      BY <2>2, <2>3, <2>4
    <2> QED BY <2>5 DEF n
  <1>7. ASSUME NEW k \in 1..c PROVE GroupAt(w, L[k]) \in GroupsWith(S)
    <2>1. L[k] \in 1..Len(w)
      BY <1>1, <1>3
    <2> HIDE DEF L
    <2>2. w[L[k]] \in S /\ G[w[L[k]].name] \in Seq(S)
      BY <1>2, <1>6, <2>1
    <2> QED BY <2>2 DEF GroupAt, GroupsWith
  <1>8. Groups(w) \in Seq(GroupsWith(S)) /\ Len(Groups(w)) = c
    <2> HIDE DEF c, L
    <2> QED BY <1>1, <1>5, <1>7
  <1> QED BY <1>3, <1>5, <1>7, <1>8

(* A record of a new name is a group of its own, after the others.         *)
LEMMA NewGroup ==
  ASSUME NEW S, NEW w \in Seq(S), NEW rec \in S, rec.name \notin Names(w)
  PROVE  Groups(Append(w, rec)) = Append(Groups(w), Alone(rec))
  <1> DEFINE v == Append(w, rec)
             m == Len(w)
             P == Firsts(w)
             c == Cardinality(P)
             L == Listed(Smaller(P), P)
             Q == Firsts(v)
             M == Listed(Smaller(Q), Q)
             G == Service!GroupsOf(w)
             H == Service!GroupsOf(v)
             g == Alone(rec)
             W == GroupsWith(S)
  <1>1. /\ v \in Seq(S) /\ m \in Nat /\ Len(v) = m + 1
        /\ DOMAIN w = 1..m /\ DOMAIN v = 1..(m + 1)
        /\ \A i \in 1..m : v[i] = w[i] /\ w[i] \in S
        /\ v[m + 1] = rec
    BY AppendProperties, LenProperties, ElementOfSeq
  <1> HIDE DEF v, m
  <1>2. /\ P \subseteq 1..m /\ IsFiniteSet(P) /\ Orders(Smaller(P), P) /\ c \in Nat
        /\ IsFiniteSet(Q) /\ Orders(Smaller(Q), Q)
    BY <1>1, FirstsOrdered DEF m
  <1>3. Q = P \cup {m + 1} /\ m + 1 \notin P
    <2>1. \A i \in 1..m : w[i].name # rec.name
      BY <1>1 DEF Names
    <2>2. \A i \in 1..m : i \in Q <=> i \in P
      <3>1. \A i \in 1..m : \A j \in 1..(i - 1) : j \in 1..m
        BY <1>1
      <3> QED BY <1>1, <3>1 DEF Firsts
    <2>3. m + 1 \in Q
      <3>1. \A j \in 1..((m + 1) - 1) : j \in 1..m
        BY <1>1
      <3>2. m + 1 \in 1..(m + 1)
        BY <1>1
      <3> QED BY <1>1, <2>1, <3>1, <3>2 DEF Firsts
    <2>4. Q \subseteq 1..(m + 1)
      BY <1>1 DEF Firsts
    <2>5. \A i \in 1..(m + 1) : i \in 1..m \/ i = m + 1
      BY <1>1
    <2>6. m + 1 \notin 1..m
      BY <1>1
    <2> QED BY <1>2, <2>2, <2>3, <2>4, <2>5, <2>6
  <1> HIDE DEF P, Q
  <1>4. /\ \A k \in 1..c : M[k] = L[k]
        /\ M[c + 1] = m + 1
    BY <1>1, <1>2, <1>3, ListedGrows
  <1>5. Cardinality(Q) = c + 1
    BY <1>2, <1>3, FS_AddElement
  <1>6. /\ Groups(w) = [k \in 1..c |-> GroupAt(w, L[k])] /\ Groups(w) \in Seq(W)
        /\ Len(Groups(w)) = c /\ \A k \in 1..c : L[k] \in P
    BY GroupsTyped DEF P
  <1>7. /\ Groups(v) = [k \in 1..(c + 1) |-> GroupAt(v, M[k])] /\ Groups(v) \in Seq(W)
        /\ Len(Groups(v)) = c + 1
    BY <1>1, <1>5, GroupsTyped DEF Q
  <1> HIDE DEF c, L, M
  <1>8. DOMAIN G = Names(w) /\ H = Grouped(G, rec)
    BY GroupByPlace, GroupedOnce DEF v
  <1>9. ASSUME NEW i \in 1..m PROVE GroupAt(v, i) = GroupAt(w, i)
    <2>1. w[i].name \in Names(w) /\ v[i] = w[i]
      BY <1>1 DEF Names
    <2>2. H[w[i].name] = G[w[i].name]
      <3> HIDE DEF G, H
      <3> QED BY <1>8, <2>1 DEF Grouped
    <2> QED BY <2>1, <2>2 DEF GroupAt
  <1>10. GroupAt(v, m + 1) = g
    <2>1. H[rec.name] = Append(<<>>, rec)
      <3> HIDE DEF G, H
      <3> QED BY <1>8 DEF Grouped
    <2>2. Append(<<>>, rec) = <<rec>>
      OBVIOUS
    <2> QED BY <1>1, <2>1, <2>2 DEF GroupAt, Alone
  <1>11. g \in W
    BY DEF GroupsWith, Alone
  <1> HIDE DEF g, W
  <1>12. /\ Append(Groups(w), g) \in Seq(W) /\ Len(Append(Groups(w), g)) = c + 1
         /\ \A k \in 1..c : Append(Groups(w), g)[k] = Groups(w)[k]
         /\ Append(Groups(w), g)[c + 1] = g
    <2> DEFINE a == Groups(w)
    <2>1. a \in Seq(W) /\ Len(a) = c
      BY <1>6
    <2> HIDE DEF a
    <2>2. /\ Append(a, g) \in Seq(W) /\ Len(Append(a, g)) = c + 1
          /\ \A k \in 1..c : Append(a, g)[k] = a[k]
          /\ Append(a, g)[c + 1] = g
      BY <1>11, <2>1, AppendProperties
    <2> QED BY <2>2 DEF a
  <1>13. ASSUME NEW k \in 1..c PROVE Groups(v)[k] = Groups(w)[k]
    <2>1. Groups(w)[k] = GroupAt(w, L[k]) /\ L[k] \in 1..m
      BY <1>2, <1>6
    <2>2. k \in 1..(c + 1)
      BY <1>2
    <2>3. Groups(v)[k] = GroupAt(v, L[k])
      BY <1>4, <1>7, <2>2
    <2> QED BY <1>9, <2>1, <2>3
  <1>14. Groups(v)[c + 1] = g
    <2>1. c + 1 \in 1..(c + 1)
      BY <1>2
    <2> QED BY <1>4, <1>7, <1>10, <2>1
  <1>15. \A k \in 1..(c + 1) : k \in 1..c \/ k = c + 1
    BY <1>2
  <1>16. \A k \in 1..(c + 1) : Groups(v)[k] = Append(Groups(w), g)[k]
    BY <1>12, <1>13, <1>14, <1>15
  <1>17. Groups(v) = Append(Groups(w), g)
    BY <1>7, <1>12, <1>16, SeqEqual
  <1> QED BY <1>17 DEF v, g

(* A record of a name that has come does not come first.                  *)
LEMMA FirstsKept ==
  ASSUME NEW S, NEW w \in Seq(S), NEW rec \in S, rec.name \in Names(w)
  PROVE  Firsts(Append(w, rec)) = Firsts(w)
  <1> DEFINE v == Append(w, rec)
             m == Len(w)
             P == Firsts(w)
  <1>1. /\ v \in Seq(S) /\ m \in Nat /\ Len(v) = m + 1
        /\ DOMAIN w = 1..m /\ DOMAIN v = 1..(m + 1)
        /\ \A i \in 1..m : v[i] = w[i]
        /\ v[m + 1] = rec
    BY AppendProperties, LenProperties
  <1> HIDE DEF v, m
  <1>2. P \subseteq 1..m
    BY <1>1 DEF Firsts
  <1>3. PICK p \in 1..m : w[p].name = rec.name
    BY <1>1 DEF Names
  <1>4. \A i \in 1..m : i \in Firsts(v) <=> i \in P
    <2>1. \A i \in 1..m : \A j \in 1..(i - 1) : j \in 1..m
      BY <1>1
    <2> QED BY <1>1, <2>1 DEF Firsts
  <1>5. m + 1 \notin Firsts(v)
    <2>1. p \in 1..((m + 1) - 1)
      BY <1>1, <1>3
    <2> QED BY <1>1, <1>3, <2>1 DEF Firsts
  <1>6. Firsts(v) \subseteq 1..(m + 1)
    BY <1>1 DEF Firsts
  <1>7. \A j \in 1..(m + 1) : j \in 1..m \/ j = m + 1
    BY <1>1
  <1> QED BY <1>2, <1>4, <1>5, <1>6, <1>7 DEF v

(* A record of the last group's name is one more of that group.            *)
LEMMA SameGroup ==
  ASSUME NEW S, NEW w \in Seq(S), NEW rec \in S, rec.name \in Names(w),
         NEW K \in Seq(GroupsWith(S)), NEW g \in GroupsWith(S),
         Groups(w) = Append(K, g), g.name = rec.name
  PROVE  Groups(Append(w, rec))
           = Append(K, Grown(g, rec))
  <1> DEFINE v == Append(w, rec)
             m == Len(w)
             P == Firsts(w)
             c == Cardinality(P)
             L == Listed(Smaller(P), P)
             G == Service!GroupsOf(w)
             H == Service!GroupsOf(v)
             h == Grown(g, rec)
             W == GroupsWith(S)
  <1>1. /\ v \in Seq(S) /\ m \in Nat /\ Len(v) = m + 1
        /\ DOMAIN w = 1..m /\ DOMAIN v = 1..(m + 1)
        /\ \A i \in 1..m : v[i] = w[i] /\ w[i] \in S
        /\ v[m + 1] = rec
    BY AppendProperties, LenProperties, ElementOfSeq
  <1> HIDE DEF v, m
  <1>2. /\ P \subseteq 1..m /\ IsFiniteSet(P) /\ Orders(Smaller(P), P) /\ c \in Nat
    BY <1>1, FirstsOrdered DEF m
  <1>3. Firsts(v) = P
    BY FirstsKept DEF v
  <1>4. \A i, j \in P : i # j => w[i].name # w[j].name
    <2>1. \A i, j \in P : i < j => w[i].name # w[j].name
      <3>1. \A i, j \in P : i < j => i \in 1..(j - 1)
        BY <1>1, <1>2
      <3> QED BY <3>1 DEF Firsts
    <2>2. \A i, j \in P : i # j => i < j \/ j < i
      BY <1>2
    <2> QED BY <2>1, <2>2
  <1> HIDE DEF P
  <1>6. /\ Groups(w) = [k \in 1..c |-> GroupAt(w, L[k])] /\ Groups(w) \in Seq(W)
        /\ Len(Groups(w)) = c /\ \A k \in 1..c : L[k] \in P
    BY GroupsTyped DEF P
  <1>7. /\ Groups(v) = [k \in 1..c |-> GroupAt(v, L[k])] /\ Groups(v) \in Seq(W)
        /\ Len(Groups(v)) = c
    BY <1>1, <1>3, GroupsTyped
  <1>5. \A i, j \in 1..c : i # j => L[i] # L[j]
    <2>1. \A i \in 1..c : Rank(Smaller(P), P, L[i]) = i - 1
      BY <1>2, ListedByRank
    <2>2. \A i, j \in 1..c : i # j => i - 1 # j - 1
      BY <1>2
    <2> HIDE DEF L
    <2> QED BY <2>1, <2>2
  <1> HIDE DEF c, L, W
  <1>8. DOMAIN G = Names(w) /\ H = Grouped(G, rec)
    BY GroupByPlace, GroupedOnce DEF v
  <1>9. ASSUME NEW i \in 1..m, w[i].name # rec.name PROVE GroupAt(v, i) = GroupAt(w, i)
    <2>1. w[i].name \in Names(w) /\ v[i] = w[i]
      BY <1>1 DEF Names
    <2>2. H[w[i].name] = G[w[i].name]
      <3> HIDE DEF G, H
      <3> QED BY <1>8, <1>9, <2>1 DEF Grouped
    <2> QED BY <2>1, <2>2 DEF GroupAt
  <1>10. /\ K \in Seq(W) /\ g \in W /\ h \in W
    <2>1. K \in Seq(W) /\ g \in W
      BY DEF W
    <2>2. g.records \in Seq(S) /\ g.name \in {r.name : r \in S}
      BY DEF GroupsWith
    <2>3. Append(g.records, rec) \in Seq(S)
      BY <2>2, AppendProperties
    <2>4. h \in W
      BY <2>2, <2>3 DEF GroupsWith, W, Grown
    <2> QED BY <2>1, <2>4
  <1>11. /\ Len(K) \in Nat /\ c = Len(K) + 1 /\ Groups(w)[c] = g
         /\ \A k \in 1..Len(K) : Groups(w)[k] = K[k]
    <2>1. /\ Len(Append(K, g)) = Len(K) + 1 /\ Append(K, g)[Len(K) + 1] = g
          /\ \A k \in 1..Len(K) : Append(K, g)[k] = K[k]
      BY <1>10, AppendProperties
    <2> QED BY <1>6, <1>10, <2>1, LenProperties
  <1>12. w[L[c]].name = rec.name /\ c \in 1..c /\ L[c] \in 1..m /\ G[rec.name] = g.records
    <2>1. c \in 1..c
      BY <1>2, <1>11
    <2>2. Groups(w)[c] = GroupAt(w, L[c]) /\ L[c] \in 1..m
      BY <1>2, <1>6, <2>1
    <2>3. GroupAt(w, L[c]) = g
      BY <1>11, <2>2
    <2> QED BY <2>1, <2>2, <2>3 DEF GroupAt
  <1>13. GroupAt(v, L[c]) = h
    <2>1. H[rec.name] = Append(G[rec.name], rec)
      <3> HIDE DEF G, H
      <3> QED BY <1>8 DEF Grouped
    <2>2. v[L[c]].name = rec.name
      BY <1>1, <1>12
    <2> QED BY <1>12, <2>1, <2>2 DEF GroupAt, Grown
  <1> HIDE DEF h, G, H
  <1>14. /\ Append(K, h) \in Seq(W) /\ Len(Append(K, h)) = c
         /\ \A k \in 1..Len(K) : Append(K, h)[k] = K[k]
         /\ Append(K, h)[c] = h
    BY <1>10, <1>11, AppendProperties
  <1>15. ASSUME NEW k \in 1..Len(K) PROVE Groups(v)[k] = K[k]
    <2>1. k \in 1..c /\ k # c
      BY <1>11
    <2>2. /\ Groups(w)[k] = GroupAt(w, L[k]) /\ Groups(v)[k] = GroupAt(v, L[k])
          /\ L[k] \in 1..m
      BY <1>2, <1>6, <1>7, <2>1
    <2>3. w[L[k]].name # rec.name
      BY <1>4, <1>5, <1>6, <1>12, <2>1
    <2> QED BY <1>9, <1>11, <2>2, <2>3
  <1>16. Groups(v)[c] = h
    BY <1>7, <1>12, <1>13
  <1>17. \A k \in 1..c : k \in 1..Len(K) \/ k = c
    BY <1>11
  <1>18. \A k \in 1..c : Groups(v)[k] = Append(K, h)[k]
    BY <1>14, <1>15, <1>16, <1>17
  <1>19. Groups(v) = Append(K, h)
    BY <1>7, <1>14, <1>18, SeqEqual
  <1> QED BY <1>19 DEF v, h

-----------------------------------------------------------------------------
(* The output after a number of records.                                   *)

(* Records of one name have none of another name between them.             *)
Together(w) ==
  \A i, j, k \in DOMAIN w : i < j /\ j < k /\ w[i].name = w[k].name => w[j].name = w[i].name

(* f is what stands in the output when the records of w have been written. *)
Stands(S, w, f) ==
  IF w = <<>> THEN f = <<>>
  ELSE \E H \in Seq(GroupsWith(S)), g \in GroupsWith(S) :
         /\ Groups(w) = Append(H, g) /\ g.name = w[Len(w)].name /\ g.records # <<>>
         /\ f = Opened(H, g)

More(w, rec) ==
  IF w = <<>> THEN Cat(Opening, Cat(KeyOpen(rec.name), ValueOf(rec)))
  ELSE IF w[Len(w)].name = rec.name THEN Cat(Comma, ValueOf(rec))
  ELSE Cat(Cat(Shut, Comma), Cat(KeyOpen(rec.name), ValueOf(rec)))

Closing(w) == IF w = <<>> THEN Cat(Opening, Brace) ELSE Cat(Shut, Brace)

LEMMA NoGroupsYet == Groups(<<>>) = <<>>
  <1> DEFINE S == {1}
  <1>1. <<>> \in Seq(S) /\ Len(<<>>) = 0
    OBVIOUS
  <1>2. Firsts(<<>>) = {}
    BY DEF Firsts
  <1>3. Cardinality(Firsts(<<>>)) = 0
    BY <1>2, FS_EmptySet
  <1>4. Groups(<<>>) \in Seq(GroupsWith(S)) /\ Len(Groups(<<>>)) = 0
    BY <1>1, <1>3, GroupsTyped
  <1> QED BY <1>4, EmptySeq

LEMMA NewGroupTyped ==
  ASSUME NEW S, NEW rec \in S
  PROVE  /\ Alone(rec) \in GroupsWith(S)
         /\ Alone(rec).name = rec.name /\ Alone(rec).records # <<>>
  BY DEF GroupsWith, Alone

LEMMA StandsFirst ==
  ASSUME NEW S, NEW rec \in S
  PROVE  Stands(S, <<rec>>, Cat(<<>>, More(<<>>, rec)))
  <1> DEFINE g == Alone(rec)
             W == GroupsWith(S)
             T == TokensOf(S)
  <1>1. /\ <<>> \in Seq(S) /\ Append(<<>>, rec) = <<rec>> /\ <<rec>> # <<>>
        /\ Len(<<rec>>) = 1 /\ <<rec>>[1] = rec
    OBVIOUS
  <1>2. rec.name \notin Names(<<>>)
    BY DEF Names
  <1>3. g \in W /\ g.name = rec.name /\ g.records # <<>> /\ <<>> \in Seq(W)
    BY NewGroupTyped, EmptySeq
  <1>4. Groups(<<rec>>) = Append(<<>>, g)
    BY <1>1, <1>2, NewGroup, NoGroupsYet
  <1>5. Opened(<<>>, g) = Cat(Opening, Cat(KeyOpen(rec.name), ValueOf(rec)))
    BY <1>3, OneMore
  <1>6. Cat(Opening, Cat(KeyOpen(rec.name), ValueOf(rec))) \in Seq(T)
    BY Pieces, CatSteps
  <1> HIDE DEF g, W, T
  <1>7. More(<<>>, rec) = Opened(<<>>, g)
    BY <1>5 DEF More
  <1>8. Cat(<<>>, More(<<>>, rec)) = Opened(<<>>, g)
    BY <1>5, <1>6, <1>7, CatSteps
  <1> QED BY <1>1, <1>3, <1>4, <1>8 DEF Stands, W

LEMMA LastNamed ==
  ASSUME NEW S, NEW w \in Seq(S), w # <<>>, NEW rec \in S
  PROVE  /\ Len(w) \in DOMAIN w /\ w[Len(w)].name \in Names(w)
         /\ Append(w, rec) # <<>> /\ Append(w, rec)[Len(Append(w, rec))] = rec
         /\ Together(Append(w, rec)) /\ w[Len(w)].name # rec.name => rec.name \notin Names(w)
  <1> DEFINE v == Append(w, rec)
             m == Len(w)
  <1>1. /\ v \in Seq(S) /\ m \in Nat /\ Len(v) = m + 1
        /\ DOMAIN w = 1..m /\ DOMAIN v = 1..(m + 1)
        /\ \A i \in 1..m : v[i] = w[i]
        /\ v[m + 1] = rec
    BY AppendProperties, LenProperties
  <1>2. m # 0
    BY EmptySeq
  <1> HIDE DEF v, m
  <1>3. m \in 1..m /\ v # <<>>
    BY <1>1, <1>2, EmptySeq
  <1>4. ASSUME Together(v), w[m].name # rec.name, rec.name \in Names(w)
        PROVE  FALSE
    <2>1. PICK i \in 1..m : w[i].name = rec.name
      BY <1>1, <1>4 DEF Names
    <2>2. i < m /\ m < m + 1
      BY <1>1, <1>4, <2>1
    <2>3. i \in DOMAIN v /\ m \in DOMAIN v /\ m + 1 \in DOMAIN v
      BY <1>1, <1>3
    <2>4. v[i].name = v[m + 1].name /\ v[m].name # v[i].name
      BY <1>1, <1>3, <1>4, <2>1
    <2> QED BY <1>4, <2>2, <2>3, <2>4 DEF Together
  <1> QED BY <1>1, <1>3, <1>4 DEF v, m, Names

LEMMA StandsNext ==
  ASSUME NEW S, NEW w \in Seq(S), NEW rec \in S, Together(Append(w, rec)),
         NEW f, Stands(S, w, f)
  PROVE  Stands(S, Append(w, rec), Cat(f, More(w, rec)))
  <1>1. CASE w = <<>>
    <2>1. f = <<>> /\ Append(w, rec) = <<rec>>
      BY <1>1 DEF Stands
    <2> QED BY <1>1, <2>1, StandsFirst
  <1>2. CASE w # <<>>
    <2> DEFINE v == Append(w, rec)
               m == Len(w)
               W == GroupsWith(S)
    <2>1. PICK H \in Seq(W), g \in W :
            Groups(w) = Append(H, g) /\ g.name = w[m].name /\ g.records # <<>> /\ f = Opened(H, g)
      BY <1>2, Zenon DEF Stands
    <2>2. /\ w[m].name \in Names(w) /\ v # <<>> /\ v[Len(v)] = rec
          /\ w[m].name # rec.name => rec.name \notin Names(w)
      BY <1>2, LastNamed
    <2> HIDE DEF v, m
    <2>3. CASE w[m].name = rec.name
      <3> DEFINE h == Grown(g, rec)
      <3>1. Groups(v) = Append(H, h)
        <4>1. rec.name \in Names(w) /\ g.name = rec.name /\ Groups(w) = Append(H, g)
          BY <2>1, <2>2, <2>3, Zenon
        <4> QED BY <4>1, SameGroup, Zenon DEF v
      <3>2. h \in W /\ h.name = rec.name /\ h.records # <<>>
        <4>1. g.records \in Seq(S) /\ g.name = rec.name
          BY <2>1, <2>3 DEF GroupsWith
        <4>2. Append(g.records, rec) \in Seq(S) /\ Append(g.records, rec) # <<>>
          BY <4>1, AppendProperties
        <4> QED BY <4>1, <4>2 DEF GroupsWith, Grown
      <3>3. More(w, rec) = Cat(Comma, ValueOf(rec))
        BY <1>2, <2>3 DEF More, m
      <3>4. Opened(H, h) = Cat(f, More(w, rec))
        <4>1. Opened(H, h) = Cat(Opened(H, g), Cat(Comma, ValueOf(rec)))
          <5>1. g.records # <<>>
            BY <2>1
          <5> QED BY <5>1, OneMore
        <4> QED BY <2>1, <3>3, <4>1, Zenon
      <3> HIDE DEF h, W
      <3> QED BY <2>1, <2>2, <3>1, <3>2, <3>4 DEF Stands, v, W
    <2>4. CASE w[m].name # rec.name
      <3> DEFINE h == Alone(rec)
                 K == After(H, g)
      <3>1. Groups(v) = Append(K, h)
        BY <2>1, <2>2, <2>4, NewGroup DEF v, After
      <3>2. h \in W /\ h.name = rec.name /\ h.records # <<>> /\ K \in Seq(W)
        BY <2>1, NewGroupTyped, AppendProperties DEF After
      <3>3. More(w, rec) = Cat(Cat(Shut, Comma), Cat(KeyOpen(rec.name), ValueOf(rec)))
        BY <1>2, <2>4 DEF More, m
      <3>4. Opened(K, h) = Cat(f, More(w, rec))
        <4>1. Opened(K, h)
                = Cat(Opened(H, g), Cat(Cat(Shut, Comma), Cat(KeyOpen(rec.name), ValueOf(rec))))
          BY OneMore
        <4> QED BY <2>1, <3>3, <4>1, Zenon
      <3> HIDE DEF h, K, W
      <3> QED BY <2>1, <2>2, <3>1, <3>2, <3>4 DEF Stands, v, W
    <2> QED BY <2>3, <2>4
  <1> QED BY <1>1, <1>2

LEMMA MoreTyped ==
  ASSUME NEW S, NEW w, NEW rec \in S
  PROVE  More(w, rec) \in Seq(TokensOf(S))
  <1>1. /\ Comma \in Seq(TokensOf(S)) /\ Opening \in Seq(TokensOf(S)) /\ Shut \in Seq(TokensOf(S))
        /\ KeyOpen(rec.name) \in Seq(TokensOf(S)) /\ ValueOf(rec) \in Seq(TokensOf(S))
    BY Pieces
  <1> QED BY <1>1, CatSteps DEF More

(* What closes the output makes it the rendering of all that stands in it. *)
LEMMA StandsClosed ==
  ASSUME NEW S, NEW w, NEW f, Stands(S, w, f)
  PROVE  /\ f \in Seq(TokensOf(S)) /\ Render(Groups(w)) = Cat(f, Closing(w))
         /\ Closing(w) \in Seq(TokensOf(S)) /\ Closing(w) # <<>>
  <1> DEFINE T == TokensOf(S)
  <1>1. Opening \in Seq(T) /\ Brace \in Seq(T) /\ Shut \in Seq(T)
    BY Pieces
  <1>2. Brace # <<>> /\ Len(Brace) \in Nat /\ Len(Brace) # 0
    <2>1. Len(Brace) \in Nat /\ (Len(Brace) = 0 => Brace = <<>>)
      BY <1>1, LenProperties, EmptySeq
    <2>2. Brace # <<>>
      <3>1. \A x : <<x>> # <<>>
        OBVIOUS
      <3> QED BY <3>1, PunctOne, Zenon DEF Brace
    <2> QED BY <2>1, <2>2
  <1>3. Closing(w) \in Seq(T) /\ Closing(w) # <<>>
    <2>1. \A a \in Seq(T) : Cat(a, Brace) \in Seq(T) /\ Cat(a, Brace) # <<>>
      <3> SUFFICES ASSUME NEW a \in Seq(T)
                   PROVE  Cat(a, Brace) \in Seq(T) /\ Cat(a, Brace) # <<>>
        OBVIOUS
      <3>1. a \o Brace \in Seq(T) /\ Len(a \o Brace) = Len(a) + Len(Brace) /\ Len(a) \in Nat
        BY <1>1, ConcatProperties, LenProperties
      <3>2. Len(a \o Brace) # 0
        BY <1>2, <3>1
      <3> QED BY <3>1, <3>2, EmptySeq DEF Cat
    <2> QED BY <1>1, <2>1 DEF Closing
  <1>4. CASE w = <<>>
    <2>1. f = <<>> /\ <<>> \in Seq(T)
      BY <1>4, EmptySeq DEF Stands
    <2>2. Toks(<<>>) = <<>>
      BY DEF Toks
    <2>3. Separated(<<>>) = <<>>
      BY <1>1, Pieces, EmptySeq, SeparatedSteps
    <2>4. Render(<<>>) = Cat(Cat(Opening, Separated(Toks(<<>>))), Brace)
      BY Zenon DEF Render, Toks, Opening, Brace, Cat
    <2>5. Render(<<>>) = Cat(Opening, Brace)
      BY <1>1, <2>2, <2>3, <2>4, CatSteps
    <2>6. Closing(w) = Cat(Opening, Brace)
      BY <1>4 DEF Closing
    <2>7. Render(Groups(w)) = Cat(f, Closing(w))
      BY <1>1, <1>3, <1>4, <2>1, <2>5, <2>6, NoGroupsYet, CatSteps
    <2> QED BY <1>3, <2>1, <2>7
  <1>5. CASE w # <<>>
    <2>1. PICK H \in Seq(GroupsWith(S)), g \in GroupsWith(S) :
            Groups(w) = Append(H, g) /\ f = Opened(H, g)
      BY <1>5, Zenon DEF Stands
    <2>2. Render(Append(H, g)) = Cat(Opened(H, g), Cat(Shut, Brace)) /\ Opened(H, g) \in Seq(T)
      BY Rendered
    <2>3. Closing(w) = Cat(Shut, Brace)
      BY <1>5 DEF Closing
    <2> HIDE DEF T
    <2>4. Render(Groups(w)) = Cat(f, Closing(w)) /\ f \in Seq(T)
      BY <2>1, <2>2, <2>3, Zenon
    <2> QED BY <1>3, <2>4 DEF T
  <1> QED BY <1>4, <1>5

(* The beginnings of a document.                                           *)
Initial(D, n) == [i \in 1..n |-> D[i]]

LEMMA InitialSteps ==
  ASSUME NEW S, NEW D \in Seq(S), Together(D), NEW n \in 0..Len(D)
  PROVE  /\ Initial(D, n) \in Seq(S) /\ Len(Initial(D, n)) = n
         /\ DOMAIN Initial(D, n) = 1..n /\ \A i \in 1..n : Initial(D, n)[i] = D[i]
         /\ Together(Initial(D, n)) /\ Initial(D, Len(D)) = D
         /\ n < Len(D) => /\ D[n + 1] \in S
                          /\ Initial(D, n + 1) = Append(Initial(D, n), D[n + 1])
  <1>1. Len(D) \in Nat /\ DOMAIN D = 1..Len(D) /\ \A i \in 1..Len(D) : D[i] \in S
    BY LenProperties, ElementOfSeq
  <1>2. ASSUME NEW k \in 0..Len(D)
        PROVE  /\ Initial(D, k) \in Seq(S) /\ Len(Initial(D, k)) = k
               /\ DOMAIN Initial(D, k) = 1..k /\ \A i \in 1..k : Initial(D, k)[i] = D[i]
    <2>1. k \in Nat /\ \A i \in 1..k : D[i] \in S
      BY <1>1
    <2> QED BY <2>1 DEF Initial
  <1>3. Together(Initial(D, n))
    <2>1. \A i \in 1..n : i \in DOMAIN D
      BY <1>1
    <2>2. DOMAIN Initial(D, n) = 1..n /\ \A i \in 1..n : Initial(D, n)[i] = D[i]
      BY <1>2
    <2> QED BY <2>1, <2>2 DEF Together
  <1>4. Initial(D, Len(D)) = D
    <2>1. Len(D) \in 0..Len(D)
      BY <1>1
    <2> QED BY <1>2, <2>1, SeqEqual
  <1>5. ASSUME n < Len(D)
        PROVE  D[n + 1] \in S /\ Initial(D, n + 1) = Append(Initial(D, n), D[n + 1])
    <2> DEFINE a == Initial(D, n)
               b == Initial(D, n + 1)
               r == D[n + 1]
    <2>1. n + 1 \in 0..Len(D) /\ n + 1 \in 1..Len(D) /\ n \in Nat
      BY <1>1, <1>5
    <2>2. a \in Seq(S) /\ Len(a) = n /\ \A i \in 1..n : a[i] = D[i]
      BY <1>2
    <2>3. b \in Seq(S) /\ Len(b) = n + 1 /\ \A i \in 1..(n + 1) : b[i] = D[i]
      BY <1>2, <2>1
    <2>4. r \in S
      BY <1>1, <2>1
    <2> HIDE DEF a, b
    <2>5. /\ Append(a, r) \in Seq(S) /\ Len(Append(a, r)) = n + 1
          /\ \A i \in 1..n : Append(a, r)[i] = a[i]
          /\ Append(a, r)[n + 1] = r
      BY <2>2, <2>4, AppendProperties
    <2>6. \A i \in 1..(n + 1) : i \in 1..n \/ i = n + 1
      BY <2>1
    <2>7. \A i \in 1..(n + 1) : b[i] = Append(a, r)[i]
      BY <2>2, <2>3, <2>5, <2>6
    <2>8. b = Append(a, r)
      BY <2>3, <2>5, <2>7, SeqEqual
    <2> QED BY <2>4, <2>8 DEF a, b
  <1> QED BY <1>1, <1>2, <1>3, <1>4, <1>5

(* What stands in the output after n records is the beginning of what      *)
(* stands in it in the end.                                                *)
LEMMA StandsOn ==
  ASSUME NEW S, NEW D \in Seq(S), Together(D), NEW n \in 0..Len(D),
         NEW f \in Seq(TokensOf(S)), Stands(S, Initial(D, n), f)
  PROVE  \E u \in Seq(TokensOf(S)) : Stands(S, D, Cat(f, u))
  <1> DEFINE T == TokensOf(S)
             Good(k) == \E u \in Seq(T) : Stands(S, Initial(D, k), Cat(f, u))
             Bad == {k \in n..Len(D) : ~Good(k)}
  <1>1. Len(D) \in Nat /\ n \in Nat /\ Len(D) \in n..Len(D)
    BY LenProperties
  <1>2. Good(n)
    <2>1. <<>> \in Seq(T) /\ Cat(f, <<>>) = f
      BY EmptySeq, CatSteps
    <2> WITNESS <<>> \in Seq(T)
    <2> QED BY <2>1
  <1>3. ASSUME NEW k \in n..Len(D), k + 1 \in n..Len(D), Good(k)
        PROVE  Good(k + 1)
    <2>1. PICK u \in Seq(T) : Stands(S, Initial(D, k), Cat(f, u))
      BY <1>3
    <2> DEFINE w == Initial(D, k)
               r == D[k + 1]
               v == Cat(u, More(w, r))
    <2>2. k \in 0..Len(D) /\ k < Len(D)
      BY <1>1, <1>3
    <2>3. w \in Seq(S) /\ r \in S /\ Initial(D, k + 1) = Append(w, r)
      BY <2>2, InitialSteps
    <2>4. Together(Initial(D, k + 1))
      <3>1. k + 1 \in 0..Len(D)
        BY <1>1, <1>3
      <3> QED BY <3>1, InitialSteps
    <2> HIDE DEF w, r
    <2>5. Stands(S, Append(w, r), Cat(Cat(f, u), More(w, r)))
      BY <2>1, <2>3, <2>4, StandsNext, Zenon DEF w
    <2>6. v \in Seq(T) /\ Cat(Cat(f, u), More(w, r)) = Cat(f, v)
      <3>1. More(w, r) \in Seq(T)
        BY <2>3, MoreTyped
      <3> HIDE DEF T
      <3>2. f \in Seq(T) /\ u \in Seq(T)
        BY DEF T
      <3> QED BY <3>1, <3>2, CatSteps
    <2>7. Stands(S, Initial(D, k + 1), Cat(f, v))
      BY <2>3, <2>5, <2>6, Zenon
    <2> QED BY <2>6, <2>7
  <1> HIDE DEF Good
  <1>4. Bad = {}
    <2> SUFFICES ASSUME Bad # {} PROVE FALSE
      OBVIOUS
    <2>1. Bad \subseteq Nat
      BY <1>1
    <2>2. PICK k \in Bad : \A j \in Bad : k <= j
      <3> HIDE DEF Bad
      <3> QED BY <2>1, LeastMember
    <2>3. k # n /\ k \in n..Len(D) /\ ~Good(k)
      BY <1>2, <2>2
    <2>4. k - 1 \in n..Len(D) /\ (k - 1) + 1 = k /\ ~(k <= k - 1)
      BY <1>1, <2>3
    <2>5. Good(k - 1)
      BY <2>2, <2>4
    <2> QED BY <1>3, <2>3, <2>4, <2>5
  <1>5. Good(Len(D))
    BY <1>1, <1>4
  <1>6. Initial(D, Len(D)) = D
    BY InitialSteps
  <1> QED BY <1>5, <1>6 DEF Good

(* The beginning of the document, and not the whole of it.                 *)
LEMMA StandsBegins ==
  ASSUME NEW S, NEW D \in Seq(S), Together(D), NEW n \in 0..Len(D),
         NEW f, Stands(S, Initial(D, n), f)
  PROVE  IsPrefix(f, Render(Groups(D))) /\ f # Render(Groups(D))
  <1> DEFINE T == TokensOf(S)
             R == Render(Groups(D))
  <1>1. f \in Seq(T)
    BY StandsClosed
  <1>2. PICK u \in Seq(T) : Stands(S, D, Cat(f, u))
    BY <1>1, StandsOn
  <1> DEFINE c == Closing(D)
  <1>3. R = Cat(Cat(f, u), c) /\ c \in Seq(T) /\ c # <<>>
    BY <1>2, StandsClosed
  <1> DEFINE t == Cat(u, c)
  <1> HIDE DEF T, R, c
  <1>4. t \in Seq(T) /\ R = Cat(f, t)
    BY <1>1, <1>3, CatSteps
  <1>5. Len(t) \in Nat /\ Len(t) # 0
    <2>1. t = u \o c /\ Len(u \o c) = Len(u) + Len(c)
      BY <1>3, ConcatProperties DEF Cat
    <2>2. Len(u) \in Nat /\ Len(c) \in Nat /\ Len(c) # 0
      BY <1>3, LenProperties, EmptySeq
    <2> HIDE DEF t
    <2> QED BY <2>1, <2>2
  <1> HIDE DEF t
  <1>6. /\ R \in Seq(T) /\ Len(R) = Len(f) + Len(t) /\ Len(f) \in Nat
        /\ \A i \in 1..Len(f) : R[i] = f[i]
    <2>1. /\ f \o t \in Seq(T) /\ Len(f \o t) = Len(f) + Len(t) /\ Len(f) \in Nat
          /\ \A i \in 1..(Len(f) + Len(t)) :
               (f \o t)[i] = IF i <= Len(f) THEN f[i] ELSE t[i - Len(f)]
      BY <1>1, <1>4, ConcatProperties, LenProperties
    <2> QED BY <1>4, <1>5, <2>1 DEF Cat
  <1>7. f # R
    BY <1>5, <1>6
  <1>8. Len(f) <= Len(R) /\ SubSeq(f, 1, Len(f)) = f /\ SubSeq(R, 1, Len(f)) = f
    <2>1. Len(f) <= Len(R)
      BY <1>5, <1>6
    <2>2. /\ SubSeq(R, 1, Len(f)) \in Seq(T) /\ Len(SubSeq(R, 1, Len(f))) = Len(f)
          /\ \A i \in 1..Len(f) : SubSeq(R, 1, Len(f))[i] = R[i]
      BY <1>6, <2>1, SubSeqProperties
    <2>3. /\ SubSeq(f, 1, Len(f)) \in Seq(T) /\ Len(SubSeq(f, 1, Len(f))) = Len(f)
          /\ \A i \in 1..Len(f) : SubSeq(f, 1, Len(f))[i] = f[i]
      BY <1>1, <1>6, SubSeqProperties
    <2>4. SubSeq(f, 1, Len(f)) = f
      BY <1>1, <2>3, SeqEqual
    <2>5. \A i \in 1..Len(f) : SubSeq(R, 1, Len(f))[i] = f[i]
      BY <1>6, <2>2
    <2>6. SubSeq(R, 1, Len(f)) = f
      BY <1>1, <2>2, <2>5, SeqEqual
    <2> QED BY <2>1, <2>4, <2>6
  <1>9. IsPrefix(f, R)
    BY <1>8 DEF IsPrefix
  <1> QED BY <1>7, <1>9 DEF R

-----------------------------------------------------------------------------
(* The keys of the output. *)

IsKey(t) == t[1] = "key"
KeysIn(f) == {f[i] : i \in {k \in DOMAIN f : IsKey(f[k])}}
Once(f) == \A i, j \in DOMAIN f : IsKey(f[i]) /\ f[j] = f[i] => i = j
KeyToken(n) == <<"key", n>>

LEMMA KeysCat ==
  ASSUME NEW T, NEW a \in Seq(T), NEW b \in Seq(T)
  PROVE  /\ KeysIn(Cat(a, b)) = KeysIn(a) \cup KeysIn(b)
         /\ Once(a) /\ Once(b) /\ KeysIn(a) \cap KeysIn(b) = {} => Once(Cat(a, b))
  <1> DEFINE c == Cat(a, b)
             m == Len(a)
             n == Len(b)
  <1>1. /\ m \in Nat /\ n \in Nat /\ DOMAIN a = 1..m /\ DOMAIN b = 1..n /\ DOMAIN c = 1..(m + n)
        /\ \A i \in 1..m : c[i] = a[i]
        /\ \A i \in 1..n : c[m + i] = b[i]
    <2>1. /\ m \in Nat /\ n \in Nat /\ DOMAIN a = 1..m /\ DOMAIN b = 1..n
      BY LenProperties
    <2>2. /\ c \in Seq(T) /\ Len(c) = m + n
          /\ \A i \in 1..(m + n) : c[i] = IF i <= m THEN a[i] ELSE b[i - m]
      BY ConcatProperties DEF Cat
    <2>3. DOMAIN c = 1..(m + n)
      BY <2>2, LenProperties
    <2> HIDE DEF c, m, n
    <2>4. ASSUME NEW i \in 1..m PROVE c[i] = a[i]
      <3>1. i \in 1..(m + n) /\ i <= m
        BY <2>1
      <3> QED BY <2>2, <3>1
    <2>5. ASSUME NEW i \in 1..n PROVE c[m + i] = b[i]
      <3>1. m + i \in 1..(m + n) /\ ~(m + i <= m) /\ (m + i) - m = i
        BY <2>1
      <3> QED BY <2>2, <3>1
    <2> QED BY <2>1, <2>3, <2>4, <2>5
  <1> HIDE DEF c, m, n
  <1>2. \A k \in 1..(m + n) : k \in 1..m \/ \E i \in 1..n : k = m + i
    <2> SUFFICES ASSUME NEW k \in 1..(m + n), k \notin 1..m PROVE \E i \in 1..n : k = m + i
      OBVIOUS
    <2>1. k - m \in 1..n /\ k = m + (k - m)
      BY <1>1
    <2> QED BY <2>1
  <1>3. /\ \A i \in 1..m : i \in 1..(m + n)
        /\ \A i \in 1..n : m + i \in 1..(m + n)
        /\ \A i, j \in 1..n : m + i = m + j => i = j
    BY <1>1
  <1>4. KeysIn(c) = KeysIn(a) \cup KeysIn(b)
    <2>1. ASSUME NEW x \in KeysIn(c) PROVE x \in KeysIn(a) \cup KeysIn(b)
      <3>1. PICK k \in 1..(m + n) : x = c[k] /\ IsKey(c[k])
        BY <1>1 DEF KeysIn
      <3>2. CASE k \in 1..m
        BY <1>1, <3>1, <3>2 DEF KeysIn
      <3>3. CASE \E i \in 1..n : k = m + i
        BY <1>1, <3>1, <3>3 DEF KeysIn
      <3> QED BY <1>2, <3>2, <3>3
    <2>2. ASSUME NEW x \in KeysIn(a) PROVE x \in KeysIn(c)
      BY <1>1, <1>3 DEF KeysIn
    <2>3. ASSUME NEW x \in KeysIn(b) PROVE x \in KeysIn(c)
      <3>1. PICK i \in 1..n : x = b[i] /\ IsKey(b[i])
        BY <1>1 DEF KeysIn
      <3>2. m + i \in DOMAIN c /\ c[m + i] = x
        BY <1>1, <1>3, <3>1
      <3> QED BY <3>1, <3>2 DEF KeysIn
    <2> QED BY <2>1, <2>2, <2>3
  <1>5. ASSUME Once(a), Once(b), KeysIn(a) \cap KeysIn(b) = {} PROVE Once(c)
    <2> SUFFICES ASSUME NEW k \in 1..(m + n), NEW l \in 1..(m + n), IsKey(c[k]), c[l] = c[k]
                 PROVE  k = l
      BY <1>1 DEF Once
    <2>0. /\ \A i \in 1..m : IsKey(a[i]) => a[i] \in KeysIn(a)
          /\ \A i \in 1..n : IsKey(b[i]) => b[i] \in KeysIn(b)
      BY <1>1 DEF KeysIn
    <2>1. CASE k \in 1..m /\ l \in 1..m
      BY <1>1, <1>5, <2>1 DEF Once
    <2>2. CASE k \in 1..m /\ \E i \in 1..n : l = m + i
      <3>1. PICK i \in 1..n : l = m + i
        BY <2>2
      <3>2. IsKey(a[k]) /\ a[k] = b[i]
        BY <1>1, <2>2, <3>1
      <3> QED BY <1>5, <2>0, <2>2, <3>2
    <2>3. CASE l \in 1..m /\ \E i \in 1..n : k = m + i
      <3>1. PICK i \in 1..n : k = m + i
        BY <2>3
      <3>2. IsKey(a[l]) /\ a[l] = b[i]
        BY <1>1, <2>3, <3>1
      <3> QED BY <1>5, <2>0, <2>3, <3>2
    <2>4. CASE (\E i \in 1..n : k = m + i) /\ \E i \in 1..n : l = m + i
      <3>1. PICK i \in 1..n, j \in 1..n : k = m + i /\ l = m + j
        BY <2>4
      <3>2. IsKey(b[i]) /\ b[i] = b[j]
        BY <1>1, <3>1
      <3>3. i = j
        BY <1>1, <1>5, <3>2 DEF Once
      <3> QED BY <3>1, <3>3
    <2> QED BY <1>2, <2>1, <2>2, <2>3, <2>4
  <1> QED BY <1>4, <1>5 DEF c

(* A token of one member is no key unless it says so.                      *)
LEMMA KeysOfOne ==
  ASSUME NEW x
  PROVE  x[1] # "key" => KeysIn(<<x>>) = {} /\ Once(<<x>>)
  <1>1. DOMAIN <<x>> = {1} /\ <<x>>[1] = x
    OBVIOUS
  <1> DEFINE f == <<x>>
  <1> HIDE DEF f
  <1>2. DOMAIN f = {1} /\ f[1] = x
    BY <1>1 DEF f
  <1>3. ASSUME x[1] # "key" PROVE KeysIn(f) = {} /\ Once(f)
    BY <1>2, <1>3 DEF KeysIn, Once, IsKey
  <1> QED BY <1>3 DEF f

LEMMA KeysOfPunct ==
  ASSUME NEW s, s # "key"
  PROVE  KeysIn(Punct(<<s>>)) = {} /\ Once(Punct(<<s>>))
  <1> DEFINE x == <<s>>
  <1>1. x[1] # "key"
    OBVIOUS
  <1>2. Punct(<<s>>) = <<x>>
    BY PunctOne
  <1> HIDE DEF x
  <1> QED BY <1>1, <1>2, KeysOfOne

LEMMA KeysOfPieces ==
  ASSUME NEW r
  PROVE  /\ KeysIn(Comma) = {} /\ Once(Comma)
         /\ KeysIn(Opening) = {} /\ Once(Opening)
         /\ KeysIn(Shut) = {} /\ Once(Shut)
         /\ KeysIn(Brace) = {} /\ Once(Brace)
         /\ KeysIn(ValueOf(r)) = {} /\ Once(ValueOf(r))
         /\ KeysIn(KeyOpen(r.name)) = {KeyToken(r.name)} /\ Once(KeyOpen(r.name))
  <1>1. "," # "key" /\ "{" # "key" /\ "}" # "key" /\ "]" # "key" /\ "[" # "key" /\ "value" # "key"
    BY Zenon
  <1>2. KeysIn(Comma) = {} /\ Once(Comma)
    BY <1>1, KeysOfPunct, Zenon DEF Comma
  <1>3. KeysIn(Opening) = {} /\ Once(Opening)
    BY <1>1, KeysOfPunct, Zenon DEF Opening
  <1>4. KeysIn(Shut) = {} /\ Once(Shut)
    BY <1>1, KeysOfPunct, Zenon DEF Shut
  <1>5. KeysIn(Brace) = {} /\ Once(Brace)
    BY <1>1, KeysOfPunct, Zenon DEF Brace
  <1>6. KeysIn(ValueOf(r)) = {} /\ Once(ValueOf(r))
    <2> DEFINE x == <<"value", r>>
    <2>1. x[1] # "key"
      BY SMT
    <2> HIDE DEF x
    <2> QED BY <2>1, KeysOfOne DEF x, ValueOf
  <1>7. KeysIn(KeyOpen(r.name)) = {KeyToken(r.name)} /\ Once(KeyOpen(r.name))
    <2>1. \A y : y # "key" =>
            KeysIn(<< <<"key", r.name>>, <<y>> >>) = {<<"key", r.name>>}
            /\ Once(<< <<"key", r.name>>, <<y>> >>)
      <3> SUFFICES ASSUME NEW y, y # "key"
                   PROVE  KeysIn(<< <<"key", r.name>>, <<y>> >>) = {<<"key", r.name>>}
                          /\ Once(<< <<"key", r.name>>, <<y>> >>)
        OBVIOUS
      <3> DEFINE k == <<"key", r.name>>
                 z == <<y>>
                 f == <<k, z>>
      <3>1. k[1] = "key" /\ z[1] # "key"
        OBVIOUS
      <3> HIDE DEF k, z
      <3>2. DOMAIN f = {1, 2} /\ f[1] = k /\ f[2] = z
        OBVIOUS
      <3> HIDE DEF f
      <3>3. IsKey(k) /\ ~IsKey(z)
        BY <3>1 DEF IsKey
      <3>4. {i \in DOMAIN f : IsKey(f[i])} = {1}
        BY <3>2, <3>3
      <3>5. KeysIn(f) = {k} /\ Once(f)
        BY <3>2, <3>3, <3>4 DEF KeysIn, Once
      <3> QED BY <3>5 DEF f, k, z
    <2> QED BY <1>1, <2>1, Zenon DEF KeyOpen, KeyToken
  <1> QED BY <1>2, <1>3, <1>4, <1>5, <1>6, <1>7

(* The keys of the output are the names written, each once: what is added  *)
(* has no key, or that of a name not written yet.                          *)
KeysTold(w, f) == Once(f) /\ KeysIn(f) \subseteq {KeyToken(n) : n \in Names(w)}
Plain(T, t) == t \in Seq(T) /\ Once(t) /\ KeysIn(t) = {}
Fresh(T, n, t) == t \in Seq(T) /\ Once(t) /\ KeysIn(t) = {KeyToken(n)}

LEMMA PlainCat ==
  ASSUME NEW T, NEW a, NEW b, Plain(T, a), Plain(T, b)
  PROVE  Plain(T, Cat(a, b))
  <1>1. a \in Seq(T) /\ b \in Seq(T) /\ Once(a) /\ Once(b) /\ KeysIn(a) = {} /\ KeysIn(b) = {}
    BY DEF Plain
  <1>2. Cat(a, b) \in Seq(T)
    BY <1>1, CatSteps
  <1>3. KeysIn(Cat(a, b)) = KeysIn(a) \cup KeysIn(b)
    BY <1>1, KeysCat
  <1>4. Once(Cat(a, b))
    <2>1. KeysIn(a) \cap KeysIn(b) = {}
      BY <1>1
    <2> QED BY <1>1, <2>1, KeysCat
  <1> QED BY <1>1, <1>2, <1>3, <1>4 DEF Plain

LEMMA FreshCat ==
  ASSUME NEW T, NEW n, NEW a, NEW b,
         \/ Plain(T, a) /\ Fresh(T, n, b)
         \/ Fresh(T, n, a) /\ Plain(T, b)
  PROVE  Fresh(T, n, Cat(a, b))
  <1>1. a \in Seq(T) /\ b \in Seq(T) /\ Once(a) /\ Once(b)
    BY DEF Plain, Fresh
  <1>2. KeysIn(a) \cap KeysIn(b) = {} /\ KeysIn(a) \cup KeysIn(b) = {KeyToken(n)}
    BY DEF Plain, Fresh
  <1>3. Cat(a, b) \in Seq(T)
    BY <1>1, CatSteps
  <1>4. KeysIn(Cat(a, b)) = KeysIn(a) \cup KeysIn(b)
    BY <1>1, KeysCat
  <1>5. Once(Cat(a, b))
    BY <1>1, <1>2, KeysCat
  <1> QED BY <1>2, <1>3, <1>4, <1>5 DEF Fresh

LEMMA TellPlain ==
  ASSUME NEW T, NEW w, NEW v, Names(w) \subseteq Names(v), NEW f \in Seq(T), KeysTold(w, f),
         NEW t, Plain(T, t)
  PROVE  KeysTold(v, Cat(f, t))
  <1>1. t \in Seq(T) /\ Once(t) /\ KeysIn(t) = {} /\ Once(f)
    BY DEF Plain, KeysTold
  <1>2. KeysIn(Cat(f, t)) = KeysIn(f) \cup KeysIn(t)
    BY <1>1, KeysCat
  <1>3. Once(Cat(f, t))
    <2>1. KeysIn(f) \cap KeysIn(t) = {}
      BY <1>1
    <2> QED BY <1>1, <2>1, KeysCat
  <1> QED BY <1>1, <1>2, <1>3 DEF KeysTold

LEMMA TellFresh ==
  ASSUME NEW T, NEW w, NEW v, NEW n, n \notin Names(w), Names(v) = Names(w) \cup {n},
         NEW f \in Seq(T), KeysTold(w, f), NEW t, Fresh(T, n, t)
  PROVE  KeysTold(v, Cat(f, t))
  <1>1. t \in Seq(T) /\ Once(t) /\ KeysIn(t) = {KeyToken(n)} /\ Once(f)
    BY DEF Fresh, KeysTold
  <1>2. KeysIn(f) \cap KeysIn(t) = {}
    <2>1. \A k : KeyToken(k) = KeyToken(n) => k = n
      BY DEF KeyToken
    <2> QED BY <1>1, <2>1 DEF KeysTold
  <1>3. KeysIn(Cat(f, t)) = KeysIn(f) \cup KeysIn(t)
    BY <1>1, KeysCat
  <1>4. Once(Cat(f, t))
    BY <1>1, <1>2, KeysCat
  <1> QED BY <1>1, <1>3, <1>4 DEF KeysTold

LEMMA PiecesTold ==
  ASSUME NEW S, NEW rec \in S
  PROVE  LET T == TokensOf(S)
         IN  /\ Plain(T, Comma) /\ Plain(T, Opening) /\ Plain(T, Shut) /\ Plain(T, Brace)
             /\ Plain(T, ValueOf(rec)) /\ Fresh(T, rec.name, KeyOpen(rec.name))
  <1>1. /\ Comma \in Seq(TokensOf(S)) /\ Opening \in Seq(TokensOf(S)) /\ Shut \in Seq(TokensOf(S))
        /\ Brace \in Seq(TokensOf(S)) /\ KeyOpen(rec.name) \in Seq(TokensOf(S))
        /\ ValueOf(rec) \in Seq(TokensOf(S))
    BY Pieces
  <1> QED BY <1>1, KeysOfPieces DEF Plain, Fresh

LEMMA MoreTold ==
  ASSUME NEW S, NEW w, NEW rec \in S
  PROVE  IF w # <<>> /\ w[Len(w)].name = rec.name
         THEN Plain(TokensOf(S), More(w, rec))
         ELSE Fresh(TokensOf(S), rec.name, More(w, rec))
  <1> DEFINE T == TokensOf(S)
             n == rec.name
             k == KeyOpen(n)
             x == ValueOf(rec)
  <1>1. /\ Plain(T, Comma) /\ Plain(T, Opening) /\ Plain(T, Shut) /\ Plain(T, x) /\ Fresh(T, n, k)
    BY PiecesTold
  <1> HIDE DEF T, n, k, x
  <1>2. Fresh(T, n, Cat(k, x))
    BY <1>1, FreshCat
  <1>3. CASE w = <<>>
    <2>1. Fresh(T, n, Cat(Opening, Cat(k, x)))
      BY <1>1, <1>2, FreshCat
    <2> QED BY <1>3, <2>1 DEF More, T, n, k, x
  <1>4. CASE w # <<>> /\ w[Len(w)].name = n
    <2>1. Plain(T, Cat(Comma, x))
      BY <1>1, PlainCat
    <2> QED BY <1>4, <2>1 DEF More, T, n, x
  <1>5. CASE w # <<>> /\ w[Len(w)].name # n
    <2>1. Plain(T, Cat(Shut, Comma))
      BY <1>1, PlainCat
    <2>2. Fresh(T, n, Cat(Cat(Shut, Comma), Cat(k, x)))
      BY <1>2, <2>1, FreshCat
    <2> QED BY <1>5, <2>2 DEF More, T, n, k, x
  <1> QED BY <1>3, <1>4, <1>5 DEF n, T

LEMMA NamesNext ==
  ASSUME NEW S, NEW w \in Seq(S), NEW rec \in S
  PROVE  Names(Append(w, rec)) = Names(w) \cup {rec.name}
  <1> DEFINE v == Append(w, rec)
             m == Len(w)
  <1>1. /\ m \in Nat /\ DOMAIN w = 1..m /\ DOMAIN v = 1..(m + 1)
        /\ \A i \in 1..m : v[i] = w[i]
        /\ v[m + 1] = rec
    BY AppendProperties, LenProperties
  <1> HIDE DEF v, m
  <1>2. \A i \in 1..(m + 1) : i \in 1..m \/ i = m + 1
    BY <1>1
  <1>3. m + 1 \in 1..(m + 1) /\ \A i \in 1..m : i \in 1..(m + 1)
    BY <1>1
  <1>4. Names(v) = Names(w) \cup {rec.name}
    BY <1>1, <1>2, <1>3 DEF Names
  <1> QED BY <1>4 DEF v

LEMMA KeysNext ==
  ASSUME NEW S, NEW w \in Seq(S), NEW rec \in S, NEW v, v = Append(w, rec), Together(v),
         NEW f \in Seq(TokensOf(S)), KeysTold(w, f)
  PROVE  KeysTold(v, Cat(f, More(w, rec)))
  <1> DEFINE T == TokensOf(S)
             t == More(w, rec)
  <1>1. Names(v) = Names(w) \cup {rec.name}
    BY NamesNext
  <1>2. CASE w # <<>> /\ w[Len(w)].name = rec.name
    <2>1. Plain(T, t)
      BY <1>2, MoreTold
    <2>2. Names(w) \subseteq Names(v)
      BY <1>1
    <2> HIDE DEF t, T
    <2>3. KeysTold(v, Cat(f, t))
      <3>1. f \in Seq(T)
        BY DEF T
      <3> QED BY <2>1, <2>2, <3>1, TellPlain
    <2> QED BY <2>3 DEF t
  <1>3. CASE ~(w # <<>> /\ w[Len(w)].name = rec.name)
    <2>1. Fresh(T, rec.name, t)
      BY <1>3, MoreTold
    <2>2. rec.name \notin Names(w)
      <3>1. CASE w = <<>>
        BY <3>1 DEF Names
      <3>2. CASE w # <<>>
        BY <1>3, <3>2, LastNamed
      <3> QED BY <3>1, <3>2
    <2> HIDE DEF t, T
    <2>3. KeysTold(v, Cat(f, t))
      <3>1. f \in Seq(T)
        BY DEF T
      <3> QED BY <1>1, <2>1, <2>2, <3>1, TellFresh
    <2> QED BY <2>3 DEF t
  <1> QED BY <1>2, <1>3

LEMMA KeysClosed ==
  ASSUME NEW S, NEW w, NEW f \in Seq(TokensOf(S)), KeysTold(w, f)
  PROVE  KeysTold(w, Cat(f, Closing(w)))
  <1> DEFINE T == TokensOf(S)
  <1>1. Plain(T, Brace) /\ Plain(T, Opening) /\ Plain(T, Shut)
    BY Pieces, KeysOfPieces DEF Plain
  <1> HIDE DEF T
  <1>2. Plain(T, Cat(Opening, Brace)) /\ Plain(T, Cat(Shut, Brace))
    BY <1>1, PlainCat
  <1>3. Plain(T, Closing(w))
    BY <1>2 DEF Closing
  <1>4. Names(w) \subseteq Names(w) /\ f \in Seq(T)
    BY DEF T
  <1> QED BY <1>3, <1>4, TellPlain

-----------------------------------------------------------------------------
(* The document of a dump, where the names of the model allow it. *)

RecordsOf(D) == {D[i] : i \in DOMAIN D}
Nameable(D) == \A i \in DOMAIN D : D[i].name # NoEntity /\ Kept[D[i].name] = D[i].name

LEMMA DocumentNamed ==
  ASSUME NamesTogether, NamesKept, NEW d \in Databases, NEW m \in Models,
         NEW D, D = Document[d][m]
  PROVE  D \in Seq(RecordsOf(D)) /\ Together(D) /\ Nameable(D)
  <1> DEFINE S == KnownIn(d, m)
             R == InOrder(S)
             L == Listed(R, S)
             N == Cardinality(S)
             known == Parse(m)
  <1>1. /\ N \in Nat /\ DOMAIN D = 1..N /\ D = [i \in 1..N |-> D[i]] /\ Len(D) = N
        /\ \A i \in 1..N : D[i] = Described(d, known, L[i])
    BY DocumentByRank
  <1>2. IsFiniteSet(S) /\ Orders(R, S)
    BY KnownOrdered
  <1>3. \A o \in S : o.entity \in DOMAIN known /\ o.entity \in Nat
    <2>1. \A o \in S : o.entity \in ShortIds
      BY KnownOrdered
    <2>2. ShortIds \subseteq Nat
      BY SMT DEF ShortIds
    <2> QED BY <2>1, <2>2 DEF KnownIn
  <1>4. \A x, y : <<x, y>> \in R => Before(x, y)
    BY DEF InOrder
  <1>5. \A o : Described(d, known, o).name = known[o.entity].name
    BY DEF Described
  <1> HIDE DEF S, R, known
  <1>6. \A i \in 1..N : L[i] \in S /\ Rank(R, S, L[i]) = i - 1
    BY <1>2, ListedByRank
  <1> HIDE DEF L, N
  <1>7. \A i \in 1..N : D[i].name = known[L[i].entity].name
    BY <1>1, <1>5
  <1>8. ASSUME NEW i \in 1..N, NEW j \in 1..N, i < j PROVE L[i].entity <= L[j].entity
    <2>1. ~(<<L[j], L[i]>> \in R)
      <3>1. ASSUME <<L[j], L[i]>> \in R PROVE FALSE
        <4>1. Rank(R, S, L[j]) < Rank(R, S, L[i])
          BY <1>2, <1>6, <3>1, RankGrows
        <4> QED BY <1>1, <1>6, <1>8, <4>1
      <3> QED BY <3>1
    <2>2. L[i] = L[j] \/ <<L[i], L[j]>> \in R
      BY <1>2, <1>6, <2>1 DEF Orders
    <2>3. L[i] = L[j] \/ Before(L[i], L[j])
      BY <1>4, <2>2
    <2> QED BY <1>3, <1>6, <2>3 DEF Before
  <1>9. D \in Seq(RecordsOf(D))
    <2>1. \A i \in 1..N : D[i] \in RecordsOf(D)
      BY <1>1 DEF RecordsOf
    <2> DEFINE X == RecordsOf(D)
    <2> HIDE DEF X
    <2>2. D \in [1..N -> X]
      BY <1>1, <2>1 DEF X
    <2> QED BY <1>1, <2>2 DEF X
  <1>10. Together(D)
    <2> SUFFICES ASSUME NEW i \in 1..N, NEW j \in 1..N, NEW k \in 1..N,
                        i < j, j < k, D[i].name = D[k].name
                 PROVE  D[j].name = D[i].name
      BY <1>1 DEF Together
    <2> DEFINE e == L[i].entity
               f == L[j].entity
               g == L[k].entity
    <2>1. /\ e \in DOMAIN known /\ f \in DOMAIN known /\ g \in DOMAIN known
          /\ e \in Nat /\ f \in Nat /\ g \in Nat
      BY <1>3, <1>6
    <2>2. e <= f /\ f <= g
      BY <1>8
    <2>3. /\ D[i].name = known[e].name /\ D[j].name = known[f].name
          /\ D[k].name = known[g].name
      BY <1>7
    <2> HIDE DEF e, f, g
    <2>4. e < f /\ f < g => known[f].name = known[e].name
      BY <2>1, <2>3 DEF NamesTogether, known
    <2>5. e = f \/ f = g \/ (e < f /\ f < g)
      BY <2>1, <2>2
    <2> QED BY <2>3, <2>4, <2>5
  <1>11. \A i \in 1..N : D[i].name # NoEntity /\ Kept[D[i].name] = D[i].name
    <2>1. \A e \in DOMAIN known : known[e].name # NoEntity /\ Kept[known[e].name] = known[e].name
      BY Zenon DEF NamesKept, known
    <2> QED BY <1>3, <1>6, <1>7, <2>1
  <1>12. Nameable(D)
    BY <1>1, <1>11 DEF Nameable
  <1> QED BY <1>9, <1>10, <1>12

-----------------------------------------------------------------------------
(* What the callback and the end of the command write. *)

(* The state of the callback says where the records of w have left it.     *)
Told(w) ==
  [lastEntity |-> IF w = <<>> THEN NoEntity ELSE w[Len(w)].name,
   wroteAnyEntity |-> w # <<>>,
   wroteAnyInCurrentEntity |-> w # <<>>]

InTurn(a, b, c, d) == Cat(Cat(Cat(a, b), c), d)
LEMMA CbParts ==
  ASSUME NEW rec
  PROVE  CbTokens(rec) =
           InTurn(IF ~isNewEntity(rec.name) THEN <<>>
                 ELSE IF ctx.wroteAnyEntity THEN Punct(<<"]", ",">>) ELSE Opening,
                 IF isNewEntity(rec.name) THEN KeyOpen(rec.name) ELSE <<>>,
                 IF ~isNewEntity(rec.name) /\ ctx.wroteAnyInCurrentEntity THEN Comma ELSE <<>>,
                 ValueOf(rec))
  BY Zenon DEF CbTokens, InTurn, Cat, Opening, KeyOpen, Comma, ValueOf

LEMMA CbIsMore ==
  ASSUME NEW S, NEW w, ctx = Told(w), NEW rec \in S, rec.name # NoEntity,
         NEW f \in Seq(TokensOf(S)), w # <<>> => w[Len(w)].name # NoEntity
  PROVE  /\ f \o CbTokens(rec) = Cat(f, More(w, rec))
         /\ isNewEntity(rec.name) <=> (w = <<>> \/ w[Len(w)].name # rec.name)
  <1> DEFINE T == TokensOf(S)
             n == rec.name
             a == KeyOpen(n)
             v == ValueOf(rec)
  <1>1. /\ ctx.lastEntity = (IF w = <<>> THEN NoEntity ELSE w[Len(w)].name)
        /\ ctx.wroteAnyEntity = (w # <<>>) /\ ctx.wroteAnyInCurrentEntity = (w # <<>>)
    BY DEF Told
  <1>2. isNewEntity(n) <=> (w = <<>> \/ w[Len(w)].name # n)
    BY <1>1 DEF isNewEntity
  <1>3. /\ Comma \in Seq(T) /\ Opening \in Seq(T) /\ Shut \in Seq(T) /\ a \in Seq(T)
        /\ v \in Seq(T) /\ <<>> \in Seq(T)
    BY Pieces, EmptySeq
  <1>4. Punct(<<"]", ",">>) = Cat(Shut, Comma)
    BY PunctTwo, Zenon DEF Cat, Shut, Comma
  <1> HIDE DEF T, n, a, v
  <1>5. CASE w = <<>>
    <2>1. CbTokens(rec) = InTurn(Opening, a, <<>>, v)
      BY <1>1, <1>2, <1>5, CbParts, Zenon DEF n, a, v
    <2>2. InTurn(Opening, a, <<>>, v) = Cat(Opening, Cat(a, v))
      BY <1>3, CatSteps DEF InTurn
    <2>3. More(w, rec) = Cat(Opening, Cat(a, v))
      BY <1>5 DEF More, n, a, v
    <2> QED BY <1>2, <2>1, <2>2, <2>3, Zenon DEF Cat, n
  <1>6. CASE w # <<>> /\ w[Len(w)].name = n
    <2>1. CbTokens(rec) = InTurn(<<>>, <<>>, Comma, v)
      BY <1>1, <1>2, <1>6, CbParts, Zenon DEF n, a, v
    <2>2. InTurn(<<>>, <<>>, Comma, v) = Cat(Comma, v)
      BY <1>3, CatSteps DEF InTurn
    <2>3. More(w, rec) = Cat(Comma, v)
      BY <1>6 DEF More, n, a, v
    <2> QED BY <1>2, <2>1, <2>2, <2>3, Zenon DEF Cat, n
  <1>7. CASE w # <<>> /\ w[Len(w)].name # n
    <2>1. CbTokens(rec) = InTurn(Punct(<<"]", ",">>), a, <<>>, v)
      BY <1>1, <1>2, <1>7, CbParts, Zenon DEF n, a, v
    <2>2. InTurn(Cat(Shut, Comma), a, <<>>, v) = Cat(Cat(Shut, Comma), Cat(a, v))
      BY <1>3, CatSteps DEF InTurn
    <2>3. More(w, rec) = Cat(Cat(Shut, Comma), Cat(a, v))
      BY <1>7 DEF More, n, a, v
    <2> QED BY <1>2, <1>4, <2>1, <2>2, <2>3, Zenon DEF Cat, n
  <1> QED BY <1>5, <1>6, <1>7

LastTokens == IF ctx.wroteAnyEntity THEN Punct(<<"]", "}">>) ELSE Punct(<<"{", "}">>)

LEMMA CloseIsClosing ==
  ASSUME NEW w, ctx = Told(w)
  PROVE  LastTokens = Closing(w)
  <1>1. ctx.wroteAnyEntity <=> w # <<>>
    BY DEF Told
  <1>2. Punct(<<"]", "}">>) = Cat(Shut, Brace) /\ Punct(<<"{", "}">>) = Cat(Opening, Brace)
    BY PunctTwo, Zenon DEF Cat, Shut, Brace, Opening
  <1> QED BY <1>1, <1>2, Zenon DEF Closing, LastTokens

-----------------------------------------------------------------------------
(* The invariant. *)

(* The document of the call, and how many of its records are in the        *)
(* output: the one the callback runs with is not there yet.                *)
Promised == Document[snap][call.model]
Written == IF pc = "callback" THEN Len(out) - 1 ELSE Len(out)

Commanded ==
  /\ cli \in {"start", "open", "dump", "exit"} /\ code \in {0, 1} /\ ~stopped
  /\ cli # "dump" => pc = "idle"
  /\ cli = "dump" => call.op = "stream"
  /\ cli \in {"start", "open"} => file = <<>> /\ out = <<>>

(* What the callback has been given so far, and when it is all there is.   *)
Given ==
  /\ Len(out) \in 0..Len(Promised) /\ out = Initial(Promised, Len(out))
  /\ cli = "dump" /\ pc = "idle" /\ ret.rc = "ok" => out = Promised

(* What the output and the callback's state make of n records of D.        *)
Shows(D, n, c, f) ==
  c = Told(Initial(D, n)) /\ KeysTold(Initial(D, n), f) /\ Stands(RecordsOf(D), Initial(D, n), f)

Output ==
  IF cli = "exit" /\ code = 0
  THEN file = Render(Groups(Promised)) /\ Once(file)
       /\ ctx.wroteAnyEntity \in BOOLEAN /\ ctx.wroteAnyInCurrentEntity \in BOOLEAN
  ELSE Shows(Promised, Written, ctx, file)

CliInductive == ServiceInductive /\ Commanded /\ Given /\ Output

LEMMA NothingShown ==
  ASSUME NEW D, D \in Seq(RecordsOf(D)), Together(D)
  PROVE  /\ Initial(D, 0) = <<>> /\ Shows(D, 0, Told(<<>>), <<>>)
         /\ Told(<<>>) = [lastEntity |-> NoEntity, wroteAnyEntity |-> FALSE,
                          wroteAnyInCurrentEntity |-> FALSE]
  <1>1. Len(D) \in Nat /\ 0 \in 0..Len(D)
    BY LenProperties
  <1>2. Initial(D, 0) \in Seq(RecordsOf(D)) /\ Len(Initial(D, 0)) = 0
    BY <1>1, InitialSteps
  <1>3. Initial(D, 0) = <<>>
    BY <1>2, EmptySeq
  <1>4. KeysTold(<<>>, <<>>)
    BY DEF KeysTold, Once, KeysIn
  <1>5. Stands(RecordsOf(D), <<>>, <<>>)
    BY DEF Stands
  <1>6. Told(<<>>) = [lastEntity |-> NoEntity, wroteAnyEntity |-> FALSE,
                      wroteAnyInCurrentEntity |-> FALSE]
    BY Zenon DEF Told
  <1> QED BY <1>3, <1>4, <1>5, <1>6, Zenon DEF Shows

(* The command takes the steps of a caller of ob_dump_stream().            *)
LEMMA CommandCalls == [CliNext]_cvars => [Next]_vars
  BY DEF CliNext, CliStep, ReadModel, OpenOutput, json_stream_cb, CloseDocument, Inside, cvars,
         Next, DumpStep

LEMMA ServiceKept == ServiceInductive /\ [Next]_vars => ServiceInductive'
  BY TypingStep, StreamStep, ShapeStep, GatheredStep DEF ServiceInductive, Inductive

LEMMA TypedNow ==
  ASSUME ServiceInductive, NamesTogether, NamesKept
  PROVE  /\ Promised \in Seq(RecordsOf(Promised)) /\ Together(Promised) /\ Len(Promised) \in Nat
         /\ Nameable(Promised) /\ Promised = Service!Expected
  <1>1. snap \in Databases /\ call.model \in Models
    BY DEF ServiceInductive, Inductive, TypeOK
  <1> DEFINE D == Document[snap][call.model]
  <1>2. Promised = D /\ Promised = Service!Expected
    BY DEF Promised, Service!Expected
  <1>3. D \in Seq(RecordsOf(D)) /\ Together(D) /\ Nameable(D)
    BY <1>1, DocumentNamed
  <1> HIDE DEF D
  <1>4. Len(D) \in Nat
    BY <1>3, LenProperties
  <1> QED BY <1>2, <1>3, <1>4

(* What a step of the dump does to what the command sees of it.            *)
LEMMA InsideSteps ==
  ASSUME ServiceInductive, Inside, ~stopped
  PROVE  /\ pc # "idle" /\ pc # "callback" /\ call' = call /\ ~stopped'
         /\ \/ /\ Deliver /\ pc' = "callback" /\ snap' = snap
            \/ /\ out' = out /\ pc' # "callback"
               /\ snap' = snap \/ (out = <<>> /\ pc' # "idle")
               /\ pc' = "idle" /\ ret'.rc = "ok" => pc = "end"
  <1>1. CASE ParseSchema \/ CreateEnv \/ StatPath \/ OpenEnv \/ OpenDbi
    BY <1>1 DEF ParseSchema, CreateEnv, StatPath, OpenEnv, OpenDbi, EnvCreate, EnvOpen, Goto,
                Fail, Return, Errors, ThrowBeforeOpen, ThrowFromOpen, Release, readerVars
  <1>2. CASE BeginTxn
    <2>1. out = <<>>
      BY <1>2 DEF BeginTxn, ServiceInductive, Inductive, HandlesByPhase, CursorAhead
    <2> QED BY <1>2, <2>1 DEF BeginTxn, Goto, Fail, Return, Errors, ThrowFromOpen, Release
  <1>3. CASE OpenCursor \/ Skip \/ RecordThrows \/ Advance \/ EndOfWalk
    BY <1>3 DEF OpenCursor, Skip, AtRecord, RecordThrows, Advance, EndOfWalk, CursorFirst,
                CursorNext, Goto, Fail, Return, Errors, Destroy, CursorCloseAndDestroy, Release,
                readerVars
  <1>4. CASE Deliver
    BY <1>4 DEF Deliver, AtRecord, readerVars
  <1>5. CASE Finish
    BY <1>5 DEF Finish, Fail, Return, Errors, CursorCloseAndDestroy, Release
  <1> QED BY <1>1, <1>2, <1>3, <1>4, <1>5 DEF Inside

LEMMA CommandedStep == CliInductive /\ [CliNext]_cvars => Commanded'
  <1> SUFFICES ASSUME CliInductive, [CliNext]_cvars PROVE Commanded'
    OBVIOUS
  <1>1. ServiceInductive /\ Commanded
    BY DEF CliInductive
  <1>2. CASE ReadModel
    BY <1>1, <1>2 DEF ReadModel, Exit, Commanded, vars, callVars
  <1>3. CASE OpenOutput
    BY <1>1, <1>3 DEF OpenOutput, Call, Exit, Commanded, vars, callVars
  <1>4. CASE json_stream_cb
    BY <1>1, <1>4 DEF json_stream_cb, CallbackContinues, Goto, Commanded
  <1>5. CASE CloseDocument
    BY <1>1, <1>5 DEF CloseDocument, Exit, Commanded, vars, callVars
  <1>6. CASE Inside /\ UNCHANGED cliVars
    <2>1. pc # "idle" /\ call' = call /\ ~stopped'
      BY <1>1, <1>6, InsideSteps DEF Commanded
    <2> QED BY <1>1, <1>6, <2>1 DEF Commanded, cliVars
  <1>7. CASE (Write /\ UNCHANGED cliVars) \/ UNCHANGED cvars
    BY <1>1, <1>7 DEF Write, Commanded, cvars, cliVars, vars, callVars
  <1> QED BY <1>2, <1>3, <1>4, <1>5, <1>6, <1>7 DEF CliNext, CliStep

LEMMA TypedNext ==
  ASSUME ServiceInductive', NamesTogether, NamesKept
  PROVE  Promised' \in Seq(RecordsOf(Promised')) /\ Together(Promised') /\ Len(Promised') \in Nat
  <1> DEFINE D == Document[snap'][call'.model]
  <1>1. snap' \in Databases /\ call'.model \in Models
    BY DEF ServiceInductive, Inductive, TypeOK
  <1>2. Promised' = D
    BY DEF Promised
  <1>3. D \in Seq(RecordsOf(D)) /\ Together(D)
    BY <1>1, DocumentNamed
  <1> QED BY <1>2, <1>3, LenProperties

LEMMA SamePromised ==
  ASSUME snap' = snap, call' = call
  PROVE  Promised' = Promised
  BY DEF Promised

(* One record more is given to the callback.                               *)
LEMMA DeliverGives ==
  ASSUME NamesTogether, NamesKept, ServiceInductive, Given, Deliver
  PROVE  /\ Len(out) < Len(Promised) /\ out' = Initial(Promised, Len(out) + 1)
         /\ Len(out') = Len(out) + 1
  <1> DEFINE D == Promised
             n == Len(out)
  <1>1. D \in Seq(RecordsOf(D)) /\ Together(D) /\ D = Service!Expected /\ Len(D) \in Nat
    BY TypedNow
  <1>2. n \in 0..Len(D) /\ out = Initial(D, n)
    BY DEF Given
  <1>3. n < Len(D) /\ D[n + 1] = Record(cur) /\ out' = Append(out, Record(cur))
    <2>1. AtRecord /\ ~Skipped(cur) /\ call.op = "stream"
      BY DEF Deliver
    <2>2. Len(out) < Len(Service!Expected) /\ Service!Expected[Len(out) + 1] = Record(cur)
      BY <2>1, NextOfService
    <2> QED BY <1>1, <2>2 DEF Deliver
  <1> HIDE DEF D, n
  <1>4. Initial(D, n + 1) = Append(Initial(D, n), D[n + 1])
    BY <1>1, <1>2, <1>3, InitialSteps, SMTT(30)
  <1>5. out' = Initial(D, n + 1)
    BY <1>2, <1>3, <1>4
  <1>6. n + 1 \in 0..Len(D)
    BY <1>1, <1>2, <1>3
  <1>7. Len(Initial(D, n + 1)) = n + 1
    BY <1>1, <1>6, InitialSteps
  <1> QED BY <1>3, <1>5, <1>7 DEF D, n

LEMMA GivenStep ==
  ASSUME NamesTogether, NamesKept, CliInductive, [CliNext]_cvars, ServiceInductive'
  PROVE  Given'
  <1>1. ServiceInductive /\ Commanded /\ Given
    BY DEF CliInductive
  <1>2. CASE /\ snap' = snap /\ call' = call /\ out' = out
             /\ cli' = "dump" /\ pc' = "idle" /\ ret'.rc = "ok" => out = Promised
    BY <1>1, <1>2, SamePromised DEF Given
  <1>3. CASE out' = <<>> /\ ~(cli' = "dump" /\ pc' = "idle")
    <2>1. /\ Promised' \in Seq(RecordsOf(Promised')) /\ Together(Promised')
          /\ Len(Promised') \in Nat
      BY TypedNext
    <2>2. Initial(Promised', 0) = <<>>
      BY <2>1, NothingShown
    <2>3. Len(<<>>) = 0 /\ 0 \in 0..Len(Promised')
      BY <2>1
    <2> QED BY <1>3, <2>2, <2>3 DEF Given
  <1>4. CASE ReadModel \/ CloseDocument
    <2>1. UNCHANGED vars /\ cli' # "dump"
      BY <1>4 DEF ReadModel, CloseDocument, Exit
    <2> QED BY <1>2, <2>1 DEF vars, readerVars, callVars
  <1>5. CASE OpenOutput
    <2>1. CASE Call /\ cli' = "dump"
      BY <1>3, <2>1 DEF Call
    <2>2. CASE Exit(1) /\ UNCHANGED vars
      BY <1>2, <2>2 DEF Exit, vars, readerVars, callVars
    <2> QED BY <1>5, <2>1, <2>2 DEF OpenOutput
  <1>6. CASE json_stream_cb
    BY <1>2, <1>6 DEF json_stream_cb, CallbackContinues, Goto, readerVars
  <1>7. CASE Inside /\ UNCHANGED cliVars
    <2>0. ~stopped /\ cli' = cli
      BY <1>1, <1>7 DEF Commanded, cliVars
    <2>1. /\ pc # "idle" /\ pc # "callback" /\ call' = call
          /\ \/ /\ Deliver /\ pc' = "callback" /\ snap' = snap
             \/ /\ out' = out /\ pc' # "callback"
                /\ snap' = snap \/ (out = <<>> /\ pc' # "idle")
                /\ pc' = "idle" /\ ret'.rc = "ok" => pc = "end"
      BY <1>1, <1>7, <2>0, InsideSteps
    <2>2. CASE Deliver /\ pc' = "callback" /\ snap' = snap
      <3>1. /\ Len(out) < Len(Promised) /\ out' = Initial(Promised, Len(out) + 1)
            /\ Len(out') = Len(out) + 1
        BY <1>1, <2>2, DeliverGives
      <3>2. Promised' = Promised
        BY <2>1, <2>2, SamePromised
      <3>3. Len(out) \in 0..Len(Promised) /\ Len(Promised) \in Nat
        BY <1>1, TypedNow DEF Given
      <3>4. Len(out) + 1 \in 0..Len(Promised)
        BY <3>1, <3>3
      <3> QED BY <2>2, <3>1, <3>2, <3>4 DEF Given
    <2>3. CASE out' = out /\ out = <<>> /\ pc' # "idle"
      BY <1>3, <2>3
    <2>4. CASE out' = out /\ snap' = snap /\ (pc' = "idle" /\ ret'.rc = "ok" => pc = "end")
      <3>1. ASSUME cli' = "dump", pc' = "idle", ret'.rc = "ok" PROVE out = Promised
        <4>1. pc = "end" /\ call.op = "stream"
          BY <1>1, <2>0, <2>4, <3>1 DEF Commanded
        <4>2. out = Service!Expected
          BY <1>1, <2>0, <4>1, WholeDocument
        <4> QED BY <1>1, <4>2, TypedNow
      <3> QED BY <1>2, <2>1, <2>4, <3>1
    <2> QED BY <2>1, <2>2, <2>3, <2>4
  <1>8. CASE (Write /\ UNCHANGED cliVars) \/ UNCHANGED cvars
    <2>1. /\ snap' = snap /\ call' = call /\ out' = out /\ cli' = cli /\ pc' = pc
          /\ ret' = ret
      BY <1>8 DEF Write, Commit, cvars, cliVars, vars, callVars, readerVars
    <2> QED BY <1>1, <1>2, <2>1 DEF Given
  <1> QED BY <1>4, <1>5, <1>6, <1>7, <1>8 DEF CliNext, CliStep

(* The callback writes one record more.                                    *)
LEMMA ShowsNext ==
  ASSUME NEW D, D \in Seq(RecordsOf(D)), Together(D),
         Nameable(D), NEW n \in 0..Len(D), n < Len(D), Shows(D, n, ctx, file),
         NEW rec, rec = D[n + 1], NEW c,
         c = [lastEntity |-> IF isNewEntity(rec.name) THEN Kept[rec.name] ELSE ctx.lastEntity,
              wroteAnyEntity |-> TRUE, wroteAnyInCurrentEntity |-> TRUE]
  PROVE  Shows(D, n + 1, c, file \o CbTokens(rec))
  <1> DEFINE S == RecordsOf(D)
             w == Initial(D, n)
             v == Initial(D, n + 1)
  <1>1. Len(D) \in Nat /\ DOMAIN D = 1..Len(D) /\ n \in Nat
    BY LenProperties
  <1>2. n + 1 \in 0..Len(D) /\ n + 1 \in DOMAIN D
    BY <1>1
  <1>3. /\ w \in Seq(S) /\ Len(w) = n /\ v = Append(w, rec) /\ rec \in S
        /\ \A i \in 1..n : w[i] = D[i]
    BY InitialSteps
  <1>4. Together(v) /\ v \in Seq(S) /\ Len(v) = n + 1 /\ \A i \in 1..(n + 1) : v[i] = D[i]
    BY <1>2, InitialSteps
  <1>0. \A i \in DOMAIN D : D[i].name # NoEntity /\ Kept[D[i].name] = D[i].name
    BY DEF Nameable
  <1>5. rec.name # NoEntity /\ Kept[rec.name] = rec.name
    BY <1>0, <1>2
  <1>6. ctx = Told(w) /\ KeysTold(w, file) /\ Stands(S, w, file)
    BY DEF Shows
  <1> HIDE DEF S, w, v
  <1>7. w # <<>> => w[Len(w)].name # NoEntity
    <2> SUFFICES ASSUME w # <<>> PROVE w[n].name # NoEntity
      BY <1>3
    <2>1. n # 0
      BY <1>3, EmptySeq
    <2>2. n \in 1..n /\ n \in DOMAIN D
      BY <1>1, <2>1
    <2> QED BY <1>0, <1>3, <2>2
  <1>8. file \in Seq(TokensOf(S))
    BY <1>6, StandsClosed
  <1>9. /\ file \o CbTokens(rec) = Cat(file, More(w, rec))
        /\ isNewEntity(rec.name) <=> (w = <<>> \/ w[Len(w)].name # rec.name)
    BY <1>3, <1>5, <1>6, <1>7, <1>8, CbIsMore, SMTT(30)
  <1>10. Stands(S, v, Cat(file, More(w, rec)))
    BY <1>3, <1>4, <1>6, StandsNext
  <1>11. KeysTold(v, Cat(file, More(w, rec)))
    BY <1>3, <1>4, <1>6, <1>8, KeysNext
  <1>12. c = Told(v)
    <2>1. v # <<>> /\ v[Len(v)] = rec
      <3>1. v # <<>>
        BY <1>1, <1>4, EmptySeq
      <3>2. n + 1 \in 1..(n + 1)
        BY <1>1
      <3> QED BY <1>4, <3>1, <3>2
    <2>2. Told(v) = [lastEntity |-> rec.name, wroteAnyEntity |-> TRUE,
                     wroteAnyInCurrentEntity |-> TRUE]
      BY <2>1 DEF Told
    <2>3. ~isNewEntity(rec.name) => ctx.lastEntity = rec.name
      BY DEF isNewEntity
    <2> QED BY <1>5, <2>2, <2>3
  <1> QED BY <1>9, <1>10, <1>11, <1>12 DEF Shows, S, v

(* The end of the command makes the output whole.                          *)
LEMMA ClosesWhole ==
  ASSUME NEW D, D \in Seq(RecordsOf(D)), Together(D), Shows(D, Len(D), ctx, file),
         NEW f, f = file \o LastTokens
  PROVE  f = Render(Groups(D)) /\ Once(f)
  <1>1. Len(D) \in 0..Len(D)
    BY LenProperties
  <1>2. Initial(D, Len(D)) = D
    BY <1>1, InitialSteps
  <1>3. ctx = Told(D) /\ KeysTold(D, file) /\ Stands(RecordsOf(D), D, file)
    BY <1>2 DEF Shows
  <1>4. f = Cat(file, Closing(D))
    BY <1>3, CloseIsClosing, Zenon DEF Cat
  <1>5. file \in Seq(TokensOf(RecordsOf(D))) /\ Render(Groups(D)) = Cat(file, Closing(D))
    BY <1>3, StandsClosed
  <1>6. KeysTold(D, Cat(file, Closing(D)))
    BY <1>3, <1>5, KeysClosed
  <1> QED BY <1>4, <1>5, <1>6 DEF KeysTold

LEMMA OutputStep ==
  ASSUME NamesTogether, NamesKept, CliInductive, [CliNext]_cvars, ServiceInductive'
  PROVE  Output'
  <1>1. ServiceInductive /\ Commanded /\ Given /\ Output
    BY DEF CliInductive
  <1>2. /\ Promised \in Seq(RecordsOf(Promised)) /\ Together(Promised) /\ Len(Promised) \in Nat
        /\ Nameable(Promised)
    BY <1>1, TypedNow
  <1>3. CASE /\ snap' = snap /\ call' = call /\ Written' = Written
             /\ ctx' = ctx /\ file' = file
             /\ cli' = "exit" /\ code' = 0 <=> cli = "exit" /\ code = 0
    <2>1. Promised' = Promised
      BY <1>3, SamePromised
    <2> QED BY <1>1, <1>3, <2>1 DEF Output
  <1>4. ASSUME pc # "callback", out = <<>>, Shows(Promised, Written, ctx, file)
        PROVE  ctx = Told(<<>>) /\ file = <<>>
    <2>1. Written = 0
      BY <1>4 DEF Written
    <2>2. Initial(Promised, 0) = <<>>
      BY <1>2, NothingShown
    <2> QED BY <1>4, <2>1, <2>2 DEF Shows, Stands
  <1>5. ASSUME pc' # "callback", out' = <<>>, ctx' = Told(<<>>), file' = <<>>, cli' # "exit"
        PROVE  Output'
    <2>1. Promised' \in Seq(RecordsOf(Promised')) /\ Together(Promised')
      BY TypedNext
    <2>2. Shows(Promised', 0, Told(<<>>), <<>>)
      BY <2>1, NothingShown
    <2>3. Written' = 0
      BY <1>5 DEF Written
    <2> QED BY <1>5, <2>2, <2>3 DEF Output
  <1>6. CASE ReadModel
    BY <1>3, <1>6 DEF ReadModel, Exit, Written, vars, callVars, readerVars
  <1>7. CASE OpenOutput
    <2>1. CASE Call /\ cli' = "dump" /\ file' = <<>> /\ ctx' = ctx
      <3>1. cli = "open" /\ pc = "idle" /\ out = <<>>
        BY <1>1, <1>7, <2>1 DEF OpenOutput, Commanded
      <3>2. ctx = Told(<<>>)
        BY <1>1, <1>4, <3>1 DEF Output
      <3>3. pc' # "callback" /\ out' = <<>>
        BY <2>1 DEF Call
      <3> QED BY <1>5, <2>1, <3>2, <3>3
    <2>2. CASE Exit(1) /\ UNCHANGED <<file, vars, ctx>> /\ cli = "open"
      BY <1>3, <2>2 DEF Exit, Written, vars, callVars, readerVars
    <2> QED BY <1>7, <2>1, <2>2 DEF OpenOutput
  <1>8. CASE json_stream_cb
    <2>1. /\ pc = "callback" /\ pc' = "next" /\ out' = out /\ snap' = snap /\ call' = call
          /\ cli' = cli /\ code' = code /\ file' = file \o CbTokens(Last(out))
          /\ ctx' = [lastEntity |-> IF isNewEntity(Last(out).name)
                                    THEN Kept[Last(out).name] ELSE ctx.lastEntity,
                     wroteAnyEntity |-> TRUE, wroteAnyInCurrentEntity |-> TRUE]
      BY <1>8 DEF json_stream_cb, CallbackContinues, Goto, readerVars
    <2>2. cli = "dump" /\ out # <<>>
      BY <1>1, <2>1 DEF Commanded, ServiceInductive, CallShape
    <2> DEFINE D == Promised
               n == Len(out) - 1
    <2>3. Len(out) \in 0..Len(D) /\ out = Initial(D, Len(out))
      BY <1>1 DEF Given
    <2>4. out \in Seq(RecordsOf(D)) /\ \A i \in 1..Len(out) : out[i] = D[i]
      <3> HIDE DEF D
      <3>1. D \in Seq(RecordsOf(D)) /\ Together(D)
        BY <1>2 DEF D
      <3>2. /\ Initial(D, Len(out)) \in Seq(RecordsOf(D))
            /\ \A i \in 1..Len(out) : Initial(D, Len(out))[i] = D[i]
        BY <2>3, <3>1, InitialSteps, SMTT(30)
      <3> QED BY <2>3, <3>2
    <2>5. Len(out) # 0
      BY <2>2, <2>4, EmptySeq
    <2>6. n \in 0..Len(D) /\ n < Len(D) /\ Len(out) = n + 1 /\ Len(out) \in 1..Len(out)
      BY <1>2, <2>3, <2>5
    <2>7. Last(out) = D[n + 1]
      BY <2>4, <2>6 DEF Last
    <2>8. Shows(D, n, ctx, file)
      BY <1>1, <2>1, <2>2 DEF Output, Written
    <2>9. Written' = n + 1 /\ Promised' = D
      BY <2>1, <2>6, SamePromised DEF Written
    <2> HIDE DEF D, n
    <2>10. Shows(D, n + 1, ctx', file \o CbTokens(Last(out)))
      BY <1>2, <2>1, <2>6, <2>7, <2>8, ShowsNext DEF D
    <2> QED BY <2>1, <2>2, <2>9, <2>10 DEF Output
  <1>9. CASE CloseDocument
    <2>1. /\ cli = "dump" /\ pc = "idle" /\ cli' = "exit" /\ UNCHANGED vars /\ ctx' = ctx
          /\ \/ /\ ret.rc = "ok" /\ code' = 0
                /\ file' = file \o LastTokens
             \/ code' = 1 /\ file' = file
      BY <1>9 DEF CloseDocument, Exit, LastTokens
    <2>2. snap' = snap /\ call' = call /\ Written' = Written /\ Written = Len(out)
      BY <2>1 DEF vars, callVars, readerVars, Written
    <2>3. CASE code' = 1 /\ file' = file
      BY <1>3, <2>1, <2>2, <2>3
    <2>4. CASE ret.rc = "ok" /\ code' = 0 /\ file' = file \o LastTokens
      <3>1. out = Promised
        BY <1>1, <2>1, <2>4 DEF Given
      <3>2. Shows(Promised, Len(Promised), ctx, file)
        BY <1>1, <2>1, <2>2, <3>1 DEF Output
      <3>3. file' = Render(Groups(Promised)) /\ Once(file')
        BY <1>2, <2>4, <3>2, ClosesWhole
      <3>4. Promised' = Promised
        BY <2>2, SamePromised
      <3>5. ctx'.wroteAnyEntity \in BOOLEAN /\ ctx'.wroteAnyInCurrentEntity \in BOOLEAN
        BY <2>1, <3>2 DEF Shows, Told
      <3> QED BY <2>1, <2>4, <3>3, <3>4, <3>5 DEF Output
    <2> QED BY <2>1, <2>3, <2>4
  <1>10. CASE Inside /\ UNCHANGED cliVars
    <2>0. ~stopped /\ cli' = cli /\ code' = code /\ ctx' = ctx /\ file' = file
      BY <1>1, <1>10 DEF Commanded, cliVars
    <2>1. /\ pc # "idle" /\ pc # "callback" /\ call' = call
          /\ \/ /\ Deliver /\ pc' = "callback" /\ snap' = snap
             \/ /\ out' = out /\ pc' # "callback"
                /\ snap' = snap \/ (out = <<>> /\ pc' # "idle")
      BY <1>1, <1>10, <2>0, InsideSteps
    <2>2. cli = "dump"
      BY <1>1, <2>1 DEF Commanded
    <2>3. CASE Deliver /\ pc' = "callback" /\ snap' = snap
      <3>1. Len(out') = Len(out) + 1 /\ Len(out) \in Nat
        BY <1>1, <1>2, <2>3, DeliverGives DEF Given
      <3>2. Written' = Written
        BY <2>1, <2>3, <3>1 DEF Written
      <3> QED BY <1>3, <2>0, <2>1, <2>3, <3>2
    <2>4. CASE out' = out /\ pc' # "callback" /\ snap' = snap
      <3>1. Written' = Written
        BY <2>1, <2>4 DEF Written
      <3> QED BY <1>3, <2>0, <2>1, <2>4, <3>1
    <2>5. CASE out' = out /\ pc' # "callback" /\ out = <<>>
      <3>1. ctx = Told(<<>>) /\ file = <<>>
        BY <1>1, <1>4, <2>1, <2>2, <2>5 DEF Output
      <3> QED BY <1>5, <2>0, <2>2, <2>5, <3>1
    <2> QED BY <2>1, <2>3, <2>4, <2>5
  <1>11. CASE (Write /\ UNCHANGED cliVars) \/ UNCHANGED cvars
    <2>1. /\ snap' = snap /\ call' = call /\ out' = out /\ cli' = cli /\ code' = code /\ pc' = pc
          /\ ctx' = ctx /\ file' = file
      BY <1>11 DEF Write, Commit, cvars, cliVars, vars, callVars, readerVars
    <2>2. Written' = Written
      BY <2>1 DEF Written
    <2> QED BY <1>3, <2>1, <2>2
  <1> QED BY <1>6, <1>7, <1>8, <1>9, <1>10, <1>11 DEF CliNext, CliStep

LEMMA CommandBegins == NamesTogether /\ NamesKept /\ CliInit => CliInductive
  <1> SUFFICES ASSUME NamesTogether, NamesKept, CliInit PROVE CliInductive
    OBVIOUS
  <1>1. ServiceInductive
    BY InitInductive DEF CliInit, Init, ServiceInductive, CallShape, GatheredInOrder
  <1>2. Promised \in Seq(RecordsOf(Promised)) /\ Together(Promised) /\ Len(Promised) \in Nat
    BY <1>1, TypedNow
  <1>3. /\ Initial(Promised, 0) = <<>> /\ Shows(Promised, 0, Told(<<>>), <<>>)
        /\ Told(<<>>) = [lastEntity |-> NoEntity, wroteAnyEntity |-> FALSE,
                         wroteAnyInCurrentEntity |-> FALSE]
    BY <1>2, NothingShown
  <1>4. /\ out = <<>> /\ pc = "idle" /\ ~stopped /\ cli = "start" /\ code = 0 /\ file = <<>>
        /\ ctx = Told(<<>>)
    BY <1>3 DEF CliInit, Init
  <1>5. Len(<<>>) = 0 /\ 0 \in 0..Len(Promised)
    BY <1>2
  <1>6. Written = 0
    BY <1>4, <1>5 DEF Written
  <1>7. Commanded /\ Given
    BY <1>3, <1>4, <1>5 DEF Commanded, Given
  <1>8. Output
    BY <1>3, <1>4, <1>6 DEF Output
  <1> QED BY <1>1, <1>7, <1>8 DEF CliInductive

(* In every reachable state of the command the output is what the records  *)
(* handed to the callback make of it, and the state of the callback says   *)
(* which they are.                                                         *)
THEOREM CommandInvariance ==
  ASSUME NamesTogether, NamesKept
  PROVE  CliSpec => []CliInductive
  <1>1. CliInit => CliInductive
    BY CommandBegins
  <1>2. CliInductive /\ [CliNext]_cvars => CliInductive'
    <2> SUFFICES ASSUME CliInductive, [CliNext]_cvars PROVE CliInductive'
      OBVIOUS
    <2>1. ServiceInductive'
      BY CommandCalls, ServiceKept DEF CliInductive
    <2> QED BY <2>1, CommandedStep, GivenStep, OutputStep DEF CliInductive
  <1> QED BY <1>1, <1>2, PTL DEF CliSpec

(* Between the steps the output shows as many records of the document as   *)
(* have been written.                                                      *)
LEMMA OutputBegins ==
  ASSUME NamesTogether, NamesKept, CliInductive, ~(cli = "exit" /\ code = 0)
  PROVE  IsPrefix(file, Whole[snap][call.model]) /\ file # Whole[snap][call.model]
  <1>1. ServiceInductive /\ Given /\ Output
    BY DEF CliInductive
  <1>2. Promised \in Seq(RecordsOf(Promised)) /\ Together(Promised) /\ Len(Promised) \in Nat
    BY <1>1, TypedNow
  <1>3. Whole[snap][call.model] = Render(Groups(Promised))
    <2>1. snap \in Databases /\ call.model \in Models
      BY <1>1 DEF ServiceInductive, Inductive, TypeOK
    <2> QED BY <2>1 DEF Whole, Promised
  <1>4. Written \in 0..Len(Promised)
    <2>1. Len(out) \in 0..Len(Promised) /\ out \in Seq(RecordsOf(Promised))
      BY <1>1, <1>2, InitialSteps DEF Given
    <2>2. pc = "callback" => Len(out) # 0
      BY <1>1, <2>1, EmptySeq DEF ServiceInductive, CallShape
    <2> QED BY <1>2, <2>1, <2>2 DEF Written
  <1>5. Stands(RecordsOf(Promised), Initial(Promised, Written), file)
    BY <1>1 DEF Output, Shows
  <1> QED BY <1>2, <1>3, <1>4, <1>5, StandsBegins

LEMMA OutputEnds ==
  ASSUME NamesTogether, NamesKept, CliInductive, cli = "exit" /\ code = 0
  PROVE  file = Whole[snap][call.model] /\ IsPrefix(file, Whole[snap][call.model])
  <1>1. ServiceInductive /\ Output
    BY DEF CliInductive
  <1>2. Promised \in Seq(RecordsOf(Promised)) /\ Together(Promised) /\ Len(Promised) \in Nat
    BY <1>1, TypedNow
  <1>3. Whole[snap][call.model] = Render(Groups(Promised))
    <2>1. snap \in Databases /\ call.model \in Models
      BY <1>1 DEF ServiceInductive, Inductive, TypeOK
    <2> QED BY <2>1 DEF Whole, Promised
  <1>4. file = Render(Groups(Promised))
    BY <1>1 DEF Output
  <1>5. \E T : file \in Seq(T)
    <2>1. PICK f : Stands(RecordsOf(Promised), Promised, f)
      <3> DEFINE D == Promised
                 S == RecordsOf(D)
      <3>1. 0 \in 0..Len(D) /\ Initial(D, 0) = <<>>
        BY <1>2, NothingShown
      <3>2. Stands(S, Initial(D, 0), <<>>)
        BY <3>1 DEF Stands
      <3>3. <<>> \in Seq(TokensOf(S))
        BY EmptySeq
      <3> HIDE DEF D
      <3>4. \E u \in Seq(TokensOf(S)) : Stands(S, D, Cat(<<>>, u))
        BY <1>2, <3>1, <3>2, <3>3, StandsOn DEF D
      <3> QED BY <3>4 DEF D
    <2> DEFINE S == RecordsOf(Promised)
               T == TokensOf(S)
    <2>2. /\ f \in Seq(T) /\ Closing(Promised) \in Seq(T)
          /\ Render(Groups(Promised)) = Cat(f, Closing(Promised))
      BY <2>1, StandsClosed
    <2> HIDE DEF T
    <2>3. file \in Seq(T)
      BY <1>4, <2>2, CatSteps
    <2> QED BY <2>3
  <1>6. PICK T : file \in Seq(T)
    BY <1>5
  <1>7. SubSeq(file, 1, Len(file)) = file /\ Len(file) <= Len(file)
    <2>1. Len(file) \in Nat
      BY <1>6, LenProperties
    <2>2. /\ SubSeq(file, 1, Len(file)) \in Seq(T)
          /\ Len(SubSeq(file, 1, Len(file))) = Len(file)
          /\ \A i \in 1..Len(file) : SubSeq(file, 1, Len(file))[i] = file[i]
      BY <1>6, <2>1, SubSeqProperties
    <2> QED BY <1>6, <2>1, <2>2, SeqEqual
  <1>8. IsPrefix(file, file)
    BY <1>7 DEF IsPrefix
  <1> QED BY <1>3, <1>4, <1>8

(* The state of the command and of its callback is what the declarations   *)
(* allow.                                                                  *)
THEOREM CommandTyping ==
  ASSUME NamesTogether, NamesKept
  PROVE  CliSpec => []CliTypeOK
  <1>1. CliInductive => CliTypeOK
    <2> SUFFICES ASSUME CliInductive PROVE CliTypeOK
      OBVIOUS
    <2>1. Commanded /\ Output
      BY DEF CliInductive
    <2>2. \A w : /\ Told(w).wroteAnyEntity \in BOOLEAN
                 /\ Told(w).wroteAnyInCurrentEntity \in BOOLEAN
      BY DEF Told
    <2>3. ctx.wroteAnyEntity \in BOOLEAN /\ ctx.wroteAnyInCurrentEntity \in BOOLEAN
      BY <2>1, <2>2, Zenon DEF Output, Shows
    <2> QED BY <2>1, <2>3 DEF Commanded, CliTypeOK
  <1> QED BY <1>1, CommandInvariance, PTL

(* For every store, model and fault, and whatever is committed meanwhile:  *)
(* at every moment what the command has written is the beginning of the    *)
(* document of one committed state.                                        *)
THEOREM OutputGrows ==
  ASSUME NamesTogether, NamesKept
  PROVE  CliSpec => []OutputIsPrefix
  <1>1. CliInductive => OutputIsPrefix
    BY OutputBegins, OutputEnds DEF OutputIsPrefix
  <1> QED BY <1>1, CommandInvariance, PTL

(* The exit code is 0 exactly when that document is whole.                 *)
THEOREM ExitCodeTells ==
  ASSUME NamesTogether, NamesKept
  PROVE  CliSpec => []ExitTellsWhole
  <1>1. CliInductive => ExitTellsWhole
    BY OutputBegins, OutputEnds DEF ExitTellsWhole
  <1> QED BY <1>1, CommandInvariance, PTL

(* No entity's group is opened twice.                                      *)
THEOREM KeysUnique ==
  ASSUME NamesTogether, NamesKept
  PROVE  CliSpec => []NoKeyTwice
  <1>1. CliInductive => NoKeyTwice
    <2> SUFFICES ASSUME CliInductive PROVE NoKeyTwice
      OBVIOUS
    <2>1. Once(file)
      BY DEF CliInductive, Output, Shows, KeysTold
    <2> QED BY <2>1 DEF Once, IsKey, NoKeyTwice
  <1> QED BY <1>1, CommandInvariance, PTL

=============================================================================
