----------------------------- MODULE DumpService ----------------------------
(***************************************************************************)
(* What ob_dump() and ob_dump_stream() promise, without cursors, keys or   *)
(* handles.  A call takes one state of the database that was current at    *)
(* some instant of the call, and everything it returns is about that       *)
(* state: its objects of known entities, in ascending order of entity and  *)
(* object id, each with the targets of its relations.  A call fails only   *)
(* for a reason.                                                           *)
(***************************************************************************)
EXTENDS Naturals, Sequences, FiniteSets

CONSTANTS Databases, Models, Operations,
          Document, \* the records of each database state under each model
          MayFail   \* files and LMDB calls may fail

VARIABLES db, phase, call, base, out, stopped, ret
vars == <<db, phase, call, base, out, stopped, ret>>

(* The records a call has to produce. *)
Expected == Document[base][call.model]

(* The records of each name, in the order they have in the whole.          *)
Places(records, name) == {i \in DOMAIN records : records[i].name = name}
Nth(places, k) == CHOOSE i \in places : Cardinality({j \in places : j < i}) = k - 1

GroupsOf(records) ==
  [n \in {records[i].name : i \in DOMAIN records} |->
     [k \in 1..Cardinality(Places(records, n)) |-> records[Nth(Places(records, n), k)]]]

Bad(body) == \E i \in DOMAIN Expected : Expected[i].body = body

-----------------------------------------------------------------------------
NoReturn == [rc |-> "none", json |-> <<>>]
Return(rc, json) ==
  /\ phase' = "idle"
  /\ ret' = [rc |-> rc, json |-> json]
  /\ UNCHANGED <<db, call, base, out, stopped>>

Request ==
  /\ phase = "idle"
  /\ \E op \in Operations, m \in Models : call' = [op |-> op, model |-> m]
  /\ phase' = "called" /\ out' = <<>> /\ stopped' = FALSE /\ ret' = NoReturn
  /\ UNCHANGED <<db, base>>

Reject == phase = "called" /\ ~call.model.ok /\ Return("schema", <<>>)

OpenFails ==
  /\ phase = "called" /\ call.model.ok /\ MayFail
  /\ \E rc \in {"env_create", "stat", "env_open", "txn_begin", "dbi_open"} :
       Return(rc, <<>>)

TakeState ==
  /\ phase = "called" /\ call.model.ok
  /\ base' = db
  /\ phase' = "reading"
  /\ UNCHANGED <<db, call, out, stopped, ret>>

Streaming == phase = "reading" /\ call.op = "stream" /\ ~stopped
NextBody(body) == Len(out) < Len(Expected) /\ Expected[Len(out) + 1].body = body

Deliver ==
  /\ Streaming /\ NextBody("good")
  /\ out' = Append(out, Expected[Len(out) + 1])
  /\ UNCHANGED <<db, phase, call, base, stopped, ret>>

Stop ==
  /\ Streaming /\ out # <<>>
  /\ stopped' = TRUE
  /\ UNCHANGED <<db, phase, call, base, out, ret>>

FinishStream ==
  /\ phase = "reading" /\ call.op = "stream"
  /\ stopped \/ out = Expected
  /\ Return("ok", <<>>)

FinishDump ==
  /\ phase = "reading" /\ call.op = "dump"
  /\ ~Bad("corrupt") /\ ~Bad("badUtf8")
  /\ Return("ok", GroupsOf(Expected))

BadRecord ==
  /\ phase = "reading"
  /\ \E rc \in {"corrupt", "badUtf8"} :
       /\ \/ call.op = "stream" /\ ~stopped /\ NextBody(rc)
          \/ call.op = "dump" /\ Bad(rc) /\ (rc = "badUtf8" => ~Bad("corrupt"))
       /\ Return(rc, <<>>)

ReadFails ==
  /\ phase = "reading" /\ MayFail /\ ~stopped
  /\ \E rc \in {"dbi_open", "cursor"} : Return(rc, <<>>)

Commit ==
  /\ db' \in Databases \ {db}
  /\ UNCHANGED <<phase, call, base, out, stopped, ret>>

Init ==
  /\ db \in Databases /\ base = db
  /\ phase = "idle"
  /\ call \in [op : Operations, model : Models]
  /\ out = <<>> /\ stopped = FALSE
  /\ ret = NoReturn

Work ==
  \/ Reject \/ OpenFails \/ TakeState \/ Deliver \/ Stop \/ FinishStream
  \/ FinishDump \/ BadRecord \/ ReadFails

Next == Request \/ Work \/ Commit

(* What may happen, and that a call comes to its end.                      *)
Safe == Init /\ [][Next]_vars
Spec == Safe /\ WF_vars(Work)
=============================================================================
