------------------------------ MODULE LmdbMap ------------------------------
(***************************************************************************)
(* What a database of LMDB promises its user: a map from keys to values    *)
(* and a cursor that walks the keys in order.  The cursor may be overtaken *)
(* by writes: when the item it stands on is deleted, the keys it has yet   *)
(* to show are those that stay in the map, and keys put meanwhile near the *)
(* gap may or may not be shown.  lmdb.h promises no more, and a caller of  *)
(* mdb_cursor_del in a loop needs no less.                                 *)
(***************************************************************************)
EXTENDS Integers, TLC

CONSTANTS Keys, DataSizes

VARIABLES map,      \* the keys present, with their values
          ret,      \* [op, rc, key] of the last call
          last,     \* the key the cursor was last seen at, Unset or Lost
          stable,   \* the keys present ever since
          ended     \* the cursor holds that it is at the end

NoKey == 0
Unset == -1
Lost == -2

\* Every answer starts from what the cursor knows for certain.
OnKey == last \in stable
After == {k \in stable : k > last}
Before == {k \in stable : k < last \/ last = Unset}

\* After a search that failed, or a put that was refused, the caller positions
\* the cursor anew before it uses it.
Astray == last' = Lost /\ stable' = {}

\* The keys that may come next: no stable key is passed over, and no stable
\* key is shown again.
Following == {k \in DOMAIN map : /\ k > last \/ k \notin stable
                                 /\ \A j \in After : k <= j}
Preceding == {k \in DOMAIN map : /\ k < last \/ k \notin stable \/ last = Unset
                                 /\ \A j \in Before : j <= k}

Call(op, rc, key) == ret' = [op |-> op, rc |-> rc, key |-> key]
At(key) == last' = key /\ stable' = DOMAIN map'
Stays == /\ UNCHANGED last
         /\ stable' = IF last = Unset \/ last \in stable \cap DOMAIN map'
                      THEN DOMAIN map' ELSE stable \cap DOMAIN map'

Init == /\ map \in [SUBSET Keys -> Int]
        /\ ret = [op |-> "none", rc |-> "ok", key |-> NoKey]
        /\ last = Unset
        /\ stable = DOMAIN map
        /\ ended = FALSE

\* At an end the cursor stays where it is, if its item is still there.
Ends(op) == /\ Call(op, "notfound", NoKey)
            /\ IF OnKey \/ last = Unset THEN Stays ELSE Astray

First == \/ /\ Call("first", "ok", NoKey)
            /\ \E k \in DOMAIN map : (\A j \in DOMAIN map : k <= j) /\ At(k)
         \/ map = <<>> /\ Ends("first")

Last == \/ /\ Call("last", "ok", NoKey)
           /\ \E k \in DOMAIN map : (\A j \in DOMAIN map : j <= k) /\ At(k)
        \/ map = <<>> /\ Ends("last")

Next == \/ Call("next", "ok", NoKey) /\ \E k \in Following : At(k)
        \/ (After = {} \/ ended) /\ Ends("next")

Prev == \/ Call("prev", "ok", NoKey) /\ \E k \in Preceding : At(k)
        \/ Before = {} /\ Ends("prev")

Current == \/ Call("current", "ok", NoKey) /\ OnKey /\ Stays
           \/ Call("current", "ok", NoKey) /\ ~OnKey /\ \E k \in Following : At(k)
           \/ /\ ~OnKey /\ (After = {} \/ last = Unset)
              /\ \E rc \in {"notfound", "einval"} : Call("current", rc, NoKey)
              /\ Stays

Set(k) == IF k \in DOMAIN map THEN Call("set", "ok", k) /\ At(k)
          ELSE Call("set", "notfound", k) /\ Astray

Range(k) == LET above == {j \in DOMAIN map : j >= k}
            IN  \/ above = {} /\ Call("range", "notfound", k) /\ Astray
                \/ \E j \in above : /\ \A i \in above : j <= i
                                    /\ Call("range", "ok", k) /\ At(j)

\* A put leaves the key with its value; with MDB_NOOVERWRITE only when it is
\* new, with MDB_APPEND only past the last key.
Refused(flag, k) == \/ flag = "nooverwrite" /\ k \in DOMAIN map
                    \/ flag = "append" /\ \E j \in DOMAIN map : j >= k
Insert(flag, k, d) ==
    IF Refused(flag, k) THEN Call(flag, "keyexist", k) /\ UNCHANGED map
    ELSE Call(flag, "ok", k) /\ map' = (k :> d) @@ map

Put(flag, k, d) == Insert(flag, k, d) /\ Stays
PutHere(flag, k, d) ==
    /\ Insert(flag, k, d)
    /\ IF Refused(flag, k) THEN Astray ELSE At(k)
Replace(d) == /\ OnKey /\ Call("replace", "ok", last)
              /\ map' = [map EXCEPT ![last] = d] /\ Stays

Without(k) == [j \in DOMAIN map \ {k} |-> map[j]]
Del(k) == IF k \in DOMAIN map THEN Call("del", "ok", k) /\ map' = Without(k) /\ Stays
          ELSE Call("del", "notfound", k) /\ UNCHANGED map /\ Stays

\* The item the cursor stands on; after a deletion that is one of those that
\* may come next.
DelHere ==
    \/ /\ Call("delhere", "ok", NoKey)
       /\ \E k \in IF OnKey THEN {last} ELSE Following :
             map' = Without(k) /\ last' = k /\ stable' = stable \ {k}
    \/ /\ ~OnKey /\ (After = {} \/ last = Unset)
       /\ \E rc \in {"notfound", "einval"} : Call("delhere", rc, NoKey)
       /\ UNCHANGED map /\ Stays

\* A cursor comes to hold that it is at the end only where nothing follows.
Step ==
    /\ ended' => ended \/ After' = {}
    /\ \/ UNCHANGED map /\ (First \/ Last \/ Next \/ Prev \/ Current)
       \/ UNCHANGED map /\ \E k \in Keys : Set(k) \/ Range(k)
       \/ \E k \in Keys : \E d \in DataSizes[k] : \E flag \in {"put", "nooverwrite", "append"} :
             Put(flag, k, d) \/ PutHere(flag, k, d)
       \/ \E k \in Keys : \E d \in DataSizes[k] : k = last /\ Replace(d)
       \/ \E k \in Keys : Del(k)
       \/ DelHere

Spec == Init /\ [][Step]_<<map, ret, last, stable, ended>>
=============================================================================
