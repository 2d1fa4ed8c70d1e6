-------------------------------- MODULE Flex --------------------------------
(***************************************************************************)
(* FlexBuffers values, and the JSON the decoder makes of them.  A value is *)
(* a record with one field, named for its FlexBuffers type: null, bool,    *)
(* int, uint, float, text, key, blob, vector, typed, fixed, map.  A map is *)
(* a pair of parallel vectors [keys, vals].  JSON values are records with  *)
(* one field as well: null, bool, number, real, string, hex, array or      *)
(* object.                                                                 *)
(***************************************************************************)
EXTENDS Naturals, Sequences, TLC

Null == [null |-> TRUE]

Is(ref, type) == type \in DOMAIN ref
IsVector(ref) == Is(ref, "vector") \/ Is(ref, "map")
AsVector(ref) == IF Is(ref, "map") THEN ref.map.vals ELSE ref.vector

Scalar(ref) ==
  CASE Is(ref, "bool")  -> [bool |-> ref.bool]
    [] Is(ref, "int")   -> [number |-> ref.int]
    [] Is(ref, "uint")  -> [number |-> ref.uint]
    [] Is(ref, "float") -> [real |-> ref.float]
    [] Is(ref, "text")  -> [string |-> ref.text]
    [] Is(ref, "blob")  -> [hex |-> ref.blob]
    [] OTHER            -> Null

RECURSIVE flexToJson(_)

flexVectorToJson(vec) == [array |-> [i \in DOMAIN vec |-> flexToJson(vec[i])]]

FlexMap(m) ==
  [object |-> [k \in {m.keys[i] : i \in DOMAIN m.keys} |->
                 flexToJson(m.vals[CHOOSE i \in DOMAIN m.keys : m.keys[i] = k])]]

(* Mutant: a map taken for the vector it also is.                          *)
VectorFirst(ref) ==
  CASE IsVector(ref)    -> flexVectorToJson(AsVector(ref))
    [] Is(ref, "typed") -> flexVectorToJson(ref.typed)
    [] Is(ref, "fixed") -> flexVectorToJson(ref.fixed)
    [] OTHER            -> Scalar(ref)

(* IsMap is asked first: IsVector holds of a map as well.                  *)
Container(ref) ==
  IF Is(ref, "map") THEN FlexMap(ref.map)
  ELSE CASE Is(ref, "typed") -> flexVectorToJson(ref.typed)
         [] Is(ref, "fixed") -> flexVectorToJson(ref.fixed)
         [] IsVector(ref)    -> flexVectorToJson(AsVector(ref))
         [] OTHER            -> Scalar(ref)

flexToJson(ref) == Container(ref)

-----------------------------------------------------------------------------
(* Where the leaves of a value lie: the keys and positions that lead there. *)
RECURSIVE FlexPaths(_)
FlexPaths(ref) ==
  LET Under(step, child) == {<<step>> \o path : path \in FlexPaths(child)}
      Elements(vec) == UNION {Under(ToString(i), vec[i]) : i \in DOMAIN vec}
  IN  CASE Is(ref, "map")    -> UNION {Under(ref.map.keys[i], ref.map.vals[i]) :
                                         i \in DOMAIN ref.map.keys}
        [] Is(ref, "vector") -> Elements(ref.vector)
        [] Is(ref, "typed")  -> Elements(ref.typed)
        [] Is(ref, "fixed")  -> Elements(ref.fixed)
        [] OTHER             -> {<<>>}

RECURSIVE JsonPaths(_)
JsonPaths(json) ==
  LET Under(step, child) == {<<step>> \o path : path \in JsonPaths(child)}
  IN  CASE Is(json, "object") -> UNION {Under(k, json.object[k]) : k \in DOMAIN json.object}
        [] Is(json, "array")  -> UNION {Under(ToString(i), json.array[i]) :
                                          i \in DOMAIN json.array}
        [] OTHER              -> {<<>>}
=============================================================================
