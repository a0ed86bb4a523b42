------------------------------ MODULE ModelRow ------------------------------
(***************************************************************************)
(* How a model's value becomes the columns of its table's row and is read  *)
(* back: collect_members in set_entity_model (crates/sqlite/sqlite/src/    *)
(* lib.rs) writes, map_row_to_ty (model.rs) reads.                         *)
(*                                                                         *)
(* A value is a tree of dojo_types::schema::Ty.  A row is a function from  *)
(* column paths (sequences of names) to SQL values; a column that is not   *)
(* in its domain is NULL.  A JSON text is the array or the object it holds. *)
(***************************************************************************)
EXTENDS Integers, Sequences, SequencesExt, TLC

CONSTANTS NULL,     \* SQL NULL, and the value of a Ty that is not set
          ERR       \* a value that cannot be read

Primitive(v) == [kind |-> "primitive", v |-> v]
Array(vs) == [kind |-> "array", vs |-> vs]
FixedSizeArray(vs) == [kind |-> "fixed", vs |-> vs]
Struct(members) == [kind |-> "struct", members |-> members]
Enum(option, options) == [kind |-> "enum", option |-> option, options |-> options]
Unit == Struct(<< >>)
Member(name, ty) == [name |-> name, ty |-> ty]

(* The value of a type with nothing set, as a model's schema has it. *)
RECURSIVE Blank(_)
Blank(ty) ==
    CASE ty.kind = "primitive" -> Primitive(NULL)
      [] ty.kind = "array" -> Array(<< >>)
      [] ty.kind = "fixed" -> FixedSizeArray(<< >>)
      [] ty.kind = "struct" ->
           Struct([i \in DOMAIN ty.members |->
                      Member(ty.members[i].name, Blank(ty.members[i].ty))])
      [] ty.kind = "enum" ->
           Enum(NULL, [i \in DOMAIN ty.options |->
                      Member(ty.options[i].name, Blank(ty.options[i].ty))])

JsonArray(vs) == [json |-> "array", vs |-> vs]
IsArrayObject(v) == v.json = "object" /\ {"elements", "size"} \subseteq DOMAIN v

NoColumns == << >>
Column(path, v) == path :> v

RECURSIVE collect_members(_, _)
collect_members(prefix, ty) ==
    LET All(ms) == FoldSeq(LAMBDA m, cols : collect_members(Append(prefix, m.name), m.ty) @@ cols,
                           NoColumns, ms)
    IN  CASE ty.kind = "primitive" -> Column(prefix, ty.v)
          [] ty.kind \in {"array", "fixed"} -> Column(prefix, JsonArray(ty.vs))
          [] ty.kind = "struct" -> All(ty.members)
          [] ty.kind = "enum" ->
               Column(prefix, ty.option)
                   @@ All(SelectSeq(ty.options, LAMBDA o : o.name = ty.option))

Get(row, path) == IF path \in DOMAIN row THEN row[path] ELSE NULL

Failed(members) == \E i \in DOMAIN members : members[i].ty = ERR

(* A fixed size array is read from a JSON object with its elements and its
   size: any other JSON value is an error. *)
RECURSIVE map_row_to_ty(_, _, _)
map_row_to_ty(path, ty, row) ==
    LET v == Get(row, path)
        Read(m) == Member(m.name, map_row_to_ty(Append(path, m.name), m.ty, row))
    IN  CASE ty.kind = "primitive" -> Primitive(v)
          [] ty.kind = "array" -> IF v = NULL THEN Array(<< >>) ELSE Array(v.vs)
          [] ty.kind = "fixed" ->
               IF v = NULL THEN FixedSizeArray(<< >>)
               ELSE IF IsArrayObject(v) THEN FixedSizeArray(v.elements)
               ELSE ERR
          [] ty.kind = "struct" ->
               LET ms == [i \in DOMAIN ty.members |-> Read(ty.members[i])]
               IN  IF Failed(ms) THEN ERR ELSE Struct(ms)
          [] ty.kind = "enum" ->
               LET os == [i \in DOMAIN ty.options |->
                             IF ty.options[i].name = v THEN Read(ty.options[i]) ELSE ty.options[i]]
               IN  IF Failed(os) THEN ERR ELSE Enum(v, os)
=============================================================================
