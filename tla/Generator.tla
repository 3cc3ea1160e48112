------------------------------ MODULE Generator ------------------------------
(***************************************************************************)
(* internal/gen: what becomes of one property of a uapi schema.  The        *)
(* generator classifies it (buildField), and emits a schema attribute, a    *)
(* statement of body and a statement of read for its class; the descriptor  *)
(* of the resource picks the handlers.  It refuses what it cannot emit.     *)
(***************************************************************************)
EXTENDS WireValues

Handlers == {"put",        \* crudCollection: Update is a PUT
             "patch",      \* crudCollection with PatchUpdates: a merge PATCH
             "singleton"}  \* crudSingleton: PATCH of the body, Delete does nothing

\* A property of the response schema.  type is a sequence, of one or of a union.
Property(type, flags) == [type |-> type, flags |-> flags]
Flags == {"writeOnly", "readOnly", "clearOnOmit", "deprecated",
          "writable", "required"}   \* of the request schema

\* What the descriptor says: the handlers, and of this property.
Descriptor(handlers, intStr, createOnly) ==
  [handlers |-> handlers, intStr |-> intStr, createOnly |-> createOnly]

Field(kind, goType) == [kind |-> kind, goType |-> goType]
Refused == Field("refused", "none")
Skipped == Field("skipped", "none")
-----------------------------------------------------------------------------
Admits(p, json) == \E i \in DOMAIN p.type : p.type[i] = json

\* A union that admits an array is the array, otherwise its first type but null.
typeOf(p) ==
  IF Len(p.type) = 1 THEN p.type[1]
  ELSE IF Admits(p, "array") THEN "array"
  ELSE IF \A i \in DOMAIN p.type : p.type[i] = "null" THEN "string"
  ELSE p.type[CHOOSE i \in DOMAIN p.type :
                /\ p.type[i] # "null"
                /\ \A j \in 1 .. i - 1 : p.type[j] = "null"]

intStrUnion(p) == Len(p.type) > 1 /\ Admits(p, "integer") /\ Admits(p, "string")

\* The unions of uapi's schemas: null beside one type or beside a number and a
\* keyword, and anything beside a list.
Plain(p) ==
  /\ p.type \in Seq(STRING)
  /\ \A i, j \in DOMAIN p.type :
       p.type[i] # "null" /\ p.type[j] # "null" =>
         \/ p.type[i] = p.type[j]
         \/ {p.type[i], p.type[j]} \subseteq {"integer", "string"}

ListUnion(p) == p.type \in Seq(STRING) /\ Admits(p, "array") /\ ~ intStrUnion(p)

goType(p) == CASE typeOf(p) = "integer" -> "types.Int64"
               [] typeOf(p) = "boolean" -> "types.Bool"
               [] typeOf(p) = "array"   -> "types.List"
               [] OTHER -> "types.String"

readOnly(p) == "readOnly" \in p.flags \/ "writable" \notin p.flags

intStrField(d, p) ==
  IF ~ d.intStr \/ readOnly(p) \/ p.flags \cap {"writeOnly", "required", "deprecated"} # {}
  THEN Refused ELSE Field("intstr", "types.String")

computedField(p) == CASE typeOf(p) = "boolean" -> Field("computedbool", "types.Bool")
                      [] typeOf(p) = "string"  -> Field("computedstring", "types.String")
                      [] OTHER -> Refused

\* The first of these that is set.
kindOf(p) == IF "writeOnly" \in p.flags THEN "writeonly"
             ELSE IF "required" \in p.flags THEN "required"
             ELSE IF "clearOnOmit" \in p.flags THEN "optclear"
             ELSE "optcomp"

buildFieldUnions(d, p) ==
  IF typeOf(p) = "object" THEN Skipped
  ELSE IF "deprecated" \in p.flags THEN Refused
  ELSE IF readOnly(p) THEN computedField(p)
  ELSE IF kindOf(p) = "optclear" /\ d.handlers = "singleton" THEN Refused
  ELSE Field(kindOf(p), goType(p))

\* buildResource, for one property.
buildField(d, p) ==
  IF typeOf(p) = "object" THEN Skipped
  ELSE IF d.createOnly THEN Field("createonly", "types.String")
  ELSE IF intStrUnion(p) THEN intStrField(d, p)
  ELSE IF "deprecated" \in p.flags THEN Refused
  ELSE IF readOnly(p) THEN computedField(p)
  ELSE IF kindOf(p) = "optclear" /\ d.handlers = "singleton" THEN Refused
  ELSE Field(kindOf(p), goType(p))
-----------------------------------------------------------------------------
(* What is emitted for a field. *)

\* Of the schema: "sticky" is Optional+Computed with UseStateForUnknown, "view"
\* is Computed.
resAttr(f) ==
  CASE f.kind = "required" -> "required"
    [] f.kind \in {"optcomp", "intstr"} -> "sticky"
    [] f.kind \in {"optclear", "writeonly"} ->
         IF f.goType \in {"types.String", "types.List"} THEN "optional" ELSE "refused"
    [] f.kind = "createonly" -> "replaces"
    [] f.kind \in {"computedbool", "computedstring"} -> "view"
    [] f.kind \in {"refused", "skipped"} -> f.kind

bodyStmt(f, v) ==
  CASE f.kind \in {"computedbool", "computedstring"} -> Absent
    [] f.kind = "intstr" -> putIntOrStr(v)
    [] OTHER ->
         CASE f.goType = "types.List"   -> putList(v)
           [] f.goType = "types.Int64"  -> putInt64(v)
           [] f.goType = "types.Bool"   -> putBool(v)
           [] f.goType = "types.String" -> putStr(v)

readStmt(f, w, m) ==
  CASE f.kind \in {"writeonly", "createonly"} -> m
    [] f.kind = "computedbool" -> boolValDefault(w)
    [] OTHER ->
         CASE f.goType = "types.List"   -> listValKeepEmpty(w, m)
           [] f.goType = "types.Int64"  -> int64Val(w)
           [] f.goType = "types.Bool"   -> boolVal(w)
           [] f.goType = "types.String" -> strVal(w)
-----------------------------------------------------------------------------
(* The handlers: what a create and an update send, of one key. *)

createBodyWithoutSecrets(f, planned) ==
  IF f.kind = "writeonly" THEN Absent ELSE bodyStmt(f, planned)

createBody(f, planned) == bodyStmt(f, planned)

crudCollectionPut(f, planned, prior) == bodyStmt(f, planned)

crudCollectionPatch(f, planned, prior) ==
  mergeDelta(bodyStmt(f, planned), bodyStmt(f, prior))

crudSingleton(f, planned, prior) == bodyStmt(f, planned)
=============================================================================
