---------------------------- MODULE GeneratedProofs ----------------------------
(***************************************************************************)
(* An attribute of a generated resource through its runs, for every schema, *)
(* every value and any number of edits by others.  The state is a fixed     *)
(* point of a refresh of some section, so a write whose entity tag matches  *)
(* starts from what the router holds, and what body makes of the planned    *)
(* value is kept by uapi and read back as planned.                          *)
(***************************************************************************)
EXTENDS GeneratedResource, GeneratorProofs

-----------------------------------------------------------------------------
(* The attribute. *)

property == subject.property

\* The three ways in which the generator emits an attribute with these descriptors.
IsView ==
  /\ ~ intStrUnion(property)
  /\ \/ field = Field("computedbool", "types.Bool") /\ typeOf(property) = "boolean"
     \/ field = Field("computedstring", "types.String") /\ typeOf(property) = "string"

IsUnion ==
  /\ intStrUnion(property)
  /\ field = Field("intstr", "types.String")
  /\ "writable" \in property.flags
  /\ property.flags \cap {"writeOnly", "required"} = {}

IsPlain ==
  /\ ~ intStrUnion(property)
  /\ field = Field(kindOf(property), goType(property))
  /\ typeOf(property) # "object"
  /\ "writable" \in property.flags
  /\ field.kind \in {"optclear", "writeonly"} => field.goType \in {"types.String", "types.List"}
  /\ ~ (field.kind = "optclear" /\ singleton)

LEMMA SubjectParts ==
  ASSUME subject \in Subjects
  PROVE  /\ property \in Properties
         /\ subject.handlers \in Handlers
         /\ subject.default \in Defaults(property)
         /\ subject.upgrade = "none" \/ subject.upgrade \in Conversions(field)
         /\ \E d \in Descriptors : subject.handlers = d.handlers /\ field = buildField(d, property)
         /\ class \notin {"refused", "skipped"}
<1>1. PICK x \in Emitted : subject \in SubjectsOf(x[1], x[2])
  BY DEF Subjects
<1>2. x[1] \in Descriptors /\ x[2] \in Properties
      /\ resAttr(buildField(x[1], x[2])) \notin {"refused", "skipped"}
  BY <1>1 DEF Emitted
<1>3. x[1].handlers \in Handlers
  BY <1>2 DEF Descriptors, Descriptor
<1>4. /\ subject.handlers = x[1].handlers /\ subject.property = x[2]
      /\ subject.field = buildField(x[1], x[2])
      /\ subject.default \in Defaults(x[2])
      /\ subject.upgrade = "none" \/ subject.upgrade \in Conversions(buildField(x[1], x[2]))
  BY <1>1 DEF SubjectsOf
<1> QED
  BY <1>2, <1>3, <1>4 DEF property, field, class

LEMMA SubjectShape ==
  ASSUME subject \in Subjects
  PROVE  IsView \/ IsUnion \/ IsPlain
<1> DEFINE p == property
<1>1. PICK d \in Descriptors : subject.handlers = d.handlers /\ field = buildField(d, p)
  BY SubjectParts
<1>2. ~ d.createOnly
  BY DEF Descriptors, Descriptor
<1>3. field.kind \notin {"refused", "skipped"} /\ class \notin {"refused", "skipped"}
  BY SubjectParts DEF class, resAttr
<1>4. field # Refused /\ field # Skipped
  BY <1>3 DEF Refused, Skipped, Field
<1>5. typeOf(p) # "object"
  BY <1>1, <1>4 DEF buildField
<1>6. CASE intStrUnion(p)
  <2>1. field = intStrField(d, p)
    BY <1>1, <1>2, <1>5, <1>6 DEF buildField
  <2> QED
    BY <1>4, <1>6, <2>1 DEF intStrField, readOnly, IsUnion
<1>7. CASE ~ intStrUnion(p) /\ readOnly(p)
  <2>1. field = computedField(p)
    BY <1>1, <1>2, <1>4, <1>5, <1>7 DEF buildField
  <2> QED
    BY <1>4, <1>7, <2>1 DEF computedField, IsView
<1>8. CASE ~ intStrUnion(p) /\ ~ readOnly(p)
  <2>1. /\ field = Field(kindOf(p), goType(p))
        /\ ~ (kindOf(p) = "optclear" /\ d.handlers = "singleton")
    BY <1>1, <1>2, <1>4, <1>5, <1>8 DEF buildField
  <2>2. field.kind \in {"optclear", "writeonly"} => field.goType \in {"types.String", "types.List"}
    BY <1>3 DEF class, resAttr
  <2> QED
    BY <1>1, <1>5, <1>8, <2>1, <2>2 DEF readOnly, IsPlain, singleton, Field
<1> QED
  BY <1>6, <1>7, <1>8

LEMMA SchemaType ==
  ASSUME subject \in Subjects
  PROVE  /\ Admits(property, typeOf(property))
         /\ typeOf(property) \in Types
         /\ IsUnion => Plain(property) /\ ~ Admits(property, "array")
         /\ ~ IsUnion /\ typeOf(property) # "array" =>
              \A i \in DOMAIN property.type : property.type[i] \in {typeOf(property), "null"}
<1> DEFINE p == property
<1>1. /\ Plain(p) \/ ListUnion(p)
      /\ p.type \in Seq(STRING)
      /\ \E i \in DOMAIN p.type : p.type[i] # "null"
      /\ \A i \in DOMAIN p.type : p.type[i] \in Types \cup {"object", "null"}
  BY SubjectParts, PropertyAssumption DEF Plain, ListUnion, Types
<1>2. /\ Admits(p, typeOf(p)) /\ typeOf(p) # "null"
      /\ Admits(p, "array") => typeOf(p) = "array"
  BY <1>1, TypeIsAdmitted
<1>3. typeOf(p) \in Types \cup {"object"}
  BY <1>1, <1>2 DEF Admits
<1>4. IsUnion => Plain(p) /\ ~ Admits(p, "array")
  BY <1>1 DEF IsUnion, Plain, ListUnion, Admits, intStrUnion
<1>5. typeOf(p) # "object"
  <2>1. CASE IsUnion
    BY <1>2, <1>4, <2>1 DEF IsUnion, intStrUnion, Plain, Admits
  <2> QED
    BY <2>1, SubjectShape DEF IsPlain, IsView
<1>6. ~ IsUnion /\ typeOf(p) # "array" => \A i \in DOMAIN p.type : p.type[i] \in {typeOf(p), "null"}
  <2> SUFFICES ASSUME ~ IsUnion, typeOf(p) # "array", NEW i \in DOMAIN p.type, p.type[i] # "null"
               PROVE  typeOf(p) = p.type[i]
    OBVIOUS
  <2>1. Plain(p) /\ ~ intStrUnion(p)
    BY <1>1, <1>2, SubjectShape DEF ListUnion, IsView, IsPlain
  <2> QED
    BY <2>1, TypeOfAnswer DEF Admits
<1> QED
  BY <1>2, <1>3, <1>4, <1>5, <1>6
-----------------------------------------------------------------------------
(* Values. *)

LEMMA ScalarValue ==
  ASSUME NEW t \in Types \ {"array"}, NEW v \in Scalars[t]
  PROVE  /\ v = Value(t, <<v.words[1]>>)
         /\ v.words[1] \in STRING
         /\ v.json = t /\ v.words = <<v.words[1]>>
         /\ v \notin {Null, Unknown, Absent, Empty}
<1>1. v = Value(t, <<v.words[1]>>) /\ v.words[1] \in STRING
  BY ValueAssumption
<1>2. v.json = t /\ v.words = <<v.words[1]>>
  BY <1>1 DEF Value
<1> QED
  BY <1>1, <1>2 DEF Types, Null, Unknown, Absent, Empty, Value

LEMMA ListValue ==
  ASSUME NEW v \in Lists
  PROVE  /\ v = Value("array", v.words) /\ v.words \in Seq(STRING)
         /\ v.json = "array"
         /\ v \notin {Null, Unknown, Absent}
<1>1. v = Value("array", v.words) /\ v.words \in Seq(STRING)
  BY ValueAssumption
<1>2. v.json = "array"
  BY <1>1 DEF Value
<1> QED
  BY <1>1, <1>2 DEF Null, Unknown, Absent, Value

LEMMA NullApart == Null # Unknown /\ Null # Absent /\ Null # Empty /\ Unknown # Absent
                   /\ Unknown # Empty /\ Absent # Empty
  BY DEF Null, Unknown, Absent, Empty, Value

\* What the router holds of the attribute, by its type.
LEMMA HeldValue ==
  ASSUME subject \in Subjects, NEW v
  PROVE  v \in Held(property) <=>
           \/ v = Null /\ (typeOf(property) = "array" \/ "required" \notin property.flags)
           \/ typeOf(property) = "array" /\ v \in Lists /\ v # Empty
           \/ ~ IsUnion /\ typeOf(property) # "array" /\ v \in Scalars[typeOf(property)]
           \/ IsUnion /\ v \in Scalars["integer"]
           \/ IsUnion /\ v \in Scalars["string"] /\ v.words[1] \notin Numerals
<1> DEFINE p == property
           Typed == UNION {Scalars[p.type[i]] : i \in {j \in DOMAIN p.type : p.type[j] # "null"}}
<1>1. CASE typeOf(p) = "array"
  <2>1. ~ IsUnion
    BY <1>1, SchemaType
  <2> QED
    BY <1>1, <2>1 DEF Held
<1>2. CASE typeOf(p) # "array" /\ ~ IsUnion
  <2>1. ~ intStrUnion(p)
    BY <1>2, SubjectShape DEF IsView, IsPlain
  <2>2. \A x : x \in Typed <=> x \in Scalars[typeOf(p)]
    <3>1. \E i \in DOMAIN p.type : p.type[i] = typeOf(p) /\ typeOf(p) # "null"
      BY SchemaType DEF Admits, Types
    <3>2. \A i \in DOMAIN p.type : p.type[i] \in {typeOf(p), "null"}
      BY <1>2, SchemaType
    <3> QED
      BY <3>1, <3>2
  <2> HIDE DEF Typed
  <2>3. Null \notin Scalars[typeOf(p)]
    BY <1>2, ScalarValue, SchemaType
  <2>4. Held(p) = Typed \cup (IF "required" \in p.flags THEN {} ELSE {Null})
    BY <1>2, <2>1 DEF Held, Typed
  <2> QED
    BY <1>2, <2>2, <2>4
<1>3. CASE IsUnion
  <2>1. Plain(p) /\ ~ Admits(p, "array") /\ typeOf(p) # "array"
    BY <1>3, SchemaType
  <2>2. intStrUnion(p)
    BY <1>3 DEF IsUnion
  <2>3. \A i \in DOMAIN p.type : p.type[i] \in {"integer", "string", "null"}
    BY <2>1, <2>2 DEF Plain, intStrUnion, Admits
  <2>4. \A x : x \in Typed <=> x \in Scalars["integer"] \/ x \in Scalars["string"]
    BY <2>2, <2>3 DEF intStrUnion, Admits
  <2> HIDE DEF Typed
  <2>5. Held(p) = {x \in Typed : ~ (x.json = "string" /\ x.words[1] \in Numerals)}
                    \cup (IF "required" \in p.flags THEN {} ELSE {Null})
    BY <2>1, <2>2 DEF Held, Typed
  <2>6. \A x \in Scalars["integer"] : x.json = "integer"
    BY ScalarValue DEF Types
  <2>7. \A x \in Scalars["string"] : x.json = "string"
    BY ScalarValue DEF Types
  <2> QED
    BY <1>3, <2>1, <2>4, <2>5, <2>6, <2>7
<1> QED
  BY <1>1, <1>2, <1>3

\* What a configuration can set the attribute to, by its type.
LEMMA SettableValue ==
  ASSUME subject \in Subjects, ~ IsView, NEW v
  PROVE  v \in Settable(field) <=>
           \/ typeOf(property) = "array" /\ v \in Lists
           \/ ~ IsUnion /\ typeOf(property) # "array" /\ v \in Scalars[typeOf(property)]
           \/ IsUnion /\ v \in Scalars["string"]
           \/ IsUnion /\ \E n \in Scalars["integer"] : v = Value("string", n.words)
<1> DEFINE t == typeOf(property)
<1>1. CASE IsUnion
  <2>1. t # "array"
    BY <1>1, SchemaType
  <2>2. Settable(field) = Scalars["string"] \cup {Value("string", n.words) : n \in Scalars["integer"]}
    BY <1>1 DEF IsUnion, Settable, Field
  <2> QED
    BY <1>1, <2>1, <2>2
<1>2. CASE ~ IsUnion
  <2>1. field.goType = goType(property) /\ field.kind # "intstr"
    BY <1>2, SubjectShape DEF IsPlain, Field, kindOf
  <2>2. t \in Types
    BY SchemaType
  <2>3. Settable(field) = IF t = "array" THEN Lists ELSE Scalars[t]
    BY <2>1, <2>2 DEF Settable, goType, Types
  <2> QED
    BY <1>2, <2>3
<1> QED
  BY <1>1, <1>2

\* What body sends for a value that is set: of a type that uapi takes, and what it
\* then holds.
LEMMA SentIsTaken ==
  ASSUME subject \in Subjects, ~ IsView, NEW v \in Settable(field)
  PROVE  LET sent == bodyStmt(field, v)
         IN /\ v \notin {Null, Unknown, Absent}
            /\ sent \notin {Null, Unknown, Absent} /\ ~ Refuses(sent)
            /\ sent.words = v.words
            /\ sent = Empty <=> v = Empty
            /\ sent = Empty => typeOf(property) = "array"
            /\ Kept(sent) \in Held(property)
<1> DEFINE t == typeOf(property)
           sent == bodyStmt(field, v)
<1> USE NullApart
<1>0. "writable" \in property.flags
  BY SubjectShape DEF IsUnion, IsPlain
<1>1. CASE t = "array"
  <2>1. v \in Lists /\ ~ IsUnion
    BY <1>1, SettableValue, SchemaType
  <2>2. v.json = "array" /\ v \notin {Null, Unknown, Absent}
    BY <2>1, ListValue
  <2>3. sent = v
    BY <1>1, <2>1, <2>2, SubjectShape DEF IsPlain, Field, kindOf, goType, bodyStmt, putList, putStr
  <2>4. Kept(v) \in Held(property)
    BY <1>1, <2>1, <2>2, HeldValue DEF Kept
  <2>5. ~ Refuses(v)
    BY <1>0, <1>1, <2>2, SchemaType DEF Refuses, property
  <2> QED
    BY <1>1, <2>2, <2>3, <2>4, <2>5
<1>2. CASE t # "array" /\ ~ IsUnion
  <2>1. v \in Scalars[t] /\ t \in Types \ {"array"}
    BY <1>2, SettableValue, SchemaType
  <2>2. v.json = t /\ v \notin {Null, Unknown, Absent, Empty}
    BY <2>1, ScalarValue
  <2>3. sent = v
    <3>1. field.kind \in {"writeonly", "required", "optclear", "optcomp"} /\ field.goType = goType(property)
      BY <1>2, SubjectShape DEF IsPlain, Field, kindOf
    <3> QED
      BY <2>1, <2>2, <3>1 DEF goType, bodyStmt, putList, putBool, putInt64, putStr, Types
  <2>4. Kept(v) \in Held(property)
    BY <1>2, <2>1, <2>2, HeldValue DEF Kept
  <2>5. ~ Refuses(v)
    BY <1>0, <2>2, SchemaType DEF Refuses, property
  <2> QED
    BY <2>2, <2>3, <2>4, <2>5
<1>3. CASE IsUnion
  <2>1. PICK w \in STRING : v = Value("string", <<w>>)
                           /\ (v \in Scalars["string"] \/ Value("integer", <<w>>) \in Scalars["integer"])
    <3>1. CASE v \in Scalars["string"]
      BY <3>1, ScalarValue DEF Types
    <3>2. ASSUME NEW n \in Scalars["integer"], v = Value("string", n.words)
          PROVE  v = Value("string", <<n.words[1]>>) /\ n.words[1] \in STRING
                 /\ Value("integer", <<n.words[1]>>) \in Scalars["integer"]
      <4>1. n = Value("integer", <<n.words[1]>>) /\ n.words = <<n.words[1]>> /\ n.words[1] \in STRING
        BY ScalarValue DEF Types
      <4> QED
        BY <3>2, <4>1
    <3> QED
      BY <1>3, <3>1, <3>2, SettableValue, SchemaType
  <2>2. v.words = <<w>> /\ v.words[1] = w /\ v \notin {Null, Unknown, Absent, Empty}
    BY <2>1 DEF Value, Null, Unknown, Absent, Empty
  <2>3. sent = IF w \in Numerals THEN Value("integer", <<w>>) ELSE v
    BY <1>3, <2>2 DEF IsUnion, Field, bodyStmt, putIntOrStr
  <2>4. IF w \in Numerals THEN sent \in Scalars["integer"] ELSE sent \in Scalars["string"]
    <3>1. CASE w \in Numerals
      BY <2>1, <2>2, <2>3, <3>1, ValueAssumption
    <3>2. CASE w \notin Numerals
      <4>1. Value("integer", <<w>>) \notin Scalars["integer"]
        BY <3>2, ValueAssumption DEF Value
      <4> QED
        BY <2>1, <2>3, <3>2, <4>1
    <3> QED
      BY <3>1, <3>2
  <2>5. sent.json \in {"integer", "string"} /\ sent.words = <<w>>
        /\ sent \notin {Null, Unknown, Absent, Empty}
    BY <2>1, <2>3 DEF Value, Null, Unknown, Absent, Empty
  <2>6. ~ Refuses(sent)
    BY <1>0, <1>3, <2>5 DEF Refuses, property, IsUnion, intStrUnion
  <2>7. Kept(sent) \in Held(property)
    BY <1>3, <2>2, <2>3, <2>4, <2>5, HeldValue DEF Kept
  <2> QED
    BY <2>2, <2>5, <2>6, <2>7
<1> QED
  BY <1>1, <1>2, <1>3
-----------------------------------------------------------------------------
(* Classes and defaults. *)

LEMMA ClassOf ==
  ASSUME subject \in Subjects
  PROVE  /\ class \in {"view", "required", "sticky", "optional"}
         /\ IsView <=> class = "view"
         /\ class = "sticky" => "required" \notin property.flags /\ field.kind # "writeonly"
         /\ class = "optional" => "required" \notin property.flags
         /\ class = "optional" /\ singleton => field.kind = "writeonly"
         /\ field.kind = "writeonly" => class = "optional" /\ "writeOnly" \in property.flags
<1>1. CASE IsView
  BY <1>1 DEF IsView, class, resAttr, Field
<1>2. CASE IsUnion
  BY <1>2 DEF IsUnion, IsView, class, resAttr, Field
<1>3. CASE IsPlain
  <2>1. /\ field.kind = kindOf(property)
        /\ field.kind \in {"writeonly", "required", "optclear", "optcomp"}
    BY <1>3 DEF IsPlain, Field, kindOf
  <2>2. field.kind = "optclear" => "required" \notin property.flags
    BY <2>1 DEF kindOf
  <2>3. field.kind = "optcomp" => "required" \notin property.flags
    BY <2>1 DEF kindOf
  <2>4. field.kind = "writeonly" => "writeOnly" \in property.flags /\ "required" \notin property.flags
    BY <2>1, SubjectParts, PropertyAssumption DEF kindOf
  <2> QED
    BY <1>3, <2>1, <2>2, <2>3, <2>4 DEF IsPlain, IsView, class, resAttr, Field
<1> QED
  BY <1>1, <1>2, <1>3, SubjectShape

LEMMA DefaultOf ==
  ASSUME subject \in Subjects
  PROVE  /\ subject.default # Null => subject.default \in Held(property)
         /\ class = "optional" \/ typeOf(property) = "array" => subject.default = Null
<1>1. subject.default \in Defaults(property)
  BY SubjectParts
<1>2. subject.default # Null => subject.default \in Held(property)
  BY <1>1 DEF Defaults
<1>3. typeOf(property) = "array" => subject.default = Null
  BY <1>1 DEF Defaults
<1>4. ASSUME class = "optional"
      PROVE  subject.default = Null
  <2>1. IsPlain /\ field.kind = kindOf(property) /\ field.kind \in {"writeonly", "optclear"}
    BY <1>4, SubjectShape DEF IsView, IsUnion, IsPlain, class, resAttr, Field, kindOf
  <2>2. "writeOnly" \in property.flags \/ Admits(property, "null")
    BY <2>1, SubjectParts, PropertyAssumption DEF kindOf
  <2> QED
    BY <1>1, <2>2 DEF Defaults
<1> QED
  BY <1>2, <1>3, <1>4

-----------------------------------------------------------------------------
(* Reading. *)

LEMMA BodyOfNothing ==
  ASSUME subject \in Subjects, NEW v, v \in {Null, Unknown} \/ IsView
  PROVE  bodyStmt(field, v) = Absent
<1>1. CASE IsView
  BY <1>1 DEF IsView, Field, bodyStmt
<1>2. CASE IsUnion
  BY <1>2, SubjectShape DEF IsUnion, IsView, Field, bodyStmt, putIntOrStr
<1>3. CASE IsPlain
  <2>1. field.goType \in GoTypes /\ field.kind \in {"writeonly", "required", "optclear", "optcomp"}
    BY <1>3 DEF IsPlain, Field, kindOf, goType, GoTypes
  <2>2. v \in {Null, Unknown}
    BY <2>1 DEF IsView, Field
  <2> QED
    BY <2>1, <2>2 DEF bodyStmt, putList, putInt64, putBool, putStr, GoTypes
<1> QED
  BY <1>1, <1>2, <1>3, SubjectShape

LEMMA ReadTwice ==
  ASSUME subject \in Subjects, NEW w, NEW m
  PROVE  readStmt(field, w, readStmt(field, w, m)) = readStmt(field, w, m)
<1>1. listValKeepEmpty(w, listValKeepEmpty(w, m)) = listValKeepEmpty(w, m)
  BY DEF listValKeepEmpty
<1>2. CASE field.kind \in {"writeonly", "createonly", "computedbool"}
  BY <1>2 DEF readStmt
<1>3. CASE field.kind \notin {"writeonly", "createonly", "computedbool"}
  <2>1. field.goType \in GoTypes
    BY SubjectShape DEF IsView, IsUnion, IsPlain, Field, goType, GoTypes
  <2> QED
    BY <1>1, <1>3, <2>1 DEF readStmt, GoTypes
<1> QED
  BY <1>2, <1>3

\* What is sent for a value comes back as that value.
LEMMA SetReadsBack ==
  ASSUME subject \in Subjects, ~ IsView, NEW v \in Settable(field)
  PROVE  readStmt(field, Kept(bodyStmt(field, v)), v) = v
<1>1. PICK d \in Descriptors : field = buildField(d, property)
  BY SubjectParts
<1>2. resAttr(field) \notin {"refused", "skipped", "view"}
  BY ClassOf DEF class
<1>3. v \in Known(field.goType)
  <2>1. CASE typeOf(property) = "array"
    <3>1. ~ IsUnion /\ v \in Lists
      BY <2>1, SettableValue, SchemaType
    <3>2. field.goType = "types.List"
      BY <2>1, <3>1, SubjectShape DEF IsPlain, Field, goType
    <3> QED
      BY <3>1, <3>2, ListValue DEF Known
  <2>2. CASE typeOf(property) # "array" /\ ~ IsUnion
    <3> DEFINE t == typeOf(property)
    <3>1. t \in Types \ {"array"} /\ v \in Scalars[t]
      BY <2>2, SettableValue, SchemaType
    <3>2. v = Value(t, <<v.words[1]>>) /\ <<v.words[1]>> \in Seq(STRING)
      BY <3>1, ScalarValue
    <3>3. field.goType = goType(property)
      BY <2>2, SubjectShape DEF IsPlain, Field
    <3> QED
      BY <3>1, <3>2, <3>3 DEF Known, goType, Types
  <2>3. CASE IsUnion
    <3>1. \E n \in Scalars["string"] \cup Scalars["integer"] : v = Value("string", n.words)
      BY <2>3, SettableValue, SchemaType, ScalarValue DEF Types, Value
    <3>2. ASSUME NEW n \in Scalars["string"] \cup Scalars["integer"]
          PROVE  n.words \in Seq(STRING)
      <4>1. n.words = <<n.words[1]>> /\ n.words[1] \in STRING
        BY ScalarValue DEF Types
      <4>2. <<n.words[1]>> \in Seq(STRING)
        BY <4>1
      <4> QED
        BY <4>1, <4>2
    <3> QED
      BY <2>3, <3>1, <3>2 DEF IsUnion, Field, Known
  <2> QED
    BY <2>1, <2>2, <2>3
<1> QED
  BY <1>1, <1>2, <1>3, SetValuesReadBack

\* The words tell the values of an attribute apart.
LEMMA WordsTellApart ==
  ASSUME subject \in Subjects, ~ IsView,
         NEW v \in Settable(field), NEW w \in Settable(field), v.words = w.words
  PROVE  v = w
<1>1. ASSUME NEW x \in Settable(field)
      PROVE  x = Value(IF IsUnion THEN "string" ELSE typeOf(property), x.words)
  BY SettableValue, SchemaType, ScalarValue, ListValue DEF Types, Value
<1> QED
  BY <1>1

\* What can be set has words, save for [].
LEMMA NoWordsIsEmpty ==
  ASSUME subject \in Subjects, ~ IsView, NEW v \in Settable(field)
  PROVE  v # Null /\ (v # Empty => v.words # Null.words)
<1>1. v # Null
  BY SentIsTaken
<1>2. CASE typeOf(property) = "array"
  <2>1. v = Value("array", v.words)
    BY <1>2, SettableValue, SchemaType, ListValue
  <2> QED
    BY <1>1, <2>1 DEF Null, Empty, Value
<1>3. CASE typeOf(property) # "array"
  <2>1. \E t \in Types \ {"array"} : \E n \in Scalars[t] : v.words = n.words
    BY <1>3, SettableValue, SchemaType DEF Types, Value
  <2>2. v.words = <<v.words[1]>>
    BY <2>1, ScalarValue
  <2> QED
    BY <1>1, <2>2 DEF Null, Value
<1> QED
  BY <1>2, <1>3

\* Different values are sent differently.
LEMMA BodyTellsApart ==
  ASSUME subject \in Subjects, ~ IsView,
         NEW v \in Settable(field) \cup {Null}, NEW w \in Settable(field) \cup {Null},
         bodyStmt(field, v) = bodyStmt(field, w)
  PROVE  v = w
<1>1. v \in Settable(field) /\ w \in Settable(field) => v.words = w.words
  BY SentIsTaken
<1>2. v = Null <=> w = Null
  BY SentIsTaken, BodyOfNothing
<1> QED
  BY <1>1, <1>2, WordsTellApart

\* What the state makes of what the router holds, and what body makes of that again.
LEMMA ReadHeld ==
  ASSUME subject \in Subjects, NEW v \in Held(property), NEW m, field.kind # "writeonly"
  PROVE  LET got == readStmt(field, v, m)
         IN /\ m \in Settable(field) \cup {Null, Unknown} => got \in Settable(field) \cup {Null}
            /\ ~ IsView =>
                 /\ got = Null => v = Null
                 /\ got = Empty => v = Null /\ m = Empty
                 /\ got \notin {Null, Empty} => v # Null /\ v.words = got.words
                 /\ v = Null /\ m # Empty => got = Null
                 /\ Kept(bodyStmt(field, got)) = v
<1> DEFINE got == readStmt(field, v, m)
           t == typeOf(property)
<1> USE NullApart
<1>1. CASE IsView
  <2>1. ~ IsUnion /\ t \in {"boolean", "string"}
    BY <1>1 DEF IsView, IsUnion
  <2>2. v = Null \/ (v \in Scalars[t] /\ v.json = t /\ v \notin {Null, Absent})
    BY <2>1, HeldValue, ScalarValue DEF Types
  <2>3. CASE t = "boolean"
    <3>1. field = Field("computedbool", "types.Bool")
      BY <1>1, <2>3 DEF IsView
    <3>2. got = boolValDefault(v) /\ Settable(field) = Scalars["boolean"]
      BY <3>1 DEF readStmt, Settable, Field
    <3>3. got \in Scalars["boolean"]
      BY <2>2, <2>3, <3>2, ValueAssumption DEF boolValDefault, boolVal, Null, Value
    <3> QED
      BY <1>1, <3>2, <3>3
  <2>4. CASE t = "string"
    <3>1. field = Field("computedstring", "types.String")
      BY <1>1, <2>4 DEF IsView
    <3>2. got = strVal(v) /\ Settable(field) = Scalars["string"]
      BY <3>1 DEF readStmt, Settable, Field
    <3>3. got = v
      BY <2>2, <2>4, <3>2 DEF strVal, IsString, Null, Absent, Value
    <3> QED
      BY <1>1, <2>2, <2>4, <3>2, <3>3
  <2> QED
    BY <2>1, <2>3, <2>4
<1>2. CASE t = "array"
  <2>1. ~ IsUnion /\ ~ IsView
    BY <1>2, SchemaType DEF IsView
  <2>2. field.goType = "types.List" /\ field.kind \in {"required", "optclear", "optcomp"}
    BY <1>2, <2>1, SubjectShape DEF IsPlain, Field, kindOf, goType
  <2>3. got = listValKeepEmpty(v, m)
    BY <2>2 DEF readStmt
  <2>4. \/ v = Null
        \/ v \in Lists /\ v # Empty /\ v.json = "array" /\ v \notin {Null, Absent, Unknown}
    BY <1>2, <2>1, HeldValue, ListValue
  <2>5. got = IF v = Null THEN IF m = Empty THEN Empty ELSE Null ELSE v
    BY <2>3, <2>4 DEF listValKeepEmpty, listVal, Null, Value
  <2>6. got \in {Null, Empty} \/ got = v
    BY <2>5
  <2>7. bodyStmt(field, got) = IF got = Null THEN Absent ELSE got
    BY <2>2, <2>4, <2>5 DEF bodyStmt, putList, putStr
  <2>8. Kept(bodyStmt(field, got)) = v
    BY <2>4, <2>5, <2>7 DEF Kept
  <2>9. m \in Settable(field) \cup {Null, Unknown} => got \in Settable(field) \cup {Null}
    BY <1>2, <2>1, <2>4, <2>5, SettableValue
  <2> QED
    BY <2>4, <2>5, <2>8, <2>9
<1>3. CASE t # "array" /\ ~ IsUnion /\ ~ IsView
  <2>1. field.goType = goType(property) /\ field.kind \in {"required", "optclear", "optcomp"}
    BY <1>3, SubjectShape DEF IsPlain, Field, kindOf
  <2>2. t \in Types \ {"array"}
    BY <1>3, SchemaType
  <2>3. \/ v = Null
        \/ v \in Scalars[t] /\ v.json = t /\ v \notin {Null, Absent, Unknown, Empty}
    BY <1>3, <2>2, HeldValue, ScalarValue
  <2>4. got = v
    BY <2>1, <2>2, <2>3 DEF readStmt, goType, int64Val, boolVal, strVal, IsString, Null, Value, Types
  <2>5. v # Null => bodyStmt(field, v) = v
    BY <2>1, <2>2, <2>3 DEF goType, bodyStmt, putInt64, putBool, putStr, Types
  <2>6. v = Null => bodyStmt(field, v) = Absent
    BY BodyOfNothing
  <2>7. Kept(bodyStmt(field, v)) = v
    BY <2>3, <2>5, <2>6 DEF Kept
  <2>8. v # Null => v \in Settable(field)
    BY <1>3, <2>3, SettableValue
  <2> QED
    BY <2>3, <2>4, <2>7, <2>8
<1>4. CASE IsUnion
  <2>1. got = strVal(v)
    BY <1>4 DEF IsUnion, Field, readStmt
  <2>2. ~ IsView /\ t # "array"
    BY <1>4, SchemaType DEF IsUnion, IsView
  <2>3. CASE v = Null
    <3>1. got = Null
      BY <2>1, <2>3 DEF strVal, IsString, Null, Value
    <3>2. Kept(bodyStmt(field, Null)) = Null
      BY BodyOfNothing DEF Kept
    <3> QED
      BY <2>3, <3>1, <3>2
  <2>4. CASE v # Null
    <3>1. \/ v \in Scalars["integer"]
          \/ v \in Scalars["string"] /\ v.words[1] \notin Numerals
      BY <1>4, <2>2, <2>4, HeldValue
    <3>2. /\ v = Value(v.json, <<v.words[1]>>) /\ v.json \in {"integer", "string"}
          /\ v.words = <<v.words[1]>>
          /\ v \notin {Null, Absent, Unknown, Empty}
      BY <3>1, ScalarValue DEF Types
    <3>3. got = Value("string", v.words)
      BY <2>1, <3>2 DEF strVal, IsString
    <3>4. got.words = v.words /\ got \notin {Null, Empty, Unknown, Absent}
      BY <3>2, <3>3 DEF Value, Null, Empty, Unknown, Absent
    <3>5. got \in Settable(field)
      <4>1. CASE v \in Scalars["integer"]
        BY <1>4, <2>2, <3>3, <4>1, SettableValue
      <4>2. CASE v \in Scalars["string"]
        <5>1. got = v
          BY <3>2, <3>3, <4>2, ScalarValue DEF Types
        <5> QED
          BY <1>4, <2>2, <4>2, <5>1, SettableValue
      <4> QED
        BY <3>1, <4>1, <4>2
    <3>6. bodyStmt(field, got) = IF v.words[1] \in Numerals THEN Value("integer", v.words) ELSE got
      BY <1>4, <3>4 DEF IsUnion, Field, bodyStmt, putIntOrStr
    <3>7. bodyStmt(field, got) = v
      <4>1. v.json = "integer" => v \in Scalars["integer"] /\ v.words[1] \in Numerals
        BY <3>1, ScalarValue, ValueAssumption DEF Types
      <4>2. v.json = "string" => v.words[1] \notin Numerals
        BY <3>1, ScalarValue DEF Types
      <4> QED
        BY <3>2, <3>3, <3>6, <4>1, <4>2
    <3> QED
      BY <2>2, <2>4, <3>2, <3>4, <3>5, <3>7 DEF Kept
  <2> QED
    BY <2>3, <2>4
<1> QED
  BY <1>1, <1>2, <1>3, <1>4
-----------------------------------------------------------------------------
(* The invariant. *)

\* The state is what a refresh of some section leaves as it is.
StateIsRead ==
  state # NoState /\ ~ state.old => \E obj \in Sections : state = StateOf(obj, state.val)

\* Nothing happens to a section whose saved state waits to be upgraded.
OldIsSaved ==
  state.old =>
    /\ section \in Sections
    /\ state = [val |-> state.val, other |-> section.other, etag |-> ETag(section), old |-> TRUE]
    /\ state.val \in Saved(subject.upgrade, section.val)
    /\ subject.upgrade # "none"

\* After an apply and after an upgrade a refresh changes nothing.
RefreshedAlready == section \in Sections /\ state = StateOf(section, state.val)

SettledWhenOk    == verdict = "ok" /\ config # NoConfig => RefreshedAlready /\ ~ Changes
UpgradedIsRead   == verdict = "upgraded" => RefreshedAlready

IInv == /\ TypeOK /\ StateIsRead /\ OldIsSaved
        /\ SettledWhenOk /\ UpgradedIsRead
        /\ ResultFitsPlan /\ NeverRefused /\ AppliedIsStored /\ UpgradeKeeps

LEMMA SectionParts ==
  ASSUME NEW s \in Sections
  PROVE  /\ s = [val |-> s.val, other |-> s.other]
         /\ s.val \in Held(property) /\ s.other \in Others /\ s # NoSection
         /\ subject.default # Null => s.val # Null
  BY DEF Sections, property, Others, NoSection, NoConfig

LEMMA SectionMade ==
  ASSUME NEW v \in Held(property), NEW o \in Others, subject.default # Null => v # Null
  PROVE  [val |-> v, other |-> o] \in Sections
  BY DEF Sections, property

LEMMA StateParts ==
  ASSUME NEW obj \in Sections, NEW m
  PROVE  LET s == StateOf(obj, m)
         IN /\ s.val = readStmt(field, Answer(obj), m)
            /\ s.other = obj.other /\ s.etag = ETag(obj) /\ s.old = FALSE
            /\ s # NoState
            /\ field.kind # "writeonly" => s.val = readStmt(field, obj.val, m)
            /\ field.kind = "writeonly" => s.val = m
  BY SectionParts DEF StateOf, NoState, Others, Answer, readStmt

LEMMA RefreshTwice ==
  ASSUME subject \in Subjects, NEW obj \in Sections, NEW m
  PROVE  StateOf(obj, StateOf(obj, m).val) = StateOf(obj, m)
  BY ReadTwice, StateParts DEF StateOf

\* An entity tag that matches makes the state one of the present section.
LEMMA MatchingIsRead ==
  ASSUME IInv, state # NoState, ~ state.old, section # NoSection, ETagMatches
  PROVE  RefreshedAlready
<1>1. section \in Sections
  BY DEF IInv, TypeOK, Missing
<1>2. PICK obj \in Sections : state = StateOf(obj, state.val)
  BY DEF IInv, StateIsRead
<1>3. ETag(obj) = ETag(section)
  BY <1>2 DEF ETagMatches, StateOf
<1>4. CASE field.kind # "writeonly"
  BY <1>1, <1>2, <1>3, <1>4 DEF ETag, RefreshedAlready
<1>5. CASE field.kind = "writeonly"
  <2>1. \A o \in Sections : ETag(o).other = o.other
    BY SectionParts DEF ETag
  <2>2. obj.other = section.other /\ Answer(obj) = Answer(section)
    BY <1>1, <1>3, <1>5, <2>1 DEF Answer
  <2> QED
    BY <1>1, <1>2, <1>3, <2>2 DEF StateOf, RefreshedAlready
<1> QED
  BY <1>4, <1>5

LEMMA ConfigParts ==
  ASSUME subject \in Subjects, config \in Configs
  PROVE  /\ config # NoConfig /\ config.other \in Others
         /\ config.val \in Settable(field) \cup {Null}
         /\ IsView => config.val = Null
         /\ class = "required" => config.val \in Settable(field)
  BY ClassOf DEF Configs, Others, NoConfig

\* What an apply plans for the attribute.
LEMMA PlannedIs ==
  ASSUME TypeOK, config \in Configs, ~ state.old
  PROVE  /\ IsView => planned = Unknown
         /\ ~ IsView =>
              \/ planned \in Settable(field)
              \/ /\ planned = Null /\ config.val = Null
                 /\ class = "optional" \/ (class = "sticky" /\ state # NoState)
              \/ planned = Unknown /\ class = "sticky" /\ config.val = Null /\ state = NoState
         /\ config.val # Null => planned = config.val
         /\ class \in {"required", "optional"} => planned = config.val
         /\ class = "sticky" /\ config.val = Null /\ state # NoState => planned = state.val
<1>1. state.val \in Settable(field) \cup {Null} /\ subject \in Subjects
  BY DEF TypeOK
<1> QED
  BY <1>1, ConfigParts, ClassOf DEF planned

-----------------------------------------------------------------------------
(* The requests. *)

\* What makes a write end well, whatever class the attribute has.
EndsWell(sent, result) ==
  /\ ~ Refuses(sent)
  /\ ~ IsView =>
       /\ result \in Held(property)
       /\ subject.default # Null => result # Null
       /\ planned # Unknown /\ field.kind # "writeonly" =>
            readStmt(field, result, planned) = planned
       /\ config.val # Null /\ ~ (field.kind = "writeonly" /\ subject.handlers = "patch") =>
            IF config.val = Empty THEN result = subject.default
            ELSE result.words = config.val.words
       /\ section # NoSection /\ config.val = Null /\ class = "sticky" =>
            result = section.val

\* What an operation starts from: nothing, the section of the state, or a singleton.
Starts == /\ TypeOK /\ config \in Configs /\ ~ state.old
          /\ section # NoSection => section \in Sections
          /\ state # NoState => RefreshedAlready

LEMMA StickyIsHeld ==
  ASSUME Starts, ~ IsView, class = "sticky", config.val = Null, state # NoState
  PROVE  /\ planned = state.val /\ field.kind # "writeonly"
         /\ section.val \in Held(property)
         /\ state.val = readStmt(field, section.val, state.val)
         /\ Kept(bodyStmt(field, planned)) = section.val
         /\ planned = Null => section.val = Null
<1>1. planned = state.val /\ subject \in Subjects /\ field.kind # "writeonly"
  BY PlannedIs, ClassOf DEF Starts, TypeOK
<1>2. section \in Sections /\ state = StateOf(section, state.val)
  BY DEF Starts, RefreshedAlready
<1>3. section.val \in Held(property) /\ state.val = readStmt(field, section.val, state.val)
  BY <1>1, <1>2, SectionParts DEF StateOf, Answer
<1> QED
  BY <1>1, <1>3, ReadHeld

LEMMA SetEndsWell ==
  ASSUME Starts, ~ IsView, planned \in Settable(field)
  PROVE  LET sent == bodyStmt(field, planned)
         IN /\ EndsWell(sent, Normalized(sent))
            /\ \A old : Merged(old, sent) = Normalized(sent)
            /\ sent \notin {Null, Absent}
<1> DEFINE sent == bodyStmt(field, planned)
<1> USE NullApart
<1>0. subject \in Subjects
  BY DEF Starts, TypeOK
<1>1. /\ planned \notin {Null, Unknown, Absent} /\ sent \notin {Null, Absent}
      /\ ~ Refuses(sent) /\ sent.words = planned.words /\ Kept(sent) \in Held(property)
      /\ sent = Empty <=> planned = Empty
      /\ sent = Empty => typeOf(property) = "array"
  BY <1>0, SentIsTaken
<1>2. sent = Empty => subject.default = Null
  BY <1>0, <1>1, DefaultOf
<1>3. Normalized(sent) = Kept(sent)
  BY <1>1, <1>2 DEF Normalized, Kept
<1>4. subject.default # Null => Kept(sent) # Null
  BY <1>1, <1>2 DEF Kept
<1>5. readStmt(field, Kept(sent), planned) = planned
  BY <1>0, SetReadsBack
<1>6. config.val # Null => IF config.val = Empty THEN Kept(sent) = subject.default
                           ELSE Kept(sent).words = config.val.words
  <2>1. config.val # Null => planned = config.val
    BY PlannedIs DEF Starts
  <2> QED
    BY <1>1, <1>2, <2>1 DEF Kept
<1>7. section # NoSection /\ config.val = Null /\ class = "sticky" => Kept(sent) = section.val
  <2>1. config.val = Null /\ class = "sticky" => state # NoState
    BY <1>1, PlannedIs DEF Starts, planned
  <2> QED
    BY <2>1, StickyIsHeld
<1>8. \A old : Merged(old, sent) = Normalized(sent)
  BY <1>1 DEF Merged
<1> QED
  BY <1>1, <1>3, <1>4, <1>5, <1>6, <1>7, <1>8 DEF EndsWell

\* An attribute that a POST or a PUT leaves out gets the default.
LEMMA OmittedEndsWell ==
  ASSUME Starts, ~ IsView, planned \notin Settable(field),
         section = NoSection \/ state # NoState
  PROVE  EndsWell(bodyStmt(field, planned), Normalized(bodyStmt(field, planned)))
<1> USE NullApart
<1>0. subject \in Subjects
  BY DEF Starts, TypeOK
<1>1. /\ planned \in {Null, Unknown} /\ config.val = Null
      /\ planned = Null => class = "optional" \/ (class = "sticky" /\ state # NoState)
      /\ planned = Unknown => class = "sticky" /\ state = NoState
  BY PlannedIs DEF Starts
<1>2. bodyStmt(field, planned) = Absent /\ Normalized(Absent) = subject.default /\ ~ Refuses(Absent)
  BY <1>0, <1>1, BodyOfNothing DEF Normalized, Refuses
<1>3. subject.default \in Held(property)
  <2>1. "required" \notin property.flags
    BY <1>0, <1>1, ClassOf
  <2> QED
    BY <1>0, <2>1, DefaultOf, HeldValue
<1>4. planned = Null => subject.default = Null
  <2>1. CASE class = "optional"
    BY <1>0, <2>1, DefaultOf
  <2>2. CASE planned = Null /\ class = "sticky" /\ state # NoState
    <3>1. section.val = Null /\ section \in Sections
      BY <1>1, <2>2, StickyIsHeld DEF Starts, RefreshedAlready
    <3> QED
      BY <3>1, SectionParts
  <2> QED
    BY <1>1, <2>1, <2>2
<1>5. planned # Unknown /\ field.kind # "writeonly" =>
        readStmt(field, subject.default, planned) = planned
  BY <1>0, <1>1, <1>3, <1>4, ReadHeld
<1>6. section # NoSection /\ class = "sticky" => subject.default = section.val
  <2> SUFFICES ASSUME section # NoSection, class = "sticky" PROVE subject.default = section.val
    OBVIOUS
  <2>1. state # NoState /\ planned = Null
    BY <1>1
  <2> QED
    BY <1>1, <1>4, <2>1, StickyIsHeld
<1> QED
  BY <1>1, <1>2, <1>3, <1>5, <1>6 DEF EndsWell

\* An attribute that a PATCH leaves out stays as it is.
LEMMA UntouchedEndsWell ==
  ASSUME Starts, ~ IsView, section \in Sections,
         \/ planned = Unknown
         \/ planned = Null /\ field.kind = "writeonly"
         \/ planned = state.val /\ state # NoState /\ (planned # Null => subject.handlers = "patch")
  PROVE  EndsWell(Absent, section.val) /\ Merged(section.val, Absent) = section.val
<1> USE NullApart
<1>0. subject \in Subjects
  BY DEF Starts, TypeOK
<1>1. section.val \in Held(property) /\ (subject.default # Null => section.val # Null)
  BY SectionParts
<1>2. ~ Refuses(Absent) /\ Merged(section.val, Absent) = section.val
  BY DEF Refuses, Merged
<1>3. planned # Unknown /\ field.kind # "writeonly" =>
        planned = state.val /\ readStmt(field, section.val, planned) = planned
  BY StateParts DEF Starts, RefreshedAlready
<1>4. ASSUME config.val # Null, ~ (field.kind = "writeonly" /\ subject.handlers = "patch")
      PROVE  IF config.val = Empty THEN section.val = subject.default
             ELSE section.val.words = config.val.words
  <2>1. planned = config.val /\ planned \in Settable(field)
    BY <1>0, <1>4, PlannedIs, ConfigParts DEF Starts
  <2>2. planned \notin {Null, Unknown}
    BY <1>0, <2>1, SentIsTaken
  <2>3. field.kind # "writeonly" /\ readStmt(field, section.val, planned) = planned
    BY <1>3, <1>4, <2>2
  <2>4. CASE planned = Empty
    <3>1. section.val = Null
      BY <1>0, <1>1, <2>3, <2>4, ReadHeld
    <3> QED
      BY <1>1, <2>1, <2>4, <3>1
  <2>5. CASE planned # Empty
    BY <1>0, <1>1, <2>1, <2>2, <2>3, <2>5, ReadHeld
  <2> QED
    BY <2>4, <2>5
<1> QED
  BY <1>1, <1>2, <1>3, <1>4 DEF EndsWell

\* A null of a merge PATCH clears an attribute, but keeps a secret.
LEMMA ClearedEndsWell ==
  ASSUME Starts, ~ IsView, planned = Null, class = "optional", section \in Sections
  PROVE  EndsWell(Null, Merged(section.val, Null))
<1> USE NullApart
<1>0. subject \in Subjects /\ config.val = Null
  BY PlannedIs DEF Starts, TypeOK
<1>1. ~ Refuses(Null)
  BY <1>0, SubjectShape DEF Refuses, IsUnion, IsPlain, property
<1>2. subject.default = Null /\ "required" \notin property.flags
  BY <1>0, DefaultOf, ClassOf
<1>3. CASE field.kind = "writeonly"
  BY <1>0, <1>1, <1>2, <1>3, SectionParts DEF Merged, EndsWell
<1>4. CASE field.kind # "writeonly"
  <2>1. Merged(section.val, Null) = Null /\ Null \in Held(property)
    BY <1>0, <1>2, <1>4, HeldValue DEF Merged, Normalized
  <2>2. readStmt(field, Null, Null) = Null
    BY <1>0, <1>4, <2>1, ReadHeld
  <2> QED
    BY <1>0, <1>1, <1>2, <2>1, <2>2 DEF EndsWell
<1> QED
  BY <1>3, <1>4
-----------------------------------------------------------------------------
(* The steps. *)

LEMMA SubjectKept ==
  ASSUME subject' = subject
  PROVE  /\ Sections' = Sections /\ Missing' = Missing /\ Configs' = Configs
         /\ field' = field /\ class' = class
         /\ \A obj, m : [val |-> readStmt(field, Answer(obj), m), other |-> obj.other,
                         etag |-> ETag(obj), old |-> FALSE] = StateOf(obj, m)'
  BY DEF Sections, Missing, Configs, field, class, singleton, Answer, ETag, StateOf

\* A step that leaves in the state what a refresh makes of a section, and ends no
\* operation or ends it as it should.
LEMMA ReadStep ==
  ASSUME IInv, subject' = subject, config' \in Configs \cup {NoConfig},
         section' \in Sections \cup Missing, upsets' \in 0 .. MaxUpsets,
         NEW s, state' = s,
         \/ s = NoState
         \/ \E obj \in Sections : s = StateOf(obj, s.val) /\ s.val \in Settable(field) \cup {Null},
         verdict' \in {"none", "missing", "stale", "conflict"}
  PROVE  IInv'
<1>1. s.old = FALSE /\ s.val \in Settable(field) \cup {Null}
  BY DEF NoState, StateOf
<1>2. TypeOK'
  BY <1>1, SubjectKept DEF IInv, TypeOK, Verdicts
<1>3. StateIsRead'
  BY <1>1, SubjectKept DEF StateIsRead, StateOf
<1> QED
  BY <1>1, <1>2, <1>3 DEF IInv, OldIsSaved, SettledWhenOk, UpgradedIsRead, ResultFitsPlan,
                          NeverRefused, AppliedIsStored, UpgradeKeeps

LEMMA FailStep ==
  ASSUME IInv, ~ state.old, NEW why \in {"missing", "stale", "conflict"}, Fail(why)
  PROVE  IInv'
<1>1. \/ state = NoState
      \/ \E obj \in Sections : state = StateOf(obj, state.val)
  BY DEF IInv, StateIsRead
<1>2. state.val \in Settable(field) \cup {Null}
  BY DEF IInv, TypeOK
<1> QED
  BY <1>1, <1>2, ReadStep DEF Fail, End, IInv, TypeOK

\* What a write that ends well leaves behind.
LEMMA WriteStep ==
  ASSUME IInv, Starts, NEW sent, NEW result, Write(sent, result), EndsWell(sent, result)
  PROVE  /\ IInv'
         /\ section # NoSection /\ config.val = Null /\ class = "sticky" =>
              section'.val = section.val
<1>0. subject \in Subjects /\ config \in Configs /\ ~ state.old
  BY DEF Starts, TypeOK
<1>1. PICK obj \in Written(result, config.other) : Commit(obj)
  BY DEF Write, EndsWell
<1>2. /\ obj \in Sections /\ obj.other = config.other
      /\ ~ IsView => obj.val = result
  <2>1. config.other \in Others
    BY <1>0, ConfigParts
  <2>2. CASE IsView
    BY <1>0, <2>2, ClassOf DEF Written
  <2>3. CASE ~ IsView
    <3>1. obj = [val |-> result, other |-> config.other]
      BY <1>0, <2>3, ClassOf DEF Written
    <3>2. obj \in Sections
      BY <2>1, <2>3, <3>1, SectionMade DEF EndsWell
    <3> QED
      BY <3>1, <3>2
  <2> QED
    BY <2>2, <2>3
<1> DEFINE s == StateOf(obj, planned)
<1>3. section' = obj /\ state' = s /\ subject' = subject /\ config' = config /\ upsets' = upsets
  BY <1>1 DEF Commit, End
<1>4. /\ s.val = readStmt(field, Answer(obj), planned) /\ s.other = config.other
      /\ s.old = FALSE /\ s # NoState
      /\ field.kind # "writeonly" => s.val = readStmt(field, obj.val, planned)
      /\ field.kind = "writeonly" => s.val = planned
      /\ s = StateOf(obj, s.val)
  BY <1>0, <1>2, StateParts, RefreshTwice
<1>5. planned \in Settable(field) \cup {Null, Unknown}
  BY PlannedIs DEF Starts
<1>6. s.val \in Settable(field) \cup {Null}
  <2>1. CASE field.kind = "writeonly"
    <3>1. class = "optional"
      BY <1>0, <2>1, ClassOf
    <3> QED
      BY <1>0, <1>4, <2>1, <3>1, PlannedIs, ConfigParts DEF Starts
  <2>2. CASE field.kind # "writeonly"
    BY <1>0, <1>2, <1>4, <1>5, <2>2, ReadHeld, SectionParts
  <2> QED
    BY <2>1, <2>2
<1>7. planned \in {Unknown, s.val}
  BY <1>0, <1>2, <1>4, PlannedIs DEF Starts, EndsWell
<1>8. verdict' = "ok"
  BY <1>1, <1>7 DEF Commit, End
<1>9. TypeOK'
  BY <1>2, <1>3, <1>4, <1>6, <1>8, SubjectKept DEF IInv, TypeOK, Verdicts
<1>10. StateIsRead' /\ RefreshedAlready'
  BY <1>2, <1>3, <1>4, SubjectKept DEF StateIsRead, RefreshedAlready, StateOf
<1>11. ~ Changes'
  <2>1. \/ config.val = s.val
        \/ class = "view"
        \/ class = "sticky" /\ config.val = Null
    <3>1. config.val # Unknown
      BY <1>0, ConfigParts, SentIsTaken, NullApart
    <3>2. config.val # Null \/ class \in {"required", "optional"} => planned = config.val
      BY PlannedIs DEF Starts
    <3> QED
      BY <1>0, <1>7, <3>1, <3>2, ClassOf
  <2> QED
    BY <1>3, <1>4, <2>1, SubjectKept DEF Changes
<1>12. AppliedIsStored'
  <2>1. config.val # Null => ~ IsView
    BY <1>0, ConfigParts
  <2> QED
    BY <1>2, <1>3, <2>1 DEF EndsWell, AppliedIsStored, field
<1>13. section # NoSection /\ config.val = Null /\ class = "sticky" => section'.val = section.val
  BY <1>0, <1>2, <1>3, ClassOf DEF EndsWell
<1> QED
  BY <1>3, <1>4, <1>8, <1>9, <1>10, <1>11, <1>12, <1>13
     DEF IInv, OldIsSaved, SettledWhenOk, UpgradedIsRead, ResultFitsPlan, NeverRefused, UpgradeKeeps

LEMMA CreateStep ==
  ASSUME IInv, Create
  PROVE  /\ IInv'
         /\ section # NoSection /\ config.val = Null /\ class = "sticky" =>
              section' = section \/ section'.val = section.val
<1> DEFINE sent == bodyStmt(field, planned)
<1>1. Starts /\ subject \in Subjects /\ state = NoState
  BY DEF IInv, TypeOK, Create, Apply, Starts, Missing
<1>2. CASE singleton /\ Write(sent, Merged(section.val, sent))
  <2>1. section \in Sections
    BY <1>2 DEF IInv, TypeOK, Missing
  <2>2. EndsWell(sent, Merged(section.val, sent))
    <3>1. CASE IsView
      BY <1>1, <3>1, BodyOfNothing DEF EndsWell, Refuses
    <3>2. CASE ~ IsView /\ planned \in Settable(field)
      BY <1>1, <3>2, SetEndsWell
    <3>3. CASE ~ IsView /\ planned \notin Settable(field)
      <4>1. planned \in {Null, Unknown} /\ (planned = Null => class = "optional")
        BY <1>1, <3>3, PlannedIs, NullApart DEF Starts
      <4>2. sent = Absent /\ (planned = Null => field.kind = "writeonly")
        BY <1>1, <1>2, <4>1, BodyOfNothing, ClassOf
      <4> QED
        BY <1>1, <2>1, <3>3, <4>1, <4>2, UntouchedEndsWell
    <3> QED
      BY <3>1, <3>2, <3>3
  <2> QED
    BY <1>1, <1>2, <2>2, WriteStep
<1>3. CASE section # NoSection /\ Fail("conflict")
  BY <1>1, <1>3, FailStep DEF Starts, Fail
<1>4. CASE section = NoSection /\ Write(sent, Normalized(sent))
  <2>1. EndsWell(sent, Normalized(sent))
    <3>1. CASE IsView
      BY <1>1, <3>1, BodyOfNothing DEF EndsWell, Refuses
    <3> QED
      BY <1>1, <1>4, <3>1, SetEndsWell, OmittedEndsWell
  <2> QED
    BY <1>1, <1>4, <2>1, WriteStep
<1> QED
  BY <1>2, <1>3, <1>4 DEF Create, createBody

LEMMA PatchEndsWell ==
  ASSUME Starts, state # NoState, subject.handlers = "patch"
  PROVE  LET sent == mergeDelta(bodyStmt(field, planned), bodyStmt(field, state.val))
         IN EndsWell(sent, Merged(section.val, sent))
<1> DEFINE body == bodyStmt(field, planned)
           prior == bodyStmt(field, state.val)
           sent == mergeDelta(body, prior)
<1>1. subject \in Subjects /\ section \in Sections /\ state.val \in Settable(field) \cup {Null}
  BY DEF Starts, TypeOK, RefreshedAlready
<1>2. CASE IsView
  <2>1. sent = Absent
    BY <1>1, <1>2, BodyOfNothing DEF mergeDelta
  <2> QED
    BY <1>2, <2>1 DEF EndsWell, Refuses
<1>3. CASE ~ IsView /\ body = prior
  <2>1. planned \in Settable(field) \cup {Null}
    BY <1>3, PlannedIs DEF Starts
  <2>2. planned = state.val
    BY <1>1, <1>3, <2>1, BodyTellsApart
  <2>3. sent = Absent
    BY <1>3 DEF mergeDelta
  <2> QED
    BY <1>1, <1>3, <2>2, <2>3, UntouchedEndsWell
<1>4. CASE ~ IsView /\ body # prior /\ planned \in Settable(field)
  <2>1. sent = body
    BY <1>4, SetEndsWell DEF mergeDelta
  <2> QED
    BY <1>4, <2>1, SetEndsWell
<1>5. CASE ~ IsView /\ body # prior /\ planned \notin Settable(field)
  <2>1. planned = Null /\ class \in {"optional", "sticky"} /\ config.val = Null
    BY <1>5, PlannedIs DEF Starts
  <2>2. class # "sticky"
    BY <1>5, <2>1, PlannedIs DEF Starts
  <2>3. sent = Null
    BY <1>1, <1>5, <2>1, BodyOfNothing DEF mergeDelta
  <2> QED
    BY <1>1, <1>5, <2>1, <2>2, <2>3, ClearedEndsWell
<1> QED
  BY <1>2, <1>3, <1>4, <1>5

LEMMA UpdateStep ==
  ASSUME IInv, Update
  PROVE  /\ IInv'
         /\ section # NoSection /\ config.val = Null /\ class = "sticky" =>
              section' = section \/ section'.val = section.val
<1> DEFINE sent == bodyStmt(field, planned)
<1>1. subject \in Subjects /\ state # NoState /\ ~ state.old /\ config \in Configs
  BY DEF IInv, TypeOK, Update, Apply
<1>2. CASE Fail("missing") \/ Fail("stale")
  BY <1>1, <1>2, FailStep DEF Fail
<1>3. CASE section # NoSection /\ ETagMatches
  <2>1. RefreshedAlready /\ section \in Sections
    BY <1>1, <1>3, MatchingIsRead DEF RefreshedAlready
  <2>2. Starts
    BY <1>1, <2>1 DEF Starts, IInv
  <2>3. CASE subject.handlers = "put" /\ Write(sent, Normalized(sent))
    <3>1. EndsWell(sent, Normalized(sent))
      <4>1. CASE IsView
        BY <1>1, <4>1, BodyOfNothing DEF EndsWell, Refuses
      <4> QED
        BY <1>1, <2>2, <4>1, SetEndsWell, OmittedEndsWell
    <3> QED
      BY <2>2, <2>3, <3>1, WriteStep
  <2>4. CASE LET delta == mergeDelta(sent, bodyStmt(field, state.val))
             IN subject.handlers = "patch" /\ Write(delta, Merged(section.val, delta))
    BY <1>1, <2>2, <2>4, PatchEndsWell, WriteStep
  <2>5. CASE singleton /\ Write(sent, Merged(section.val, sent))
    <3>1. EndsWell(sent, Merged(section.val, sent))
      <4>1. CASE IsView
        BY <1>1, <4>1, BodyOfNothing DEF EndsWell, Refuses
      <4>2. CASE ~ IsView /\ planned \in Settable(field)
        BY <2>2, <4>2, SetEndsWell
      <4>3. CASE ~ IsView /\ planned \notin Settable(field)
        <5>1. /\ planned = Null
              /\ class = "optional" \/ (class = "sticky" /\ planned = state.val)
          BY <1>1, <2>2, <4>3, PlannedIs DEF Starts
        <5>2. sent = Absent /\ (class = "optional" => field.kind = "writeonly")
          BY <1>1, <2>5, <5>1, BodyOfNothing, ClassOf
        <5> QED
          BY <1>1, <2>1, <2>2, <4>3, <5>1, <5>2, UntouchedEndsWell
      <4> QED
        BY <4>1, <4>2, <4>3
    <3> QED
      BY <2>2, <2>5, <3>1, WriteStep
  <2> QED
    BY <1>3, <2>3, <2>4, <2>5 DEF Update, crudCollectionPut, crudCollectionPatch, crudSingleton,
                                  Fail
<1> QED
  BY <1>2, <1>3 DEF Update
LEMMA Unchanged ==
  ASSUME IInv, UNCHANGED vars
  PROVE  IInv'
BY SubjectKept DEF vars, IInv, TypeOK, StateIsRead, OldIsSaved, SettledWhenOk, UpgradedIsRead,
   RefreshedAlready, Changes, ResultFitsPlan, NeverRefused, AppliedIsStored, UpgradeKeeps,
   StateOf, Answer, ETag, field, class

LEMMA ReadIsTyped ==
  ASSUME subject \in Subjects, NEW obj \in Sections, NEW m \in Settable(field) \cup {Null}
  PROVE  LET s == StateOf(obj, m)
         IN s = StateOf(obj, s.val) /\ s.val \in Settable(field) \cup {Null} /\ s.old = FALSE
<1>1. obj.val \in Held(property)
  BY SectionParts
<1>2. StateOf(obj, m).val \in Settable(field) \cup {Null}
  <2>1. field.kind # "writeonly" => readStmt(field, obj.val, m) \in Settable(field) \cup {Null}
    BY <1>1, ReadHeld
  <2> QED
    BY <2>1, StateParts
<1> QED
  BY <1>2, RefreshTwice, StateParts

LEMMA DeleteStep ==
  ASSUME IInv, Delete
  PROVE  /\ IInv'
         /\ section' # NoSection => section' = section
<1>1. CASE Fail("stale")
  BY <1>1, FailStep DEF Delete, Fail
<1>2. CASE /\ singleton \/ section = NoSection \/ ETagMatches
           /\ section' = IF singleton THEN section ELSE NoSection
           /\ state' = NoState
           /\ End("ok")
  <2>1. subject' = subject /\ config' = NoConfig /\ upsets' = upsets /\ verdict' = "ok"
    BY <1>2 DEF End, Delete
  <2>2. section' \in Sections \cup Missing
    BY <1>2 DEF IInv, TypeOK, Missing
  <2>3. TypeOK'
    BY <1>2, <2>1, <2>2, SubjectKept DEF IInv, TypeOK, NoState, Verdicts
  <2>4. config'.val = Null
    BY <2>1 DEF NoConfig
  <2> QED
    BY <1>2, <2>1, <2>3, <2>4 DEF IInv, StateIsRead, OldIsSaved, SettledWhenOk, UpgradedIsRead,
       ResultFitsPlan, NeverRefused, AppliedIsStored, UpgradeKeeps, NoState
<1> QED
  BY <1>1, <1>2 DEF Delete

LEMMA RefreshStep ==
  ASSUME IInv, Refresh
  PROVE  IInv'
<1>1. /\ ~ state.old /\ state # NoState /\ subject \in Subjects
      /\ UNCHANGED <<subject, config, section, verdict, upsets>>
  BY DEF Refresh, IInv, TypeOK
<1>2. CASE section = NoSection
  <2>1. state' = NoState /\ ~ RefreshedAlready
    BY <1>2, SectionParts DEF Refresh, RefreshedAlready
  <2>2. verdict = "ok" => config = NoConfig
    BY <2>1 DEF IInv, SettledWhenOk
  <2>3. verdict # "upgraded"
    BY <2>1 DEF IInv, UpgradedIsRead
  <2>4. TypeOK'
    BY <1>1, <2>1, SubjectKept DEF IInv, TypeOK, NoState
  <2>5. AppliedIsStored'
    BY <1>1, <2>2 DEF AppliedIsStored, NoConfig
  <2> QED
    BY <1>1, <2>1, <2>2, <2>3, <2>4, <2>5 DEF IInv, StateIsRead, OldIsSaved, SettledWhenOk,
       UpgradedIsRead, ResultFitsPlan, NeverRefused, UpgradeKeeps, NoState
<1>3. CASE section # NoSection /\ RefreshedAlready
  <2>1. UNCHANGED vars
    BY <1>1, <1>3 DEF Refresh, RefreshedAlready, vars
  <2> QED
    BY <2>1, Unchanged
<1>4. CASE section # NoSection /\ ~ RefreshedAlready
  <2> DEFINE s == StateOf(section, state.val)
  <2>1. section \in Sections /\ state' = s
    BY <1>4 DEF Refresh, IInv, TypeOK, Missing
  <2>2. s = StateOf(section, s.val) /\ s.val \in Settable(field) \cup {Null} /\ s.old = FALSE
    <3>1. state.val \in Settable(field) \cup {Null}
      BY <1>1 DEF IInv, TypeOK
    <3> QED
      BY <1>1, <2>1, <3>1, ReadIsTyped
  <2>3. verdict # "upgraded" /\ (verdict = "ok" => config = NoConfig)
    BY <1>4 DEF IInv, SettledWhenOk, UpgradedIsRead
  <2>4. TypeOK'
    BY <1>1, <2>1, <2>2, SubjectKept DEF IInv, TypeOK
  <2>5. StateIsRead'
    BY <1>1, <2>1, <2>2, SubjectKept DEF StateIsRead, StateOf
  <2>6. AppliedIsStored'
    BY <1>1, <2>3 DEF AppliedIsStored, NoConfig
  <2> QED
    BY <1>1, <2>1, <2>2, <2>3, <2>4, <2>5, <2>6 DEF IInv, OldIsSaved, SettledWhenOk,
       UpgradedIsRead, ResultFitsPlan, NeverRefused, UpgradeKeeps
<1> QED
  BY <1>2, <1>3, <1>4

LEMMA ImportStep ==
  ASSUME IInv, Import
  PROVE  IInv'
<1> DEFINE s == StateOf(section, Null)
<1>1. section \in Sections /\ state' = s /\ subject \in Subjects
  BY DEF Import, IInv, TypeOK, Missing
<1>2. s = StateOf(section, s.val) /\ s.val \in Settable(field) \cup {Null}
  BY <1>1, ReadIsTyped
<1> QED
  BY <1>1, <1>2, ReadStep DEF Import, IInv, TypeOK

LEMMA UpsetStep ==
  ASSUME IInv, Edit \/ Reconfigure
  PROVE  IInv'
<1>1. \/ state = NoState
      \/ \E obj \in Sections : state = StateOf(obj, state.val)
  BY DEF Edit, Reconfigure, Upset, IInv, StateIsRead
<1>2. state.val \in Settable(field) \cup {Null}
  BY DEF Edit, Reconfigure, Upset, IInv, TypeOK
<1>3. upsets' \in 0 .. MaxUpsets
  BY MaxUpsetsAssumption DEF Edit, Reconfigure, Upset, IInv, TypeOK
<1>4. section' \in Sections \cup Missing /\ config' \in Configs \cup {NoConfig}
  BY DEF Edit, Reconfigure, IInv, TypeOK
<1> QED
  BY <1>1, <1>2, <1>3, <1>4, ReadStep DEF Edit, Reconfigure, Upset

\* The conversions of state_upgrades.go undo the older shapes of a state.
LEMMA UpgradeOf ==
  ASSUME subject \in Subjects, NEW v \in Held(property), subject.upgrade # "none",
         NEW old \in Saved(subject.upgrade, v)
  PROVE  LET raw == normalize(subject.upgrade, old)
         IN (IF subject.upgrade = "carried" THEN strVal(raw) ELSE readStmt(field, raw, Null))
              = IF field.kind = "writeonly" THEN v ELSE readStmt(field, v, Null)
<1> DEFINE u == subject.upgrade
           raw == normalize(u, old)
           t == typeOf(property)
<1> USE NullApart
<1>1. PICK shape \in Shapes : shape.upgrade = u /\ shape.field = field
  BY SubjectParts DEF Conversions
<1>2. /\ u \in {"plain", "firstOfList", "wordsOfString", "prefixes", "carried"}
      /\ field.kind = "writeonly" <=> u = "carried"
      /\ u = "carried" => field = Field("writeonly", "types.String")
      /\ u = "firstOfList" => field.goType = "types.String"
      /\ u \in {"wordsOfString", "prefixes"} => field.goType = "types.List"
  BY <1>1, UpgradeAssumption DEF Field
<1>3. CASE u = "plain"
  BY <1>2, <1>3 DEF normalize, Saved
<1>4. CASE u = "carried"
  <2>1. raw = v /\ ~ IsUnion /\ t = "string"
    <3>1. IsPlain /\ goType(property) = "types.String"
      BY <1>2, <1>4, SubjectShape DEF IsView, IsUnion, IsPlain, Field
    <3> QED
      BY <1>4, <3>1, SchemaType DEF normalize, Saved, IsUnion, IsPlain, goType, Types
  <2>2. v = Null \/ (v \in Scalars["string"] /\ v.json = "string" /\ v \notin {Null, Absent})
    BY <2>1, HeldValue, ScalarValue DEF Types
  <2>3. strVal(v) = v
    BY <2>2 DEF strVal, IsString, Null, Absent, Value
  <2> QED
    BY <1>2, <1>4, <2>1, <2>3
<1>5. CASE u = "firstOfList"
  <2>1. field.kind # "createonly" /\ field.kind # "writeonly" /\ field.kind # "computedbool"
    BY <1>2, <1>5, SubjectShape DEF IsView, IsUnion, IsPlain, Field, kindOf
  <2>2. \A w : readStmt(field, w, Null) = strVal(w)
    BY <1>2, <1>5, <2>1 DEF readStmt
  <2>3. t # "array"
    BY <1>2, <1>5, SubjectShape, SchemaType DEF IsView, IsUnion, IsPlain, Field, goType
  <2>4. \/ v = Null
        \/ v = Value(v.json, <<v.words[1]>>) /\ v.json \in Types \ {"array"}
    BY <2>3, HeldValue, ScalarValue, SchemaType DEF Types
  <2>5. old = v \/ old = IF v = Null THEN Empty ELSE Value("array", v.words)
    BY <1>5 DEF Saved
  <2>6. strVal(firstOfList(old)) = strVal(v)
    <3>1. CASE v = Null
      BY <2>5, <3>1 DEF firstOfList, strVal, IsString, Null, Empty, Absent, Value
    <3>2. CASE v # Null
      <4>1. /\ v = Value(v.json, <<v.words[1]>>) /\ v.json \in {"string", "integer", "boolean"}
            /\ v.words = <<v.words[1]>>
        BY <2>4, <3>2 DEF Types, Value
      <4>2. v.words # <<>> /\ v.words[1] = <<v.words[1]>>[1]
        BY <4>1
      <4>3. firstOfList(old) \in {v, Value("string", v.words)}
        BY <2>5, <3>2, <4>1, <4>2 DEF firstOfList, Value
      <4>4. strVal(v) = Value("string", v.words)
        BY <4>1 DEF strVal, IsString, Null, Absent, Value
      <4>5. strVal(Value("string", v.words)) = Value("string", v.words)
        BY DEF strVal, IsString, Null, Absent, Value
      <4> QED
        BY <4>3, <4>4, <4>5
    <3> QED
      BY <3>1, <3>2
  <2> QED
    BY <1>2, <1>5, <2>2, <2>6 DEF normalize
<1>6. CASE u \in {"wordsOfString", "prefixes"}
  <2>1. ~ IsUnion /\ ~ IsView /\ t = "array" /\ field.kind \in {"required", "optclear", "optcomp"}
    BY <1>2, <1>6, SubjectShape, SchemaType DEF IsView, IsUnion, IsPlain, Field, goType, kindOf, Types
  <2>2. \A w : readStmt(field, w, Null) = listVal(w)
    BY <1>2, <1>6, <2>1 DEF readStmt, listValKeepEmpty
  <2>3. \/ v = Null
        \/ v = Value("array", v.words) /\ v.words # <<>> /\ v.json = "array"
    BY <2>1, HeldValue, ListValue DEF Empty
  <2>4. \/ old = v
        \/ v # Null /\ old = Value("string", v.words)
        \/ v # Null /\ u = "prefixes" /\ old = Bracketed(v.words)
        \/ v = Null /\ u = "prefixes" /\ old = Bracketed(<<>>)
    BY <1>6 DEF Saved
  <2>5. raw = IF u = "prefixes" THEN wordsOfString(trimBrackets(old)) ELSE wordsOfString(old)
    BY <1>6 DEF normalize
  <2>6. raw = v \/ (v = Null /\ raw = Absent)
    BY <2>3, <2>4, <2>5 DEF wordsOfString, trimBrackets, IsString, Fields, Bracketed, Value, Null
  <2>7. listVal(raw) = listVal(v)
    BY <2>6 DEF listVal, Null, Absent, Value
  <2> QED
    BY <1>2, <1>6, <2>2, <2>7
<1> QED
  BY <1>2, <1>3, <1>4, <1>5, <1>6

LEMMA UpgradeStep ==
  ASSUME IInv, Upgrade
  PROVE  IInv'
<1> DEFINE raw == normalize(subject.upgrade, state.val)
           val == IF subject.upgrade = "carried" THEN strVal(raw) ELSE readStmt(field, raw, Null)
           goal == IF field.kind = "writeonly" THEN section.val
                   ELSE readStmt(field, Answer(section), Null)
           s == [val |-> val, other |-> section.other, etag |-> ETag(section), old |-> FALSE]
<1>1. /\ subject \in Subjects /\ section \in Sections
      /\ state = [val |-> state.val, other |-> section.other, etag |-> ETag(section), old |-> TRUE]
      /\ state.val \in Saved(subject.upgrade, section.val) /\ subject.upgrade # "none"
  BY DEF Upgrade, IInv, TypeOK, OldIsSaved
<1>2. /\ state' = [val |-> val, other |-> state.other, etag |-> state.etag, old |-> FALSE]
      /\ verdict' = "upgraded" /\ UNCHANGED <<subject, config, section, upsets>>
  BY DEF Upgrade
<1>3. state' = s
  <2>1. state.other = section.other /\ state.etag = ETag(section)
    BY <1>1
  <2> HIDE DEF val
  <2> QED
    BY <1>2, <2>1
<1>4. val = goal
  BY <1>1, UpgradeOf, SectionParts DEF Answer
<1>5. s = StateOf(section, IF field.kind = "writeonly" THEN section.val ELSE Null)
  BY <1>4 DEF StateOf, readStmt
<1>6. s = StateOf(section, s.val) /\ s.val = val
  BY <1>1, <1>5, RefreshTwice
<1>7. val \in Settable(field) \cup {Null}
  <2>1. CASE field.kind = "writeonly"
    <3>1. ~ IsUnion /\ ~ IsView
      BY <2>1 DEF IsUnion, IsView, Field
    <3>2. section.val = Null \/ section.val \in Settable(field)
      BY <1>1, <3>1, SectionParts, HeldValue, SettableValue
    <3> QED
      BY <1>4, <2>1, <3>2
  <2>2. CASE field.kind # "writeonly"
    BY <1>1, <1>4, <2>2, ReadHeld, SectionParts DEF Answer
  <2> QED
    BY <2>1, <2>2
<1>8. TypeOK'
  BY <1>1, <1>2, <1>3, <1>7, SubjectKept DEF IInv, TypeOK, Verdicts
<1>9. StateIsRead' /\ RefreshedAlready'
  <2>1. PICK obj \in Sections : section' = obj /\ s = StateOf(obj, s.val)
    BY <1>1, <1>2, <1>6
  <2> HIDE DEF s
  <2> QED
    BY <1>2, <1>3, <2>1, SubjectKept DEF StateIsRead, RefreshedAlready, StateOf
<1>10. UpgradeKeeps'
  BY <1>2, <1>3, <1>4 DEF UpgradeKeeps, Answer, field
<1> QED
  BY <1>2, <1>3, <1>8, <1>9, <1>10 DEF IInv, OldIsSaved, SettledWhenOk, UpgradedIsRead,
     ResultFitsPlan, NeverRefused, AppliedIsStored
-----------------------------------------------------------------------------
(* The theorems. *)

LEMMA InitInv == Init => IInv
<1> SUFFICES ASSUME Init PROVE IInv
  OBVIOUS
<1>1. /\ subject \in Subjects /\ section \in Sections \cup Missing
      /\ config \in Configs \cup {NoConfig} /\ verdict = "none" /\ upsets = 0
  BY DEF Init
<1>2. \/ state = NoState
      \/ /\ subject.upgrade # "none" /\ section # NoSection
         /\ state \in [val : Saved(subject.upgrade, section.val), other : {section.other},
                      etag : {ETag(section)}, old : {TRUE}]
  BY DEF Init
<1>3. CASE state = NoState
  <2>1. TypeOK
    BY <1>1, <1>3, MaxUpsetsAssumption DEF TypeOK, NoState, Verdicts
  <2> QED
    BY <1>1, <1>3, <2>1 DEF IInv, StateIsRead, OldIsSaved, SettledWhenOk, UpgradedIsRead,
       ResultFitsPlan, NeverRefused, AppliedIsStored, UpgradeKeeps, NoState
<1>4. CASE /\ subject.upgrade # "none" /\ section # NoSection
           /\ state \in [val : Saved(subject.upgrade, section.val), other : {section.other},
                        etag : {ETag(section)}, old : {TRUE}]
  <2>1. /\ state = [val |-> state.val, other |-> section.other, etag |-> ETag(section), old |-> TRUE]
        /\ state.val \in Saved(subject.upgrade, section.val)
    BY <1>4
  <2>2. section \in Sections
    BY <1>1, <1>4 DEF Missing
  <2>3. state.old
    BY <2>1
  <2>4. TypeOK
    BY <1>1, <2>1, <2>3, MaxUpsetsAssumption DEF TypeOK, Verdicts
  <2> QED
    BY <1>1, <1>4, <2>1, <2>2, <2>3, <2>4 DEF IInv, StateIsRead, OldIsSaved, SettledWhenOk,
       UpgradedIsRead, ResultFitsPlan, NeverRefused, AppliedIsStored, UpgradeKeeps
<1> QED
  BY <1>2, <1>3, <1>4

LEMMA Inductive == IInv /\ [Next]_vars => IInv'
BY UpgradeStep, UpsetStep, RefreshStep, ImportStep, CreateStep, UpdateStep, DeleteStep, Unchanged
   DEF Next

LEMMA AlwaysIInv == Spec => []IInv
BY InitInv, Inductive, PTL DEF Spec

\* The state of an attribute has its own Go type after any run and any upgrade, and
\* nothing that was only planned as unknown.
THEOREM GeneratedTypeCorrect == Spec => []TypeOK
<1>1. IInv => TypeOK
  BY DEF IInv
<1> QED
  BY <1>1, AlwaysIInv, PTL

\* No apply of a generated resource ends in "Provider produced inconsistent result
\* after apply": for every schema that the generator accepts, every handler and every
\* value, what is sent comes back as planned, whatever others do in between.
THEOREM GeneratedResultsFitPlans == Spec => []ResultFitsPlan
<1>1. IInv => ResultFitsPlan
  BY DEF IInv
<1> QED
  BY <1>1, AlwaysIInv, PTL

\* uapi refuses no request for the type of a value, whatever the schema.
THEOREM GeneratedIsNeverRefused == Spec => []NeverRefused
<1>1. IInv => NeverRefused
  BY DEF IInv
<1> QED
  BY <1>1, AlwaysIInv, PTL

\* After an upgrade, what the configuration has in effect is what the state says.
LEMMA UpgradedIsSettled ==
  ASSUME IInv, verdict = "upgraded", InEffect
  PROVE  state # NoState /\ ~ Changes
<1>1. /\ subject \in Subjects /\ config \in Configs /\ section \in Sections
      /\ state = StateOf(section, state.val)
  BY DEF IInv, TypeOK, UpgradedIsRead, RefreshedAlready, InEffect
<1>2. state # NoState /\ ~ state.old /\ state.other = config.other
  <2> DEFINE read == StateOf(section, state.val)
  <2>1. read # NoState /\ read.old = FALSE /\ read.other = section.other
    BY <1>1, StateParts
  <2> HIDE DEF read
  <2>2. state = read
    BY <1>1 DEF read
  <2> QED
    BY <2>1, <2>2 DEF InEffect
<1>3. section.val \in Held(property)
  BY <1>1, SectionParts
<1>4. CASE IsView
  BY <1>1, <1>2, <1>4, ClassOf DEF Changes
<1>5. CASE ~ IsView /\ field.kind = "writeonly"
  <2>1. state.val = section.val /\ state.val \in Settable(field) \cup {Null}
    BY <1>2, <1>5 DEF IInv, UpgradeKeeps, TypeOK
  <2>2. class = "optional" /\ subject.default = Null
    BY <1>1, <1>5, ClassOf, DefaultOf
  <2>3. config.val = state.val
    <3>1. CASE config.val = Null
      BY <2>1, <2>2, <3>1 DEF InEffect
    <3>2. CASE config.val # Null
      <4>1. config.val \in Settable(field) /\ config.val # Empty
            /\ config.val.words = state.val.words
        BY <1>1, <2>1, <3>2, ConfigParts DEF InEffect
      <4>2. state.val # Null
        BY <1>1, <1>5, <4>1, NoWordsIsEmpty
      <4> QED
        BY <1>1, <1>5, <2>1, <4>1, <4>2, WordsTellApart
    <3> QED
      BY <3>1, <3>2
  <2> QED
    BY <1>2, <2>3 DEF Changes
<1>6. CASE ~ IsView /\ field.kind # "writeonly"
  <2>1. state.val = readStmt(field, section.val, Null)
    BY <1>6 DEF IInv, UpgradeKeeps, Answer
  <2>2. /\ state.val \in Settable(field) \cup {Null} /\ state.val # Empty
        /\ state.val = Null <=> section.val = Null
        /\ state.val # Null => state.val.words = section.val.words
    BY <1>1, <1>3, <1>6, <2>1, ReadHeld, NullApart
  <2>3. CASE config.val = Null
    <3>1. class = "optional" => state.val = Null
      BY <1>1, <2>2, <2>3, DefaultOf DEF InEffect
    <3>2. class # "required"
      BY <1>1, <1>6, <2>3, ConfigParts, NoWordsIsEmpty
    <3> QED
      BY <1>2, <2>3, <3>1, <3>2 DEF Changes
  <2>4. CASE config.val # Null
    <3>1. config.val \in Settable(field) /\ config.val # Empty
          /\ config.val.words = section.val.words
      BY <1>1, <2>4, ConfigParts DEF InEffect
    <3>2. state.val # Null
      BY <1>1, <1>6, <2>2, <3>1, NoWordsIsEmpty
    <3>3. config.val = state.val
      BY <1>1, <1>6, <2>2, <3>1, <3>2, WordsTellApart
    <3> QED
      BY <1>2, <3>3 DEF Changes
  <2> QED
    BY <2>3, <2>4
<1> QED
  BY <1>4, <1>5, <1>6

\* After a successful apply the plan is empty, with or without a refresh, and after
\* the upgrade of a state whose configuration is in effect too.
THEOREM GeneratedPlansSettle == Spec => []EmptyPlanAfterApply
<1>1. RefreshedAlready => state # NoState
  <2> SUFFICES ASSUME section \in Sections, state = StateOf(section, state.val)
               PROVE  state.other \in Others
    BY DEF RefreshedAlready, NoState, Others
  <2> QED
    BY SectionParts DEF StateOf
<1>2. IInv => EmptyPlanAfterApply
  BY <1>1, UpgradedIsSettled DEF IInv, SettledWhenOk, EmptyPlanAfterApply
<1> QED
  BY <1>2, AlwaysIInv, PTL

\* What was applied is on the router, a [] as no option and a number as a number.
THEOREM AppliedValuesAreStored == Spec => []AppliedIsStored
<1>1. IInv => AppliedIsStored
  BY DEF IInv
<1> QED
  BY <1>1, AlwaysIInv, PTL

\* A state of an older provider is after its upgrade what a refresh makes of its
\* section, with the secret that a refresh cannot read.
THEOREM UpgradesKeepValues == Spec => []UpgradeKeeps
<1>1. IInv => UpgradeKeeps
  BY DEF IInv
<1> QED
  BY <1>1, AlwaysIInv, PTL

\* No create of a singleton and no update changes a computed attribute that the
\* configuration does not set: what is read for it is sent back as it was.
THEOREM UntouchedAttributesSurvive == Spec => UntouchedSurvives
<1> DEFINE Spared == Wrote /\ section' # NoSection /\ section # NoSection /\ config.val = Null
                     /\ class = "sticky" => section'.val = section.val
<1>1. IInv /\ [Next]_vars => [Spared]_vars
  <2> SUFFICES ASSUME IInv, Next, Wrote, section' # NoSection, section # NoSection,
                      config.val = Null, class = "sticky"
               PROVE  section'.val = section.val
    OBVIOUS
  <2>1. section' # section /\ config' = config /\ state' # state
    BY DEF Wrote
  <2>2. CASE Create
    BY <2>1, <2>2, CreateStep
  <2>3. CASE Update
    BY <2>1, <2>3, UpdateStep
  <2>4. CASE Delete
    BY <2>1, <2>4, DeleteStep
  <2>5. CASE Upgrade \/ Edit \/ Reconfigure \/ Refresh \/ Import
    BY <2>1, <2>5 DEF Upgrade, Edit, Reconfigure, Refresh, Import
  <2> QED
    BY <2>2, <2>3, <2>4, <2>5 DEF Next
<1>2. Spec => [][Spared]_vars
  BY InitInv, Inductive, <1>1, PTL DEF Spec
<1> QED
  BY <1>2 DEF UntouchedSurvives
=============================================================================
