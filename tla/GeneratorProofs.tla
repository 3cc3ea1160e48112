--------------------------- MODULE GeneratorProofs ---------------------------
(* What the generator's rules and the conversions give for every property of  *)
(* every schema, every value and every set of numerals; and what the scope    *)
(* table of an accepted schema says, for every set of allOf entries.          *)
EXTENDS Generator, ScopeTable, FiniteSetTheorems, WellFoundedInduction, TLAPS

GoTypes == {"types.String", "types.Int64", "types.Bool", "types.List"}

\* What Terraform can hold of a Go type; null and unknown are apart.
Known(g) ==
  CASE g = "types.List"  -> {Value("array", s) : s \in Seq(STRING)}
    [] g = "types.Int64" -> {Value("integer", s) : s \in Seq(STRING)}
    [] g = "types.Bool"  -> {Value("boolean", s) : s \in Seq(STRING)}
    [] OTHER -> {Value("string", s) : s \in Seq(STRING)}

\* What uapi answers for what it was sent, of an option without a default.
Kept(w) == IF w \in {Absent, Empty} THEN Null ELSE w

\* The shape of every attribute that is generated.
LEMMA FieldShapes ==
  ASSUME NEW d, NEW p
  PROVE  LET f == buildField(d, p)
         IN \/ f = Refused \/ f = Skipped
            \/ f = Field("computedbool", "types.Bool")
            \/ f = Field("computedstring", "types.String")
            \/ f = Field("intstr", "types.String") /\ intStrUnion(p)
            \/ f = Field("createonly", "types.String")
            \/ /\ f.kind \in {"writeonly", "required", "optclear", "optcomp"}
               /\ f.goType = goType(p)
               /\ f.goType \in GoTypes
               /\ ~ intStrUnion(p)
<1>1. kindOf(p) \in {"writeonly", "required", "optclear", "optcomp"}
  BY DEF kindOf
<1>2. goType(p) \in GoTypes
  BY DEF goType, GoTypes
<1>3. intStrField(d, p) \in {Refused, Field("intstr", "types.String")}
  BY DEF intStrField
<1>4. computedField(p) \in {Refused, Field("computedbool", "types.Bool"),
                            Field("computedstring", "types.String")}
  BY DEF computedField
<1>5. Field(kindOf(p), goType(p)).kind = kindOf(p) /\ Field(kindOf(p), goType(p)).goType = goType(p)
  BY DEF Field
<1> QED
  BY <1>1, <1>2, <1>3, <1>4, <1>5 DEF buildField

\* Every value that an accepted attribute can be set to comes back as it was
\* planned: what body sends for it, kept by uapi, is read as the value itself, a
\* [] included, whatever the property's types and flags (ResultFitsPlan, for one
\* request).
THEOREM SetValuesReadBack ==
  ASSUME NEW d, NEW p, NEW v,
         resAttr(buildField(d, p)) \notin {"refused", "skipped", "view"},
         v \in Known(buildField(d, p).goType)
  PROVE  readStmt(buildField(d, p), Kept(bodyStmt(buildField(d, p), v)), v) = v
<1> DEFINE f == buildField(d, p)
           w == bodyStmt(f, v)
<1> SUFFICES readStmt(f, Kept(w), v) = v
  OBVIOUS
<1> USE DEF Value, Null, Unknown, Absent, Empty
<1>1. f.kind \in {"intstr", "createonly", "writeonly", "required", "optclear", "optcomp"}
  BY FieldShapes DEF resAttr, Field, Refused, Skipped
<1>2. f.goType \in GoTypes
  BY FieldShapes DEF resAttr, Field, Refused, Skipped, GoTypes
<1>3. f.kind = "intstr" => f.goType = "types.String"
  BY FieldShapes DEF Field, Refused, Skipped
<1> HIDE DEF f
<1>4. CASE f.kind \in {"writeonly", "createonly"}
  BY <1>4 DEF readStmt
<1>5. CASE f.kind = "intstr"
  <2>1. PICK s \in Seq(STRING) : v = Value("string", s)
    BY <1>3, <1>5 DEF Known, f
  <2>2. w \in {v, Value("integer", s)}
    BY <1>5, <2>1 DEF bodyStmt, putIntOrStr
  <2>3. strVal(Kept(w)) = v
    BY <2>1, <2>2 DEF strVal, Kept, IsString
  <2> QED
    BY <1>3, <1>5, <2>3 DEF readStmt
<1>6. CASE f.kind \in {"required", "optclear", "optcomp"}
  <2>1. v \in Known(f.goType)
    BY DEF f
  <2>2. CASE f.goType = "types.List"
    <3>1. PICK s \in Seq(STRING) : v = Value("array", s)
      BY <2>1, <2>2 DEF Known
    <3>2. w = v
      BY <1>6, <2>2, <3>1 DEF bodyStmt, putList, putStr
    <3>3. listValKeepEmpty(Kept(v), v) = v
      BY <3>1 DEF listValKeepEmpty, listVal, Kept
    <3> QED  BY <1>6, <2>2, <3>2, <3>3 DEF readStmt
  <2>3. CASE f.goType = "types.Int64"
    <3>1. PICK s \in Seq(STRING) : v = Value("integer", s)
      BY <2>1, <2>3 DEF Known
    <3>2. w = v
      BY <1>6, <2>3, <3>1 DEF bodyStmt, putInt64, putStr
    <3>3. int64Val(Kept(v)) = v
      BY <3>1 DEF int64Val, Kept
    <3> QED  BY <1>6, <2>3, <3>2, <3>3 DEF readStmt
  <2>4. CASE f.goType = "types.Bool"
    <3>1. PICK s \in Seq(STRING) : v = Value("boolean", s)
      BY <2>1, <2>4 DEF Known
    <3>2. w = v
      BY <1>6, <2>4, <3>1 DEF bodyStmt, putBool, putStr
    <3>3. boolVal(Kept(v)) = v
      BY <3>1 DEF boolVal, Kept
    <3> QED  BY <1>6, <2>4, <3>2, <3>3 DEF readStmt
  <2>5. CASE f.goType = "types.String"
    <3>1. PICK s \in Seq(STRING) : v = Value("string", s)
      BY <2>1, <2>5 DEF Known
    <3>2. w = v
      BY <1>6, <2>5, <3>1 DEF bodyStmt, putStr
    <3>3. strVal(Kept(v)) = v
      BY <3>1 DEF strVal, Kept, IsString
    <3> QED  BY <1>6, <2>5, <3>2, <3>3 DEF readStmt
  <2> QED
    BY <1>2, <2>2, <2>3, <2>4, <2>5 DEF GoTypes
<1> QED
  BY <1>1, <1>4, <1>5, <1>6 DEF f

\* typeOf finds a type that the property admits, an array before any other.
LEMMA TypeIsAdmitted ==
  ASSUME NEW p, p.type \in Seq(STRING), NEW k \in DOMAIN p.type, p.type[k] # "null"
  PROVE  /\ Admits(p, typeOf(p)) /\ typeOf(p) # "null"
         /\ Admits(p, "array") => typeOf(p) = "array"
<1> DEFINE T == p.type
           NonNull == {i \in DOMAIN T : T[i] # "null"}
<1>1. DOMAIN T = 1 .. Len(T) /\ Len(T) \in Nat
  OBVIOUS
<1>2. CASE Len(T) = 1
  BY <1>1, <1>2 DEF typeOf, Admits
<1>3. CASE Len(T) # 1 /\ Admits(p, "array")
  BY <1>3 DEF typeOf
<1>4. CASE Len(T) # 1 /\ ~ Admits(p, "array")
  <2> DEFINE First(i) == T[i] # "null" /\ \A j \in 1 .. i - 1 : T[j] = "null"
             c == CHOOSE i \in DOMAIN T : First(i)
  <2>1. PICK n \in NonNull : \A j \in NonNull : ~ (<<j, n>> \in OpToRel(<, Nat))
    <3>1. NonNull \subseteq Nat /\ NonNull # {}
      BY <1>1
    <3> HIDE DEF NonNull
    <3> QED
      BY <3>1, NatLessThanWellFounded, WFMin
  <2>2. \A j \in 1 .. n - 1 : T[j] = "null"
    <3> SUFFICES ASSUME NEW j \in 1 .. n - 1, T[j] # "null"
                 PROVE  FALSE
      OBVIOUS
    <3>1. j \in NonNull /\ j \in Nat /\ n \in Nat /\ j < n
      BY <1>1
    <3> QED
      BY <2>1, <3>1 DEF OpToRel
  <2>3. c \in DOMAIN T /\ First(c)
    BY <2>1, <2>2
  <2>4. typeOf(p) = T[c]
    BY <1>4 DEF typeOf
  <2> QED
    BY <1>4, <2>3, <2>4 DEF Admits
<1> QED
  BY <1>2, <1>3, <1>4

\* typeOf is the type of every value but null, unless a keyword is possible too.
LEMMA TypeOfAnswer ==
  ASSUME NEW p, Plain(p), NEW t, t # "null", Admits(p, t), ~ intStrUnion(p)
  PROVE  typeOf(p) = t
<1>1. PICK k \in DOMAIN p.type : p.type[k] = t
  BY DEF Admits
<1>2. PICK i \in DOMAIN p.type : p.type[i] = typeOf(p)
  BY <1>1, TypeIsAdmitted DEF Plain, Admits
<1>3. typeOf(p) # "null"
  BY <1>1, TypeIsAdmitted DEF Plain
<1>4. typeOf(p) = t \/ {typeOf(p), t} \subseteq {"integer", "string"}
  BY <1>1, <1>2, <1>3 DEF Plain
<1>5. ASSUME typeOf(p) # t
      PROVE  Len(p.type) > 1
  <2>1. i \in 1 .. Len(p.type) /\ k \in 1 .. Len(p.type) /\ i # k
    BY <1>1, <1>2, <1>5 DEF Plain
  <2> QED
    BY <2>1
<1> QED
  BY <1>1, <1>2, <1>4, <1>5 DEF intStrUnion, Admits

\* No answer is lost on the way into the state: what uapi answers for an accepted
\* attribute, a keyword next to numbers included, is read as a value with its text
\* and not as null, so a later PUT does not remove it ("Int64 silently drops the
\* keyword", buildResource).
THEOREM AnswersAreNotLost ==
  ASSUME NEW d, NEW p, Plain(p), NEW w, w.json \in Types, Admits(p, w.json), NEW m,
         resAttr(buildField(d, p)) \notin {"refused", "skipped"},
         buildField(d, p).kind \notin {"writeonly", "createonly"}
  PROVE  /\ readStmt(buildField(d, p), w, m).json # "null"
         /\ w.json # "array" => readStmt(buildField(d, p), w, m).words = w.words
<1> DEFINE f == buildField(d, p)
<1> SUFFICES /\ readStmt(f, w, m).json # "null"
             /\ w.json # "array" => readStmt(f, w, m).words = w.words
  OBVIOUS
<1> USE DEF Value, Null, Absent
<1>1. w # Absent /\ w # Null
  BY DEF Types
<1>2. CASE f = Field("intstr", "types.String") /\ intStrUnion(p)
  <2>1. readStmt(f, w, m) = strVal(w)
    BY <1>2 DEF readStmt, Field
  <2>2. strVal(w).json # "null" /\ (w.json # "array" => strVal(w).words = w.words)
    BY <1>1 DEF strVal, Bracketed, IsString, Types
  <2> QED
    BY <2>1, <2>2
<1>3. CASE ~ intStrUnion(p)
  <2>1. typeOf(p) = w.json
    BY <1>3, TypeOfAnswer DEF Types
  <2>2. f = IF readOnly(p) THEN computedField(p) ELSE Field(kindOf(p), goType(p))
    BY <1>3 DEF buildField, resAttr, Refused, Skipped, Field
  <2>3. CASE f = Field("computedbool", "types.Bool") /\ typeOf(p) = "boolean"
    <3>1. readStmt(f, w, m) = boolValDefault(w)
      BY <2>3 DEF readStmt, Field
    <3>2. boolValDefault(w) = w
      BY <1>1, <2>1, <2>3 DEF boolValDefault, boolVal
    <3> QED
      BY <3>1, <3>2 DEF Types
  <2>4. CASE f = Field("computedstring", "types.String") /\ typeOf(p) = "string"
    <3>1. readStmt(f, w, m) = strVal(w)
      BY <2>4 DEF readStmt, Field
    <3>2. strVal(w) = w
      BY <1>1, <2>1, <2>4 DEF strVal, IsString
    <3> QED
      BY <3>1, <3>2 DEF Types
  <2>5. CASE f = Field(kindOf(p), goType(p))
    <3>1. f.kind \in {"required", "optclear", "optcomp"} /\ f.goType = goType(p)
      BY <2>5 DEF kindOf, Field
    <3> HIDE DEF f
    <3>2. CASE w.json = "integer"
      <4>1. readStmt(f, w, m) = w
        BY <1>1, <2>1, <3>1, <3>2 DEF goType, readStmt, int64Val
      <4> QED  BY <3>2, <4>1
    <3>3. CASE w.json = "boolean"
      <4>1. readStmt(f, w, m) = w
        BY <1>1, <2>1, <3>1, <3>3 DEF goType, readStmt, boolVal
      <4> QED  BY <3>3, <4>1
    <3>4. CASE w.json = "array"
      <4>1. readStmt(f, w, m) = w
        BY <1>1, <2>1, <3>1, <3>4 DEF goType, readStmt, listValKeepEmpty, listVal
      <4> QED  BY <3>4, <4>1
    <3>5. CASE w.json = "string"
      <4>1. readStmt(f, w, m) = w
        BY <1>1, <2>1, <3>1, <3>5 DEF goType, readStmt, strVal, IsString
      <4> QED  BY <3>5, <4>1
    <3> QED
      BY <3>2, <3>3, <3>4, <3>5 DEF Types
  <2>6. f # Refused
    BY DEF resAttr, Refused, Field
  <2> QED
    BY <2>2, <2>3, <2>4, <2>5, <2>6 DEF computedField
<1>4. f = Field("intstr", "types.String") \/ ~ intStrUnion(p)
  BY DEF buildField, intStrField, resAttr, Refused, Skipped, Field
<1> QED
  BY <1>2, <1>3, <1>4, FieldShapes DEF Field, Refused, Skipped

\* The upgraders "normalize rather than convert, and running it twice changes
\* nothing" (state_upgrades.go): a state that has the new shape already passes
\* unchanged, and so does the result of an upgrade.
THEOREM UpgradesAreIdempotent ==
  ASSUME NEW w
  PROVE  /\ firstOfList(firstOfList(w)) = firstOfList(w)
         /\ wordsOfString(wordsOfString(w)) = wordsOfString(w)
         /\ wordsOfString(trimBrackets(wordsOfString(trimBrackets(w))))
              = wordsOfString(trimBrackets(w))
<1> USE DEF Value, Absent
<1>1. firstOfList(firstOfList(w)) = firstOfList(w)
  BY DEF firstOfList
<1>2. ASSUME NEW u
      PROVE  ~ IsString(wordsOfString(u))
  BY DEF wordsOfString, IsString
<1>3. ASSUME NEW u, ~ IsString(u)
      PROVE  wordsOfString(u) = u /\ trimBrackets(u) = u
  BY <1>3 DEF wordsOfString, trimBrackets, IsString
<1> QED
  BY <1>1, <1>2, <1>3
-----------------------------------------------------------------------------
(* The scope table. *)

\* The allOf entries of an accepted schema: some of them null fields, and the
\* generator did not fail.
Accepted(entries, writable, enum) ==
  nullsOnly(entries) # {} /\ ~ Fails(entries, writable, enum)

\* The entry e of a schema says that a section with value v in field n has no f.
Says(e, n, v, f) == /\ n \in DOMAIN e.if /\ v \in e.if[n]
                    /\ f \in DOMAIN e.then /\ e.then[f] = "null"

\* The entries of an accepted schema switch on one field, the scope's.
LEMMA OneDiscriminator ==
  ASSUME NEW entries, NEW writable, NEW enum, Accepted(entries, writable, enum),
         NEW e \in nullsOnly(entries)
  PROVE  DOMAIN e.if = {applyScope(entries, writable, enum).field}
<1> DEFINE n == CHOOSE d \in Discriminators(entries) : TRUE
<1>1. applyScope(entries, writable, enum).field = n
  BY DEF Accepted, applyScope
<1>2. DOMAIN e.if \subseteq Discriminators(entries)
  BY DEF Discriminators
<1>3. Cardinality(DOMAIN e.if) = 1
  BY DEF Accepted, Fails
<1>4. DOMAIN e.if # {}
  BY <1>3, FS_EmptySet
<1>5. n \in Discriminators(entries)
  BY <1>2, <1>4
<1>6. \A d \in Discriminators(entries) : d = n
  BY <1>5 DEF Accepted, Fails
<1> QED
  BY <1>1, <1>2, <1>4, <1>6

\* The rules of an accepted schema: one for each entry, on the scope's field.
LEMMA RulesOfTheEntries ==
  ASSUME NEW entries, NEW writable, NEW enum, Accepted(entries, writable, enum)
  PROVE  LET s == applyScope(entries, writable, enum)
         IN /\ s.rules = {[values |-> e.if[s.field], fields |-> nulls(e)] :
                            e \in nullsOnly(entries)}
            /\ s.known = enum[s.field]
            /\ s.field \in Discriminators(entries)
<1> DEFINE s == applyScope(entries, writable, enum)
<1> DEFINE n == CHOOSE d \in Discriminators(entries) : TRUE
<1>1. s = [field |-> n, known |-> enum[n], rules |-> rulesOf(entries, n)]
  BY DEF Accepted, applyScope
<1>2. PICK e \in nullsOnly(entries) : TRUE
  BY DEF Accepted
<1>3. s.field \in DOMAIN e.if
  BY <1>2, OneDiscriminator
<1>4. s.field \in Discriminators(entries)
  BY <1>2, <1>3 DEF Discriminators
<1>5. s.rules = rulesOf(entries, s.field) /\ s.known = enum[s.field]
  <2> HIDE DEF n, s
  <2> QED  BY <1>1
<1> QED
  BY <1>4, <1>5 DEF rulesOf

\* fieldScope.excluded names exactly the fields that an entry of the schema nulls:
\* no entry is dropped, merged with another one or read for a value that it does
\* not match (applyScope, "the generator models one discriminator").
THEOREM ScopeReadsTheEntries ==
  ASSUME NEW entries, NEW writable, NEW enum, Accepted(entries, writable, enum),
         NEW v, NEW f
  PROVE  f \in excluded(applyScope(entries, writable, enum), v)
           <=> \E e \in entries : \E n \in DOMAIN e.if : Says(e, n, v, f)
<1> DEFINE s == applyScope(entries, writable, enum)
<1>1. s.rules = {[values |-> e.if[s.field], fields |-> nulls(e)] : e \in nullsOnly(entries)}
  BY RulesOfTheEntries
<1>2. f \in excluded(s, v) <=> \E r \in s.rules : v \in r.values /\ f \in r.fields
  BY DEF excluded
<1>3. f \in excluded(s, v)
        <=> \E e \in nullsOnly(entries) : v \in e.if[s.field] /\ f \in nulls(e)
  <2> HIDE DEF s
  <2>1. ASSUME NEW r \in s.rules, v \in r.values, f \in r.fields
        PROVE  \E e \in nullsOnly(entries) : v \in e.if[s.field] /\ f \in nulls(e)
    BY <1>1, <2>1
  <2>2. ASSUME NEW e \in nullsOnly(entries), v \in e.if[s.field], f \in nulls(e)
        PROVE  \E r \in s.rules : v \in r.values /\ f \in r.fields
    <3>1. [values |-> e.if[s.field], fields |-> nulls(e)] \in s.rules
      BY <1>1
    <3> QED  BY <2>2, <3>1
  <2> QED
    BY <1>2, <2>1, <2>2
<1>4. ASSUME NEW e \in nullsOnly(entries), v \in e.if[s.field], f \in nulls(e)
      PROVE  e \in entries /\ s.field \in DOMAIN e.if /\ Says(e, s.field, v, f)
  <2>1. s.field \in DOMAIN e.if
    BY OneDiscriminator
  <2> QED
    BY <1>4, <2>1 DEF Says, nulls, nullsOnly
<1>5. ASSUME NEW e \in entries, NEW n \in DOMAIN e.if, Says(e, n, v, f)
      PROVE  e \in nullsOnly(entries) /\ v \in e.if[s.field] /\ f \in nulls(e)
  <2>1. f \in nulls(e)
    BY <1>5 DEF Says, nulls
  <2>2. e \in nullsOnly(entries)
    BY <2>1 DEF nullsOnly
  <2>3. n = s.field
    BY <2>2, OneDiscriminator
  <2> QED
    BY <1>5, <2>1, <2>2, <2>3 DEF Says
<1> QED
  BY <1>3, <1>4, <1>5

\* A field of an accepted scope is an attribute that a configuration can set, and
\* some value that uapi models takes it, so "Applies only to" names one; modifyPlan
\* never nulls a field on every value of the enum.
THEOREM ScopedFieldIsTaken ==
  ASSUME NEW entries, NEW writable, NEW enum, Accepted(entries, writable, enum),
         NEW f \in scoped(applyScope(entries, writable, enum))
  PROVE  LET s == applyScope(entries, writable, enum)
         IN f \in writable /\ \E v \in s.known : f \notin excluded(s, v)
<1> DEFINE s == applyScope(entries, writable, enum)
<1>1. /\ s.rules = {[values |-> e.if[s.field], fields |-> nulls(e)] : e \in nullsOnly(entries)}
      /\ s.known = enum[s.field]
      /\ s.field \in Discriminators(entries)
  BY RulesOfTheEntries
<1>2. PICK e \in nullsOnly(entries) : f \in nulls(e)
  BY <1>1 DEF scoped
<1>3. f \in writable
  BY <1>2 DEF Accepted, Fails
<1>4. PICK v \in s.known : ~ \E r \in rulesOf(entries, s.field) : f \in r.fields /\ v \in r.values
  BY <1>1, <1>3 DEF Accepted, Fails
<1>5. f \notin excluded(s, v)
  BY <1>1, <1>4 DEF excluded, rulesOf
<1> QED
  BY <1>3, <1>4, <1>5
-----------------------------------------------------------------------------
(* The schema of network_interface, entry by entry.                          *)

interfaceEnum == [proto |-> ifaceProtos]

LEMMA OthersThanIs ==
  ASSUME NEW protos, NEW fields
  PROVE  LET e == OthersThan(protos, fields)
         IN /\ DOMAIN e.if = {"proto"} /\ e.if["proto"] = ifaceProtos \ protos
            /\ DOMAIN e.then = fields /\ nulls(e) = fields
BY DEF OthersThan, OnProto, Nulls, Entry, nulls

\* An entry that nulls fields names the protos on which uapi does not take them.
NamesTheProtos(e) ==
  /\ DOMAIN e.if = {"proto"}
  /\ DOMAIN e.then = nulls(e)
  /\ \A f \in nulls(e) : /\ e.if["proto"] = ifaceProtos \ ifaceFieldProtos(f)
                         /\ ifaceFieldProtos(f) \cap ifaceProtos # {}

LEMMA OthersThanNames ==
  ASSUME NEW protos, NEW fields, protos \cap ifaceProtos # {},
         \A f \in fields : ifaceFieldProtos(f) = protos
  PROVE  NamesTheProtos(OthersThan(protos, fields))
BY OthersThanIs DEF NamesTheProtos

LEMMA InterfaceEntries ==
  \A e \in networkInterfaceEntries : nulls(e) = {} \/ NamesTheProtos(e)
<1> USE DEF ifaceProtos
<1>1. nulls(OnProto({"wireguard"}, [f \in {} |-> "null"])) = {}
  BY DEF nulls, OnProto, Entry
<1>2. nulls(OnProto({"ppp", "pppoe"}, [mtu |-> "bounded"])) = {}
  BY DEF nulls, OnProto, Entry
<1>3. NamesTheProtos(OthersThan({"static"},
        {"ipaddrs", "ip6addrs", "netmask", "broadcast", "gateway", "ip6gw"}))
  <2>1. \A f \in {"ipaddrs", "ip6addrs", "netmask", "broadcast", "gateway", "ip6gw"} :
          ifaceFieldProtos(f) = {"static"}
    BY DEF ifaceFieldProtos
  <2> QED
    BY <2>1, OthersThanNames
<1>4. NamesTheProtos(OthersThan({"static", "dhcpv6", "wireguard"}, {"ip6prefix"}))
  <2>1. ifaceFieldProtos("ip6prefix") = {"static", "dhcpv6", "wireguard"}
    BY DEF ifaceFieldProtos
  <2> QED
    BY <2>1, OthersThanNames
<1>5. NamesTheProtos(OthersThan({"dhcp"}, {"broadcast_flag", "hostname"}))
  <2>1. \A f \in {"broadcast_flag", "hostname"} : ifaceFieldProtos(f) = {"dhcp"}
    BY DEF ifaceFieldProtos
  <2> QED
    BY <2>1, OthersThanNames
<1>6. NamesTheProtos(OthersThan({"dhcp", "dhcpv6"}, {"clientid"}))
  <2>1. ifaceFieldProtos("clientid") = {"dhcp", "dhcpv6"}
    BY DEF ifaceFieldProtos
  <2> QED
    BY <2>1, OthersThanNames
<1>7. NamesTheProtos(OthersThan({"dhcpv6"}, {"reqaddress"}))
  <2>1. ifaceFieldProtos("reqaddress") = {"dhcpv6"}
    BY DEF ifaceFieldProtos
  <2> QED
    BY <2>1, OthersThanNames
<1>8. NamesTheProtos(OthersThan({"dhcpv6", "pppoe", "ppp"}, {"reqprefix", "sourcefilter"}))
  <2>1. \A f \in {"reqprefix", "sourcefilter"} : ifaceFieldProtos(f) = {"dhcpv6", "pppoe", "ppp"}
    BY DEF ifaceFieldProtos
  <2> QED
    BY <2>1, OthersThanNames
<1>9. NamesTheProtos(OthersThan({"dhcp", "dhcpv6", "pppoe", "ppp", "wwan"}, {"peerdns"}))
  <2>1. ifaceFieldProtos("peerdns") = {"dhcp", "dhcpv6", "pppoe", "ppp", "wwan"}
    BY DEF ifaceFieldProtos
  <2> QED
    BY <2>1, OthersThanNames
<1>10. NamesTheProtos(OthersThan({"wireguard"},
         {"private_key", "listen_port", "addresses", "nohostroute"}))
  <2>1. \A f \in {"private_key", "listen_port", "addresses", "nohostroute"} :
          ifaceFieldProtos(f) = {"wireguard"}
    BY DEF ifaceFieldProtos
  <2> QED
    BY <2>1, OthersThanNames
<1> HIDE DEF ifaceProtos
<1> QED
  BY <1>1, <1>2, <1>3, <1>4, <1>5, <1>6, <1>7, <1>8, <1>9, <1>10 DEF networkInterfaceEntries

\* The generator does not fail on this schema.
LEMMA InterfaceAccepted ==
  Accepted(networkInterfaceEntries, networkInterfaceWritable, interfaceEnum)
<1> DEFINE entries == networkInterfaceEntries
           writable == networkInterfaceWritable
<1>1. \A e \in nullsOnly(entries) : NamesTheProtos(e)
  BY InterfaceEntries DEF nullsOnly
<1>2. nullsOnly(entries) # {}
  <2> DEFINE e == OthersThan({"dhcpv6"}, {"reqaddress"})
  <2>1. e \in entries
    BY DEF networkInterfaceEntries
  <2>2. nulls(e) # {}
    BY OthersThanIs
  <2> QED
    BY <2>1, <2>2 DEF nullsOnly
<1>3. \A e \in nullsOnly(entries) : Cardinality(DOMAIN e.if) = 1
  BY <1>1, FS_Singleton DEF NamesTheProtos
<1>4. \A n \in Discriminators(entries) : n = "proto"
  BY <1>1 DEF Discriminators, NamesTheProtos
<1>5. \A e \in nullsOnly(entries) : nulls(e) \subseteq writable
  BY DEF networkInterfaceWritable, nullsOnly
<1>6. interfaceEnum["proto"] = ifaceProtos /\ "static" \in ifaceProtos
  BY DEF interfaceEnum, ifaceProtos
<1>7. ASSUME NEW f \in writable
      PROVE  \E v \in ifaceProtos : \A r \in rulesOf(entries, "proto") :
               ~ (f \in r.fields /\ v \in r.values)
  <2>1. CASE \E e \in nullsOnly(entries) : f \in nulls(e)
    <3>1. PICK v \in ifaceProtos : v \in ifaceFieldProtos(f)
      BY <1>1, <2>1 DEF NamesTheProtos
    <3>2. \A e \in nullsOnly(entries) : f \in nulls(e) => v \notin e.if["proto"]
      BY <1>1, <3>1 DEF NamesTheProtos
    <3> QED
      BY <3>2 DEF rulesOf
  <2>2. CASE \A e \in nullsOnly(entries) : f \notin nulls(e)
    BY <1>6, <2>2 DEF rulesOf
  <2> QED
    BY <2>1, <2>2
<1> QED
  BY <1>1, <1>2, <1>3, <1>4, <1>5, <1>6, <1>7 DEF Accepted, Fails, NamesTheProtos

\* The table that the generator makes of network_interface's schema excludes a field
\* on a proto exactly where uapi has it that the field does not apply, for every
\* proto, those that uapi does not model included: field_scope.go nulls no value
\* that uapi would take, and leaves none that it would refuse on a proto it models.
THEOREM InterfaceScopeIsUapis == AgreesWithUapi /\ \A p : AgreesOn(p)
<1> DEFINE entries == networkInterfaceEntries
           s == networkInterfaceScope
<1>1. s = applyScope(entries, networkInterfaceWritable, interfaceEnum)
  BY DEF networkInterfaceScope, interfaceEnum
<1>2. \A e \in entries : nulls(e) = {} \/ NamesTheProtos(e)
  BY InterfaceEntries
<1>3. s.known = ifaceProtos
  <2>1. s.known = interfaceEnum[s.field] /\ s.field \in Discriminators(entries)
    BY <1>1, InterfaceAccepted, RulesOfTheEntries
  <2>2. s.field = "proto"
    BY <1>2, <2>1 DEF Discriminators, nullsOnly, NamesTheProtos
  <2> QED
    BY <2>1, <2>2 DEF interfaceEnum
<1>4. ASSUME NEW p, NEW f \in networkInterfaceWritable
      PROVE  f \in excluded(s, p) <=> ~ ifaceApplies(f, p) /\ p \in s.known
  <2>1. f \in excluded(s, p) <=> \E e \in entries : \E n \in DOMAIN e.if : Says(e, n, p, f)
    BY <1>1, InterfaceAccepted, ScopeReadsTheEntries
  <2>2. ASSUME NEW e \in entries, NEW n \in DOMAIN e.if, Says(e, n, p, f)
        PROVE  ~ ifaceApplies(f, p) /\ p \in s.known
    <3>1. f \in nulls(e)
      BY <2>2 DEF Says, nulls
    <3>2. n = "proto" /\ e.if["proto"] = ifaceProtos \ ifaceFieldProtos(f)
      BY <1>2, <3>1 DEF NamesTheProtos
    <3> QED
      BY <1>3, <2>2, <3>2 DEF Says, ifaceApplies
  <2>3. ASSUME ~ ifaceApplies(f, p), p \in s.known
        PROVE  \E e \in entries : \E n \in DOMAIN e.if : Says(e, n, p, f)
    <3>1. p \in ifaceProtos /\ p \notin ifaceFieldProtos(f)
      BY <1>3, <2>3 DEF ifaceApplies
    <3>2. f \notin {"proto", "mtu", "device"}
      BY <3>1 DEF ifaceFieldProtos
    <3>3. PICK e \in entries : f \in nulls(e)
      BY <3>2 DEF networkInterfaceWritable
    <3>4. "proto" \in DOMAIN e.if /\ e.if["proto"] = ifaceProtos \ ifaceFieldProtos(f)
      BY <1>2, <3>3 DEF NamesTheProtos
    <3>5. Says(e, "proto", p, f)
      BY <3>1, <3>3, <3>4 DEF Says, nulls
    <3> QED
      BY <3>4, <3>5
  <2> QED
    BY <2>1, <2>2, <2>3
<1> QED
  BY <1>4 DEF AgreesOn, AgreesWithUapi
=============================================================================
