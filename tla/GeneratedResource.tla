--------------------------- MODULE GeneratedResource ---------------------------
(***************************************************************************)
(* One attribute of a generated resource through Terraform runs, for every  *)
(* property that the generator accepts: what the router holds, what the     *)
(* configuration and the saved state say of it, and what a create, update,  *)
(* refresh, import or state upgrade makes of them.  ResourceLifecycle has   *)
(* the failures of a run and the scope of network_interface; this module    *)
(* has the JSON types, the generator and the older shapes of a state.       *)
(***************************************************************************)
EXTENDS Generator, ResourceCatalog

CONSTANTS Properties,  \* the properties of uapi's schemas
          Scalars,     \* the values of each scalar JSON type
          Lists,       \* the values of an array
          MaxUpsets    \* bound: edits by others and changes of the configuration

VARIABLES subject,  \* the attribute, fixed from the start
          config,   \* the resource block
          section,  \* on the router
          state,    \* in the Terraform state
          verdict,  \* how the last operation ended, until something changes
          upsets

vars == <<subject, config, section, state, verdict, upsets>>

ASSUME MaxUpsetsAssumption == MaxUpsets \in Nat

ASSUME NumeralsAssumption == Numerals \subseteq STRING

\* The generator's spec lint has it that only what reads back null is clear-on-omit;
\* no secret is required.
ASSUME PropertyAssumption ==
  \A p \in Properties :
    /\ Plain(p) \/ ListUnion(p)
    /\ \E i \in DOMAIN p.type : p.type[i] \in Types \cup {"object"}
    /\ \A i \in DOMAIN p.type : p.type[i] \in Types \cup {"object", "null"}
    /\ "clearOnOmit" \in p.flags => Admits(p, "null")
    /\ ~ {"writeOnly", "required"} \subseteq p.flags

\* A scalar is one word, and a whole number is one in each of its types.
ASSUME ValueAssumption ==
  /\ \A t \in Types \ {"array"} : \A v \in Scalars[t] :
       v = Value(t, <<v.words[1]>>) /\ v.words[1] \in STRING
  /\ \A v \in Scalars["integer"] : v.words[1] \in Numerals
  /\ \A v \in Scalars["string"] :
       v.words[1] \in Numerals => Value("integer", v.words) \in Scalars["integer"]
  /\ Value("boolean", <<"false">>) \in Scalars["boolean"]
  /\ \A v \in Lists : v = Value("array", v.words) /\ v.words \in Seq(STRING)

\* The state upgraders convert what they can: a text to the first of a list, a list
\* to its words; and carry over each secret.
ASSUME UpgradeAssumption ==
  \A s \in Shapes :
    /\ s.upgrade \in {"none", "plain", "firstOfList", "wordsOfString", "prefixes", "carried"}
    /\ s.field.kind = "writeonly" => s.upgrade \in {"none", "carried"}
    /\ s.upgrade = "carried" => s.field = Field("writeonly", "types.String")
    /\ s.upgrade = "firstOfList" => s.field.goType = "types.String"
    /\ s.upgrade \in {"wordsOfString", "prefixes"} => s.field.goType = "types.List"

\* Besides the attribute, val, a resource has a required one, other.
NoConfig  == [val |-> Null, other |-> "none"]
NoSection == NoConfig
NoState   == [val |-> Null, other |-> "none", etag |-> NoSection, old |-> FALSE]
Others    == {"x", "y"}

Verdicts == {"none", "ok", "upgraded", "missing", "stale",
             "conflict",      \* the id is taken
             "refused",       \* 422: a value of the wrong type
             "inconsistent"}  \* the result contradicts the plan
-----------------------------------------------------------------------------
(* The attribute.                                                           *)

Descriptors == {Descriptor(h, TRUE, FALSE) : h \in Handlers}

field == subject.field
class == resAttr(field)
singleton == subject.handlers = "singleton"

\* What the property can be on the router: of a number or a keyword, what is a whole
\* number is answered as one.
Held(p) ==
  IF typeOf(p) = "array" THEN {Null} \cup (Lists \ {Empty})
  ELSE {v \in UNION {Scalars[p.type[i]] : i \in {j \in DOMAIN p.type : p.type[j] # "null"}} :
          ~ (intStrUnion(p) /\ v.json = "string" /\ v.words[1] \in Numerals)}
       \cup (IF "required" \in p.flags THEN {} ELSE {Null})

\* What uapi fills in for an unset option: a value if the property is not null.
Defaults(p) ==
  IF Admits(p, "null") \/ typeOf(p) = "array" \/ p.flags \cap {"writeOnly", "required"} # {}
  THEN {Null} ELSE {v \in Held(p) : v = Null \/ v.json = typeOf(p)}

\* The conversions of a saved state that the schema of an attribute calls for.
Conversions(f) == {s.upgrade : s \in {t \in Shapes : t.field = f}}

SubjectsOf(d, p) ==
  [handlers : {d.handlers}, property : {p}, field : {buildField(d, p)},
   default : Defaults(p),
   upgrade : {"none"} \cup
             (IF d.handlers = "put" THEN Conversions(buildField(d, p)) ELSE {})]

Emitted == {x \in Descriptors \X Properties :
              resAttr(buildField(x[1], x[2])) \notin {"refused", "skipped"}}

Subjects == UNION {SubjectsOf(x[1], x[2]) : x \in Emitted}

Generated == {<<x[1].handlers, buildField(x[1], x[2])>> : x \in Emitted}

Sections == {s \in [val : Held(subject.property), other : Others] :
               subject.default # Null => s.val # Null}
Missing  == IF singleton THEN {} ELSE {NoSection}

\* What the block can set it to.
Settable(f) ==
  CASE f.goType = "types.List"  -> Lists
    [] f.goType = "types.Int64" -> Scalars["integer"]
    [] f.goType = "types.Bool"  -> Scalars["boolean"]
    [] f.kind = "intstr" -> Scalars["string"] \cup
                            {Value("string", v.words) : v \in Scalars["integer"]}
    [] OTHER -> Scalars["string"]

Configs ==
  [val : CASE class = "view" -> {Null}
           [] class = "required" -> Settable(field)
           [] OTHER -> Settable(field) \cup {Null},
   other : Others]
-----------------------------------------------------------------------------
(* uapi: strict about types, without empty lists, hiding what is write-only. *)

Refuses(v) == /\ v # Absent
              /\ \/ "writable" \notin subject.property.flags
                 \/ v # Null /\ ~ Admits(subject.property, v.json)

Normalized(v) == IF v \in {Null, Absent, Empty} THEN subject.default ELSE v

\* A merge PATCH; uapi keeps a secret for a null too.
Merged(old, v) ==
  IF v = Absent \/ (v = Null /\ field.kind = "writeonly") THEN old ELSE Normalized(v)

\* What others see or make of a view follows from things not modelled here.
Written(v, other) ==
  IF class = "view" THEN {s \in Sections : s.other = other}
  ELSE {[val |-> v, other |-> other]}

Answer(obj) == IF field.kind = "writeonly" THEN Absent ELSE obj.val

ETag(obj) == IF field.kind = "writeonly" /\ obj.val # Null
             THEN [obj EXCEPT !.val = Unknown] ELSE obj

StateOf(obj, m) == [val |-> readStmt(field, Answer(obj), m), other |-> obj.other,
                    etag |-> ETag(obj), old |-> FALSE]
-----------------------------------------------------------------------------
(* The upgrade of a saved state.                                            *)

normalize(u, raw) == CASE u = "firstOfList"   -> firstOfList(raw)
                       [] u = "wordsOfString" -> wordsOfString(raw)
                       [] u = "prefixes"      -> wordsOfString(trimBrackets(raw))
                       [] OTHER -> raw

\* How an older provider saved v: redirects held a list, the tag of a host and
\* the prefix of an interface were strings, the latter also with Go's brackets.
Saved(u, v) ==
  {v} \cup
  CASE u = "firstOfList" -> {IF v = Null THEN Empty ELSE Value("array", v.words)}
    [] u = "wordsOfString" /\ v # Null -> {Value("string", v.words)}
    [] u = "prefixes" /\ v # Null -> {Value("string", v.words), Bracketed(v.words)}
    [] u = "prefixes" /\ v = Null -> {Bracketed(<<>>)}
    [] OTHER -> {}

Init ==
  /\ subject \in Subjects
  /\ section \in Sections \cup Missing
  /\ config \in Configs \cup {NoConfig}
  /\ state \in {NoState} \cup
       (IF subject.upgrade = "none" \/ section = NoSection THEN {}
        ELSE [val : Saved(subject.upgrade, section.val), other : {section.other},
              etag : {ETag(section)}, old : {TRUE}])
  /\ verdict = "none"
  /\ upsets = 0

\* UpgradeState: it reads into an empty model, so what read keeps is lost unless
\* it is carried over by hand.
Upgrade ==
  /\ state.old
  /\ LET raw == normalize(subject.upgrade, state.val)
         val == IF subject.upgrade = "carried" THEN strVal(raw)
                ELSE readStmt(field, raw, Null)
     IN state' = [val |-> val, other |-> state.other, etag |-> state.etag, old |-> FALSE]
  /\ verdict' = "upgraded"
  /\ UNCHANGED <<subject, config, section, upsets>>
-----------------------------------------------------------------------------
(* What Terraform did not do.  A state is upgraded before anything reads it,*)
(* so nothing is lost by letting others wait for that.                      *)

Upset == ~ state.old /\ upsets < MaxUpsets /\ upsets' = upsets + 1 /\ verdict' = "none"

Edit == /\ Upset
        /\ section' \in (Sections \cup Missing) \ {section}
        /\ UNCHANGED <<subject, config, state>>

Reconfigure == /\ Upset
               /\ config' \in (Configs \cup {NoConfig}) \ {config}
               /\ UNCHANGED <<subject, section, state>>
-----------------------------------------------------------------------------
(* Terraform. *)

RefreshFromBlank ==
  /\ ~ state.old /\ state # NoState
  /\ state' = IF section = NoSection THEN NoState ELSE StateOf(section, Null)
  /\ UNCHANGED <<subject, config, section, verdict, upsets>>

\* Read.
Refresh ==
  /\ ~ state.old /\ state # NoState
  /\ state' = IF section = NoSection THEN NoState ELSE StateOf(section, state.val)
  /\ UNCHANGED <<subject, config, section, verdict, upsets>>

\* ImportState, and the Read that follows it.
Import == /\ state = NoState /\ section # NoSection
          /\ state' = StateOf(section, Null)
          /\ verdict' = "none"
          /\ UNCHANGED <<subject, config, section, upsets>>

Changes == \/ config.other # state.other
           \/ /\ config.val # state.val
              /\ class \in {"required", "optional"} \/ (class = "sticky" /\ config.val # Null)

\* The plan of the attribute: UseStateForUnknown keeps a sticky one, and what is
\* merely Computed is unknown whenever anything changes.
planned == CASE class = "view" -> Unknown
             [] class = "sticky" /\ config.val = Null ->
                  IF state = NoState THEN Unknown ELSE state.val
             [] OTHER -> config.val

Apply(precondition) == ~ state.old /\ config # NoConfig /\ precondition

End(result) == /\ verdict' = result
               /\ UNCHANGED <<subject, config, upsets>>

Fail(why) == End(why) /\ UNCHANGED <<section, state>>

\* uapi commits what it is sent, and the answer is read into the planned values.
Commit(obj) ==
  /\ section' = obj
  /\ state' = StateOf(obj, planned)
  /\ End(IF planned \in {Unknown, StateOf(obj, planned).val} THEN "ok" ELSE "inconsistent")

Write(sent, result) ==
  \/ Refuses(sent) /\ Fail("refused")
  \/ ~ Refuses(sent) /\ \E obj \in Written(result, config.other) : Commit(obj)

\* Create of a collection is a POST, here with a chosen id; of a singleton a
\* PATCH without If-Match.
Create ==
  /\ Apply(state = NoState)
  /\ LET sent == createBody(field, planned)
     IN \/ singleton /\ Write(sent, Merged(section.val, sent))
        \/ ~ singleton /\ section # NoSection /\ Fail("conflict")
        \/ ~ singleton /\ section = NoSection /\ Write(sent, Normalized(sent))

ETagMatches == state.etag = ETag(section)

Update ==
  /\ Apply(state # NoState /\ Changes)
  /\ \/ section = NoSection /\ Fail("missing")
     \/ section # NoSection /\ ~ ETagMatches /\ Fail("stale")
     \/ /\ section # NoSection /\ ETagMatches
        /\ \/ /\ subject.handlers = "put"
              /\ LET sent == crudCollectionPut(field, planned, state.val)
                 IN Write(sent, Normalized(sent))
           \/ /\ subject.handlers = "patch"
              /\ LET sent == crudCollectionPatch(field, planned, state.val)
                 IN Write(sent, Merged(section.val, sent))
           \/ /\ singleton
              /\ LET sent == crudSingleton(field, planned, state.val)
                 IN Write(sent, Merged(section.val, sent))

\* Delete: nothing for a singleton, and a 404 is a success.
Delete ==
  /\ config = NoConfig /\ state # NoState /\ ~ state.old
  /\ \/ /\ ~ singleton /\ section # NoSection /\ ~ ETagMatches
        /\ Fail("stale")
     \/ /\ singleton \/ section = NoSection \/ ETagMatches
        /\ section' = IF singleton THEN section ELSE NoSection
        /\ state' = NoState
        /\ End("ok")

Next == Upgrade \/ Edit \/ Reconfigure \/ Refresh \/ Import \/ Create \/ Update \/ Delete

Spec == Init /\ [][Next]_vars
-----------------------------------------------------------------------------
(* Properties. *)

\* The state holds values of the attribute's own Go type once it is upgraded,
\* and nothing that was only planned as unknown.
TypeOK ==
  /\ subject \in Subjects
  /\ section \in Sections \cup Missing
  /\ config \in Configs \cup {NoConfig}
  /\ state.val \in IF state.old THEN Saved(subject.upgrade, section.val)
                   ELSE Settable(field) \cup {Null}
  /\ verdict \in Verdicts
  /\ upsets \in 0 .. MaxUpsets

\* Every attribute of the generated files, with its handlers, is one that the
\* generator emits for some property of a schema: the files and the rules that
\* made them agree.
CatalogueIsEmitted ==
  \A s \in Shapes : s.handlers = subject.handlers => <<s.handlers, s.field>> \in Generated

\* No apply ends in "Provider produced inconsistent result after apply": for each
\* accepted property, what is sent comes back as the planned value.
ResultFitsPlan == verdict # "inconsistent"

\* uapi, which is strict about types, takes every value that the schema of the
\* attribute lets a configuration set.
NeverRefused == verdict # "refused"

\* The router has what the block says.  A [] is left out: what an older provider
\* saved is here what it read, and that is null for no entries.
InEffect ==
  /\ config # NoConfig /\ config.other = section.other
  /\ \/ config.val = Null /\ section.val = subject.default
     \/ config.val \notin {Null, Empty} /\ config.val.words = section.val.words

\* After a successful apply the plan is empty, with or without a refresh; and so it
\* is after the upgrade of an old state, if its configuration is in effect.
EmptyPlanAfterApply ==
  /\ verdict = "ok" /\ config # NoConfig => state # NoState /\ ~ Changes
  /\ verdict = "upgraded" /\ InEffect => state # NoState /\ ~ Changes

\* What a successful apply was to set is on the router: a [] as no option at all,
\* a number as a number.  A secret of a merge PATCH is left out, as it is not sent
\* again when others changed it.
AppliedIsStored ==
  /\ verdict = "ok" /\ config.val # Null
  /\ ~ (field.kind = "writeonly" /\ subject.handlers = "patch")
  => IF config.val = Empty THEN section.val = subject.default
     ELSE section.val.words = config.val.words

\* A state saved by an older provider is after its upgrade what a refresh makes
\* of the section it was saved from, secrets included.
UpgradeKeeps ==
  verdict = "upgraded" =>
    state.val = IF field.kind = "writeonly" THEN section.val
                ELSE readStmt(field, Answer(section), Null)

Wrote == section' # section /\ config' = config /\ state' # state

\* An update or a create of a singleton leaves an attribute that the configuration
\* does not set as it is on the router, whatever its JSON type: a keyword next to
\* numbers, a false, a zero.
UntouchedSurvives ==
  [][Wrote /\ section' # NoSection /\ section # NoSection /\ config.val = Null
     /\ class = "sticky" => section'.val = section.val]_vars
=============================================================================
