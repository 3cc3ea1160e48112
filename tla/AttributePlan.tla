---------------------------- MODULE AttributePlan ----------------------------
(***************************************************************************)
(* What a resource of the provider does with attribute values: how a plan   *)
(* is made from the configuration and the prior state (the schema classes   *)
(* of schema_helpers.go, fieldScope of field_scope.go), what is sent for it *)
(* (body, mergeDelta), how uapi stores it, and how the answer is read back. *)
(* A resource has a kind, which selects the handlers that the generator     *)
(* emits for it, and a discriminator, proto, which a kind without one       *)
(* leaves at a single value.                                                *)
(***************************************************************************)

CONSTANTS Fields,    \* the attributes besides the discriminator
          Sticky,    \* the Optional+Computed ones, with UseStateForUnknown
          Secrets,   \* the write-only ones, which uapi never answers
          Lists,     \* the list-valued ones
          Settings,  \* the values each field can be set to
          Protos,    \* the values of the discriminator
          Known,     \* those that uapi models, fieldScope.Known
          Excluded,  \* fieldScope.Rules: the fields each proto does not take
          Applies,   \* uapi's own table: the protos each field applies to
          Default    \* what uapi fills in for a field left unset on a proto

Null    == "null"
Unknown == "unknown"
Empty   == "empty"     \* the list []
Keep    == "keep"      \* the field is not named in a merge patch

Kinds == {"interface",   \* network_interface: fieldScope, PUT or merge PATCH
          "wireless",    \* wireless_*: always a merge PATCH
          "collection",  \* any other section of a collection: PUT
          "singleton"}   \* a section that always exists: PATCH of the body

Stored(f)  == Settings[f] \cup {Null}
Values(f)  == Stored(f) \cup (IF f \in Lists THEN {Empty} ELSE {})
Blank      == [f \in Fields |-> Null]

StoredSets == {s \in [Fields -> UNION {Stored(f) : f \in Fields}] :
                 \A f \in Fields : s[f] \in Stored(f)}
ValueSets  == {s \in [Fields -> UNION {Values(f) : f \in Fields}] :
                 \A f \in Fields : s[f] \in Values(f)}
PlanSets   == {s \in [Fields -> UNION {Values(f) \cup {Unknown} : f \in Fields}] :
                 \A f \in Fields : s[f] \in Values(f) \cup {Unknown}}

ASSUME ClassAssumption == /\ Sticky \subseteq Fields
                          /\ Secrets \subseteq Fields \ Sticky
                          /\ Lists \subseteq Fields
                          /\ Known \subseteq Protos
ASSUME ValueAssumption == \A f \in Fields :
         Settings[f] \cap {Null, Unknown, Empty, Keep} = {}
ASSUME ProtoAssumption == Protos \cap {Null, Unknown} = {}
ASSUME TableAssumption == /\ Excluded \in [Protos -> SUBSET Fields]
                          /\ Applies \in [Fields -> SUBSET Protos]
                          /\ \A f \in Fields, p \in Protos :
                                /\ Default[f][p] \in Stored(f)
                                /\ p \notin Applies[f] => Default[f][p] = Null
-----------------------------------------------------------------------------
(* Planning.  A configuration is a proto and a value for each field; Null is *)
(* "not configured" and Unknown a value that another resource still owes.    *)

excluded(k, p) == IF k = "interface" /\ p \in Protos THEN Excluded[p] ELSE {}
scoped == UNION {Excluded[p] : p \in Protos}

\* What the proofs need of the three tables; MCResourceLifecycle has TLC evaluate it.
\* What the provider's table excludes, uapi does not take.
ScopeIsSound == \A p \in Protos : \A f \in Excluded[p] : p \notin Applies[f]

\* What uapi does not take on these protos, the provider's table excludes.
ScopeIsComplete(protos) ==
  \A p \in protos, f \in Fields : p \notin Applies[f] => f \in Excluded[p]

\* Only what is Computed can have a default, and a list never does: uapi marks as
\* clear-on-omit only what reads back null.
DefaultsAreComputed ==
  \A f \in Fields, p \in Protos : Default[f][p] # Null => f \in Sticky \ Lists

\* A field has a default on all the protos that do not exclude it, or on none.
DefaultsFollowScope ==
  \A f \in Fields, p, q \in Protos :
     f \notin Excluded[p] \cup Excluded[q] => (Default[f][p] = Null <=> Default[f][q] = Null)

patches(planned, prior) == planned \in Protos \ Known /\ planned = prior

\* An empty list passes: uapi stores nothing for it.
validateConfig(k, config) ==
  \A f \in excluded(k, config.proto) : config.set[f] \in {Null, Unknown, Empty}

\* The framework: what is not configured keeps its prior value when it is
\* Computed, and becomes unknown when anything else changes; UseStateForUnknown
\* then brings the prior value back, a null included.
Proposed(config, prior, f) == IF config.set[f] = Null /\ f \in Sticky
                              THEN prior.set[f] ELSE config.set[f]
Changed(config, prior) == \/ config.proto # prior.proto
                          \/ \E f \in Fields : Proposed(config, prior, f) # prior.set[f]

UseNoState(config, prior, f) ==
  IF config.set[f] = Null /\ f \in Sticky THEN Unknown ELSE config.set[f]

UseStateForUnknown(config, prior, f) ==
  IF prior.proto = Null /\ config.set[f] = Null /\ f \in Sticky
  THEN Unknown ELSE Proposed(config, prior, f)

modifyPlanUnscoped(k, config, prior, f) == UseStateForUnknown(config, prior, f)

modifyPlanForgetsEntering(k, config, prior, f) ==
  IF f \in Sticky /\ config.set[f] = Null /\ f \in excluded(k, config.proto)
  THEN Null ELSE UseStateForUnknown(config, prior, f)

modifyPlanOfKnownProto(k, config, prior, f) ==
  IF config.proto = Unknown THEN UseStateForUnknown(config, prior, f)
  ELSE IF f \in Sticky /\ config.set[f] = Null /\ f \in excluded(k, config.proto)
       THEN Null
  ELSE IF /\ f \in Sticky /\ config.set[f] = Null
          /\ config.proto # prior.proto /\ f \in excluded(k, prior.proto)
       THEN Unknown
  ELSE UseStateForUnknown(config, prior, f)

\* The fields that the planned proto does not take become null, those that only
\* the old proto did not take unknown, and with an unknown proto all of them.
modifyPlan(k, config, prior, f) ==
  IF ~ (k = "interface" /\ f \in Sticky /\ config.set[f] = Null)
  THEN UseStateForUnknown(config, prior, f)
  ELSE IF config.proto = Unknown
       THEN IF f \in scoped THEN Unknown ELSE UseStateForUnknown(config, prior, f)
       ELSE IF f \in excluded(k, config.proto) THEN Null
       ELSE IF config.proto # prior.proto /\ f \in excluded(k, prior.proto) THEN Unknown
       ELSE UseStateForUnknown(config, prior, f)

\* The etag is plain Computed: unknown in every plan that changes anything
\* before modifyPlan runs.
Planned(k, config, prior) ==
  [proto |-> config.proto,
   set   |-> [f \in Fields |-> modifyPlan(k, config, prior, f)],
   fresh |-> Changed(config, prior)]

\* Terraform's rule for values that become known: they may replace an unknown
\* and nothing else.
Refines(value, planned) == planned \in {Unknown, value}
-----------------------------------------------------------------------------
(* Requests and what uapi makes of them. *)

bodyWithUnknowns(set) == [f \in Fields |-> set[f]]

\* put* leave out what is null or unknown.
body(set) == [f \in Fields |-> IF set[f] = Unknown THEN Null ELSE set[f]]

mergeDeltaWithoutNull(planned, prior) ==
  [f \in Fields |-> IF planned[f] \in {prior[f], Null} THEN Keep ELSE planned[f]]

mergeDelta(planned, prior) ==
  [f \in Fields |-> IF planned[f] = prior[f] THEN Keep ELSE planned[f]]

\* A singleton sends its body as the patch; a key it does not have stays.
wholeBody(set) == [f \in Fields |-> IF set[f] = Null THEN Keep ELSE set[f]]

MergePatch(stored, patch) ==
  [f \in Fields |-> IF patch[f] = Keep THEN stored[f] ELSE patch[f]]

applies(k, f, p) == k # "interface" \/ p \in Applies[f]

\* uapi's 422: a value for a field that the proto does not take.
scopeRefused(k, named, p) ==
  \E f \in Fields : named[f] \notin {Null, Empty, Keep} /\ ~ applies(k, f, p)

\* A wireless secret stays for null and for an absent key.
keepWriteOnly(k, stored, set) ==
  [f \in Fields |-> IF k = "wireless" /\ f \in Secrets /\ set[f] = Null
                    THEN stored[f] ELSE set[f]]

\* uci holds no empty list, drops what the proto does not take, and some unset
\* options read as a default.
normalizeStored(k, p, set) ==
  [f \in Fields |-> IF ~ applies(k, f, p) THEN Null
                    ELSE IF set[f] \in {Null, Empty} THEN Default[f][p]
                    ELSE set[f]]

readWithoutEmpty(k, obj, m) ==
  [f \in Fields |-> IF f \in Secrets THEN m[f] ELSE obj[f]]

\* read, with listValKeepEmpty: m is the plan or the prior state.
read(k, obj, m) ==
  [f \in Fields |-> IF \/ f \in Secrets
                       \/ f \in Lists /\ obj[f] = Null /\ m[f] = Empty
                    THEN m[f] ELSE obj[f]]
=============================================================================
