----------------------------- MODULE ApplyProofs -----------------------------
(***************************************************************************)
(* What an apply leaves alone, what it is refused for, and how its outcome   *)
(* fits the plan, under assumptions about the tables of provider and uapi    *)
(* (AttributePlan) that each theorem names.                                  *)
(***************************************************************************)
EXTENDS LifecycleProofs

\* Writing back what is there, or nothing where nothing is there or could be, leaves
\* the option as it is.
LEMMA StaysNormal ==
  ASSUME TypeOK, section # NoSection, NEW s, NEW f \in Fields,
         \/ s[f] = section.set[f]
         \/ s[f] \in {Null, Empty} /\ section.set[f] = Null
         \/ ~ applies(kind, f, section.proto)
  PROVE  normalizeStored(kind, section.proto, s)[f] = section.set[f]
<1>1. section \in Sections(kind)
  BY DEF TypeOK, Missing
<1>2. normalizeStored(kind, section.proto, section.set)[f] = section.set[f]
  BY <1>1 DEF Sections
<1> QED
  BY <1>2, Marks DEF normalizeStored

\* A write changes the section in one of three ways, each by a request of Apply.
LEMMA WritesAre ==
  ASSUME TypeOK, Next, Wrote, section # NoSection
  PROVE  \/ /\ Configure
            /\ section' = Section(section.proto, MergePatch(section.set, wholeBody(Body)),
                                  section.options)
         \/ /\ Update /\ ETagMatches /\ ~ UpdateRefused
            /\ section' = Updated
         \/ Delete /\ kind # "singleton" /\ section' = NoSection
<1>1. CASE Create
  BY <1>1 DEF Create, Refuse, Unanswered, Wrote
<1>2. CASE Configure
  BY <1>2 DEF Configure, Write, Answered, Unanswered, Wrote
<1>3. CASE Update
  BY <1>3 DEF Update, Updated, Refuse, Write, Answered, Unanswered, Wrote
<1>4. CASE Delete
  BY <1>4 DEF Delete, Refuse, Unanswered, Wrote
<1>5. CASE RejectConfig \/ ApplyStopped \/ ApplyNothing
  BY <1>5 DEF RejectConfig, ApplyStopped, ApplyNothing, Wrote
<1>6. CASE Refresh \/ MakePlan \/ PlanDestroy \/ Import \/ Edit \/ Reconfigure \/ SkipRefresh
  BY <1>6 DEF Refresh, MakePlan, PlanDestroy, Import, Edit, Reconfigure, SkipRefresh, Wrote
<1> QED
  BY <1>1, <1>2, <1>3, <1>4, <1>5, <1>6 DEF Next, Run, Apply

\* A section has a proto, and the one that is not there has none.
LEMMA SectionHasProto ==
  ASSUME TypeOK, section # NoSection
  PROVE  section.proto # NoSection.proto /\ section.proto \in Protos
  BY SectionFields, KindAssumption, ProtoAssumption DEF NoSection, TypeOK
-----------------------------------------------------------------------------
(* What the configuration does not name.                                    *)

\* Of a field that is Optional+Computed and not configured, body sends what the
\* section has, or nothing where it has nothing.
LEMMA UnconfiguredBody ==
  ASSUME IInv, ScopeIsSound, config # NoConfig, state # NoState, ETagMatches,
         section # NoSection, kind = "interface" => config.proto = section.proto,
         NEW f \in Sticky, config.set[f] = Null
  PROVE  \/ Body[f] = section.set[f]
         \/ Body[f] \in {Null, Empty} /\ section.set[f] = Null
         \/ ~ applies(kind, f, section.proto)
<1>1. f \in Fields \ Secrets
  BY ClassAssumption
<1>2. /\ state.proto = section.proto
      /\ state.set[f] = section.set[f] \/ (state.set[f] = Empty /\ section.set[f] = Null)
  BY <1>1, MatchShows DEF IInv, Shows
<1>3. section.proto \in Protos /\ section.proto # Null /\ section.proto # Unknown
  BY SectionHasProto, ProtoAssumption DEF IInv
<1>4. state.set[f] # Unknown
  BY <1>1, StoredIsValue, ConfigFields DEF IInv
<1>5. UseStateForUnknown(config, state, f) = state.set[f]
  BY <1>2, <1>3 DEF UseStateForUnknown, Proposed
<1>6. Final.set[f] = modifyPlan(kind, config, state, f)
  BY <1>1 DEF Final, Planned
<1>7. Body[f] = IF Final.set[f] = Unknown THEN Null ELSE Final.set[f]
  BY <1>1 DEF Body, body
<1>8. CASE kind # "interface"
  BY <1>2, <1>4, <1>5, <1>6, <1>7, <1>8 DEF modifyPlan
<1>9. CASE kind = "interface" /\ f \in Excluded[section.proto]
  BY <1>1, <1>3, <1>9 DEF ScopeIsSound, applies
<1>10. CASE kind = "interface" /\ f \notin Excluded[section.proto]
  <2>1. Final.set[f] = state.set[f]
    BY <1>2, <1>3, <1>5, <1>6, <1>10 DEF modifyPlan, excluded
  <2> QED
    BY <1>2, <1>4, <1>7, <2>1
<1> QED
  BY <1>8, <1>9, <1>10

\* Where neither the configuration nor the plan has a value, a patch leaves the
\* secret of a wireless section alone.
LEMMA SecretStays ==
  ASSUME IInv, kind = "wireless", NEW f \in Secrets, config.set[f] = Null
  PROVE  keepWriteOnly(kind, section.set, MergePatch(section.set, Delta))[f] = section.set[f]
<1>1. f \in Fields /\ f \notin Sticky
  BY ClassAssumption
<1>2. modifyPlan(kind, config, state, f) = Null
  BY <1>1 DEF modifyPlan, UseStateForUnknown, Proposed
<1>3. Body[f] = Null
  BY <1>1, <1>2, Marks DEF Body, body, Final, Planned
<1>4. Delta[f] \in {Keep, Null}
  BY <1>1, <1>3 DEF Delta, mergeDelta
<1> QED
  BY <1>1, <1>4, Marks DEF MergePatch, keepWriteOnly

\* When the provider's table excludes only what uapi does not take, an update that
\* keeps the proto, and the create of a singleton, leave alone what is not configured
\* and computed, and a wireless section keeps its secret.
THEOREM UnconfiguredIsKept ==
  ASSUME ScopeIsSound PROVE Spec => UnconfiguredSurvives
<1> DEFINE Left(f) == /\ config.set[f] = Null
                      /\ f \in Sticky \/ (f \in Secrets /\ kind = "wireless")
           Spared == Wrote /\ section # NoSection /\ section'.proto = section.proto =>
                       \A f \in Fields : Left(f) => section'.set[f] = section.set[f]
<1>1. IInv /\ [Next]_vars => [Spared]_vars
  <2> SUFFICES ASSUME IInv, Next, Wrote, section # NoSection,
                      section'.proto = section.proto, NEW f \in Fields, Left(f)
               PROVE  section'.set[f] = section.set[f]
    BY DEF Wrote
  <2> USE DEF IInv
  <2>1. CASE Configure /\ section' = Section(section.proto,
                            MergePatch(section.set, wholeBody(Body)), section.options)
    <3>1. kind = "singleton" /\ state = NoState /\ f \in Sticky
      BY <2>1 DEF Configure, Creates
    <3>2. modifyPlan(kind, config, state, f) = Unknown
      BY <3>1 DEF modifyPlan, UseStateForUnknown, NoState
    <3>3. Body[f] = Null
      BY <3>2 DEF Body, body, Final, Planned
    <3>4. MergePatch(section.set, wholeBody(Body))[f] = section.set[f]
      BY <3>3 DEF MergePatch, wholeBody
    <3>5. section'.set = normalizeStored(kind, section.proto, MergePatch(section.set, wholeBody(Body)))
      BY <2>1 DEF Section
    <3> HIDE DEF Left
    <3> QED
      BY <3>4, <3>5, StaysNormal
  <2>2. CASE Update /\ ETagMatches /\ ~ UpdateRefused /\ section' = Updated
    <3>1. config # NoConfig /\ state # NoState
      BY <2>2 DEF Update, Updates
    <3>2. state.proto = section.proto /\ Final.proto = config.proto
      BY <2>2, <3>1, MatchShows DEF Shows, Final, Planned
    <3> DEFINE whole == IF Patches THEN MergePatch(section.set, Delta)
                        ELSE IF kind = "singleton" THEN MergePatch(section.set, wholeBody(Body))
                        ELSE Body
               kept  == keepWriteOnly(kind, section.set, whole)
    <3>3. section'.set = normalizeStored(kind, section'.proto, kept)
      BY <2>2 DEF Updated, Patched, Replaced, Section
    <3>4. kind = "interface" => config.proto = section.proto
      BY <2>2, <3>2 DEF Updated, Patches, patches, Replaced, Section
    <3>5. whole[f] \in {section.set[f], Body[f]}
      BY DEF MergePatch, Delta, mergeDelta, wholeBody
    <3>6. CASE f \in Sticky
      <4>1. kept[f] = whole[f]
        BY <3>6, ClassAssumption DEF keepWriteOnly
      <4>2. \/ kept[f] = section.set[f]
            \/ kept[f] \in {Null, Empty} /\ section.set[f] = Null
            \/ ~ applies(kind, f, section.proto)
        BY <2>2, <3>1, <3>4, <3>5, <3>6, <4>1, UnconfiguredBody
      <4> HIDE DEF kept, whole
      <4> QED
        BY <3>3, <4>2, StaysNormal
    <3>7. CASE f \in Secrets /\ kind = "wireless"
      <4>1. kept[f] = section.set[f]
        BY <3>7, SecretStays DEF Patches
      <4> HIDE DEF kept, whole
      <4> QED
        BY <3>3, <4>1, StaysNormal
    <3> QED
      BY <3>6, <3>7
  <2>3. CASE Delete /\ section' = NoSection
    BY <2>3, SectionHasProto
  <2> HIDE DEF Left
  <2> QED
    BY <2>1, <2>2, <2>3, WritesAre
<1>2. Spec => [][Spared]_vars
  BY InitInv, Inductive, <1>1, PTL DEF Spec
<1> QED
  BY <1>2 DEF UnconfiguredSurvives

\* The options that the provider has no name for survive each update of a wireless
\* section, of a singleton, and of an interface that stays on a proto that uapi does
\* not model: each of these is a PATCH, whatever the tables say.
THEOREM OptionsAreKept == Spec => OptionsSurvive
<1> DEFINE Patching == \/ kind \in {"wireless", "singleton"}
                       \/ kind = "interface" /\ section'.proto = section.proto
                          /\ section.proto \notin Known
           Spared == /\ Wrote /\ section # NoSection /\ section' # NoSection
                     /\ Patching
                     => section'.options = section.options
<1>1. IInv /\ [Next]_vars => [Spared]_vars
  <2> SUFFICES ASSUME IInv, Next, Wrote, section # NoSection, section' # NoSection, Patching
               PROVE  section'.options = section.options
    BY DEF Wrote
  <2> USE DEF IInv
  <2>1. CASE Configure /\ section' = Section(section.proto,
                            MergePatch(section.set, wholeBody(Body)), section.options)
    BY <2>1 DEF Section
  <2>2. CASE ~ UpdateRefused /\ section' = Updated
    <3>1. CASE Patches \/ kind = "singleton"
      BY <2>2, <3>1 DEF Updated, Patched, Section
    <3>2. CASE ~ Patches /\ kind # "singleton"
      <4>1. Final.proto \in Known /\ section'.proto = Final.proto
        BY <2>2, <3>2 DEF Updated, UpdateRefused, Replaced, Section
      <4> QED
        BY <3>2, <4>1 DEF Patches
    <3> QED
      BY <3>1, <3>2
  <2> QED
    BY <2>1, <2>2, WritesAre
<1>2. Spec => [][Spared]_vars
  BY InitInv, Inductive, <1>1, PTL DEF Spec
<1> QED
  BY <1>2 DEF OptionsSurvive
-----------------------------------------------------------------------------
(* Refusals. *)

\* With a complete table a valid configuration on a proto that uapi models makes a
\* body that uapi does not refuse for scope.
LEMMA BodyInScope ==
  ASSUME TypeOK, NEW protos \in SUBSET Protos, ScopeIsComplete(protos),
         config # NoConfig, config.proto \in protos, validateConfig(kind, config)
  PROVE  ~ scopeRefused(kind, Body, config.proto)
<1> SUFFICES ASSUME NEW f \in Fields, ~ applies(kind, f, config.proto)
             PROVE  Body[f] \in {Null, Empty}
  BY DEF scopeRefused
<1>1. /\ kind = "interface" /\ f \in Excluded[config.proto]
      /\ config.proto \in Protos /\ config.proto # Unknown
  BY ClassAssumption, ProtoAssumption DEF applies, ScopeIsComplete
<1>2. config.set[f] \in {Null, Empty}
  BY <1>1, ConfigFields, StoredIsValue DEF validateConfig, excluded
<1>3. modifyPlan(kind, config, state, f) \in {Null, Empty}
  BY <1>1, <1>2, Marks DEF modifyPlan, excluded, UseStateForUnknown, Proposed
<1> QED
  BY <1>3, Marks DEF Body, body, Final, Planned

\* When the provider's table has all that uapi does not take on the protos that uapi
\* models, no apply on such a proto is refused for scope: validateConfig reports what
\* is configured and modifyPlan plans the rest as null.
THEOREM ScopeIsNotRefused ==
  ASSUME ScopeIsComplete(Known) PROVE Spec => []RefusedOnlyOnUnmodelledProto
<1>1. Init => RefusedOnlyOnUnmodelledProto
  BY DEF Init, RefusedOnlyOnUnmodelledProto
<1>2. IInv /\ RefusedOnlyOnUnmodelledProto /\ [Next]_vars => RefusedOnlyOnUnmodelledProto'
  <2> SUFFICES ASSUME IInv, RefusedOnlyOnUnmodelledProto, [Next]_vars,
                      verdict' = "refused"
               PROVE  config'.proto \notin Known
    BY DEF RefusedOnlyOnUnmodelledProto
  <2> USE DEF IInv
  <2>1. CASE Create
    <3>1. /\ config.proto \notin Known \/ scopeRefused(kind, Body, config.proto)
          /\ config' = config /\ config # NoConfig /\ validateConfig(kind, config)
      BY <2>1 DEF Create, Applying, Creates, Refuse, Write, Answered, Unanswered, End
    <3> QED
      BY <3>1, BodyInScope, ClassAssumption
  <2>2. CASE Update
    <3>1. /\ UpdateRefused /\ config' = config /\ config # NoConfig
          /\ validateConfig(kind, config) /\ Final.proto = config.proto
      BY <2>2 DEF Update, Applying, Updates, Refuse, Write, Answered, Unanswered, End,
                  Final, Planned
    <3>2. CASE Patches /\ kind = "interface"
      BY <3>1, <3>2 DEF Patches, patches
    <3>3. CASE Patches /\ kind # "interface"
      BY <3>1, <3>3 DEF UpdateRefused, scopeRefused, applies
    <3>4. CASE ~ Patches
      BY <3>1, <3>4, BodyInScope, ClassAssumption DEF UpdateRefused
    <3> QED
      BY <3>2, <3>3, <3>4
  <2>3. CASE Configure
    BY <2>3 DEF Configure, Write, Answered, Unanswered, End
  <2>4. CASE Delete
    BY <2>4 DEF Delete, Refuse, Unanswered, End
  <2>5. CASE RejectConfig \/ ApplyStopped \/ ApplyNothing
    BY <2>5 DEF RejectConfig, ApplyStopped, ApplyNothing, End
  <2>6. CASE Refresh \/ MakePlan \/ PlanDestroy \/ Import \/ Edit \/ Reconfigure \/ SkipRefresh
    BY <2>6 DEF Refresh, MakePlan, PlanDestroy, Import, Edit, Reconfigure, SkipRefresh,
                RefusedOnlyOnUnmodelledProto
  <2>7. CASE UNCHANGED vars
    BY <2>7 DEF vars, RefusedOnlyOnUnmodelledProto
  <2> QED
    BY <2>1, <2>2, <2>3, <2>4, <2>5, <2>6, <2>7 DEF Next, Run, Apply
<1> QED
  BY InitInv, Inductive, <1>1, <1>2, PTL DEF Spec

\* An update that keeps the proto is not refused when the table is complete: a PUT is
\* valid as a whole, and a merge PATCH names nothing but what the body has.
LEMMA SameProtoIsTaken ==
  ASSUME IInv, ScopeIsComplete(Protos), config # NoConfig, validateConfig(kind, config),
         state # NoState, section # NoSection, ETagMatches, config.proto = state.proto
  PROVE  ~ UpdateRefused
<1> USE DEF IInv
<1>1. /\ config.proto \in ProtoOf[kind] /\ config.proto \in Protos
      /\ kind \in RunKinds /\ kind \in Kinds
  BY ConfigFields, KindAssumption DEF TypeOK
<1>2. section.proto = config.proto /\ Final.proto = config.proto
  BY MatchShows DEF Shows, Final, Planned
<1>3. ~ scopeRefused(kind, Body, config.proto)
  BY <1>1, BodyInScope
<1>4. CASE Patches
  <2>1. \A f \in Fields : Delta[f] \in {Keep, Body[f]}
    BY DEF Delta, mergeDelta
  <2>2. ~ scopeRefused(kind, Delta, config.proto)
    BY <1>3, <2>1 DEF scopeRefused
  <2> QED
    BY <1>2, <1>4, <2>2 DEF UpdateRefused
<1>5. CASE ~ Patches
  <2>1. config.proto \in Known
    BY <1>1, <1>2, <1>5, DiscriminatorAssumption DEF Patches, patches
  <2> QED
    BY <1>2, <1>3, <1>5, <2>1 DEF UpdateRefused
<1> QED
  BY <1>4, <1>5

\* What a refusal leaves behind until something changes.
RefusedOnSwitch ==
  verdict = "refused" => /\ config # NoConfig
                         /\ config.proto # state.proto
                         /\ state # NoState => section.proto = state.proto

\* With a table that is complete on every proto, modelled or not, an update that keeps
\* the proto of its section is never refused for scope: validateConfig has reported it.
\* The refresh after a refusal does not bring the state to the configured proto.
THEOREM RefusalsAreReported ==
  ASSUME ScopeIsComplete(Protos) PROVE Spec => []RefusalsAreReportedAtPlan
<1>1. Init => RefusedOnSwitch
  BY DEF Init, RefusedOnSwitch
<1>2. IInv /\ RefusedOnSwitch /\ [Next]_vars => RefusedOnSwitch'
  <2> SUFFICES ASSUME IInv, RefusedOnSwitch, [Next]_vars, verdict' = "refused"
               PROVE  /\ config' # NoConfig
                      /\ config'.proto # state'.proto
                      /\ state' # NoState => section'.proto = state'.proto
    BY DEF RefusedOnSwitch
  <2> USE DEF IInv
  <2>1. config # NoConfig => config.proto # NoState.proto
    BY ConfigFields, KindAssumption, ProtoAssumption DEF NoState, TypeOK
  <2>2. CASE Create
    BY <2>1, <2>2 DEF Create, Creates, Refuse, Write, Answered, Unanswered, End
  <2>3. CASE Update
    <3>1. /\ config # NoConfig /\ validateConfig(kind, config) /\ state # NoState
          /\ section # NoSection /\ ETagMatches /\ UpdateRefused
          /\ config' = config /\ state' = state /\ section' = section
      BY <2>3 DEF Update, Applying, Updates, Refuse, Write, Answered, Unanswered, End
    <3>2. config.proto # state.proto
      BY <3>1, SameProtoIsTaken
    <3>3. section.proto = state.proto
      BY <3>1, MatchShows DEF Shows
    <3> QED
      BY <3>1, <3>2, <3>3
  <2>4. CASE Configure
    BY <2>4 DEF Configure, Write, Answered, Unanswered, End
  <2>5. CASE Delete
    BY <2>5 DEF Delete, Refuse, Unanswered, End
  <2>6. CASE RejectConfig \/ ApplyStopped \/ ApplyNothing
    BY <2>6 DEF RejectConfig, ApplyStopped, ApplyNothing, End
  <2>7. CASE Refresh
    BY <2>1, <2>7 DEF Refresh, RefusedOnSwitch, StateOf
  <2>8. CASE MakePlan \/ PlanDestroy \/ SkipRefresh
    BY <2>8 DEF MakePlan, PlanDestroy, SkipRefresh, RefusedOnSwitch
  <2>9. CASE Import \/ Edit \/ Reconfigure
    BY <2>9 DEF Import, Edit, Reconfigure
  <2>10. CASE UNCHANGED vars
    BY <2>10 DEF vars, RefusedOnSwitch
  <2> QED
    BY <2>2, <2>3, <2>4, <2>5, <2>6, <2>7, <2>8, <2>9, <2>10 DEF Next, Run, Apply
<1>3. RefusedOnSwitch => RefusalsAreReportedAtPlan
  BY DEF RefusedOnSwitch, RefusalsAreReportedAtPlan
<1> QED
  BY InitInv, Inductive, <1>1, <1>2, <1>3, PTL DEF Spec
-----------------------------------------------------------------------------
(* Two plans of one run. *)

\* The plan of a run was made for its configuration from the state as it still is: edits
\* by others come between plan and apply, an import does not.
PlanOfRun ==
  phase = "planned" /\ config # NoConfig =>
    \E hidden \in HiddenSets : plan = Planned(kind, Hide(hidden), state)

\* A field is planned with unknown values as what it is planned as once they are known,
\* or as unknown; what the proto does not take is null in both.
LEMMA FieldRefines ==
  ASSUME TypeOK, config # NoConfig, NEW hidden, NEW f \in Fields
  PROVE  Refines(modifyPlan(kind, config, state, f), modifyPlan(kind, Hide(hidden), state, f))
<1> DEFINE c == Hide(hidden)
<1>1. /\ config.proto \in Protos /\ config.proto # Null /\ config.proto # Unknown
      /\ Null \notin Protos /\ Unknown \notin Protos
  BY ConfigFields, KindAssumption, ProtoAssumption DEF TypeOK
<1>2. c.set[f] \in {config.set[f], Unknown} /\ c.proto \in {config.proto, Unknown}
  BY DEF Hide
<1>3. CASE c.set[f] = Unknown
  BY <1>3, Marks DEF modifyPlan, UseStateForUnknown, Proposed, Refines
<1>4. CASE c.set[f] = config.set[f] /\ ~ (config.set[f] = Null /\ f \in Sticky)
  BY <1>4 DEF modifyPlan, UseStateForUnknown, Proposed, Refines
<1>5. CASE c.set[f] = config.set[f] /\ config.set[f] = Null /\ f \in Sticky
  <2>1. Refines(UseStateForUnknown(config, state, f), UseStateForUnknown(c, state, f))
    BY <1>5 DEF UseStateForUnknown, Proposed, Refines, NoState
  <2>2. CASE kind # "interface"
    BY <2>1, <2>2 DEF modifyPlan
  <2>3. CASE kind = "interface" /\ c.proto = Unknown
    <3>1. CASE f \in scoped
      BY <1>5, <2>3, <3>1 DEF modifyPlan, Refines
    <3>2. CASE f \notin scoped
      <4>1. f \notin excluded(kind, config.proto) /\ f \notin excluded(kind, state.proto)
        BY <3>2 DEF excluded, scoped
      <4> QED
        BY <1>1, <1>5, <2>1, <2>3, <3>2, <4>1 DEF modifyPlan
    <3> QED
      BY <3>1, <3>2
  <2>4. CASE kind = "interface" /\ c.proto = config.proto
    BY <1>1, <1>5, <2>1, <2>4 DEF modifyPlan, Refines
  <2> QED
    BY <1>2, <2>2, <2>3, <2>4
<1> QED
  BY <1>2, <1>3, <1>4, <1>5

\* What changes once every value is known was planned to change, so the etag that is
\* unknown in the final plan was unknown before.
LEMMA ChangeWasPlanned ==
  ASSUME TypeOK, config # NoConfig, NEW hidden, Changed(config, state)
  PROVE  Changed(Hide(hidden), state)
<1> DEFINE c == Hide(hidden)
<1>1. /\ config.proto # Null /\ state.proto # Unknown /\ Null # Unknown
  BY ConfigFields, KindAssumption, ProtoAssumption, Marks DEF TypeOK
<1>2. c.proto \in {config.proto, Unknown}
  BY DEF Hide
<1>3. CASE config.proto # state.proto
  BY <1>1, <1>2, <1>3 DEF Changed
<1>4. CASE \E f \in Fields : Proposed(config, state, f) # state.set[f]
  <2>1. PICK f \in Fields : Proposed(config, state, f) # state.set[f]
    BY <1>4
  <2>2. state.set[f] # Unknown /\ c.set[f] \in {config.set[f], Unknown}
    BY ConfigFields, StoredIsValue DEF Hide
  <2>3. Proposed(c, state, f) # state.set[f]
    BY <2>1, <2>2, Marks DEF Proposed
  <2> QED
    BY <2>3 DEF Changed
<1> QED
  BY <1>3, <1>4 DEF Changed

\* No apply ends in Terraform's "Provider produced inconsistent final plan", for any
\* schema and table, whatever was unknown while planning.
THEOREM FinalPlansFit == Spec => []FinalPlanFits
<1> DEFINE Kept == PlanOfRun /\ FinalPlanFits
<1>1. Init => Kept
  BY DEF Init, PlanOfRun, FinalPlanFits
<1>2. IInv /\ Kept /\ [Next]_vars => Kept'
  <2> SUFFICES ASSUME IInv, PlanOfRun, FinalPlanFits, [Next]_vars
               PROVE  PlanOfRun' /\ FinalPlanFits'
    OBVIOUS
  <2> USE DEF IInv
  <2>1. CASE MakePlan
    <3>1. PICK hidden \in HiddenSets : plan' = Planned(kind, Hide(hidden), state)
      BY <2>1 DEF MakePlan
    <3>2. kind' = kind /\ config' = config /\ state' = state /\ verdict' = verdict
      BY <2>1 DEF MakePlan
    <3>3. plan' = Planned(kind', Hide(hidden)', state')
      BY <3>1, <3>2 DEF Hide
    <3> QED
      BY <3>2, <3>3 DEF PlanOfRun, FinalPlanFits
  <2>2. CASE PlanDestroy \/ Reconfigure \/ SkipRefresh \/ Refresh
    BY <2>2 DEF PlanDestroy, Reconfigure, SkipRefresh, Refresh, PlanOfRun, FinalPlanFits
  <2>3. CASE Edit \/ Import
    <3>1. /\ kind' = kind /\ config' = config /\ plan' = plan /\ phase' = phase
          /\ state' = state \/ phase # "planned"
      BY <2>3 DEF Edit, Import
    <3>2. verdict' = "none"
      BY <2>3 DEF Edit, Import
    <3>3. \A hidden : Hide(hidden)' = Hide(hidden)
      BY <3>1 DEF Hide
    <3> QED
      BY <3>1, <3>2, <3>3 DEF PlanOfRun, FinalPlanFits
  <2>4. CASE ApplyStopped
    <3>1. FinalRefinesPlan
      <4>1. PICK hidden \in HiddenSets : plan = Planned(kind, Hide(hidden), state)
        BY <2>4 DEF ApplyStopped, PlanOfRun
      <4>2. config # NoConfig
        BY <2>4 DEF ApplyStopped
      <4>3. \A f \in Fields : Refines(Final.set[f], plan.set[f])
        BY <4>1, <4>2, FieldRefines DEF Final, Planned
      <4>4. Final.fresh => plan.fresh
        BY <4>1, <4>2, ChangeWasPlanned DEF Final, Planned
      <4>5. Refines(Final.proto, plan.proto)
        BY <4>1 DEF Final, Planned, Hide, Refines
      <4> QED
        BY <4>3, <4>4, <4>5 DEF FinalRefinesPlan
    <3> QED
      BY <2>4, <3>1 DEF ApplyStopped, End, PlanOfRun, FinalPlanFits
  <2>5. CASE RejectConfig \/ ApplyNothing
    BY <2>5 DEF RejectConfig, ApplyNothing, End, PlanOfRun, FinalPlanFits
  <2>6. CASE Create \/ Configure \/ Update
    BY <2>6 DEF Create, Configure, Update, Refuse, Write, Answered, Unanswered, End,
                PlanOfRun, FinalPlanFits
  <2>7. CASE Delete
    BY <2>7 DEF Delete, Refuse, Unanswered, End, PlanOfRun, FinalPlanFits
  <2>8. CASE UNCHANGED vars
    BY <2>8 DEF vars, PlanOfRun, FinalPlanFits, Hide
  <2> QED
    BY <2>1, <2>2, <2>3, <2>4, <2>5, <2>6, <2>7, <2>8 DEF Next, Run, Apply
<1> QED
  BY InitInv, Inductive, <1>1, <1>2, PTL DEF Spec
-----------------------------------------------------------------------------
(* The plan after an apply. *)

\* The state is what the section reads as, and a plan with every value known is empty.
Settled == /\ state # NoState /\ section # NoSection
           /\ state = StateOf(section, state.set)
           /\ ~ Updates

SettledWhenOk == verdict = "ok" /\ config # NoConfig => Settled

\* Reading a section again changes nothing: a [] that the section does not have stays.
LEMMA ReadAgain ==
  ASSUME NEW obj, NEW m
  PROVE  StateOf(obj, StateOf(obj, m).set) = StateOf(obj, m)
<1>1. \A f \in Fields :
        read(kind, obj.set, read(kind, obj.set, m))[f] = read(kind, obj.set, m)[f]
  BY DEF read
<1>2. read(kind, obj.set, read(kind, obj.set, m)) = read(kind, obj.set, m)
  BY <1>1 DEF read
<1> QED
  BY <1>2 DEF StateOf

\* An answer that fits the final plan leaves nothing to plan: what is configured is in
\* the state, what is not is planned as it came back, or is null on this proto anyway.
LEMMA FittingAnswerSettles ==
  ASSUME IInv, config # NoConfig, NEW obj \in Sections(kind),
         Answered(obj), Fits(StateOf(obj, Final.set))
  PROVE  Settled'
<1> DEFINE result == StateOf(obj, Final.set)
<1> USE DEF IInv
<1>1. /\ section' = obj /\ state' = result /\ config' = config /\ kind' = kind
      /\ obj.proto \in Protos /\ config.proto \in Protos
      /\ Null \notin Protos
  BY ConfigFields, KindAssumption, ProtoAssumption DEF Answered, End, Sections, TypeOK
<1>2. state' # NoState /\ section' # NoSection
  BY <1>1 DEF StateOf, NoState, NoSection
<1>3. state' = StateOf(section, state.set)'
  <2>1. StateOf(section, state.set)' = StateOf(obj, result.set)
    BY <1>1 DEF StateOf, ETag
  <2> QED
    BY <1>1, <2>1, ReadAgain
<1>4. result.proto = config.proto /\ \A f \in Fields : Refines(result.set[f], Final.set[f])
  BY DEF Fits, Final, Planned
<1>5. ASSUME NEW f \in Fields
      PROVE  /\ Proposed(config, result, f) = result.set[f]
             /\ modifyPlan(kind, config, result, f) = result.set[f]
  <2>1. Final.set[f] = modifyPlan(kind, config, state, f)
    BY DEF Final, Planned
  <2>2. config.set[f] # Unknown
    BY ConfigFields, StoredIsValue
  <2>3. CASE ~ (config.set[f] = Null /\ f \in Sticky)
    <3>1. Final.set[f] = config.set[f]
      BY <2>1, <2>3 DEF modifyPlan, UseStateForUnknown, Proposed
    <3>2. result.set[f] = config.set[f]
      BY <1>4, <2>2, <3>1 DEF Refines
    <3> QED
      BY <2>3, <3>2 DEF modifyPlan, UseStateForUnknown, Proposed
  <2>4. CASE config.set[f] = Null /\ f \in Sticky
    <3>1. UseStateForUnknown(config, result, f) = result.set[f]
      BY <1>1, <1>4, <2>4 DEF UseStateForUnknown, Proposed
    <3>2. ASSUME kind = "interface", f \in excluded(kind, config.proto)
          PROVE  result.set[f] = Null
      <4>1. Final.set[f] = Null
        BY <1>1, <2>1, <2>4, <3>2, ProtoAssumption DEF modifyPlan
      <4> QED
        BY <1>4, <4>1, Marks DEF Refines
    <3> QED
      BY <1>1, <1>4, <2>4, <3>1, <3>2, ProtoAssumption DEF modifyPlan, Proposed
  <2> QED
    BY <2>3, <2>4
<1>6. ~ Updates'
  <2>1. \A f \in Fields : Final.set[f]' = state.set[f]'
    BY <1>1, <1>5 DEF Final, Planned
  <2>2. ~ Final.fresh'
    BY <1>1, <1>4, <1>5 DEF Final, Planned, Changed
  <2> QED
    BY <2>1, <2>2 DEF Updates
<1> QED
  BY <1>2, <1>3, <1>6 DEF Settled

\* After an apply that ended well, and until something changes, the next plan is empty,
\* for any schema and table, with a refresh or without one.
THEOREM PlansSettle == Spec => []EmptyPlanAfterApply
<1>1. Init => SettledWhenOk
  BY DEF Init, SettledWhenOk
<1>2. IInv /\ SettledWhenOk /\ [Next]_vars => SettledWhenOk'
  <2> SUFFICES ASSUME IInv, SettledWhenOk, [Next]_vars, verdict' = "ok", config' # NoConfig
               PROVE  Settled'
    BY DEF SettledWhenOk
  <2> USE DEF IInv
  <2>1. ASSUME NEW obj \in Sections(kind), config # NoConfig, Write(obj)
        PROVE  Settled'
    <3>1. Answered(obj) /\ Fits(StateOf(obj, Final.set))
      BY <2>1 DEF Write, Answered, Unanswered, End
    <3> QED
      BY <2>1, <3>1, FittingAnswerSettles
  <2>2. CASE Create
    <3>1. config # NoConfig /\ Section(config.proto, Body, {}) \in Sections(kind)
      BY <2>2, ConfigFields, FinalFields, SectionType DEF Create, Creates
    <3> QED
      BY <2>1, <2>2, <3>1 DEF Create, Refuse, Unanswered, End
  <2>3. CASE Configure
    BY <2>1, <2>3, ConfiguredType DEF Configure, Creates
  <2>4. CASE Update
    BY <2>1, <2>4, UpdatedType DEF Update, Updated, Refuse, Unanswered, End, Updates
  <2>5. CASE Delete
    BY <2>5 DEF Delete, Refuse, Unanswered, End
  <2>6. CASE RejectConfig \/ ApplyStopped \/ ApplyNothing
    BY <2>6 DEF RejectConfig, ApplyStopped, ApplyNothing, End
  <2>7. CASE Refresh
    <3>1. Settled /\ state' = state /\ section' = section /\ config' = config /\ kind' = kind
      BY <2>7 DEF Refresh, SettledWhenOk, Settled
    <3> QED
      BY <3>1 DEF Settled, Updates, Final, StateOf, ETag
  <2>8. CASE MakePlan \/ PlanDestroy \/ SkipRefresh \/ UNCHANGED vars
    <3>1. /\ Settled /\ state' = state /\ section' = section /\ config' = config
          /\ kind' = kind
      BY <2>8 DEF MakePlan, PlanDestroy, SkipRefresh, vars, SettledWhenOk
    <3> QED
      BY <3>1 DEF Settled, Updates, Final, StateOf, ETag
  <2>9. CASE Import \/ Edit \/ Reconfigure
    BY <2>9 DEF Import, Edit, Reconfigure
  <2> QED
    BY <2>2, <2>3, <2>4, <2>5, <2>6, <2>7, <2>8, <2>9 DEF Next, Run, Apply
<1>3. SettledWhenOk => EmptyPlanAfterApply
  BY DEF SettledWhenOk, Settled, EmptyPlanAfterApply, Creates
<1> QED
  BY InitInv, Inductive, <1>1, <1>2, <1>3, PTL DEF Spec
-----------------------------------------------------------------------------
(* The answer of an apply. *)

\* What the proto of the state does not take is null in the state, or a [] that was
\* written for it.
StateInScope ==
  state # NoState /\ kind = "interface" =>
    \A f \in Excluded[state.proto] \ Secrets :
      state.set[f] = Null \/ (f \in Lists /\ state.set[f] = Empty)

\* What is read from a section has nothing that its proto does not take.
LEMMA ReadInScope ==
  ASSUME TypeOK, ScopeIsSound, NEW obj \in Sections(kind), NEW m, kind = "interface",
         NEW f \in Excluded[obj.proto] \ Secrets
  PROVE  \/ StateOf(obj, m).set[f] = Null
         \/ f \in Lists /\ StateOf(obj, m).set[f] = Empty
<1>1. obj.proto \in Protos
  BY KindAssumption DEF Sections, TypeOK
<1>2. f \in Fields /\ obj.proto \notin Applies[f]
  BY <1>1, TableAssumption DEF ScopeIsSound
<1>3. obj.set[f] = normalizeStored(kind, obj.proto, obj.set)[f]
  BY DEF Sections
<1>4. obj.set[f] = Null
  BY <1>2, <1>3 DEF normalizeStored, applies
<1> QED
  BY <1>2, <1>4 DEF StateOf, read

\* When no list is both Computed and scoped, the change of an update is always one that
\* the framework sees before modifyPlan runs, and the etag is planned as unknown.  With
\* such a list it is not: the run etag_kept.
THEOREM ETagsArePlanned ==
  ASSUME ScopeIsSound, Sticky \cap Lists \cap scoped = {}
  PROVE  Spec => []UpdatesPlanTheirETag
<1>1. Init => StateInScope
  BY DEF Init, StateInScope
<1>2. IInv /\ StateInScope /\ [Next]_vars => StateInScope'
  <2> SUFFICES ASSUME IInv, StateInScope, [Next]_vars PROVE StateInScope'
    OBVIOUS
  <2> USE DEF IInv
  <2>1. kind' = kind
    BY DEF Next, Run, Apply, Refresh, MakePlan, PlanDestroy, RejectConfig, ApplyStopped,
           ApplyNothing, Create, Configure, Update, Delete, Refuse, Write, Answered,
           Unanswered, End, Import, Edit, Reconfigure, SkipRefresh, vars
  <2>2. ASSUME NEW obj \in Sections(kind), NEW m, state' = StateOf(obj, m)
        PROVE  StateInScope'
    <3>1. state'.proto = obj.proto
      BY <2>2 DEF StateOf
    <3> QED
      BY <2>1, <2>2, <3>1, ReadInScope DEF StateInScope
  <2>3. CASE state' = state \/ state' = NoState
    BY <2>1, <2>3 DEF StateInScope
  <2>4. section # NoSection => section \in Sections(kind)
    BY DEF TypeOK, Missing
  <2>5. CASE Refresh \/ Import
    BY <2>2, <2>3, <2>4, <2>5 DEF Refresh, Import
  <2>6. CASE Create
    <3>1. Section(config.proto, Body, {}) \in Sections(kind)
      BY <2>6, ConfigFields, FinalFields, SectionType DEF Create, Creates
    <3> QED
      BY <2>2, <2>3, <2>6, <3>1 DEF Create, Refuse, Write, Answered, Unanswered
  <2>7. CASE Configure
    BY <2>2, <2>3, <2>7, ConfiguredType DEF Configure, Write, Answered, Unanswered
  <2>8. CASE Update
    BY <2>2, <2>3, <2>8, UpdatedType
       DEF Update, Updated, Updates, Refuse, Write, Answered, Unanswered
  <2>9. CASE Delete
    BY <2>3, <2>9 DEF Delete, Refuse, Unanswered
  <2>10. CASE RejectConfig \/ ApplyStopped \/ ApplyNothing
    BY <2>3, <2>10 DEF RejectConfig, ApplyStopped, ApplyNothing
  <2>11. CASE MakePlan \/ PlanDestroy \/ Edit \/ Reconfigure \/ SkipRefresh \/ UNCHANGED vars
    BY <2>3, <2>11 DEF MakePlan, PlanDestroy, Edit, Reconfigure, SkipRefresh, vars
  <2> QED
    BY <2>5, <2>6, <2>7, <2>8, <2>9, <2>10, <2>11 DEF Next, Run, Apply
<1>3. IInv /\ StateInScope => UpdatesPlanTheirETag
  <2> SUFFICES ASSUME IInv, StateInScope, config # NoConfig, state # NoState,
                      ~ Changed(config, state), NEW f \in Fields
               PROVE  Final.set[f] = state.set[f]
    BY DEF UpdatesPlanTheirETag, Updates, Final, Planned
  <2> USE DEF IInv
  <2>1. /\ config.proto = state.proto /\ Proposed(config, state, f) = state.set[f]
        /\ config.proto \in Protos /\ config.proto # Null /\ config.proto # Unknown
    BY ConfigFields, KindAssumption, ProtoAssumption DEF Changed, TypeOK
  <2>2. Final.set[f] = modifyPlan(kind, config, state, f)
    BY DEF Final, Planned
  <2>3. UseStateForUnknown(config, state, f) = state.set[f]
    BY <2>1 DEF UseStateForUnknown
  <2>4. CASE kind = "interface" /\ f \in Sticky /\ f \in Excluded[state.proto]
    <3>1. f \notin Lists /\ f \notin Secrets
      BY <2>1, <2>4, ClassAssumption DEF scoped
    <3>2. state.set[f] = Null
      BY <2>4, <3>1 DEF StateInScope
    <3> QED
      BY <2>1, <2>2, <2>3, <3>2 DEF modifyPlan
  <2>5. CASE ~ (kind = "interface" /\ f \in Sticky /\ f \in Excluded[state.proto])
    BY <2>1, <2>2, <2>3, <2>5 DEF modifyPlan, excluded
  <2> QED
    BY <2>4, <2>5
<1> QED
  BY InitInv, Inductive, <1>1, <1>2, <1>3, PTL DEF Spec

\* A value that uapi takes is stored as it is, a [] as nothing.
AsStored(v) == IF v = Empty THEN Null ELSE v

\* The section has what was planned of every field that is read.
StoresPlan(obj) ==
  /\ obj.proto = config.proto
  /\ \A f \in Fields \ Secrets :
        Final.set[f] = Unknown \/ obj.set[f] = AsStored(Final.set[f])

\* What a section holds of a field that nobody reads is not compared; of the others an
\* answer that has the planned value, or has nothing for a [], fits.
LEMMA FitsFieldByField ==
  ASSUME IInv, config # NoConfig, NEW obj \in Sections(kind), StoresPlan(obj),
         Final.fresh \/ ETag(obj) = state.etag
  PROVE  Fits(StateOf(obj, Final.set))
<1>1. ASSUME NEW f \in Fields
      PROVE  Refines(read(kind, obj.set, Final.set)[f], Final.set[f])
  <2>1. Final.set[f] \in Values(f) \cup {Unknown}
    BY FinalFields DEF IInv
  <2>2. Final.set[f] = Empty => f \in Lists
    BY <2>1, StoredIsValue, ValueAssumption, Marks DEF Values, Stored
  <2> QED
    BY <2>2, Marks DEF read, Refines, AsStored, StoresPlan
<1> QED
  BY <1>1 DEF Fits, StateOf, Final, Planned, StoresPlan

\* A field that is planned as null has no default on the configured proto: it is not
\* Computed, the proto does not take it, or the state shows that it has none.
LEMMA NullHasNoDefault ==
  ASSUME IInv, ScopeIsSound, DefaultsAreComputed, DefaultsFollowScope, config # NoConfig,
         state = NoState \/ (ETagMatches /\ section # NoSection),
         NEW f \in Fields \ Secrets, Final.set[f] = Null
  PROVE  ~ applies(kind, f, config.proto) \/ Default[f][config.proto] = Null
<1> USE DEF IInv
<1>1. /\ config.proto \in ProtoOf[kind] /\ config.proto \in Protos
      /\ config.proto # Unknown /\ Null \notin Protos /\ kind \in RunKinds
  BY ConfigFields, KindAssumption, ProtoAssumption DEF TypeOK
<1>2. modifyPlan(kind, config, state, f) = Null
  BY DEF Final, Planned
<1>3. CASE f \notin Sticky
  BY <1>1, <1>3 DEF DefaultsAreComputed
<1>4. CASE f \in Sticky /\ config.set[f] # Null
  BY <1>2, <1>4 DEF modifyPlan, UseStateForUnknown, Proposed
<1>5. CASE kind = "interface" /\ f \in Excluded[config.proto]
  BY <1>1, <1>5 DEF ScopeIsSound, applies
<1>6. CASE /\ f \in Sticky /\ config.set[f] = Null
           /\ ~ (kind = "interface" /\ f \in Excluded[config.proto])
  <2>1. /\ UseStateForUnknown(config, state, f) = Null
        /\ kind = "interface" /\ config.proto # state.proto => f \notin excluded(kind, state.proto)
    BY <1>1, <1>2, <1>6, Marks DEF modifyPlan, excluded
  <2>2. state # NoState /\ state.proto # Null /\ state.set[f] = Null
    BY <1>6, <2>1, Marks DEF UseStateForUnknown, Proposed, NoState
  <2>3. section # NoSection /\ section.proto = state.proto /\ section.set[f] = Null
    BY <2>2, MatchShows, Marks DEF Shows
  <2>4. section \in Sections(kind) /\ section.proto \in ProtoOf[kind] /\ section.proto \in Protos
    BY <2>3, KindAssumption DEF TypeOK, Missing, Sections
  <2>5. normalizeStored(kind, section.proto, section.set)[f] = Null
    BY <2>3, <2>4 DEF Sections
  <2>6. Default[f][section.proto] = Null
    BY <2>3, <2>4, <2>5, TableAssumption DEF normalizeStored, applies
  <2>7. CASE config.proto = section.proto
    BY <2>6, <2>7
  <2>8. CASE config.proto # section.proto
    <3>1. kind = "interface"
      BY <1>1, <2>4, <2>8, DiscriminatorAssumption
    <3>2. f \notin Excluded[section.proto] /\ f \notin Excluded[config.proto]
      BY <1>6, <2>1, <2>3, <2>4, <2>8, <3>1 DEF excluded
    <3> QED
      BY <1>1, <2>4, <2>6, <3>2 DEF DefaultsFollowScope
  <2> QED
    BY <2>7, <2>8
<1> QED
  BY <1>3, <1>4, <1>5, <1>6

\* What is sent as planned, and not refused, is stored as planned.
LEMMA SentIsStored ==
  ASSUME IInv, ScopeIsSound, DefaultsAreComputed, DefaultsFollowScope, config # NoConfig,
         state = NoState \/ (ETagMatches /\ section # NoSection),
         NEW f \in Fields \ Secrets, Final.set[f] # Unknown,
         Final.set[f] \notin {Null, Empty} => applies(kind, f, config.proto),
         NEW s, s[f] = Final.set[f]
  PROVE  normalizeStored(kind, config.proto, s)[f] = AsStored(Final.set[f])
<1>1. CASE Final.set[f] \notin {Null, Empty}
  BY <1>1 DEF normalizeStored, AsStored
<1>2. CASE Final.set[f] = Null
  BY <1>2, NullHasNoDefault, Marks DEF normalizeStored, AsStored
<1>3. CASE Final.set[f] = Empty
  <2>1. f \in Lists /\ config.proto \in Protos
    BY <1>3, FinalFields, ConfigFields, KindAssumption, ValueAssumption, Marks
       DEF IInv, TypeOK, Values, Stored
  <2>2. Default[f][config.proto] = Null
    BY <2>1 DEF DefaultsAreComputed
  <2> QED
    BY <1>3, <2>2 DEF normalizeStored, AsStored
<1> QED
  BY <1>1, <1>2, <1>3

\* What is in a body and is not refused applies.
LEMMA TakenApplies ==
  ASSUME TypeOK, config # NoConfig, NEW p, ~ scopeRefused(kind, Body, p),
         NEW f \in Fields, Final.set[f] \notin {Null, Empty, Unknown}
  PROVE  applies(kind, f, p) /\ Body[f] = Final.set[f]
<1>1. Body[f] = Final.set[f] /\ Body[f] # Keep
  BY FinalFields, StoredIsValue DEF Body, body
<1> QED
  BY <1>1 DEF scopeRefused

\* A first plan is always one that changes something.
LEMMA CreateIsFresh ==
  ASSUME TypeOK, Creates
  PROVE  Final.fresh
  BY ConfigFields, KindAssumption, ProtoAssumption
     DEF Creates, Final, Planned, Changed, NoState, TypeOK

\* The POST of a collection: the answer has what was planned.
LEMMA CreateFits ==
  ASSUME IInv, ScopeIsSound, DefaultsAreComputed, DefaultsFollowScope,
         Creates, ~ scopeRefused(kind, Body, config.proto)
  PROVE  Fits(StateOf(Section(config.proto, Body, {}), Final.set))
<1> DEFINE obj == Section(config.proto, Body, {})
<1> USE DEF IInv
<1>1. config # NoConfig /\ state = NoState /\ Final.fresh
  BY CreateIsFresh DEF Creates
<1>2. obj \in Sections(kind) /\ obj.proto = config.proto
  BY <1>1, ConfigFields, FinalFields, SectionType DEF Section
<1>3. ASSUME NEW f \in Fields \ Secrets, Final.set[f] # Unknown
      PROVE  obj.set[f] = AsStored(Final.set[f])
  <2>1. Body[f] = Final.set[f]
    BY <1>3 DEF Body, body
  <2>2. Final.set[f] \notin {Null, Empty} => applies(kind, f, config.proto)
    BY <1>1, <1>3, TakenApplies
  <2> QED
    BY <1>1, <1>3, <2>1, <2>2, SentIsStored DEF Section
<1> HIDE DEF obj
<1>4. StoresPlan(obj)
  BY <1>2, <1>3 DEF StoresPlan
<1> QED
  BY <1>1, <1>2, <1>4, FitsFieldByField DEF obj

\* The PATCH that creates a singleton: what is configured is in the answer, the rest is
\* unknown in the plan.
LEMMA ConfigureFits ==
  ASSUME IInv, ScopeIsSound, DefaultsAreComputed, DefaultsFollowScope, Configure
  PROVE  Fits(StateOf(Section(section.proto, MergePatch(section.set, wholeBody(Body)),
                              section.options), Final.set))
<1> DEFINE merged == MergePatch(section.set, wholeBody(Body))
           obj == Section(section.proto, merged, section.options)
<1> USE DEF IInv
<1>1. /\ config # NoConfig /\ state = NoState /\ Final.fresh /\ kind = "singleton"
      /\ Fields = Sticky \cup Secrets
  BY CreateIsFresh, SingletonAssumption DEF Configure, Creates, TypeOK
<1>2. obj \in Sections(kind) /\ section # NoSection
  BY ConfiguredType
<1>3. section.proto = config.proto
  BY <1>1, <1>2, ConfigFields, SectionFields, DiscriminatorAssumption DEF TypeOK
<1>4. ASSUME NEW f \in Fields \ Secrets, Final.set[f] # Unknown
      PROVE  obj.set[f] = AsStored(Final.set[f])
  <2>1. Final.set[f] # Null
    BY <1>1, <1>4 DEF Final, Planned, modifyPlan, UseStateForUnknown, Proposed, NoState
  <2>2. merged[f] = Final.set[f]
    <3>1. Body[f] = Final.set[f] /\ Body[f] # Keep
      BY <1>1, <1>4, FinalFields, StoredIsValue DEF Body, body
    <3> QED
      BY <2>1, <3>1 DEF MergePatch, wholeBody
  <2>3. applies(kind, f, config.proto)
    BY <1>1 DEF applies
  <2> HIDE DEF merged
  <2> QED
    BY <1>1, <1>3, <1>4, <2>2, <2>3, SentIsStored DEF Section
<1>5. obj.proto = config.proto
  BY <1>3 DEF Section
<1> HIDE DEF obj
<1>6. StoresPlan(obj)
  BY <1>4, <1>5 DEF StoresPlan
<1> QED
  BY <1>1, <1>2, <1>6, FitsFieldByField DEF obj

\* A merge PATCH: what is not named is what the state shows, what is named is stored.
LEMMA PatchStores ==
  ASSUME IInv, ScopeIsSound, DefaultsAreComputed, DefaultsFollowScope, config # NoConfig,
         state # NoState, section # NoSection, ETagMatches,
         section.proto = config.proto, ~ scopeRefused(kind, Delta, section.proto)
  PROVE  Patched(Delta) \in Sections(kind) /\ StoresPlan(Patched(Delta))
<1> DEFINE merged == MergePatch(section.set, Delta)
           kept == keepWriteOnly(kind, section.set, merged)
           obj == Patched(Delta)
<1> USE DEF IInv
<1>1. \A f \in Fields : Delta[f] = Keep \/ Delta[f] \in Values(f)
  BY FinalFields DEF Delta, mergeDelta
<1>2. obj \in Sections(kind)
  BY <1>1, PatchedType
<1>3. obj.proto = config.proto /\ obj.set = normalizeStored(kind, config.proto, kept)
  BY DEF Patched, Section
<1>4. ASSUME NEW f \in Fields \ Secrets, Final.set[f] # Unknown
      PROVE  obj.set[f] = AsStored(Final.set[f])
  <2>1. /\ Body[f] = Final.set[f] /\ Body[f] # Keep
        /\ state.set[f] # Unknown /\ body(state.set)[f] = state.set[f]
    BY <1>4, FinalFields, ConfigFields, StoredIsValue DEF Body, body
  <2>2. kept[f] = merged[f]
    BY DEF keepWriteOnly
  <2>3. CASE Final.set[f] = state.set[f]
    <3>1. kept[f] = section.set[f]
      BY <2>1, <2>2, <2>3 DEF MergePatch, Delta, mergeDelta
    <3>2. section.set[f] = AsStored(state.set[f])
      BY MatchShows, SectionFields, StoredIsValue, Marks DEF Shows, AsStored
    <3> HIDE DEF kept
    <3>3. normalizeStored(kind, section.proto, kept)[f] = section.set[f]
      BY <3>1, StaysNormal
    <3> QED
      BY <1>3, <2>3, <3>2, <3>3
  <2>4. CASE Final.set[f] # state.set[f]
    <3>1. Delta[f] = Final.set[f] /\ kept[f] = Final.set[f]
      BY <2>1, <2>2, <2>4 DEF MergePatch, Delta, mergeDelta
    <3>2. Final.set[f] \notin {Null, Empty} => applies(kind, f, config.proto)
      BY <2>1, <3>1 DEF scopeRefused
    <3> HIDE DEF kept
    <3> QED
      BY <1>3, <1>4, <3>1, <3>2, SentIsStored
  <2> QED
    BY <2>3, <2>4
<1> HIDE DEF obj
<1>5. StoresPlan(obj)
  BY <1>3, <1>4 DEF StoresPlan
<1> QED
  BY <1>2, <1>5 DEF obj

\* The PATCH of a singleton: what its body leaves out is what the state shows.
LEMMA SingletonStores ==
  ASSUME IInv, ScopeIsSound, DefaultsAreComputed, DefaultsFollowScope, config # NoConfig,
         state # NoState, section # NoSection, ETagMatches,
         section.proto = config.proto, kind = "singleton"
  PROVE  /\ Patched(wholeBody(Body)) \in Sections(kind)
         /\ StoresPlan(Patched(wholeBody(Body)))
<1> DEFINE merged == MergePatch(section.set, wholeBody(Body))
           kept == keepWriteOnly(kind, section.set, merged)
           obj == Patched(wholeBody(Body))
<1> USE DEF IInv
<1>1. \A f \in Fields : wholeBody(Body)[f] = Keep \/ wholeBody(Body)[f] \in Values(f)
  BY FinalFields DEF wholeBody
<1>2. obj \in Sections(kind) /\ Fields = Sticky \cup Secrets
  BY <1>1, PatchedType, SingletonAssumption DEF TypeOK
<1>3. obj.proto = config.proto /\ obj.set = normalizeStored(kind, config.proto, kept)
  BY DEF Patched, Section
<1>4. ASSUME NEW f \in Fields \ Secrets, Final.set[f] # Unknown
      PROVE  obj.set[f] = AsStored(Final.set[f])
  <2>1. Body[f] = Final.set[f] /\ Body[f] # Keep /\ kept[f] = merged[f]
    BY <1>4, FinalFields, StoredIsValue DEF Body, body, keepWriteOnly
  <2>2. CASE Final.set[f] # Null
    <3>1. kept[f] = Final.set[f]
      BY <2>1, <2>2 DEF MergePatch, wholeBody
    <3>2. applies(kind, f, config.proto)
      BY DEF applies
    <3> HIDE DEF kept
    <3> QED
      BY <1>3, <1>4, <3>1, <3>2, SentIsStored
  <2>3. CASE Final.set[f] = Null
    <3>1. kept[f] = section.set[f]
      BY <2>1, <2>3 DEF MergePatch, wholeBody
    <3>2. state.set[f] = Null
      BY <1>2, <2>3, Marks DEF Final, Planned, modifyPlan, UseStateForUnknown, Proposed
    <3>3. section.set[f] = Null
      BY <3>2, MatchShows, Marks DEF Shows
    <3> HIDE DEF kept
    <3>4. normalizeStored(kind, section.proto, kept)[f] = section.set[f]
      BY <3>1, StaysNormal
    <3> QED
      BY <1>3, <2>3, <3>3, <3>4, Marks DEF AsStored
  <2> QED
    BY <2>2, <2>3
<1> HIDE DEF obj
<1>5. StoresPlan(obj)
  BY <1>3, <1>4 DEF StoresPlan
<1> QED
  BY <1>2, <1>5 DEF obj

\* A PUT.
LEMMA PutStores ==
  ASSUME IInv, ScopeIsSound, DefaultsAreComputed, DefaultsFollowScope, config # NoConfig,
         state # NoState, section # NoSection, ETagMatches,
         ~ scopeRefused(kind, Body, Final.proto)
  PROVE  StoresPlan(Replaced)
<1> DEFINE kept == keepWriteOnly(kind, section.set, Body)
           obj == Replaced
<1> USE DEF IInv
<1>1. /\ Final.proto = config.proto /\ obj.proto = config.proto
      /\ obj.set = normalizeStored(kind, config.proto, kept)
  BY DEF Replaced, Section, Final, Planned
<1>2. ASSUME NEW f \in Fields \ Secrets, Final.set[f] # Unknown
      PROVE  obj.set[f] = AsStored(Final.set[f])
  <2>1. kept[f] = Final.set[f]
    BY <1>2 DEF Body, body, keepWriteOnly
  <2>2. Final.set[f] \notin {Null, Empty} => applies(kind, f, config.proto)
    BY <1>1, <1>2, TakenApplies
  <2> HIDE DEF kept
  <2> QED
    BY <1>1, <1>2, <2>1, <2>2, SentIsStored
<1> HIDE DEF obj
<1> QED
  BY <1>1, <1>2 DEF obj, StoresPlan

\* An update, in each way of sending it.
LEMMA UpdateStores ==
  ASSUME IInv, ScopeIsSound, DefaultsAreComputed, DefaultsFollowScope, config # NoConfig,
         state # NoState, section # NoSection, ETagMatches, ~ UpdateRefused
  PROVE  Updated \in Sections(kind) /\ StoresPlan(Updated)
<1> USE DEF IInv
<1>1. /\ Final.proto = config.proto /\ section.proto = state.proto
      /\ kind # "interface" => section.proto = config.proto
  <2>1. section.proto \in ProtoOf[kind] /\ config.proto \in ProtoOf[kind] /\ kind \in RunKinds
    BY ConfigFields, SectionFields DEF TypeOK
  <2> QED
    BY <2>1, MatchShows, DiscriminatorAssumption DEF Final, Planned, Shows
<1>2. CASE Patches
  <2>1. section.proto = config.proto
    BY <1>1, <1>2 DEF Patches, patches
  <2> QED
    BY <1>2, <2>1, PatchStores DEF Updated, UpdateRefused
<1>3. CASE ~ Patches /\ kind = "singleton"
  BY <1>1, <1>3, SingletonStores DEF Updated
<1>4. CASE ~ Patches /\ kind # "singleton"
  <2>1. Updated = Replaced
    BY <1>4 DEF Updated
  <2>2. Replaced \in Sections(kind)
    BY <2>1, UpdatedType
  <2> QED
    BY <1>4, <2>1, <2>2, PutStores DEF UpdateRefused
<1> QED
  BY <1>2, <1>3, <1>4

\* An update is sent with its entity tag planned as unknown, or does not change it.
ETagIsPlanned ==
  Applying /\ Updates /\ section # NoSection /\ ETagMatches /\ ~ UpdateRefused =>
    Final.fresh \/ ETag(Updated) = state.etag

LEMMA AppliesFit ==
  ASSUME ScopeIsSound, DefaultsAreComputed, DefaultsFollowScope
  PROVE  IInv /\ ETagIsPlanned /\ ResultFitsPlan /\ [Next]_vars => ResultFitsPlan'
<1> SUFFICES ASSUME IInv, ETagIsPlanned, ResultFitsPlan, [Next]_vars,
                    verdict' = "inconsistent"
             PROVE  FALSE
  BY DEF ResultFitsPlan
<1> USE DEF IInv
<1>1. ASSUME NEW obj, Write(obj)
      PROVE  ~ Fits(StateOf(obj, Final.set))
  BY <1>1 DEF Write, Answered, Unanswered, End
<1>2. CASE Create
  BY <1>1, <1>2, CreateFits DEF Create, Refuse, Unanswered, End
<1>3. CASE Configure
  BY <1>1, <1>3, ConfigureFits DEF Configure
<1>4. CASE Update
  <2>1. /\ config # NoConfig /\ state # NoState /\ section # NoSection /\ ETagMatches
        /\ ~ UpdateRefused /\ Write(Updated)
    BY <1>4 DEF Update, Updated, Updates, Refuse, Unanswered, End
  <2>2. Final.fresh \/ ETag(Updated) = state.etag
    BY <1>4, <2>1 DEF Update, ETagIsPlanned
  <2> QED
    BY <1>1, <2>1, <2>2, UpdateStores, FitsFieldByField
<1>5. CASE Delete
  BY <1>5 DEF Delete, Refuse, Unanswered, End
<1>6. CASE RejectConfig \/ ApplyStopped \/ ApplyNothing
  BY <1>6 DEF RejectConfig, ApplyStopped, ApplyNothing, End
<1>7. CASE Refresh \/ MakePlan \/ PlanDestroy \/ SkipRefresh \/ UNCHANGED vars
  BY <1>7 DEF Refresh, MakePlan, PlanDestroy, SkipRefresh, vars, ResultFitsPlan
<1>8. CASE Import \/ Edit \/ Reconfigure
  BY <1>8 DEF Import, Edit, Reconfigure
<1> QED
  BY <1>2, <1>3, <1>4, <1>5, <1>6, <1>7, <1>8 DEF Next, Run, Apply

\* No apply ends in Terraform's "Provider produced inconsistent result after apply",
\* whatever others do, in a run whose updates all plan their etag as unknown, when the
\* tables of provider and uapi agree as stated.  ETagsArePlanned says when they do.
THEOREM ResultsFitPlans ==
  ASSUME ScopeIsSound, DefaultsAreComputed, DefaultsFollowScope
  PROVE  Spec /\ []UpdatesPlanTheirETag => []ResultFitsPlan
<1>1. Init => ResultFitsPlan
  BY DEF Init, ResultFitsPlan
<1>2. UpdatesPlanTheirETag => ETagIsPlanned
  BY DEF UpdatesPlanTheirETag, ETagIsPlanned
<1> QED
  BY InitInv, Inductive, AppliesFit, <1>1, <1>2, PTL DEF Spec

\* The same of every run, for a schema in which no list is both Computed and scoped, as
\* in all resources but the network interface.
COROLLARY ResultsFitWithoutStickyLists ==
  ASSUME ScopeIsSound, DefaultsAreComputed, DefaultsFollowScope,
         Sticky \cap Lists \cap scoped = {}
  PROVE  Spec => []ResultFitsPlan
BY ETagsArePlanned, ResultsFitPlans, PTL

\* An update that the framework does not see takes a [] out of a field that the proto
\* does not take.
LEMMA UnseenIsEmptyList ==
  ASSUME IInv, ScopeIsSound, Updates, ~ Final.fresh, section # NoSection, ETagMatches
  PROVE  /\ config.proto = section.proto /\ section.proto \in Protos
         /\ kind = "interface"
         /\ Sticky \cap Lists \cap Excluded[section.proto] # {}
         /\ \A f \in Fields \ Secrets : AsStored(Final.set[f]) = section.set[f]
                                       /\ Final.set[f] # Unknown
<1> DEFINE p == section.proto
           Entered(f) == kind = "interface" /\ f \in Sticky /\ f \in Excluded[p]
<1> USE DEF IInv
<1>1. /\ config # NoConfig /\ state # NoState /\ ~ Changed(config, state)
      /\ \E f \in Fields : Final.set[f] # state.set[f]
  BY DEF Updates, Final, Planned
<1>2. /\ config.proto = p /\ state.proto = p
      /\ p \in Protos /\ p # Null /\ p # Unknown
      /\ section \in Sections(kind)
  BY <1>1, MatchShows, SectionHasProto, ProtoAssumption DEF Changed, Shows, TypeOK, Missing
<1>3. ASSUME NEW f \in Fields
      PROVE  \/ Final.set[f] = state.set[f]
             \/ Entered(f) /\ Final.set[f] = Null
  <2>1. Proposed(config, state, f) = state.set[f]
    BY <1>1 DEF Changed
  <2>2. UseStateForUnknown(config, state, f) = state.set[f]
    BY <1>2, <2>1 DEF UseStateForUnknown
  <2>3. Final.set[f] = modifyPlan(kind, config, state, f)
    BY DEF Final, Planned
  <2> QED
    BY <1>2, <2>2, <2>3 DEF modifyPlan, excluded
<1>4. ASSUME NEW f \in Fields \ Secrets
      PROVE  /\ section.set[f] = AsStored(state.set[f]) /\ state.set[f] # Unknown
             /\ state.set[f] = Empty => f \in Lists
  BY <1>1, MatchShows, SectionFields, ConfigFields, StoredIsValue, ValueAssumption, Marks
     DEF Shows, AsStored
<1>5. ASSUME NEW f \in Fields, Entered(f)
      PROVE  section.set[f] = Null
  <2>1. normalizeStored(kind, p, section.set)[f] = section.set[f]
    BY <1>2 DEF Sections
  <2>2. ~ applies(kind, f, p)
    BY <1>2, <1>5 DEF ScopeIsSound, applies
  <2> QED
    BY <2>1, <2>2 DEF normalizeStored
<1>6. \A f \in Fields \ Secrets : AsStored(Final.set[f]) = section.set[f] /\ Final.set[f] # Unknown
  BY <1>3, <1>4, <1>5, Marks DEF AsStored
<1>7. PICK f \in Fields : Entered(f) /\ Final.set[f] = Null /\ state.set[f] # Null
  BY <1>1, <1>3
<1>8. f \in Sticky \cap Lists \cap Excluded[p]
  BY <1>4, <1>5, <1>7, ClassAssumption DEF AsStored
<1> QED
  BY <1>2, <1>6, <1>7, <1>8

\* The same of every run, lists that are Computed and scoped included, when entity tags
\* do not cover unnamed options, and a proto that excludes such a list excludes the
\* secrets too.  Without that it is not true: an update to take out a [] loses an option
\* or brings back a secret that others removed, and the entity tag changes unplanned.
THEOREM ResultsFitUnseenUpdates ==
  ASSUME ScopeIsSound, DefaultsAreComputed, DefaultsFollowScope, UnseenKeepsETag
  PROVE  Spec => []ResultFitsPlan
<1>1. Init => ResultFitsPlan
  BY DEF Init, ResultFitsPlan
<1>2. IInv => ETagIsPlanned
  <2> SUFFICES ASSUME IInv, Updates, section # NoSection, ETagMatches, ~ UpdateRefused,
                      ~ Final.fresh
               PROVE  ETag(Updated) = ETag(section)
    BY DEF ETagIsPlanned, ETagMatches
  <2> USE DEF IInv
  <2>1. /\ Updated \in Sections(kind) /\ StoresPlan(Updated)
    BY UpdateStores DEF Updates
  <2>2. section \in Sections(kind)
    BY DEF TypeOK, Missing
  <2>3. /\ config.proto = section.proto /\ section.proto \in Protos /\ kind = "interface"
        /\ \A f \in Fields \ Secrets : AsStored(Final.set[f]) = section.set[f]
                                      /\ Final.set[f] # Unknown
        /\ Secrets \subseteq Excluded[section.proto]
    BY UnseenIsEmptyList DEF UnseenKeepsETag
  <2>4. Updated.proto = section.proto
    BY <2>1, <2>3 DEF StoresPlan
  <2>5. \A f \in Fields \ Secrets : Updated.set[f] = section.set[f]
    BY <2>1, <2>3 DEF StoresPlan
  <2>6. ASSUME NEW f \in Secrets, NEW obj \in {Updated, section}
        PROVE  obj.set[f] = Null
    <3>1. normalizeStored(kind, obj.proto, obj.set)[f] = obj.set[f] /\ f \in Fields
      BY <2>1, <2>2, ClassAssumption DEF Sections
    <3>2. ~ applies(kind, f, obj.proto)
      BY <2>3, <2>4 DEF ScopeIsSound, applies
    <3> QED
      BY <3>1, <3>2 DEF normalizeStored
  <2> QED
    BY <2>4, <2>5, <2>6 DEF ETag, UnseenKeepsETag
<1> QED
  BY InitInv, Inductive, AppliesFit, <1>1, <1>2, PTL DEF Spec
=============================================================================
