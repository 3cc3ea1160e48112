-------------------------- MODULE ResourceLifecycle --------------------------
(***************************************************************************)
(* One resource of the provider through runs of Terraform: refresh (Read),  *)
(* plan, apply (Create, Update or Delete) and import, against one section   *)
(* of the router's configuration that others edit at any moment.  A run     *)
(* may skip its refresh, plan with values that are not known yet, and lose  *)
(* the answer of its write after uapi committed it.                         *)
(***************************************************************************)
EXTENDS AttributePlan, Naturals

CONSTANTS RunKinds,   \* the kinds of resource considered
          ProtoOf,    \* the discriminator values of a kind
          HiddenSets, \* what may be unknown while planning: fields and "proto"
          Options,    \* options of the section that the provider has no name for
          ETagSees,   \* what the ETag covers besides the fields that are read
          MaxUpsets   \* bound: edits, lost answers, changed configurations...

VARIABLES kind,    \* the kind of the resource
          config,  \* the resource block; proto Null when there is none
          section, \* the section on the router; proto Null when there is none
          state,   \* the Terraform state; proto Null when not in it
          phase,   \* of the Terraform run
          plan,    \* the planned values, in phase "planned"
          verdict, \* how the last apply ended, until something changes
          upsets   \* how often something outside the run interfered

vars == <<kind, config, section, state, phase, plan, verdict, upsets>>

Phases == {"idle", "refreshed", "planned"}
Verdicts == {"none", "ok",
             "nothing",      \* an empty plan
             "invalid",      \* refused by validateConfig
             "conflict",     \* 422: the id is taken
             "missing",      \* 404 of an update
             "stale",        \* 412
             "refused",      \* 422: proto or a field out of its scope
             "unknown",      \* no answer
             "replanned",    \* the final plan contradicts the plan
             "inconsistent"} \* the result contradicts the plan

NoConfig  == [proto |-> Null, set |-> Blank]
NoSection == [proto |-> Null, set |-> Blank, options |-> {}]
NoState   == [proto |-> Null, set |-> Blank, etag |-> NoSection]
NoPlan    == [proto |-> Null, set |-> Blank, fresh |-> FALSE]

ASSUME KindAssumption == /\ RunKinds \subseteq Kinds
                         /\ \A k \in RunKinds : ProtoOf[k] \subseteq Protos
\* Without a scope there is one proto, and it is modelled.  The generator refuses a
\* clear-on-omit attribute for a singleton, whose PATCH cannot remove it.
ASSUME DiscriminatorAssumption == \A k \in RunKinds \ {"interface"} :
         ProtoOf[k] \subseteq Known /\ \A p, q \in ProtoOf[k] : p = q
ASSUME SingletonAssumption == "singleton" \in RunKinds => Fields = Sticky \cup Secrets
ASSUME BoundAssumption == MaxUpsets \in Nat
ASSUME ETagAssumption == ETagSees \subseteq {"options", "secrets"}

\* An update that the framework does not see only takes a [] out of a Computed list that
\* the proto does not take.  It leaves the entity tag alone when that does not cover the
\* options that a PUT loses, and no secret is sent that others removed.
UnseenKeepsETag ==
  /\ "options" \notin ETagSees
  /\ \A p \in Protos : Sticky \cap Lists \cap Excluded[p] # {} => Secrets \subseteq Excluded[p]

Configs(k) == [proto : ProtoOf[k], set : ValueSets]

\* What uapi can hold: nothing that the proto does not take, defaults filled in.
Sections(k) == {s \in [proto : ProtoOf[k], set : StoredSets, options : SUBSET Options] :
                  normalizeStored(k, s.proto, s.set) = s.set}
Missing(k) == IF k = "singleton" THEN {} ELSE {NoSection}

Init == /\ kind \in RunKinds
        /\ config \in Configs(kind) \cup {NoConfig}
        /\ section \in Sections(kind) \cup Missing(kind)
        /\ state = NoState
        /\ phase = "idle"
        /\ plan = NoPlan
        /\ verdict = "none"
        /\ upsets = 0
-----------------------------------------------------------------------------
(* What Terraform did not do. *)

Upset == upsets < MaxUpsets /\ upsets' = upsets + 1

Edit == /\ Upset
        /\ section' \in (Sections(kind) \cup Missing(kind)) \ {section}
        /\ verdict' = "none"
        /\ UNCHANGED <<kind, config, state, phase, plan>>

Reconfigure == /\ phase = "idle"
               /\ Upset
               /\ config' \in (Configs(kind) \cup {NoConfig}) \ {config}
               /\ verdict' = "none"
               /\ UNCHANGED <<kind, section, state, phase, plan>>
-----------------------------------------------------------------------------
(* Refresh, import, plan. *)

\* A hash of the body, in which a secret shows as has_*.
ETag(obj) ==
  [proto   |-> obj.proto,
   set     |-> [f \in Fields |->
                  IF f \in Secrets /\ obj.set[f] # Null /\ "secrets" \notin ETagSees
                  THEN "has" ELSE obj.set[f]],
   options |-> IF "options" \in ETagSees THEN obj.options ELSE {}]

ETags == [proto : Protos \cup {Null},
          set : [Fields -> {"has"} \cup UNION {Stored(f) : f \in Fields}],
          options : SUBSET Options]

StateOf(obj, m) ==
  [proto |-> obj.proto, set |-> read(kind, obj.set, m), etag |-> ETag(obj)]

RefreshFromBlank ==
  /\ phase = "idle"
  /\ state' = IF section = NoSection \/ state = NoState
              THEN NoState ELSE StateOf(section, Blank)
  /\ phase' = "refreshed"
  /\ UNCHANGED <<kind, config, section, plan, verdict, upsets>>

RefreshKeepsGone ==
  /\ phase = "idle"
  /\ state' = IF section = NoSection \/ state = NoState THEN state
              ELSE StateOf(section, state.set)
  /\ phase' = "refreshed"
  /\ UNCHANGED <<kind, config, section, plan, verdict, upsets>>

\* Read: a section that is gone leaves the state.
Refresh == /\ phase = "idle"
           /\ state' = IF section = NoSection \/ state = NoState
                       THEN NoState ELSE StateOf(section, state.set)
           /\ phase' = "refreshed"
           /\ UNCHANGED <<kind, config, section, plan, verdict, upsets>>

SkipRefresh == /\ phase = "idle"
               /\ Upset
               /\ phase' = "refreshed"
               /\ UNCHANGED <<kind, config, section, state, plan, verdict>>

\* The operator imports a section that exists, as writeErr advises for a taken
\* id.  The Read after it starts from a state that holds nothing but the id.
Import == /\ phase = "idle"
          /\ config # NoConfig
          /\ state = NoState
          /\ section # NoSection
          /\ state' = StateOf(section, Blank)
          /\ verdict' = "none"
          /\ UNCHANGED <<kind, config, section, phase, plan, upsets>>

Hide(hidden) == [proto |-> IF "proto" \in hidden THEN Unknown ELSE config.proto,
                 set |-> [f \in Fields |-> IF f \in hidden THEN Unknown ELSE config.set[f]]]

End(result) == /\ phase' = "idle"
               /\ plan' = NoPlan
               /\ verdict' = result
               /\ UNCHANGED <<kind, config, upsets>>

MakePlan == /\ phase = "refreshed"
            /\ config # NoConfig
            /\ \E hidden \in HiddenSets :
                 /\ validateConfig(kind, Hide(hidden))
                 /\ plan' = Planned(kind, Hide(hidden), state)
            /\ phase' = "planned"
            /\ UNCHANGED <<kind, config, section, state, verdict, upsets>>

PlanDestroy == /\ phase = "refreshed"
               /\ config = NoConfig
               /\ plan' = NoPlan
               /\ phase' = "planned"
               /\ UNCHANGED <<kind, config, section, state, verdict, upsets>>

RejectConfig == /\ phase = "refreshed"
                /\ ~ validateConfig(kind, config)
                /\ End("invalid")
                /\ UNCHANGED <<section, state>>
-----------------------------------------------------------------------------
(* Apply.  Terraform plans again with every value known, and goes on only if *)
(* the outcome refines the plan.                                             *)

Final == Planned(kind, config, state)

FinalRefinesPlan == /\ Refines(Final.proto, plan.proto)
                    /\ \A f \in Fields : Refines(Final.set[f], plan.set[f])
                    /\ Final.fresh => plan.fresh

Creates == config # NoConfig /\ state = NoState
Updates == /\ config # NoConfig /\ state # NoState
           /\ \/ Final.fresh
              \/ \E f \in Fields : Final.set[f] # state.set[f]
Applying == phase = "planned" /\ validateConfig(kind, config) /\ FinalRefinesPlan

\* Terraform validates and plans again before it applies, and stops at an error.
ApplyStopped == /\ phase = "planned"
                /\ config # NoConfig
                /\ validateConfig(kind, config) => ~ FinalRefinesPlan
                /\ End(IF validateConfig(kind, config) THEN "replanned" ELSE "invalid")
                /\ UNCHANGED <<section, state>>

ApplyNothing == /\ \/ Applying /\ config # NoConfig /\ ~ Creates /\ ~ Updates
                   \/ phase = "planned" /\ config = NoConfig /\ state = NoState
                /\ End("nothing")
                /\ UNCHANGED <<section, state>>

Fits(result) == /\ result.proto = Final.proto
                /\ \A f \in Fields : Refines(result.set[f], Final.set[f])
                /\ Final.fresh \/ result.etag = state.etag

\* uapi committed obj: the answer is read into the planned values, or is lost
\* (as it is when the request never arrived), and the state stays as it was.
Answered(obj) == /\ section' = obj
                 /\ state' = StateOf(obj, Final.set)
                 /\ End(IF Fits(StateOf(obj, Final.set)) THEN "ok" ELSE "inconsistent")

Unanswered(obj) == /\ Upset
                   /\ section' \in {section, obj}
                   /\ state' = state
                   /\ phase' = "idle"
                   /\ plan' = NoPlan
                   /\ verdict' = "unknown"
                   /\ UNCHANGED <<kind, config>>

Write(obj) == Answered(obj) \/ Unanswered(obj)

\* A request that uapi refuses, or would have refused, can be lost as well.
Refuse(why) == \/ End(why) /\ UNCHANGED <<section, state>>
               \/ Unanswered(section)

Body == body(Final.set)
Section(p, set, options) == [proto |-> p, set |-> normalizeStored(kind, p, set),
                             options |-> options]

\* Create of a collection resource: a POST with the chosen id.
Create == /\ Applying /\ Creates /\ kind # "singleton"
          /\ \/ /\ config.proto \notin Known \/ scopeRefused(kind, Body, config.proto)
                /\ Refuse("refused")
             \/ /\ config.proto \in Known /\ ~ scopeRefused(kind, Body, config.proto)
                /\ section # NoSection
                /\ Refuse("conflict")
             \/ /\ config.proto \in Known /\ ~ scopeRefused(kind, Body, config.proto)
                /\ section = NoSection
                /\ Write(Section(config.proto, Body, {}))

\* A singleton's Create is a PATCH without If-Match.
Configure == /\ Applying /\ Creates /\ kind = "singleton"
             /\ Write(Section(section.proto, MergePatch(section.set, wholeBody(Body)),
                              section.options))

AnyETag == TRUE

ETagMatches == state.etag = ETag(section)

PatchesNever == FALSE

\* Update sends the changes for a merge PATCH, the whole body otherwise.
Patches == kind = "wireless" \/ (kind = "interface" /\ patches(Final.proto, state.proto))

Delta == mergeDelta(Body, body(state.set))

Patched(patch) ==
  Section(section.proto,
          keepWriteOnly(kind, section.set, MergePatch(section.set, patch)), section.options)
Replaced == Section(Final.proto, keepWriteOnly(kind, section.set, Body), {})

UpdateRefused == IF Patches THEN scopeRefused(kind, Delta, section.proto)
                 ELSE Final.proto \notin Known \/ scopeRefused(kind, Body, Final.proto)

Update == /\ Applying /\ Updates
          /\ \/ section = NoSection /\ Refuse("missing")
             \/ section # NoSection /\ ~ ETagMatches /\ Refuse("stale")
             \/ section # NoSection /\ ETagMatches /\ UpdateRefused /\ Refuse("refused")
             \/ /\ section # NoSection /\ ETagMatches /\ ~ UpdateRefused
                /\ Write(IF Patches THEN Patched(Delta)
                         ELSE IF kind = "singleton" THEN Patched(wholeBody(Body))
                         ELSE Replaced)

\* The client takes a 404 for a success.
Delete == /\ phase = "planned" /\ config = NoConfig /\ state # NoState
          /\ \/ /\ kind = "singleton" \/ section = NoSection
                /\ state' = NoState
                /\ section' = section
                /\ End("ok")
             \/ kind # "singleton" /\ section = NoSection /\ Unanswered(NoSection)
             \/ /\ kind # "singleton" /\ section # NoSection /\ ~ ETagMatches
                /\ Refuse("stale")
             \/ /\ kind # "singleton" /\ section # NoSection /\ ETagMatches
                /\ \/ state' = NoState /\ section' = NoSection /\ End("ok")
                   \/ Unanswered(NoSection)

Apply == \/ ApplyStopped \/ ApplyNothing
         \/ Create \/ Configure \/ Update \/ Delete

Run == Refresh \/ MakePlan \/ PlanDestroy \/ RejectConfig \/ Apply

Next == Run \/ Import \/ Edit \/ Reconfigure \/ SkipRefresh

Spec == Init /\ [][Next]_vars

\* The operator keeps running Terraform and imports what exists.
FairSpec == Spec /\ WF_vars(Run) /\ SF_vars(Import)
-----------------------------------------------------------------------------
(* Properties. *)

\* Every variable keeps its type; in particular the section and the state never
\* hold a value that was only planned as unknown.
TypeOK ==
  /\ kind \in RunKinds
  /\ config \in Configs(kind) \cup {NoConfig}
  /\ section \in Sections(kind) \cup Missing(kind)
  /\ state \in [proto : ProtoOf[kind] \cup {Null}, set : ValueSets,
                etag : ETags]
  /\ phase \in Phases
  /\ plan \in [proto : ProtoOf[kind] \cup {Null, Unknown}, set : PlanSets,
               fresh : BOOLEAN]
  /\ verdict \in Verdicts
  /\ upsets \in 0 .. MaxUpsets

\* No apply ends in Terraform's "Provider produced inconsistent result after
\* apply": what modifyPlan and the schema plan as known is what uapi answers.
ResultFitsPlan == verdict # "inconsistent"

\* No apply ends in "Provider produced inconsistent final plan": what was planned
\* while proto or an attribute was unknown stays true once it is known.
FinalPlanFits == verdict # "replanned"

\* uapi's scope refusal reaches an apply only for a proto that it does not model:
\* otherwise validateConfig reports the field, or modifyPlan plans it as null.
RefusedOnlyOnUnmodelledProto == verdict = "refused" => config.proto \notin Known

\* The same for every update that keeps its proto, as validateConfig has it.
RefusalsAreReportedAtPlan == verdict = "refused" => config.proto # state.proto

\* An update plans its etag as unknown: "the value genuinely changes on every
\* write" (etagAttribute).
UpdatesPlanTheirETag == Applying /\ Updates => Final.fresh

\* After a successful apply, and with nothing else changed, the next plan is
\* empty, with or without a refresh.
EmptyPlanAfterApply ==
  phase = "refreshed" /\ verdict = "ok" /\ config # NoConfig => ~ Creates /\ ~ Updates

Wrote == phase = "planned" /\ phase' = "idle" /\ section' # section

\* The values in the state are those of the section, write-only ones aside.
Shows(st, obj) ==
  /\ st.proto = obj.proto
  /\ \A f \in Fields \ Secrets :
        \/ st.set[f] = obj.set[f]
        \/ f \in Lists /\ st.set[f] = Empty /\ obj.set[f] = Null

\* An update or delete never overwrites what Terraform has not read: whatever
\* others did since, the section it changes is the one its state shows.
NoBlindWrite == [][Wrote /\ state # NoState => Shows(state, section)]_vars

\* A write that keeps the proto leaves alone each Optional+Computed field that the
\* configuration does not set, and each wireless secret that it does not set.
UnconfiguredSurvives ==
  [][Wrote /\ section # NoSection /\ section'.proto = section.proto =>
       \A f \in Fields :
         /\ config.set[f] = Null
         /\ f \in Sticky \/ (f \in Secrets /\ kind = "wireless")
         => section'.set[f] = section.set[f]]_vars

\* Options that the provider has no name for survive each update of a wireless
\* section, of a singleton, and of an interface that stays on a proto that uapi
\* does not model, such as the peeraddr of a 6in4 tunnel.
OptionsSurvive ==
  [][/\ Wrote /\ section # NoSection /\ section' # NoSection
     /\ \/ kind \in {"wireless", "singleton"}
        \/ kind = "interface" /\ section'.proto = section.proto /\ section.proto \notin Known
     => section'.options = section.options]_vars

\* The configuration can be applied: valid, and on a proto that uapi models.
Acceptable == /\ config # NoConfig
              /\ validateConfig(kind, config)
              /\ config.proto \in Known

\* Once nothing interferes, running Terraform again and again ends with the
\* section as configured: a stale ETag, a lost answer or a taken id passes.
Reconciles == <>[](Acceptable => /\ state # NoState
                                 /\ ETagMatches
                                 /\ ~ Updates)
=============================================================================
