--------------------------- MODULE LifecycleProofs ---------------------------
(***************************************************************************)
(* Theorems about the life of a resource, for every schema, scope table,     *)
(* kind and bound that the assumptions allow.                                *)
(***************************************************************************)
EXTENDS ResourceLifecycle, TLAPS

\* A function that is right field by field is in the set of its class.
LEMMA ValueSet ==
  ASSUME NEW s, s = [f \in Fields |-> s[f]], \A f \in Fields : s[f] \in Values(f)
  PROVE  s \in ValueSets
<1>1. \A f \in Fields : s[f] \in UNION {Values(g) : g \in Fields}
  OBVIOUS
<1>2. s \in [Fields -> UNION {Values(g) : g \in Fields}]
  BY <1>1
<1> QED
  BY <1>2 DEF ValueSets

\* The same for the values that uapi can hold.
LEMMA StoredSet ==
  ASSUME NEW s, s = [f \in Fields |-> s[f]], \A f \in Fields : s[f] \in Stored(f)
  PROVE  s \in StoredSets
<1>1. \A f \in Fields : s[f] \in UNION {Stored(g) : g \in Fields}
  OBVIOUS
<1>2. s \in [Fields -> UNION {Stored(g) : g \in Fields}]
  BY <1>1
<1> QED
  BY <1>2 DEF StoredSets

\* The same for planned values, of which some may be unknown.
LEMMA PlanSet ==
  ASSUME NEW s, s = [f \in Fields |-> s[f]],
         \A f \in Fields : s[f] \in Values(f) \cup {Unknown}
  PROVE  s \in PlanSets
<1>1. \A f \in Fields : s[f] \in UNION {Values(g) \cup {Unknown} : g \in Fields}
  OBVIOUS
<1>2. s \in [Fields -> UNION {Values(g) \cup {Unknown} : g \in Fields}]
  BY <1>1
<1> QED
  BY <1>2 DEF PlanSets

\* The four marks are different values, and none of them is a setting.
LEMMA Marks ==
  /\ Null # Unknown /\ Null # Empty /\ Null # Keep
  /\ Unknown # Empty /\ Unknown # Keep /\ Empty # Keep
  BY DEF Null, Unknown, Empty, Keep

\* What uapi holds is a value of the field; an empty list, an unknown and the mark
\* of an unnamed key are never held.
LEMMA StoredIsValue ==
  \A f \in Fields : /\ Stored(f) \subseteq Values(f)
                    /\ Null \in Stored(f)
                    /\ Empty \notin Stored(f)
                    /\ Unknown \notin Values(f)
                    /\ Keep \notin Values(f)
                    /\ \A v \in Values(f) : v # Empty => v \in Stored(f)
  BY ValueAssumption, Marks DEF Stored, Values

\* What mergeDelta sends turns the prior body into the planned one: sending only
\* the changes loses none of them and adds none.
THEOREM DeltaReachesPlan ==
  ASSUME NEW planned \in ValueSets, NEW prior \in ValueSets
  PROVE  MergePatch(prior, mergeDelta(planned, prior)) = planned
<1>1. \A f \in Fields : planned[f] # Keep
  BY StoredIsValue DEF ValueSets
<1>2. planned = [f \in Fields |-> planned[f]]
  BY DEF ValueSets
<1> QED
  BY <1>1, <1>2 DEF MergePatch, mergeDelta

\* What is stored is in its normal form, so that reading and writing it back
\* changes nothing.
LEMMA NormalForm ==
  ASSUME NEW k \in Kinds, NEW p \in Protos, NEW s,
         \A f \in Fields : s[f] \in Values(f)
  PROVE  /\ normalizeStored(k, p, s) \in StoredSets
         /\ normalizeStored(k, p, normalizeStored(k, p, s)) = normalizeStored(k, p, s)
<1> DEFINE n == normalizeStored(k, p, s)
<1>1. \A f \in Fields : n[f] \in Stored(f)
  BY StoredIsValue, TableAssumption DEF normalizeStored
<1>2. n \in StoredSets
  <2>1. n = [f \in Fields |-> n[f]]
    BY DEF normalizeStored
  <2> QED
    BY <2>1, <1>1, StoredSet
<1>3. \A f \in Fields : normalizeStored(k, p, n)[f] = n[f]
  BY <1>1, StoredIsValue, TableAssumption, Marks DEF normalizeStored
<1>4. normalizeStored(k, p, n) = n
  BY <1>3 DEF normalizeStored
<1> QED
  BY <1>2, <1>4
-----------------------------------------------------------------------------
(* Types. *)

\* A section built by uapi from values of the right classes is a section.
LEMMA SectionType ==
  ASSUME TypeOK, NEW p \in ProtoOf[kind], NEW s, \A f \in Fields : s[f] \in Values(f),
         NEW o \in SUBSET Options
  PROVE  Section(p, s, o) \in Sections(kind)
<1>1. kind \in Kinds /\ p \in Protos
  BY KindAssumption DEF TypeOK
<1>2. /\ normalizeStored(kind, p, s) \in StoredSets
      /\ normalizeStored(kind, p, normalizeStored(kind, p, s)) = normalizeStored(kind, p, s)
  BY <1>1, NormalForm
<1> QED
  BY <1>2 DEF Section, Sections

\* The fields of the section on the router, there or not, hold stored values.
LEMMA SectionFields ==
  ASSUME TypeOK
  PROVE  /\ section \in [proto : Protos \cup {Null}, set : StoredSets,
                         options : SUBSET Options]
         /\ section # NoSection => section.proto \in ProtoOf[kind]
         /\ \A f \in Fields : section.set[f] \in Stored(f)
<1>1. ProtoOf[kind] \subseteq Protos
  BY KindAssumption DEF TypeOK
<1>2. Blank \in StoredSets
  <2>1. \A f \in Fields : Blank[f] \in Stored(f)
    BY StoredIsValue DEF Blank
  <2> QED
    BY <2>1, StoredSet DEF Blank
<1>3. NoSection \in [proto : Protos \cup {Null}, set : StoredSets, options : SUBSET Options]
  BY <1>2 DEF NoSection
<1>4. section \in [proto : Protos \cup {Null}, set : StoredSets, options : SUBSET Options]
  BY <1>1, <1>3 DEF TypeOK, Sections, Missing
<1>5. section # NoSection => section.proto \in ProtoOf[kind]
  BY DEF TypeOK, Sections, Missing
<1> QED
  BY <1>4, <1>5 DEF StoredSets

\* The ETag of any section, and of none, is an ETag.
LEMMA ETagType ==
  ASSUME NEW obj \in [proto : Protos \cup {Null}, set : StoredSets, options : SUBSET Options]
  PROVE  ETag(obj) \in ETags
<1>1. \A f \in Fields : obj.set[f] \in UNION {Stored(g) : g \in Fields}
  BY DEF StoredSets
<1>2. ETag(obj).set \in [Fields -> {"has"} \cup UNION {Stored(f) : f \in Fields}]
  BY <1>1 DEF ETag
<1> QED
  BY <1>2 DEF ETag, ETags

\* What is read into a model is a state value of each field's class.
LEMMA StateType ==
  ASSUME TypeOK, NEW obj \in Sections(kind), NEW m,
         \A f \in Fields : m[f] \in Values(f) \cup {Unknown},
         \A f \in Secrets : m[f] \in Values(f)
  PROVE  StateOf(obj, m) \in [proto : ProtoOf[kind] \cup {Null}, set : ValueSets, etag : ETags]
<1>1. /\ obj.proto \in ProtoOf[kind]
      /\ obj \in [proto : Protos \cup {Null}, set : StoredSets, options : SUBSET Options]
  BY KindAssumption DEF Sections, TypeOK
<1>2. ETag(obj) \in ETags
  BY <1>1, ETagType
<1>3. \A f \in Fields : obj.set[f] \in Stored(f)
  BY <1>1 DEF StoredSets
<1>4. \A f \in Fields : read(kind, obj.set, m)[f] \in Values(f)
  BY <1>3, StoredIsValue DEF read, Values
<1>5. read(kind, obj.set, m) \in ValueSets
  <2>1. read(kind, obj.set, m) = [f \in Fields |-> read(kind, obj.set, m)[f]]
    BY DEF read
  <2> QED
    BY <2>1, <1>4, ValueSet
<1> QED
  BY <1>1, <1>2, <1>5 DEF StateOf

\* The fields of the configuration, there or not, hold values, never an unknown.
LEMMA ConfigFields ==
  ASSUME TypeOK
  PROVE  /\ config.proto \in ProtoOf[kind] \cup {Null}
         /\ config # NoConfig => config.proto \in ProtoOf[kind]
         /\ config.set \in ValueSets
         /\ \A f \in Fields : config.set[f] \in Values(f)
         /\ state.proto \in ProtoOf[kind] \cup {Null}
         /\ state.set \in ValueSets
         /\ \A f \in Fields : state.set[f] \in Values(f)
<1>1. Blank \in ValueSets
  <2>1. \A f \in Fields : Blank[f] \in Values(f)
    BY StoredIsValue DEF Blank
  <2> QED
    BY <2>1, ValueSet DEF Blank
<1>2. config.set \in ValueSets
  BY <1>1 DEF TypeOK, Configs, NoConfig
<1>3. /\ config.proto \in ProtoOf[kind] \cup {Null}
      /\ config # NoConfig => config.proto \in ProtoOf[kind]
  BY DEF TypeOK, Configs, NoConfig
<1>4. state.proto \in ProtoOf[kind] \cup {Null} /\ state.set \in ValueSets
  BY DEF TypeOK
<1> QED
  BY <1>2, <1>3, <1>4 DEF ValueSets

\* A plan holds values and unknowns, and no unknown for a write-only field that
\* the configuration knows.
LEMMA PlanFields ==
  ASSUME NEW k, NEW c, NEW st,
         \A f \in Fields : c.set[f] \in Values(f) \cup {Unknown},
         \A f \in Fields : st.set[f] \in Values(f),
         NEW f \in Fields
  PROVE  /\ modifyPlan(k, c, st, f) \in Values(f) \cup {Unknown}
         /\ f \in Secrets /\ c.set[f] \in Values(f) => modifyPlan(k, c, st, f) \in Values(f)
<1>1. UseStateForUnknown(c, st, f) \in Values(f) \cup {Unknown}
  BY DEF UseStateForUnknown, Proposed
<1>2. Null \in Values(f)
  BY StoredIsValue
<1>3. f \in Secrets => f \notin Sticky
  BY ClassAssumption
<1> QED
  BY <1>1, <1>2, <1>3 DEF modifyPlan, UseStateForUnknown, Proposed

\* The final plan has the proto of the configuration, unknowns only where the
\* provider computes, and a body (putStr, putList...) without any.
LEMMA FinalFields ==
  ASSUME TypeOK, config # NoConfig
  PROVE  /\ Final.proto \in ProtoOf[kind]
         /\ \A f \in Fields : Final.set[f] \in Values(f) \cup {Unknown}
         /\ \A f \in Secrets : Final.set[f] \in Values(f)
         /\ \A f \in Fields : Body[f] \in Values(f)
<1>1. \A f \in Fields : Final.set[f] = modifyPlan(kind, config, state, f)
  BY DEF Final, Planned
<1>6. /\ \A f \in Fields : config.set[f] \in Values(f) \cup {Unknown}
      /\ \A f \in Fields : config.set[f] \in Values(f)
      /\ \A f \in Fields : state.set[f] \in Values(f)
  BY ConfigFields
<1>7. \A f \in Fields :
        /\ modifyPlan(kind, config, state, f) \in Values(f) \cup {Unknown}
        /\ f \in Secrets => modifyPlan(kind, config, state, f) \in Values(f)
  BY <1>6, PlanFields
<1>2. \A f \in Fields : Final.set[f] \in Values(f) \cup {Unknown}
  BY <1>1, <1>7
<1>3. \A f \in Secrets : Final.set[f] \in Values(f)
  BY <1>1, <1>7, ClassAssumption
<1>4. \A f \in Fields : Body[f] \in Values(f)
  BY <1>2, StoredIsValue DEF Body, body
<1>5. Final.proto \in ProtoOf[kind]
  BY ConfigFields DEF Final, Planned
<1> QED
  BY <1>2, <1>3, <1>4, <1>5
-----------------------------------------------------------------------------
(* The inductive invariant: types, and a state that shows what its ETag stands *)
(* for.  The second part is what makes an If-Match worth something: if the     *)
(* values came from one answer and the ETag from another, a guarded write      *)
(* could still overwrite what was never read.                                  *)

ETagOfState == state # NoState => Shows(state, state.etag)

IInv == TypeOK /\ ETagOfState

\* What read takes from an answer is what the ETag of that answer covers.
LEMMA ReadShows ==
  ASSUME NEW obj, NEW m
  PROVE  Shows(StateOf(obj, m), StateOf(obj, m).etag)
  BY DEF Shows, StateOf, ETag, read

\* When the ETag of the state is that of the section, the state shows the section:
\* what If-Match guarantees to Update and Delete.
LEMMA MatchShows ==
  ASSUME ETagOfState, state # NoState, ETagMatches
  PROVE  Shows(state, section)
<1>1. state.etag.proto = section.proto
  BY DEF ETagMatches, ETag
<1>2. \A f \in Fields \ Secrets : ETag(section).set[f] = section.set[f]
  BY DEF ETag
<1>3. \A f \in Fields \ Secrets : state.etag.set[f] = section.set[f]
  BY <1>2 DEF ETagMatches
<1> QED
  BY <1>1, <1>3 DEF ETagOfState, Shows

\* The inductive invariant holds of a router, a configuration and an empty state.
LEMMA InitInv == Init => IInv
<1> SUFFICES ASSUME Init PROVE IInv
  OBVIOUS
<1>1. \A f \in Fields : Blank[f] \in Stored(f)
  BY StoredIsValue DEF Blank
<1>2. Blank \in StoredSets /\ Blank \in ValueSets /\ Blank \in PlanSets
  BY <1>1, StoredSet, ValueSet, PlanSet, StoredIsValue DEF Blank
<1>3. NoSection \in ETags
  <2>1. \A f \in Fields : Null \in UNION {Stored(g) : g \in Fields}
    BY StoredIsValue
  <2>2. Blank \in [Fields -> {"has"} \cup UNION {Stored(f) : f \in Fields}]
    BY <2>1 DEF Blank
  <2> QED
    BY <2>2 DEF NoSection, ETags
<1>4. state \in [proto : ProtoOf[kind] \cup {Null}, set : ValueSets, etag : ETags]
  BY <1>2, <1>3 DEF Init, NoState
<1>5. plan \in [proto : ProtoOf[kind] \cup {Null, Unknown}, set : PlanSets, fresh : BOOLEAN]
  BY <1>2 DEF Init, NoPlan
<1>6. section \in Sections(kind) \cup Missing(kind)
  BY DEF Init
<1>7. upsets \in 0 .. MaxUpsets
  BY BoundAssumption DEF Init
<1>8. TypeOK
  BY <1>4, <1>5, <1>6, <1>7 DEF TypeOK, Init, Phases, Verdicts
<1> QED
  BY <1>8 DEF IInv, ETagOfState, Init

\* Interference stays within its bound.
LEMMA UpsetBound ==
  ASSUME TypeOK, Upset
  PROVE  upsets' \in 0 .. MaxUpsets
  BY BoundAssumption DEF TypeOK, Upset

\* The plan of a run that is not planned has the type of a plan.
LEMMA NoPlanType ==
  ASSUME TypeOK
  PROVE  NoPlan \in [proto : ProtoOf[kind] \cup {Null, Unknown}, set : PlanSets,
                     fresh : BOOLEAN]
<1>1. \A f \in Fields : Blank[f] \in Values(f) \cup {Unknown}
  BY StoredIsValue DEF Blank
<1>2. Blank \in PlanSets
  BY <1>1, PlanSet DEF Blank
<1> QED
  BY <1>2 DEF NoPlan

\* The state of a resource that Terraform does not have has the type of a state.
LEMMA NoStateType ==
  ASSUME TypeOK
  PROVE  NoState \in [proto : ProtoOf[kind] \cup {Null}, set : ValueSets, etag : ETags]
<1>1. \A f \in Fields : Blank[f] \in Stored(f)
  BY StoredIsValue DEF Blank
<1>2. Blank \in ValueSets
  BY <1>1, ValueSet, StoredIsValue DEF Blank
<1>3. Blank \in [Fields -> {"has"} \cup UNION {Stored(f) : f \in Fields}]
  <2>1. \A f \in Fields : Null \in UNION {Stored(g) : g \in Fields}
    BY StoredIsValue
  <2> QED
    BY <2>1 DEF Blank
<1>4. NoSection \in ETags
  BY <1>3 DEF NoSection, ETags
<1> QED
  BY <1>2, <1>4 DEF NoState

\* The end of an apply that leaves section and state of the right shape.
LEMMA EndStep ==
  ASSUME IInv, NEW result \in Verdicts, End(result),
         section' \in Sections(kind) \cup Missing(kind),
         state' \in [proto : ProtoOf[kind] \cup {Null}, set : ValueSets, etag : ETags],
         state' # NoState => Shows(state', state'.etag)
  PROVE  IInv'
<1>1. TypeOK'
  BY NoPlanType DEF IInv, TypeOK, End, Phases
<1> QED
  BY <1>1 DEF IInv, ETagOfState

\* A run that ends without a write leaves the section and the state alone, and the invariant.
LEMMA StopStep ==
  ASSUME IInv, NEW result \in Verdicts, End(result), section' = section, state' = state
  PROVE  IInv'
<1>1. /\ section' \in Sections(kind) \cup Missing(kind)
      /\ state' \in [proto : ProtoOf[kind] \cup {Null}, set : ValueSets, etag : ETags]
      /\ state' # NoState => Shows(state', state'.etag)
  BY DEF IInv, TypeOK, ETagOfState
<1> QED
  BY <1>1, EndStep

\* A write without an answer keeps the invariant, applied or not.
LEMMA LostStep ==
  ASSUME IInv, NEW obj \in Sections(kind) \cup Missing(kind), Unanswered(obj)
  PROVE  IInv'
<1>1. section' \in Sections(kind) \cup Missing(kind)
  BY DEF Unanswered, IInv, TypeOK
<1>2. upsets' \in 0 .. MaxUpsets
  BY UpsetBound DEF Unanswered, IInv
<1>3. TypeOK'
  BY <1>1, <1>2, NoPlanType DEF IInv, TypeOK, Unanswered, Phases, Verdicts
<1>4. ETagOfState'
  BY DEF IInv, ETagOfState, Unanswered
<1> QED
  BY <1>3, <1>4 DEF IInv

\* A write of Create or Update keeps it, answered or not: the answer is read into
\* the planned values together with its ETag.
LEMMA WriteStep ==
  ASSUME IInv, config # NoConfig, NEW obj \in Sections(kind), Write(obj)
  PROVE  IInv'
<1>1. CASE Answered(obj)
  <2>1. state' \in [proto : ProtoOf[kind] \cup {Null}, set : ValueSets, etag : ETags]
    <3>1. /\ \A f \in Fields : Final.set[f] \in Values(f) \cup {Unknown}
          /\ \A f \in Secrets : Final.set[f] \in Values(f)
      BY FinalFields DEF IInv
    <3>2. StateOf(obj, Final.set)
            \in [proto : ProtoOf[kind] \cup {Null}, set : ValueSets, etag : ETags]
      BY <3>1, StateType DEF IInv
    <3> QED
      BY <1>1, <3>2 DEF Answered
  <2>2. Shows(state', state'.etag)
    BY <1>1, ReadShows DEF Answered
  <2>3. PICK result \in Verdicts : End(result)
    BY <1>1 DEF Answered, Verdicts
  <2> QED
    BY <1>1, <2>1, <2>2, <2>3, EndStep DEF Answered
<1>2. CASE Unanswered(obj)
  BY <1>2, LostStep
<1> QED
  BY <1>1, <1>2 DEF Write
-----------------------------------------------------------------------------
(* One lemma per action that does more than end the run. *)

\* An edit by somebody else keeps it: the ETag in the state ages, and stays that of
\* the values in the state.
LEMMA EditStep == IInv /\ Edit => IInv'
<1> SUFFICES ASSUME IInv, Edit PROVE IInv'
  OBVIOUS
<1>1. section' \in Sections(kind) \cup Missing(kind)
  BY DEF Edit
<1>2. upsets' \in 0 .. MaxUpsets
  BY UpsetBound DEF Edit, IInv
<1>3. TypeOK'
  BY <1>1, <1>2 DEF IInv, TypeOK, Edit, Verdicts
<1> QED
  BY <1>3 DEF IInv, ETagOfState, Edit

\* A new configuration keeps it.
LEMMA ReconfigureStep == IInv /\ Reconfigure => IInv'
<1> SUFFICES ASSUME IInv, Reconfigure PROVE IInv'
  OBVIOUS
<1>1. upsets' \in 0 .. MaxUpsets
  BY UpsetBound DEF Reconfigure, IInv
<1>2. TypeOK'
  BY <1>1 DEF IInv, TypeOK, Reconfigure, Verdicts
<1> QED
  BY <1>2 DEF IInv, ETagOfState, Reconfigure

\* Read starts from the prior state, the Read of an import from a blank one.
LEMMA ReadType ==
  ASSUME TypeOK, section # NoSection, NEW m, \A f \in Fields : m[f] \in Values(f)
  PROVE  StateOf(section, m) \in [proto : ProtoOf[kind] \cup {Null}, set : ValueSets, etag : ETags]
<1>1. section \in Sections(kind)
  BY DEF TypeOK, Missing
<1>2. \A f \in Secrets : m[f] \in Values(f)
  BY ClassAssumption
<1> QED
  BY <1>1, <1>2, StateType

\* Read keeps it: values and ETag come from one answer, or both leave the state.
LEMMA RefreshStep == IInv /\ Refresh => IInv'
<1> SUFFICES ASSUME IInv, Refresh PROVE IInv'
  OBVIOUS
<1>1. CASE section = NoSection \/ state = NoState
  <2>1. state' = NoState
    BY <1>1 DEF Refresh
  <2>2. TypeOK'
    BY <2>1, NoStateType DEF IInv, TypeOK, Refresh, Phases
  <2> QED
    BY <2>1, <2>2 DEF IInv, ETagOfState
<1>2. CASE section # NoSection /\ state # NoState
  <2>1. state' = StateOf(section, state.set)
    BY <1>2 DEF Refresh
  <2>2. state' \in [proto : ProtoOf[kind] \cup {Null}, set : ValueSets, etag : ETags]
    <3>1. \A f \in Fields : state.set[f] \in Values(f)
      BY ConfigFields DEF IInv
    <3> QED
      BY <1>2, <2>1, <3>1, ReadType DEF IInv
  <2>3. TypeOK'
    BY <2>2 DEF IInv, TypeOK, Refresh, Phases
  <2> QED
    BY <2>1, <2>3, ReadShows DEF IInv, ETagOfState
<1> QED
  BY <1>1, <1>2

\* An import and the Read after it keep it.
LEMMA ImportStep == IInv /\ Import => IInv'
<1> SUFFICES ASSUME IInv, Import PROVE IInv'
  OBVIOUS
<1>1. state' = StateOf(section, Blank)
  BY DEF Import
<1>2. state' \in [proto : ProtoOf[kind] \cup {Null}, set : ValueSets, etag : ETags]
  <2>1. \A f \in Fields : Blank[f] \in Values(f)
    BY StoredIsValue DEF Blank
  <2> QED
    BY <1>1, <2>1, ReadType DEF Import, IInv
<1>3. TypeOK'
  BY <1>2 DEF IInv, TypeOK, Import, Verdicts
<1> QED
  BY <1>1, <1>3, ReadShows DEF IInv, ETagOfState

\* Planning keeps it: a planned value is a value of its field or unknown.
LEMMA MakePlanStep == IInv /\ MakePlan => IInv'
<1> SUFFICES ASSUME IInv, MakePlan PROVE IInv'
  OBVIOUS
<1>1. PICK hidden \in HiddenSets : plan' = Planned(kind, Hide(hidden), state)
  BY DEF MakePlan
<1> DEFINE c == Hide(hidden)
<1>2. /\ c.proto \in ProtoOf[kind] \cup {Unknown}
      /\ \A f \in Fields : c.set[f] \in Values(f) \cup {Unknown}
      /\ \A f \in Fields : state.set[f] \in Values(f)
  BY ConfigFields DEF Hide, IInv, MakePlan
<1>3. \A f \in Fields : modifyPlan(kind, c, state, f) \in Values(f) \cup {Unknown}
  BY <1>2, PlanFields
<1>4. [f \in Fields |-> modifyPlan(kind, c, state, f)] \in PlanSets
  BY <1>3, PlanSet
<1>5. Changed(c, state) \in BOOLEAN
  BY DEF Changed
<1>6. plan' \in [proto : ProtoOf[kind] \cup {Null, Unknown}, set : PlanSets, fresh : BOOLEAN]
  BY <1>1, <1>2, <1>4, <1>5 DEF Planned
<1>7. TypeOK'
  BY <1>6 DEF IInv, TypeOK, MakePlan, Phases
<1> QED
  BY <1>7 DEF IInv, ETagOfState, MakePlan

\* Planning a destroy, and skipping the refresh, keep it.
LEMMA PlanDestroyStep == IInv /\ (PlanDestroy \/ SkipRefresh) => IInv'
<1> SUFFICES ASSUME IInv, PlanDestroy \/ SkipRefresh PROVE IInv'
  OBVIOUS
<1>1. CASE PlanDestroy
  BY <1>1, NoPlanType DEF IInv, TypeOK, ETagOfState, PlanDestroy, Phases
<1>2. CASE SkipRefresh
  <2>1. upsets' \in 0 .. MaxUpsets
    BY <1>2, UpsetBound DEF SkipRefresh, IInv
  <2> QED
    BY <1>2, <2>1 DEF IInv, TypeOK, ETagOfState, SkipRefresh, Phases
<1> QED
  BY <1>1, <1>2

\* A refusal (writeErr), with an answer or without, keeps the invariant.
LEMMA RefuseStep ==
  ASSUME IInv, NEW why \in Verdicts, Refuse(why)
  PROVE  IInv'
<1>1. section \in Sections(kind) \cup Missing(kind)
  BY DEF IInv, TypeOK
<1> QED
  BY <1>1, StopStep, LostStep DEF Refuse

\* Create of a collection resource keeps it.
LEMMA CreateStep == IInv /\ Create => IInv'
<1> SUFFICES ASSUME IInv, Create PROVE IInv'
  OBVIOUS
<1>1. config # NoConfig /\ config.proto \in ProtoOf[kind]
  BY ConfigFields DEF Create, Creates, IInv
<1>2. Section(config.proto, Body, {}) \in Sections(kind)
  BY <1>1, FinalFields, SectionType DEF IInv
<1>3. CASE Refuse("refused") \/ Refuse("conflict")
  BY <1>3, RefuseStep DEF Verdicts
<1>4. CASE Write(Section(config.proto, Body, {}))
  BY <1>1, <1>2, <1>4, WriteStep
<1> QED
  BY <1>3, <1>4 DEF Create

\* A merge patch of values of the right classes leaves such values.
LEMMA PatchedType ==
  ASSUME TypeOK, section # NoSection, NEW patch,
         \A f \in Fields : patch[f] = Keep \/ patch[f] \in Values(f)
  PROVE  Patched(patch) \in Sections(kind)
<1> DEFINE merged == MergePatch(section.set, patch)
<1> DEFINE kept == keepWriteOnly(kind, section.set, merged)
<1>1. \A f \in Fields : section.set[f] \in Values(f)
  BY SectionFields, StoredIsValue
<1>2. \A f \in Fields : merged[f] \in Values(f)
  BY <1>1 DEF MergePatch
<1>3. \A f \in Fields : kept[f] \in Values(f)
  BY <1>1, <1>2 DEF keepWriteOnly
<1>4. section.proto \in ProtoOf[kind] /\ section.options \in SUBSET Options
  BY SectionFields
<1>5. Section(section.proto, kept, section.options) \in Sections(kind)
  <2> HIDE DEF kept
  <2> QED
    BY <1>3, <1>4, SectionType
<1> QED
  BY <1>5 DEF Patched

\* What a Create of a singleton patches into is a section, and so is the outcome.
LEMMA ConfiguredType ==
  ASSUME TypeOK, Configure
  PROVE  /\ section # NoSection
         /\ Section(section.proto, MergePatch(section.set, wholeBody(Body)), section.options)
              \in Sections(kind)
<1> DEFINE merged == MergePatch(section.set, wholeBody(Body))
<1>1. config # NoConfig /\ section # NoSection
  <2>1. section \in Sections(kind)
    BY DEF Configure, TypeOK, Missing
  <2>2. NoSection.proto \notin Protos
    BY ProtoAssumption DEF NoSection
  <2> QED
    BY <2>1, <2>2, KindAssumption DEF Configure, Creates, TypeOK, Sections
<1>2. \A f \in Fields : merged[f] \in Values(f)
  <2>1. \A f \in Fields : section.set[f] \in Values(f)
    BY SectionFields, StoredIsValue
  <2>2. \A f \in Fields : Body[f] \in Values(f)
    BY <1>1, FinalFields
  <2> QED
    BY <2>1, <2>2 DEF MergePatch, wholeBody
<1>3. section.proto \in ProtoOf[kind] /\ section.options \in SUBSET Options
  BY <1>1, SectionFields
<1>4. Section(section.proto, merged, section.options) \in Sections(kind)
  <2> HIDE DEF merged
  <2> QED
    BY <1>2, <1>3, SectionType
<1> QED
  BY <1>1, <1>4

\* Create of a singleton keeps it.
LEMMA ConfigureStep == IInv /\ Configure => IInv'
  BY ConfiguredType, WriteStep DEF Configure, Creates, IInv

\* What an Update writes, as a PUT, as a merge PATCH or as the PATCH of a singleton.
Updated == IF Patches THEN Patched(Delta)
           ELSE IF kind = "singleton" THEN Patched(wholeBody(Body))
           ELSE Replaced

\* It is a section.
LEMMA UpdatedType ==
  ASSUME TypeOK, config # NoConfig, section # NoSection
  PROVE  Updated \in Sections(kind)
<1>1. \A f \in Fields : Body[f] \in Values(f)
  BY FinalFields
<1>2. Patched(Delta) \in Sections(kind)
  <2>1. \A f \in Fields : Delta[f] = Keep \/ Delta[f] \in Values(f)
    BY <1>1 DEF Delta, mergeDelta
  <2> QED
    BY <2>1, PatchedType
<1>3. Patched(wholeBody(Body)) \in Sections(kind)
  <2>1. \A f \in Fields : wholeBody(Body)[f] = Keep \/ wholeBody(Body)[f] \in Values(f)
    BY <1>1 DEF wholeBody
  <2> QED
    BY <2>1, PatchedType
<1>4. Replaced \in Sections(kind)
  <2> DEFINE kept == keepWriteOnly(kind, section.set, Body)
  <2>1. \A f \in Fields : section.set[f] \in Values(f)
    BY SectionFields, StoredIsValue
  <2>2. \A f \in Fields : kept[f] \in Values(f)
    BY <1>1, <2>1 DEF keepWriteOnly
  <2>3. Final.proto \in ProtoOf[kind]
    BY FinalFields
  <2>4. Section(Final.proto, kept, {}) \in Sections(kind)
    <3> HIDE DEF kept
    <3> QED
      BY <2>2, <2>3, SectionType
  <2> QED
    BY <2>4 DEF Replaced
<1> QED
  BY <1>2, <1>3, <1>4 DEF Updated

\* Update keeps it.
LEMMA UpdateStep == IInv /\ Update => IInv'
<1> SUFFICES ASSUME IInv, Update PROVE IInv'
  OBVIOUS
<1>1. CASE Refuse("missing") \/ Refuse("stale") \/ Refuse("refused")
  BY <1>1, RefuseStep DEF Verdicts
<1>2. CASE section # NoSection /\ Write(Updated)
  BY <1>2, UpdatedType, WriteStep DEF Update, Updates, IInv
<1> QED
  BY <1>1, <1>2 DEF Update, Updated

\* Delete keeps it; a 404 and an ack both end with an empty state.
LEMMA DeleteStep == IInv /\ Delete => IInv'
<1> SUFFICES ASSUME IInv, Delete PROVE IInv'
  OBVIOUS
<1>1. CASE Refuse("stale")
  BY <1>1, RefuseStep DEF Verdicts
<1>2. CASE state' = NoState /\ section' = section /\ End("ok")
  <2>1. section' \in Sections(kind) \cup Missing(kind)
    BY <1>2 DEF IInv, TypeOK
  <2> QED
    BY <1>2, <2>1, NoStateType, EndStep DEF IInv, Verdicts
<1>3. CASE kind # "singleton" /\ state' = NoState /\ section' = NoSection /\ End("ok")
  BY <1>3, NoStateType, EndStep DEF IInv, Verdicts, Missing
<1>4. CASE kind # "singleton" /\ Unanswered(NoSection)
  BY <1>4, LostStep DEF Missing
<1> QED
  BY <1>1, <1>2, <1>3, <1>4 DEF Delete

\* Runs that end before a request keep it.
LEMMA EndingStep ==
  IInv /\ (RejectConfig \/ ApplyStopped \/ ApplyNothing) => IInv'
<1> SUFFICES ASSUME IInv, RejectConfig \/ ApplyStopped \/ ApplyNothing
             PROVE  IInv'
  OBVIOUS
<1>1. PICK result \in Verdicts : End(result) /\ section' = section /\ state' = state
  BY DEF RejectConfig, ApplyStopped, ApplyNothing, Verdicts
<1> QED
  BY <1>1, StopStep

\* Every step keeps the invariant.
LEMMA Inductive == IInv /\ [Next]_vars => IInv'
<1> SUFFICES ASSUME IInv, [Next]_vars PROVE IInv'
  OBVIOUS
<1>1. CASE Apply
  BY <1>1, EndingStep, CreateStep, ConfigureStep, UpdateStep, DeleteStep DEF Apply
<1>2. CASE Run
  BY <1>1, <1>2, RefreshStep, MakePlanStep, PlanDestroyStep, EndingStep DEF Run
<1>3. CASE Import \/ Edit \/ Reconfigure \/ SkipRefresh
  BY <1>3, ImportStep, EditStep, ReconfigureStep, PlanDestroyStep
<1>4. CASE UNCHANGED vars
  BY <1>4 DEF IInv, TypeOK, ETagOfState, vars
<1> QED
  BY <1>2, <1>3, <1>4 DEF Next

\* Every variable keeps its type under every step of the provider, of Terraform
\* and of the router's other users: what was planned as unknown (body, read)
\* reaches neither the router nor the state.
THEOREM TypeCorrect == Spec => []TypeOK
<1>1. IInv => TypeOK
  BY DEF IInv
<1> QED
  BY InitInv, Inductive, <1>1, PTL DEF Spec

\* The values in the state are always those that its ETag was computed from:
\* Create, Read and Update take both from one answer.
THEOREM ETagIsOfState == Spec => []ETagOfState
<1>1. IInv => ETagOfState
  BY DEF IInv
<1> QED
  BY InitInv, Inductive, <1>1, PTL DEF Spec

\* No update and no delete overwrites values that Terraform has not read, however
\* others edit the section in between (If-Match in Update and Delete).
THEOREM NoLostUpdate == Spec => NoBlindWrite
<1> DEFINE Guarded == Wrote /\ state # NoState => Shows(state, section)
<1>1. IInv /\ [Next]_vars => [Guarded]_vars
  <2> SUFFICES ASSUME IInv, Next, Wrote, state # NoState PROVE Shows(state, section)
    BY DEF Wrote
  <2>1. ETagMatches
    <3>1. CASE Update
      BY <3>1 DEF Update, Refuse, Unanswered, Wrote
    <3>2. CASE Delete
      BY <3>2 DEF Delete, Refuse, Unanswered, Wrote
    <3>3. CASE Create \/ Configure
      BY <3>3 DEF Create, Configure, Creates
    <3>4. CASE RejectConfig \/ ApplyStopped \/ ApplyNothing
      BY <3>4 DEF RejectConfig, ApplyStopped, ApplyNothing, Wrote
    <3>5. CASE Refresh \/ MakePlan \/ PlanDestroy \/ Import \/ Edit \/ Reconfigure \/ SkipRefresh
      BY <3>5 DEF Refresh, MakePlan, PlanDestroy, Import, Edit, Reconfigure,
                  SkipRefresh, Wrote
    <3> QED
      BY <3>1, <3>2, <3>3, <3>4, <3>5 DEF Next, Run, Apply
  <2> QED
    BY <2>1, MatchShows DEF IInv
<1>2. Spec => [][Guarded]_vars
  BY InitInv, Inductive, <1>1, PTL DEF Spec
<1> QED
  BY <1>2 DEF NoBlindWrite
=============================================================================
