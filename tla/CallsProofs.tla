----------------------------- MODULE CallsProofs -----------------------------
(***************************************************************************)
(* The writes of a resource, sent as calls of the client, are the writes of *)
(* ResourceLifecycle, for every schema, table, kind, set of calls and bound. *)
(***************************************************************************)
EXTENDS ResourceCalls, LifecycleProofs

-----------------------------------------------------------------------------
(* The inductive invariant. *)

\* The handlers wait for one call at a time, and nothing is answered otherwise.
OneAtATime ==
  /\ \A c, d \in Calls : stage[c] = "pending" /\ stage[d] = "pending" => c = d
  /\ Alone => answer = NoAnswer

\* While a call is waited for, the run and the state are those it was sent from.
Waiting == \A c \in Calls : stage[c] = "pending" => Sends(Method[c]) /\ request[c] = Request

\* Only a resource of a collection sends a DELETE, early or late.
DeletesOfCollections ==
  \A c \in Calls : stage[c] # "idle" /\ Method[c] = "DELETE" => kind # "singleton"

\* What is read into the state was written for a configuration.
AnswerIsConfigured == answer.obj # NoSection => config # NoConfig

\* A state has the entity tag of some section, so that its update has an If-Match.
HasETag == state # NoState => state.etag # NoSection

CallsIInv == /\ IInv
             /\ HasETag
             /\ CallsTypeOK
             /\ OneAtATime
             /\ Waiting
             /\ DeletesOfCollections
             /\ AnswerIsConfigured
-----------------------------------------------------------------------------
(* What is sent and what it writes. *)

\* A section is not none, and neither is its entity tag.
LEMMA SectionIsThere ==
  ASSUME TypeOK, NEW obj \in Sections(kind)
  PROVE  obj # NoSection /\ ETag(obj) # NoSection
<1>1. obj.proto \in Protos
  BY KindAssumption DEF TypeOK, Sections
<1>2. NoSection.proto \notin Protos
  BY ProtoAssumption DEF NoSection
<1> QED
  BY <1>1, <1>2 DEF ETag

\* A request does not depend on what others edit.
LEMMA RequestIsOfTheRun ==
  ASSUME UNCHANGED <<kind, config, state, phase, plan>>
  PROVE  /\ \A m : Sends(m)' = Sends(m)
         /\ Request' = Request
         /\ \A obj : Read(obj)' = Read(obj)
<1>1. Final' = Final
  BY DEF Final
<1>2. /\ Creates' = Creates /\ Updates' = Updates /\ Applying' = Applying
      /\ Patches' = Patches /\ Body' = Body /\ Delta' = Delta
  BY <1>1 DEF Creates, Updates, Applying, FinalRefinesPlan, Patches, Body, Delta
<1>3. \A obj, m : StateOf(obj, m)' = StateOf(obj, m)
  BY DEF StateOf
<1> QED
  BY <1>1, <1>2, <1>3 DEF Sends, Request, Read

\* The body or the patch of a handler has no unknown, and only a patch leaves fields out.
LEMMA RequestType ==
  ASSUME TypeOK, NEW method \in Methods \ {"DELETE"}, Sends(method)
  PROVE  /\ config # NoConfig
         /\ Request.proto \in ProtoOf[kind]
         /\ \A f \in Fields : \/ Request.named[f] \in Values(f)
                              \/ method = "PATCH" /\ Request.named[f] = Keep
<1>1. config # NoConfig
  BY DEF Sends, Creates, Updates
<1>2. Final.proto \in ProtoOf[kind] /\ \A f \in Fields : Body[f] \in Values(f)
  BY <1>1, FinalFields
<1>3. CASE Updates /\ Patches
  <2>1. method = "PATCH"
    BY <1>3 DEF Sends, Creates, Updates
  <2>2. \A f \in Fields : Delta[f] = Keep \/ Delta[f] \in Values(f)
    BY <1>2 DEF Delta, mergeDelta
  <2> QED
    BY <1>1, <1>2, <1>3, <2>1, <2>2 DEF Request
<1>4. CASE ~ (Updates /\ Patches) /\ kind = "singleton"
  <2>1. method = "PATCH"
    BY <1>4 DEF Sends
  <2>2. \A f \in Fields : wholeBody(Body)[f] = Keep \/ wholeBody(Body)[f] \in Values(f)
    BY <1>2 DEF wholeBody
  <2> QED
    BY <1>1, <1>2, <1>4, <2>1, <2>2 DEF Request
<1>5. CASE ~ (Updates /\ Patches) /\ kind # "singleton"
  BY <1>1, <1>2, <1>5 DEF Request
<1> QED
  BY <1>3, <1>4, <1>5

\* What uapi makes of a request that it does not refuse, in its run or after it, is a
\* section; a DELETE leaves none, and only where there may be none.
LEMMA ResultType ==
  ASSUME CallsIInv, NEW c \in Calls, stage[c] # "idle",
         Refusal(Method[c], request[c]) = "none"
  PROVE  IF Method[c] = "DELETE"
         THEN Result(Method[c], request[c]) = NoSection /\ NoSection \in Missing(kind)
         ELSE Result(Method[c], request[c]) \in Sections(kind)
<1> DEFINE r == request[c]
<1>1. TypeOK /\ Method[c] \in Methods
  BY MethodAssumption DEF CallsIInv, IInv
<1>2. CASE Method[c] = "DELETE"
  BY <1>2 DEF Result, CallsIInv, DeletesOfCollections, Missing
<1>3. ASSUME Method[c] # "DELETE"
      PROVE  /\ r.proto \in ProtoOf[kind]
             /\ \A f \in Fields : \/ r.named[f] \in Values(f)
                                  \/ Method[c] = "PATCH" /\ r.named[f] = Keep
  BY <1>3 DEF CallsIInv, CallsTypeOK
<1>4. CASE Method[c] = "POST"
  <2>1. Section(r.proto, r.named, {}) \in Sections(kind)
    BY <1>1, <1>3, <1>4, SectionType
  <2> QED
    BY <1>4, <2>1 DEF Result
<1>5. /\ \A f \in Fields : section.set[f] \in Values(f)
      /\ section # NoSection => section.proto \in ProtoOf[kind] /\ section.options \in SUBSET Options
  BY <1>1, SectionFields, StoredIsValue
<1>6. CASE Method[c] = "PUT"
  <2> DEFINE kept == keepWriteOnly(kind, section.set, r.named)
  <2>1. \A f \in Fields : kept[f] \in Values(f)
    BY <1>3, <1>5, <1>6 DEF keepWriteOnly
  <2>2. Section(r.proto, kept, {}) \in Sections(kind)
    <3> HIDE DEF kept
    <3> QED  BY <1>1, <1>3, <1>6, <2>1, SectionType
  <2> QED
    BY <1>6, <2>2 DEF Result
<1>7. CASE Method[c] = "PATCH"
  <2>1. section # NoSection
    BY <1>7 DEF Refusal, RefusalWithoutMatch
  <2>2. Patched(r.named) \in Sections(kind)
    BY <1>1, <1>3, <1>7, <2>1, PatchedType
  <2> QED
    BY <1>7, <2>2 DEF Result, Patched
<1> QED
  BY <1>1, <1>2, <1>4, <1>6, <1>7 DEF Methods
-----------------------------------------------------------------------------
(* One lemma per action. *)

\* The bookkeeping of the calls keeps its type.
LEMMA ContractTypes ==
  ASSUME Contract!TypeOK, NEW c \in Calls,
         \/ Contract!Invoke(c) \/ Contract!TakeEffect(c)
         \/ \E v \in {"ok", "refused", "unknown"} : Contract!Return(c, v)
  PROVE  Contract!TypeOK'
  BY DEF Contract!TypeOK, Contract!Invoke, Contract!TakeEffect, Contract!Return

\* The start.
LEMMA CallsInitInv == CallsInit => CallsIInv
<1> SUFFICES ASSUME CallsInit PROVE CallsIInv
  OBVIOUS
<1>1. IInv
  BY InitInv DEF CallsInit
<1>2. HasETag
  BY DEF CallsInit, Init, HasETag
<1>3. Contract!TypeOK /\ \A c \in Calls : stage[c] = "idle"
  BY DEF CallsInit, Contract!Init, Contract!TypeOK
<1>4. CallsTypeOK /\ AnswerIsConfigured
  BY <1>3 DEF CallsTypeOK, AnswerIsConfigured, CallsInit, NoAnswer, Replies
<1>5. OneAtATime /\ Waiting /\ DeletesOfCollections
  BY <1>3 DEF OneAtATime, Waiting, DeletesOfCollections, CallsInit
<1> QED
  BY <1>1, <1>2, <1>4, <1>5 DEF CallsIInv

\* A request is sent: its values are those of the plan, and nothing is answered yet.
LEMMA SendInv ==
  ASSUME CallsIInv, NEW c \in Calls, Send(c)
  PROVE  CallsIInv'
<1>1. UNCHANGED <<vars, answer>> /\ Method[c] \in Methods
  BY MethodAssumption DEF Send
<1>2. IInv' /\ HasETag' /\ AnswerIsConfigured'
  <2>1. IInv'
    BY <1>1, Inductive DEF CallsIInv
  <2> QED
    BY <1>1, <2>1 DEF vars, CallsIInv, HasETag, AnswerIsConfigured
<1>3. /\ stage' = [stage EXCEPT ![c] = "pending"] /\ stage \in [Calls -> {"idle", "pending", "returned"}]
      /\ request' = [request EXCEPT ![c] = Request]
      /\ stage[c] = "idle"
  BY DEF Send, Contract!Invoke, CallsIInv, CallsTypeOK, Contract!TypeOK
<1>4. \A d \in Calls : d # c => stage'[d] = stage[d] /\ stage[d] # "pending"
  BY <1>3 DEF Send, Alone
<1>5. CallsTypeOK'
  <2>1. Contract!TypeOK'
    BY ContractTypes DEF Send, CallsIInv, CallsTypeOK
  <2>2. ASSUME NEW d \in Calls, stage'[d] # "idle", Method[d] # "DELETE"
        PROVE  /\ request'[d].proto \in ProtoOf[kind]
               /\ \A f \in Fields : \/ request'[d].named[f] \in Values(f)
                                    \/ Method[d] = "PATCH" /\ request'[d].named[f] = Keep
    <3>1. CASE d = c
      <4>1. request'[d] = Request
        BY <1>3, <3>1 DEF CallsIInv, CallsTypeOK
      <4>2. TypeOK /\ Sends(Method[d]) /\ Method[d] \in Methods \ {"DELETE"}
        BY <1>1, <2>2, <3>1 DEF Send, CallsIInv, IInv
      <4> QED
        BY <4>1, <4>2, RequestType
    <3>2. CASE d # c
      BY <1>3, <1>4, <2>2, <3>2 DEF CallsIInv, CallsTypeOK
    <3> QED
      BY <3>1, <3>2
  <2>3. DOMAIN request' = Calls
    BY <1>3 DEF CallsIInv, CallsTypeOK
  <2> QED
    BY <1>1, <2>1, <2>2, <2>3 DEF CallsIInv, CallsTypeOK, vars
<1>6. OneAtATime'
  BY <1>1, <1>3, <1>4 DEF OneAtATime, Alone
<1>7. Waiting'
  <2>1. ASSUME NEW d \in Calls, stage'[d] = "pending"
        PROVE  Sends(Method[d])' /\ request'[d] = Request'
    <3>1. d = c /\ request'[d] = Request
      BY <1>3, <1>4, <2>1 DEF CallsIInv, CallsTypeOK
    <3>2. Sends(Method[d])' = Sends(Method[d]) /\ Request' = Request
      BY <1>1, RequestIsOfTheRun DEF vars
    <3> QED
      BY <3>1, <3>2 DEF Send
  <2> QED
    BY <2>1 DEF Waiting
<1>8. DeletesOfCollections'
  BY <1>1, <1>3, <1>4 DEF CallsIInv, DeletesOfCollections, Send, Sends, Creates, Updates, vars
<1> QED
  BY <1>2, <1>5, <1>6, <1>7, <1>8 DEF CallsIInv

\* The end of a step that leaves the run and what was sent alone: uapi handles a request,
\* others edit.
LEMMA RouterStep ==
  ASSUME CallsIInv, UNCHANGED <<kind, config, state, phase, plan, stage, told, request>>,
         section' \in Sections(kind) \cup Missing(kind),
         verdict' \in Verdicts, upsets' \in 0 .. MaxUpsets,
         Contract!TypeOK',
         answer' \in [reply : Replies, obj : Sections(kind) \cup {NoSection}],
         answer' # answer => /\ \E c \in Calls : stage[c] = "pending"
                             /\ answer'.obj # NoSection => config # NoConfig
  PROVE  CallsIInv'
<1>1. IInv' /\ HasETag'
  BY DEF CallsIInv, IInv, TypeOK, ETagOfState, HasETag
<1>2. CallsTypeOK'
  BY DEF CallsIInv, CallsTypeOK
<1>3. OneAtATime' /\ DeletesOfCollections' /\ AnswerIsConfigured'
  BY DEF CallsIInv, OneAtATime, Alone, DeletesOfCollections, AnswerIsConfigured
<1>4. Waiting'
  <2>1. Request' = Request /\ \A m : Sends(m)' = Sends(m)
    BY RequestIsOfTheRun
  <2> QED
    BY <2>1 DEF CallsIInv, Waiting
<1> QED
  BY <1>1, <1>2, <1>3, <1>4 DEF CallsIInv

\* uapi commits: a section of the kind is written, and answered or not.
LEMMA CommitInv ==
  ASSUME CallsIInv, NEW c \in Calls, Commit(c)
  PROVE  CallsIInv'
<1> DEFINE obj == Result(Method[c], request[c])
<1>1. /\ stage[c] = "pending" /\ Refusal(Method[c], request[c]) = "none" /\ section' = obj
      /\ UNCHANGED <<kind, config, state, phase, plan, stage, told, request>>
  BY DEF Commit, Handled, Contract!TakeEffect
<1>2. IF Method[c] = "DELETE" THEN obj = NoSection /\ NoSection \in Missing(kind)
                              ELSE obj \in Sections(kind)
  BY <1>1, ResultType
<1>3. verdict' \in Verdicts /\ upsets' \in 0 .. MaxUpsets
  BY UpsetBound DEF Commit, CallsIInv, IInv, TypeOK, Verdicts
<1>4. Contract!TypeOK'
  BY ContractTypes DEF Commit, CallsIInv, CallsTypeOK
<1>5. answer' \in [reply : Replies, obj : Sections(kind) \cup {NoSection}]
  BY <1>1, <1>2 DEF Commit, Replies
<1>6. answer'.obj # NoSection => config # NoConfig
  <2>1. Method[c] # "DELETE" => config # NoConfig
    <3>1. Sends(Method[c]) /\ Method[c] \in Methods
      BY <1>1, MethodAssumption DEF CallsIInv, Waiting
    <3> QED  BY <3>1, RequestType DEF CallsIInv, IInv
  <2> QED
    BY <1>1, <1>2, <2>1 DEF Commit
<1>7. section' \in Sections(kind) \cup Missing(kind)
  BY <1>1, <1>2
<1> QED
  BY <1>1, <1>3, <1>4, <1>5, <1>6, <1>7, RouterStep

\* The refusals of uapi are verdicts.
LEMMA RefusalType ==
  ASSUME NEW method, NEW r
  PROVE  Refusal(method, r) \in Verdicts
  BY DEF Refusal, RefusalWithoutMatch, Verdicts

\* uapi refuses: nothing is written.
LEMMA DenyInv ==
  ASSUME CallsIInv, NEW c \in Calls, Deny(c)
  PROVE  CallsIInv'
<1>1. /\ UNCHANGED <<kind, config, state, phase, plan, stage, told, request>>
      /\ section' \in Sections(kind) \cup Missing(kind) /\ upsets' \in 0 .. MaxUpsets
      /\ stage[c] = "pending"
  BY DEF Deny, Handled, CallsIInv, IInv, TypeOK
<1>2. verdict' \in Verdicts
  BY RefusalType DEF Deny, Verdicts
<1>3. Contract!TypeOK'
  BY DEF Deny, Contract!TypeOK, CallsIInv, CallsTypeOK
<1>4. /\ answer' \in [reply : Replies, obj : Sections(kind) \cup {NoSection}]
      /\ answer'.obj = NoSection
  BY DEF Deny, Replies
<1> QED
  BY <1>1, <1>2, <1>3, <1>4, RouterStep

\* A request that was given up is handled after all.
LEMMA CommitLateInv ==
  ASSUME CallsIInv, NEW c \in Calls, CommitLate(c)
  PROVE  CallsIInv'
<1>1. /\ stage[c] = "returned" /\ Refusal(Method[c], request[c]) = "none"
      /\ section' = Result(Method[c], request[c])
      /\ UNCHANGED <<kind, config, state, phase, plan, stage, told, request, answer>>
  BY DEF CommitLate, Contract!TakeEffect
<1>2. section' \in Sections(kind) \cup Missing(kind)
  BY <1>1, ResultType
<1>3. verdict' \in Verdicts /\ upsets' \in 0 .. MaxUpsets
  BY UpsetBound DEF CommitLate, CallsIInv, IInv, TypeOK, Verdicts
<1>4. Contract!TypeOK'
  BY ContractTypes DEF CommitLate, CallsIInv, CallsTypeOK
<1> QED
  BY <1>1, <1>2, <1>3, <1>4, RouterStep DEF CallsIInv, CallsTypeOK

\* Others edit, while a call is waited for or not.
LEMMA EditInv ==
  ASSUME CallsIInv, Edit, UNCHANGED callVars
  PROVE  CallsIInv'
<1>1. verdict' \in Verdicts /\ upsets' \in 0 .. MaxUpsets
  BY UpsetBound DEF Edit, CallsIInv, IInv, Verdicts
<1>2. section' \in Sections(kind) \cup Missing(kind)
  BY DEF Edit
<1>3. Contract!TypeOK'
  BY DEF callVars, Contract!TypeOK, CallsIInv, CallsTypeOK
<1> QED
  BY <1>1, <1>2, <1>3, RouterStep DEF Edit, callVars, CallsIInv, CallsTypeOK

\* The handler ends, told something or not: what it read was written for its plan.
LEMMA EndInv ==
  ASSUME CallsIInv, NEW c \in Calls, stage[c] = "pending",
         NEW v \in {"ok", "refused", "unknown"}, Contract!Return(c, v), RunEnds,
         answer' = NoAnswer, verdict' \in Verdicts, upsets' \in 0 .. MaxUpsets,
         \/ state' = state
         \/ answer.reply = "ok" /\ state' = Read(answer.obj)
  PROVE  CallsIInv'
<1>1. /\ UNCHANGED <<kind, config, section, request>> /\ phase' = "idle" /\ plan' = NoPlan
      /\ stage' = [stage EXCEPT ![c] = "returned"]
  BY DEF RunEnds, Contract!Return
<1>2. /\ state' \in [proto : ProtoOf[kind] \cup {Null}, set : ValueSets, etag : ETags]
      /\ state' # NoState => Shows(state', state'.etag) /\ state'.etag # NoSection
  <2>1. CASE state' = state
    BY <2>1 DEF CallsIInv, IInv, TypeOK, ETagOfState, HasETag
  <2>2. CASE state' = Read(answer.obj) /\ answer.obj = NoSection
    BY <2>2, NoStateType DEF Read, CallsIInv, IInv
  <2>3. CASE state' = Read(answer.obj) /\ answer.obj # NoSection
    <3>1. state' = StateOf(answer.obj, Final.set) /\ answer.obj \in Sections(kind)
      BY <2>3 DEF Read, CallsIInv, CallsTypeOK
    <3>2. /\ \A f \in Fields : Final.set[f] \in Values(f) \cup {Unknown}
          /\ \A f \in Secrets : Final.set[f] \in Values(f)
      BY <2>3, FinalFields DEF CallsIInv, IInv, AnswerIsConfigured
    <3>3. state' \in [proto : ProtoOf[kind] \cup {Null}, set : ValueSets, etag : ETags]
      BY <3>1, <3>2, StateType DEF CallsIInv, IInv
    <3>4. state'.etag = ETag(answer.obj)
      BY <3>1 DEF StateOf
    <3>5. state'.etag # NoSection
      BY <3>1, <3>4, SectionIsThere DEF CallsIInv, IInv
    <3> QED
      BY <3>1, <3>3, <3>5, ReadShows
  <2> QED
    BY <2>1, <2>2, <2>3
<1>3. IInv' /\ HasETag'
  <2>1. TypeOK'
    BY <1>1, <1>2, NoPlanType DEF CallsIInv, IInv, TypeOK, Phases
  <2> QED
    BY <1>2, <2>1 DEF IInv, ETagOfState, HasETag
<1>4. \A d \in Calls : stage'[d] # "pending" /\ (stage'[d] # "idle" => stage[d] # "idle")
  BY <1>1 DEF CallsIInv, OneAtATime, CallsTypeOK, Contract!TypeOK
<1>5. CallsTypeOK'
  <2>1. Contract!TypeOK'
    BY ContractTypes DEF CallsIInv, CallsTypeOK
  <2> QED
    BY <1>1, <1>4, <2>1 DEF CallsIInv, CallsTypeOK, NoAnswer, Replies
<1>6. OneAtATime' /\ Waiting' /\ DeletesOfCollections' /\ AnswerIsConfigured'
  BY <1>1, <1>4 DEF OneAtATime, Waiting, DeletesOfCollections, AnswerIsConfigured, NoAnswer, CallsIInv
<1> QED
  BY <1>3, <1>5, <1>6 DEF CallsIInv

\* An answer is read, or known to be lost.
LEMMA ReturnInv ==
  ASSUME CallsIInv, NEW c \in Calls, Return(c)
  PROVE  CallsIInv'
<1>1. PICK v \in {"ok", "refused", "unknown"} : Contract!Return(c, v)
  BY DEF Return, NoWord
<1>2. verdict' \in Verdicts /\ upsets' \in 0 .. MaxUpsets
  BY DEF Return, CallsIInv, IInv, TypeOK
<1> QED
  BY <1>1, <1>2, EndInv DEF Return

\* A call is given up before uapi got to it.
LEMMA GiveUpInv ==
  ASSUME CallsIInv, NEW c \in Calls, GiveUp(c)
  PROVE  CallsIInv'
<1>1. PICK v \in {"ok", "refused", "unknown"} : Contract!Return(c, v)
  BY DEF GiveUp, NoWord
<1>2. verdict' \in Verdicts /\ upsets' \in 0 .. MaxUpsets
  BY UpsetBound DEF GiveUp, CallsIInv, IInv, Verdicts
<1> QED
  BY <1>1, <1>2, EndInv DEF GiveUp, Handled

\* The rest of a run.
LEMMA RestInv ==
  ASSUME CallsIInv, Alone, Rest, UNCHANGED callVars
  PROVE  CallsIInv'
<1>1. IInv'
  <2>1. Next
    BY DEF Rest, Next, Run, Apply
  <2> QED
    BY <2>1, Inductive DEF CallsIInv
<1>2. kind' = kind
  BY DEF Rest, Refresh, MakePlan, PlanDestroy, RejectConfig, ApplyStopped, ApplyNothing, Delete,
         Import, Reconfigure, SkipRefresh, End
<1>3. HasETag'
  <2>1. \/ state' = state
        \/ state' = NoState
        \/ section # NoSection /\ \E m : state' = StateOf(section, m)
    BY DEF Rest, Refresh, MakePlan, PlanDestroy, RejectConfig, ApplyStopped, ApplyNothing, Delete,
           Import, Reconfigure, SkipRefresh
  <2>2. section # NoSection => ETag(section) # NoSection
    BY SectionIsThere DEF CallsIInv, IInv, TypeOK, Missing
  <2> QED
    BY <2>1, <2>2 DEF HasETag, StateOf, CallsIInv
<1>4. CallsTypeOK' /\ DeletesOfCollections'
  BY <1>2 DEF callVars, CallsIInv, CallsTypeOK, DeletesOfCollections, Contract!TypeOK
<1>5. OneAtATime' /\ Waiting' /\ AnswerIsConfigured'
  BY DEF callVars, Alone, CallsIInv, OneAtATime, Waiting, AnswerIsConfigured, NoAnswer
<1> QED
  BY <1>1, <1>3, <1>4, <1>5 DEF CallsIInv

\* Every step keeps the invariant.
LEMMA CallsInductive == CallsIInv /\ [CallsNext]_<<vars, callVars>> => CallsIInv'
<1> SUFFICES ASSUME CallsIInv, [CallsNext]_<<vars, callVars>> PROVE CallsIInv'
  OBVIOUS
<1>1. CASE UNCHANGED <<vars, callVars>>
  <2>1. IInv'
    BY <1>1, Inductive DEF CallsIInv
  <2>2. Contract!TypeOK'
    BY <1>1 DEF callVars, Contract!TypeOK, CallsIInv, CallsTypeOK
  <2>3. UNCHANGED <<kind, config, state, phase, plan, stage, told, request, section, verdict,
                    upsets, answer>>
    BY <1>1 DEF vars, callVars
  <2> QED
    BY <2>1, <2>2, <2>3, RouterStep DEF CallsIInv, CallsTypeOK, IInv, TypeOK
<1> QED
  BY <1>1, SendInv, CommitInv, DenyInv, CommitLateInv, ReturnInv, GiveUpInv, RestInv, EditInv
  DEF CallsNext

\* Every call keeps its type through answers that come late or not at all: no unknown
\* is sent (body, mergeDelta), and what is answered is a section of the kind.
THEOREM CallsTypeCorrect == CallsSpec => []CallsTypeOK
<1>1. CallsIInv => CallsTypeOK
  BY DEF CallsIInv
<1> QED
  BY CallsInitInv, CallsInductive, <1>1, PTL DEF CallsSpec
-----------------------------------------------------------------------------
(* The refinement.  Its module has the operators on data once more, with the same  *)
(* definitions.                                                                    *)

LEMMA SameMarks ==
  /\ Atomic!Null = Null /\ Atomic!Unknown = Unknown /\ Atomic!Empty = Empty
  /\ Atomic!Keep = Keep /\ Atomic!Blank = Blank
  /\ Atomic!NoConfig = NoConfig /\ Atomic!NoSection = NoSection /\ Atomic!NoState = NoState
  /\ Atomic!NoPlan = NoPlan
  BY DEF Null, Unknown, Empty, Keep, Blank, NoConfig, NoSection, NoState, NoPlan,
         Atomic!Null, Atomic!Unknown, Atomic!Empty, Atomic!Keep, Atomic!Blank, Atomic!NoConfig,
         Atomic!NoSection, Atomic!NoState, Atomic!NoPlan

LEMMA SameSets ==
  /\ Atomic!ValueSets = ValueSets /\ Atomic!StoredSets = StoredSets
  /\ \A k : /\ Atomic!Configs(k) = Configs(k)
            /\ Atomic!Missing(k) = Missing(k)
  BY SameMarks
  DEF Stored, Values, StoredSets, ValueSets, Configs, Missing, Atomic!Stored, Atomic!Values,
      Atomic!StoredSets, Atomic!ValueSets, Atomic!Configs, Atomic!Missing

LEMMA SamePlans ==
  /\ \A k, p : Atomic!excluded(k, p) = excluded(k, p)
  /\ \A k, c : Atomic!validateConfig(k, c) = validateConfig(k, c)
  /\ \A k, c, p : Atomic!Planned(k, c, p) = Planned(k, c, p)
  /\ \A v, p : Atomic!Refines(v, p) = Refines(v, p)
  /\ \A p, q : Atomic!patches(p, q) = patches(p, q)
<1>1. /\ \A k, p : Atomic!excluded(k, p) = excluded(k, p)
      /\ Atomic!scoped = scoped
  BY DEF excluded, scoped, Atomic!excluded, Atomic!scoped
<1>2. \A k, c : Atomic!validateConfig(k, c) = validateConfig(k, c)
  BY <1>1, SameMarks DEF validateConfig, Atomic!validateConfig
<1>3. \A c, p, f : Atomic!UseStateForUnknown(c, p, f) = UseStateForUnknown(c, p, f)
  BY SameMarks DEF UseStateForUnknown, Proposed, Atomic!UseStateForUnknown, Atomic!Proposed
<1>4. \A k, c, p, f : Atomic!modifyPlan(k, c, p, f) = modifyPlan(k, c, p, f)
  BY <1>1, <1>3, SameMarks DEF modifyPlan, Atomic!modifyPlan
<1>5. \A c, p : Atomic!Changed(c, p) = Changed(c, p)
  BY SameMarks DEF Changed, Proposed, Atomic!Changed, Atomic!Proposed
<1>6. \A k, c, p : Atomic!Planned(k, c, p) = Planned(k, c, p)
  BY <1>4, <1>5 DEF Planned, Atomic!Planned
<1>7. /\ \A v, p : Atomic!Refines(v, p) = Refines(v, p)
      /\ \A p, q : Atomic!patches(p, q) = patches(p, q)
  BY SameMarks DEF Refines, patches, Atomic!Refines, Atomic!patches
<1> QED
  BY <1>1, <1>2, <1>6, <1>7

LEMMA SameRequests ==
  /\ \A s : Atomic!body(s) = body(s) /\ Atomic!wholeBody(s) = wholeBody(s)
  /\ \A s, t : Atomic!mergeDelta(s, t) = mergeDelta(s, t) /\ Atomic!MergePatch(s, t) = MergePatch(s, t)
  /\ \A k, n, p : Atomic!scopeRefused(k, n, p) = scopeRefused(k, n, p)
  /\ \A k, s, t : Atomic!keepWriteOnly(k, s, t) = keepWriteOnly(k, s, t)
  /\ \A k, p, s : Atomic!normalizeStored(k, p, s) = normalizeStored(k, p, s)
  /\ \A k, o, m : Atomic!read(k, o, m) = read(k, o, m)
  /\ \A o : Atomic!ETag(o) = ETag(o)
<1>1. \A k, f, p : Atomic!applies(k, f, p) = applies(k, f, p)
  BY DEF applies, Atomic!applies
<1>2. \A s : Atomic!body(s) = body(s) /\ Atomic!wholeBody(s) = wholeBody(s)
  BY SameMarks DEF body, wholeBody, Atomic!body, Atomic!wholeBody
<1>3. \A s, t : Atomic!mergeDelta(s, t) = mergeDelta(s, t) /\ Atomic!MergePatch(s, t) = MergePatch(s, t)
  BY SameMarks DEF mergeDelta, MergePatch, Atomic!mergeDelta, Atomic!MergePatch
<1>4. \A k, n, p : Atomic!scopeRefused(k, n, p) = scopeRefused(k, n, p)
  BY <1>1, SameMarks DEF scopeRefused, Atomic!scopeRefused
<1>5. /\ \A k, s, t : Atomic!keepWriteOnly(k, s, t) = keepWriteOnly(k, s, t)
      /\ \A k, p, s : Atomic!normalizeStored(k, p, s) = normalizeStored(k, p, s)
  BY <1>1, SameMarks DEF keepWriteOnly, normalizeStored, Atomic!keepWriteOnly, Atomic!normalizeStored
<1>6. /\ \A k, o, m : Atomic!read(k, o, m) = read(k, o, m)
      /\ \A o : Atomic!ETag(o) = ETag(o)
  BY SameMarks DEF read, ETag, Atomic!read, Atomic!ETag
<1> QED
  BY <1>2, <1>3, <1>4, <1>5, <1>6

LEMMA SameSections == \A k : Atomic!Sections(k) = Sections(k)
  BY SameSets, SameRequests DEF Sections, Atomic!Sections
-----------------------------------------------------------------------------
(* Until uapi has decided, the run is the one that ResourceLifecycle has.          *)

LEMMA Undecided ==
  /\ answer.reply = "none" => stateTold = state /\ phaseTold = phase /\ planTold = plan
  /\ answer.reply = "ok" => stateTold = Read(answer.obj)
  /\ answer.reply \in {"refused", "lost"} => stateTold = state
  /\ answer.reply # "none" => phaseTold = "idle" /\ planTold = NoPlan
  BY DEF stateTold, phaseTold, planTold

\* What is planned, sent and stored then.
LEMMA SameRun ==
  ASSUME answer.reply = "none"
  PROVE  /\ Atomic!Final = Final /\ Atomic!Body = Body /\ Atomic!Delta = Delta
         /\ Atomic!Creates = Creates /\ Atomic!Updates = Updates
         /\ Atomic!Applying = Applying /\ Atomic!Patches = Patches
         /\ Atomic!FinalRefinesPlan = FinalRefinesPlan
         /\ Atomic!ETagMatches = ETagMatches /\ Atomic!UpdateRefused = UpdateRefused
         /\ \A r : Atomic!Fits(r) = Fits(r)
         /\ \A o, m : Atomic!StateOf(o, m) = StateOf(o, m)
         /\ \A p, s, o : Atomic!Section(p, s, o) = Section(p, s, o)
         /\ \A patch : Atomic!Patched(patch) = Patched(patch)
         /\ Atomic!Replaced = Replaced
<1>1. stateTold = state /\ phaseTold = phase /\ planTold = plan
  BY Undecided
<1>2. Atomic!Final = Final
  BY <1>1, SamePlans DEF Final, Atomic!Final
<1>3. Atomic!Body = Body /\ Atomic!Delta = Delta
  BY <1>1, <1>2, SameRequests DEF Body, Delta, Atomic!Body, Atomic!Delta
<1>4. Atomic!Creates = Creates /\ Atomic!Updates = Updates
  BY <1>1, <1>2, SameMarks DEF Creates, Updates, Atomic!Creates, Atomic!Updates
<1>5. Atomic!FinalRefinesPlan = FinalRefinesPlan
  BY <1>1, <1>2, SamePlans DEF FinalRefinesPlan, Atomic!FinalRefinesPlan
<1>6. Atomic!Applying = Applying
  BY <1>1, <1>5, SamePlans DEF Applying, Atomic!Applying
<1>7. Atomic!Patches = Patches
  BY <1>1, <1>2, SamePlans DEF Patches, Atomic!Patches
<1>8. Atomic!ETagMatches = ETagMatches
  BY <1>1, SameRequests DEF ETagMatches, Atomic!ETagMatches
<1>9. Atomic!UpdateRefused = UpdateRefused
  BY <1>2, <1>3, <1>7, SameRequests DEF UpdateRefused, Atomic!UpdateRefused
<1>10. \A r : Atomic!Fits(r) = Fits(r)
  BY <1>1, <1>2, SamePlans DEF Fits, Atomic!Fits
<1>11. /\ \A o, m : Atomic!StateOf(o, m) = StateOf(o, m)
       /\ \A p, s, o : Atomic!Section(p, s, o) = Section(p, s, o)
  BY SameRequests DEF StateOf, Section, Atomic!StateOf, Atomic!Section
<1>12. \A patch : Atomic!Patched(patch) = Patched(patch)
  BY <1>11, SameRequests DEF Patched, Atomic!Patched
<1>13. Atomic!Replaced = Replaced
  BY <1>2, <1>3, <1>11, SameRequests DEF Replaced, Atomic!Replaced
<1> QED
  BY <1>2, <1>3, <1>4, <1>5, <1>6, <1>7, <1>8, <1>9, <1>10, <1>11, <1>12, <1>13

\* The steps of a run without a write are those of ResourceLifecycle.
LEMMA RestMaps ==
  ASSUME answer.reply = "none", answer' = answer, Rest
  PROVE  Atomic!Next
<1>1. /\ stateTold = state /\ phaseTold = phase /\ planTold = plan
      /\ stateTold' = state' /\ phaseTold' = phase' /\ planTold' = plan'
  BY Undecided DEF stateTold, phaseTold, planTold
<1>2. Atomic!Upset = Upset /\ \A result : End(result) => Atomic!End(result)
  BY <1>1, SameMarks DEF Upset, End, Atomic!Upset, Atomic!End
<1>3. \A o, m : Atomic!StateOf(o, m) = StateOf(o, m)
  BY SameRun
<1>4. Refresh => Atomic!Refresh
  BY <1>1, <1>3, SameMarks DEF Refresh, Atomic!Refresh
<1>5. Import => Atomic!Import
  BY <1>1, <1>3, SameMarks DEF Import, Atomic!Import
<1>6. SkipRefresh => Atomic!SkipRefresh
  BY <1>1, <1>2 DEF SkipRefresh, Atomic!SkipRefresh
<1>7. Reconfigure => Atomic!Reconfigure
  BY <1>1, <1>2, SameMarks, SameSets DEF Reconfigure, Atomic!Reconfigure
<1>8. MakePlan => Atomic!MakePlan
  <2>1. \A hidden : Atomic!Hide(hidden) = Hide(hidden)
    BY SameMarks DEF Hide, Atomic!Hide
  <2> QED
    BY <1>1, <2>1, SameMarks, SamePlans DEF MakePlan, Atomic!MakePlan
<1>9. PlanDestroy => Atomic!PlanDestroy
  BY <1>1, SameMarks DEF PlanDestroy, Atomic!PlanDestroy
<1>10. RejectConfig => Atomic!RejectConfig
  BY <1>1, <1>2, SamePlans DEF RejectConfig, Atomic!RejectConfig
<1>11. ApplyStopped => Atomic!ApplyStopped
  BY <1>1, <1>2, SameRun, SameMarks, SamePlans DEF ApplyStopped, Atomic!ApplyStopped
<1>12. ApplyNothing => Atomic!ApplyNothing
  BY <1>1, <1>2, SameRun, SameMarks DEF ApplyNothing, Atomic!ApplyNothing
<1>13. kind = "singleton" /\ Delete => Atomic!Delete
  BY <1>1, <1>2, SameMarks DEF Delete, Atomic!Delete
<1> QED
  BY <1>4, <1>5, <1>6, <1>7, <1>8, <1>9, <1>10, <1>11, <1>12, <1>13
  DEF Rest, Atomic!Next, Atomic!Run, Atomic!Apply
-----------------------------------------------------------------------------
(* What uapi does with a request is the write of ResourceLifecycle.                *)

\* The request that is waited for is that of the run that waits.
LEMMA Pending ==
  ASSUME CallsIInv, NEW c \in Calls, Handled(c)
  PROVE  /\ answer.reply = "none"
         /\ phase = "planned"
         /\ Sends(Method[c])
         /\ request[c] = Request
         /\ Method[c] \in Methods
<1>1. answer.reply = "none" /\ Sends(Method[c]) /\ request[c] = Request
  BY DEF Handled, NoAnswer, CallsIInv, Waiting
<1> QED
  BY <1>1, MethodAssumption DEF Sends, Applying

\* Each request comes from one handler.
LEMMA Handlers ==
  ASSUME TypeOK, NEW method, Sends(method)
  PROVE  \/ /\ method = "DELETE" /\ config = NoConfig /\ state # NoState
            /\ kind # "singleton" /\ phase = "planned"
         \/ /\ method = "POST" /\ Applying /\ Creates /\ kind # "singleton"
            /\ Request = [proto |-> config.proto, named |-> Body, match |-> NoState.etag]
         \/ /\ method = "PATCH" /\ Applying /\ Creates /\ kind = "singleton"
            /\ Request = [proto |-> Final.proto, named |-> wholeBody(Body), match |-> NoState.etag]
         \/ /\ method = "PATCH" /\ Applying /\ Updates /\ Patches
            /\ Request = [proto |-> Final.proto, named |-> Delta, match |-> state.etag]
         \/ /\ method = "PATCH" /\ Applying /\ Updates /\ ~ Patches /\ kind = "singleton"
            /\ Request = [proto |-> Final.proto, named |-> wholeBody(Body), match |-> state.etag]
         \/ /\ method = "PUT" /\ Applying /\ Updates /\ ~ Patches /\ kind # "singleton"
            /\ Request = [proto |-> Final.proto, named |-> Body, match |-> state.etag]
<1>1. Final.proto = config.proto
  BY DEF Final, Planned
<1>2. ~ (Creates /\ Updates)
  BY DEF Creates, Updates
<1>3. CASE Applying /\ Creates
  BY <1>1, <1>2, <1>3 DEF Sends, Request, Creates
<1>4. CASE Applying /\ Updates
  BY <1>1, <1>2, <1>4 DEF Sends, Request, Updates
<1> QED
  BY <1>3, <1>4 DEF Sends

\* uapi never refuses a singleton.
LEMMA SingletonIsTaken ==
  ASSUME TypeOK, kind = "singleton"
  PROVE  /\ section # NoSection
         /\ \A named, p : ~ scopeRefused(kind, named, p)
         /\ config # NoConfig => config.proto \in Known
<1>1. section # NoSection
  BY SectionIsThere DEF TypeOK, Missing
<1>2. \A named, p : ~ scopeRefused(kind, named, p)
  BY DEF scopeRefused, applies
<1>3. ProtoOf[kind] \subseteq Known
  BY DiscriminatorAssumption DEF TypeOK
<1> QED
  BY <1>1, <1>2, <1>3, ConfigFields

\* What uapi refuses, and what it stores.
LEMMA Outcomes ==
  ASSUME CallsIInv, NEW c \in Calls, Handled(c)
  PROVE  LET why == Refusal(Method[c], request[c])
             obj == Result(Method[c], request[c])
         IN
         \/ /\ Method[c] = "DELETE" /\ config = NoConfig /\ state # NoState
            /\ kind # "singleton" /\ phase = "planned"
            /\ \/ section = NoSection /\ why # "none"
               \/ section # NoSection /\ ~ ETagMatches /\ why = "stale"
               \/ section # NoSection /\ ETagMatches /\ why = "none" /\ obj = NoSection
         \/ /\ Method[c] # "DELETE" /\ Applying /\ Creates /\ kind # "singleton"
            /\ \/ /\ config.proto \notin Known \/ scopeRefused(kind, Body, config.proto)
                  /\ why = "refused"
               \/ /\ config.proto \in Known /\ ~ scopeRefused(kind, Body, config.proto)
                  /\ section # NoSection /\ why = "conflict"
               \/ /\ config.proto \in Known /\ ~ scopeRefused(kind, Body, config.proto)
                  /\ section = NoSection /\ why = "none" /\ obj = Section(config.proto, Body, {})
         \/ /\ Method[c] # "DELETE" /\ Applying /\ Creates /\ kind = "singleton" /\ why = "none"
            /\ obj = Section(section.proto, MergePatch(section.set, wholeBody(Body)),
                             section.options)
         \/ /\ Method[c] # "DELETE" /\ Applying /\ Updates
            /\ \/ section = NoSection /\ why = "missing"
               \/ section # NoSection /\ ~ ETagMatches /\ why = "stale"
               \/ section # NoSection /\ ETagMatches /\ UpdateRefused /\ why = "refused"
               \/ section # NoSection /\ ETagMatches /\ ~ UpdateRefused /\ why = "none" /\ obj = Updated
<1> DEFINE r == request[c]
<1>1. TypeOK /\ Sends(Method[c]) /\ r = Request
  BY Pending DEF CallsIInv, IInv
<1>2. state # NoState => state.etag # NoState.etag
  BY DEF CallsIInv, HasETag, NoState
<1>3. CASE Method[c] = "DELETE"
  <2>1. config = NoConfig /\ state # NoState /\ kind # "singleton" /\ phase = "planned"
    BY <1>1, <1>3 DEF Sends, Creates, Updates
  <2>2. r.match = state.etag
    BY <1>1 DEF Request
  <2> QED
    BY <1>2, <1>3, <2>1, <2>2 DEF Refusal, RefusalWithoutMatch, Result, ETagMatches
<1>4. CASE Method[c] = "POST"
  <2>1. /\ Applying /\ Creates /\ kind # "singleton"
        /\ r.proto = config.proto /\ r.named = Body
    BY <1>1, <1>4, Handlers
  <2> QED
    BY <1>4, <2>1 DEF Refusal, RefusalWithoutMatch, Result
<1>5. CASE Method[c] = "PUT"
  <2>1. /\ Applying /\ Updates /\ ~ Patches /\ kind # "singleton" /\ state # NoState
        /\ r.proto = Final.proto /\ r.named = Body /\ r.match = state.etag
    BY <1>1, <1>5, Handlers DEF Updates
  <2>2. Result("PUT", r) = Updated
    BY <2>1 DEF Result, Updated, Replaced
  <2> QED
    BY <1>2, <1>5, <2>1, <2>2 DEF Refusal, RefusalWithoutMatch, ETagMatches, UpdateRefused
<1>6. CASE Method[c] = "PATCH" /\ Creates
  <2>1. /\ Applying /\ kind = "singleton"
        /\ r.named = wholeBody(Body) /\ r.match = NoState.etag
    BY <1>1, <1>6, Handlers DEF Creates, Updates
  <2>2. Result("PATCH", r) = Section(section.proto, MergePatch(section.set, wholeBody(Body)),
                                     section.options)
    BY <2>1 DEF Result, keepWriteOnly, MergePatch
  <2> QED
    BY <1>1, <1>6, <2>1, <2>2, SingletonIsTaken DEF Refusal, RefusalWithoutMatch
<1>7. CASE Method[c] = "PATCH" /\ ~ Creates
  <2>1. /\ Applying /\ Updates /\ state # NoState /\ r.match = state.etag
        /\ IF Patches THEN r.named = Delta ELSE kind = "singleton" /\ r.named = wholeBody(Body)
    BY <1>1, <1>7, Handlers DEF Updates
  <2>2. Result("PATCH", r) = Updated
    BY <2>1 DEF Result, Updated, Patched
  <2>3. UpdateRefused <=> scopeRefused(kind, r.named, section.proto)
    <3>1. CASE Patches
      BY <2>1, <3>1 DEF UpdateRefused
    <3>2. CASE ~ Patches
      <4>1. Final.proto = config.proto /\ config # NoConfig
        BY <2>1 DEF Final, Planned, Updates
      <4> QED
        BY <1>1, <2>1, <3>2, <4>1, SingletonIsTaken DEF UpdateRefused
    <3> QED
      BY <3>1, <3>2
  <2> QED
    BY <1>2, <1>7, <2>1, <2>2, <2>3 DEF Refusal, RefusalWithoutMatch, ETagMatches
<1> QED
  BY <1>3, <1>4, <1>5, <1>6, <1>7, Pending DEF Methods
\* A request that uapi grants is the write of its handler, answered or not.
LEMMA CommitMaps ==
  ASSUME CallsIInv, NEW c \in Calls, Commit(c)
  PROVE  Atomic!Next
<1> DEFINE obj == Result(Method[c], request[c])
<1>1. /\ Handled(c) /\ Refusal(Method[c], request[c]) = "none" /\ section' = obj
      /\ UNCHANGED <<kind, config, state, phase, plan>>
  BY DEF Commit
<1>2. /\ stateTold = state /\ phaseTold = phase /\ planTold = plan /\ answer.reply = "none"
      /\ phaseTold' = "idle" /\ planTold' = NoPlan
      /\ answer'.reply = "ok" => stateTold' = Read(obj)
      /\ answer'.reply = "lost" => stateTold' = state
  <2>1. answer.reply = "none" /\ answer'.reply \in {"ok", "lost"}
    BY <1>1, Pending DEF Commit
  <2>2. answer'.reply = "ok" => answer'.obj = obj
    BY <1>1 DEF Commit
  <2>3. Final' = Final
    BY <1>1 DEF Final
  <2>4. answer'.reply = "ok" => stateTold' = Read(obj)
    <3> HIDE DEF obj
    <3> QED  BY <1>1, <2>2, <2>3 DEF stateTold, Read, StateOf
  <2> QED
    BY <1>1, <2>1, <2>4, Undecided DEF stateTold, phaseTold, planTold
<1>3. obj \in Sections(kind) => obj # NoSection
  BY SectionIsThere DEF CallsIInv, IInv
<1>4. Atomic!Unanswered(obj) \/ answer'.reply = "ok"
  BY <1>1, <1>2, SameMarks DEF Commit, Atomic!Unanswered, Upset, Atomic!Upset
<1>5. ASSUME obj # NoSection PROVE Atomic!Write(obj)
  <2>1. CASE answer'.reply = "ok"
    <3>1. Read(obj) = StateOf(obj, Final.set)
      BY <1>5 DEF Read
    <3>2. verdict' = (IF Fits(Read(obj)) THEN "ok" ELSE "inconsistent") /\ UNCHANGED upsets
      BY <1>1, <1>5, <2>1 DEF Commit
    <3> QED
      BY <1>1, <1>2, <2>1, <3>1, <3>2, SameRun, SameMarks
      DEF Atomic!Write, Atomic!Answered, Atomic!End
  <2> QED
    BY <1>4, <2>1 DEF Atomic!Write
<1>6. CASE Method[c] = "DELETE"
  <2>1. /\ config = NoConfig /\ state # NoState /\ kind # "singleton" /\ phase = "planned"
        /\ section # NoSection /\ ETagMatches /\ obj = NoSection
    BY <1>1, <1>6, Outcomes
  <2>2. answer'.reply = "ok" => stateTold' = NoState /\ verdict' = "ok" /\ UNCHANGED upsets
    BY <1>1, <1>2, <2>1 DEF Commit, Read
  <2>3. \/ stateTold' = NoState /\ section' = NoSection /\ Atomic!End("ok")
        \/ Atomic!Unanswered(NoSection)
    BY <1>1, <1>2, <1>4, <2>1, <2>2, SameMarks DEF Atomic!End
  <2>4. Atomic!Delete
    BY <1>2, <2>1, <2>3, SameRun, SameMarks DEF Atomic!Delete
  <2> QED
    BY <2>4 DEF Atomic!Next, Atomic!Run, Atomic!Apply
<1>7. CASE Method[c] # "DELETE"
  <2>1. obj # NoSection
    <3>1. stage[c] # "idle"
      BY <1>1 DEF Handled
    <3> QED
      BY <1>1, <1>3, <1>7, <3>1, ResultType
  <2>2. Atomic!Write(obj)
    BY <1>5, <2>1
  <2>3. \/ /\ Applying /\ Creates /\ kind # "singleton"
           /\ config.proto \in Known /\ ~ scopeRefused(kind, Body, config.proto)
           /\ section = NoSection /\ obj = Section(config.proto, Body, {})
        \/ /\ Applying /\ Creates /\ kind = "singleton"
           /\ obj = Section(section.proto, MergePatch(section.set, wholeBody(Body)), section.options)
        \/ /\ Applying /\ Updates /\ section # NoSection /\ ETagMatches /\ ~ UpdateRefused
           /\ obj = Updated
    BY <1>1, <1>7, Outcomes
  <2> HIDE DEF obj
  <2>4. Atomic!Create \/ Atomic!Configure \/ Atomic!Update
    <3>1. CASE Creates /\ kind # "singleton"
      BY <1>2, <2>2, <2>3, <3>1, SameRun, SameMarks, SameRequests DEF Atomic!Create, Updates, Creates
    <3>2. CASE Creates /\ kind = "singleton"
      BY <1>2, <2>2, <2>3, <3>2, SameRun, SameRequests DEF Atomic!Configure, Updates, Creates
    <3>3. CASE Updates
      BY <1>2, <2>2, <2>3, <3>3, SameRun, SameMarks, SameRequests
      DEF Atomic!Update, Updated, Updates, Creates
    <3> QED
      BY <2>3, <3>1, <3>2, <3>3
  <2> QED
    BY <2>4 DEF Atomic!Next, Atomic!Run, Atomic!Apply
<1> QED
  BY <1>6, <1>7

\* A refusal is the refusal of its handler; a DELETE of what is gone has succeeded.
LEMMA DenyMaps ==
  ASSUME CallsIInv, NEW c \in Calls, Deny(c)
  PROVE  Atomic!Next
<1> DEFINE why == Refusal(Method[c], request[c])
<1> DEFINE gone == Method[c] = "DELETE" /\ section = NoSection
<1>1. /\ Handled(c) /\ why # "none"
      /\ UNCHANGED <<kind, config, section, state, phase, plan, upsets>>
  BY DEF Deny
<1>2. /\ stateTold = state /\ phaseTold = phase /\ answer.reply = "none"
      /\ phaseTold' = "idle" /\ planTold' = NoPlan
      /\ stateTold' = IF gone THEN NoState ELSE state
  <2>1. /\ answer.reply = "none"
        /\ answer'.reply = IF gone THEN "ok" ELSE "refused"
        /\ answer'.obj = NoSection
    BY <1>1, Pending DEF Deny
  <2> QED
    BY <1>1, <2>1, Undecided DEF stateTold, phaseTold, planTold, Read
<1>3. Atomic!End(IF gone THEN "ok" ELSE why)
  BY <1>1, <1>2, SameMarks DEF Deny, Atomic!End
<1>4. ~ gone => Atomic!Refuse(why)
  BY <1>1, <1>2, <1>3 DEF Atomic!Refuse
<1>5. CASE Method[c] = "DELETE"
  <2>1. /\ config = NoConfig /\ state # NoState /\ kind # "singleton" /\ phase = "planned"
        /\ gone \/ (section # NoSection /\ ~ ETagMatches /\ why = "stale")
    BY <1>1, <1>5, Outcomes
  <2> HIDE DEF why
  <2>2. Atomic!Delete
    BY <1>1, <1>2, <1>3, <1>4, <2>1, SameRun, SameMarks DEF Atomic!Delete
  <2> QED
    BY <2>2 DEF Atomic!Next, Atomic!Run, Atomic!Apply
<1>6. CASE Method[c] # "DELETE"
  <2>1. \/ /\ Applying /\ Creates /\ kind # "singleton"
           /\ \/ /\ config.proto \notin Known \/ scopeRefused(kind, Body, config.proto)
                 /\ why = "refused"
              \/ /\ config.proto \in Known /\ ~ scopeRefused(kind, Body, config.proto)
                 /\ section # NoSection /\ why = "conflict"
        \/ /\ Applying /\ Updates
           /\ \/ section = NoSection /\ why = "missing"
              \/ section # NoSection /\ ~ ETagMatches /\ why = "stale"
              \/ section # NoSection /\ ETagMatches /\ UpdateRefused /\ why = "refused"
    BY <1>1, <1>6, Outcomes
  <2>2. Atomic!Refuse(why)
    BY <1>4, <1>6
  <2> HIDE DEF why
  <2>3. Atomic!Create \/ Atomic!Update
    BY <1>2, <2>1, <2>2, SameRun, SameMarks, SameRequests DEF Atomic!Create, Atomic!Update
  <2> QED
    BY <2>3 DEF Atomic!Next, Atomic!Run, Atomic!Apply
<1> QED
  BY <1>5, <1>6

\* A call without a word is a write without one, that changed nothing as yet.
LEMMA GiveUpMaps ==
  ASSUME CallsIInv, NEW c \in Calls, GiveUp(c)
  PROVE  Atomic!Next
<1>1. /\ Handled(c) /\ UNCHANGED <<kind, config, section, state, answer>> /\ Upset
      /\ phase' = "idle" /\ plan' = NoPlan /\ verdict' = "unknown"
  BY DEF GiveUp, RunEnds
<1>2. /\ stateTold = state /\ phaseTold = phase /\ answer.reply = "none"
      /\ stateTold' = state /\ phaseTold' = "idle" /\ planTold' = NoPlan
  BY <1>1, Pending, Undecided DEF stateTold, phaseTold, planTold
<1>3. \A obj : Atomic!Unanswered(obj)
  BY <1>1, <1>2, SameMarks DEF Atomic!Unanswered, Upset, Atomic!Upset
<1>4. \A why, obj : Atomic!Refuse(why) /\ Atomic!Write(obj)
  BY <1>3 DEF Atomic!Refuse, Atomic!Write
<1>5. CASE Method[c] = "DELETE"
  <2>1. config = NoConfig /\ state # NoState /\ kind # "singleton" /\ phase = "planned"
    BY <1>1, <1>5, Outcomes
  <2>2. Atomic!Delete
    BY <1>2, <1>3, <1>4, <2>1, SameRun, SameMarks DEF Atomic!Delete
  <2> QED
    BY <2>2 DEF Atomic!Next, Atomic!Run, Atomic!Apply
<1>6. CASE Method[c] # "DELETE"
  <2>1. Applying /\ (Creates \/ Updates)
    BY <1>1, <1>6, Outcomes
  <2>2. Atomic!Create \/ Atomic!Configure \/ Atomic!Update
    BY <1>2, <1>4, <2>1, SameRun, SameMarks DEF Atomic!Create, Atomic!Configure, Atomic!Update
  <2> QED
    BY <2>2 DEF Atomic!Next, Atomic!Run, Atomic!Apply
<1> QED
  BY <1>5, <1>6

\* What others edit, and a request that is handled late, is an edit.
LEMMA EditMaps ==
  ASSUME CallsIInv, UNCHANGED <<kind, config, state, phase, plan, answer>>,
         section' \in Sections(kind) \cup Missing(kind), section' # section,
         verdict' = "none", Upset
  PROVE  Atomic!Next
<1>1. stateTold' = stateTold /\ phaseTold' = phaseTold /\ planTold' = planTold
  <2>1. Read(answer.obj)' = Read(answer.obj)
    BY DEF Read, StateOf, Final
  <2> QED
    BY <2>1 DEF stateTold, phaseTold, planTold
<1>2. Atomic!Edit
  BY <1>1, SameSets, SameSections DEF Atomic!Edit, Upset, Atomic!Upset
<1> QED
  BY <1>2 DEF Atomic!Next

\* A step after which the caller knows no more than was known.
LEMMA StutterMaps ==
  ASSUME UNCHANGED <<kind, config, section, verdict, upsets>>,
         UNCHANGED <<stateTold, phaseTold, planTold>>
  PROVE  UNCHANGED Atomic!vars
  BY DEF Atomic!vars

\* Each step of the calls is a step of ResourceLifecycle or a stutter.
LEMMA CallsStep ==
  ASSUME CallsIInv, [CallsNext]_<<vars, callVars>>
  PROVE  [Atomic!Next]_(Atomic!vars)
<1>1. CASE UNCHANGED <<vars, callVars>>
  <2>1. UNCHANGED <<kind, config, section, verdict, upsets, state, phase, plan, answer>>
    BY <1>1 DEF vars, callVars
  <2>2. UNCHANGED <<stateTold, phaseTold, planTold>>
    BY <2>1 DEF stateTold, phaseTold, planTold, Read, StateOf, Final
  <2> QED
    BY <2>1, <2>2, StutterMaps
<1>2. ASSUME NEW c \in Calls, Send(c) PROVE UNCHANGED Atomic!vars
  <2>1. UNCHANGED <<kind, config, section, verdict, upsets, state, phase, plan, answer>>
    BY <1>2 DEF Send, vars
  <2>2. UNCHANGED <<stateTold, phaseTold, planTold>>
    BY <2>1 DEF stateTold, phaseTold, planTold, Read, StateOf, Final
  <2> QED
    BY <2>1, <2>2, StutterMaps
<1>3. ASSUME NEW c \in Calls, Return(c) PROVE UNCHANGED Atomic!vars
  <2>1. /\ answer.reply # "none" /\ answer'.reply = "none"
        /\ UNCHANGED <<kind, config, section, verdict, upsets>> /\ phase' = "idle" /\ plan' = NoPlan
        /\ state' = IF answer.reply = "ok" THEN Read(answer.obj) ELSE state
    BY <1>3 DEF Return, RunEnds, NoAnswer
  <2>2. UNCHANGED <<stateTold, phaseTold, planTold>>
    BY <2>1 DEF stateTold, phaseTold, planTold
  <2> QED
    BY <2>1, <2>2, StutterMaps
<1>4. ASSUME NEW c \in Calls, CommitLate(c) PROVE [Atomic!Next]_(Atomic!vars)
  <2>1. UNCHANGED <<kind, config, state, phase, plan, answer>>
    BY <1>4 DEF CommitLate
  <2>2. CASE section' = section
    <3>1. UNCHANGED <<verdict, upsets>>
      BY <1>4, <2>2 DEF CommitLate
    <3>2. UNCHANGED <<stateTold, phaseTold, planTold>>
      BY <2>1 DEF stateTold, phaseTold, planTold, Read, StateOf, Final
    <3> QED
      BY <2>1, <2>2, <3>1, <3>2, StutterMaps
  <2>3. CASE section' # section
    <3>1. section' \in Sections(kind) \cup Missing(kind)
      BY <1>4, ResultType DEF CommitLate
    <3>2. verdict' = "none" /\ Upset
      BY <1>4, <2>3 DEF CommitLate
    <3> QED
      BY <2>1, <2>3, <3>1, <3>2, EditMaps
  <2> QED
    BY <2>2, <2>3
<1>5. Alone /\ Rest /\ UNCHANGED callVars => Atomic!Next
  BY RestMaps DEF callVars, CallsIInv, OneAtATime, NoAnswer
<1>6. Edit /\ UNCHANGED callVars => Atomic!Next
  BY EditMaps DEF Edit, callVars
<1> QED
  BY <1>1, <1>2, <1>3, <1>4, <1>5, <1>6, CommitMaps, DenyMaps, GiveUpMaps DEF CallsNext

\* The start is one of ResourceLifecycle.
LEMMA CallsStart == CallsInit => Atomic!Init
<1> SUFFICES ASSUME CallsInit PROVE Atomic!Init
  OBVIOUS
<1>1. Init /\ answer.reply = "none"
  BY DEF CallsInit, NoAnswer
<1> QED
  BY <1>1, Undecided, SameMarks, SameSets, SameSections DEF Init, Atomic!Init

\* However late a request is handled, however its answer is lost and whatever others
\* edit in between (client.do, writeErr), each write of Create, Update and Delete is a
\* whole write of ResourceLifecycle or an edit by others.
THEOREM CallsAreWrites == CallsSpec => AtomicWrites
<1>1. CallsIInv /\ [CallsNext]_<<vars, callVars>> => [Atomic!Next]_(Atomic!vars)
  BY CallsStep
<1> QED
  BY CallsInitInv, CallsInductive, CallsStart, <1>1, PTL DEF CallsSpec, AtomicWrites, Atomic!Spec
=============================================================================
