---------------------------- MODULE ResourceCalls ----------------------------
(***************************************************************************)
(* The writes of one resource as calls of the client.  ResourceLifecycle    *)
(* lets a write and its answer be one step; here Create, Update or Delete    *)
(* sends a request, uapi handles it while others edit, and the answer comes  *)
(* back later or not at all.  A request that was given up may still be       *)
(* handled, in any later run.  Each call keeps CallContract.                 *)
(***************************************************************************)
EXTENDS ResourceLifecycle

CONSTANTS Calls,  \* bound: the writes that are sent
          Method  \* the HTTP method of each

Methods == {"POST", "PUT", "PATCH", "DELETE"}

ASSUME MethodAssumption == Method \in [Calls -> Methods]

VARIABLES stage, effects, told,  \* of each call, as in CallContract
          request,  \* what was sent in each call
          answer    \* what uapi answers to the call that is waited for

callVars == <<stage, effects, told, request, answer>>

Posts == {c \in Calls : Method[c] = "POST"}
Contract == INSTANCE CallContract
              WITH Creates <- Posts, Deletes <- {c \in Calls : Method[c] = "DELETE"},
                   Reads <- {}, verdict <- told

Replies == {"none",     \* uapi has not handled the request
            "ok",
            "refused",  \* an error, as in verdict
            "lost"}     \* committed, and the caller will not learn it

NoRequest == [proto |-> Null, named |-> Blank, match |-> NoState.etag]
NoAnswer  == [reply |-> "none", obj |-> NoSection]

Alone == \A c \in Calls : stage[c] # "pending"
-----------------------------------------------------------------------------
(* What the handlers send.  Without a state the etag is empty, and there is *)
(* no If-Match.                                                             *)

Sends(method) ==
  \/ Applying /\ Creates /\ method = (IF kind = "singleton" THEN "PATCH" ELSE "POST")
  \/ Applying /\ Updates /\ method = (IF Patches \/ kind = "singleton" THEN "PATCH" ELSE "PUT")
  \/ /\ phase = "planned" /\ config = NoConfig /\ state # NoState
     /\ kind # "singleton" /\ method = "DELETE"

RequestOfPlan == [proto |-> Final.proto, named |-> Final.set, match |-> state.etag]

Request == [proto |-> Final.proto,
            named |-> IF Updates /\ Patches THEN Delta
                      ELSE IF kind = "singleton" THEN wholeBody(Body) ELSE Body,
            match |-> state.etag]

Send(c) == /\ Alone
           /\ Sends(Method[c])
           /\ Contract!Invoke(c)
           /\ request' = [request EXCEPT ![c] = Request]
           /\ UNCHANGED <<vars, answer>>
-----------------------------------------------------------------------------
(* What uapi makes of a request, when it gets to it.                        *)

RefusalWithoutMatch(method, r) ==
  IF method = "POST"
  THEN IF r.proto \notin Known \/ scopeRefused(kind, r.named, r.proto) THEN "refused"
       ELSE IF section # NoSection THEN "conflict" ELSE "none"
  ELSE IF section = NoSection THEN "missing"
  ELSE IF \/ method = "PUT" /\ (r.proto \notin Known \/ scopeRefused(kind, r.named, r.proto))
          \/ method = "PATCH" /\ scopeRefused(kind, r.named, section.proto)
       THEN "refused"
  ELSE "none"

Refusal(method, r) ==
  IF method # "POST" /\ section # NoSection /\ r.match \notin {NoState.etag, ETag(section)}
  THEN "stale" ELSE RefusalWithoutMatch(method, r)

Result(method, r) ==
  CASE method = "POST"   -> Section(r.proto, r.named, {})
    [] method = "PUT"    -> Section(r.proto, keepWriteOnly(kind, section.set, r.named), {})
    [] method = "PATCH"  -> Section(section.proto,
                                    keepWriteOnly(kind, section.set, MergePatch(section.set, r.named)),
                                    section.options)
    [] method = "DELETE" -> NoSection

\* What the state becomes of a success.
Read(obj) == IF obj = NoSection THEN NoState ELSE StateOf(obj, Final.set)

Handled(c) == stage[c] = "pending" /\ answer = NoAnswer

\* The verdict is that of the write, until something changes: uapi has decided it.
Commit(c) ==
  /\ Handled(c)
  /\ Refusal(Method[c], request[c]) = "none"
  /\ Contract!TakeEffect(c)
  /\ section' = Result(Method[c], request[c])
  /\ \/ /\ answer' = [reply |-> "ok", obj |-> section']
        /\ verdict' = IF section' = NoSection \/ Fits(Read(section')) THEN "ok" ELSE "inconsistent"
        /\ UNCHANGED upsets
     \/ /\ answer' = [reply |-> "lost", obj |-> NoSection]
        /\ verdict' = "unknown"
        /\ Upset
  /\ UNCHANGED <<kind, config, state, phase, plan, request>>

\* A 404 is a success for the DELETE of the client, and an error for the others.
Deny(c) ==
  /\ Handled(c)
  /\ Refusal(Method[c], request[c]) # "none"
  /\ LET gone == Method[c] = "DELETE" /\ section = NoSection
     IN  /\ answer' = [reply |-> IF gone THEN "ok" ELSE "refused", obj |-> NoSection]
         /\ verdict' = IF gone THEN "ok" ELSE Refusal(Method[c], request[c])
  /\ UNCHANGED <<kind, config, section, state, phase, plan, upsets>>
  /\ UNCHANGED <<stage, effects, told, request>>

\* A request that was given up: whatever it still meets is checked then.
CommitLate(c) ==
  /\ stage[c] = "returned"
  /\ Refusal(Method[c], request[c]) = "none"
  /\ Contract!TakeEffect(c)
  /\ section' = Result(Method[c], request[c])
  /\ IF section' = section THEN UNCHANGED <<verdict, upsets>> ELSE verdict' = "none" /\ Upset
  /\ UNCHANGED <<kind, config, state, phase, plan, request, answer>>
-----------------------------------------------------------------------------
(* What the handlers are told.                                              *)

\* The call ends with an error that says nothing, or with the 423 or 429 of its last
\* attempt; the contract knows when it may.
NoWord(c) == \E v \in {"unknown", "refused"} : Contract!Return(c, v)

RunEnds == phase' = "idle" /\ plan' = NoPlan /\ UNCHANGED <<kind, config, section, request>>

Return(c) ==
  /\ stage[c] = "pending"
  /\ \/ answer.reply = "ok" /\ Contract!Return(c, "ok") /\ state' = Read(answer.obj)
     \/ answer.reply = "refused" /\ Contract!Return(c, "refused") /\ state' = state
     \/ answer.reply = "lost" /\ NoWord(c) /\ state' = state
  /\ answer' = NoAnswer
  /\ RunEnds
  /\ UNCHANGED <<verdict, upsets>>

\* An error of the connection, a cancel, the end of the process or of the budget, and
\* the request not handled, or not yet.
GiveUp(c) ==
  /\ Handled(c)
  /\ NoWord(c)
  /\ Upset
  /\ verdict' = "unknown"
  /\ RunEnds
  /\ UNCHANGED <<state, answer>>
-----------------------------------------------------------------------------
\* The rest of a run has no write; the Delete of a singleton only forgets.
Rest == \/ Refresh \/ MakePlan \/ PlanDestroy \/ RejectConfig \/ ApplyStopped \/ ApplyNothing
        \/ kind = "singleton" /\ Delete
        \/ Import \/ Reconfigure \/ SkipRefresh

CallsInit == /\ Init
             /\ Contract!Init
             /\ request = [c \in Calls |-> NoRequest]
             /\ answer = NoAnswer

CallsNext == \/ \E c \in Calls : \/ Send(c) \/ Commit(c) \/ Deny(c) \/ CommitLate(c)
                                 \/ Return(c) \/ GiveUp(c)
             \/ Alone /\ Rest /\ UNCHANGED callVars
             \/ Edit /\ UNCHANGED callVars

CallsSpec == CallsInit /\ [][CallsNext]_<<vars, callVars>>
-----------------------------------------------------------------------------
(* Properties. *)

\* What is sent holds values and never an unknown, and names each field unless it is a
\* merge patch; what is answered is a section of the kind, or none.
CallsTypeOK ==
  /\ Contract!TypeOK
  /\ DOMAIN request = Calls
  /\ \A c \in Calls : stage[c] # "idle" /\ Method[c] # "DELETE" =>
       /\ request[c].proto \in ProtoOf[kind]
       /\ \A f \in Fields :
            \/ request[c].named[f] \in Values(f)
            \/ Method[c] = "PATCH" /\ request[c].named[f] = Keep
  /\ answer \in [reply : Replies, obj : Sections(kind) \cup {NoSection}]

(* The write as one step: it happens when uapi handles the request, and what the  *)
(* caller will be told counts from then on.  That an answer will be lost is       *)
(* guessed then, in answer.                                                       *)
stateTold == IF answer.reply = "ok" THEN Read(answer.obj) ELSE state
phaseTold == IF answer.reply = "none" THEN phase ELSE "idle"
planTold  == IF answer.reply = "none" THEN plan ELSE NoPlan

Atomic == INSTANCE ResourceLifecycle
            WITH state <- stateTold, phase <- phaseTold, plan <- planTold

\* Edits between a request, its handling and its answer, and requests that are handled
\* after their run, add nothing to what ResourceLifecycle has: each behaviour is one of
\* whole writes and edits by others.  So its properties hold with calls as well.
AtomicWrites == Atomic!Spec
=============================================================================
