----------------------------- MODULE UapiClient -----------------------------
(***************************************************************************)
(* One process of the provider calling uapi.  Every call is a run of        *)
(* client.do (internal/client/client.go) with its retry loop, talking over  *)
(* a network that may drop, delay or repeat requests to a server that       *)
(* serializes the writes of one uci package behind a lock and remembers the *)
(* 2xx answer of a keyed POST.  Time is counted in ticks.                   *)
(***************************************************************************)
EXTENDS Integers

CONSTANTS Calls,          \* the calls of this process
          Method,         \* the HTTP method of each call
          MaxAttempts,    \* maxAttempts
          RetryBudget,    \* retryBudget
          ClientTimeout,  \* http.Client.Timeout
          Base, MaxWait,  \* base and maxWait of retryWait
          CapShift,       \* the attempt from which the backoff is maxWait
          RetryAfters,    \* the Retry-After values uapi may send
          LongestWait,    \* no wait is longer than this
          HoldTime,       \* how long a prompt server holds the package lock
          Faults          \* what may go wrong, a subset of FaultKinds

Methods == {"GET", "POST", "PUT", "PATCH", "DELETE"}
FaultKinds == {"loss",      \* a connection breaks, with or without the request
               "delay",     \* requests stay on the way while time passes
               "repeat",    \* net/http resends a keyed request on its own
               "hang",      \* the server holds the lock past HoldTime
               "refusal",   \* uapi answers 4xx or 5xx without applying
               "ratelimit", \* uapi answers 429 with the lock free
               "cancel"}    \* Terraform cancels the context

\* Exponential up to the cap, plus a jitter below base.
Backoff(k) == IF k < CapShift THEN Base * 2^k ELSE MaxWait
OwnWaits(k) == {Backoff(k) + j : j \in 0 .. Base - 1}

\* The waits after a 423 or 429: the server's Retry-After, unbounded by the
\* code, or the client's own backoff when the header is missing.
ThrottleWaits(k) == OwnWaits(k) \cup RetryAfters

ASSUME MethodAssumption == Method \in [Calls -> Methods]
ASSUME NumberAssumption == /\ MaxAttempts \in Nat
                           /\ RetryBudget \in Nat
                           /\ ClientTimeout \in Nat \ {0}
                           /\ HoldTime \in Nat
                           /\ LongestWait \in Nat
ASSUME FaultAssumption == Faults \subseteq FaultKinds
ASSUME WaitAssumption ==
         \A k \in 0 .. MaxAttempts : ThrottleWaits(k) \subseteq 0 .. LongestWait

VARIABLES pc,        \* where do() is: see PcValues
          attempt,   \* the loop variable
          elapsed,   \* ticks since the first retryable failure, NoFailure before
          timer,     \* ticks left of the request timeout or of the wait
          answer,    \* what has arrived on the connection of the attempt
          outcome,   \* what do() returned, "none" before
          cancelled, \* the context is done
          requests,  \* <<call, attempt>> sent and not yet picked up by uapi
          lock,      \* the request executing under the package lock, or Free
          hold,      \* ticks left of HoldTime
          applied,   \* how often the call changed the router
          keyed      \* the calls whose idempotency key has a cached answer

clientVars == <<pc, attempt, elapsed, timer, outcome>>
serverVars == <<requests, lock, hold, applied, keyed>>
vars == <<clientVars, answer, cancelled, serverVars>>

PcValues == {"idle",       \* before the call
             "sent",       \* in http.Client.Do or reading the body
             "throttled",  \* waiting after a 423 or 429
             "replaying",  \* waiting in replayPost
             "returned"}
Answers == {"ok", "refused", "gone", "throttled"}
Outcomes == Answers \cup {"transport", "timeout", "cancelled"}
Requests == Calls \X (0 .. MaxAttempts)
Free == <<>>
NoFailure == -1

TypeOK == /\ pc \in [Calls -> PcValues]
          /\ attempt \in [Calls -> 0 .. MaxAttempts]
          /\ elapsed \in [Calls -> Nat \cup {NoFailure}]
          /\ timer \in [Calls -> Nat]
          /\ answer \in [Calls -> Answers \cup {"none"}]
          /\ outcome \in [Calls -> Outcomes \cup {"none"}]
          /\ cancelled \in BOOLEAN
          /\ requests \subseteq Requests
          /\ lock \in Requests \cup {Free}
          /\ hold \in 0 .. HoldTime
          /\ applied \in [Calls -> Nat]
          /\ keyed \subseteq Calls

Init == /\ pc = [c \in Calls |-> "idle"]
        /\ attempt = [c \in Calls |-> 0]
        /\ elapsed = [c \in Calls |-> NoFailure]
        /\ timer = [c \in Calls |-> 0]
        /\ answer = [c \in Calls |-> "none"]
        /\ outcome = [c \in Calls |-> "none"]
        /\ cancelled = FALSE
        /\ requests = {}
        /\ lock = Free
        /\ hold = 0
        /\ applied = [c \in Calls |-> 0]
        /\ keyed = {}
-----------------------------------------------------------------------------
(* The client. *)

\* A new connection: whatever is still on the old one is never read.
Send(c, k) == /\ pc' = [pc EXCEPT ![c] = "sent"]
              /\ attempt' = [attempt EXCEPT ![c] = k]
              /\ timer' = [timer EXCEPT ![c] = ClientTimeout]
              /\ answer' = [answer EXCEPT ![c] = "none"]
              /\ requests' = requests \cup {<<c, k>>}

\* do's locals end with it.
Return(c, result) == /\ pc' = [pc EXCEPT ![c] = "returned"]
                     /\ outcome' = [outcome EXCEPT ![c] = result]
                     /\ timer' = [timer EXCEPT ![c] = 0]
                     /\ elapsed' = [elapsed EXCEPT ![c] = NoFailure]
                     /\ answer' = [answer EXCEPT ![c] = "none"]

\* GetObject and Delete turn a 404 into a success.
Result(c, status) == IF status = "gone" /\ Method[c] \in {"GET", "DELETE"}
                     THEN "ok" ELSE status

\* Time since the first retryable failure, this one included.
SinceFailure(c) == IF elapsed[c] = NoFailure THEN 0 ELSE elapsed[c]

\* The slips the runs must notice are written beside the definitions they vary.
MayRetryOneMore(c) == attempt[c] <= MaxAttempts /\ SinceFailure(c) < RetryBudget
MayRetryCounted(c) == attempt[c] < MaxAttempts
MayRetryOnce(c) == attempt[c] < 1

MayRetry(c) == attempt[c] < MaxAttempts /\ SinceFailure(c) < RetryBudget

MayReplayAnything(c) == MayRetry(c)

\* Only a POST: its key makes the repetition safe.
MayReplay(c) == Method[c] = "POST" /\ MayRetry(c)

Wait(c, why, waits) == /\ pc' = [pc EXCEPT ![c] = why]
                       /\ \E w \in waits : timer' = [timer EXCEPT ![c] = w]
                       /\ elapsed' = [elapsed EXCEPT ![c] = SinceFailure(c)]
                       /\ answer' = [answer EXCEPT ![c] = "none"]
                       /\ UNCHANGED <<attempt, outcome>>

Begin(c) == /\ pc[c] = "idle"
            /\ Send(c, 0)
            /\ UNCHANGED <<elapsed, outcome, cancelled, lock, hold, applied, keyed>>

ReceiveThrottled(c) ==
  /\ pc[c] = "sent"
  /\ answer[c] = "throttled"
  /\ \/ MayRetry(c) /\ Wait(c, "throttled", ThrottleWaits(attempt[c]))
     \/ ~MayRetry(c) /\ Return(c, "throttled") /\ UNCHANGED attempt
  /\ UNCHANGED <<cancelled, serverVars>>

ReceiveFinal(c) == /\ pc[c] = "sent"
                   /\ answer[c] \in {"ok", "refused", "gone"}
                   /\ Return(c, Result(c, answer[c]))
                   /\ UNCHANGED <<attempt, cancelled, serverVars>>

\* The connection breaks before the answer, or while its body is read.  The
\* request may be lost with it or still reach uapi.
LoseConnection(c) ==
  /\ "loss" \in Faults
  /\ pc[c] = "sent"
  /\ \/ MayReplay(c) /\ Wait(c, "replaying", OwnWaits(attempt[c]))
     \/ ~MayReplay(c) /\ Return(c, "transport") /\ UNCHANGED attempt
  /\ requests' \in {requests, requests \ {<<c, attempt[c]>>}}
  /\ UNCHANGED <<cancelled, lock, hold, applied, keyed>>

TimeoutOfBody(c) == /\ pc[c] = "sent"
                    /\ timer[c] = 0
                    /\ answer[c] # "none"
                    /\ Return(c, "timeout")
                    /\ UNCHANGED <<attempt, cancelled, serverVars>>

\* The 60 s client timeout: DeadlineExceeded, which is not replayed.
Timeout(c) == /\ pc[c] = "sent"
              /\ timer[c] = 0
              /\ Return(c, "timeout")
              /\ UNCHANGED <<attempt, cancelled, serverVars>>

Resend(c) == /\ pc[c] \in {"throttled", "replaying"}
             /\ timer[c] = 0
             /\ Send(c, attempt[c] + 1)
             /\ UNCHANGED <<elapsed, outcome, cancelled, lock, hold, applied, keyed>>

Cancel == /\ "cancel" \in Faults
          /\ ~cancelled
          /\ cancelled' = TRUE
          /\ UNCHANGED <<clientVars, answer, serverVars>>

\* A done context ends the request and both waits; replayPost's caller reports
\* the failure it was about to replay.
SeeCancelled(c) ==
  /\ cancelled
  /\ pc[c] \in {"sent", "throttled", "replaying"}
  /\ Return(c, IF pc[c] = "replaying" THEN "transport" ELSE "cancelled")
  /\ UNCHANGED <<attempt, cancelled, serverVars>>
-----------------------------------------------------------------------------
(* uapi, as the client relies on it: Read, TakeLock and Throttle meet a       *)
(* request that arrives, Commit and Refuse end the one that holds the lock.   *)

\* An answer is read only on the connection of the current attempt.
Answer(m, status) ==
  answer' = IF pc[m[1]] = "sent" /\ attempt[m[1]] = m[2] /\ answer[m[1]] = "none"
            THEN [answer EXCEPT ![m[1]] = status]
            ELSE answer

Consume(m) == requests' = requests \ {m}

Read(m) == /\ Method[m[1]] = "GET"
           /\ Consume(m)
           /\ \/ Answer(m, "ok")
              \/ Answer(m, "gone")
              \/ "refusal" \in Faults /\ Answer(m, "refused")
           /\ UNCHANGED <<clientVars, cancelled, lock, hold, applied, keyed>>

\* net/http resends a request with an Idempotency-Key when a reused connection
\* breaks: uapi may see such a request again.
TakeLock(m) == /\ Method[m[1]] # "GET"
               /\ lock = Free
               /\ lock' = m
               /\ hold' = HoldTime
               /\ \/ Consume(m)
                  \/ /\ "repeat" \in Faults
                     /\ Method[m[1]] = "POST"
                     /\ UNCHANGED requests
               /\ UNCHANGED <<clientVars, answer, cancelled, applied, keyed>>

Throttle(m) == /\ \/ lock # Free /\ Method[m[1]] # "GET"
                  \/ "ratelimit" \in Faults
               /\ Consume(m)
               /\ Answer(m, "throttled")
               /\ UNCHANGED <<clientVars, cancelled, lock, hold, applied, keyed>>

ReleaseLock == lock' = Free /\ hold' = 0

\* A 2xx.  The key of a POST is remembered with the change, and a key already
\* remembered gets its answer without a second change.
Commit(m) == /\ applied' = IF m[1] \in keyed THEN applied
                           ELSE [applied EXCEPT ![m[1]] = @ + 1]
             /\ keyed' = IF Method[m[1]] = "POST" THEN keyed \cup {m[1]} ELSE keyed
             /\ Answer(m, "ok")
             /\ ReleaseLock
             /\ UNCHANGED <<clientVars, cancelled, requests>>

Refuse(m) == /\ "refusal" \in Faults
             /\ m[1] \notin keyed
             /\ \/ Answer(m, "refused")
                \/ Method[m[1]] # "POST" /\ Answer(m, "gone")
             /\ ReleaseLock
             /\ UNCHANGED <<clientVars, cancelled, requests, applied, keyed>>
-----------------------------------------------------------------------------
(* Time.  The provider reacts at once: a tick waits for it. *)
Busy(c) == pc[c] \in {"sent", "throttled", "replaying"}

Reacting(c) == Busy(c) /\ (timer[c] = 0 \/ answer[c] # "none")

Tick == /\ \E c \in Calls : Busy(c)
        /\ \A c \in Calls : ~Reacting(c)
        /\ "delay" \in Faults \/ requests = {}
        /\ "hang" \in Faults \/ lock = Free \/ hold > 0
        /\ timer' = [c \in Calls |-> IF Busy(c) THEN timer[c] - 1 ELSE timer[c]]
        /\ elapsed' = [c \in Calls |-> IF elapsed[c] = NoFailure THEN NoFailure
                                       ELSE elapsed[c] + 1]
        /\ hold' = IF hold > 0 THEN hold - 1 ELSE 0
        /\ UNCHANGED <<pc, attempt, outcome, answer, cancelled, requests, lock,
                       applied, keyed>>

ClientStep(c) == \/ ReceiveThrottled(c)
                 \/ ReceiveFinal(c)
                 \/ Timeout(c)
                 \/ Resend(c)
                 \/ SeeCancelled(c)

ServerStep == \/ \E m \in requests : Read(m) \/ TakeLock(m) \/ Throttle(m)
              \/ \E m \in {lock} \ {Free} : Commit(m) \/ Refuse(m)

\* Every call has returned and nothing is on the way.
Quiet == /\ \A c \in Calls : pc[c] = "returned"
         /\ requests = {}
         /\ lock = Free
         /\ UNCHANGED vars

Next == \/ \E c \in Calls : Begin(c) \/ LoseConnection(c) \/ ClientStep(c)
        \/ Cancel
        \/ ServerStep
        \/ Tick
        \/ Quiet

Spec == Init /\ [][Next]_vars

\* Time passes and the provider's own goroutines run; nothing is assumed of the
\* network or of the server.
FairSpec == /\ Spec
            /\ WF_vars(Tick)
            /\ \A c \in Calls : WF_vars(ClientStep(c))

\* A server and a network that always go on, besides.
PromptSpec == FairSpec /\ WF_vars(ServerStep) /\ \A c \in Calls : WF_vars(Begin(c))
-----------------------------------------------------------------------------
(* Properties. *)

\* README.md 200: "so a retried POST cannot duplicate a resource".  However
\* often a call is sent, replayed, delayed or repeated, the router changes at
\* most once on its behalf: a POST because its key is remembered, any other
\* write because it is sent again only after uapi said it did nothing.
AtMostOnce == \A c \in Calls : applied[c] <= 1

\* The verdict of a call that is not a create can be believed: answered with an
\* error, it changed nothing, and no copy of it is left to change something.
RefusalIsFinal ==
  \A c \in Calls : Method[c] # "POST" /\ outcome[c] \in {"refused", "gone", "throttled"} =>
    /\ applied[c] = 0
    /\ \A m \in requests \cup {lock} : m # Free => m[1] # c

\* However the failures mix, a call keeps retrying no longer than the budget,
\* the one wait it allowed before the budget ran out and the request after it:
\* the deadline is shared by 423, 429 and transport failures and never reset.
BoundedRetrying ==
  \A c \in Calls : elapsed[c] < RetryBudget + LongestWait + ClientTimeout

\* A call returns, whatever the network and the server do.
Termination == \A c \in Calls : pc[c] = "sent" ~> pc[c] = "returned"

\* The comment at client.go 25-31: writers contending one lock drain
\* through instead of giving up.  With a prompt server and no failure but the
\* lock, every call succeeds, and every writer's change is on the router in the end.
EveryoneServed ==
  \A c \in Calls : <>(outcome[c] = "ok" /\ (Method[c] = "GET" \/ applied[c] = 1))

\* The call as its caller sees it.
Stage(c) == IF pc[c] \in {"idle", "returned"} THEN pc[c] ELSE "pending"

Verdict(c) == CASE outcome[c] \in {"none", "ok"} -> outcome[c]
                [] outcome[c] \in {"refused", "gone", "throttled"} -> "refused"
                [] outcome[c] \in {"transport", "timeout", "cancelled"} -> "unknown"

OfMethod(m) == {c \in Calls : Method[c] = m}

Contract == INSTANCE CallContract WITH Creates <- OfMethod("POST"),
                                       Deletes <- OfMethod("DELETE"),
                                       Reads <- OfMethod("GET"),
                                       stage <- [c \in Calls |-> Stage(c)],
                                       effects <- applied,
                                       verdict <- [c \in Calls |-> Verdict(c)]

\* do() and its callers implement the contract of a call.
KeepsContract == Contract!Spec
=============================================================================
