-------------------------- MODULE UapiClientProofs --------------------------
(***************************************************************************)
(* Proofs about UapiClient for every set of calls, every assignment of      *)
(* methods, every budget, timeout and wait, and every set of faults.        *)
(***************************************************************************)
EXTENDS UapiClient, TLAPS

\* A copy of the call's request that may still have an effect.
Live(c) == \E m \in requests \cup {lock} : m # Free /\ m[1] = c

\* A key is remembered exactly when its POST has changed the router.
KeyInv == \A c \in Calls :
  /\ c \in keyed => Method[c] = "POST" /\ applied[c] = 1
  /\ Method[c] = "POST" /\ c \notin keyed => applied[c] = 0

\* A call that is not a POST has one copy at most, that of its current attempt,
\* and none once the router changed or an answer came back.
SingleCopy(c) ==
  /\ lock \in Requests /\ lock[1] = c => lock \notin requests
  /\ \A m \in requests \cup {lock} : m # Free /\ m[1] = c =>
       /\ m[2] = attempt[c]
       /\ applied[c] = 0
       /\ answer[c] = "none"
       /\ \/ pc[c] = "sent"
          \/ pc[c] = "returned" /\ outcome[c] \in {"transport", "timeout", "cancelled"}
  /\ applied[c] \in {0, 1}
  /\ applied[c] = 1 => \/ pc[c] = "sent" /\ answer[c] = "ok"
                       \/ /\ pc[c] = "returned"
                          /\ outcome[c] \in {"ok", "transport", "timeout", "cancelled"}

CopyInv == \A c \in Calls : Method[c] # "POST" => SingleCopy(c)

\* A call that waits has attempts left and was allowed to wait before its budget
\* ran out; only a POST waits to replay.
WaitInv == \A c \in Calls :
  /\ pc[c] \in {"idle", "returned"} => elapsed[c] = NoFailure
  /\ pc[c] \in {"throttled", "replaying"} =>
       /\ attempt[c] < MaxAttempts
       /\ elapsed[c] + timer[c] < RetryBudget + LongestWait
  /\ pc[c] = "sent" /\ elapsed[c] # NoFailure =>
       elapsed[c] + timer[c] < RetryBudget + LongestWait + ClientTimeout
  /\ pc[c] = "replaying" => Method[c] = "POST"

\* What a success on the wire or returned says about the router.
OutcomeInv == \A c \in Calls :
  /\ pc[c] # "sent" => answer[c] = "none"
  /\ outcome[c] = "none" <=> pc[c] # "returned"
  /\ pc[c] = "idle" => ~Live(c) /\ applied[c] = 0
  /\ Method[c] # "GET" /\ answer[c] = "ok" => applied[c] = 1
  /\ Method[c] \notin {"GET", "DELETE"} /\ outcome[c] = "ok" => applied[c] = 1

ReadInv == /\ lock # Free => Method[lock[1]] # "GET"
           /\ \A c \in Calls : Method[c] = "GET" => applied[c] = 0

IInv == TypeOK /\ KeyInv /\ CopyInv /\ WaitInv /\ OutcomeInv /\ ReadInv
-----------------------------------------------------------------------------
\* The inductive invariant holds before the first call.
LEMMA InitInv == Init => IInv
<1> SUFFICES ASSUME Init PROVE IInv
  OBVIOUS
<1> USE DEF Init
<1>1. TypeOK
  <2>1. /\ pc \in [Calls -> PcValues]
        /\ answer \in [Calls -> Answers \cup {"none"}]
        /\ outcome \in [Calls -> Outcomes \cup {"none"}]
    BY DEF PcValues
  <2>2. /\ attempt \in [Calls -> 0 .. MaxAttempts]
        /\ elapsed \in [Calls -> Nat \cup {NoFailure}]
        /\ timer \in [Calls -> Nat]
        /\ applied \in [Calls -> Nat]
        /\ hold \in 0 .. HoldTime
    BY NumberAssumption
  <2>3. /\ cancelled \in BOOLEAN
        /\ requests \subseteq Requests
        /\ lock \in Requests \cup {Free}
        /\ keyed \subseteq Calls
    OBVIOUS
  <2>4. QED
    BY <2>1, <2>2, <2>3 DEF TypeOK
<1>2. KeyInv
  BY DEF KeyInv
<1>3. CopyInv
  BY DEF CopyInv, SingleCopy, Free, Requests
<1>4. WaitInv
  BY DEF WaitInv
<1>5. OutcomeInv
  BY DEF OutcomeInv, Live
<1>6. ReadInv
  BY DEF ReadInv
<1>7. QED
  BY <1>1, <1>2, <1>3, <1>4, <1>5, <1>6 DEF IInv

\* Every wait of retryWait, with or without Retry-After, is at most LongestWait.
LEMMA WaitsAreBounded ==
  ASSUME NEW k \in 0 .. MaxAttempts
  PROVE  /\ ThrottleWaits(k) \subseteq 0 .. LongestWait
         /\ OwnWaits(k) \subseteq 0 .. LongestWait
BY WaitAssumption DEF ThrottleWaits

\* Going to wait (the timer of do) keeps the types of what it changes.
LEMMA WaitStep ==
  ASSUME TypeOK, NEW c \in Calls, NEW why \in {"throttled", "replaying"},
         NEW waits \in SUBSET (0 .. LongestWait), Wait(c, why, waits)
  PROVE  /\ pc' \in [Calls -> PcValues]
         /\ attempt' \in [Calls -> 0 .. MaxAttempts]
         /\ elapsed' \in [Calls -> Nat \cup {NoFailure}]
         /\ timer' \in [Calls -> Nat]
         /\ answer' \in [Calls -> Answers \cup {"none"}]
         /\ outcome' \in [Calls -> Outcomes \cup {"none"}]
<1> USE NumberAssumption DEF TypeOK, Wait, PcValues, NoFailure, SinceFailure
<1>1. PICK w \in waits : timer' = [timer EXCEPT ![c] = w]
  OBVIOUS
<1>2. w \in Nat
  OBVIOUS
<1>3. QED
  BY <1>1, <1>2

\* Every step of the loop, the network and uapi keeps the types.
LEMMA TypeStep == IInv /\ [Next]_vars => TypeOK'
<1> SUFFICES ASSUME IInv, [Next]_vars PROVE TypeOK'
  OBVIOUS
<1> USE NumberAssumption
    DEF IInv, TypeOK, PcValues, Answers, Outcomes, NoFailure, Requests, Methods,
        Send, Return, serverVars, clientVars
<1>1. ASSUME NEW c \in Calls, Begin(c) PROVE TypeOK'
  BY <1>1 DEF Begin
<1>2. ASSUME NEW c \in Calls, LoseConnection(c) PROVE TypeOK'
  <2>1. CASE MayReplay(c)
    BY <1>2, <2>1, WaitsAreBounded, WaitStep DEF LoseConnection
  <2>2. CASE ~MayReplay(c)
    BY <1>2, <2>2 DEF LoseConnection
  <2>3. QED
    BY <2>1, <2>2
<1>3. ASSUME NEW c \in Calls, ReceiveThrottled(c) PROVE TypeOK'
  <2>1. CASE MayRetry(c)
    BY <1>3, <2>1, WaitsAreBounded, WaitStep DEF ReceiveThrottled
  <2>2. CASE ~MayRetry(c)
    BY <1>3, <2>2 DEF ReceiveThrottled
  <2>3. QED
    BY <2>1, <2>2
<1>4. ASSUME NEW c \in Calls, ReceiveFinal(c) PROVE TypeOK'
  BY <1>4 DEF ReceiveFinal, Result
<1>5. ASSUME NEW c \in Calls, Timeout(c) PROVE TypeOK'
  BY <1>5 DEF Timeout
<1>6. ASSUME NEW c \in Calls, Resend(c) PROVE TypeOK'
  BY <1>6 DEF Resend, WaitInv
<1>7. ASSUME NEW c \in Calls, SeeCancelled(c) PROVE TypeOK'
  BY <1>7 DEF SeeCancelled
<1>8. CASE Cancel
  BY <1>8 DEF Cancel
<1>9. ASSUME NEW m \in requests, Read(m) PROVE TypeOK'
  BY <1>9 DEF Read, Consume, Answer
<1>10. ASSUME NEW m \in requests, TakeLock(m) PROVE TypeOK'
  BY <1>10 DEF TakeLock, Consume
<1>11. ASSUME NEW m \in requests, Throttle(m) PROVE TypeOK'
  BY <1>11 DEF Throttle, Consume, Answer
<1>12. ASSUME NEW m \in {lock} \ {Free}, Commit(m) PROVE TypeOK'
  BY <1>12 DEF Commit, Answer, ReleaseLock
<1>13. ASSUME NEW m \in {lock} \ {Free}, Refuse(m) PROVE TypeOK'
  BY <1>13 DEF Refuse, Answer, ReleaseLock
<1>14. CASE Tick
  BY <1>14 DEF Tick, Busy, Reacting
<1>15. CASE UNCHANGED vars
  BY <1>15 DEF vars
<1>16. QED
  BY <1>1, <1>2, <1>3, <1>4, <1>5, <1>6, <1>7, <1>8,
     <1>9, <1>10, <1>11, <1>12, <1>13, <1>14, <1>15 DEF Next, ClientStep, ServerStep, Quiet

\* A key that uapi remembers is that of a write that it applied, and stays so.
LEMMA KeyStep == IInv /\ [Next]_vars => KeyInv'
<1> SUFFICES ASSUME IInv, [Next]_vars PROVE KeyInv'
  OBVIOUS
<1> USE DEF IInv, TypeOK, KeyInv, Requests, Send, Return, serverVars, clientVars
<1>1. ASSUME NEW c \in Calls, Begin(c) PROVE KeyInv'
  BY <1>1 DEF Begin
<1>2. ASSUME NEW c \in Calls, LoseConnection(c) PROVE KeyInv'
  BY <1>2 DEF LoseConnection, MayReplay, MayRetry, SinceFailure, Wait
<1>3. ASSUME NEW c \in Calls, ReceiveThrottled(c) PROVE KeyInv'
  BY <1>3 DEF ReceiveThrottled, MayRetry, SinceFailure, Wait
<1>4. ASSUME NEW c \in Calls, ReceiveFinal(c) PROVE KeyInv'
  BY <1>4 DEF ReceiveFinal, Result
<1>5. ASSUME NEW c \in Calls, Timeout(c) PROVE KeyInv'
  BY <1>5 DEF Timeout
<1>6. ASSUME NEW c \in Calls, Resend(c) PROVE KeyInv'
  BY <1>6 DEF Resend
<1>7. ASSUME NEW c \in Calls, SeeCancelled(c) PROVE KeyInv'
  BY <1>7 DEF SeeCancelled
<1>8. CASE Cancel
  BY <1>8 DEF Cancel
<1>9. ASSUME NEW m \in requests, Read(m) PROVE KeyInv'
  BY <1>9 DEF Read, Consume, Answer
<1>10. ASSUME NEW m \in requests, TakeLock(m) PROVE KeyInv'
  BY <1>10 DEF TakeLock, Consume
<1>11. ASSUME NEW m \in requests, Throttle(m) PROVE KeyInv'
  BY <1>11 DEF Throttle, Consume, Answer
<1>12. ASSUME NEW m \in {lock} \ {Free}, Commit(m) PROVE KeyInv'
  BY <1>12 DEF Commit, Answer, ReleaseLock
<1>13. ASSUME NEW m \in {lock} \ {Free}, Refuse(m) PROVE KeyInv'
  BY <1>13 DEF Refuse, Answer, ReleaseLock
<1>14. CASE Tick
  BY <1>14 DEF Tick, Busy, Reacting
<1>15. CASE UNCHANGED vars
  BY <1>15 DEF vars
<1>16. QED
  BY <1>1, <1>2, <1>3, <1>4, <1>5, <1>6, <1>7, <1>8,
     <1>9, <1>10, <1>11, <1>12, <1>13, <1>14, <1>15 DEF Next, ClientStep, ServerStep, Quiet

\* Elapsed time, attempts and waits keep the bounds that the deadline test gives.
LEMMA WaitInvStep == IInv /\ [Next]_vars => WaitInv'
<1> SUFFICES ASSUME IInv, [Next]_vars PROVE WaitInv'
  OBVIOUS
<1> USE NumberAssumption
    DEF IInv, TypeOK, WaitInv, PcValues, NoFailure, Requests, Send, Return,
        serverVars, clientVars
<1>1. ASSUME NEW c \in Calls, Begin(c) PROVE WaitInv'
  BY <1>1 DEF Begin
<1>2. ASSUME NEW c \in Calls, LoseConnection(c) PROVE WaitInv'
  <2>1. CASE MayReplay(c)
    <3>1. PICK w \in OwnWaits(attempt[c]) : timer' = [timer EXCEPT ![c] = w]
      BY <1>2, <2>1 DEF LoseConnection, Wait
    <3>2. w \in 0 .. LongestWait
      BY WaitsAreBounded
    <3>3. QED
      BY <1>2, <2>1, <3>1, <3>2 DEF LoseConnection, MayReplay, MayRetry, SinceFailure, Wait
  <2>2. CASE ~MayReplay(c)
    BY <1>2, <2>2 DEF LoseConnection
  <2>3. QED
    BY <2>1, <2>2
<1>3. ASSUME NEW c \in Calls, ReceiveThrottled(c) PROVE WaitInv'
  <2>1. CASE MayRetry(c)
    <3>1. PICK w \in ThrottleWaits(attempt[c]) : timer' = [timer EXCEPT ![c] = w]
      BY <1>3, <2>1 DEF ReceiveThrottled, Wait
    <3>2. w \in 0 .. LongestWait
      BY WaitsAreBounded
    <3>3. QED
      BY <1>3, <2>1, <3>1, <3>2 DEF ReceiveThrottled, MayRetry, SinceFailure, Wait
  <2>2. CASE ~MayRetry(c)
    BY <1>3, <2>2 DEF ReceiveThrottled
  <2>3. QED
    BY <2>1, <2>2
<1>4. ASSUME NEW c \in Calls, ReceiveFinal(c) PROVE WaitInv'
  BY <1>4 DEF ReceiveFinal, Result
<1>5. ASSUME NEW c \in Calls, Timeout(c) PROVE WaitInv'
  BY <1>5 DEF Timeout
<1>6. ASSUME NEW c \in Calls, Resend(c) PROVE WaitInv'
  BY <1>6 DEF Resend
<1>7. ASSUME NEW c \in Calls, SeeCancelled(c) PROVE WaitInv'
  BY <1>7 DEF SeeCancelled
<1>8. CASE Cancel
  BY <1>8 DEF Cancel
<1>9. ASSUME NEW m \in requests, Read(m) PROVE WaitInv'
  BY <1>9 DEF Read, Consume, Answer
<1>10. ASSUME NEW m \in requests, TakeLock(m) PROVE WaitInv'
  BY <1>10 DEF TakeLock, Consume
<1>11. ASSUME NEW m \in requests, Throttle(m) PROVE WaitInv'
  BY <1>11 DEF Throttle, Consume, Answer
<1>12. ASSUME NEW m \in {lock} \ {Free}, Commit(m) PROVE WaitInv'
  BY <1>12 DEF Commit, Answer, ReleaseLock
<1>13. ASSUME NEW m \in {lock} \ {Free}, Refuse(m) PROVE WaitInv'
  BY <1>13 DEF Refuse, Answer, ReleaseLock
<1>14. CASE Tick
  BY <1>14 DEF Tick, Busy, Reacting
<1>15. CASE UNCHANGED vars
  BY <1>15 DEF vars
<1>16. QED
  BY <1>1, <1>2, <1>3, <1>4, <1>5, <1>6, <1>7, <1>8,
     <1>9, <1>10, <1>11, <1>12, <1>13, <1>14, <1>15 DEF Next, ClientStep, ServerStep, Quiet

\* A GET never becomes a write.
LEMMA ReadStep == IInv /\ [Next]_vars => ReadInv'
<1> SUFFICES ASSUME IInv, [Next]_vars PROVE ReadInv'
  OBVIOUS
<1> USE DEF IInv, TypeOK, ReadInv, Requests, Free, Send, Return, serverVars, clientVars
<1>1. ASSUME NEW c \in Calls, Begin(c) PROVE ReadInv'
  BY <1>1 DEF Begin
<1>2. ASSUME NEW c \in Calls, LoseConnection(c) PROVE ReadInv'
  BY <1>2 DEF LoseConnection, MayReplay, MayRetry, SinceFailure, Wait
<1>3. ASSUME NEW c \in Calls, ReceiveThrottled(c) PROVE ReadInv'
  BY <1>3 DEF ReceiveThrottled, MayRetry, SinceFailure, Wait
<1>4. ASSUME NEW c \in Calls, ReceiveFinal(c) PROVE ReadInv'
  BY <1>4 DEF ReceiveFinal, Result
<1>5. ASSUME NEW c \in Calls, Timeout(c) PROVE ReadInv'
  BY <1>5 DEF Timeout
<1>6. ASSUME NEW c \in Calls, Resend(c) PROVE ReadInv'
  BY <1>6 DEF Resend
<1>7. ASSUME NEW c \in Calls, SeeCancelled(c) PROVE ReadInv'
  BY <1>7 DEF SeeCancelled
<1>8. CASE Cancel
  BY <1>8 DEF Cancel
<1>9. ASSUME NEW m \in requests, Read(m) PROVE ReadInv'
  BY <1>9 DEF Read, Consume, Answer
<1>10. ASSUME NEW m \in requests, TakeLock(m) PROVE ReadInv'
  BY <1>10 DEF TakeLock, Consume
<1>11. ASSUME NEW m \in requests, Throttle(m) PROVE ReadInv'
  BY <1>11 DEF Throttle, Consume, Answer
<1>12. ASSUME NEW m \in {lock} \ {Free}, Commit(m) PROVE ReadInv'
  BY <1>12 DEF Commit, Answer, ReleaseLock
<1>13. ASSUME NEW m \in {lock} \ {Free}, Refuse(m) PROVE ReadInv'
  BY <1>13 DEF Refuse, Answer, ReleaseLock
<1>14. CASE Tick
  BY <1>14 DEF Tick, Busy, Reacting
<1>15. CASE UNCHANGED vars
  BY <1>15 DEF vars
<1>16. QED
  BY <1>1, <1>2, <1>3, <1>4, <1>5, <1>6, <1>7, <1>8,
     <1>9, <1>10, <1>11, <1>12, <1>13, <1>14, <1>15 DEF Next, ClientStep, ServerStep, Quiet

\* What the caller was told stays true of the router.
LEMMA OutcomeStep == IInv /\ [Next]_vars => OutcomeInv'
<1> SUFFICES ASSUME IInv, [Next]_vars PROVE OutcomeInv'
  OBVIOUS
<1> USE DEF IInv, TypeOK, KeyInv, CopyInv, SingleCopy, OutcomeInv, ReadInv, Live, PcValues, Answers, Outcomes,
            Requests, Free, Send, Return, serverVars, clientVars
<1>1. ASSUME NEW c \in Calls, Begin(c) PROVE OutcomeInv'
  BY <1>1 DEF Begin
<1>2. ASSUME NEW c \in Calls, LoseConnection(c) PROVE OutcomeInv'
  BY <1>2 DEF LoseConnection, MayReplay, MayRetry, SinceFailure, Wait
<1>3. ASSUME NEW c \in Calls, ReceiveThrottled(c) PROVE OutcomeInv'
  BY <1>3 DEF ReceiveThrottled, MayRetry, SinceFailure, Wait
<1>4. ASSUME NEW c \in Calls, ReceiveFinal(c) PROVE OutcomeInv'
  BY <1>4 DEF ReceiveFinal, Result
<1>5. ASSUME NEW c \in Calls, Timeout(c) PROVE OutcomeInv'
  BY <1>5 DEF Timeout
<1>6. ASSUME NEW c \in Calls, Resend(c) PROVE OutcomeInv'
  BY <1>6 DEF Resend
<1>7. ASSUME NEW c \in Calls, SeeCancelled(c) PROVE OutcomeInv'
  BY <1>7 DEF SeeCancelled
<1>8. CASE Cancel
  BY <1>8 DEF Cancel
<1>9. ASSUME NEW m \in requests, Read(m) PROVE OutcomeInv'
  BY <1>9 DEF Read, Consume, Answer
<1>10. ASSUME NEW m \in requests, TakeLock(m) PROVE OutcomeInv'
  BY <1>10 DEF TakeLock, Consume
<1>11. ASSUME NEW m \in requests, Throttle(m) PROVE OutcomeInv'
  BY <1>11 DEF Throttle, Consume, Answer
<1>12. ASSUME NEW m \in {lock} \ {Free}, Commit(m) PROVE OutcomeInv'
  BY <1>12 DEF Commit, Answer, ReleaseLock
<1>13. ASSUME NEW m \in {lock} \ {Free}, Refuse(m) PROVE OutcomeInv'
  BY <1>13 DEF Refuse, Answer, ReleaseLock
<1>14. CASE Tick
  BY <1>14 DEF Tick, Busy, Reacting
<1>15. CASE UNCHANGED vars
  BY <1>15 DEF vars
<1>16. QED
  BY <1>1, <1>2, <1>3, <1>4, <1>5, <1>6, <1>7, <1>8,
     <1>9, <1>10, <1>11, <1>12, <1>13, <1>14, <1>15 DEF Next, ClientStep, ServerStep, Quiet

\* A call that is no POST has at most one copy on its way or under the lock.
LEMMA CopiesAreEqual ==
  ASSUME TypeOK, CopyInv, NEW c \in Calls, Method[c] # "POST",
         NEW m \in requests \cup {lock}, NEW n \in requests \cup {lock},
         m # Free, n # Free, m[1] = c, n[1] = c
  PROVE  m = n
<1>1. m \in Requests /\ n \in Requests
  BY DEF TypeOK
<1>2. m[2] = attempt[c] /\ n[2] = attempt[c]
  BY DEF CopyInv, SingleCopy
<1>3. QED
  BY <1>1, <1>2 DEF Requests

\* Copies of a request stay what their call still accounts for: only a POST, which
\* has a key, is ever in several places.
LEMMA CopyStep == IInv /\ [Next]_vars => CopyInv'
<1> SUFFICES ASSUME IInv, [Next]_vars PROVE CopyInv'
  OBVIOUS
<1> USE DEF IInv, TypeOK, CopyInv, SingleCopy, WaitInv, OutcomeInv, Live, PcValues, Answers, Outcomes,
            Requests, Free, Send, Return, serverVars, clientVars
<1>1. ASSUME NEW c \in Calls, Begin(c) PROVE CopyInv'
  BY <1>1 DEF Begin
<1>2. ASSUME NEW c \in Calls, LoseConnection(c) PROVE CopyInv'
  BY <1>2 DEF LoseConnection, MayReplay, MayRetry, SinceFailure, Wait
<1>3. ASSUME NEW c \in Calls, ReceiveThrottled(c) PROVE CopyInv'
  <2> SUFFICES ASSUME NEW d \in Calls, Method[d] # "POST" PROVE SingleCopy(d)'
    OBVIOUS
  <2>1. SingleCopy(d) /\ (c = d => ~Live(c) /\ applied[c] = 0)
    BY <1>3 DEF ReceiveThrottled
  <2>2. CASE MayRetry(c)
    BY <1>3, <2>1, <2>2 DEF ReceiveThrottled, Wait
  <2>3. CASE ~MayRetry(c)
    BY <1>3, <2>1, <2>3 DEF ReceiveThrottled
  <2>4. QED
    BY <2>2, <2>3
<1>4. ASSUME NEW c \in Calls, ReceiveFinal(c) PROVE CopyInv'
  BY <1>4 DEF ReceiveFinal, Result
<1>5. ASSUME NEW c \in Calls, Timeout(c) PROVE CopyInv'
  BY <1>5 DEF Timeout
<1>6. ASSUME NEW c \in Calls, Resend(c) PROVE CopyInv'
  BY <1>6 DEF Resend
<1>7. ASSUME NEW c \in Calls, SeeCancelled(c) PROVE CopyInv'
  BY <1>7 DEF SeeCancelled
<1>8. CASE Cancel
  BY <1>8 DEF Cancel
<1>9. ASSUME NEW m \in requests, Read(m) PROVE CopyInv'
  <2> SUFFICES ASSUME NEW c \in Calls, Method[c] # "POST" PROVE SingleCopy(c)'
    OBVIOUS
  <2>0. m \in Requests /\ m # Free
    BY <1>9
  <2>1. CASE c # m[1]
    <3>1. SingleCopy(c)
      BY DEF CopyInv
    <3>2. QED
      BY <1>9, <2>0, <2>1, <3>1 DEF Read, Consume, Answer
  <2>2. CASE c = m[1]
    <3>1. m \in requests => lock # m
      BY <2>0, <2>2
    <3>2. \A n \in requests' \cup {lock'} : n # Free => n[1] # c
      BY <1>9, <2>0, <2>2, <3>1, CopiesAreEqual DEF Read, Consume, Answer
    <3>3. SingleCopy(c) /\ (m \in requests \cup {lock})
      BY <1>9 DEF CopyInv
    <3>4. QED
      BY <1>9, <2>0, <2>2, <3>2, <3>3 DEF Read, Consume, Answer
  <2>3. QED
    BY <2>1, <2>2
<1>10. ASSUME NEW m \in requests, TakeLock(m) PROVE CopyInv'
  BY <1>10 DEF TakeLock, Consume
<1>11. ASSUME NEW m \in requests, Throttle(m) PROVE CopyInv'
  <2> SUFFICES ASSUME NEW c \in Calls, Method[c] # "POST" PROVE SingleCopy(c)'
    OBVIOUS
  <2>0. m \in Requests /\ m # Free
    BY <1>11
  <2>1. CASE c # m[1]
    <3>1. SingleCopy(c)
      BY DEF CopyInv
    <3>2. QED
      BY <1>11, <2>0, <2>1, <3>1 DEF Throttle, Consume, Answer
  <2>2. CASE c = m[1]
    <3>1. m \in requests => lock # m
      BY <2>0, <2>2
    <3>2. \A n \in requests' \cup {lock'} : n # Free => n[1] # c
      BY <1>11, <2>0, <2>2, <3>1, CopiesAreEqual DEF Throttle, Consume, Answer
    <3>3. SingleCopy(c) /\ (m \in requests \cup {lock})
      BY <1>11 DEF CopyInv
    <3>4. QED
      BY <1>11, <2>0, <2>2, <3>2, <3>3 DEF Throttle, Consume, Answer
  <2>3. QED
    BY <2>1, <2>2
<1>12. ASSUME NEW m \in {lock} \ {Free}, Commit(m) PROVE CopyInv'
  <2> SUFFICES ASSUME NEW c \in Calls, Method[c] # "POST" PROVE SingleCopy(c)'
    OBVIOUS
  <2>0. m \in Requests /\ m # Free
    BY <1>12
  <2>1. CASE c # m[1]
    <3>1. SingleCopy(c)
      BY DEF CopyInv
    <3>2. QED
      BY <1>12, <2>0, <2>1, <3>1 DEF Commit, Answer, ReleaseLock
  <2>2. CASE c = m[1]
    <3>1. m \in requests => lock # m
      BY <2>0, <2>2
    <3>2. \A n \in requests' \cup {lock'} : n # Free => n[1] # c
      BY <1>12, <2>0, <2>2, <3>1, CopiesAreEqual DEF Commit, Answer, ReleaseLock
    <3>3. SingleCopy(c) /\ (m \in requests \cup {lock})
      BY <1>12 DEF CopyInv
    <3>4. QED
      BY <1>12, <2>0, <2>2, <3>2, <3>3 DEF Commit, Answer, ReleaseLock
  <2>3. QED
    BY <2>1, <2>2
<1>13. ASSUME NEW m \in {lock} \ {Free}, Refuse(m) PROVE CopyInv'
  <2> SUFFICES ASSUME NEW c \in Calls, Method[c] # "POST" PROVE SingleCopy(c)'
    OBVIOUS
  <2>0. m \in Requests /\ m # Free
    BY <1>13
  <2>1. CASE c # m[1]
    <3>1. SingleCopy(c)
      BY DEF CopyInv
    <3>2. QED
      BY <1>13, <2>0, <2>1, <3>1 DEF Refuse, Answer, ReleaseLock
  <2>2. CASE c = m[1]
    <3>1. m \in requests => lock # m
      BY <2>0, <2>2
    <3>2. \A n \in requests' \cup {lock'} : n # Free => n[1] # c
      BY <1>13, <2>0, <2>2, <3>1, CopiesAreEqual DEF Refuse, Answer, ReleaseLock
    <3>3. SingleCopy(c) /\ (m \in requests \cup {lock})
      BY <1>13 DEF CopyInv
    <3>4. QED
      BY <1>13, <2>0, <2>2, <3>2, <3>3 DEF Refuse, Answer, ReleaseLock
  <2>3. QED
    BY <2>1, <2>2
<1>14. CASE Tick
  BY <1>14 DEF Tick, Busy, Reacting
<1>15. CASE UNCHANGED vars
  BY <1>15 DEF vars
<1>16. QED
  BY <1>1, <1>2, <1>3, <1>4, <1>5, <1>6, <1>7, <1>8,
     <1>9, <1>10, <1>11, <1>12, <1>13, <1>14, <1>15 DEF Next, ClientStep, ServerStep, Quiet

\* The invariant holds in every reachable state.
LEMMA Inductive == Spec => []IInv
<1>1. Init => IInv
  BY InitInv
<1>2. IInv /\ [Next]_vars => IInv'
  BY TypeStep, KeyStep, CopyStep, WaitInvStep, OutcomeStep, ReadStep DEF IInv
<1>3. QED
  BY <1>1, <1>2, PTL DEF Spec
-----------------------------------------------------------------------------
\* Every variable keeps its type: in particular no attempt number exceeds
\* maxAttempts, although do() tests the bound only when an attempt fails.
THEOREM TypeCorrect == Spec => []TypeOK
<1>1. IInv => TypeOK
  BY DEF IInv
<1>2. QED
  BY <1>1, Inductive, PTL

\* A call changes the router at most once, whatever is lost, late or repeated.
THEOREM NoDuplicateWrite == Spec => []AtMostOnce
<1>1. IInv => AtMostOnce
  <2> SUFFICES ASSUME IInv, NEW c \in Calls PROVE applied[c] <= 1
    BY DEF AtMostOnce
  <2>1. applied[c] \in {0, 1}
    BY DEF IInv, KeyInv, CopyInv, SingleCopy
  <2>2. QED
    BY <2>1
<1>2. QED
  BY <1>1, Inductive, PTL

\* An error answered to an update or a delete means it did not happen and
\* will not.
THEOREM RefusalsAreFinal == Spec => []RefusalIsFinal
<1>1. IInv => RefusalIsFinal
  BY DEF IInv, RefusalIsFinal, CopyInv, SingleCopy, OutcomeInv, TypeOK
<1>2. QED
  BY <1>1, Inductive, PTL

\* The time a call spends on retries is bounded by the budget, one wait and one
\* request.
THEOREM RetryingIsBounded == Spec => []BoundedRetrying
<1>1. IInv => BoundedRetrying
  <2> SUFFICES ASSUME IInv, NEW c \in Calls
               PROVE  elapsed[c] < RetryBudget + LongestWait + ClientTimeout
    BY DEF BoundedRetrying
  <2>1. /\ elapsed[c] \in Nat \cup {NoFailure}
        /\ timer[c] \in Nat
        /\ pc[c] \in PcValues
    BY DEF IInv, TypeOK
  <2>2. QED
    BY <2>1, NumberAssumption DEF IInv, WaitInv, PcValues, NoFailure
<1>2. QED
  BY <1>1, Inductive, PTL
-----------------------------------------------------------------------------
\* Everything but a call's first send, its return and a first commit leaves the
\* caller's view as it is.
LEMMA ContractStep == IInv /\ [Next]_vars => [Contract!Next]_Contract!vars
<1> SUFFICES ASSUME IInv, [Next]_vars PROVE [Contract!Next]_Contract!vars
  OBVIOUS
<1> DEFINE view == <<[c \in Calls |-> Stage(c)], applied, [c \in Calls |-> Verdict(c)]>>
<1>0. Contract!vars = view /\ (view' = view => [Contract!Next]_Contract!vars)
  BY DEF Contract!vars
<1> USE DEF IInv, TypeOK, Stage, Verdict, Send, serverVars, clientVars
<1>1. ASSUME NEW c \in Calls, Begin(c) PROVE [Contract!Next]_Contract!vars
  <2>1. /\ Stage(c) = "idle"
        /\ [d \in Calls |-> Stage(d)]' = [[d \in Calls |-> Stage(d)] EXCEPT ![c] = "pending"]
    BY <1>1 DEF Begin
  <2>2. UNCHANGED <<applied, outcome>>
    BY <1>1 DEF Begin
  <2>3. Contract!Invoke(c)
    BY <2>1, <2>2 DEF Contract!Invoke
  <2>4. QED
    BY <2>3 DEF Contract!Next
<1>2. ASSUME NEW c \in Calls, NEW r \in Outcomes, Return(c, r), pc[c] # "idle",
             pc[c] # "returned", UNCHANGED applied,
             r = "ok" => applied[c] = 1 \/ Method[c] \in {"GET", "DELETE"},
             r \in {"refused", "gone", "throttled"} => applied[c] = 0 \/ Method[c] = "POST"
      PROVE  [Contract!Next]_Contract!vars
  <2> DEFINE v == IF r \in {"none", "ok"} THEN r
                  ELSE IF r \in {"refused", "gone", "throttled"} THEN "refused"
                  ELSE "unknown"
  <2>1. v \in {"ok", "refused", "unknown"}
    BY DEF Outcomes, Answers
  <2>2. Contract!Return(c, v)
    BY <1>2 DEF Return, Contract!Return, OfMethod, Outcomes, Answers
  <2>3. QED
    BY <2>1, <2>2 DEF Contract!Next
<1>3. ASSUME NEW c \in Calls, LoseConnection(c) PROVE [Contract!Next]_Contract!vars
  <2>1. CASE MayReplay(c)
    <3>1. UNCHANGED <<applied, outcome>> /\ pc[c] = "sent"
      BY <1>3, <2>1 DEF LoseConnection, Wait
    <3>2. \E why \in {"throttled", "replaying"} : pc' = [pc EXCEPT ![c] = why]
      BY <1>3, <2>1 DEF LoseConnection, Wait
    <3>3. \A d \in Calls : Stage(d)' = Stage(d)
      BY <3>1, <3>2
    <3>4. view' = view
      BY <3>1, <3>3
    <3>5. QED
      BY <3>4, <1>0
  <2>2. CASE ~MayReplay(c)
    BY <1>3, <2>2, <1>2 DEF LoseConnection, Outcomes
  <2>3. QED
    BY <2>1, <2>2
<1>4. ASSUME NEW c \in Calls, ReceiveThrottled(c) PROVE [Contract!Next]_Contract!vars
  <2>1. CASE MayRetry(c)
    <3>1. UNCHANGED <<applied, outcome>> /\ pc[c] = "sent"
      BY <1>4, <2>1 DEF ReceiveThrottled, Wait
    <3>2. \E why \in {"throttled", "replaying"} : pc' = [pc EXCEPT ![c] = why]
      BY <1>4, <2>1 DEF ReceiveThrottled, Wait
    <3>3. \A d \in Calls : Stage(d)' = Stage(d)
      BY <3>1, <3>2
    <3>4. view' = view
      BY <3>1, <3>3
    <3>5. QED
      BY <3>4, <1>0
  <2>2. CASE ~MayRetry(c)
    <3>1. applied[c] = 0 \/ Method[c] = "POST"
      BY <1>4 DEF ReceiveThrottled, CopyInv, SingleCopy
    <3>2. QED
      BY <1>4, <2>2, <3>1, <1>2 DEF ReceiveThrottled, Outcomes, Answers
  <2>3. QED
    BY <2>1, <2>2
<1>5. ASSUME NEW c \in Calls, ReceiveFinal(c) PROVE [Contract!Next]_Contract!vars
  <2>1. Result(c, answer[c]) = "ok" => applied[c] = 1 \/ Method[c] \in {"GET", "DELETE"}
    BY <1>5 DEF ReceiveFinal, Result, OutcomeInv
  <2>2. answer[c] # "ok" => applied[c] = 0 \/ Method[c] = "POST"
    BY <1>5 DEF ReceiveFinal, CopyInv, SingleCopy
  <2>3. QED
    BY <1>5, <2>1, <2>2, <1>2 DEF ReceiveFinal, Result, Outcomes, Answers
<1>6. ASSUME NEW c \in Calls, Timeout(c) PROVE [Contract!Next]_Contract!vars
  BY <1>6, <1>2 DEF Timeout, Outcomes
<1>7. ASSUME NEW c \in Calls, Resend(c) PROVE [Contract!Next]_Contract!vars
  <2>1. view' = view
    BY <1>7 DEF Resend
  <2>2. QED
    BY <2>1, <1>0
<1>8. ASSUME NEW c \in Calls, SeeCancelled(c) PROVE [Contract!Next]_Contract!vars
  BY <1>8, <1>2 DEF SeeCancelled, Outcomes
<1>9. ASSUME UNCHANGED <<clientVars, applied>> PROVE [Contract!Next]_Contract!vars
  <2>1. view' = view
    BY <1>9
  <2>2. QED
    BY <2>1, <1>0
<1>10. ASSUME NEW m \in {lock} \ {Free}, Commit(m) PROVE [Contract!Next]_Contract!vars
  <2>1. CASE m[1] \in keyed
    BY <1>9, <1>10, <2>1 DEF Commit
  <2>2. CASE m[1] \notin keyed
    <3> DEFINE c == m[1]
    <3>1. c \in Calls /\ m = lock /\ Method[c] # "GET"
      BY DEF Requests, ReadInv
    <3>2. applied[c] = 0 /\ pc[c] # "idle"
      BY <2>2, <3>1 DEF KeyInv, CopyInv, SingleCopy, OutcomeInv, Live
    <3>3. /\ outcome[c] # "ok"
          /\ Method[c] # "POST" => outcome[c] \notin {"refused", "gone", "throttled"}
      <4>1. CASE Method[c] = "POST"
        BY <3>1, <3>2, <4>1 DEF OutcomeInv
      <4>2. CASE Method[c] # "POST"
        BY <3>1, <4>2 DEF CopyInv, SingleCopy, OutcomeInv
      <4>3. QED
        BY <4>1, <4>2
    <3>4. applied' = [applied EXCEPT ![c] = 1]
      BY <1>10, <2>2, <3>1, <3>2 DEF Commit
    <3>5. Contract!TakeEffect(c)
      BY <1>10, <3>1, <3>2, <3>3, <3>4
         DEF Commit, Contract!TakeEffect, OfMethod, Outcomes, Answers, PcValues
    <3>6. QED
      BY <3>1, <3>5 DEF Contract!Next
  <2>3. QED
    BY <2>1, <2>2
<1>11. CASE Tick
  <2>1. view' = view
    BY <1>11 DEF Tick
  <2>2. QED
    BY <2>1, <1>0
<1>12. QED
  BY <1>1, <1>3, <1>4, <1>5, <1>6, <1>7, <1>8, <1>9, <1>10, <1>11
     DEF Next, ClientStep, ServerStep, Quiet, Cancel, Read, TakeLock, Throttle, Refuse, vars

\* client.do, with GetObject, Post, Put, Patch and Delete above it, implements
\* the contract of a call.
THEOREM ClientKeepsContract == Spec => KeepsContract
<1>1. Init => Contract!Init
  BY DEF Init, Contract!Init, Stage, Verdict
<1>2. QED
  BY <1>1, ContractStep, Inductive, PTL DEF Spec, KeepsContract, Contract!Spec
=============================================================================
