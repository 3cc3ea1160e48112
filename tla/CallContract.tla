---------------------------- MODULE CallContract ----------------------------
(***************************************************************************)
(* What one call of the uapi client promises its caller, without HTTP,      *)
(* retries, keys or clocks.  A call is invoked, it may take effect on the   *)
(* router at most once, and it returns one verdict:                         *)
(*                                                                          *)
(*   "ok"       the answer was a success: a write is on the router;         *)
(*   "refused"  uapi answered with an error: a write that is not a create   *)
(*              did not happen and never will;                              *)
(*   "unknown"  no answer was read: the write may have happened, and may    *)
(*              still happen after the caller has given up.                 *)
(*                                                                          *)
(* A create is weaker than the other writes: it may be refused although an  *)
(* earlier transmission of it took effect.                                  *)
(***************************************************************************)
CONSTANTS Calls,    \* the calls of one Terraform operation
          Creates,  \* those that are a POST
          Deletes,  \* those that are a DELETE
          Reads     \* those that are a GET

VARIABLES stage,    \* "idle", "pending" or "returned"
          effects,  \* how often the call took effect on the router
          verdict   \* what the caller was told, "none" before it returned

vars == <<stage, effects, verdict>>

TypeOK == /\ stage \in [Calls -> {"idle", "pending", "returned"}]
          /\ effects \in [Calls -> {0, 1}]
          /\ verdict \in [Calls -> {"none", "ok", "refused", "unknown"}]

Init == /\ stage = [c \in Calls |-> "idle"]
        /\ effects = [c \in Calls |-> 0]
        /\ verdict = [c \in Calls |-> "none"]

Invoke(c) == /\ stage[c] = "idle"
             /\ stage' = [stage EXCEPT ![c] = "pending"]
             /\ UNCHANGED <<effects, verdict>>

\* A write takes effect once, while the call is pending or after a return that
\* did not rule it out.
TakeEffect(c) == /\ stage[c] # "idle"
                 /\ c \notin Reads
                 /\ effects[c] = 0
                 /\ verdict[c] = "refused" => c \in Creates
                 /\ verdict[c] # "ok"
                 /\ effects' = [effects EXCEPT ![c] = 1]
                 /\ UNCHANGED <<stage, verdict>>

Return(c, v) == /\ stage[c] = "pending"
                /\ v = "ok" => \/ effects[c] = 1
                               \/ c \in Reads \cup Deletes
                /\ v = "refused" => \/ effects[c] = 0
                                    \/ c \in Creates
                /\ stage' = [stage EXCEPT ![c] = "returned"]
                /\ verdict' = [verdict EXCEPT ![c] = v]
                /\ UNCHANGED effects

Next == \E c \in Calls : \/ Invoke(c)
                         \/ TakeEffect(c)
                         \/ \E v \in {"ok", "refused", "unknown"} : Return(c, v)

Spec == Init /\ [][Next]_vars
=============================================================================
