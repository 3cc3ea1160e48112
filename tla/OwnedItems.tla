------------------------------ MODULE OwnedItems ------------------------------
(***************************************************************************)
(* What Terraform may do with the items of one collection that several      *)
(* resources and other programs share: a resource gets a claim on an item   *)
(* by making it or by an import, an item goes away only by somebody who has *)
(* a claim on it, or had one when asking for it without an answer, or by    *)
(* others, and what is there is not made again, unless the collection       *)
(* overwrites.                                                              *)
(***************************************************************************)
CONSTANTS Resources, Ids

VARIABLES overwrites,  \* whether a create replaces what has the same id
          maker,       \* of each item: a resource, "others", or "none"
          claims,      \* pairs of a resource and an id
          sent         \* ids whose removal was asked for and not answered

vars == <<overwrites, maker, claims, sent>>

Init == /\ overwrites \in BOOLEAN
        /\ maker \in [Ids -> {"none", "others"}]
        /\ claims = {}
        /\ sent = {}

\* The answer may be lost, and the request late: then nobody has a claim.
Make(r, i) == /\ maker[i] = "none" \/ overwrites
              /\ maker' = [maker EXCEPT ![i] = r]
              /\ claims' \in {claims, claims \cup {<<r, i>>}}
              /\ sent' = sent

Remove(r, i) == /\ <<r, i>> \in claims
                /\ maker' = [maker EXCEPT ![i] = "none"]
                /\ claims' \in {claims, claims \ {<<r, i>>}}
                /\ sent' = sent

\* A removal without an answer: the claim stays, unless nobody is to ask again.
Ask(r, i) == /\ <<r, i>> \in claims
             /\ sent' = sent \cup {i}
             /\ claims' \in {claims, claims \ {<<r, i>>}}
             /\ maker' = maker

RemoveLate(i) == /\ i \in sent
                 /\ maker' = [maker EXCEPT ![i] = "none"]
                 /\ sent' \in {sent, sent \ {i}}
                 /\ claims' = claims

\* A refresh finds the item gone, or the run dies.
Forget(r, i) == /\ claims' = claims \ {<<r, i>>}
                /\ UNCHANGED <<maker, sent>>

Import(r, i) == /\ maker[i] # "none"
                /\ \A s \in Resources : <<s, i>> \notin claims
                /\ claims' = claims \cup {<<r, i>>}
                /\ UNCHANGED <<maker, sent>>

\* Of what no resource has.  The adoption of an anonymous section gives it a new id.
Adopt(r, i, j) == /\ maker[i] # "none" /\ maker[j] = "none"
                  /\ \A s \in Resources : <<s, i>> \notin claims
                  /\ maker' = [maker EXCEPT ![i] = "none", ![j] = maker[i]]
                  /\ claims' \in {claims, claims \cup {<<r, j>>}}
                  /\ sent' = sent

Others(i) == /\ \/ maker[i] = "none" /\ maker' = [maker EXCEPT ![i] = "others"]
                \/ maker[i] # "none" /\ maker' = [maker EXCEPT ![i] = "none"]
             /\ UNCHANGED <<claims, sent>>

Next == /\ overwrites' = overwrites
        /\ \/ \E r \in Resources, i \in Ids :
                Make(r, i) \/ Remove(r, i) \/ Ask(r, i) \/ Forget(r, i) \/ Import(r, i)
           \/ \E r \in Resources, i, j \in Ids : Adopt(r, i, j)
           \/ \E i \in Ids : RemoveLate(i) \/ Others(i)

Spec == Init /\ [][Next]_vars
=============================================================================
